--------------------------- MODULE ObjectLending ----------------------------
(***************************************************************************)
(* What a pool of reusable objects promises, without the pool: an object   *)
(* is made when there is no spare one, it is lent or spare from then on    *)
(* and, once destroyed, it is never seen again. Nothing is lost: an object *)
(* that is neither lent nor spare has been destroyed.                      *)
(***************************************************************************)
CONSTANT Objects

VARIABLE status

Spares == {o \in Objects : status[o] = "spare"}

Init == status = [o \in Objects |-> "unborn"]

Make(o) ==
  /\ status[o] = "unborn"
  /\ Spares = {}
  /\ status' = [status EXCEPT ![o] = "lent"]

Lend(o) ==
  /\ status[o] = "spare"
  /\ status' = [status EXCEPT ![o] = "lent"]

GiveBack(o) ==
  /\ status[o] = "lent"
  /\ status' = [status EXCEPT ![o] = "spare"]

Discard(o) ==
  /\ status[o] = "lent"
  /\ status' = [status EXCEPT ![o] = "destroyed"]

Trim(S) ==
  /\ S \subseteq Spares
  /\ status' = [o \in Objects |-> IF o \in S THEN "destroyed" ELSE status[o]]

Next ==
  \/ \E o \in Objects : Make(o) \/ Lend(o) \/ GiveBack(o) \/ Discard(o)
  \/ \E S \in SUBSET Objects : Trim(S)

Spec == Init /\ [][Next]_status
=============================================================================
