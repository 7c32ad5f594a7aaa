---------------------------- MODULE RequestReply ----------------------------
(***************************************************************************)
(* What a request over Malamute promises its caller, whatever mailboxes,   *)
(* timeouts and connections do: each request is answered at most once, and *)
(* a caller is handed the answer to the request it waits for, once, or     *)
(* none. Anything may get lost on the way, and anyone may give up.         *)
(***************************************************************************)
CONSTANTS Callers, Ids

VARIABLES
  last,     \* the request each caller made, or waits for
  stage,    \* "asking", "waiting", or how that ended: "reply" or "none"
  used,     \* requests made so far
  asked,    \* requests on their way to who answers them
  answered  \* answers on their way back

vars == <<last, stage, used, asked, answered>>

Busy(c) == stage[c] \in {"asking", "waiting"}

Init ==
  /\ last = [c \in Callers |-> 0]
  /\ stage = [c \in Callers |-> "none"]
  /\ used = {}
  /\ asked = {}
  /\ answered = {}

\* A new request; it may fail at once.
Begin(c) ==
  /\ ~Busy(c)
  /\ \E r \in Ids \ used :
       /\ last' = [last EXCEPT ![c] = r]
       /\ used' = used \cup {r}
  /\ \E s \in {"asking", "none"} : stage' = [stage EXCEPT ![c] = s]
  /\ UNCHANGED <<asked, answered>>

\* Wait, perhaps again, for the answer to a request made before.
Claim(c) ==
  /\ ~Busy(c)
  /\ \E r \in used : last' = [last EXCEPT ![c] = r]
  /\ stage' = [stage EXCEPT ![c] = "waiting"]
  /\ UNCHANGED <<used, asked, answered>>

Send(c) ==
  /\ stage[c] = "asking"
  /\ \E s \in {"waiting", "none"} : stage' = [stage EXCEPT ![c] = s]
  /\ asked' \in {asked, asked \cup {last[c]}}
  /\ UNCHANGED <<last, used, answered>>

Answer ==
  /\ \E r \in asked :
       /\ asked' = asked \ {r}
       /\ answered' = answered \cup {r}
  /\ UNCHANGED <<last, stage, used>>

\* What is left of the caller's mailbox may go with the answer it takes.
Return(c) ==
  /\ stage[c] = "waiting"
  /\ last[c] \in answered
  /\ stage' = [stage EXCEPT ![c] = "reply"]
  /\ answered' \subseteq answered \ {last[c]}
  /\ UNCHANGED <<last, used, asked>>

GiveUp(callers) ==
  /\ stage' = [c \in Callers |-> IF c \in callers THEN "none" ELSE stage[c]]
  /\ answered' \subseteq answered
  /\ UNCHANGED <<last, used, asked>>

Lose ==
  /\ asked' \subseteq asked
  /\ answered' \subseteq answered
  /\ UNCHANGED <<last, stage, used>>

Next ==
  \/ \E c \in Callers : Begin(c) \/ Claim(c) \/ Send(c) \/ Return(c)
  \/ Answer
  \/ \E callers \in SUBSET Callers : GiveUp(callers)
  \/ Lose

Spec == Init /\ [][Next]_vars
=============================================================================
