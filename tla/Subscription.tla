---------------------------- MODULE Subscription ----------------------------
(***************************************************************************)
(* What MlmStreamClient promises its subscribers, without threads, locks   *)
(* and the broker: each active subscription has a queue of messages. What  *)
(* is published goes to all of them, and each callback is handed the       *)
(* messages of its queue in order and once. While the client is open       *)
(* nothing is taken from a queue but by handing it out or unsubscribing.   *)
(***************************************************************************)
EXTENDS Integers, Sequences

CONSTANT Ids

VARIABLES
  active,  \* subscriptions that have a callback
  queue,   \* messages each of them has yet to be handed
  open     \* neither destroyed nor interrupted

vars == <<active, queue, open>>

Init ==
  /\ active = {}
  /\ queue = [s \in Ids |-> <<>>]
  /\ open = TRUE

\* Who joins others gets what they have yet to be handed.
Subscribe(s) ==
  /\ s \notin active
  /\ active' = active \cup {s}
  /\ queue' \in {[queue EXCEPT ![s] = q] :
       q \in IF active = {} THEN {<<>>} ELSE {queue[t] : t \in active}}
  /\ UNCHANGED open

Unsubscribe(s) ==
  /\ s \in active
  /\ active' = active \ {s}
  /\ queue' = [queue EXCEPT ![s] = <<>>]
  /\ UNCHANGED open

\* All active subscriptions get the same message. (Which one it is is read off
\* the next state: the set of messages need not be known.)
Publish ==
  /\ \E s \in active : \E i \in 1 .. Len(queue'[s]) :
       queue' = [t \in Ids |->
         IF t \in active THEN Append(queue[t], queue'[s][i]) ELSE queue[t]]
  /\ UNCHANGED <<active, open>>

\* Nobody is handed a message before all others have had the one before.
Deliver(s) ==
  /\ s \in active
  /\ queue[s] # <<>>
  /\ \A t \in active : Len(queue[t]) <= Len(queue[s])
  /\ queue' = [queue EXCEPT ![s] = Tail(@)]
  /\ UNCHANGED <<active, open>>

Close ==
  /\ open
  /\ open' = FALSE
  /\ UNCHANGED <<active, queue>>

Discard ==
  /\ ~open
  /\ queue' = [s \in Ids |-> <<>>]
  /\ UNCHANGED <<active, open>>

Next ==
  \/ \E s \in Ids : Subscribe(s) \/ Unsubscribe(s) \/ Deliver(s)
  \/ Publish
  \/ Close
  \/ Discard

Spec == Init /\ [][Next]_vars
=============================================================================
