------------------------- MODULE StreamOwnerProofs --------------------------
(***************************************************************************)
(* Proofs about a StreamClient that one thread uses: the callers never     *)
(* race each other, only the listener and the broker do.                   *)
(***************************************************************************)
EXTENDS StreamClientProofs

OneOwner == \A a, b \in Callers : a = b

-----------------------------------------------------------------------------
\* The SYNC message ends the listener it is sent to

\* m_stopRequested stays set from before SYNC is published until the join.
StopIsSet ==
  \A c \in Callers :
    pc[c] \in {"syncing", "joining", "destroy_syncing", "destroy_joining"} => stop

\* Nobody sends SYNC to a listener to come, and who sent it to the listener
\* of now is waiting for it or has joined it.
Aimed(m) ==
  m.from \in Callers =>
    /\ m.num <= gen
    /\ m.num = gen => lpc = "none" \/ pc[m.from] \in {"joining", "destroy_joining"}

SyncsAreAimed ==
  /\ \A m \in wire : Aimed(m)
  /\ \A i \in 1 .. Len(inbox) : Aimed(inbox[i])

SyncInv == StopIsSet /\ SyncsAreAimed /\ SyncStopsItsTarget

LEMMA NextSyncInv ==
  ASSUME OneOwner
  PROVE  TypeOK /\ SyncInv /\ [Next]_vars => SyncInv'
<1> SUFFICES ASSUME TypeOK, SyncInv, [Next]_vars PROVE SyncInv'
    OBVIOUS
<1>0. /\ pc \in [Callers -> CallerPCs]
      /\ inbox \in Seq(Message)
      /\ wire \in SUBSET Message
      /\ gen \in Nat
      BY DEF TypeOK
<1>a. \A m \in Message : m.num \in Nat
      BY DEF Message
<1> USE <1>0, <1>a DEF OneOwner, SyncInv, StopIsSet, SyncsAreAimed, Aimed, SyncStopsItsTarget,
        Goto, callerVars, listenerVars, busVars
<1>1. ASSUME NEW c \in Callers, BeginSubscribe(c) PROVE SyncInv'
      BY <1>1 DEF BeginSubscribe
<1>2. ASSUME NEW c \in Callers, IncrementCounter(c) PROVE SyncInv'
      BY <1>2 DEF IncrementCounter
<1>3. ASSUME NEW c \in Callers, SpuriousWakeup(c) PROVE SyncInv'
      BY <1>3 DEF SpuriousWakeup
<1>4. ASSUME NEW c \in Callers, CheckStartup(c) PROVE SyncInv'
      BY <1>4 DEF CheckStartup
<1>5. ASSUME NEW c \in Callers, NEW id \in SubIds, BeginUnsubscribe(c, id) PROVE SyncInv'
      BY <1>5 DEF BeginUnsubscribe
<1>6. ASSUME NEW c \in Callers, CheckEmpty(c) PROVE SyncInv'
      BY <1>6 DEF CheckEmpty
<1>7. ASSUME NEW c \in Callers, PublishSync(c) PROVE SyncInv'
      BY <1>7 DEF PublishSync, Sync
<1>8. ASSUME NEW c \in Callers, Join(c) PROVE SyncInv'
      BY <1>8 DEF Join
<1>9. ASSUME NEW c \in Callers, BeginDestroy(c) PROVE SyncInv'
      BY <1>9 DEF BeginDestroy, Terminate
<1>10. ASSUME NEW c \in Callers, DestroySync(c) PROVE SyncInv'
      BY <1>10 DEF DestroySync, Terminate, Sync
<1>11. ASSUME NEW c \in Callers, DestroyJoin(c) PROVE SyncInv'
      BY <1>11 DEF DestroyJoin, Terminate
<1>12. CASE ListenerStart
      BY <1>12 DEF ListenerStart
<1>13. CASE ListenerNotify
      BY <1>13 DEF ListenerNotify
<1>14. CASE ListenerRecv
  <2>1. /\ 1 \in 1 .. Len(inbox)
        /\ Head(inbox) = inbox[1]
        BY <1>14 DEF ListenerRecv
  <2>2. \A i \in 1 .. Len(Tail(inbox)) : i + 1 \in 1 .. Len(inbox) /\ Tail(inbox)[i] = inbox[i + 1]
        BY <1>14 DEF ListenerRecv
  <2>3. \A i \in 1 .. Len(inbox') : \E j \in 1 .. Len(inbox) : inbox'[i] = inbox[j]
    <3>1. CASE stop
          BY <1>14, <3>1 DEF ListenerRecv
    <3>2. CASE ~stop
          BY <1>14, <2>2, <3>2 DEF ListenerRecv
    <3>3. QED
          BY <3>1, <3>2
  <2>4. StopIsSet' /\ SyncsAreAimed'
    <3>1. UNCHANGED <<pc, gen, wire, stop>> /\ lpc # "none"
          BY <1>14 DEF ListenerRecv
    <3>2. \A i \in 1 .. Len(inbox') : Aimed(inbox'[i])
          BY <2>3
    <3>3. QED
          BY <3>1, <3>2
  <2>5. CASE stop
        BY <1>14, <2>4, <2>5 DEF ListenerRecv
  <2>6. CASE ~stop
    <3>1. ~(inbox[1].from \in Callers /\ inbox[1].num = gen)
          BY <1>14, <2>1, <2>6 DEF ListenerRecv
    <3>2. QED
          BY <1>14, <2>1, <2>4, <2>6, <3>1 DEF ListenerRecv
  <2>7. QED
        BY <2>5, <2>6
<1>15. CASE ListenerInterrupted
      BY <1>15 DEF ListenerInterrupted
<1>16. ASSUME NEW kind \in {"MESSAGE", "SYNC"}, Publish(kind) PROVE SyncInv'
      BY <1>16, StreamAssumption DEF Publish
<1>17. ASSUME NEW m \in wire, Route(m) PROVE SyncInv'
      BY <1>17 DEF Route
<1>18. CASE Interrupt
      BY <1>18 DEF Interrupt
<1>19. CASE UNCHANGED vars
      BY <1>19 DEF vars
<1>20. ASSUME NEW c \in Callers, AddCallback(c) PROVE SyncInv'
      BY <1>20 DEF AddCallback, Joinable
<1>21. ASSUME NEW c \in Callers, Erase(c) PROVE SyncInv'
      BY <1>21 DEF Erase
<1>22. CASE ListenerLock
      BY <1>22 DEF ListenerLock
<1>23. ASSUME NEW c \in Callers, WaitStarted(c) PROVE SyncInv'
      BY <1>23 DEF WaitStarted
<1>24. ASSUME NEW c \in Callers, ReturnId(c) PROVE SyncInv'
      BY <1>24 DEF ReturnId
<1>25. CASE ListenerUnlock
      BY <1>25 DEF ListenerUnlock
<1>26. CASE CallbackReturns
      BY <1>26 DEF CallbackReturns
<1>27. QED
      BY <1>1, <1>2, <1>3, <1>4, <1>5, <1>6, <1>7, <1>8, <1>9, <1>10, <1>11, <1>12,
         <1>13, <1>14, <1>15, <1>16, <1>17, <1>18, <1>19, <1>20, <1>21, <1>22, <1>23,
         <1>24, <1>25, <1>26 DEF Next, CallerStep, ListenerStep

LEMMA InitSyncInv == Init => SyncInv
  BY DEF Init, SyncInv, StopIsSet, SyncsAreAimed, SyncStopsItsTarget

(***************************************************************************)
(* The SYNC message by which the owner stops its listener never reaches a  *)
(* callback through that listener, whatever goes wrong.                    *)
(***************************************************************************)
THEOREM SyncIsNotDelivered ==
  ASSUME OneOwner
  PROVE  SafetySpec => []SyncStopsItsTarget
<1>1. SyncInv => SyncStopsItsTarget
      BY DEF SyncInv
<1>2. TypeOK /\ SyncInv /\ [Next]_vars => SyncInv'
      BY NextSyncInv
<1>3. QED
      BY InitSyncInv, <1>1, <1>2, TypeCorrect, PTL DEF SafetySpec

-----------------------------------------------------------------------------
\* The destructor does not end the process

(***************************************************************************)
(* Between two calls there is a listener thread to join if and only if     *)
(* there is a callback; within a call this is restored before it returns.  *)
(* A publishOnBus() that throws in unsubscribe() would break it.           *)
(***************************************************************************)
ThreadIffCallbacks(c) ==
  /\ pc[c] \in {"idle", "counting", "subscribing"} => (Registered = {} <=> lpc = "none")
  /\ pc[c] \in {"spawned", "waiting", "woken", "returning"} =>
       counter \in Registered /\ lpc # "none"
  /\ pc[c] \in {"erasing", "erased"} => lpc # "none"
  /\ pc[c] \in {"syncing", "joining"} => Registered = {} /\ lpc # "none"
  /\ pc[c] \in {"destroy_syncing", "destroy_joining"} => lpc # "none"
  /\ pc[c] # "terminated"

OwnerInv == \A c \in Callers : ThreadIffCallbacks(c)

LEMMA NextOwnerInv ==
  ASSUME OneOwner, "publish" \notin Faults
  PROVE  TInv /\ OwnerInv /\ [Next]_vars => OwnerInv'
<1> SUFFICES ASSUME TInv, OwnerInv, [Next]_vars PROVE OwnerInv'
    OBVIOUS
<1>0. /\ pc \in [Callers -> CallerPCs]
      /\ callbacks \in [SubIds -> Callers \cup {NoOne}]
      /\ CounterStarted
      /\ NoOne \notin Callers
      BY StreamAssumption DEF TInv, TypeOK
<1> USE <1>0 DEF OneOwner, OwnerInv, ThreadIffCallbacks, Registered, CounterStarted, Goto,
        Joinable, callerVars, listenerVars, busVars
<1>1. ASSUME NEW c \in Callers, BeginSubscribe(c) PROVE OwnerInv'
      BY <1>1 DEF BeginSubscribe
<1>2. ASSUME NEW c \in Callers, IncrementCounter(c) PROVE OwnerInv'
      BY <1>2 DEF IncrementCounter
<1>3. ASSUME NEW c \in Callers, AddCallback(c) PROVE OwnerInv'
      BY <1>3 DEF AddCallback
<1>4. ASSUME NEW c \in Callers, WaitStarted(c) PROVE OwnerInv'
      BY <1>4 DEF WaitStarted
<1>5. ASSUME NEW c \in Callers, SpuriousWakeup(c) PROVE OwnerInv'
      BY <1>5 DEF SpuriousWakeup
<1>6. ASSUME NEW c \in Callers, CheckStartup(c) PROVE OwnerInv'
      BY <1>6 DEF CheckStartup
<1>7. ASSUME NEW c \in Callers, ReturnId(c) PROVE OwnerInv'
      BY <1>7 DEF ReturnId
<1>8. ASSUME NEW c \in Callers, NEW id \in SubIds, BeginUnsubscribe(c, id) PROVE OwnerInv'
      BY <1>8 DEF BeginUnsubscribe
<1>9. ASSUME NEW c \in Callers, Erase(c) PROVE OwnerInv'
      BY <1>9 DEF Erase
<1>10. ASSUME NEW c \in Callers, CheckEmpty(c) PROVE OwnerInv'
      BY <1>10 DEF CheckEmpty
<1>11. ASSUME NEW c \in Callers, PublishSync(c) PROVE OwnerInv'
      BY <1>11 DEF PublishSync
<1>12. ASSUME NEW c \in Callers, Join(c) PROVE OwnerInv'
      BY <1>12 DEF Join
<1>13. ASSUME NEW c \in Callers, BeginDestroy(c) PROVE OwnerInv'
      BY <1>13 DEF BeginDestroy, Terminate
<1>14. ASSUME NEW c \in Callers, DestroySync(c) PROVE OwnerInv'
      BY <1>14 DEF DestroySync, Terminate
<1>15. ASSUME NEW c \in Callers, DestroyJoin(c) PROVE OwnerInv'
      BY <1>15 DEF DestroyJoin, Terminate
<1>16. CASE ListenerStart
      BY <1>16 DEF ListenerStart
<1>17. CASE ListenerNotify
      BY <1>17 DEF ListenerNotify
<1>18. CASE ListenerRecv
      BY <1>18 DEF ListenerRecv
<1>19. CASE ListenerInterrupted
      BY <1>19 DEF ListenerInterrupted
<1>20. CASE ListenerLock
      BY <1>20 DEF ListenerLock
<1>21. CASE CallbackReturns
      BY <1>21 DEF CallbackReturns
<1>22. CASE ListenerUnlock
      BY <1>22 DEF ListenerUnlock
<1>23. ASSUME NEW kind \in {"MESSAGE", "SYNC"}, Publish(kind) PROVE OwnerInv'
      BY <1>23 DEF Publish
<1>24. ASSUME NEW m \in wire, Route(m) PROVE OwnerInv'
      BY <1>24 DEF Route
<1>25. CASE Interrupt
      BY <1>25 DEF Interrupt
<1>26. CASE UNCHANGED vars
      BY <1>26 DEF vars
<1>27. QED
      BY <1>1, <1>2, <1>3, <1>4, <1>5, <1>6, <1>7, <1>8, <1>9, <1>10, <1>11, <1>12,
         <1>13, <1>14, <1>15, <1>16, <1>17, <1>18, <1>19, <1>20, <1>21, <1>22, <1>23, <1>24,
         <1>25, <1>26 DEF Next, CallerStep, ListenerStep

(***************************************************************************)
(* With one owner whose publications succeed, the destructor never calls   *)
(* std::terminate(): not when the listener failed to start, when a wait    *)
(* ended for nothing, or when the process was interrupted.                 *)
(***************************************************************************)
THEOREM DestructorIsSafe ==
  ASSUME OneOwner, "publish" \notin Faults
  PROVE  SafetySpec => []NoTerminate
<1>1. Init => OwnerInv
      BY DEF Init, OwnerInv, ThreadIffCallbacks, Registered
<1>2. TInv /\ OwnerInv /\ [Next]_vars => OwnerInv'
      BY NextOwnerInv
<1>3. OwnerInv => NoTerminate
      BY DEF OwnerInv, ThreadIffCallbacks, NoTerminate, Running
<1>4. QED
      BY InitTInv, NextTInv, <1>1, <1>2, <1>3, PTL DEF SafetySpec

-----------------------------------------------------------------------------
\* What was subscribed is served

(***************************************************************************)
(* A listener that started leaves its loop only while its owner is         *)
(* stopping it, and the ids the owner holds are in the map.                *)
(***************************************************************************)
ExitIsRequested ==
  /\ lpc = "failed" => exPtr
  /\ lpc = "exited" => stop \/ exPtr \/ interrupted

HeldIsRegistered(c) ==
  /\ lpc # "none" /\ stop =>
       pc[c] \in {"syncing", "joining", "destroy_syncing", "destroy_joining"}
  /\ pc[c] \in {"counting", "subscribing"} => ~stop
  /\ held[c] \subseteq Registered
  /\ pc[c] = "erasing" => arg[c] \notin held[c]
  /\ pc[c] \in {"destroy_syncing", "destroy_joining", "destroyed"} => ~alive

ServedInv ==
  /\ ExitIsRequested
  /\ \A c \in Callers : HeldIsRegistered(c)

LEMMA NextServedInv ==
  ASSUME OneOwner, "publish" \notin Faults
  PROVE  TInv /\ OwnerInv /\ ServedInv /\ [Next]_vars => ServedInv'
<1> SUFFICES ASSUME TInv, OwnerInv, ServedInv, [Next]_vars PROVE ServedInv'
    OBVIOUS
<1>0. /\ pc \in [Callers -> CallerPCs]
      /\ callbacks \in [SubIds -> Callers \cup {NoOne}]
      /\ held \in [Callers -> SUBSET SubIds]
      /\ arg \in [Callers -> SubIds \cup {0}]
      /\ NoOne \notin Callers
      BY StreamAssumption DEF TInv, TypeOK
<1> USE <1>0 DEF OneOwner, OwnerInv, ThreadIffCallbacks, ServedInv, ExitIsRequested,
        HeldIsRegistered, Registered, Goto, Joinable, callerVars, listenerVars, busVars
<1>1. ASSUME NEW c \in Callers, BeginSubscribe(c) PROVE ServedInv'
      BY <1>1 DEF BeginSubscribe
<1>2. ASSUME NEW c \in Callers, IncrementCounter(c) PROVE ServedInv'
      BY <1>2 DEF IncrementCounter
<1>3. ASSUME NEW c \in Callers, AddCallback(c) PROVE ServedInv'
      BY <1>3 DEF AddCallback
<1>4. ASSUME NEW c \in Callers, WaitStarted(c) PROVE ServedInv'
      BY <1>4 DEF WaitStarted
<1>5. ASSUME NEW c \in Callers, SpuriousWakeup(c) PROVE ServedInv'
      BY <1>5 DEF SpuriousWakeup
<1>6. ASSUME NEW c \in Callers, CheckStartup(c) PROVE ServedInv'
      BY <1>6 DEF CheckStartup
<1>7. ASSUME NEW c \in Callers, ReturnId(c) PROVE ServedInv'
      BY <1>7 DEF ReturnId
<1>8. ASSUME NEW c \in Callers, NEW id \in SubIds, BeginUnsubscribe(c, id) PROVE ServedInv'
      BY <1>8 DEF BeginUnsubscribe
<1>9. ASSUME NEW c \in Callers, Erase(c) PROVE ServedInv'
      BY <1>9 DEF Erase
<1>10. ASSUME NEW c \in Callers, CheckEmpty(c) PROVE ServedInv'
      BY <1>10 DEF CheckEmpty
<1>11. ASSUME NEW c \in Callers, PublishSync(c) PROVE ServedInv'
      BY <1>11 DEF PublishSync
<1>12. ASSUME NEW c \in Callers, Join(c) PROVE ServedInv'
      BY <1>12 DEF Join
<1>13. ASSUME NEW c \in Callers, BeginDestroy(c) PROVE ServedInv'
      BY <1>13 DEF BeginDestroy, Terminate
<1>14. ASSUME NEW c \in Callers, DestroySync(c) PROVE ServedInv'
      BY <1>14 DEF DestroySync, Terminate
<1>15. ASSUME NEW c \in Callers, DestroyJoin(c) PROVE ServedInv'
      BY <1>15 DEF DestroyJoin, Terminate
<1>16. CASE ListenerStart
      BY <1>16 DEF ListenerStart
<1>17. CASE ListenerNotify
      BY <1>17 DEF ListenerNotify
<1>18. CASE ListenerRecv
      BY <1>18 DEF ListenerRecv
<1>19. CASE ListenerInterrupted
      BY <1>19 DEF ListenerInterrupted
<1>20. CASE ListenerLock
      BY <1>20 DEF ListenerLock
<1>21. CASE CallbackReturns
      BY <1>21 DEF CallbackReturns
<1>22. CASE ListenerUnlock
      BY <1>22 DEF ListenerUnlock
<1>23. ASSUME NEW kind \in {"MESSAGE", "SYNC"}, Publish(kind) PROVE ServedInv'
      BY <1>23 DEF Publish
<1>24. ASSUME NEW m \in wire, Route(m) PROVE ServedInv'
      BY <1>24 DEF Route
<1>25. CASE Interrupt
      BY <1>25 DEF Interrupt
<1>26. CASE UNCHANGED vars
      BY <1>26 DEF vars
<1>27. QED
      BY <1>1, <1>2, <1>3, <1>4, <1>5, <1>6, <1>7, <1>8, <1>9, <1>10, <1>11, <1>12,
         <1>13, <1>14, <1>15, <1>16, <1>17, <1>18, <1>19, <1>20, <1>21, <1>22, <1>23, <1>24,
         <1>25, <1>26 DEF Next, CallerStep, ListenerStep

(***************************************************************************)
(* Whoever holds an id of one owner's object is served by a listener that  *)
(* is in its loop or about to enter it, unless the listener failed to      *)
(* start or the process was interrupted, and as long as publications       *)
(* succeed.                                                                *)
(***************************************************************************)
THEOREM HeldIsServed ==
  ASSUME OneOwner, "publish" \notin Faults
  PROVE  SafetySpec => []StartedIsServed
<1>1. Init => OwnerInv /\ ServedInv
      BY DEF Init, OwnerInv, ThreadIffCallbacks, ServedInv, ExitIsRequested,
         HeldIsRegistered, Registered
<1>2. TInv /\ OwnerInv /\ [Next]_vars => OwnerInv'
      BY NextOwnerInv
<1>3. TInv /\ OwnerInv /\ ServedInv /\ [Next]_vars => ServedInv'
      BY NextServedInv
<1>4. TInv /\ OwnerInv /\ ServedInv => StartedIsServed
      BY DEF TInv, TypeOK, CallerPCs, OwnerInv, ThreadIffCallbacks, ServedInv,
         ExitIsRequested, HeldIsRegistered, StartedIsServed, SubscriptionIsServed, ListenerDown
<1>5. QED
      BY InitTInv, NextTInv, <1>1, <1>2, <1>3, <1>4, PTL DEF SafetySpec

-----------------------------------------------------------------------------
\* The subscriptions of one owner are those of Subscription

\* No message waits for a listener that does not consume the stream.
InboxIsConsumed == ~Consuming => inbox = <<>>

LEMMA NextInboxIsConsumed == InboxIsConsumed /\ [Next]_vars => InboxIsConsumed'
<1> SUFFICES ASSUME InboxIsConsumed, [Next]_vars PROVE InboxIsConsumed'
    OBVIOUS
<1> USE DEF InboxIsConsumed, Consuming, callerVars, listenerVars, busVars
<1>1. ASSUME UNCHANGED <<lpc, inbox>> PROVE InboxIsConsumed'
      BY <1>1
<1>2. ASSUME NEW c \in Callers, CallerStep(c) PROVE InboxIsConsumed'
      BY <1>2 DEF CallerStep, IncrementCounter, AddCallback, Joinable, WaitStarted,
         CheckStartup, ReturnId, Erase, CheckEmpty, PublishSync, Join, DestroySync, DestroyJoin
<1>3. ASSUME NEW c \in Callers,
             \/ BeginSubscribe(c) \/ SpuriousWakeup(c) \/ BeginDestroy(c)
             \/ \E id \in SubIds : BeginUnsubscribe(c, id)
      PROVE  InboxIsConsumed'
      BY <1>3 DEF BeginSubscribe, SpuriousWakeup, BeginDestroy, BeginUnsubscribe
<1>4. CASE ListenerStep
      BY <1>4 DEF ListenerStep, ListenerStart, ListenerNotify, ListenerRecv,
         ListenerInterrupted, ListenerLock, CallbackReturns, ListenerUnlock
<1>5. CASE Interrupt \/ UNCHANGED vars \/ \E kind \in {"MESSAGE", "SYNC"} : Publish(kind)
      BY <1>5 DEF Interrupt, vars, Publish
<1>6. ASSUME NEW m \in wire, Route(m) PROVE InboxIsConsumed'
      BY <1>6 DEF Route
<1> QED BY <1>2, <1>3, <1>4, <1>5, <1>6 DEF Next

Open == alive /\ ~interrupted

\* The steps of Subscription, in the variables of StreamClient.
Subscribed(s) ==
  /\ s \notin Registered
  /\ Registered' = Registered \cup {s}
  /\ \A t \in SubIds \ {s} : Owed(t)' = Owed(t)
  /\ IF Registered = {} THEN Owed(s)' = <<>> ELSE \E t \in Registered : Owed(s)' = Owed(t)
  /\ UNCHANGED Open

Unsubscribed(s) ==
  /\ s \in Registered
  /\ Registered' = Registered \ {s}
  /\ \A t \in SubIds \ {s} : Owed(t)' = Owed(t)
  /\ Owed(s)' = <<>>
  /\ UNCHANGED Open

Published(m) ==
  /\ Registered # {}
  /\ \A t \in Registered : Owed(t) \in Seq(Message) /\ Owed(t)' = Append(Owed(t), m)
  /\ \A t \in SubIds \ Registered : Owed(t)' = Owed(t)
  /\ UNCHANGED <<Registered, Open>>

Delivered(s) ==
  /\ s \in Registered
  /\ Owed(s) # <<>>
  /\ \A t \in Registered : Len(Owed(t)) <= Len(Owed(s))
  /\ Owed(s)' = Tail(Owed(s))
  /\ \A t \in SubIds \ {s} : Owed(t)' = Owed(t)
  /\ UNCHANGED <<Registered, Open>>

Closed ==
  /\ Open
  /\ ~Open'
  /\ \A t \in SubIds : Owed(t)' = Owed(t)
  /\ UNCHANGED Registered

Discarded ==
  /\ ~Open
  /\ \A t \in SubIds : Owed(t)' = <<>>
  /\ UNCHANGED <<Registered, Open>>

NothingHappened ==
  /\ \A t \in SubIds : Owed(t)' = Owed(t)
  /\ UNCHANGED <<Registered, Open>>

SubscriptionStep ==
  \/ \E s \in SubIds : Subscribed(s) \/ Unsubscribed(s) \/ Delivered(s)
  \/ \E m \in Message : Published(m)
  \/ Closed
  \/ Discarded
  \/ NothingHappened

LEMMA StepsAreSubscription ==
  ASSUME SubscriptionStep
  PROVE  [Promise!Next]_Promise!vars
<1> DEFINE Q == [id \in SubIds |-> Owed(id)]
<1>1. Q' = [id \in SubIds |-> Owed(id)'] OBVIOUS
<1>2. Q \in [SubIds -> {Owed(id) : id \in SubIds}] /\ \A t \in SubIds : Q[t] = Owed(t)
      OBVIOUS
<1>3. \A t \in SubIds : Q'[t] = Owed(t)' OBVIOUS
<1>4. Registered \subseteq SubIds /\ Registered' \subseteq SubIds BY DEF Registered
<1>5. ASSUME NEW s \in SubIds, \A t \in SubIds \ {s} : Owed(t)' = Owed(t)
      PROVE  Q' = [Q EXCEPT ![s] = Owed(s)']
      BY <1>5
<1> HIDE DEF Q
<1>6. ASSUME NEW s \in SubIds, Subscribed(s) PROVE Promise!Subscribe(s)
  <2>1. Q' = [Q EXCEPT ![s] = Owed(s)'] BY <1>5, <1>6 DEF Subscribed
  <2>2. Owed(s)' \in IF Registered = {} THEN {<<>>} ELSE {Q[t] : t \in Registered}
        BY <1>2, <1>4, <1>6 DEF Subscribed
  <2> QED BY <1>6, <2>1, <2>2 DEF Subscribed, Open, Promise!Subscribe, Q
<1>7. ASSUME NEW s \in SubIds, Unsubscribed(s) PROVE Promise!Unsubscribe(s)
      BY <1>5, <1>7 DEF Unsubscribed, Open, Promise!Unsubscribe, Q
<1>8. ASSUME NEW s \in SubIds, Delivered(s) PROVE Promise!Deliver(s)
  <2>1. Q' = [Q EXCEPT ![s] = Tail(Q[s])] BY <1>2, <1>5, <1>8 DEF Delivered
  <2>2. Q[s] # <<>> /\ \A t \in Registered : Len(Q[t]) <= Len(Q[s])
        BY <1>2, <1>4, <1>8 DEF Delivered
  <2> QED BY <1>8, <2>1, <2>2 DEF Delivered, Open, Promise!Deliver, Q
<1>9. ASSUME NEW m \in Message, Published(m) PROVE Promise!Publish
  <2>1. PICK s \in Registered : TRUE BY <1>9 DEF Published
  <2>2. /\ Len(Q'[s]) \in 1 .. Len(Q'[s])
        /\ Q'[s][Len(Q'[s])] = m
        BY <1>3, <1>4, <1>9 DEF Published
  <2>3. \A t \in SubIds : Q'[t] = IF t \in Registered THEN Append(Q[t], m) ELSE Q[t]
        BY <1>2, <1>3, <1>9 DEF Published
  <2>4. Q' = [t \in SubIds |-> IF t \in Registered THEN Append(Q[t], m) ELSE Q[t]]
        BY <1>1, <2>3 DEF Q
  <2> QED BY <1>9, <2>2, <2>4 DEF Published, Open, Promise!Publish, Q
<1>10. CASE Closed
  <2>1. Q' = Q BY <1>10 DEF Closed, Q
  <2> QED BY <1>10, <2>1 DEF Closed, Open, Promise!Next, Promise!Close, Q
<1>11. CASE Discarded
  <2>1. Q' = [t \in SubIds |-> <<>>] BY <1>11 DEF Discarded, Q
  <2> QED BY <1>11, <2>1 DEF Discarded, Open, Promise!Next, Promise!Discard, Q
<1>12. CASE NothingHappened
  <2>1. Q' = Q BY <1>12 DEF NothingHappened, Q
  <2> QED BY <1>12, <2>1 DEF NothingHappened, Open, Promise!vars, Q
<1> QED
  BY <1>6, <1>7, <1>8, <1>9, <1>10, <1>11, <1>12 DEF SubscriptionStep, Promise!Next

\* The message the listener is handling is still due to id.
Due(id) == lpc = "locking" \/ (lpc = "delivering" /\ id \in todo)

LEMMA OwedIs ==
  ASSUME inbox \in Seq(Message), NEW id
  PROVE  /\ id \notin Registered => Owed(id) = <<>>
         /\ id \in Registered /\ ~Due(id) => Owed(id) = inbox
         /\ id \in Registered /\ Due(id) => Owed(id) = <<cur>> \o inbox
BY DEF Owed, Due

LEMMA OwedWillBe ==
  ASSUME inbox' \in Seq(Message), NEW id
  PROVE  /\ id \notin Registered' => Owed(id)' = <<>>
         /\ id \in Registered' /\ ~Due(id)' => Owed(id)' = inbox'
         /\ id \in Registered' /\ Due(id)' => Owed(id)' = <<cur'>> \o inbox'
BY DEF Owed, Due

LEMMA MessageBeforeInbox ==
  ASSUME inbox \in Seq(Message), cur \in Message
  PROVE  /\ <<cur>> \o inbox \in Seq(Message)
         /\ <<cur>> \o inbox # <<>>
         /\ Len(<<cur>> \o inbox) = Len(inbox) + 1
         /\ Tail(<<cur>> \o inbox) = inbox
         /\ \A m \in Message : Append(<<cur>> \o inbox, m) = <<cur>> \o Append(inbox, m)
         /\ inbox # <<>> => <<Head(inbox)>> \o Tail(inbox) = inbox
OBVIOUS

SubscriptionInv == TInv /\ LockInv /\ OwnerInv /\ ServedInv /\ InboxIsConsumed

LEMMA NextIsSubscriptionStep ==
  ASSUME OneOwner, SubscriptionInv, SubscriptionInv', [Next]_vars
  PROVE  SubscriptionStep
<1>0. /\ inbox \in Seq(Message) /\ inbox' \in Seq(Message) /\ cur \in Message
      /\ callbacks \in [SubIds -> Callers \cup {NoOne}]
      /\ pc \in [Callers -> CallerPCs]
      /\ arg \in [Callers -> SubIds \cup {0}]
      /\ wire \in SUBSET Message
      /\ NoOne \notin Callers /\ Listener \notin Callers /\ Listener # NoOne
      BY StreamAssumption DEF SubscriptionInv, TInv, TypeOK
<1>1. ASSUME UNCHANGED <<callbacks, inbox, alive, interrupted>>,
             \A id \in Registered :
               (Due(id) <=> Due(id)') /\ (Due(id) => cur' = cur)
      PROVE  SubscriptionStep
  <2>1. Registered' = Registered /\ Open' = Open BY <1>1 DEF Registered, Open
  <2>2. \A id \in SubIds : Owed(id)' = Owed(id) BY <1>0, <1>1, <2>1, OwedIs, OwedWillBe
  <2> QED BY <2>1, <2>2 DEF SubscriptionStep, NothingHappened
<1>2. ASSUME UNCHANGED <<callbacks, lpc, cur, todo, inbox, alive, interrupted>>
      PROVE  SubscriptionStep
      BY <1>1, <1>2 DEF Due
<1>3. ASSUME NEW c \in Callers,
             \/ BeginSubscribe(c) \/ IncrementCounter(c) \/ WaitStarted(c) \/ SpuriousWakeup(c)
             \/ CheckStartup(c) \/ ReturnId(c) \/ CheckEmpty(c) \/ PublishSync(c)
             \/ DestroySync(c) \/ \E id \in SubIds : BeginUnsubscribe(c, id)
      PROVE  SubscriptionStep
      BY <1>2, <1>3 DEF BeginSubscribe, IncrementCounter, WaitStarted, SpuriousWakeup,
         CheckStartup, ReturnId, CheckEmpty, PublishSync, DestroySync, BeginUnsubscribe,
         listenerVars, busVars
\* A new subscription finds what all others have yet to be handed.
<1>4. ASSUME NEW c \in Callers, AddCallback(c) PROVE SubscriptionStep
  <2>1. /\ UNCHANGED <<cur, todo, inbox, alive, interrupted>>
        /\ lpc' = lpc \/ (lpc = "none" /\ lpc' = "starting")
        /\ callbacks' = [callbacks EXCEPT ![counter] = c]
        /\ pc[c] = "subscribing" /\ lock = NoOne
        BY <1>4 DEF AddCallback, Joinable, busVars
  <2>2. PICK s \in SubIds : s = counter
        BY <2>1 DEF SubscriptionInv, TInv, CounterStarted
  <2>3. Registered' = Registered \cup {s}
        BY <1>0, <2>1, <2>2 DEF Registered
  <2>4. /\ \A id : Due(id) <=> lpc = "locking"
        /\ \A id : Due(id)' <=> lpc = "locking"
        BY <1>0, <2>1 DEF SubscriptionInv, LockInv, ListenerOwnsLock, Due
  <2>5. CASE s \in Registered
    <3>1. Registered' = Registered /\ Open' = Open BY <2>1, <2>3, <2>5 DEF Open
    <3>2. \A id \in SubIds : Owed(id)' = Owed(id)
          BY <1>0, <2>1, <2>4, <3>1, OwedIs, OwedWillBe
    <3> QED BY <3>1, <3>2 DEF SubscriptionStep, NothingHappened
  <2>6. CASE s \notin Registered
    <3>1. \A id \in SubIds \ {s} : Owed(id)' = Owed(id)
          BY <1>0, <2>1, <2>3, <2>4, OwedIs, OwedWillBe
    <3>2. CASE Registered = {}
      <4>1. lpc = "none" /\ inbox = <<>>
            BY <2>1, <3>2 DEF SubscriptionInv, OwnerInv, ThreadIffCallbacks, InboxIsConsumed,
               Consuming
      <4>2. Owed(s)' = <<>> BY <1>0, <2>1, <2>3, <2>4, <4>1, OwedWillBe
      <4> QED
        BY <2>1, <2>2, <2>3, <2>6, <3>1, <3>2, <4>2 DEF SubscriptionStep, Subscribed, Open
    <3>3. CASE Registered # {}
      <4>1. PICK t \in Registered : TRUE BY <3>3
      <4>2. Owed(s)' = Owed(t) BY <1>0, <2>1, <2>3, <2>4, OwedIs, OwedWillBe
      <4> QED
        BY <2>1, <2>2, <2>3, <2>6, <3>1, <3>3, <4>2 DEF SubscriptionStep, Subscribed, Open
    <3> QED BY <3>2, <3>3
  <2> QED BY <2>5, <2>6
<1>5. ASSUME NEW c \in Callers, Erase(c) PROVE SubscriptionStep
  <2>1. /\ UNCHANGED <<lpc, cur, todo, inbox, alive, interrupted>>
        /\ callbacks' = [callbacks EXCEPT ![arg[c]] = NoOne]
        BY <1>5 DEF Erase, listenerVars, busVars
  <2>2. PICK s \in SubIds \cup {0} : s = arg[c] BY <1>0
  <2>3. Registered' = Registered \ {s} BY <1>0, <2>1, <2>2 DEF Registered
  <2>4. \A id \in SubIds \ {s} : Owed(id)' = Owed(id) BY <2>1, <2>3 DEF Owed
  <2>5. CASE s \in Registered
    <3>1. s \in SubIds BY <2>5 DEF Registered
    <3>2. Owed(s)' = <<>> BY <1>0, <2>3, OwedWillBe
    <3> QED BY <2>1, <2>3, <2>4, <2>5, <3>1, <3>2 DEF SubscriptionStep, Unsubscribed, Open
  <2>6. CASE s \notin Registered
    <3>1. \A id \in SubIds : Owed(id)' = Owed(id) BY <2>1, <2>3, <2>6 DEF Owed
    <3> QED BY <2>1, <2>3, <2>6, <3>1 DEF SubscriptionStep, NothingHappened, Open
  <2> QED BY <2>5, <2>6
<1>6. ASSUME NEW c \in Callers, Join(c) \/ DestroyJoin(c) PROVE SubscriptionStep
  <2>1. /\ UNCHANGED <<callbacks, cur, todo, inbox, alive, interrupted>>
        /\ lpc \in {"exited", "none"} /\ lpc' = "none"
        BY <1>6 DEF Join, DestroyJoin, busVars
  <2> QED BY <1>1, <2>1 DEF Due
<1>7. ASSUME Open => ~Open',
             UNCHANGED <<callbacks, lpc, cur, todo, inbox>>, Open' => Open
      PROVE  SubscriptionStep
  <2>1. Registered' = Registered /\ \A id \in SubIds : Owed(id)' = Owed(id)
        BY <1>7 DEF Registered, Owed
  <2>2. CASE Open BY <1>7, <2>1, <2>2 DEF SubscriptionStep, Closed
  <2>3. CASE ~Open
    <3>1. Open' = Open BY <1>7, <2>3 DEF Open
    <3> QED BY <2>1, <3>1 DEF SubscriptionStep, NothingHappened
  <2> QED BY <2>2, <2>3
<1>8. ASSUME NEW c \in Callers, BeginDestroy(c) PROVE SubscriptionStep
      BY <1>7, <1>8 DEF BeginDestroy, listenerVars, busVars, Open
<1>9. CASE Interrupt
      BY <1>7, <1>9 DEF Interrupt, listenerVars, busVars, Open
<1>10. CASE ListenerStart \/ ListenerNotify
      BY <1>1, <1>10 DEF ListenerStart, ListenerNotify, Due, busVars
\* A listener that leaves its loop drops what nobody is subscribed to, or what
\* the destructor or the interruption gives up.
<1>11. ASSUME lpc = "polling", lpc' = "exited", inbox' = <<>>,
              UNCHANGED <<callbacks, alive, interrupted>>,
              Registered = {} \/ ~Open
       PROVE  SubscriptionStep
  <2>1. Registered' = Registered /\ Open' = Open BY <1>11 DEF Registered, Open
  <2>2. \A id \in SubIds : Owed(id)' = <<>> BY <1>0, <1>11, OwedWillBe DEF Due
  <2>3. CASE Registered = {}
    <3>1. \A id \in SubIds : Owed(id) = <<>> BY <1>0, <2>3, OwedIs
    <3> QED BY <2>1, <2>2, <3>1 DEF SubscriptionStep, NothingHappened
  <2>4. CASE ~Open BY <2>1, <2>2, <2>4 DEF SubscriptionStep, Discarded
  <2> QED BY <1>11, <2>3, <2>4
<1>12. CASE ListenerRecv
  <2>1. /\ UNCHANGED <<callbacks, alive, interrupted>>
        /\ lpc = "polling" /\ inbox # <<>>
        /\ \/ stop /\ lpc' = "exited" /\ inbox' = <<>>
           \/ cur' = Head(inbox) /\ inbox' = Tail(inbox) /\ lpc' = "locking"
        BY <1>12 DEF ListenerRecv, callerVars
  <2>2. CASE stop /\ lpc' = "exited" /\ inbox' = <<>>
    <3>1. Callers = {} => Registered = {} BY <1>0 DEF Registered
    <3>2. ASSUME NEW c \in Callers PROVE Registered = {} \/ ~Open
      <4>1. pc[c] \in {"syncing", "joining", "destroy_syncing", "destroy_joining"}
            BY <2>1, <2>2 DEF SubscriptionInv, ServedInv, HeldIsRegistered
      <4> QED
        BY <4>1 DEF SubscriptionInv, OwnerInv, ThreadIffCallbacks, ServedInv,
           HeldIsRegistered, Open
    <3>3. Registered = {} \/ ~Open BY <3>1, <3>2
    <3> QED BY <1>11, <2>1, <2>2, <3>3
  <2>3. CASE cur' = Head(inbox) /\ inbox' = Tail(inbox) /\ lpc' = "locking"
    <3>1. Registered' = Registered /\ Open' = Open BY <2>1 DEF Registered, Open
    <3>2. \A id : ~Due(id) /\ Due(id)' BY <2>1, <2>3 DEF Due
    <3>3. <<cur'>> \o inbox' = inbox BY <1>0, <2>1, <2>3, MessageBeforeInbox
    <3>4. \A id \in SubIds : Owed(id)' = Owed(id)
          BY <1>0, <3>1, <3>2, <3>3, OwedIs, OwedWillBe
    <3> QED BY <3>1, <3>4 DEF SubscriptionStep, NothingHappened
  <2> QED BY <2>1, <2>2, <2>3
<1>13. CASE ListenerInterrupted
       BY <1>11, <1>13 DEF ListenerInterrupted, Open
<1>14. CASE ListenerLock
  <2>1. \A id \in Registered : Due(id) /\ Due(id)' BY <1>14 DEF ListenerLock, Due
  <2> QED BY <1>1, <1>14, <2>1 DEF ListenerLock, busVars
<1>15. CASE CallbackReturns
  <2>1. /\ UNCHANGED <<callbacks, lpc, cur, inbox, alive, interrupted>>
        /\ lpc = "delivering"
        BY <1>15 DEF CallbackReturns, busVars
  <2>2. PICK s \in todo : todo' = todo \ {s} BY <1>15 DEF CallbackReturns
  <2>3. s \in Registered /\ s \in SubIds
        BY <2>1 DEF SubscriptionInv, LockInv, ListenerOwnsLock, Registered
  <2>4. Registered' = Registered /\ Open' = Open BY <2>1 DEF Registered, Open
  <2>5. Due(s) /\ ~Due(s)' /\ \A t \in SubIds \ {s} : Due(t)' <=> Due(t)
        BY <2>1, <2>2 DEF Due
  <2>6. Owed(s) = <<cur>> \o inbox /\ Owed(s)' = inbox
        BY <1>0, <2>1, <2>3, <2>4, <2>5, OwedIs, OwedWillBe
  <2>7. \A t \in SubIds \ {s} : Owed(t)' = Owed(t)
        BY <1>0, <2>1, <2>4, <2>5, OwedIs, OwedWillBe
  <2>8. \A t \in Registered : Owed(t) \in {inbox, <<cur>> \o inbox} BY <1>0, OwedIs
  <2>9. \A t \in Registered : Len(Owed(t)) <= Len(Owed(s))
        BY <1>0, <2>6, <2>8, MessageBeforeInbox
  <2>10. Owed(s) # <<>> /\ Owed(s)' = Tail(Owed(s)) BY <1>0, <2>6, MessageBeforeInbox
  <2> QED BY <2>3, <2>4, <2>7, <2>9, <2>10 DEF SubscriptionStep, Delivered
<1>16. CASE ListenerUnlock
  <2>1. \A id : ~Due(id) /\ ~Due(id)' BY <1>16 DEF ListenerUnlock, Due
  <2> QED BY <1>1, <1>16, <2>1 DEF ListenerUnlock, busVars
<1>17. ASSUME NEW kind \in {"MESSAGE", "SYNC"}, Publish(kind) PROVE SubscriptionStep
       BY <1>2, <1>17 DEF Publish, listenerVars
<1>18. ASSUME NEW m \in wire, Route(m) PROVE SubscriptionStep
  <2>1. /\ UNCHANGED <<callbacks, lpc, cur, todo, alive, interrupted>>
        /\ inbox' = inbox \/ inbox' = Append(inbox, m)
        BY <1>18 DEF Route, listenerVars
  <2>2. CASE inbox' = inbox BY <1>2, <2>1, <2>2
  <2>3. CASE inbox' = Append(inbox, m)
    <3>1. /\ Registered' = Registered /\ Open' = Open
          /\ \A id : Due(id)' <=> Due(id)
          BY <2>1 DEF Registered, Open, Due
    <3>2. CASE Registered = {}
      <4>1. \A id \in SubIds : Owed(id)' = Owed(id) BY <1>0, <3>1, <3>2, OwedIs, OwedWillBe
      <4> QED BY <3>1, <4>1 DEF SubscriptionStep, NothingHappened
    <3>3. CASE Registered # {}
      <4>1. m \in Message BY <1>0
      <4>2. ASSUME NEW t \in Registered
            PROVE  Owed(t) \in Seq(Message) /\ Owed(t)' = Append(Owed(t), m)
        <5>1. CASE Due(t)
          <6>1. Owed(t) = <<cur>> \o inbox /\ Owed(t)' = <<cur>> \o Append(inbox, m)
                BY <1>0, <2>1, <2>3, <3>1, <5>1, OwedIs, OwedWillBe
          <6> QED BY <1>0, <4>1, <6>1, MessageBeforeInbox
        <5>2. CASE ~Due(t)
              BY <1>0, <2>1, <2>3, <3>1, <5>2, OwedIs, OwedWillBe
        <5> QED BY <5>1, <5>2
      <4>3. \A t \in SubIds \ Registered : Owed(t)' = Owed(t)
            BY <1>0, <3>1, OwedIs, OwedWillBe
      <4> QED BY <3>1, <3>3, <4>1, <4>2, <4>3 DEF SubscriptionStep, Published
    <3> QED BY <3>2, <3>3
  <2> QED BY <2>1, <2>2, <2>3
<1>19. CASE UNCHANGED vars
       BY <1>2, <1>19 DEF vars, listenerVars, busVars
<1> QED
  BY <1>3, <1>4, <1>5, <1>6, <1>8, <1>9, <1>10, <1>12, <1>13, <1>14, <1>15, <1>16, <1>17,
     <1>18, <1>19 DEF Next, CallerStep, ListenerStep

(***************************************************************************)
(* For any number of subscriptions and messages, with one owner whose      *)
(* publications succeed: each subscription is handed the messages the      *)
(* broker routed while it was there, in order, once and in step with the   *)
(* others, and none is dropped before the destructor or an interruption.   *)
(***************************************************************************)
THEOREM SubscribersAreServed ==
  ASSUME OneOwner, "publish" \notin Faults
  PROVE  SafetySpec => SubscriptionSpec
<1>1. Init => SubscriptionInv /\ Promise!Init
  <2> SUFFICES ASSUME Init PROVE SubscriptionInv /\ Promise!Init
      OBVIOUS
  <2>1. Registered = {} BY DEF Init, Registered
  <2>2. SubscriptionInv
        BY <2>1, InitTInv DEF Init, SubscriptionInv, LockInv, CallerOwnsLock, ListenerOwnsLock,
           OwnerInv, ThreadIffCallbacks, ServedInv, ExitIsRequested, HeldIsRegistered,
           InboxIsConsumed
  <2>3. Promise!Init BY <2>1 DEF Init, Promise!Init, Owed
  <2> QED BY <2>2, <2>3
<1>2. SubscriptionInv /\ [Next]_vars => SubscriptionInv'
      BY NextTInv, NextLockInv, NextOwnerInv, NextServedInv, NextInboxIsConsumed
      DEF SubscriptionInv, TInv
<1>3. SubscriptionInv /\ SubscriptionInv' /\ [Next]_vars => [Promise!Next]_Promise!vars
      BY NextIsSubscriptionStep, StepsAreSubscription
<1> QED
  BY <1>1, <1>2, <1>3, PTL DEF SafetySpec, SubscriptionSpec, Promise!Spec

-----------------------------------------------------------------------------
\* join() is not called in vain

(***************************************************************************)
(* subscribe() does not return before the listener is in its loop or has   *)
(* left it, so that SYNC is never routed to a listener that does not       *)
(* consume yet. A wait that ends without a notification would break it.    *)
(***************************************************************************)
StartIsAwaited ==
  lpc \in {"starting", "ready", "failed"} => \E c \in Callers : pc[c] \in {"spawned", "waiting"}

JoinInv == StartIsAwaited /\ JoinIsNotInVain

LEMMA NextJoinInv ==
  ASSUME OneOwner, {"publish", "spurious"} \cap Faults = {}
  PROVE  TypeOK /\ StopIsSet /\ OwnerInv /\ JoinInv /\ [Next]_vars => JoinInv'
<1> SUFFICES ASSUME TypeOK, StopIsSet, OwnerInv, JoinInv, [Next]_vars PROVE JoinInv'
    OBVIOUS
<1>0. /\ pc \in [Callers -> CallerPCs]
      /\ lpc \in ListenerPCs
      /\ inbox \in Seq(Message)
      /\ \A m \in wire : Append(inbox, m) # <<>>
      /\ "publish" \notin Faults /\ "spurious" \notin Faults
      BY DEF TypeOK
<1> USE <1>0 DEF OneOwner, StopIsSet, OwnerInv, ThreadIffCallbacks, JoinInv, StartIsAwaited,
        JoinIsNotInVain, ListenerPCs, Sync, Consuming, Goto, callerVars, listenerVars, busVars
<1>1. ASSUME NEW c \in Callers, BeginSubscribe(c) PROVE JoinInv'
      BY <1>1 DEF BeginSubscribe
<1>2. ASSUME NEW c \in Callers, IncrementCounter(c) PROVE JoinInv'
      BY <1>2 DEF IncrementCounter
<1>3. ASSUME NEW c \in Callers, AddCallback(c) PROVE JoinInv'
      BY <1>3 DEF AddCallback, Joinable
<1>4. ASSUME NEW c \in Callers, WaitStarted(c) PROVE JoinInv'
      BY <1>4 DEF WaitStarted
<1>5. ASSUME NEW c \in Callers, SpuriousWakeup(c) PROVE JoinInv'
      BY <1>5 DEF SpuriousWakeup
<1>6. ASSUME NEW c \in Callers, CheckStartup(c) PROVE JoinInv'
      BY <1>6 DEF CheckStartup
<1>7. ASSUME NEW c \in Callers, ReturnId(c) PROVE JoinInv'
      BY <1>7 DEF ReturnId
<1>8. ASSUME NEW c \in Callers, Erase(c) PROVE JoinInv'
      BY <1>8 DEF Erase
<1>9. ASSUME NEW c \in Callers, CheckEmpty(c) PROVE JoinInv'
      BY <1>9 DEF CheckEmpty
<1>10. ASSUME NEW c \in Callers, PublishSync(c) PROVE JoinInv'
      BY <1>10 DEF PublishSync
<1>11. ASSUME NEW c \in Callers, Join(c) PROVE JoinInv'
      BY <1>11 DEF Join
<1>12. ASSUME NEW c \in Callers, BeginDestroy(c) PROVE JoinInv'
      BY <1>12 DEF BeginDestroy, Terminate
<1>13. ASSUME NEW c \in Callers, DestroySync(c) PROVE JoinInv'
      BY <1>13 DEF DestroySync, Terminate
<1>14. ASSUME NEW c \in Callers, DestroyJoin(c) PROVE JoinInv'
      BY <1>14 DEF DestroyJoin, Terminate
<1>15. ASSUME NEW c \in Callers, NEW id \in SubIds, BeginUnsubscribe(c, id) PROVE JoinInv'
      BY <1>15 DEF BeginUnsubscribe
<1>16. CASE ListenerStart
      BY <1>16 DEF ListenerStart
<1>17. CASE ListenerNotify
      BY <1>17 DEF ListenerNotify
<1>18. CASE ListenerRecv
      BY <1>18 DEF ListenerRecv
<1>19. CASE ListenerInterrupted
      BY <1>19 DEF ListenerInterrupted
<1>20. CASE ListenerLock
      BY <1>20 DEF ListenerLock
<1>21. CASE CallbackReturns
      BY <1>21 DEF CallbackReturns
<1>22. CASE ListenerUnlock
      BY <1>22 DEF ListenerUnlock
<1>23. ASSUME NEW kind \in {"MESSAGE", "SYNC"}, Publish(kind) PROVE JoinInv'
      BY <1>23 DEF Publish
<1>24. ASSUME NEW m \in wire, Route(m) PROVE JoinInv'
      BY <1>24 DEF Route
<1>25. CASE Interrupt \/ UNCHANGED vars
      BY <1>25 DEF Interrupt, vars
<1> QED
      BY <1>1, <1>2, <1>3, <1>4, <1>5, <1>6, <1>7, <1>8, <1>9, <1>10, <1>11, <1>12,
         <1>13, <1>14, <1>15, <1>16, <1>17, <1>18, <1>19, <1>20, <1>21, <1>22, <1>23,
         <1>24, <1>25
      DEF Next, CallerStep, ListenerStep

(***************************************************************************)
(* With one owner whose publications succeed and whose waits end by a      *)
(* notification: who waits in join() waits for a listener that has ended,  *)
(* or ends when it gets the message that is on its way to it.              *)
(***************************************************************************)
THEOREM JoinsAreHeard ==
  ASSUME OneOwner, {"publish", "spurious"} \cap Faults = {}
  PROVE  SafetySpec => []JoinIsNotInVain
<1>1. Init => OwnerInv /\ JoinInv
      BY DEF Init, OwnerInv, ThreadIffCallbacks, Registered, JoinInv, StartIsAwaited,
         JoinIsNotInVain
<1>2. TInv /\ OwnerInv /\ [Next]_vars => OwnerInv'
      BY NextOwnerInv
<1>3. TInv /\ SyncInv /\ OwnerInv /\ JoinInv /\ [Next]_vars => JoinInv'
      BY NextJoinInv DEF TInv, SyncInv
<1>4. TInv /\ SyncInv /\ [Next]_vars => SyncInv'
      BY NextSyncInv DEF TInv
<1>5. JoinInv => JoinIsNotInVain
      BY DEF JoinInv
<1> QED
      BY InitTInv, NextTInv, InitSyncInv, <1>1, <1>2, <1>3, <1>4, <1>5, PTL DEF SafetySpec

-----------------------------------------------------------------------------
\* A listener that cannot fail to start

LEMMA NextNoException ==
  ASSUME "startup" \notin Faults
  PROVE  ~exPtr /\ [Next]_vars => ~exPtr'
<1> SUFFICES ASSUME ~exPtr, [Next]_vars PROVE ~exPtr'
    OBVIOUS
<1>1. ASSUME NEW c \in Callers, CallerStep(c) PROVE ~exPtr'
      BY <1>1 DEF CallerStep, IncrementCounter, AddCallback, WaitStarted, CheckStartup,
         ReturnId, Erase, CheckEmpty, PublishSync, Join, DestroySync, DestroyJoin
<1>2. ASSUME NEW c \in Callers,
             \/ BeginSubscribe(c) \/ SpuriousWakeup(c) \/ BeginDestroy(c)
             \/ \E id \in SubIds : BeginUnsubscribe(c, id)
      PROVE  ~exPtr'
      BY <1>2 DEF BeginSubscribe, SpuriousWakeup, BeginDestroy, BeginUnsubscribe
<1>3. CASE ListenerStep
      BY <1>3 DEF ListenerStep, ListenerStart, ListenerNotify, ListenerRecv,
         ListenerInterrupted, ListenerLock, CallbackReturns, ListenerUnlock
<1>4. CASE \/ Interrupt \/ UNCHANGED vars
           \/ \E kind \in {"MESSAGE", "SYNC"} : Publish(kind)
           \/ \E m \in wire : Route(m)
      BY <1>4 DEF Interrupt, vars, Publish, Route
<1> QED BY <1>1, <1>2, <1>3, <1>4 DEF Next

(***************************************************************************)
(* With one owner, and if neither the start of a listener nor a            *)
(* publication fails: whoever holds an id is served, as the comments of    *)
(* subscribe() say.                                                        *)
(***************************************************************************)
THEOREM HeldIsAlwaysServed ==
  ASSUME OneOwner, {"publish", "startup"} \cap Faults = {}
  PROVE  SafetySpec => []SubscriptionIsServed
<1>1. Init => ~exPtr
      BY DEF Init
<1>2. ~exPtr /\ [Next]_vars => ~exPtr'
      BY NextNoException
<1>3. SafetySpec => []StartedIsServed
      BY HeldIsServed
<1>4. ~exPtr /\ StartedIsServed => SubscriptionIsServed
      BY DEF StartedIsServed
<1> QED
      BY <1>1, <1>2, <1>3, <1>4, PTL DEF SafetySpec
=============================================================================
