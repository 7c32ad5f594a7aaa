------------------------- MODULE StreamClientProofs -------------------------
(***************************************************************************)
(* Proofs about StreamClient. The first part holds for any number of       *)
(* callers and any faults; the second for an object that one thread uses.  *)
(***************************************************************************)
EXTENDS StreamClient, TLAPS

(***************************************************************************)
(* The increment under way stays within the bound of the ids.              *)
(***************************************************************************)
CountingBelowMax ==
  \A c \in Callers : pc[c] = "counting" => arg[c] \in 0 .. (MaxSubs - 1)

\* m_counter is an id from the first increment on.
CounterStarted ==
  (\E c \in Callers :
     pc[c] \in {"subscribing", "spawned", "waiting", "woken", "returning"})
  => counter \in SubIds

TInv == TypeOK /\ CountingBelowMax /\ CounterStarted

LEMMA InitTInv == Init => TInv
<1> SUFFICES ASSUME Init PROVE TInv
    OBVIOUS
<1>1. cur \in Message
      BY DEF Init, Message
<1>2. inbox \in Seq(Message) /\ wire \in SUBSET Message
      BY DEF Init
<1>3. pc \in [Callers -> CallerPCs] /\ lpc \in ListenerPCs
      BY DEF Init, CallerPCs, ListenerPCs
<1>4. callbacks \in [SubIds -> Callers \cup {NoOne}]
      BY DEF Init
<1>5. /\ arg \in [Callers -> SubIds \cup {0}]
      /\ held \in [Callers -> SUBSET SubIds]
      /\ todo \in SUBSET SubIds
      BY DEF Init
<1>6. counter \in 0 .. MaxSubs /\ sent \in 0 .. MaxMsgs /\ gen \in Nat
      BY StreamAssumption DEF Init
<1>7. stop \in BOOLEAN /\ exPtr \in BOOLEAN /\ interrupted \in BOOLEAN /\ alive \in BOOLEAN
      BY DEF Init
<1>8. lock \in Callers \cup {NoOne, Listener}
      BY DEF Init
<1>9. CountingBelowMax /\ CounterStarted
      BY DEF Init, CountingBelowMax, CounterStarted
<1>10. QED
      BY <1>1, <1>2, <1>3, <1>4, <1>5, <1>6, <1>7, <1>8, <1>9 DEF TInv, TypeOK

LEMMA SyncIsMessage ==
  ASSUME TypeOK, NEW c \in Callers
  PROVE  Sync(c) \in Message
  BY DEF TypeOK, Sync, Message

LEMMA HeadTailTypes ==
  ASSUME NEW S, NEW s \in Seq(S), s # <<>>
  PROVE  Head(s) \in S /\ Tail(s) \in Seq(S)
  OBVIOUS

LEMMA NextTInv == TInv /\ [Next]_vars => TInv'
<1> SUFFICES ASSUME TInv, [Next]_vars PROVE TInv'
    OBVIOUS
<1> USE StreamAssumption DEF TInv, TypeOK, CountingBelowMax, CounterStarted, SubIds, Goto, callerVars,
        listenerVars, busVars
<1>1. ASSUME NEW c \in Callers, BeginSubscribe(c) PROVE TInv'
  <2>1. /\ arg' \in [Callers -> SubIds \cup {0}]
        /\ pc' \in [Callers -> CallerPCs]
        BY <1>1 DEF BeginSubscribe, CallerPCs
  <2>2. CountingBelowMax' /\ CounterStarted'
        BY <1>1 DEF BeginSubscribe
  <2>3. QED
        BY <1>1, <2>1, <2>2 DEF BeginSubscribe
<1>2. ASSUME NEW c \in Callers, IncrementCounter(c) PROVE TInv'
      BY <1>2 DEF IncrementCounter, CallerPCs
<1>3. ASSUME NEW c \in Callers, AddCallback(c) PROVE TInv'
  <2>1. /\ callbacks' \in [SubIds -> Callers \cup {NoOne}]
        /\ lock' \in Callers \cup {NoOne, Listener}
        BY <1>3 DEF AddCallback
  <2>2. /\ pc' \in [Callers -> CallerPCs]
        /\ CountingBelowMax' /\ CounterStarted'
        BY <1>3 DEF AddCallback, CallerPCs
  <2>3. lpc' \in ListenerPCs /\ gen' \in Nat
        BY <1>3 DEF AddCallback, ListenerPCs
  <2>4. exPtr' \in BOOLEAN
        BY <1>3 DEF AddCallback
  <2>5. QED
        BY <1>3, <2>1, <2>2, <2>3, <2>4 DEF AddCallback
<1>4. ASSUME NEW c \in Callers, WaitStarted(c) PROVE TInv'
      BY <1>4 DEF WaitStarted, CallerPCs
<1>5. ASSUME NEW c \in Callers, SpuriousWakeup(c) PROVE TInv'
      BY <1>5 DEF SpuriousWakeup, CallerPCs
<1>6. ASSUME NEW c \in Callers, CheckStartup(c) PROVE TInv'
  <2>1. counter \in SubIds
        BY <1>6 DEF CheckStartup
  <2>2. held' \in [Callers -> SUBSET SubIds]
        BY <1>6, <2>1 DEF CheckStartup
  <2>3. /\ pc' \in [Callers -> CallerPCs]
        /\ CountingBelowMax' /\ CounterStarted'
        BY <1>6 DEF CheckStartup, CallerPCs
  <2>4. QED
        BY <1>6, <2>2, <2>3 DEF CheckStartup
<1>7. ASSUME NEW c \in Callers, ReturnId(c) PROVE TInv'
  <2>1. counter \in SubIds
        BY <1>7 DEF ReturnId
  <2>2. held' \in [Callers -> SUBSET SubIds]
        BY <1>7, <2>1 DEF ReturnId
  <2>3. /\ pc' \in [Callers -> CallerPCs]
        /\ CountingBelowMax' /\ CounterStarted'
        BY <1>7 DEF ReturnId, CallerPCs
  <2>4. QED
        BY <1>7, <2>2, <2>3 DEF ReturnId
<1>8. ASSUME NEW c \in Callers, NEW id \in SubIds, BeginUnsubscribe(c, id) PROVE TInv'
  <2>1. pc' \in [Callers -> CallerPCs]
        BY <1>8 DEF BeginUnsubscribe, CallerPCs
  <2>2. arg' = arg \/ arg' = [arg EXCEPT ![c] = id]
        BY <1>8 DEF BeginUnsubscribe
  <2>3. arg' \in [Callers -> SubIds \cup {0}]
        BY <2>2
  <2>4. held' \in [Callers -> SUBSET SubIds]
        BY <1>8 DEF BeginUnsubscribe
  <2>5. CountingBelowMax' /\ CounterStarted'
        BY <1>8 DEF BeginUnsubscribe
  <2>6. QED
        BY <1>8, <2>1, <2>3, <2>4, <2>5 DEF BeginUnsubscribe
<1>9. ASSUME NEW c \in Callers, Erase(c) PROVE TInv'
      BY <1>9 DEF Erase, CallerPCs
<1>10. ASSUME NEW c \in Callers, CheckEmpty(c) PROVE TInv'
      BY <1>10 DEF CheckEmpty, CallerPCs
<1>11. ASSUME NEW c \in Callers, PublishSync(c) PROVE TInv'
  <2>1. wire' \in SUBSET Message
        BY <1>11, SyncIsMessage DEF PublishSync
  <2>2. /\ pc' \in [Callers -> CallerPCs]
        /\ CountingBelowMax' /\ CounterStarted'
        BY <1>11 DEF PublishSync, CallerPCs
  <2>3. QED
        BY <1>11, <2>1, <2>2 DEF PublishSync
<1>12. ASSUME NEW c \in Callers, Join(c) PROVE TInv'
      BY <1>12 DEF Join, CallerPCs, ListenerPCs
<1>13. ASSUME NEW c \in Callers, BeginDestroy(c) PROVE TInv'
  <2>1. pc' \in [Callers -> CallerPCs]
        BY <1>13 DEF BeginDestroy, Terminate, CallerPCs
  <2>2. CountingBelowMax' /\ CounterStarted'
        BY <1>13 DEF BeginDestroy, Terminate
  <2>3. stop' \in BOOLEAN /\ alive' \in BOOLEAN
        BY <1>13 DEF BeginDestroy
  <2>4. QED
        BY <1>13, <2>1, <2>2, <2>3 DEF BeginDestroy
<1>14. ASSUME NEW c \in Callers, DestroySync(c) PROVE TInv'
  <2>1. wire' \in SUBSET Message
        BY <1>14, SyncIsMessage DEF DestroySync
  <2>2. /\ pc' \in [Callers -> CallerPCs]
        /\ CountingBelowMax' /\ CounterStarted'
        BY <1>14 DEF DestroySync, Terminate, CallerPCs
  <2>3. QED
        BY <1>14, <2>1, <2>2 DEF DestroySync
<1>15. ASSUME NEW c \in Callers, DestroyJoin(c) PROVE TInv'
      BY <1>15 DEF DestroyJoin, Terminate, CallerPCs, ListenerPCs
<1>16. CASE ListenerStart
      BY <1>16 DEF ListenerStart, ListenerPCs
<1>17. CASE ListenerNotify
      BY <1>17 DEF ListenerNotify, ListenerPCs, CallerPCs
<1>18. CASE ListenerRecv
  <2>1. Head(inbox) \in Message /\ Tail(inbox) \in Seq(Message)
        BY <1>18, HeadTailTypes DEF ListenerRecv
  <2>2. cur' = cur \/ cur' = Head(inbox)
        BY <1>18 DEF ListenerRecv
  <2>3. inbox' = <<>> \/ inbox' = Tail(inbox)
        BY <1>18 DEF ListenerRecv
  <2>4. cur' \in Message
        BY <2>1, <2>2
  <2>5. <<>> \in Seq(Message)
        OBVIOUS
  <2>6. inbox' \in Seq(Message)
        BY <2>1, <2>3, <2>5
  <2>7. QED
        BY <1>18, <2>4, <2>6 DEF ListenerRecv, ListenerPCs
<1>19. CASE ListenerInterrupted
      BY <1>19 DEF ListenerInterrupted, ListenerPCs
<1>20. CASE ListenerLock
      BY <1>20 DEF ListenerLock, ListenerPCs, Registered
<1>21. CASE CallbackReturns
      BY <1>21 DEF CallbackReturns
<1>22. CASE ListenerUnlock
      BY <1>22 DEF ListenerUnlock, ListenerPCs
<1>23. ASSUME NEW kind \in {"MESSAGE", "SYNC"}, Publish(kind) PROVE TInv'
      BY <1>23 DEF Publish, Message
<1>24. ASSUME NEW m \in wire, Route(m) PROVE TInv'
      BY <1>24 DEF Route
<1>25. CASE Interrupt
      BY <1>25 DEF Interrupt
<1>26. CASE UNCHANGED vars
      BY <1>26 DEF vars
<1>27. QED
      BY <1>1, <1>2, <1>3, <1>4, <1>5, <1>6, <1>7, <1>8, <1>9, <1>10, <1>11, <1>12,
         <1>13, <1>14, <1>15, <1>16, <1>17, <1>18, <1>19, <1>20, <1>21, <1>22, <1>23,
         <1>24, <1>25, <1>26 DEF Next, CallerStep, ListenerStep

(***************************************************************************)
(* The variables of the model keep their types: whatever the callers, the  *)
(* listener and the broker do.                                             *)
(***************************************************************************)
THEOREM TypeCorrect == SafetySpec => []TypeOK
<1>1. TInv => TypeOK
      BY DEF TInv
<1>2. QED
      BY InitTInv, NextTInv, <1>1, PTL DEF SafetySpec

(***************************************************************************)
(* NoCallbackAfterErase is inductive only together with who owns the       *)
(* mutex: the listener owns it from the moment it looks at m_callbacks to  *)
(* the last callback, and a caller that changes m_callbacks needs it.      *)
(***************************************************************************)
CallerOwnsLock ==
  \A c \in Callers : pc[c] \in {"spawned", "returning"} => lock = c

ListenerOwnsLock ==
  lpc = "delivering" => lock = Listener /\ todo \subseteq Registered

LockInv == CallerOwnsLock /\ ListenerOwnsLock

LEMMA NextLockInv == TypeOK /\ LockInv /\ [Next]_vars => LockInv'
<1> SUFFICES ASSUME TypeOK, LockInv, [Next]_vars PROVE LockInv'
    OBVIOUS
<1>0. /\ pc \in [Callers -> CallerPCs]
      /\ NoOne \notin Callers /\ Listener \notin Callers /\ Listener # NoOne
      BY StreamAssumption DEF TypeOK
<1> USE <1>0 DEF LockInv, CallerOwnsLock, ListenerOwnsLock, Goto, Registered, callerVars,
        listenerVars, busVars
\* Steps that touch neither the mutex, nor the map, nor what the listener iterates over.
<1>1. ASSUME NEW c \in Callers, BeginSubscribe(c) PROVE LockInv'
      BY <1>1 DEF BeginSubscribe
<1>2. ASSUME NEW c \in Callers, IncrementCounter(c) PROVE LockInv'
      BY <1>2 DEF IncrementCounter
<1>3. ASSUME NEW c \in Callers, SpuriousWakeup(c) PROVE LockInv'
      BY <1>3 DEF SpuriousWakeup
<1>4. ASSUME NEW c \in Callers, CheckStartup(c) PROVE LockInv'
      BY <1>4 DEF CheckStartup
<1>5. ASSUME NEW c \in Callers, NEW id \in SubIds, BeginUnsubscribe(c, id) PROVE LockInv'
      BY <1>5 DEF BeginUnsubscribe
<1>6. ASSUME NEW c \in Callers, CheckEmpty(c) PROVE LockInv'
      BY <1>6 DEF CheckEmpty
<1>7. ASSUME NEW c \in Callers, PublishSync(c) PROVE LockInv'
      BY <1>7 DEF PublishSync
<1>8. ASSUME NEW c \in Callers, Join(c) PROVE LockInv'
      BY <1>8 DEF Join
<1>9. ASSUME NEW c \in Callers, BeginDestroy(c) PROVE LockInv'
      BY <1>9 DEF BeginDestroy, Terminate
<1>10. ASSUME NEW c \in Callers, DestroySync(c) PROVE LockInv'
      BY <1>10 DEF DestroySync, Terminate
<1>11. ASSUME NEW c \in Callers, DestroyJoin(c) PROVE LockInv'
      BY <1>11 DEF DestroyJoin, Terminate
<1>12. CASE ListenerStart
      BY <1>12 DEF ListenerStart
<1>13. CASE ListenerNotify
      BY <1>13 DEF ListenerNotify
<1>14. CASE ListenerRecv
      BY <1>14 DEF ListenerRecv
<1>15. CASE ListenerInterrupted
      BY <1>15 DEF ListenerInterrupted
<1>16. ASSUME NEW kind \in {"MESSAGE", "SYNC"}, Publish(kind) PROVE LockInv'
      BY <1>16 DEF Publish
<1>17. ASSUME NEW m \in wire, Route(m) PROVE LockInv'
      BY <1>17 DEF Route
<1>18. CASE Interrupt
      BY <1>18 DEF Interrupt
<1>19. CASE UNCHANGED vars
      BY <1>19 DEF vars
\* Steps that need the mutex: it is free, so the listener is not delivering.
<1>20. ASSUME NEW c \in Callers, AddCallback(c) PROVE LockInv'
  <2>1. CallerOwnsLock'
        BY <1>20 DEF AddCallback
  <2>2. lpc' # "delivering"
        BY <1>20 DEF AddCallback
  <2>3. QED
        BY <2>1, <2>2
<1>21. ASSUME NEW c \in Callers, Erase(c) PROVE LockInv'
      BY <1>21 DEF Erase
<1>22. CASE ListenerLock
      BY <1>22 DEF ListenerLock
\* Steps that release it: only its owner takes them.
<1>23. ASSUME NEW c \in Callers, WaitStarted(c) PROVE LockInv'
      BY <1>23 DEF WaitStarted
<1>24. ASSUME NEW c \in Callers, ReturnId(c) PROVE LockInv'
      BY <1>24 DEF ReturnId
<1>25. CASE ListenerUnlock
      BY <1>25 DEF ListenerUnlock
\* The loop over m_callbacks only shrinks what is left to do.
<1>26. CASE CallbackReturns
      BY <1>26 DEF CallbackReturns
<1>27. QED
      BY <1>1, <1>2, <1>3, <1>4, <1>5, <1>6, <1>7, <1>8, <1>9, <1>10, <1>11, <1>12,
         <1>13, <1>14, <1>15, <1>16, <1>17, <1>18, <1>19, <1>20, <1>21, <1>22, <1>23,
         <1>24, <1>25, <1>26 DEF Next, CallerStep, ListenerStep

(***************************************************************************)
(* No callback runs once unsubscribe() has erased it, for any number of    *)
(* threads that subscribe and unsubscribe, and with every fault.           *)
(***************************************************************************)
THEOREM ErasedIsNotCalled == SafetySpec => []NoCallbackAfterErase
<1>1. Init => LockInv
      BY DEF Init, LockInv, CallerOwnsLock, ListenerOwnsLock
<1>2. LockInv => NoCallbackAfterErase
      BY DEF LockInv, ListenerOwnsLock, NoCallbackAfterErase
<1>3. QED
      BY <1>1, <1>2, TypeCorrect, NextLockInv, PTL DEF SafetySpec

-----------------------------------------------------------------------------
\* Who owns the mutex can release it

LEMMA NextLockOwnerIsInside == TypeOK /\ LockOwnerIsInside /\ [Next]_vars => LockOwnerIsInside'
<1> SUFFICES ASSUME TypeOK, LockOwnerIsInside, [Next]_vars PROVE LockOwnerIsInside'
    OBVIOUS
<1>0. /\ pc \in [Callers -> CallerPCs]
      /\ lock \in Callers \cup {NoOne, Listener}
      /\ NoOne \notin Callers /\ Listener \notin Callers /\ Listener # NoOne
      BY StreamAssumption DEF TypeOK
<1> USE <1>0 DEF LockOwnerIsInside, Goto, callerVars, listenerVars, busVars
<1>1. ASSUME NEW c \in Callers, BeginSubscribe(c) PROVE LockOwnerIsInside'
      BY <1>1 DEF BeginSubscribe
<1>2. ASSUME NEW c \in Callers, IncrementCounter(c) PROVE LockOwnerIsInside'
      BY <1>2 DEF IncrementCounter
<1>3. ASSUME NEW c \in Callers, AddCallback(c) PROVE LockOwnerIsInside'
      BY <1>3 DEF AddCallback, Joinable
<1>4. ASSUME NEW c \in Callers, WaitStarted(c) PROVE LockOwnerIsInside'
      BY <1>4 DEF WaitStarted
<1>5. ASSUME NEW c \in Callers, SpuriousWakeup(c) PROVE LockOwnerIsInside'
      BY <1>5 DEF SpuriousWakeup
<1>6. ASSUME NEW c \in Callers, CheckStartup(c) PROVE LockOwnerIsInside'
      BY <1>6 DEF CheckStartup
<1>7. ASSUME NEW c \in Callers, ReturnId(c) PROVE LockOwnerIsInside'
      BY <1>7 DEF ReturnId
<1>8. ASSUME NEW c \in Callers, Erase(c) PROVE LockOwnerIsInside'
      BY <1>8 DEF Erase
<1>9. ASSUME NEW c \in Callers, CheckEmpty(c) PROVE LockOwnerIsInside'
      BY <1>9 DEF CheckEmpty
<1>10. ASSUME NEW c \in Callers, PublishSync(c) PROVE LockOwnerIsInside'
      BY <1>10 DEF PublishSync
<1>11. ASSUME NEW c \in Callers, Join(c) PROVE LockOwnerIsInside'
      BY <1>11 DEF Join
<1>12. ASSUME NEW c \in Callers, BeginDestroy(c) PROVE LockOwnerIsInside'
      BY <1>12 DEF BeginDestroy, Terminate
<1>13. ASSUME NEW c \in Callers, DestroySync(c) PROVE LockOwnerIsInside'
      BY <1>13 DEF DestroySync, Terminate
<1>14. ASSUME NEW c \in Callers, DestroyJoin(c) PROVE LockOwnerIsInside'
      BY <1>14 DEF DestroyJoin, Terminate
<1>15. ASSUME NEW c \in Callers, NEW id \in SubIds, BeginUnsubscribe(c, id)
       PROVE  LockOwnerIsInside'
      BY <1>15 DEF BeginUnsubscribe
<1>16. CASE ListenerStart
      BY <1>16 DEF ListenerStart
<1>17. CASE ListenerNotify
      BY <1>17 DEF ListenerNotify
<1>18. CASE ListenerRecv
      BY <1>18 DEF ListenerRecv
<1>19. CASE ListenerInterrupted
      BY <1>19 DEF ListenerInterrupted
<1>20. CASE ListenerLock
      BY <1>20 DEF ListenerLock
<1>21. CASE CallbackReturns
      BY <1>21 DEF CallbackReturns
<1>22. CASE ListenerUnlock
      BY <1>22 DEF ListenerUnlock
<1>23. ASSUME NEW kind \in {"MESSAGE", "SYNC"}, Publish(kind) PROVE LockOwnerIsInside'
      BY <1>23 DEF Publish
<1>24. ASSUME NEW m \in wire, Route(m) PROVE LockOwnerIsInside'
      BY <1>24 DEF Route
<1>25. CASE Interrupt \/ UNCHANGED vars
      BY <1>25 DEF Interrupt, vars
<1> QED
      BY <1>1, <1>2, <1>3, <1>4, <1>5, <1>6, <1>7, <1>8, <1>9, <1>10, <1>11, <1>12,
         <1>13, <1>14, <1>15, <1>16, <1>17, <1>18, <1>19, <1>20, <1>21, <1>22, <1>23,
         <1>24, <1>25
      DEF Next, CallerStep, ListenerStep

(***************************************************************************)
(* For any number of threads, and with every fault: the mutex is owned by  *)
(* who is between its lock and its unlock, where nothing but that thread's *)
(* own next step is needed to release it.                                  *)
(***************************************************************************)
THEOREM LockIsNeverStuck == SafetySpec => []LockOwnerIsInside
<1>1. Init => LockOwnerIsInside
      BY StreamAssumption DEF Init, LockOwnerIsInside
<1> QED
      BY <1>1, TypeCorrect, NextLockOwnerIsInside, PTL DEF SafetySpec
=============================================================================
