----------------------------- MODULE AgentProofs ----------------------------
(***************************************************************************)
(* Proofs about Agent, for any timeout, callbacks and messages.            *)
(***************************************************************************)
EXTENDS Agent, SequenceTheorems, TLAPS

LEMMA MessageNames ==
  /\ Message = {"TERM", "handlePipe", "handleMailbox", "handleStream", "UNKNOWN", "handleOther"}
  /\ \A s \in Sources : Kinds(s) \subseteq Message
<1>1. /\ Kinds("pipe") = {"TERM", "handlePipe"}
      /\ Kinds("client") = {"handleMailbox", "handleStream", "UNKNOWN"}
      /\ Kinds("other") = {"handleOther"}
  BY DEF Kinds
<1>2. Message = Kinds("pipe") \cup Kinds("client") \cup Kinds("other")
  BY DEF Message, Sources
<1> QED BY <1>1, <1>2 DEF Sources

\* TypeOK, in parts.
ClockTyped ==
  /\ now \in Nat
  /\ polled \in 0 .. now
  /\ curClock \in 0 .. now
  /\ since \in 0 .. now
  /\ lastTick \in 0 .. now

LoopTyped ==
  /\ pc \in {"waiting", "woken", "busy", "dispatch", "stopped"}
  /\ which \in Sources \cup {"none"}
  /\ callback \in Message \cup {"tick"}
  /\ pending \in [Sources -> Seq(Message)]
  /\ arrived \in 0 .. MaxMessages
  /\ interrupted \in BOOLEAN

\* The socket that zpoller_wait() returned has a message until it is taken.
SourceIsReady ==
  pc \in {"woken", "dispatch"} \/ (pc = "busy" /\ callback = "tick") =>
    which = "none" \/ pending[which] # <<>>

Typed == ClockTyped /\ LoopTyped /\ SourceIsReady

LEMMA TypedTypeOK == Typed => TypeOK
BY DEF Typed, ClockTyped, LoopTyped, TypeOK

LEMMA InitTyped == Init => Typed
<1> SUFFICES ASSUME Init PROVE ClockTyped /\ LoopTyped /\ SourceIsReady
  BY DEF Typed
<1>1. ClockTyped BY AgentAssumption DEF Init, ClockTyped
<1>2. LoopTyped
  <2>1. <<>> \in Seq(Message) OBVIOUS
  <2>2. pending \in [Sources -> Seq(Message)] BY <2>1 DEF Init
  <2>3. callback \in Message \cup {"tick"} BY MessageNames DEF Init
  <2>4. interrupted \in BOOLEAN BY DEF Init
  <2>5. arrived \in 0 .. MaxMessages BY AgentAssumption DEF Init
  <2> QED BY <2>2, <2>3, <2>4, <2>5 DEF Init, LoopTyped
<1>3. SourceIsReady BY DEF Init, SourceIsReady
<1> QED BY <1>1, <1>2, <1>3

LEMMA NextClockTyped == Typed /\ [Next]_vars => ClockTyped'
<1> SUFFICES ASSUME Typed, [Next]_vars PROVE ClockTyped'
  OBVIOUS
<1>0. ClockTyped BY DEF Typed
<1> USE DEF ClockTyped
<1>1. ASSUME now' = now,
             polled' \in {polled, now},
             curClock' \in {curClock, now},
             since' \in {since, now},
             lastTick' \in {lastTick, curClock}
      PROVE  ClockTyped'
  BY <1>0, <1>1
<1>2. ASSUME NEW s \in Sources, Wake(s) \/ Arrive(s) PROVE ClockTyped'
  BY <1>1, <1>2 DEF Wake, Arrive, loopVars, callVars
<1>3. CASE Expire \/ CheckTick
  BY <1>1, <1>3 DEF Expire, CheckTick, Run, loopVars, callVars
<1>4. CASE Dispatch \/ DispatchNothing
  BY <1>1, <1>4 DEF Dispatch, DispatchNothing, Continue, Run, callVars
<1>5. CASE TickReturns \/ HandlerReturns
  BY <1>1, <1>5 DEF TickReturns, HandlerReturns, Continue, TickTime, callVars
<1>6. CASE Clock
  BY <1>0, <1>6 DEF Clock, loopVars, callVars
<1>7. CASE Interrupt \/ UNCHANGED vars
  BY <1>1, <1>7 DEF Interrupt, vars, loopVars, callVars
<1> QED BY <1>2, <1>3, <1>4, <1>5, <1>6, <1>7 DEF Next, Step

LEMMA NextLoopTyped == Typed /\ [Next]_vars => LoopTyped' /\ SourceIsReady'
<1> SUFFICES ASSUME Typed, [Next]_vars PROVE LoopTyped' /\ SourceIsReady'
  OBVIOUS
<1>0. LoopTyped /\ SourceIsReady BY DEF Typed
<1> USE DEF LoopTyped, SourceIsReady
<1>1. ASSUME NEW s \in Sources, Wake(s) PROVE LoopTyped' /\ SourceIsReady'
  BY <1>0, <1>1 DEF Wake, callVars
<1>2. ASSUME NEW s \in Sources, Arrive(s) PROVE LoopTyped' /\ SourceIsReady'
  <2>1. PICK m \in Kinds(s) : pending' = [pending EXCEPT ![s] = Append(@, m)]
    BY <1>2 DEF Arrive
  <2>2. m \in Message BY <2>1, MessageNames
  <2>3. Append(pending[s], m) \in Seq(Message) /\ Append(pending[s], m) # <<>>
    <3>1. pending[s] \in Seq(Message) BY <1>0
    <3> QED BY <2>2, <3>1, AppendProperties
  <2>4. pending' \in [Sources -> Seq(Message)] BY <1>0, <2>1, <2>3
  <2>5. \A f \in Sources : pending[f] # <<>> => pending'[f] # <<>> BY <1>0, <2>1, <2>3
  <2>6. arrived' \in 0 .. MaxMessages BY <1>0, <1>2, AgentAssumption DEF Arrive
  <2>7. UNCHANGED <<pc, which, callback, interrupted>> BY <1>2 DEF Arrive, loopVars, callVars
  <2> QED BY <1>0, <2>4, <2>5, <2>6, <2>7
<1>3. CASE Expire
  BY <1>0, <1>3 DEF Expire, callVars
<1>4. CASE CheckTick
  BY <1>0, <1>4 DEF CheckTick, Run, loopVars, callVars
<1>5. CASE Dispatch
  <2>1. /\ pc = "dispatch" /\ which \in Sources
        /\ pending' = [pending EXCEPT ![which] = Tail(@)]
        /\ UNCHANGED <<which, arrived, interrupted>>
    BY <1>0, <1>5 DEF Dispatch
  <2>2. pending[which] \in Seq(Message) /\ pending[which] # <<>>
    BY <1>0, <2>1 DEF Sources
  <2>3. Head(pending[which]) \in Message /\ Tail(pending[which]) \in Seq(Message)
    BY <2>2
  <2>4. pending' \in [Sources -> Seq(Message)] BY <1>0, <2>1, <2>3
  <2>5. \/ /\ pc' = "busy" /\ callback' = Head(pending[which])
        \/ /\ pc' \in {"waiting", "stopped"} /\ callback' = callback
    BY <1>5 DEF Dispatch, Continue, Run, callVars
  <2>6. Head(pending[which]) # "tick" BY <2>3, MessageNames
  <2> QED BY <1>0, <2>1, <2>3, <2>4, <2>5, <2>6
<1>6. CASE DispatchNothing \/ HandlerReturns
  <2>1. pc' \in {"waiting", "stopped"} /\ UNCHANGED <<which, callback, pending, arrived, interrupted>>
    BY <1>6 DEF DispatchNothing, HandlerReturns, Continue, callVars
  <2> QED BY <1>0, <2>1
<1>7. CASE TickReturns
  BY <1>0, <1>7 DEF TickReturns, callVars
<1>8. CASE Interrupt \/ Clock \/ UNCHANGED vars
  <2>1. UNCHANGED <<pc, which, callback, pending, arrived>>
    BY <1>8 DEF Interrupt, Clock, vars, loopVars, callVars
  <2>2. interrupted' \in BOOLEAN
    BY <1>0, <1>8 DEF Interrupt, Clock, vars
  <2> QED BY <1>0, <2>1, <2>2
<1> QED BY <1>1, <1>2, <1>3, <1>4, <1>5, <1>6, <1>7, <1>8 DEF Next, Step

LEMMA NextTyped == Typed /\ [Next]_vars => Typed'
BY NextClockTyped, NextLoopTyped DEF Typed

\* Every variable of Agent keeps its type: no time is in the future, and the
\* loop never dispatches an empty socket.
THEOREM AgentTypeCorrect == Spec => []TypeOK
BY InitTyped, NextTyped, TypedTypeOK, PTL DEF Spec, SafetySpec

-----------------------------------------------------------------------------
\* tick() is not starved

Longest == IF MaxBusy > PollerTimeout THEN MaxBusy ELSE PollerTimeout

\* How long ago the last tick() may be at each point of an iteration. One that
\* did not call tick() woke up within PollerTimeout of the last; one that did
\* has spent MaxBusy in it. Its callback adds MaxBusy, and the next wait
\* PollerTimeout.
PaceInv ==
  /\ pc = "waiting" =>
       polled <= lastTick + Longest + MaxBusy /\ now <= polled + PollerTimeout
  /\ pc = "woken" =>
       curClock = now /\ now <= lastTick + Longest + MaxBusy + PollerTimeout
  /\ pc = "busy" => now <= since + MaxBusy
  /\ pc = "busy" /\ callback = "tick" => since = curClock
  /\ pc = "busy" /\ callback # "tick" => since <= lastTick + Longest
  /\ pc = "dispatch" => now <= lastTick + Longest

LEMMA NextPaceInv ==
  PollerTimeout > 0 /\ Typed /\ PaceInv /\ [Next]_vars => PaceInv'
<1> SUFFICES ASSUME PollerTimeout > 0, Typed, PaceInv, [Next]_vars PROVE PaceInv'
  OBVIOUS
<1>0. /\ now \in Nat /\ polled \in Nat /\ curClock \in Nat /\ since \in Nat /\ lastTick \in Nat
      /\ PollerTimeout \in Nat /\ MaxBusy \in Nat /\ Longest \in Nat
      /\ PollerTimeout <= Longest /\ MaxBusy <= Longest
  BY AgentAssumption DEF Typed, ClockTyped, Longest
<1> USE DEF PaceInv
<1>1. ASSUME UNCHANGED <<now, pc, loopVars, callVars>> PROVE PaceInv'
  BY <1>1 DEF loopVars, callVars
<1>2. ASSUME pc' = "stopped" PROVE PaceInv'
  BY <1>2
<1>3. ASSUME NEW s \in Sources, Wake(s) PROVE PaceInv'
  BY <1>0, <1>3 DEF Wake
<1>4. CASE Expire
  BY <1>0, <1>4 DEF Expire
<1>5. CASE CheckTick
  <2>1. CASE TickIsDue BY <1>0, <1>5, <2>1 DEF CheckTick, Run, loopVars
  <2>2. CASE ~TickIsDue BY <1>0, <1>5, <2>2 DEF CheckTick, TickIsDue, loopVars
  <2> QED BY <2>1, <2>2
<1>6. ASSUME Continue, UNCHANGED <<now, lastTick>>, now <= lastTick + Longest + MaxBusy
      PROVE  PaceInv'
  BY <1>0, <1>2, <1>6 DEF Continue
<1>7. CASE Dispatch
  <2>1. pc = "dispatch" /\ UNCHANGED <<now, curClock, lastTick>> BY <1>7 DEF Dispatch
  <2>2. CASE Continue BY <1>0, <1>6, <2>1, <2>2
  <2>3. CASE /\ pc' = "busy" /\ since' = now
             /\ callback' = Head(pending[which])
    <3>1. which \in Sources /\ pending[which] \in Seq(Message) /\ pending[which] # <<>>
      BY <1>7 DEF Dispatch, Typed, LoopTyped, SourceIsReady
    <3>2. callback' # "tick" BY <2>3, <3>1, MessageNames
    <3> QED BY <1>0, <2>1, <2>3, <3>2
  <2> QED BY <1>7, <2>2, <2>3 DEF Dispatch, Run
<1>8. CASE DispatchNothing
  BY <1>0, <1>2, <1>6, <1>8 DEF DispatchNothing
<1>9. CASE TickReturns
  BY <1>0, <1>2, <1>9 DEF TickReturns, TickTime
<1>10. CASE HandlerReturns
  BY <1>0, <1>2, <1>6, <1>10 DEF HandlerReturns
<1>11. CASE Clock
  BY <1>0, <1>11 DEF Clock, loopVars, callVars
<1>12. ASSUME NEW s \in Sources, Arrive(s) PROVE PaceInv'
  BY <1>1, <1>12 DEF Arrive
<1>13. CASE Interrupt \/ UNCHANGED vars
  BY <1>1, <1>13 DEF Interrupt, vars
<1> QED
  BY <1>3, <1>4, <1>5, <1>7, <1>8, <1>9, <1>10, <1>11, <1>12, <1>13 DEF Next, Step

\* For any timeout, any callbacks and however many messages arrive: tick() is
\* called again within LongestGap.
THEOREM TickKeepsItsPace == Spec => []TickIsNotStarved
<1>1. CASE PollerTimeout > 0
  <2>1. Init => PaceInv
    BY <1>1, AgentAssumption DEF Init, PaceInv, Longest
  <2>2. Typed /\ PaceInv => TickIsNotStarved
    <3> SUFFICES ASSUME Typed, PaceInv PROVE TickIsNotStarved
      OBVIOUS
    <3>1. /\ now \in Nat /\ polled \in Nat /\ curClock \in Nat /\ since \in Nat /\ lastTick \in Nat
          /\ PollerTimeout \in Nat /\ MaxBusy \in Nat /\ Longest \in Nat
      BY <1>1, AgentAssumption DEF Typed, ClockTyped, Longest
    <3>2. LongestGap = PollerTimeout + MaxBusy + Longest BY DEF LongestGap, Longest
    <3> QED BY <3>1, <3>2 DEF Typed, LoopTyped, PaceInv, TickIsNotStarved
  <2>3. Typed /\ PaceInv /\ [Next]_vars => PaceInv' BY <1>1, NextPaceInv
  <2> QED BY <2>1, <2>2, <2>3, InitTyped, NextTyped, PTL DEF Spec, SafetySpec
<1>2. CASE ~(PollerTimeout > 0)
  <2>1. TickIsNotStarved BY <1>2 DEF TickIsNotStarved
  <2> QED BY <2>1, PTL
<1> QED BY <1>1, <1>2
=============================================================================
