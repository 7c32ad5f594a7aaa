--------------------------- MODULE MlmClientProofs --------------------------
(***************************************************************************)
(* Proofs about MlmClient, for any operations, timeouts and faults.        *)
(***************************************************************************)
EXTENDS MlmClient, SequenceTheorems, TLAPS

Asked == [uuid : Uuids, of : 0 .. MaxCalls]

\* TypeOK, in parts. The times need more than their types: the current timeout
\* is what is left of the call's only if the call did not begin in the future.
CallTyped ==
  /\ pc \in {"idle", "connecting", "ready", "loop", "polling"}
  /\ op \in {"sendto", "recv", "requestreply"}
  /\ uuid \in 0 .. MaxCalls
  /\ due \in Dues
  /\ result \in [how : {"none", "sent", "failed", "message", "expired", "interrupted"},
                 of : 0 .. MaxCalls]
  /\ requests \in 0 .. MaxCalls

TimeTyped ==
  /\ now \in 0 .. MaxTime
  /\ wait \in 0 .. Limit
  /\ start \in 0 .. now
  /\ polled \in 0 .. now
  /\ pollerTimeout \in 0 .. Limit
  /\ discarded \in Nat

MailTyped ==
  /\ asked \in SUBSET Asked
  /\ inbox \in Seq(Messages)
  /\ connected \in BOOLEAN
  /\ noise \in 0 .. MaxNoise
  /\ interrupted \in BOOLEAN

Typed == CallTyped /\ TimeTyped /\ MailTyped

LEMMA TypedTypeOK == Typed => TypeOK
<1> SUFFICES ASSUME Typed PROVE TypeOK
  OBVIOUS
<1>1. start \in 0 .. MaxTime /\ polled \in 0 .. MaxTime
  BY ClientAssumption DEF Typed, TimeTyped
<1> QED BY <1>1 DEF Typed, CallTyped, TimeTyped, MailTyped, TypeOK, Uuids, Asked

LEMMA InitTyped == Init => Typed
<1> SUFFICES ASSUME Init PROVE CallTyped /\ TimeTyped /\ MailTyped
  BY DEF Typed
<1>1. CallTyped
  <2>1. due \in Dues BY DEF Init, Dues
  <2>2. uuid \in 0 .. MaxCalls /\ requests \in 0 .. MaxCalls BY ClientAssumption DEF Init
  <2>3. result \in [how : {"none", "sent", "failed", "message", "expired", "interrupted"},
                    of : 0 .. MaxCalls]
    BY ClientAssumption DEF Init
  <2> QED BY <2>1, <2>2, <2>3 DEF Init, CallTyped
<1>2. TimeTyped BY ClientAssumption DEF Init, TimeTyped
<1>3. MailTyped
  <2>1. <<>> \in Seq(Messages) OBVIOUS
  <2>2. connected \in BOOLEAN /\ interrupted \in BOOLEAN /\ asked \in SUBSET Asked
    BY DEF Init
  <2>3. noise \in 0 .. MaxNoise BY ClientAssumption DEF Init
  <2> QED BY <2>1, <2>2, <2>3 DEF Init, MailTyped
<1> QED BY <1>1, <1>2, <1>3

\* What is taken from the mailbox, and what is left.
LEMMA TailType ==
  ASSUME NEW S, NEW s \in Seq(S), s # <<>>
  PROVE  /\ Head(s) \in S
         /\ Head(s) = s[1]
         /\ Tail(s) \in Seq(S)
         /\ Len(Tail(s)) = Len(s) - 1
         /\ Len(s) \in Nat \ {0}
         /\ \A i \in 1 .. Len(s) - 1 : Tail(s)[i] = s[i + 1]
OBVIOUS

\* A call changes neither the mailbox nor the clock.
LEMMA NextCallTyped == Typed /\ [Next]_vars => CallTyped'
<1> SUFFICES ASSUME Typed, [Next]_vars PROVE CallTyped'
  OBVIOUS
<1>0. CallTyped /\ MailTyped BY DEF Typed
<1> USE ClientAssumption DEF CallTyped
<1>1. ASSUME NEW operation, NEW id \in 0 .. MaxCalls, NEW timeout,
             Call(operation, id, timeout), requests' \in 0 .. MaxCalls
      PROVE  CallTyped'
  <2>1. due' \in Dues BY <1>1 DEF Call, Dues
  <2>2. /\ operation \in {"sendto", "recv", "requestreply"}
        /\ pc' \in {"ready", "connecting"}
        /\ op' = operation
        /\ uuid' = id
        /\ result' = [how |-> "none", of |-> 0]
    BY <1>1 DEF Call
  <2> QED BY <1>1, <2>1, <2>2
<1>2. ASSUME NEW timeout \in Timeouts, Recv(timeout) PROVE CallTyped'
  <2>1. PICK id \in 1 .. requests : Call("recv", id, timeout) BY <1>2 DEF Recv
  <2>2. id \in 0 .. MaxCalls BY <1>0
  <2> QED BY <1>0, <1>1, <1>2, <2>1, <2>2 DEF Recv
<1>3. ASSUME requests < MaxCalls, requests' = requests + 1
      PROVE  requests' \in 0 .. MaxCalls /\ requests + 1 \in 0 .. MaxCalls
  BY <1>0, <1>3
<1>4. ASSUME NEW timeout \in Timeouts, RequestReply(timeout) PROVE CallTyped'
  BY <1>1, <1>3, <1>4 DEF RequestReply, NewUuid
<1>5. CASE SendTo
  BY <1>1, <1>3, <1>5 DEF SendTo
<1>6. ASSUME inbox # <<>> PROVE Head(inbox).of \in 0 .. MaxCalls
  <2>1. Head(inbox) \in Messages BY <1>0, <1>6, TailType DEF MailTyped
  <2> QED BY <2>1 DEF Messages
<1>7. CASE TakeReply
  <2>1. inbox # <<>> /\ UNCHANGED <<callVars, due, requests>> BY <1>7 DEF TakeReply
  <2>2. \/ End("message", Head(inbox).of)
        \/ pc' = "loop" /\ UNCHANGED result
    BY <1>7 DEF TakeReply
  <2> QED BY <1>0, <1>6, <2>1, <2>2 DEF End, callVars
<1>8. CASE TakeMessage
  <2>1. inbox # <<>> /\ UNCHANGED <<callVars, due, requests>> BY <1>8 DEF TakeMessage
  <2>2. End("message", Head(inbox).of) \/ UNCHANGED <<pc, result>>
    BY <1>8 DEF TakeMessage
  <2> QED BY <1>0, <1>6, <2>1, <2>2 DEF End, callVars
<1>9. CASE Connect \/ Send \/ SendRequest \/ AwaitReply \/ Expire \/ Terminate
  BY <1>0, <1>9 DEF Connect, Send, SendRequest, AwaitReply, Expire, Terminate, End, callVars
<1>10. CASE StartRecv
  BY <1>0, <1>10 DEF StartRecv, callVars, Dues
<1>11. CASE Answer \/ Noise
  <2>1. PICK m : Deliver(m) BY <1>11 DEF Answer, Noise
  <2>2. due' \in Dues BY <1>0, <2>1 DEF Deliver, Dues
  <2> QED BY <1>0, <2>1, <2>2 DEF Deliver, callVars
<1>12. CASE Disconnect \/ Interrupt \/ Tick \/ UNCHANGED vars
  BY <1>0, <1>12 DEF Disconnect, Interrupt, Tick, vars, callVars
<1> QED BY <1>2, <1>4, <1>5, <1>7, <1>8, <1>9, <1>10, <1>11, <1>12 DEF Next

LEMMA NextTimeTyped == Typed /\ [Next]_vars => TimeTyped'
<1> SUFFICES ASSUME Typed, [Next]_vars PROVE TimeTyped'
  OBVIOUS
<1>0. TimeTyped BY DEF Typed
<1> USE ClientAssumption DEF TimeTyped
<1>1. ASSUME NEW operation, NEW id, NEW timeout \in Nat, Call(operation, id, timeout)
      PROVE  TimeTyped'
  BY <1>0, <1>1 DEF Call, Trimmed, pollVars
<1>2. ASSUME NEW timeout \in Timeouts, Recv(timeout) \/ RequestReply(timeout) PROVE TimeTyped'
  <2>1. PICK operation, id : Call(operation, id, timeout) BY <1>2 DEF Recv, RequestReply
  <2> QED BY <1>1, <2>1
<1>3. CASE SendTo
  <2>1. PICK id : Call("sendto", id, 0) BY <1>3 DEF SendTo
  <2> QED BY <1>1, <2>1
<1>4. ASSUME UNCHANGED <<now, wait, pollVars>> PROVE TimeTyped'
  BY <1>0, <1>4 DEF pollVars
<1>5. CASE Connect \/ Send \/ TakeReply \/ Expire \/ Terminate
  BY <1>4, <1>5 DEF Connect, Send, TakeReply, Expire, Terminate, callVars
<1>6. CASE SendRequest \/ StartRecv
  BY <1>0, <1>6 DEF SendRequest, StartRecv, callVars
<1>7. CASE AwaitReply
  <2>1. CASE UNCHANGED <<polled, pollerTimeout>>
    BY <1>4, <1>7, <2>1 DEF AwaitReply, callVars, pollVars
  <2>2. CASE polled' = now /\ pollerTimeout' = TimeLeft /\ ~(TimeLeft <= 0)
    BY <1>0, <1>7, <2>2 DEF AwaitReply, callVars, TimeLeft, Deadline
  <2> QED BY <1>7, <2>1, <2>2 DEF AwaitReply
<1>8. CASE TakeMessage
  <2>1. /\ UNCHANGED <<now, start, wait>>
        /\ polled' = now
        /\ pollerTimeout' = Remaining
        /\ discarded' \in {discarded, discarded + 1}
    BY <1>8 DEF TakeMessage, callVars
  <2>2. Remaining \in 0 .. Limit BY <1>0 DEF Remaining
  <2> QED BY <1>0, <2>1, <2>2
<1>9. CASE Answer \/ Noise
  <2>1. PICK m : Deliver(m) BY <1>9 DEF Answer, Noise
  <2> QED BY <1>4, <2>1 DEF Deliver, callVars
<1>10. CASE Tick
  BY <1>0, <1>10 DEF Tick, callVars, pollVars
<1>11. CASE Disconnect \/ Interrupt \/ UNCHANGED vars
  BY <1>4, <1>11 DEF Disconnect, Interrupt, vars, callVars
<1> QED BY <1>2, <1>3, <1>5, <1>6, <1>7, <1>8, <1>9, <1>10, <1>11 DEF Next

LEMMA NextMailTyped == Typed /\ [Next]_vars => MailTyped'
<1> SUFFICES ASSUME Typed, [Next]_vars PROVE MailTyped'
  OBVIOUS
<1>0. CallTyped /\ MailTyped BY DEF Typed
<1> USE ClientAssumption DEF MailTyped
<1>1. ASSUME UNCHANGED <<asked, inbox, connected, envVars>> PROVE MailTyped'
  BY <1>0, <1>1 DEF envVars
<1>2. CASE Send \/ SendRequest
  <2>1. [uuid |-> uuid, of |-> requests] \in Asked BY <1>0 DEF CallTyped, Asked, Uuids
  <2>2. Post \/ UNCHANGED asked BY <1>2 DEF Send, SendRequest
  <2>3. asked' \in SUBSET Asked BY <1>0, <2>1, <2>2 DEF Post
  <2>4. UNCHANGED <<inbox, connected, envVars>> BY <1>2 DEF Send, SendRequest
  <2> QED BY <1>0, <2>3, <2>4 DEF envVars
<1>3. CASE TakeReply \/ TakeMessage
  <2>1. inbox # <<>> /\ UNCHANGED <<asked, connected, envVars>>
    BY <1>3 DEF TakeReply, TakeMessage
  <2>2. inbox' = Tail(inbox) \/ inbox' = inbox
    BY <1>3 DEF TakeReply, TakeMessage, OtherMessages
  <2>3. Tail(inbox) \in Seq(Messages) BY <1>0, <2>1, TailType
  <2> QED BY <1>0, <2>1, <2>2, <2>3 DEF envVars
<1>4. ASSUME NEW m \in Messages, Deliver(m), asked' \in SUBSET Asked,
             noise' \in 0 .. MaxNoise, interrupted' = interrupted
      PROVE  MailTyped'
  BY <1>0, <1>4 DEF Deliver
<1>5. CASE Answer
  <2>1. PICK r \in asked, cmd \in Commands :
          /\ asked' = asked \ {r}
          /\ Deliver([uuid |-> r.uuid, cmd |-> cmd, of |-> r.of])
    BY <1>5 DEF Answer
  <2>2. [uuid |-> r.uuid, cmd |-> cmd, of |-> r.of] \in Messages
    BY <1>0 DEF Asked, Messages
  <2> QED BY <1>0, <1>4, <1>5, <2>1, <2>2 DEF Answer, envVars
<1>6. CASE Noise
  <2>1. PICK cmd \in Commands : Deliver([uuid |-> 0, cmd |-> cmd, of |-> 0])
    BY <1>6 DEF Noise
  <2>2. [uuid |-> 0, cmd |-> cmd, of |-> 0] \in Messages BY DEF Messages, Uuids
  <2>3. noise' \in 0 .. MaxNoise BY <1>0, <1>6 DEF Noise
  <2> QED BY <1>0, <1>4, <1>6, <2>1, <2>2, <2>3 DEF Noise
<1>7. CASE Connect \/ Disconnect \/ Interrupt
  BY <1>0, <1>7 DEF Connect, Disconnect, Interrupt, envVars
<1>8. ASSUME NEW timeout \in Timeouts, Recv(timeout) \/ RequestReply(timeout) PROVE MailTyped'
  BY <1>1, <1>8 DEF Recv, RequestReply, Call
<1>9. CASE SendTo \/ AwaitReply \/ StartRecv \/ Expire \/ Terminate \/ Tick \/ UNCHANGED vars
  BY <1>1, <1>9 DEF SendTo, Call, AwaitReply, StartRecv, Expire, Terminate, Tick, vars
<1> QED BY <1>2, <1>3, <1>5, <1>6, <1>7, <1>8, <1>9 DEF Next

LEMMA NextTyped == Typed /\ [Next]_vars => Typed'
BY NextCallTyped, NextTimeTyped, NextMailTyped DEF Typed

\* Every variable of MlmClient keeps its type, for any timeouts and any
\* sequence of operations: what is left of a timeout is never negative.
THEOREM ClientTypeCorrect == Spec => []TypeOK
BY InitTyped, NextTyped, TypedTypeOK, PTL DEF Spec

-----------------------------------------------------------------------------
\* A call asks to wait for its timeout: no longer, and requestreply() no less

\* What zpoller_wait() is given is 0, never goes past the end of the call, and
\* is all that is left of it in requestreply().
PollInv ==
  /\ pc = "polling" =>
       /\ start <= polled
       /\ pollerTimeout = 0 \/ polled + pollerTimeout <= Deadline
       /\ op = "requestreply" => polled + pollerTimeout = Deadline
  /\ RequestWaitsFully

LEMMA NextPollInv == Typed /\ PollInv /\ [Next]_vars => PollInv'
<1> SUFFICES ASSUME Typed, PollInv, [Next]_vars PROVE PollInv'
  OBVIOUS
<1>0. CallTyped /\ TimeTyped BY DEF Typed
<1>1. /\ now \in Nat /\ wait \in Nat /\ start \in Nat /\ polled \in Nat /\ pollerTimeout \in Nat
      /\ start <= now /\ polled <= now
  BY <1>0, ClientAssumption DEF TimeTyped
<1> USE DEF PollInv, RequestWaitsFully, Deadline
<1>2. ASSUME UNCHANGED <<now, pc, op, wait, pollVars, result>> PROVE PollInv'
  BY <1>2 DEF pollVars
<1>3. ASSUME pc' \notin {"polling", "idle"} PROVE PollInv'
  BY <1>3
<1>4. ASSUME NEW how \in {"sent", "failed", "message", "interrupted"}, NEW of, End(how, of)
      PROVE  PollInv'
  BY <1>4 DEF End
<1>5. ASSUME NEW timeout \in Timeouts, Recv(timeout) \/ RequestReply(timeout) PROVE PollInv'
  BY <1>3, <1>5 DEF Recv, RequestReply, Call
<1>6. CASE SendTo \/ Connect
  BY <1>3, <1>6 DEF SendTo, Call, Connect
<1>7. CASE Send \/ Terminate
  BY <1>4, <1>7 DEF Send, Terminate
<1>8. CASE SendRequest
  BY <1>3, <1>4, <1>8 DEF SendRequest
<1>9. CASE AwaitReply
  <2>1. CASE TimeLeft <= 0
    BY <1>1, <1>9, <2>1 DEF AwaitReply, TimeLeft, End, callVars
  <2>2. CASE ~(TimeLeft <= 0)
    BY <1>1, <1>9, <2>2 DEF AwaitReply, TimeLeft, callVars
  <2> QED BY <2>1, <2>2
<1>10. CASE TakeReply
  BY <1>3, <1>4, <1>10 DEF TakeReply
<1>11. CASE StartRecv
  BY <1>1, <1>11 DEF StartRecv, callVars
<1>12. CASE TakeMessage
  <2>1. CASE UNCHANGED <<pc, result>>
    <3>1. /\ UNCHANGED <<now, start, wait, op>>
          /\ pc = "polling" /\ op = "recv"
          /\ polled' = now
          /\ pollerTimeout' = Remaining
      BY <1>12 DEF TakeMessage, callVars
    <3>2. Remaining = 0 \/ now + Remaining <= start + wait BY <1>1, <3>1 DEF Remaining
    <3> QED BY <1>1, <2>1, <3>1, <3>2
  <2>2. CASE End("message", Head(inbox).of)
    BY <1>4, <2>2
  <2> QED BY <1>12, <2>1, <2>2 DEF TakeMessage
<1>13. CASE Expire
  BY <1>1, <1>13 DEF Expire, End, callVars, pollVars
<1>14. CASE Answer \/ Noise
  <2>1. PICK m : Deliver(m) BY <1>14 DEF Answer, Noise
  <2> QED BY <1>2, <2>1 DEF Deliver, callVars
<1>15. CASE Tick
  BY <1>1, <1>15 DEF Tick, callVars, pollVars
<1>16. CASE Disconnect \/ Interrupt \/ UNCHANGED vars
  BY <1>2, <1>16 DEF Disconnect, Interrupt, vars, callVars
<1> QED
  BY <1>5, <1>6, <1>7, <1>8, <1>9, <1>10, <1>11, <1>12, <1>13, <1>14, <1>15, <1>16 DEF Next

LEMMA PollCorrect == Spec => [](Typed /\ PollInv)
<1>1. Init => PollInv
  BY DEF Init, PollInv, RequestWaitsFully
<1> QED BY <1>1, InitTyped, NextTyped, NextPollInv, PTL DEF Spec

\* For any timeouts, however many messages arrive and whatever time it takes to
\* deal with them: no call asks to wait past the end of its timeout.
THEOREM NoCallIsLate == Spec => []NotLate
<1>1. PollInv => NotLate BY DEF PollInv, NotLate
<1> QED BY <1>1, PollCorrect, PTL

\* For any timeouts, and however many messages requestreply() discards: NULL
\* means that its timeout has passed.
THEOREM RequestsWaitTheirTimeout == Spec => []RequestWaitsFully
<1>1. PollInv => RequestWaitsFully BY DEF PollInv
<1> QED BY <1>1, PollCorrect, PTL

-----------------------------------------------------------------------------
\* How early recv() may return NULL

\* Each message that recv() discards takes the time since its start off what it
\* still waits for: the first what it has waited, those that follow too much.
ShareInv ==
  /\ pc = "polling" /\ op = "recv" /\ ~interrupted =>
       /\ wait <= discarded * (polled - start) + pollerTimeout
       /\ discarded = 0 => polled = start
  /\ pc = "loop" => op = "requestreply"
  /\ RecvWaitsItsShare

LEMMA TimesGrow ==
  ASSUME NEW n \in Nat, NEW a \in Nat, NEW b \in Nat, a <= b
  PROVE  n * a <= n * b
OBVIOUS

\* At the time of a message, what was taken off is at most what each message
\* takes off now.
LEMMA DiscardShare ==
  ASSUME NEW n \in Nat, NEW w \in Nat, NEW waited \in Nat, NEW before \in Nat,
         before <= waited, NEW left \in Nat,
         w <= n * before + left
  PROVE  w <= (n + 1) * waited + (IF waited >= left THEN 0 ELSE left - waited)
<1>1. n * before <= n * waited BY TimesGrow
<1>2. (n + 1) * waited = n * waited + waited OBVIOUS
<1>3. n * before \in Nat /\ n * waited \in Nat OBVIOUS
<1> QED BY <1>1, <1>2, <1>3

\* When the poller expires, its timeout has passed since that message.
LEMMA ExpireShare ==
  ASSUME NEW n \in Nat \ {0}, NEW w \in Nat, NEW waited \in Nat, NEW before \in Nat,
         NEW left \in Nat, before + left <= waited,
         w <= n * before + left
  PROVE  w <= n * waited
<1>1. n * (before + left) <= n * waited BY TimesGrow
<1>2. n * (before + left) = n * before + n * left OBVIOUS
<1>3. 1 * left <= n * left
  <2>1. left * 1 <= left * n BY TimesGrow
  <2> QED BY <2>1
<1>4. n * before \in Nat /\ n * left \in Nat OBVIOUS
<1> QED BY <1>1, <1>2, <1>3, <1>4

LEMMA NextShareInv == Typed /\ PollInv /\ ShareInv /\ [Next]_vars => ShareInv'
<1> SUFFICES ASSUME Typed, PollInv, ShareInv, [Next]_vars PROVE ShareInv'
  OBVIOUS
<1>1. /\ now \in Nat /\ wait \in Nat /\ start \in Nat /\ polled \in Nat /\ pollerTimeout \in Nat
      /\ start <= now /\ polled <= now /\ discarded \in Nat
  BY ClientAssumption DEF Typed, TimeTyped
<1> USE DEF ShareInv, RecvWaitsItsShare
<1>2. ASSUME UNCHANGED <<now, pc, op, wait, pollVars, result>>, interrupted => interrupted'
      PROVE  ShareInv'
  BY <1>2 DEF pollVars
<1>3. ASSUME pc' \in {"connecting", "ready"} PROVE ShareInv'
  BY <1>3
<1>4. ASSUME NEW how \in {"sent", "failed", "message", "interrupted"}, NEW of, End(how, of)
      PROVE  ShareInv'
  BY <1>4 DEF End
<1>5. ASSUME op' = "requestreply" PROVE ShareInv'
  BY <1>5
<1>6. ASSUME NEW timeout \in Timeouts, Recv(timeout) \/ RequestReply(timeout) PROVE ShareInv'
  BY <1>3, <1>6 DEF Recv, RequestReply, Call
<1>7. CASE SendTo \/ Connect
  BY <1>3, <1>7 DEF SendTo, Call, Connect
<1>8. CASE Send \/ Terminate
  BY <1>4, <1>8 DEF Send, Terminate
<1>9. CASE SendRequest \/ AwaitReply \/ TakeReply
  BY <1>5, <1>9 DEF SendRequest, AwaitReply, TakeReply, callVars
<1>10. CASE StartRecv
  BY <1>1, <1>10 DEF StartRecv, callVars
<1>11. CASE TakeMessage
  <2>1. /\ UNCHANGED <<now, start, wait, op, interrupted>>
        /\ pc = "polling" /\ op = "recv"
        /\ polled' = now
        /\ pollerTimeout' = Remaining
    BY <1>11 DEF TakeMessage, callVars, envVars
  <2>2. CASE End("message", Head(inbox).of)
    BY <1>4, <2>2
  <2>3. CASE discarded' = discarded + 1 /\ UNCHANGED <<pc, result>>
    <3> SUFFICES ASSUME ~interrupted
                 PROVE  /\ wait <= (discarded + 1) * (now - start) + Remaining
                        /\ discarded + 1 # 0
      BY <2>1, <2>3
    <3>1. start <= polled BY <2>1 DEF PollInv
    <3>2. /\ now - start \in Nat /\ polled - start \in Nat
          /\ polled - start <= now - start
      BY <1>1, <3>1
    <3>3. wait <= discarded * (polled - start) + pollerTimeout BY <2>1
    <3>4. wait <= (discarded + 1) * (now - start) + Remaining
      BY <1>1, <3>2, <3>3, DiscardShare DEF Remaining
    <3> QED BY <1>1, <3>4
  <2>4. CASE interrupted /\ UNCHANGED <<pc, result>>
    BY <2>1, <2>4
  <2> QED BY <1>11, <2>2, <2>3, <2>4 DEF TakeMessage
<1>12. CASE Expire
  <2>1. /\ pc = "polling" /\ pc' = "idle" /\ now >= polled + pollerTimeout
        /\ UNCHANGED <<now, op, wait, start, polled, pollerTimeout, discarded, interrupted>>
    BY <1>12 DEF Expire, End, callVars, pollVars, envVars
  <2> SUFFICES ASSUME op = "recv", ~interrupted
               PROVE  wait <= (IF discarded = 0 THEN 1 ELSE discarded) * (now - start)
    BY <2>1
  <2>2. start <= polled BY <2>1 DEF PollInv
  <2>3. wait <= discarded * (polled - start) + pollerTimeout BY <2>1
  <2>4. CASE discarded = 0
    <3>1. polled = start /\ discarded * (polled - start) = 0 BY <1>1, <2>1, <2>4
    <3> QED BY <1>1, <2>1, <2>3, <2>4, <3>1
  <2>5. CASE discarded # 0
    <3>1. /\ discarded \in Nat \ {0}
          /\ now - start \in Nat /\ polled - start \in Nat
          /\ (polled - start) + pollerTimeout <= now - start
      BY <1>1, <2>1, <2>2, <2>5
    <3>2. wait <= discarded * (now - start) BY <1>1, <2>3, <3>1, ExpireShare
    <3> QED BY <2>5, <3>2
  <2> QED BY <2>4, <2>5
<1>13. CASE Answer \/ Noise
  <2>1. PICK m : Deliver(m) BY <1>13 DEF Answer, Noise
  <2>2. interrupted' = interrupted BY <1>13 DEF Answer, Noise, envVars
  <2> QED BY <1>2, <2>1, <2>2 DEF Deliver, callVars
<1>14. CASE Tick
  <2>1. now' = now + 1 /\ UNCHANGED <<pc, op, wait, result, interrupted>>
    BY <1>14 DEF Tick, callVars, envVars
  <2>2. UNCHANGED <<start, polled, pollerTimeout, discarded>>
    BY <1>14 DEF Tick, pollVars
  <2>3. pc = "polling" /\ op = "recv" /\ ~interrupted =>
          wait <= discarded * (polled - start) + pollerTimeout /\ (discarded = 0 => polled = start)
    OBVIOUS
  <2>4. RecvWaitsItsShare'
    <3> DEFINE n == IF discarded = 0 THEN 1 ELSE discarded
    <3>1. n \in Nat /\ now - start \in Nat /\ now' - start' \in Nat /\ n' = n
      BY <1>1, <2>1, <2>2
    <3>2. now - start <= now' - start' BY <1>1, <2>1, <2>2
    <3> SUFFICES ASSUME wait <= n * (now - start) PROVE wait' <= n' * (now' - start')
      BY <2>1
    <3> HIDE DEF n
    <3>3. n * (now - start) \in Nat /\ n * (now' - start') \in Nat BY <3>1
    <3>4. n * (now - start) <= n * (now' - start') BY <3>1, <3>2, TimesGrow
    <3> QED BY <1>1, <2>1, <3>1, <3>3, <3>4
  <2> HIDE DEF RecvWaitsItsShare
  <2> QED BY <2>1, <2>2, <2>3, <2>4
<1>15. CASE Disconnect \/ Interrupt \/ UNCHANGED vars
  BY <1>2, <1>15 DEF Disconnect, Interrupt, vars, callVars, envVars
<1> QED
  BY <1>6, <1>7, <1>8, <1>9, <1>10, <1>11, <1>12, <1>13, <1>14, <1>15 DEF Next

\* For any timeouts, and however many messages recv() discards: it waits at least
\* the part of its timeout that their number leaves it, and all of it if they
\* are less than two.
THEOREM RecvsWaitTheirShare == Spec => []RecvWaitsItsShare
<1>1. Init => ShareInv BY DEF Init, ShareInv, RecvWaitsItsShare
<1>2. ShareInv => RecvWaitsItsShare BY DEF ShareInv
<1> QED BY <1>1, <1>2, InitTyped, NextTyped, PollCorrect, NextShareInv, PTL DEF Spec

-----------------------------------------------------------------------------
\* requestreply() returns the reply to its own request

\* A message with the uuid of a request is the reply to it, and requestreply()
\* waits for the last request made.
Answers == {r \in Asked : r.of = r.uuid}

Truthful == {m \in Messages : m.uuid # 0 => m.of = m.uuid}

OwnInv ==
  /\ asked \in SUBSET Answers
  /\ inbox \in Seq(Truthful)
  /\ pc # "idle" /\ op # "recv" => uuid = requests /\ requests # 0
  /\ OwnReply

LEMMA NextOwnInv == Typed /\ OwnInv /\ [Next]_vars => OwnInv'
<1> SUFFICES ASSUME Typed, OwnInv, [Next]_vars PROVE OwnInv'
  OBVIOUS
<1>0. CallTyped /\ MailTyped BY DEF Typed
<1>1. asked \in SUBSET Answers /\ inbox \in Seq(Truthful) BY DEF OwnInv
<1>2. ASSUME asked' \in SUBSET Answers,
             inbox' \in Seq(Truthful),
             pc' # "idle" /\ op' # "recv" => uuid' = requests' /\ requests' # 0,
             OwnReply'
      PROVE  OwnInv'
  BY <1>2 DEF OwnInv
<1>3. /\ pc # "idle" /\ op # "recv" => uuid = requests /\ requests # 0
      /\ OwnReply
  BY DEF OwnInv
<1> USE DEF OwnReply
<1>4. ASSUME UNCHANGED <<asked, inbox, op, uuid, requests>>,
             \/ UNCHANGED <<pc, result>>
             \/ pc # "idle" /\ pc' # "idle"
             \/ pc # "idle" /\ \E how \in {"sent", "failed", "expired", "interrupted"}, of \in Nat : End(how, of)
      PROVE  OwnInv'
  BY <1>1, <1>2, <1>3, <1>4 DEF OwnInv, End
<1>5. ASSUME NEW timeout \in Timeouts, Recv(timeout) PROVE OwnInv'
  BY <1>1, <1>2, <1>5 DEF Recv, Call
<1>6. ASSUME NEW timeout \in Timeouts, RequestReply(timeout) PROVE OwnInv'
  <2>1. requests + 1 # 0 BY <1>0 DEF CallTyped
  <2> QED BY <1>1, <1>2, <1>6, <2>1 DEF RequestReply, Call, NewUuid
<1>7. CASE SendTo
  <2>1. requests + 1 # 0 BY <1>0 DEF CallTyped
  <2> QED BY <1>1, <1>2, <1>7, <2>1 DEF SendTo, Call
<1>8. CASE Send \/ SendRequest
  <2>1. /\ UNCHANGED <<op, uuid, requests, inbox>>
        /\ pc = "ready" /\ op # "recv"
        /\ Post \/ UNCHANGED asked
        /\ \/ pc' = "loop"
           \/ pc' = "idle" /\ result'.how # "message"
    BY <1>8 DEF Send, SendRequest, End, callVars
  <2>2. [uuid |-> uuid, of |-> requests] \in Answers
    BY <1>0, <1>3, <2>1 DEF CallTyped, Asked, Uuids, Answers
  <2>3. asked' \in SUBSET Answers BY <1>1, <2>1, <2>2 DEF Post
  <2> QED BY <1>1, <1>2, <1>3, <2>1, <2>3
<1>9. ASSUME inbox # <<>>, UNCHANGED <<asked, op, uuid, requests>>, pc = "polling",
             inbox' \in {inbox, OtherMessages},
             \/ pc' # "idle"
             \/ Matches(Head(inbox)) /\ End("message", Head(inbox).of)
      PROVE  OwnInv'
  <2>1. Head(inbox) \in Truthful /\ inbox' \in Seq(Truthful)
    BY <1>1, <1>9, TailType DEF OtherMessages
  <2>2. pc' = "idle" /\ op # "recv" => result'.of = requests
    <3> SUFFICES ASSUME pc' = "idle", op # "recv" PROVE result'.of = requests
      OBVIOUS
    <3>1. Head(inbox).uuid = requests /\ requests # 0 BY <1>3, <1>9 DEF Matches
    <3> QED BY <1>9, <2>1, <3>1 DEF Truthful, End
  <2> QED BY <1>1, <1>2, <1>3, <1>9, <2>1, <2>2
<1>10. CASE TakeReply \/ TakeMessage
  BY <1>9, <1>10 DEF TakeReply, TakeMessage, callVars
<1>11. CASE Connect \/ AwaitReply \/ StartRecv \/ Expire \/ Terminate
  BY <1>4, <1>11 DEF Connect, AwaitReply, StartRecv, Expire, Terminate, callVars
<1>12. ASSUME NEW m \in Truthful, Deliver(m), asked' \in SUBSET Answers PROVE OwnInv'
  <2>1. inbox' \in Seq(Truthful) /\ UNCHANGED <<pc, op, uuid, result, requests>>
    BY <1>1, <1>12 DEF Deliver, callVars
  <2> QED BY <1>2, <1>3, <1>12, <2>1 DEF OwnInv
<1>13. CASE Answer
  <2>1. PICK r \in asked, cmd \in Commands :
          /\ asked' = asked \ {r}
          /\ Deliver([uuid |-> r.uuid, cmd |-> cmd, of |-> r.of])
    BY <1>13 DEF Answer
  <2>2. [uuid |-> r.uuid, cmd |-> cmd, of |-> r.of] \in Truthful
    BY <1>1 DEF Answers, Truthful, Asked, Messages
  <2> QED BY <1>1, <1>12, <2>1, <2>2
<1>14. CASE Noise
  <2>1. PICK cmd \in Commands : Deliver([uuid |-> 0, cmd |-> cmd, of |-> 0])
    BY <1>14 DEF Noise
  <2>2. [uuid |-> 0, cmd |-> cmd, of |-> 0] \in Truthful
    BY ClientAssumption DEF Truthful, Messages, Uuids
  <2> QED BY <1>1, <1>12, <1>14, <2>1, <2>2 DEF Noise
<1>15. CASE Disconnect \/ Interrupt \/ Tick \/ UNCHANGED vars
  BY <1>4, <1>15 DEF Disconnect, Interrupt, Tick, vars, callVars
<1> QED
  BY <1>5, <1>6, <1>7, <1>8, <1>10, <1>11, <1>13, <1>14, <1>15 DEF Next

\* For any sequence of operations on the client: requestreply() never returns
\* the late reply to an earlier request, be it of another user of the pool.
THEOREM RequestsReturnTheirOwnReply == Spec => []OwnReply
<1>1. Init => OwnInv
  <2>1. <<>> \in Seq(Truthful) OBVIOUS
  <2> QED BY <2>1 DEF Init, OwnInv, OwnReply
<1>2. OwnInv => OwnReply BY DEF OwnInv
<1> QED BY <1>1, <1>2, InitTyped, NextTyped, NextOwnInv, PTL DEF Spec

-----------------------------------------------------------------------------
\* Which replies may be left behind

\* The reply is in the mailbox until it is taken. One that was awaited stays the
\* first there, as the thread takes the first message of what it has polled; so
\* requestreply() is back at its deadline only with one that was queued, unless
\* interrupted.
DueInv ==
  /\ pc \in {"connecting", "ready"} => due = "none"
  /\ pc = "loop" => op = "requestreply"
  /\ pc \in {"loop", "polling"} /\ due # "none" => \E i \in 1 .. Len(inbox) : Matches(inbox[i])
  /\ pc \in {"loop", "polling"} /\ due = "awaited" /\ ~interrupted =>
       pc = "polling" /\ inbox # <<>> /\ Matches(Head(inbox))
  /\ ReplyIsNotMissed

LEMMA NextDueInv == Typed /\ DueInv /\ [Next]_vars => DueInv'
<1> SUFFICES ASSUME Typed, DueInv, [Next]_vars PROVE DueInv'
  OBVIOUS
<1>0. /\ inbox \in Seq(Messages) /\ now \in Nat /\ start \in Nat /\ wait \in Nat
      /\ due \in Dues
  BY ClientAssumption DEF Typed, CallTyped, MailTyped, TimeTyped
<1> USE DEF DueInv, ReplyIsNotMissed
<1>1. ASSUME pc' \in {"connecting", "ready"}, due' = "none" PROVE DueInv'
  BY <1>1
<1>2. ASSUME pc' = "idle", result'.how # "expired" \/ due' = "none" PROVE DueInv'
  BY <1>2
<1>3. ASSUME NEW timeout \in Timeouts, Recv(timeout) \/ RequestReply(timeout) PROVE DueInv'
  BY <1>1, <1>3 DEF Recv, RequestReply, Call
<1>4. CASE SendTo
  BY <1>1, <1>4 DEF SendTo, Call
<1>5. CASE Connect
  BY <1>1, <1>5 DEF Connect
<1>6. CASE Send \/ Terminate
  BY <1>2, <1>6 DEF Send, Terminate, End
<1>7. CASE SendRequest
  <2>1. CASE pc' = "idle" BY <1>2, <1>7, <2>1 DEF SendRequest, End
  <2>2. CASE pc' = "loop"
    <3>1. due' = "none" /\ op' = "requestreply" BY <1>7 DEF SendRequest, callVars
    <3> QED BY <2>2, <3>1
  <2> QED BY <1>7, <2>1, <2>2 DEF SendRequest, End
\* The call goes on, and the mailbox is as it was.
<1>8. ASSUME UNCHANGED <<op, uuid, due, result, inbox, interrupted>>,
             pc \in {"loop", "polling"}, pc' \in {"loop", "polling"},
             pc' = "loop" => op = "requestreply" /\ (pc = "polling" => interrupted)
      PROVE  DueInv'
  BY <1>8 DEF Matches
<1>9. CASE AwaitReply
  <2>1. UNCHANGED <<now, start, wait, op, uuid, due, inbox, interrupted>> /\ pc = "loop"
    BY <1>9 DEF AwaitReply, callVars, envVars
  <2>2. CASE TimeLeft <= 0
    <3>1. pc' = "idle" /\ now >= Deadline BY <1>0, <1>9, <2>2 DEF AwaitReply, TimeLeft, Deadline, End
    <3> QED BY <1>0, <2>1, <3>1 DEF Deadline, Dues
  <2>3. CASE ~(TimeLeft <= 0)
    BY <1>8, <1>9, <2>1, <2>3 DEF AwaitReply
  <2> QED BY <2>2, <2>3
<1>10. ASSUME inbox # <<>>, ~Matches(Head(inbox)), inbox' = OtherMessages,
              NEW i \in 1 .. Len(inbox), Matches(inbox[i])
       PROVE  \E j \in 1 .. Len(inbox') : Matches(inbox'[j])
  <2>1. /\ Head(inbox) = inbox[1]
        /\ Len(inbox) \in Nat
        /\ Len(inbox') = Len(inbox) - 1
        /\ \A k \in 1 .. Len(inbox) - 1 : inbox'[k] = inbox[k + 1]
    BY <1>0, <1>10, TailType DEF OtherMessages
  <2>2. i # 1 BY <1>10, <2>1
  <2>3. i - 1 \in 1 .. Len(inbox') /\ i - 1 \in 1 .. Len(inbox) - 1 /\ (i - 1) + 1 = i
    BY <2>1, <2>2
  <2>4. inbox'[i - 1] = inbox[i] BY <2>1, <2>3
  <2> QED BY <1>10, <2>3, <2>4
<1>11. ASSUME pc = "polling", inbox # <<>>, UNCHANGED <<op, uuid, due, interrupted>>,
              \/ /\ inbox' = OtherMessages
                 /\ IF Matches(Head(inbox))
                      THEN End("message", Head(inbox).of)
                      ELSE pc' \in {"loop", "polling"} /\ UNCHANGED result
              \/ interrupted /\ pc' \in {"loop", "polling"} /\ UNCHANGED <<inbox, result>>,
              pc' = "loop" => op = "requestreply"
       PROVE  DueInv'
  <2>1. CASE End("message", Head(inbox).of) BY <1>2, <2>1 DEF End
  <2>2. CASE /\ pc' \in {"loop", "polling"} /\ inbox' = OtherMessages /\ ~Matches(Head(inbox))
    <3>1. due = "awaited" => interrupted BY <1>11, <2>2
    <3>2. due # "none" => \E j \in 1 .. Len(inbox') : Matches(inbox'[j])
      BY <1>10, <1>11, <2>2
    <3> QED BY <1>11, <2>2, <3>1, <3>2 DEF Matches
  <2>3. CASE interrupted /\ pc' \in {"loop", "polling"} /\ UNCHANGED <<inbox, result>>
    BY <1>8, <1>11, <2>3
  <2> QED BY <1>11, <2>1, <2>2, <2>3
<1>12. CASE TakeReply \/ TakeMessage
  <2>1. pc = "polling" /\ inbox # <<>> /\ UNCHANGED <<op, uuid, due, interrupted>>
    BY <1>12 DEF TakeReply, TakeMessage, callVars, envVars
  <2>2. \/ /\ inbox' = OtherMessages
           /\ IF Matches(Head(inbox))
                THEN End("message", Head(inbox).of)
                ELSE pc' \in {"loop", "polling"} /\ UNCHANGED result
        \/ interrupted /\ pc' \in {"loop", "polling"} /\ UNCHANGED <<inbox, result>>
    BY <1>12 DEF TakeReply, TakeMessage
  <2>3. pc' = "loop" => op = "requestreply"
    BY <1>12, <2>1 DEF TakeReply, TakeMessage, End
  <2> HIDE DEF DueInv, ReplyIsNotMissed
  <2> QED BY <1>11, <2>1, <2>2, <2>3
<1>13. CASE StartRecv
  <2>1. /\ pc' = "polling" /\ op = "recv" /\ UNCHANGED <<op, uuid, inbox>>
        /\ due' = IF InBox(uuid) THEN "queued" ELSE "none"
    BY <1>13 DEF StartRecv, callVars
  <2>2. InBox(uuid) => \E i \in 1 .. Len(inbox) : Matches(inbox[i])'
    BY <2>1 DEF InBox, Matches
  <2> QED BY <2>1, <2>2
<1>14. CASE Expire
  <2>1. Len(inbox) = 0 /\ pc = "polling" BY <1>14 DEF Expire
  <2>2. due = "none" BY <2>1
  <2> QED BY <1>2, <1>14, <2>2 DEF Expire, End
<1>15. CASE Answer \/ Noise
  <2>1. PICK m : Deliver(m) BY <1>15 DEF Answer, Noise
  <2>2. /\ UNCHANGED <<now, pc, op, uuid, wait, start, result, interrupted>>
        /\ inbox' = Append(inbox, m)
        /\ due' = IF due = "none" /\ pc \in {"loop", "polling"} /\ Matches(m)
                    THEN IF pc = "polling" /\ inbox = <<>> THEN "awaited" ELSE "queued"
                    ELSE due
    BY <1>15, <2>1 DEF Deliver, callVars, pollVars, envVars, Answer, Noise
  <2>3. /\ Len(inbox) \in Nat
        /\ Len(inbox') = Len(inbox) + 1
        /\ inbox'[Len(inbox) + 1] = m
        /\ \A i \in 1 .. Len(inbox) : inbox'[i] = inbox[i]
        /\ inbox' # <<>>
        /\ Head(inbox') = IF inbox = <<>> THEN m ELSE Head(inbox)
    BY <1>0, <2>2
  <2>4. \A e : Matches(e)' <=> Matches(e) BY <2>2 DEF Matches
  <2>5. /\ (\E i \in 1 .. Len(inbox) : Matches(inbox[i])) =>
             \E i \in 1 .. Len(inbox') : Matches(inbox'[i])
        /\ Matches(m) => \E i \in 1 .. Len(inbox') : Matches(inbox'[i])
    <3>1. Len(inbox) + 1 \in 1 .. Len(inbox') BY <2>3
    <3> QED BY <2>3, <3>1
  <2>6. pc \in {"loop", "polling"} /\ due' # "none" =>
          (\E i \in 1 .. Len(inbox) : Matches(inbox[i]))'
    BY <2>2, <2>4, <2>5
  <2>7. pc \in {"loop", "polling"} /\ due' = "awaited" /\ ~interrupted =>
          pc = "polling" /\ Matches(Head(inbox))'
    BY <2>2, <2>3, <2>4
  <2>8. ReplyIsNotMissed' BY <2>2 DEF Deadline
  <2> QED BY <2>2, <2>3, <2>6, <2>7, <2>8
<1>16. CASE Tick \/ Interrupt \/ Disconnect \/ UNCHANGED vars
  <2>1. /\ UNCHANGED <<pc, op, uuid, wait, start, due, result, inbox>>
        /\ now' \in Nat /\ now <= now'
        /\ interrupted => interrupted'
    BY <1>0, <1>16 DEF Tick, Interrupt, Disconnect, vars, callVars, pollVars, envVars
  <2>2. \A e : Matches(e)' <=> Matches(e) BY <2>1 DEF Matches
  <2>3. ReplyIsNotMissed' BY <1>0, <2>1 DEF Deadline
  <2> QED BY <2>1, <2>2, <2>3
<1> QED
  BY <1>3, <1>4, <1>5, <1>6, <1>7, <1>9, <1>12, <1>13, <1>14, <1>15, <1>16 DEF Next

\* For any timeouts, any other messages and whatever time it takes to deal with
\* them: recv() does not return NULL with the reply in its mailbox, and
\* requestreply() only once its deadline has passed, with a reply that came while
\* it dealt with other messages or was interrupted.
THEOREM OnlyLateRepliesAreMissed == Spec => []ReplyIsNotMissed
<1>1. Init => DueInv BY DEF Init, DueInv, ReplyIsNotMissed
<1>2. DueInv => ReplyIsNotMissed BY DEF DueInv
<1> QED BY <1>1, <1>2, InitTyped, NextTyped, NextDueInv, PTL DEF Spec
=============================================================================
