------------------------- MODULE MlmClientRefinement ------------------------
(***************************************************************************)
(* MlmClient implements RequestReply, for any operations, timeouts and     *)
(* faults.                                                                 *)
(***************************************************************************)
EXTENDS MlmClientProofs

-----------------------------------------------------------------------------
\* A request is in one place

NotUnderWay(id) ==
  /\ \A r \in asked : r.uuid # id
  /\ \A i \in 1 .. Len(inbox) : inbox[i].uuid # id

\* No request is asked or answered twice, and the one a call is about to send
\* is new.
UniqueInv ==
  /\ \A r \in asked : r.uuid \in 1 .. requests
  /\ \A i \in 1 .. Len(inbox) : inbox[i].uuid \in 0 .. requests
  /\ \A i, j \in 1 .. Len(inbox) :
       inbox[i].uuid = inbox[j].uuid /\ inbox[i].uuid # 0 => i = j
  /\ \A r \in asked : \A i \in 1 .. Len(inbox) : inbox[i].uuid # r.uuid
  /\ op = "recv" /\ pc # "idle" => uuid \in 1 .. requests
  /\ op # "recv" /\ pc \in {"connecting", "ready"} => NotUnderWay(requests)

Inv == Typed /\ OwnInv /\ UniqueInv

\* The messages behind the first.
LEMMA OtherMessagesAre ==
  ASSUME Typed, inbox # <<>>
  PROVE  /\ Len(inbox) \in Nat \ {0}
         /\ Head(inbox) = inbox[1]
         /\ Len(OtherMessages) = Len(inbox) - 1
         /\ \A i \in 1 .. Len(OtherMessages) :
              i + 1 \in 1 .. Len(inbox) /\ i + 1 # 1 /\ OtherMessages[i] = inbox[i + 1]
<1>1. inbox \in Seq(Messages) BY DEF Typed, MailTyped
<1>2. /\ Len(inbox) \in Nat \ {0}
      /\ Head(inbox) = inbox[1]
      /\ Len(OtherMessages) = Len(inbox) - 1
      /\ \A i \in 1 .. Len(inbox) - 1 : OtherMessages[i] = inbox[i + 1]
  BY <1>1, TailType DEF OtherMessages
<1> QED BY <1>2

LEMMA NextUniqueInv == Inv /\ [Next]_vars => UniqueInv'
<1> SUFFICES ASSUME Inv, [Next]_vars PROVE UniqueInv'
  OBVIOUS
<1>0. Typed /\ OwnInv /\ UniqueInv BY DEF Inv
<1>1. requests \in Nat /\ inbox \in Seq(Messages) BY <1>0 DEF Typed, CallTyped, MailTyped
<1> USE DEF UniqueInv
<1>2. ASSUME UNCHANGED <<asked, inbox, op, uuid, requests>>,
             pc' # "idle" => pc # "idle",
             pc' \in {"connecting", "ready"} => pc \in {"connecting", "ready"}
      PROVE  UniqueInv'
  BY <1>0, <1>2 DEF NotUnderWay
<1>3. ASSUME NEW timeout \in Timeouts, Recv(timeout) PROVE UniqueInv'
  <2>1. UNCHANGED <<asked, inbox, requests>> /\ op' = "recv" /\ uuid' \in 1 .. requests
    BY <1>3 DEF Recv, Call
  <2> QED BY <1>0, <2>1
<1>4. ASSUME UNCHANGED <<asked, inbox>>, op' # "recv", requests' = requests + 1 PROVE UniqueInv'
  <2>1. \A r \in asked : r.uuid \in 1 .. requests' /\ r.uuid # requests' BY <1>0, <1>1, <1>4
  <2>2. \A i \in 1 .. Len(inbox) : inbox[i].uuid \in 0 .. requests' /\ inbox[i].uuid # requests'
    BY <1>0, <1>1, <1>4
  <2> QED BY <1>0, <1>4, <2>1, <2>2 DEF NotUnderWay
<1>5. ASSUME NEW timeout \in Timeouts, RequestReply(timeout) PROVE UniqueInv'
  BY <1>4, <1>5 DEF RequestReply, Call
<1>6. CASE SendTo
  BY <1>4, <1>6 DEF SendTo, Call
<1>7. CASE Send \/ SendRequest
  <2>1. /\ UNCHANGED <<inbox, op, uuid, requests>>
        /\ pc = "ready" /\ op # "recv" /\ pc' \in {"idle", "loop"}
        /\ Post \/ UNCHANGED asked
    BY <1>7 DEF Send, SendRequest, End, callVars
  <2>2. uuid = requests /\ requests # 0 /\ NotUnderWay(requests) BY <1>0, <2>1 DEF OwnInv
  <2>3. \A r \in asked' : r \in asked \/ r.uuid = requests BY <2>1, <2>2 DEF Post
  <2>4. requests \in 1 .. requests BY <1>1, <2>2
  <2> QED BY <1>0, <2>1, <2>2, <2>3, <2>4 DEF NotUnderWay
<1>8. CASE TakeReply \/ TakeMessage
  <2>1. /\ inbox # <<>> /\ UNCHANGED <<asked, op, uuid, requests>>
        /\ pc = "polling" /\ pc' \notin {"connecting", "ready"}
        /\ inbox' \in {inbox, OtherMessages}
    BY <1>8 DEF TakeReply, TakeMessage, End, callVars
  <2>2. CASE inbox' = inbox BY <1>2, <2>1, <2>2
  <2>3. CASE inbox' = OtherMessages
    <3>1. \A i \in 1 .. Len(inbox') :
            i \in Nat /\ i + 1 \in 1 .. Len(inbox) /\ inbox'[i] = inbox[i + 1]
      BY <1>0, <2>1, <2>3, OtherMessagesAre
    <3>2. \A i \in 1 .. Len(inbox') : inbox'[i].uuid \in 0 .. requests BY <1>0, <3>1
    <3>3. ASSUME NEW i \in 1 .. Len(inbox'), NEW j \in 1 .. Len(inbox'),
                 inbox'[i].uuid = inbox'[j].uuid, inbox'[i].uuid # 0
          PROVE  i = j
      <4>1. i + 1 = j + 1 BY <1>0, <3>1, <3>3
      <4> QED BY <3>1, <4>1
    <3>4. \A r \in asked : \A i \in 1 .. Len(inbox') : inbox'[i].uuid # r.uuid BY <1>0, <3>1
    <3> QED BY <1>0, <2>1, <3>2, <3>3, <3>4
  <2> QED BY <2>1, <2>2, <2>3
<1>9. CASE Connect \/ AwaitReply \/ StartRecv \/ Expire \/ Terminate
  BY <1>2, <1>9 DEF Connect, AwaitReply, StartRecv, Expire, Terminate, End, callVars
<1>10. ASSUME NEW m \in Messages, Deliver(m), asked' \subseteq asked,
              m.uuid \in 0 .. requests,
              m.uuid # 0 => \A i \in 1 .. Len(inbox) : inbox[i].uuid # m.uuid,
              \A r \in asked' : r.uuid # m.uuid,
              op # "recv" /\ pc \in {"connecting", "ready"} => m.uuid # requests
       PROVE  UniqueInv'
  <2>1. UNCHANGED <<pc, op, uuid, requests>> /\ inbox' = Append(inbox, m)
    BY <1>10 DEF Deliver, callVars
  <2>2. \A i \in 1 .. Len(inbox') :
          \/ i \in 1 .. Len(inbox) /\ inbox'[i] = inbox[i]
          \/ i = Len(inbox) + 1 /\ inbox'[i] = m
    BY <1>1, <2>1, AppendProperties
  <2> QED BY <1>0, <1>10, <2>1, <2>2 DEF NotUnderWay
<1>11. CASE Answer
  <2>1. PICK r \in asked, cmd \in Commands :
          /\ asked' = asked \ {r}
          /\ Deliver([uuid |-> r.uuid, cmd |-> cmd, of |-> r.of])
    BY <1>11 DEF Answer
  <2>2. r \in Asked /\ r.of = r.uuid BY <1>0 DEF OwnInv, Answers
  <2>3. ASSUME NEW other \in asked', other.uuid = r.uuid PROVE FALSE
    <3>1. other \in Asked /\ other.of = r.of /\ other # r
      BY <1>0, <2>1, <2>2, <2>3 DEF OwnInv, Answers
    <3> QED BY <2>2, <2>3, <3>1 DEF Asked
  <2>4. [uuid |-> r.uuid, cmd |-> cmd, of |-> r.of] \in Messages BY <2>2 DEF Asked, Messages
  <2>5. r.uuid \in 0 .. requests BY <1>0, <1>1
  <2> QED BY <1>0, <1>10, <2>1, <2>3, <2>4, <2>5 DEF NotUnderWay
<1>12. CASE Noise
  <2>1. PICK cmd \in Commands : Deliver([uuid |-> 0, cmd |-> cmd, of |-> 0])
    BY <1>12 DEF Noise
  <2>2. [uuid |-> 0, cmd |-> cmd, of |-> 0] \in Messages
    BY ClientAssumption DEF Messages, Uuids
  <2>3. \A r \in asked : r.uuid # 0 BY <1>0, <1>1
  <2>4. op # "recv" /\ pc \in {"connecting", "ready"} => requests # 0 BY <1>0 DEF OwnInv
  <2> QED BY <1>1, <1>10, <1>12, <2>1, <2>2, <2>3, <2>4 DEF Noise
<1>13. CASE Disconnect \/ Interrupt \/ Tick \/ UNCHANGED vars
  BY <1>2, <1>13 DEF Disconnect, Interrupt, Tick, vars, callVars
<1> QED
  BY <1>3, <1>5, <1>6, <1>7, <1>8, <1>9, <1>11, <1>12, <1>13 DEF Next

LEMMA InitInv == Init => Inv
<1> SUFFICES ASSUME Init PROVE Inv
  OBVIOUS
<1>1. <<>> \in Seq(Truthful) OBVIOUS
<1>2. OwnInv BY <1>1 DEF Init, OwnInv, OwnReply
<1>3. Len(inbox) = 0 /\ asked = {} BY DEF Init
<1>4. UniqueInv BY <1>3 DEF Init, UniqueInv
<1> QED BY <1>2, <1>4, InitTyped DEF Inv

LEMMA NextInv == Inv /\ [Next]_vars => Inv'
BY NextTyped, NextOwnInv, NextUniqueInv DEF Inv

-----------------------------------------------------------------------------
\* The steps of RequestReply, in the variables of MlmClient

Asks == {r.uuid : r \in asked}

Answered == {inbox[i].uuid : i \in 1 .. Len(inbox)} \ {0}

Steps ==
  \/ /\ Stage \notin {"asking", "waiting"} /\ Stage' = "asking"
     /\ requests' = requests + 1 /\ requests' <= MaxCalls /\ uuid' = requests'
     /\ UNCHANGED <<Asks, Answered>>
  \/ /\ Stage \notin {"asking", "waiting"} /\ Stage' = "waiting"
     /\ uuid' \in 1 .. requests
     /\ UNCHANGED <<requests, Asks, Answered>>
  \/ /\ Stage = "asking" /\ Stage' \in {"waiting", "none"}
     /\ Asks' \in {Asks, Asks \cup {uuid}}
     /\ UNCHANGED <<uuid, requests, Answered>>
  \/ /\ Stage = "waiting" /\ Stage' = "reply"
     /\ uuid \in Answered /\ Answered' \subseteq Answered \ {uuid}
     /\ UNCHANGED <<uuid, requests, Asks>>
  \/ /\ Stage' = "none"
     /\ UNCHANGED <<uuid, requests, Asks, Answered>>
  \/ /\ Answered' \subseteq Answered
     /\ UNCHANGED <<Stage, uuid, requests, Asks>>
  \/ /\ \E r \in Asks : Asks' = Asks \ {r} /\ Answered' = Answered \cup {r}
     /\ UNCHANGED <<Stage, uuid, requests>>
  \/ UNCHANGED <<Stage, uuid, requests, Asks, Answered>>

LEMMA StepsAreRequestReply ==
  ASSUME requests \in Nat, Steps
  PROVE  [Promise!Next]_Promise!vars
<1> DEFINE last == [c \in {User} |-> uuid]
           stage == [c \in {User} |-> Stage]
<1>0. User \in {User} /\ \A c \in {User} : c = User OBVIOUS
<1>1. /\ \A x : [last EXCEPT ![User] = x] = [c \in {User} |-> x]
      /\ \A x : [stage EXCEPT ![User] = x] = [c \in {User} |-> x]
      /\ stage[User] = Stage /\ last[User] = uuid
  OBVIOUS
<1>2. last' = [c \in {User} |-> uuid'] /\ stage' = [c \in {User} |-> Stage'] OBVIOUS
<1> HIDE DEF last, stage
<1>3. CASE /\ Stage \notin {"asking", "waiting"} /\ Stage' = "asking"
           /\ requests' = requests + 1 /\ requests' <= MaxCalls /\ uuid' = requests'
           /\ UNCHANGED <<Asks, Answered>>
  <2>1. /\ requests' \in (1 .. MaxCalls) \ (1 .. requests)
        /\ 1 .. requests' = (1 .. requests) \cup {requests'}
    BY <1>3, ClientAssumption
  <2>2. Promise!Begin(User)
    BY <1>1, <1>2, <1>3, <2>1 DEF Promise!Begin, Promise!Busy, last, stage, Asks, Answered
  <2> QED BY <1>0, <2>2 DEF Promise!Next
<1>4. CASE /\ Stage \notin {"asking", "waiting"} /\ Stage' = "waiting"
           /\ uuid' \in 1 .. requests
           /\ UNCHANGED <<requests, Asks, Answered>>
  <2>1. Promise!Claim(User)
    BY <1>1, <1>2, <1>4 DEF Promise!Claim, Promise!Busy, last, stage, Asks, Answered
  <2> QED BY <1>0, <2>1 DEF Promise!Next
<1>5. CASE /\ Stage = "asking" /\ Stage' \in {"waiting", "none"}
           /\ Asks' \in {Asks, Asks \cup {uuid}}
           /\ UNCHANGED <<uuid, requests, Answered>>
  <2>1. Promise!Send(User)
    BY <1>1, <1>2, <1>5 DEF Promise!Send, last, stage, Asks, Answered
  <2> QED BY <1>0, <2>1 DEF Promise!Next
<1>6. CASE /\ Stage = "waiting" /\ Stage' = "reply"
           /\ uuid \in Answered /\ Answered' \subseteq Answered \ {uuid}
           /\ UNCHANGED <<uuid, requests, Asks>>
  <2>1. Promise!Return(User)
    BY <1>1, <1>2, <1>6 DEF Promise!Return, last, stage, Asks, Answered
  <2> QED BY <1>0, <2>1 DEF Promise!Next
<1>7. CASE /\ Stage' = "none"
           /\ UNCHANGED <<uuid, requests, Asks, Answered>>
  <2>1. Promise!GiveUp({User})
    BY <1>2, <1>7 DEF Promise!GiveUp, last, stage, Asks, Answered
  <2> QED BY <2>1 DEF Promise!Next
<1>8. CASE /\ Answered' \subseteq Answered
           /\ UNCHANGED <<Stage, uuid, requests, Asks>>
  <2>1. Promise!Lose
    BY <1>2, <1>8 DEF Promise!Lose, last, stage, Asks, Answered
  <2> QED BY <2>1 DEF Promise!Next
<1>9. CASE /\ \E r \in Asks : Asks' = Asks \ {r} /\ Answered' = Answered \cup {r}
           /\ UNCHANGED <<Stage, uuid, requests>>
  <2>1. Promise!Answer
    BY <1>2, <1>9 DEF Promise!Answer, last, stage, Asks, Answered
  <2> QED BY <2>1 DEF Promise!Next
<1>10. CASE UNCHANGED <<Stage, uuid, requests, Asks, Answered>>
  BY <1>10 DEF Promise!vars, Asks, Answered
<1> QED BY <1>3, <1>4, <1>5, <1>6, <1>7, <1>8, <1>9, <1>10 DEF Steps

LEMMA StageIs ==
  /\ pc = "idle" /\ result.how = "message" => Stage = "reply"
  /\ pc = "idle" /\ result.how # "message" => Stage = "none"
  /\ pc \in {"connecting", "ready"} /\ op # "recv" => Stage = "asking"
  /\ pc \in {"connecting", "ready"} /\ op = "recv" => Stage = "waiting"
  /\ pc \in {"loop", "polling"} => Stage = "waiting"
BY DEF Stage

LEMMA StageWillBe ==
  /\ pc' = "idle" /\ result'.how = "message" => Stage' = "reply"
  /\ pc' = "idle" /\ result'.how # "message" => Stage' = "none"
  /\ pc' \in {"connecting", "ready"} /\ op' # "recv" => Stage' = "asking"
  /\ pc' \in {"connecting", "ready"} /\ op' = "recv" => Stage' = "waiting"
  /\ pc' \in {"loop", "polling"} => Stage' = "waiting"
BY DEF Stage

LEMMA NextIsSteps == Inv /\ [Next]_vars => Steps
<1> SUFFICES ASSUME Inv, [Next]_vars PROVE Steps
  OBVIOUS
<1>0. Typed /\ OwnInv /\ UniqueInv BY DEF Inv
<1>1. /\ pc \in {"idle", "connecting", "ready", "loop", "polling"}
      /\ requests \in Nat /\ inbox \in Seq(Messages)
  BY <1>0 DEF Typed, CallTyped, MailTyped
<1>2. ASSUME UNCHANGED <<uuid, requests, asked, inbox>>,
             Stage' = Stage \/ Stage' = "none"
      PROVE  Steps
  BY <1>2 DEF Steps, Asks, Answered
<1>3. ASSUME NEW timeout \in Timeouts, Recv(timeout) PROVE Steps
  <2>1. /\ UNCHANGED <<requests, asked, inbox>> /\ uuid' \in 1 .. requests
        /\ pc = "idle" /\ pc' \in {"connecting", "ready"} /\ op' = "recv"
    BY <1>3 DEF Recv, Call
  <2>2. Stage \in {"reply", "none"} /\ Stage' = "waiting" BY <2>1, StageIs, StageWillBe
  <2> QED BY <2>1, <2>2 DEF Steps, Asks, Answered
<1>4. ASSUME NEW operation \in {"sendto", "requestreply"}, NEW timeout,
             Call(operation, requests + 1, timeout),
             requests < MaxCalls, requests' = requests + 1
      PROVE  Steps
  <2>1. /\ UNCHANGED <<asked, inbox>> /\ uuid' = requests'
        /\ pc = "idle" /\ pc' \in {"connecting", "ready"} /\ op' # "recv"
    BY <1>4 DEF Call
  <2>2. Stage \in {"reply", "none"} /\ Stage' = "asking" BY <2>1, StageIs, StageWillBe
  <2>3. requests' <= MaxCalls BY <1>1, <1>4, ClientAssumption
  <2> QED BY <1>4, <2>1, <2>2, <2>3 DEF Steps, Asks, Answered
<1>5. CASE SendTo \/ \E timeout \in Timeouts : RequestReply(timeout)
  BY <1>4, <1>5 DEF SendTo, RequestReply, NewUuid
<1>6. CASE Connect
  <2>1. /\ UNCHANGED <<op, uuid, requests, asked, inbox>>
        /\ pc = "connecting" /\ pc' = "ready"
    BY <1>6 DEF Connect, callVars
  <2>2. Stage' = Stage BY <2>1, StageIs, StageWillBe
  <2> QED BY <1>2, <2>1, <2>2
<1>7. CASE Send \/ SendRequest
  <2>1. /\ UNCHANGED <<op, uuid, requests, inbox>>
        /\ pc = "ready" /\ op # "recv"
        /\ Post \/ UNCHANGED asked
        /\ pc' = "loop" \/ (pc' = "idle" /\ result'.how # "message")
    BY <1>7 DEF Send, SendRequest, End, callVars
  <2>2. Asks' \in {Asks, Asks \cup {uuid}} BY <2>1 DEF Post, Asks
  <2>3. Stage = "asking" /\ Stage' \in {"waiting", "none"} BY <2>1, StageIs, StageWillBe
  <2> QED BY <2>1, <2>2, <2>3 DEF Steps, Answered
<1>8. CASE AwaitReply \/ StartRecv \/ Expire \/ Terminate
  <2>1. /\ UNCHANGED <<op, uuid, requests, asked, inbox>>
        /\ pc \in {"loop", "polling"} \/ (pc = "ready" /\ op = "recv")
        /\ pc' = "polling" \/ (pc' = "idle" /\ result'.how # "message")
    BY <1>8 DEF AwaitReply, StartRecv, Expire, Terminate, End, callVars
  <2>2. Stage' = Stage \/ Stage' = "none" BY <2>1, StageIs, StageWillBe
  <2> QED BY <1>2, <2>1, <2>2
<1>9. CASE TakeReply \/ TakeMessage
  <2>1. /\ inbox # <<>> /\ UNCHANGED <<op, uuid, requests, asked>>
        /\ pc = "polling"
        /\ inbox' \in {inbox, OtherMessages}
        /\ \/ pc' \in {"loop", "polling"}
           \/ /\ pc' = "idle" /\ result'.how = "message"
              /\ Matches(Head(inbox)) /\ inbox' = OtherMessages
    BY <1>9 DEF TakeReply, TakeMessage, End, callVars
  <2>2. \A i \in 1 .. Len(OtherMessages) :
          i + 1 \in 1 .. Len(inbox) /\ i + 1 # 1 /\ OtherMessages[i] = inbox[i + 1]
    BY <1>0, <2>1, OtherMessagesAre
  <2>3. Answered' \subseteq Answered
    <3>1. CASE inbox' = inbox BY <3>1 DEF Answered
    <3>2. CASE inbox' = OtherMessages
      <4>1. Answered' = {OtherMessages[i].uuid : i \in 1 .. Len(OtherMessages)} \ {0}
        BY <3>2 DEF Answered
      <4>2. ASSUME NEW i \in 1 .. Len(OtherMessages)
            PROVE  OtherMessages[i].uuid \in {inbox[j].uuid : j \in 1 .. Len(inbox)}
        BY <2>2
      <4> QED BY <4>1, <4>2 DEF Answered
    <3> QED BY <2>1, <3>1, <3>2
  <2>4. Stage = "waiting" BY <2>1, StageIs
  <2>5. CASE pc' \in {"loop", "polling"}
    <3>1. Stage' = Stage BY <2>4, <2>5, StageWillBe
    <3> QED BY <2>1, <2>3, <3>1 DEF Steps, Asks
  <2>6. CASE /\ pc' = "idle" /\ result'.how = "message"
             /\ Matches(Head(inbox)) /\ inbox' = OtherMessages
    <3>1. Stage' = "reply" BY <2>6, StageWillBe
    <3>2. 1 \in 1 .. Len(inbox) /\ inbox[1].uuid = uuid
      BY <1>0, <2>1, <2>6, OtherMessagesAre DEF Matches
    <3>3. uuid # 0 BY <1>0, <1>1, <2>1 DEF OwnInv, UniqueInv
    <3>4. uuid \in Answered BY <3>2, <3>3 DEF Answered
    <3>5. ASSUME NEW i \in 1 .. Len(inbox'), inbox'[i].uuid = uuid PROVE FALSE
      <4>1. i + 1 \in 1 .. Len(inbox) /\ i + 1 # 1 /\ inbox[i + 1].uuid = uuid
        BY <2>2, <2>6, <3>5
      <4> QED BY <1>0, <3>2, <3>3, <4>1 DEF UniqueInv
    <3>6. uuid \notin Answered' BY <3>5 DEF Answered
    <3> QED BY <2>1, <2>3, <2>4, <3>1, <3>4, <3>6 DEF Steps, Asks
  <2> QED BY <2>1, <2>5, <2>6
<1>10. ASSUME NEW m, Deliver(m)
       PROVE  /\ UNCHANGED <<Stage, uuid, requests>>
              /\ Answered' = Answered \cup ({m.uuid} \ {0})
  <2>1. UNCHANGED <<pc, op, uuid, requests, result>> /\ inbox' = Append(inbox, m)
    BY <1>10 DEF Deliver, callVars
  <2>2. /\ Len(inbox) \in Nat /\ Len(inbox') = Len(inbox) + 1
        /\ \A i \in 1 .. Len(inbox) : inbox'[i] = inbox[i]
        /\ inbox'[Len(inbox) + 1] = m
    BY <1>1, <2>1
  <2>3. {inbox'[i].uuid : i \in 1 .. Len(inbox')}
          = {inbox[i].uuid : i \in 1 .. Len(inbox)} \cup {m.uuid}
    BY <2>2
  <2> QED BY <2>1, <2>3 DEF Stage, Answered
<1>11. CASE Answer
  <2>1. PICK r \in asked, cmd \in Commands :
          /\ asked' = asked \ {r}
          /\ Deliver([uuid |-> r.uuid, cmd |-> cmd, of |-> r.of])
    BY <1>11 DEF Answer
  <2>2. /\ UNCHANGED <<Stage, uuid, requests>>
        /\ Answered' = Answered \cup ({r.uuid} \ {0})
    BY <1>10, <2>1
  <2>3. r.uuid # 0 /\ r.uuid \in Asks BY <1>0, <1>1 DEF UniqueInv, Asks
  <2>4. ASSUME NEW other \in asked', other.uuid = r.uuid PROVE FALSE
    <3>1. /\ r \in Asked /\ r.of = r.uuid
          /\ other \in Asked /\ other.of = other.uuid /\ other # r
      BY <1>0, <2>1, <2>4 DEF OwnInv, Answers
    <3> QED BY <2>4, <3>1 DEF Asked
  <2>5. Asks' = Asks \ {r.uuid} BY <2>1, <2>4 DEF Asks
  <2> QED BY <2>2, <2>3, <2>5 DEF Steps
<1>12. CASE Noise
  <2>1. PICK cmd \in Commands : Deliver([uuid |-> 0, cmd |-> cmd, of |-> 0])
    BY <1>12 DEF Noise
  <2>2. UNCHANGED <<Stage, uuid, requests>> /\ Answered' = Answered BY <1>10, <2>1
  <2> QED BY <1>12, <2>2 DEF Noise, Steps, Asks
<1>13. CASE Disconnect \/ Interrupt \/ Tick \/ UNCHANGED vars
  <2>1. UNCHANGED <<pc, op, uuid, result, requests, asked, inbox>>
    BY <1>13 DEF Disconnect, Interrupt, Tick, vars, callVars
  <2>2. Stage' = Stage BY <2>1 DEF Stage
  <2> QED BY <1>2, <2>1, <2>2
<1> QED
  BY <1>3, <1>5, <1>6, <1>7, <1>8, <1>9, <1>11, <1>12, <1>13 DEF Next

(***************************************************************************)
(* For any sequence of sendto(), recv() and requestreply() on one client,  *)
(* any timeouts and faults: each request is answered at most once, and a   *)
(* call that returns a message returns the reply it waits for, once.       *)
(***************************************************************************)
THEOREM ClientKeepsRequestReply == Spec => RequestReplySpec
<1>1. Init => Promise!Init
  <2> SUFFICES ASSUME Init PROVE Promise!Init
    OBVIOUS
  <2>1. /\ uuid = 0 /\ asked = {} /\ Len(inbox) = 0 /\ 1 .. requests = {}
        /\ pc = "idle" /\ result.how # "message"
    BY DEF Init
  <2>2. Stage = "none" BY <2>1, StageIs
  <2> QED BY <2>1, <2>2 DEF Promise!Init
<1>2. Inv /\ [Next]_vars => [Promise!Next]_Promise!vars
  BY NextIsSteps, StepsAreRequestReply DEF Inv, Typed, CallTyped
<1> QED BY <1>1, <1>2, InitInv, NextInv, PTL DEF Spec, RequestReplySpec, Promise!Spec
=============================================================================
