------------------------- MODULE SyncRequestProofs --------------------------
(***************************************************************************)
(* Proofs about SyncRequest.                                               *)
(***************************************************************************)
EXTENDS SyncRequest, SequenceTheorems, TLAPS

Replies == [id : 0 .. MaxCalls, answers : 0 .. MaxCalls]

Requests == [subject : {"REQUEST", "OTHER"}, id : 0 .. MaxCalls, from : Threads]

Handled == [subject : {"REQUEST"}, id : CallIds, from : Threads]

\* TypeOK, in parts.
CallsTyped ==
  /\ pc \in [Threads -> {"idle", "connected", "sent", "waiting", "aborted"}]
  /\ own \in [Threads -> 0 .. MaxCalls]
  /\ result \in [Threads ->
       [how : {"none", "returned", "mismatch", "exception"}, of : 0 .. MaxCalls]]
  /\ calls \in 0 .. MaxCalls

MailTyped ==
  /\ box \in [Threads -> Seq(Replies)]
  /\ serverBox \in Seq(Requests)
  /\ serving \in SUBSET Handled

RestTyped ==
  /\ up \in BOOLEAN
  /\ unanswered \in SUBSET (0 .. MaxCalls)
  /\ strays \in 0 .. MaxStrays
  /\ interrupted \in BOOLEAN

LEMMA TypeOKParts == TypeOK <=> CallsTyped /\ MailTyped /\ RestTyped
BY DEF TypeOK, CallsTyped, MailTyped, RestTyped, Replies, Requests, Handled

\* What is left of a mailbox has the type the mailbox had, and its messages.
LEMMA SuffixesType ==
  ASSUME NEW S, NEW s \in Seq(S), NEW left \in Suffixes(s)
  PROVE  /\ left \in Seq(S)
         /\ Len(left) <= Len(s)
         /\ \A i \in 1 .. Len(left) : left[i] = s[i + (Len(s) - Len(left))]
<1>1. PICK n \in 1 .. Len(s) + 1 : left = SubSeq(s, n, Len(s))
  BY DEF Suffixes
<1>2. Len(s) \in Nat /\ Len(s) \in n - 1 .. Len(s) OBVIOUS
<1>3. /\ left \in Seq(S)
      /\ Len(left) = Len(s) - n + 1
      /\ \A i \in 1 .. Len(s) - n + 1 : left[i] = s[n + i - 1]
  BY <1>1, <1>2, SubSeqProperties
<1>4. ASSUME NEW i \in 1 .. Len(left) PROVE left[i] = s[i + (Len(s) - Len(left))]
  <2>1. i + (Len(s) - Len(left)) = n + i - 1 BY <1>2, <1>3
  <2> QED BY <1>3, <2>1
<1>5. Len(left) <= Len(s) BY <1>2, <1>3
<1> QED BY <1>3, <1>4, <1>5

LEMMA TailType ==
  ASSUME NEW S, NEW s \in Seq(S), s # <<>>
  PROVE  /\ Head(s) \in S
         /\ Head(s) = s[1]
         /\ Tail(s) \in Seq(S)
         /\ Len(Tail(s)) = Len(s) - 1
         /\ Len(s) \in Nat \ {0}
         /\ \A i \in 1 .. Len(s) - 1 : Tail(s)[i] = s[i + 1]
OBVIOUS

LEMMA InitTypeOK == Init => TypeOK
<1> SUFFICES ASSUME Init PROVE CallsTyped /\ MailTyped /\ RestTyped
  BY TypeOKParts
<1>1. CallsTyped BY SyncAssumption DEF Init, CallsTyped
<1>2. MailTyped
  <2>1. <<>> \in Seq(Replies) /\ <<>> \in Seq(Requests) OBVIOUS
  <2> QED BY <2>1 DEF Init, MailTyped
<1>3. RestTyped
  <2>1. strays \in 0 .. MaxStrays BY SyncAssumption DEF Init
  <2>2. up \in BOOLEAN /\ interrupted \in BOOLEAN /\ unanswered \in SUBSET (0 .. MaxCalls)
    BY DEF Init
  <2> QED BY <2>1, <2>2 DEF RestTyped
<1> QED BY <1>1, <1>2, <1>3

LEMMA NextCallsTyped == TypeOK /\ [Next]_vars => CallsTyped'
<1> SUFFICES ASSUME TypeOK, [Next]_vars PROVE CallsTyped'
  OBVIOUS
<1>0. CallsTyped /\ MailTyped BY TypeOKParts
<1> USE SyncAssumption DEF CallsTyped
<1>1. ASSUME NEW t \in Threads, NEW how \in {"returned", "mismatch", "exception"},
             NEW of \in 0 .. MaxCalls, End(t, how, of)
      PROVE  /\ pc' \in [Threads -> {"idle", "connected", "sent", "waiting", "aborted"}]
             /\ result' \in [Threads ->
                  [how : {"none", "returned", "mismatch", "exception"}, of : 0 .. MaxCalls]]
  BY <1>0, <1>1 DEF End
<1>2. 0 \in 0 .. MaxCalls OBVIOUS
<1>3. ASSUME NEW t \in Threads, Connect(t) PROVE CallsTyped'
  <2>1. /\ calls' \in 0 .. MaxCalls
        /\ own' \in [Threads -> 0 .. MaxCalls]
    BY <1>0, <1>3 DEF Connect
  <2>2. CASE End(t, "exception", 0) BY <1>1, <1>2, <2>1, <2>2
  <2>3. CASE pc' = [pc EXCEPT ![t] = "connected"] /\ result' = result
    BY <1>0, <2>1, <2>3
  <2> QED BY <1>3, <2>2, <2>3 DEF Connect
<1>4. ASSUME NEW t \in Threads, GiveUp(t) PROVE CallsTyped'
  BY <1>0, <1>1, <1>2, <1>4 DEF GiveUp
<1>5. ASSUME NEW t \in Threads, Receive(t) PROVE CallsTyped'
  <2>1. Head(box[t]).answers \in 0 .. MaxCalls
    <3>1. box[t] \in Seq(Replies) /\ box[t] # <<>> BY <1>0, <1>5 DEF Receive, MailTyped
    <3>2. Head(box[t]) \in Replies BY <3>1, TailType
    <3> QED BY <3>2 DEF Replies
  <2>2. End(t, "returned", Head(box[t]).answers) \/ End(t, "mismatch", 0)
    BY <1>5 DEF Receive
  <2>3. own' = own /\ calls' = calls BY <1>5 DEF Receive
  <2> QED BY <1>0, <1>1, <1>2, <2>1, <2>2, <2>3
<1>6. ASSUME NEW t \in Threads, Send(t) \/ Await(t) \/ Abort(t) PROVE CallsTyped'
  BY <1>0, <1>6 DEF Send, Await, Abort
<1>7. ASSUME UNCHANGED callVars PROVE CallsTyped'
  BY <1>0, <1>7 DEF callVars
<1>8. ASSUME NEW t \in Threads, StrayToClient(t) \/ StrayToServer(t) PROVE CallsTyped'
  BY <1>7, <1>8 DEF StrayToClient, StrayToServer
<1>9. CASE ServerReceive \/ ServerAnswer \/ ServerStops \/ ServerStarts \/ Interrupt
  BY <1>7, <1>9 DEF ServerReceive, ServerAnswer, ServerStops, ServerStarts, Interrupt
<1>10. CASE UNCHANGED vars
  BY <1>7, <1>10 DEF vars
<1> QED BY <1>3, <1>4, <1>5, <1>6, <1>8, <1>9, <1>10 DEF Next, CallStep

LEMMA NextMailTyped == TypeOK /\ [Next]_vars => MailTyped'
<1> SUFFICES ASSUME TypeOK, [Next]_vars PROVE MailTyped'
  OBVIOUS
<1>0. CallsTyped /\ MailTyped BY TypeOKParts
<1> USE DEF MailTyped
<1>1. ASSUME NEW t \in Threads, Send(t) PROVE MailTyped'
  <2>1. Request(t) \in Requests BY <1>0 DEF Request, Requests, CallsTyped
  <2>2. serverBox' \in Seq(Requests)
    <3>1. serverBox' = Append(serverBox, Request(t)) \/ serverBox' = serverBox BY <1>1 DEF Send
    <3> QED BY <1>0, <2>1, <3>1
  <2> QED BY <1>0, <1>1, <2>2 DEF Send
<1>2. ASSUME NEW t \in Threads, GiveUp(t) PROVE MailTyped'
  <2>1. PICK left \in Suffixes(box[t]) : box' = [box EXCEPT ![t] = left]
    BY <1>2 DEF GiveUp
  <2>2. left \in Seq(Replies) BY <1>0, SuffixesType
  <2> QED BY <1>0, <1>2, <2>1, <2>2 DEF GiveUp, serverVars
<1>3. ASSUME NEW t \in Threads, Receive(t) PROVE MailTyped'
  <2>1. box[t] # <<>> /\ box[t] \in Seq(Replies) BY <1>0, <1>3 DEF Receive
  <2>2. Tail(box[t]) \in Seq(Replies) BY <2>1, TailType
  <2>3. PICK left \in Suffixes(Tail(box[t])) : box' = [box EXCEPT ![t] = left]
    BY <1>3 DEF Receive
  <2>4. left \in Seq(Replies) BY <2>2, SuffixesType
  <2> QED BY <1>0, <1>3, <2>3, <2>4 DEF Receive, serverVars
<1>4. ASSUME NEW t \in Threads, StrayToClient(t) PROVE MailTyped'
  <2>1. StrayReply \in Replies BY SyncAssumption DEF StrayReply, Replies
  <2>2. Append(box[t], StrayReply) \in Seq(Replies) BY <1>0, <2>1
  <2> QED BY <1>0, <1>4, <2>2 DEF StrayToClient, serverVars
<1>5. ASSUME NEW t \in Threads, StrayToServer(t) PROVE MailTyped'
  <2>1. StrayRequests(t) \subseteq Requests BY SyncAssumption DEF StrayRequests, Requests
  <2>2. serverBox' \in Seq(Requests) BY <1>0, <1>5, <2>1 DEF StrayToServer
  <2> QED BY <1>0, <1>5, <2>2 DEF StrayToServer
<1>6. CASE ServerReceive
  <2>1. Head(serverBox) \in Requests /\ Tail(serverBox) \in Seq(Requests)
    BY <1>0, <1>6, TailType DEF ServerReceive
  <2>2. \A r \in Requests : r.subject = "REQUEST" /\ r.id # 0 => r \in Handled
    BY DEF Requests, Handled, CallIds
  <2>3. serving' \in SUBSET Handled BY <1>6, <2>1, <2>2 DEF ServerReceive
  <2> QED BY <1>0, <1>6, <2>1, <2>3 DEF ServerReceive, OtherMessages
<1>7. CASE ServerAnswer
  <2>1. PICK r \in serving :
          \/ box' = [box EXCEPT ![r.from] = Append(@, Reply(r))]
          \/ box' = box
    BY <1>7 DEF ServerAnswer
  <2>2. r.from \in Threads /\ Reply(r) \in Replies
    BY <1>0 DEF Handled, CallIds, Reply, Replies
  <2>3. box' \in [Threads -> Seq(Replies)]
    <3>1. Append(box[r.from], Reply(r)) \in Seq(Replies) BY <1>0, <2>2
    <3> QED BY <1>0, <2>1, <3>1
  <2> QED BY <1>0, <1>7, <2>3 DEF ServerAnswer
<1>8. CASE ServerStops
  <2>1. serverBox' \in Seq(Requests) BY <1>0, <1>8, SuffixesType DEF ServerStops
  <2> QED BY <1>0, <1>8, <2>1 DEF ServerStops
<1>9. ASSUME UNCHANGED <<box, serverBox, serving>> PROVE MailTyped'
  BY <1>0, <1>9
<1>10. ASSUME NEW t \in Threads, Connect(t) \/ Await(t) \/ Abort(t) PROVE MailTyped'
  BY <1>9, <1>10 DEF Connect, Await, Abort, serverVars
<1>11. CASE ServerStarts \/ Interrupt \/ UNCHANGED vars
  BY <1>9, <1>11 DEF ServerStarts, Interrupt, vars, serverVars
<1> QED BY <1>1, <1>2, <1>3, <1>4, <1>5, <1>6, <1>7, <1>8, <1>10, <1>11 DEF Next, CallStep

LEMMA NextRestTyped == TypeOK /\ [Next]_vars => RestTyped'
<1> SUFFICES ASSUME TypeOK, [Next]_vars PROVE RestTyped'
  OBVIOUS
<1>0. CallsTyped /\ MailTyped /\ RestTyped BY TypeOKParts
<1> USE SyncAssumption DEF RestTyped, serverVars
<1>1. ASSUME NEW t \in Threads, Send(t) PROVE RestTyped'
  BY <1>0, <1>1 DEF Send, CallsTyped
<1>2. ASSUME NEW t \in Threads, StrayToClient(t) \/ StrayToServer(t) PROVE RestTyped'
  <2>1. strays' = strays + 1 /\ strays < MaxStrays BY <1>2 DEF StrayToClient, StrayToServer
  <2>2. strays' \in 0 .. MaxStrays BY <1>0, <2>1
  <2>3. UNCHANGED <<up, unanswered, interrupted>> BY <1>2 DEF StrayToClient, StrayToServer
  <2> QED BY <1>0, <2>2, <2>3
<1>3. ASSUME NEW t \in Threads, Connect(t) \/ GiveUp(t) \/ Await(t) \/ Receive(t) \/ Abort(t)
      PROVE  RestTyped'
  BY <1>0, <1>3 DEF Connect, GiveUp, Await, Receive, Abort
<1>4. CASE ServerAnswer
  <2>1. \A r \in serving : r.id \in 0 .. MaxCalls BY <1>0 DEF MailTyped, Handled, CallIds
  <2> QED BY <1>0, <1>4, <2>1 DEF ServerAnswer
<1>5. CASE ServerStops
  <2>1. \A r \in serving : r.id \in 0 .. MaxCalls BY <1>0 DEF MailTyped, Handled, CallIds
  <2>2. serverBox \in Seq(Requests) /\ Len(serverBox') \in Nat
    BY <1>0, <1>5, SuffixesType DEF MailTyped, ServerStops
  <2>3. ASSUME NEW i \in 1 .. Len(serverBox) - Len(serverBox')
        PROVE  serverBox[i].id \in 0 .. MaxCalls
    <3>1. serverBox[i] \in Requests BY <2>2
    <3> QED BY <3>1 DEF Requests
  <2>4. unanswered' \subseteq 0 .. MaxCalls BY <1>0, <1>5, <2>1, <2>3 DEF ServerStops
  <2> QED BY <1>0, <1>5, <2>4 DEF ServerStops
<1>6. CASE ServerReceive \/ ServerStarts \/ Interrupt \/ UNCHANGED vars
  BY <1>0, <1>6 DEF ServerReceive, ServerStarts, Interrupt, vars
<1> QED BY <1>1, <1>2, <1>3, <1>4, <1>5, <1>6 DEF Next, CallStep

LEMMA NextTypeOK == TypeOK /\ [Next]_vars => TypeOK'
<1>1. TypeOK' <=> CallsTyped' /\ MailTyped' /\ RestTyped'
  BY TypeOKParts, PTL
<1> QED BY <1>1, NextCallsTyped, NextMailTyped, NextRestTyped

\* Every variable of SyncRequest keeps its type, for any number of threads, calls
\* and stray messages, and any faults.
THEOREM SyncTypeCorrect == Spec => []TypeOK
BY InitTypeOK, NextTypeOK, PTL DEF Spec, SafetySpec

-----------------------------------------------------------------------------
\* A call returns the results of its own request

\* A message that has the id of a request has the results of that request.
Truthful == {m \in Replies : m.id # 0 => m.answers = m.id}

OwnInv ==
  /\ box \in [Threads -> Seq(Truthful)]
  /\ \A t \in Threads : pc[t] \in {"connected", "sent", "waiting"} => own[t] # 0
  /\ OwnReply

LEMMA NextOwnInv == TypeOK /\ OwnInv /\ [Next]_vars => OwnInv'
<1> SUFFICES ASSUME TypeOK, OwnInv, [Next]_vars PROVE OwnInv'
  OBVIOUS
<1>0. CallsTyped /\ MailTyped BY TypeOKParts
<1>1. ASSUME UNCHANGED <<pc, own, result>>, box' \in [Threads -> Seq(Truthful)] PROVE OwnInv'
  BY <1>1 DEF OwnInv, OwnReply
<1>2. ASSUME NEW t \in Threads, Connect(t) PROVE OwnInv'
  <2>1. /\ own' = [own EXCEPT ![t] = calls + 1]
        /\ calls + 1 # 0
        /\ box' = box
        /\ \/ /\ pc' = [pc EXCEPT ![t] = "connected"]
              /\ result' = result
           \/ /\ pc' = [pc EXCEPT ![t] = "idle"]
              /\ result' = [result EXCEPT ![t] = [how |-> "exception", of |-> 0]]
    BY <1>0, <1>2, SyncAssumption DEF Connect, End, CallsTyped
  <2> QED BY <1>0, <2>1 DEF OwnInv, OwnReply, CallsTyped
<1>3. ASSUME NEW t \in Threads, NEW how, NEW of, End(t, how, of), UNCHANGED own,
             how = "returned" => of = own[t],
             box' \in [Threads -> Seq(Truthful)]
      PROVE  OwnInv'
  BY <1>0, <1>3 DEF OwnInv, OwnReply, CallsTyped, End
<1>4. ASSUME NEW t \in Threads, GiveUp(t) PROVE OwnInv'
  <2>1. PICK left \in Suffixes(box[t]) : box' = [box EXCEPT ![t] = left]
    BY <1>4 DEF GiveUp
  <2>2. left \in Seq(Truthful) BY SuffixesType DEF OwnInv
  <2>3. box' \in [Threads -> Seq(Truthful)] BY <2>1, <2>2 DEF OwnInv
  <2> QED BY <1>3, <1>4, <2>3 DEF GiveUp
<1>5. ASSUME NEW t \in Threads, Receive(t) PROVE OwnInv'
  <2>1. box[t] # <<>> /\ box[t] \in Seq(Truthful) BY <1>5 DEF Receive, OwnInv
  <2>2. Head(box[t]) \in Truthful /\ Tail(box[t]) \in Seq(Truthful) BY <2>1, TailType
  <2>3. PICK left \in Suffixes(Tail(box[t])) : box' = [box EXCEPT ![t] = left]
    BY <1>5 DEF Receive
  <2>4. box' \in [Threads -> Seq(Truthful)]
    <3>1. left \in Seq(Truthful) BY <2>2, SuffixesType
    <3> QED BY <2>3, <3>1 DEF OwnInv
  <2>5. own' = own /\ own[t] # 0 BY <1>5 DEF Receive, OwnInv
  <2>6. CASE Head(box[t]).id = own[t]
    <3>1. End(t, "returned", Head(box[t]).answers) BY <1>5, <2>6 DEF Receive, IsReply
    <3>2. Head(box[t]).answers = own[t] BY <2>2, <2>5, <2>6 DEF Truthful
    <3> QED BY <1>3, <2>4, <2>5, <3>1, <3>2
  <2>7. CASE Head(box[t]).id # own[t]
    <3>1. End(t, "mismatch", 0) BY <1>5, <2>7 DEF Receive, IsReply
    <3> QED BY <1>3, <2>4, <2>5, <3>1
  <2> QED BY <2>6, <2>7
<1>6. ASSUME NEW t \in Threads, Send(t) \/ Await(t) \/ Abort(t) PROVE OwnInv'
  BY <1>0, <1>6 DEF Send, Await, Abort, OwnInv, OwnReply, CallsTyped
<1>7. ASSUME NEW t \in Threads, StrayToClient(t) PROVE OwnInv'
  <2>1. StrayReply \in Truthful BY SyncAssumption DEF StrayReply, Truthful, Replies
  <2>2. Append(box[t], StrayReply) \in Seq(Truthful) BY <2>1 DEF OwnInv
  <2>3. box' \in [Threads -> Seq(Truthful)] BY <1>7, <2>2 DEF StrayToClient, OwnInv
  <2> QED BY <1>1, <1>7, <2>3 DEF StrayToClient, callVars
<1>8. CASE ServerAnswer
  <2>1. PICK r \in serving :
          \/ box' = [box EXCEPT ![r.from] = Append(@, Reply(r))]
          \/ box' = box
    BY <1>8 DEF ServerAnswer
  <2>2. r.from \in Threads /\ Reply(r) \in Truthful
    BY <1>0 DEF MailTyped, Handled, CallIds, Reply, Replies, Truthful
  <2>3. Append(box[r.from], Reply(r)) \in Seq(Truthful) BY <2>2 DEF OwnInv
  <2>4. box' \in [Threads -> Seq(Truthful)] BY <2>1, <2>3 DEF OwnInv
  <2> QED BY <1>1, <1>8, <2>4 DEF ServerAnswer, callVars
<1>9. ASSUME UNCHANGED <<callVars, box>> PROVE OwnInv'
  BY <1>1, <1>9 DEF callVars, OwnInv
<1>10. ASSUME NEW t \in Threads, StrayToServer(t) PROVE OwnInv'
  BY <1>9, <1>10 DEF StrayToServer
<1>11. CASE ServerReceive \/ ServerStops \/ ServerStarts \/ Interrupt \/ UNCHANGED vars
  BY <1>9, <1>11 DEF ServerReceive, ServerStops, ServerStarts, Interrupt, vars
<1> QED BY <1>2, <1>4, <1>5, <1>6, <1>7, <1>8, <1>10, <1>11 DEF Next, CallStep

\* For any number of threads, calls and stray messages, and any faults: what
\* syncRequestWithReply() returns are the results computed for its own request.
THEOREM CallsReturnTheirOwnReply == Spec => []OwnReply
<1>1. Init => OwnInv
  <2>1. <<>> \in Seq(Truthful) OBVIOUS
  <2> QED BY <2>1 DEF Init, OwnInv, OwnReply
<1>2. OwnInv => OwnReply BY DEF OwnInv
<1> QED BY <1>1, <1>2, InitTypeOK, NextTypeOK, NextOwnInv, PTL DEF Spec, SafetySpec

-----------------------------------------------------------------------------
\* Without strays, a mailbox holds no reply to an earlier call

\* Nothing that t sent, and nothing for t, is under way.
Quiet(t) ==
  /\ box[t] = <<>>
  /\ \A i \in 1 .. Len(serverBox) : serverBox[i].from # t
  /\ \A r \in serving : r.from # t

\* At most one message is: the request of the last call of t, or its reply.
OneUnderWay(t) ==
  /\ \A i \in 1 .. Len(box[t]) : i = 1 /\ box[t][i].id = own[t]
  /\ \A i \in 1 .. Len(serverBox) : serverBox[i].from = t => serverBox[i].id = own[t]
  /\ \A i, j \in 1 .. Len(serverBox) :
       serverBox[i].from = t /\ serverBox[j].from = t => i = j
  /\ \A r \in serving : r.from = t => r.id = own[t]
  /\ (\E i \in 1 .. Len(serverBox) : serverBox[i].from = t) => box[t] = <<>>
  /\ (\E r \in serving : r.from = t) =>
       /\ box[t] = <<>>
       /\ \A i \in 1 .. Len(serverBox) : serverBox[i].from # t

\* An interrupted thread that is not waiting yet never will be.
Tidy(t) ==
  /\ pc[t] \in {"idle", "connected"} => Quiet(t) \/ interrupted
  /\ pc[t] = "sent" => OneUnderWay(t) \/ interrupted
  /\ pc[t] = "waiting" => OneUnderWay(t)
  /\ result[t].how # "mismatch"

TidyInv == strays = 0 => \A t \in Threads : Tidy(t)

LEMMA NextTidyInv == TypeOK /\ TidyInv /\ [Next]_vars => TidyInv'
<1> SUFFICES ASSUME TypeOK, TidyInv, [Next]_vars, strays' = 0, NEW u \in Threads PROVE Tidy(u)'
  BY DEF TidyInv
<1>0. CallsTyped /\ MailTyped /\ strays \in Nat
  <2>1. RestTyped BY TypeOKParts
  <2> QED BY <2>1, TypeOKParts, SyncAssumption DEF RestTyped
<1>1. ASSUME strays = 0 PROVE Tidy(u)
  BY <1>1 DEF TidyInv
<1>2. ASSUME UNCHANGED <<box, serverBox, serving>>, own'[u] = own[u]
      PROVE  /\ Quiet(u) => Quiet(u)'
             /\ OneUnderWay(u) => OneUnderWay(u)'
  BY <1>2 DEF Quiet, OneUnderWay
<1>3. ASSUME NEW t \in Threads, Connect(t) PROVE Tidy(u)'
  <2>1. UNCHANGED <<box, serverBox, serving, interrupted>> /\ strays' = strays
    BY <1>3 DEF Connect, serverVars
  <2>2. CASE u = t
    <3>1. Quiet(u) => Quiet(u)' BY <2>1 DEF Quiet
    <3>2. pc[u] = "idle" /\ pc'[u] \in {"idle", "connected"} /\ result'[u].how # "mismatch"
      BY <1>0, <1>1, <1>3, <2>1, <2>2 DEF Connect, End, CallsTyped, Tidy
    <3> QED BY <1>1, <2>1, <3>1, <3>2 DEF Tidy
  <2>3. CASE u # t
    <3>1. pc'[u] = pc[u] /\ result'[u] = result[u] /\ own'[u] = own[u]
      BY <1>0, <1>3, <2>3 DEF Connect, End, CallsTyped
    <3> QED BY <1>1, <1>2, <2>1, <3>1 DEF Tidy
  <2> QED BY <2>2, <2>3
<1>4. ASSUME NEW t \in Threads, Send(t) PROVE Tidy(u)'
  <2>1. /\ UNCHANGED <<own, result, box, serving, interrupted>> /\ strays' = strays
        /\ pc[t] = "connected" /\ ~interrupted
        /\ pc' = [pc EXCEPT ![t] = "sent"]
        /\ serverBox' = serverBox \/ serverBox' = Append(serverBox, Request(t))
    BY <1>4 DEF Send
  <2>2. CASE serverBox' = serverBox
    <3>1. Quiet(u) => OneUnderWay(u) BY DEF Quiet, OneUnderWay
    <3> QED BY <1>0, <1>1, <1>2, <2>1, <2>2, <3>1 DEF Tidy, CallsTyped
  <2>3. CASE serverBox' = Append(serverBox, Request(t))
    <3>1. /\ serverBox \in Seq(Requests) /\ Request(t) \in Requests
      BY <1>0 DEF MailTyped, CallsTyped, Request, Requests
    <3>2. /\ Len(serverBox') = Len(serverBox) + 1
          /\ Len(serverBox) \in Nat
          /\ serverBox'[Len(serverBox) + 1] = Request(t)
          /\ \A i \in 1 .. Len(serverBox) : serverBox'[i] = serverBox[i]
      BY <2>3, <3>1
    <3>3. Request(t).from = t /\ Request(t).id = own[t] BY DEF Request
    <3>4. CASE u = t
      <4>1. Quiet(u) BY <1>1, <2>1, <3>4 DEF Tidy
      <4>2. OneUnderWay(u)' BY <2>1, <3>2, <3>3, <3>4, <4>1 DEF Quiet, OneUnderWay
      <4> QED BY <1>0, <1>1, <2>1, <3>4, <4>2 DEF Tidy, CallsTyped
    <3>5. CASE u # t
      <4>1. \A i \in 1 .. Len(serverBox') : serverBox'[i].from = u => i \in 1 .. Len(serverBox)
        BY <3>2, <3>3, <3>5
      <4>2. Quiet(u) => Quiet(u)' BY <2>1, <3>2, <4>1 DEF Quiet
      <4>3. OneUnderWay(u) => OneUnderWay(u)' BY <2>1, <3>2, <4>1 DEF OneUnderWay
      <4> QED BY <1>0, <1>1, <2>1, <3>5, <4>2, <4>3 DEF Tidy, CallsTyped
    <3> QED BY <3>4, <3>5
  <2> QED BY <2>1, <2>2, <2>3
<1>5. ASSUME NEW t \in Threads, NEW how \in {"returned", "exception"}, NEW of, End(t, how, of),
             UNCHANGED <<own, serverBox, serving, interrupted>>, strays' = strays,
             \A f \in Threads : f # t => box'[f] = box[f],
             interrupted \/ Quiet(t)'
      PROVE  Tidy(u)'
  <2>1. CASE u = t
    BY <1>0, <1>1, <1>5, <2>1 DEF Tidy, End, CallsTyped
  <2>2. CASE u # t
    <3>1. pc'[u] = pc[u] /\ result'[u] = result[u] /\ box'[u] = box[u]
      BY <1>0, <1>5, <2>2 DEF End, CallsTyped
    <3>2. Quiet(u) => Quiet(u)' BY <1>5, <3>1 DEF Quiet
    <3>3. OneUnderWay(u) => OneUnderWay(u)' BY <1>5, <3>1 DEF OneUnderWay
    <3> QED BY <1>1, <1>5, <3>1, <3>2, <3>3 DEF Tidy
  <2> QED BY <2>1, <2>2
<1>6. ASSUME NEW t \in Threads, GiveUp(t) PROVE Tidy(u)'
  <2>1. \A f \in Threads : f # t => box'[f] = box[f] BY <1>0, <1>6 DEF GiveUp, MailTyped
  <2> QED BY <1>5, <1>6, <2>1 DEF GiveUp, serverVars
<1>7. ASSUME NEW t \in Threads, Receive(t) PROVE Tidy(u)'
  <2>1. pc[t] = "waiting" /\ box[t] # <<>> /\ strays' = strays BY <1>7 DEF Receive
  <2>2. OneUnderWay(t) BY <1>7, <2>1 DEF TidyInv, Tidy
  <2>3. box[t] \in Seq(Replies) BY <1>0 DEF MailTyped
  <2>4. /\ Len(box[t]) \in Nat \ {0}
        /\ Head(box[t]) = box[t][1]
        /\ Tail(box[t]) \in Seq(Replies)
        /\ Len(Tail(box[t])) = Len(box[t]) - 1
    BY <2>1, <2>3, TailType
  <2>5. Len(box[t]) = 1
    <3>1. Len(box[t]) \in 1 .. Len(box[t]) BY <2>4
    <3>2. \A i \in 1 .. Len(box[t]) : i = 1 BY <2>2 DEF OneUnderWay
    <3> QED BY <3>1, <3>2
  <2>6. Head(box[t]).id = own[t] BY <2>2, <2>4, <2>5 DEF OneUnderWay
  <2>7. PICK left \in Suffixes(Tail(box[t])) : box' = [box EXCEPT ![t] = left]
    BY <1>7 DEF Receive
  <2>8. left = <<>>
    <3>1. left \in Seq(Replies) /\ Len(left) <= 0
      <4>1. Len(Tail(box[t])) = 0 BY <2>4, <2>5
      <4>2. Tail(box[t]) \in Seq(Replies) BY <2>4
      <4>3. left \in Seq(Replies) /\ Len(left) <= Len(Tail(box[t])) BY <4>2, <2>7, SuffixesType
      <4> QED BY <4>1, <4>3
    <3>2. left # <<>> => Len(left) \in Nat \ {0} BY <3>1, EmptySeq
    <3> QED
      <4>1. \A n \in Nat \ {0} : ~(n <= 0) OBVIOUS
      <4> QED BY <3>1, <3>2, <4>1
  <2>9. box'[t] = <<>> /\ \A f \in Threads : f # t => box'[f] = box[f]
    BY <1>0, <2>7, <2>8 DEF MailTyped
  <2>10. Quiet(t)'
    <3>1. serverBox' = serverBox /\ serving' = serving BY <1>7 DEF Receive, serverVars
    <3> QED BY <2>1, <2>2, <2>9, <3>1 DEF Quiet, OneUnderWay
  <2>11. End(t, "returned", Head(box[t]).answers) BY <1>7, <2>6 DEF Receive, IsReply
  <2> QED BY <1>5, <1>7, <2>9, <2>10, <2>11 DEF Receive, serverVars
<1>8. ASSUME NEW t \in Threads, Await(t) \/ Abort(t) PROVE Tidy(u)'
  <2>1. /\ UNCHANGED <<own, result, box, serverBox, serving, interrupted>> /\ strays' = strays
        /\ \/ pc'[u] = pc[u]
           \/ pc'[u] = "aborted"
           \/ pc'[u] = "waiting" /\ pc[u] = "sent" /\ ~interrupted
    BY <1>0, <1>8 DEF Await, Abort, serverVars, CallsTyped
  <2> QED BY <1>1, <1>2, <2>1 DEF Tidy
<1>9. ASSUME NEW t \in Threads, StrayToClient(t) \/ StrayToServer(t) PROVE Tidy(u)'
  BY <1>0, <1>9 DEF StrayToClient, StrayToServer
<1>10. ASSUME UNCHANGED <<callVars, interrupted>>, strays' = strays,
              Quiet(u) => Quiet(u)',
              OneUnderWay(u) => OneUnderWay(u)'
       PROVE  Tidy(u)'
  BY <1>1, <1>10 DEF Tidy, callVars
<1>11. CASE ServerReceive
  <2>1. /\ serverBox \in Seq(Requests) /\ serverBox # <<>> /\ serving = {}
        /\ serverBox' = Tail(serverBox) /\ serving' \subseteq {Head(serverBox)}
        /\ UNCHANGED <<callVars, box, interrupted>> /\ strays' = strays
    BY <1>0, <1>11 DEF ServerReceive, OtherMessages, MailTyped
  <2>2. /\ Head(serverBox) = serverBox[1]
        /\ Len(serverBox) \in Nat \ {0}
        /\ Len(serverBox') = Len(serverBox) - 1
        /\ \A i \in 1 .. Len(serverBox) - 1 : serverBox'[i] = serverBox[i + 1]
    BY <2>1, TailType
  <2>3. \A i \in 1 .. Len(serverBox') : i + 1 \in 1 .. Len(serverBox) /\ serverBox'[i] = serverBox[i + 1]
    BY <2>2
  <2>4. Quiet(u) => Quiet(u)' BY <2>1, <2>2, <2>3 DEF Quiet
  <2>5. ASSUME OneUnderWay(u) PROVE OneUnderWay(u)'
    <3>1. (\A r \in serving' : r = serverBox[1]) /\ 1 \in 1 .. Len(serverBox) BY <2>1, <2>2
    <3>2. own' = own /\ box' = box BY <2>1 DEF callVars
    <3>3. \A i \in 1 .. Len(serverBox') : serverBox'[i].from = u => serverBox'[i].id = own[u]
      BY <2>3, <2>5 DEF OneUnderWay
    <3>4. ASSUME NEW i \in 1 .. Len(serverBox'), NEW j \in 1 .. Len(serverBox'),
                 serverBox'[i].from = u, serverBox'[j].from = u
          PROVE  i = j
      <4>1. i + 1 = j + 1 BY <2>3, <2>5, <3>4 DEF OneUnderWay
      <4> QED BY <2>2, <4>1
    <3>5. (\E i \in 1 .. Len(serverBox') : serverBox'[i].from = u) => box[u] = <<>>
      BY <2>3, <2>5 DEF OneUnderWay
    <3>6. \A r \in serving' : r.from = u => r.id = own[u] /\ box[u] = <<>>
      BY <2>5, <3>1 DEF OneUnderWay
    <3>7. ASSUME serverBox[1].from = u, NEW i \in 1 .. Len(serverBox'), serverBox'[i].from = u
          PROVE  FALSE
      <4>1. i + 1 = 1 BY <2>3, <2>5, <3>1, <3>7 DEF OneUnderWay
      <4> QED BY <2>2, <4>1
    <3>8. (\E r \in serving' : r.from = u) =>
            \A i \in 1 .. Len(serverBox') : serverBox'[i].from # u
      BY <3>1, <3>7
    <3>9. \A i \in 1 .. Len(box'[u]) : i = 1 /\ box'[u][i].id = own'[u]
      BY <2>5, <3>2 DEF OneUnderWay
    <3> QED BY <3>2, <3>3, <3>4, <3>5, <3>6, <3>8, <3>9 DEF OneUnderWay
  <2> QED BY <1>10, <2>1, <2>4, <2>5
<1>12. CASE ServerAnswer
  <2>1. PICK r \in serving :
          /\ serving' = {}
          /\ \/ box' = [box EXCEPT ![r.from] = Append(@, Reply(r))]
             \/ box' = box
    BY <1>12 DEF ServerAnswer
  <2>2. UNCHANGED <<callVars, serverBox, interrupted>> /\ strays' = strays
    BY <1>12 DEF ServerAnswer
  <2>3. CASE box'[u] = box[u]
    <3>1. Quiet(u) => Quiet(u)' BY <2>1, <2>2, <2>3 DEF Quiet
    <3>2. OneUnderWay(u) => OneUnderWay(u)'
      BY <2>1, <2>2, <2>3 DEF OneUnderWay, callVars
    <3> QED BY <1>10, <2>2, <3>1, <3>2
  <2>4. CASE box'[u] # box[u]
    <3>1. r.from = u /\ box'[u] = Append(box[u], Reply(r))
      BY <1>0, <2>1, <2>4 DEF MailTyped
    <3>2. ~Quiet(u) BY <3>1 DEF Quiet
    <3>3. ASSUME OneUnderWay(u) PROVE OneUnderWay(u)'
      <4>1. box[u] = <<>> /\ r.id = own[u] /\ \A i \in 1 .. Len(serverBox) : serverBox[i].from # u
        BY <3>1, <3>3 DEF OneUnderWay
      <4>2. box'[u] = <<Reply(r)>> /\ Reply(r).id = own[u] BY <3>1, <4>1 DEF Reply
      <4>3. own' = own BY <2>2 DEF callVars
      <4>4. Len(box'[u]) = 1 /\ box'[u][1].id = own[u] BY <4>2
      <4> QED BY <2>1, <2>2, <4>1, <4>3, <4>4 DEF OneUnderWay
    <3> QED BY <1>10, <2>2, <3>2, <3>3
  <2> QED BY <2>3, <2>4
<1>13. CASE ServerStops
  <2>1. /\ serverBox \in Seq(Requests) /\ serverBox' \in Suffixes(serverBox)
        /\ serving' = {}
        /\ UNCHANGED <<callVars, box, interrupted>> /\ strays' = strays
    BY <1>0, <1>13 DEF ServerStops, MailTyped
  <2> DEFINE d == Len(serverBox) - Len(serverBox')
  <2>2. /\ Len(serverBox) \in Nat /\ Len(serverBox') \in Nat /\ d \in Nat
        /\ \A i \in 1 .. Len(serverBox') : serverBox'[i] = serverBox[i + d]
    BY <2>1, SuffixesType
  <2>3. \A i \in 1 .. Len(serverBox') : i + d \in 1 .. Len(serverBox) BY <2>2
  <2> HIDE DEF d
  <2>4. Quiet(u) => Quiet(u)' BY <2>1, <2>2, <2>3 DEF Quiet
  <2>5. ASSUME OneUnderWay(u) PROVE OneUnderWay(u)'
    <3>1. own' = own /\ box' = box BY <2>1 DEF callVars
    <3>2. \A i \in 1 .. Len(serverBox') : serverBox'[i].from = u => serverBox'[i].id = own[u]
      BY <2>2, <2>3, <2>5 DEF OneUnderWay
    <3>3. ASSUME NEW i \in 1 .. Len(serverBox'), NEW j \in 1 .. Len(serverBox'),
                 serverBox'[i].from = u, serverBox'[j].from = u
          PROVE  i = j
      <4>1. i + d = j + d BY <2>2, <2>3, <2>5, <3>3 DEF OneUnderWay
      <4> QED BY <2>2, <4>1
    <3>4. (\E i \in 1 .. Len(serverBox') : serverBox'[i].from = u) => box[u] = <<>>
      BY <2>2, <2>3, <2>5 DEF OneUnderWay
    <3> QED BY <2>1, <2>5, <3>1, <3>2, <3>3, <3>4 DEF OneUnderWay
  <2> QED BY <1>10, <2>1, <2>4, <2>5
<1>14. CASE ServerStarts \/ UNCHANGED vars
  <2>1. UNCHANGED <<callVars, box, serverBox, serving, strays, interrupted>>
    BY <1>14 DEF ServerStarts, vars, serverVars
  <2> QED BY <1>2, <1>10, <2>1 DEF callVars
<1>15. CASE Interrupt
  <2>1. UNCHANGED <<callVars, box, serverBox, serving, strays>> /\ interrupted'
    BY <1>15 DEF Interrupt, serverVars
  <2> QED BY <1>1, <1>2, <2>1 DEF Tidy, callVars
<1> QED
  BY <1>3, <1>4, <1>6, <1>7, <1>8, <1>9, <1>11, <1>12, <1>13, <1>14, <1>15 DEF Next, CallStep

\* As long as nobody else writes to its mailbox, no call throws "Mismatch
\* correlation id": for any number of threads and calls, with requests that are
\* not sent or not answered, and a server that stops and starts.
THEOREM NoCallMeetsAnEarlierReply == Spec => []NoMismatch
<1>1. Init => TidyInv
  <2> SUFFICES ASSUME Init, NEW t \in Threads PROVE Tidy(t)
    BY DEF TidyInv
  <2>1. pc[t] = "idle" /\ result[t].how = "none" /\ box[t] = <<>> BY DEF Init
  <2>2. serverBox = <<>> /\ serving = {} BY DEF Init
  <2>3. Quiet(t) BY <2>1, <2>2 DEF Quiet
  <2> QED BY <2>1, <2>3 DEF Tidy
<1>2. TidyInv => NoMismatch BY DEF TidyInv, Tidy, NoMismatch
<1> QED BY <1>1, <1>2, InitTypeOK, NextTypeOK, NextTidyInv, PTL DEF Spec, SafetySpec

-----------------------------------------------------------------------------
\* Mailboxes that grow

LEMMA BoxGrows ==
  ASSUME TypeOK, NEW t \in Threads, NEW m, box' = [box EXCEPT ![t] = Append(@, m)]
  PROVE  /\ \A u \in Threads \ {t} : box'[u] = box[u]
         /\ Len(box[t]) \in Nat
         /\ Len(box'[t]) = Len(box[t]) + 1
         /\ box'[t][Len(box[t]) + 1] = m
         /\ \A i \in 1 .. Len(box[t]) : box'[t][i] = box[t][i]
<1>0. box \in [Threads -> Seq(Replies)] BY TypeOKParts DEF MailTyped
<1>1. box'[t] = Append(box[t], m) /\ \A u \in Threads \ {t} : box'[u] = box[u] BY <1>0
<1>2. box[t] \in Seq(Replies) BY <1>0
<1> QED BY <1>1, <1>2

LEMMA ServerBoxGrows ==
  ASSUME TypeOK, NEW m, serverBox' = Append(serverBox, m)
  PROVE  /\ Len(serverBox) \in Nat
         /\ Len(serverBox') = Len(serverBox) + 1
         /\ serverBox'[Len(serverBox) + 1] = m
         /\ \A i \in 1 .. Len(serverBox) : serverBox'[i] = serverBox[i]
BY TypeOKParts DEF MailTyped

-----------------------------------------------------------------------------
\* No call waits for nothing

\* What t waits for, or waited for, is somewhere.
Expected(t) ==
  \/ box[t] # <<>>
  \/ \E i \in 1 .. Len(serverBox) : serverBox[i] = Request(t)
  \/ Request(t) \in serving
  \/ own[t] \in unanswered

\* handleMailbox() handles one request at a time.
WaitInv ==
  /\ WaitIsNotInVain
  /\ \A r, s \in serving : r = s

LEMMA NextWaitInv == TypeOK /\ OwnInv /\ WaitInv /\ [Next]_vars => WaitInv'
<1> SUFFICES ASSUME TypeOK, OwnInv, WaitInv, [Next]_vars PROVE WaitInv'
  OBVIOUS
<1>0. CallsTyped /\ MailTyped BY TypeOKParts
<1>1. \A r, s \in serving' : r = s
  <2>1. serving' \in {serving, {}} \/ ServerReceive
    BY DEF WaitInv, Next, CallStep, Connect, Send, GiveUp, Await, Receive, Abort, StrayToClient,
           StrayToServer, ServerAnswer, ServerStops, ServerStarts, Interrupt, vars, callVars,
           serverVars
  <2> QED BY <2>1 DEF WaitInv, ServerReceive
<1> SUFFICES ASSUME NEW u \in Threads, pc'[u] \in {"sent", "waiting"} PROVE Expected(u)'
  BY <1>1 DEF WaitInv, WaitIsNotInVain, Expected
<1>2. ASSUME own'[u] = own[u] PROVE Request(u)' = Request(u)
  BY <1>2 DEF Request
<1>3. ASSUME pc[u] \in {"sent", "waiting"} PROVE Expected(u) /\ own[u] # 0
  BY <1>3 DEF WaitInv, WaitIsNotInVain, Expected, OwnInv
\* The mail of the server is as it was, and the mailbox of u not emptied.
<1>4. ASSUME pc[u] \in {"sent", "waiting"}, own'[u] = own[u],
             box[u] # <<>> => box'[u] # <<>>,
             UNCHANGED <<serverBox, serving>>, unanswered \subseteq unanswered'
      PROVE  Expected(u)'
  BY <1>2, <1>3, <1>4 DEF Expected
<1>5. ASSUME UNCHANGED <<pc, own, box, serverBox, serving, unanswered>> PROVE Expected(u)'
  BY <1>4, <1>5
<1>6. ASSUME NEW t \in Threads, Connect(t) PROVE Expected(u)'
  <2>1. t # u /\ pc'[u] = pc[u] /\ own'[u] = own[u]
        /\ UNCHANGED <<box, serverBox, serving, unanswered>>
    BY <1>0, <1>6 DEF Connect, End, CallsTyped, serverVars
  <2> QED BY <1>4, <2>1
<1>7. ASSUME NEW m, serverBox' = Append(serverBox, m), UNCHANGED <<own, box, serving, unanswered>>,
             pc[u] \in {"sent", "waiting"} \/ m = Request(u)
      PROVE  Expected(u)'
  <2>1. /\ Len(serverBox) + 1 \in 1 .. Len(serverBox')
        /\ serverBox'[Len(serverBox) + 1] = m
        /\ \A i \in 1 .. Len(serverBox) : i \in 1 .. Len(serverBox') /\ serverBox'[i] = serverBox[i]
    BY <1>7, ServerBoxGrows
  <2> QED BY <1>2, <1>3, <1>7, <2>1 DEF Expected
<1>8. ASSUME NEW t \in Threads, Send(t) PROVE Expected(u)'
  <2>1. /\ UNCHANGED <<own, box, serving>>
        /\ t # u => pc[u] = pc'[u]
        /\ \/ serverBox' = Append(serverBox, Request(t)) /\ unanswered' = unanswered
           \/ serverBox' = serverBox /\ unanswered' = unanswered \cup {own[t]}
    BY <1>0, <1>8 DEF Send, CallsTyped
  <2>2. CASE serverBox' = Append(serverBox, Request(t)) /\ unanswered' = unanswered
    BY <1>7, <2>1, <2>2
  <2>3. CASE serverBox' = serverBox /\ unanswered' = unanswered \cup {own[t]}
    <3>1. CASE t = u BY <2>1, <2>3, <3>1 DEF Expected
    <3>2. CASE t # u BY <1>4, <2>1, <2>3, <3>2
    <3> QED BY <3>1, <3>2
  <2> QED BY <2>1, <2>2, <2>3
<1>9. ASSUME NEW t \in Threads, GiveUp(t) \/ Receive(t) PROVE Expected(u)'
  <2>1. PICK left : box' = [box EXCEPT ![t] = left] BY <1>9 DEF GiveUp, Receive
  <2>2. /\ UNCHANGED <<own, serverBox, serving, unanswered>>
        /\ t # u /\ pc'[u] = pc[u]
    BY <1>0, <1>9 DEF GiveUp, Receive, End, CallsTyped, serverVars
  <2> QED BY <1>4, <2>1, <2>2
<1>10. ASSUME NEW t \in Threads, Await(t) \/ Abort(t) PROVE Expected(u)'
  <2>1. /\ UNCHANGED <<own, box, serverBox, serving, unanswered>>
        /\ pc[u] \in {"sent", "waiting"}
    BY <1>0, <1>10 DEF Await, Abort, CallsTyped, serverVars
  <2> QED BY <1>4, <2>1
<1>11. ASSUME NEW t \in Threads, StrayToClient(t) PROVE Expected(u)'
  <2>1. /\ box' = [box EXCEPT ![t] = Append(@, StrayReply)]
        /\ UNCHANGED <<pc, own, serverBox, serving, unanswered>>
    BY <1>11 DEF StrayToClient, callVars, serverVars
  <2>2. box[u] # <<>> => box'[u] # <<>> BY <1>0, <2>1, BoxGrows DEF MailTyped
  <2> QED BY <1>4, <2>1, <2>2
<1>12. ASSUME NEW t \in Threads, StrayToServer(t) PROVE Expected(u)'
  BY <1>7, <1>12 DEF StrayToServer, callVars
<1>13. CASE ServerReceive
  <2>1. /\ UNCHANGED <<pc, own, box, unanswered>> /\ serverBox # <<>> /\ serving = {}
        /\ serverBox' = Tail(serverBox)
        /\ serving' = {r \in {Head(serverBox)} : r.subject = "REQUEST" /\ r.id # 0}
    BY <1>13 DEF ServerReceive, OtherMessages, callVars
  <2>2. /\ Head(serverBox) = serverBox[1]
        /\ Len(serverBox') = Len(serverBox) - 1
        /\ Len(serverBox) \in Nat \ {0}
        /\ \A i \in 1 .. Len(serverBox) - 1 : serverBox'[i] = serverBox[i + 1]
    BY <1>0, <2>1, TailType DEF MailTyped
  <2>3. Expected(u) /\ own[u] # 0 BY <1>3, <2>1
  <2>4. ASSUME NEW i \in 1 .. Len(serverBox), serverBox[i] = Request(u) PROVE Expected(u)'
    <3>1. CASE i = 1
      <4>1. Request(u) \in serving' BY <2>1, <2>2, <2>3, <2>4, <3>1 DEF Request
      <4> QED BY <1>2, <2>1, <4>1 DEF Expected
    <3>2. CASE i # 1
      <4>1. i - 1 \in 1 .. Len(serverBox') /\ serverBox'[i - 1] = Request(u)
        BY <2>2, <2>4, <3>2
      <4> QED BY <1>2, <2>1, <4>1 DEF Expected
    <3> QED BY <3>1, <3>2
  <2> QED BY <2>1, <2>3, <2>4 DEF Expected
<1>14. CASE ServerAnswer
  <2>1. PICK r \in serving :
          /\ \/ box' = [box EXCEPT ![r.from] = Append(@, Reply(r))] /\ unanswered' = unanswered
             \/ box' = box /\ unanswered' = unanswered \cup {r.id}
          /\ UNCHANGED <<pc, own, serverBox>>
    BY <1>14 DEF ServerAnswer, callVars
  <2>2. r.from \in Threads BY <1>0 DEF MailTyped, Handled
  <2>3. box'[u] = box[u] \/ box'[u] # <<>>
    <3>1. CASE box' = [box EXCEPT ![r.from] = Append(@, Reply(r))]
      <4>1. CASE u = r.from
        <5>1. Len(box'[u]) = Len(box[u]) + 1 /\ Len(box[u]) \in Nat
          BY <2>2, <3>1, <4>1, BoxGrows
        <5> QED BY <5>1
      <4>2. CASE u # r.from BY <2>2, <3>1, <4>2, BoxGrows
      <4> QED BY <4>1, <4>2
    <3> QED BY <2>1, <3>1
  <2>4. CASE Request(u) \in serving
    <3>1. r = Request(u) BY <2>4 DEF WaitInv
    <3>2. r.from = u /\ r.id = own[u] BY <3>1 DEF Request
    <3>3. CASE box' = [box EXCEPT ![r.from] = Append(@, Reply(r))]
      <4>1. box'[u] # <<>> BY <1>0, <3>2, <3>3, BoxGrows DEF MailTyped
      <4> QED BY <4>1 DEF Expected
    <3>4. CASE unanswered' = unanswered \cup {r.id}
      BY <2>1, <3>2, <3>4 DEF Expected
    <3> QED BY <2>1, <3>3, <3>4
  <2>5. CASE Request(u) \notin serving
    <3>1. Expected(u) BY <1>3, <2>1
    <3> QED BY <1>2, <2>1, <2>3, <2>5, <3>1 DEF Expected
  <2> QED BY <2>4, <2>5
<1>15. CASE ServerStops
  <2>1. /\ UNCHANGED <<pc, own, box>>
        /\ serverBox' \in Suffixes(serverBox)
        /\ unanswered' = unanswered \cup {r.id : r \in serving}
             \cup {serverBox[i].id : i \in 1 .. Len(serverBox) - Len(serverBox')}
    BY <1>15 DEF ServerStops, callVars
  <2>2. /\ Len(serverBox') <= Len(serverBox)
        /\ Len(serverBox') \in Nat /\ Len(serverBox) \in Nat
        /\ \A i \in 1 .. Len(serverBox') :
             serverBox'[i] = serverBox[i + (Len(serverBox) - Len(serverBox'))]
    BY <1>0, <2>1, SuffixesType DEF MailTyped
  <2>3. Expected(u) BY <1>3, <2>1
  <2>4. CASE Request(u) \in serving
    <3>1. Request(u).id = own[u] BY DEF Request
    <3> QED BY <2>1, <2>4, <3>1 DEF Expected
  <2>5. ASSUME NEW i \in 1 .. Len(serverBox), serverBox[i] = Request(u) PROVE Expected(u)'
    <3>1. serverBox[i].id = own[u] BY <2>5 DEF Request
    <3>2. CASE i <= Len(serverBox) - Len(serverBox')
      <4>1. i \in 1 .. Len(serverBox) - Len(serverBox') BY <2>2, <3>2
      <4> QED BY <2>1, <3>1, <4>1 DEF Expected
    <3>3. CASE i > Len(serverBox) - Len(serverBox')
      <4> DEFINE j == i - (Len(serverBox) - Len(serverBox'))
      <4>1. j \in 1 .. Len(serverBox') /\ j + (Len(serverBox) - Len(serverBox')) = i
        BY <2>2, <3>3
      <4>2. serverBox'[j] = Request(u) BY <2>2, <2>5, <4>1
      <4> QED BY <1>2, <2>1, <4>1, <4>2 DEF Expected
    <3> QED BY <2>2, <3>2, <3>3
  <2> QED BY <2>1, <2>3, <2>4, <2>5 DEF Expected
<1>16. CASE ServerStarts \/ Interrupt \/ UNCHANGED vars
  BY <1>5, <1>16 DEF ServerStarts, Interrupt, vars, callVars, serverVars
<1> QED
  BY <1>6, <1>8, <1>9, <1>10, <1>11, <1>12, <1>13, <1>14, <1>15, <1>16 DEF Next, CallStep

\* For any number of threads, calls and strays, requests that are not sent or
\* not answered, and a server that stops and starts: no call waits with nothing
\* under way, unless the server has no reply for it.
THEOREM NoCallWaitsInVain == Spec => []WaitIsNotInVain
<1>1. Init => WaitInv BY DEF Init, WaitInv, WaitIsNotInVain
<1>2. WaitInv => WaitIsNotInVain BY DEF WaitInv
<1>3. Init => OwnInv
  <2>1. <<>> \in Seq(Truthful) OBVIOUS
  <2> QED BY <2>1 DEF Init, OwnInv, OwnReply
<1> QED BY <1>1, <1>2, <1>3, InitTypeOK, NextTypeOK, NextOwnInv, NextWaitInv, PTL DEF Spec, SafetySpec

-----------------------------------------------------------------------------
\* A request is in one place

\* The correlation ids in the mailboxes and in handleMailbox() are those of
\* calls, and no two of them are the same.
IdsInv ==
  /\ \A i \in 1 .. Len(serverBox) : serverBox[i].id \in 0 .. calls
  /\ \A r \in serving : r.id \in 1 .. calls
  /\ \A t \in Threads : \A i \in 1 .. Len(box[t]) : box[t][i].answers \in 0 .. calls
  /\ \A i, j \in 1 .. Len(serverBox) :
       serverBox[i].id = serverBox[j].id /\ serverBox[i].id # 0 => i = j
  /\ \A r, s \in serving : r = s
  /\ \A r \in serving : \A i \in 1 .. Len(serverBox) : serverBox[i].id # r.id
  /\ \A t, u \in Threads : \A i \in 1 .. Len(box[t]), j \in 1 .. Len(box[u]) :
       box[t][i].answers = box[u][j].answers /\ box[t][i].answers # 0 => t = u /\ i = j
  /\ \A t \in Threads : \A i \in 1 .. Len(box[t]), j \in 1 .. Len(serverBox) :
       box[t][i].answers # 0 => box[t][i].answers # serverBox[j].id
  /\ \A t \in Threads : \A i \in 1 .. Len(box[t]) : \A r \in serving :
       box[t][i].answers # r.id

NotUnderWay(id) ==
  /\ \A i \in 1 .. Len(serverBox) : serverBox[i].id # id
  /\ \A r \in serving : r.id # id
  /\ \A t \in Threads : \A i \in 1 .. Len(box[t]) : box[t][i].answers # id

\* What a thread is about to send is new, and no two threads made one request.
NewInv ==
  /\ \A t \in Threads : own[t] \in 0 .. calls
  /\ \A t, u \in Threads : own[t] = own[u] /\ own[t] # 0 => t = u
  /\ \A t \in Threads : pc[t] = "connected" => NotUnderWay(own[t])

PlaceInv == TypeOK /\ OwnInv /\ IdsInv /\ NewInv

\* A mailbox of which the reader has taken messages.
LEMMA BoxShrinks ==
  ASSUME TypeOK, NEW t \in Threads, NEW left,
         box' = [box EXCEPT ![t] = left],
         left \in Suffixes(box[t]) \/ (box[t] # <<>> /\ left \in Suffixes(Tail(box[t])))
  PROVE  \E d \in Nat :
           /\ box[t] # <<>> /\ left \in Suffixes(Tail(box[t])) => d # 0
           /\ \A u \in Threads \ {t} : box'[u] = box[u]
           /\ \A i \in 1 .. Len(box'[t]) :
                /\ i \in Nat /\ i + d \in 1 .. Len(box[t])
                /\ box'[t][i] = box[t][i + d]
<1>0. box \in [Threads -> Seq(Replies)] BY TypeOKParts DEF MailTyped
<1>1. box'[t] = left /\ \A u \in Threads \ {t} : box'[u] = box[u] BY <1>0
<1>2. box[t] \in Seq(Replies) /\ Len(box[t]) \in Nat BY <1>0
<1>3. CASE box[t] # <<>> /\ left \in Suffixes(Tail(box[t]))
  <2>1. /\ Tail(box[t]) \in Seq(Replies)
        /\ Len(Tail(box[t])) = Len(box[t]) - 1
        /\ \A i \in 1 .. Len(box[t]) - 1 : Tail(box[t])[i] = box[t][i + 1]
    BY <1>2, <1>3, TailType
  <2>2. /\ left \in Seq(Replies) /\ Len(left) <= Len(Tail(box[t]))
        /\ \A i \in 1 .. Len(left) : left[i] = Tail(box[t])[i + (Len(Tail(box[t])) - Len(left))]
    BY <1>3, <2>1, SuffixesType
  <2>3. Len(left) \in Nat /\ Len(left) <= Len(box[t]) - 1 BY <2>1, <2>2
  <2> DEFINE d == Len(box[t]) - Len(left)
  <2>4. d \in Nat /\ d # 0 BY <1>2, <2>3
  <2>5. ASSUME NEW i \in 1 .. Len(left)
        PROVE  i \in Nat /\ i + d \in 1 .. Len(box[t]) /\ left[i] = box[t][i + d]
    <3>1. i + (d - 1) \in 1 .. Len(box[t]) - 1 /\ (i + (d - 1)) + 1 = i + d
      BY <1>2, <2>3
    <3>2. left[i] = Tail(box[t])[i + (d - 1)]
      <4>1. Len(Tail(box[t])) - Len(left) = d - 1 BY <1>2, <2>1, <2>3
      <4> QED BY <2>2, <4>1
    <3>3. Tail(box[t])[i + (d - 1)] = box[t][(i + (d - 1)) + 1] BY <2>1, <3>1
    <3> QED BY <1>2, <2>3, <3>1, <3>2, <3>3
  <2> HIDE DEF d
  <2> QED BY <1>1, <2>4, <2>5
<1>4. CASE left \in Suffixes(box[t]) /\ ~(box[t] # <<>> /\ left \in Suffixes(Tail(box[t])))
  <2>1. /\ left \in Seq(Replies) /\ Len(left) <= Len(box[t])
        /\ \A i \in 1 .. Len(left) : left[i] = box[t][i + (Len(box[t]) - Len(left))]
    BY <1>2, <1>4, SuffixesType
  <2>2. Len(left) \in Nat BY <2>1
  <2> DEFINE d == Len(box[t]) - Len(left)
  <2>3. d \in Nat BY <1>2, <2>1, <2>2
  <2>4. \A i \in 1 .. Len(left) : i \in Nat /\ i + d \in 1 .. Len(box[t]) /\ left[i] = box[t][i + d]
    BY <1>2, <2>1, <2>2
  <2> HIDE DEF d
  <2> QED BY <1>1, <1>4, <2>3, <2>4
<1> QED BY <1>3, <1>4

\* A message is appended to the mailbox of a thread.
\* Ids stay apart and new ones stay new if ...
LEMMA SameMail ==
  ASSUME IdsInv, UNCHANGED <<box, serverBox, serving>>, calls \in Nat, calls' \in {calls, calls + 1}
  PROVE  IdsInv' /\ \A id : NotUnderWay(id) => NotUnderWay(id)'
<1>1. 0 .. calls \subseteq 0 .. calls' /\ 1 .. calls \subseteq 1 .. calls' OBVIOUS
<1> QED BY <1>1 DEF IdsInv, NotUnderWay

\* ... a reader took messages,
LEMMA LessMail ==
  ASSUME IdsInv, UNCHANGED <<serverBox, serving, calls>>, NEW t \in Threads, NEW d \in Nat,
         \A u \in Threads \ {t} : box'[u] = box[u],
         \A i \in 1 .. Len(box'[t]) :
           i \in Nat /\ i + d \in 1 .. Len(box[t]) /\ box'[t][i] = box[t][i + d]
  PROVE  IdsInv' /\ \A id : NotUnderWay(id) => NotUnderWay(id)'
<1>1. ASSUME NEW u \in Threads, NEW i \in 1 .. Len(box'[u])
      PROVE  \E k \in 1 .. Len(box[u]) :
               box'[u][i] = box[u][k] /\ (u = t => k = i + d) /\ (u # t => k = i)
  <2>1. CASE u = t BY <2>1
  <2>2. CASE u # t
    <3>1. box'[u] = box[u] BY <2>2
    <3> QED BY <2>2, <3>1
  <2> QED BY <2>1, <2>2
<1>2. ASSUME NEW u \in Threads, NEW v \in Threads,
             NEW i \in 1 .. Len(box'[u]), NEW j \in 1 .. Len(box'[v]),
             box'[u][i].answers = box'[v][j].answers, box'[u][i].answers # 0
      PROVE  u = v /\ i = j
  <2>1. PICK k \in 1 .. Len(box[u]) :
          box'[u][i] = box[u][k] /\ (u = t => k = i + d) /\ (u # t => k = i)
    BY <1>1
  <2>2. PICK l \in 1 .. Len(box[v]) :
          box'[v][j] = box[v][l] /\ (v = t => l = j + d) /\ (v # t => l = j)
    BY <1>1
  <2>3. u = v /\ k = l BY <1>2, <2>1, <2>2 DEF IdsInv
  <2>4. CASE u = t
    <3>1. i + d = j + d /\ i \in Nat /\ j \in Nat BY <2>1, <2>2, <2>3, <2>4
    <3> QED BY <2>3, <3>1
  <2>5. CASE u # t BY <2>1, <2>2, <2>3, <2>5
  <2> QED BY <2>4, <2>5
<1>3. \A u \in Threads : \A i \in 1 .. Len(box'[u]) :
        \E k \in 1 .. Len(box[u]) : box'[u][i] = box[u][k]
  BY <1>1
<1>4. ASSUME NEW u \in Threads, NEW i \in 1 .. Len(box'[u])
      PROVE  /\ box'[u][i].answers \in 0 .. calls
             /\ \A j \in 1 .. Len(serverBox) :
                  box'[u][i].answers # 0 => box'[u][i].answers # serverBox[j].id
             /\ \A r \in serving : box'[u][i].answers # r.id
  <2>1. PICK k \in 1 .. Len(box[u]) : box'[u][i] = box[u][k] BY <1>3
  <2> QED BY <2>1 DEF IdsInv
<1>5. IdsInv' BY <1>2, <1>4 DEF IdsInv
<1>6. ASSUME NEW id, NotUnderWay(id) PROVE NotUnderWay(id)' BY <1>3, <1>6 DEF NotUnderWay
<1> QED BY <1>5, <1>6

\* ... a message with no id, or with one that is in no other place, is sent to
\* a thread,
LEMMA MoreMail ==
  ASSUME IdsInv, UNCHANGED <<serverBox, calls>>, NEW t \in Threads, NEW m,
         \/ serving' = serving /\ m.answers = 0
         \/ serving' = {} /\ \E r \in serving : m.answers = r.id,
         calls \in Nat,
         \A u \in Threads \ {t} : box'[u] = box[u],
         Len(box[t]) \in Nat,
         Len(box'[t]) = Len(box[t]) + 1,
         box'[t][Len(box[t]) + 1] = m,
         \A i \in 1 .. Len(box[t]) : box'[t][i] = box[t][i]
  PROVE  IdsInv' /\ \A id : NotUnderWay(id) /\ id # 0 => NotUnderWay(id)'
<1>1. \A u \in Threads : \A i \in 1 .. Len(box'[u]) :
        \/ i \in 1 .. Len(box[u]) /\ box'[u][i] = box[u][i]
        \/ u = t /\ i = Len(box[t]) + 1 /\ box'[u][i] = m
  OBVIOUS
<1>2. /\ m.answers \in 0 .. calls
      /\ \A u \in Threads : \A i \in 1 .. Len(box[u]) :
           m.answers # 0 => box[u][i].answers # m.answers
      /\ \A i \in 1 .. Len(serverBox) : m.answers # 0 => serverBox[i].id # m.answers
      /\ \A r \in serving' : r.id # m.answers /\ r \in serving
  BY DEF IdsInv
<1>3. ASSUME NEW u \in Threads, NEW i \in 1 .. Len(box'[u])
      PROVE  box'[u][i].answers \in 0 .. calls
  <2>1. \/ i \in 1 .. Len(box[u]) /\ box'[u][i] = box[u][i]
        \/ box'[u][i] = m
    BY <1>1
  <2>2. \A k \in 1 .. Len(box[u]) : box[u][k].answers \in 0 .. calls BY DEF IdsInv
  <2> QED BY <1>2, <2>1, <2>2
<1>4. ASSUME NEW u \in Threads, NEW v \in Threads,
             NEW i \in 1 .. Len(box'[u]), NEW j \in 1 .. Len(box'[v]),
             box'[u][i].answers = box'[v][j].answers, box'[u][i].answers # 0
      PROVE  u = v /\ i = j
  <2>1. \/ i \in 1 .. Len(box[u]) /\ box'[u][i] = box[u][i]
        \/ u = t /\ i = Len(box[t]) + 1 /\ box'[u][i] = m
    BY <1>1
  <2>2. \/ j \in 1 .. Len(box[v]) /\ box'[v][j] = box[v][j]
        \/ v = t /\ j = Len(box[t]) + 1 /\ box'[v][j] = m
    BY <1>1
  <2>3. CASE i \in 1 .. Len(box[u]) /\ box'[u][i] = box[u][i] /\ j \in 1 .. Len(box[v]) /\ box'[v][j] = box[v][j]
    BY <1>4, <2>3 DEF IdsInv
  <2>4. CASE i \in 1 .. Len(box[u]) /\ box'[u][i] = box[u][i] /\ box'[v][j] = m
    BY <1>2, <1>4, <2>4
  <2>5. CASE j \in 1 .. Len(box[v]) /\ box'[v][j] = box[v][j] /\ box'[u][i] = m
    BY <1>2, <1>4, <2>5
  <2> QED BY <2>1, <2>2, <2>3, <2>4, <2>5
<1>5. ASSUME NEW u \in Threads, NEW i \in 1 .. Len(box'[u]), NEW j \in 1 .. Len(serverBox),
             box'[u][i].answers # 0
      PROVE  box'[u][i].answers # serverBox[j].id
  <2>1. \/ i \in 1 .. Len(box[u]) /\ box'[u][i] = box[u][i]
        \/ box'[u][i] = m
    BY <1>1
  <2>2. \A k \in 1 .. Len(box[u]) :
          box[u][k].answers # 0 => box[u][k].answers # serverBox[j].id
    BY DEF IdsInv
  <2>3. m.answers # 0 => serverBox[j].id # m.answers BY <1>2
  <2> QED BY <1>5, <2>1, <2>2, <2>3
<1>6. ASSUME NEW u \in Threads, NEW i \in 1 .. Len(box'[u]), NEW r \in serving'
      PROVE  box'[u][i].answers # r.id
  <2>1. \/ i \in 1 .. Len(box[u]) /\ box'[u][i] = box[u][i]
        \/ box'[u][i] = m
    BY <1>1
  <2>2. r \in serving /\ r.id # m.answers BY <1>2
  <2>3. \A k \in 1 .. Len(box[u]) : box[u][k].answers # r.id BY <2>2 DEF IdsInv
  <2> QED BY <2>1, <2>2, <2>3
<1>7. IdsInv' BY <1>2, <1>3, <1>4, <1>5, <1>6 DEF IdsInv
<1>8. ASSUME NEW id, NotUnderWay(id), id # 0 PROVE NotUnderWay(id)'
  <2>1. m.answers # id BY <1>8 DEF NotUnderWay
  <2> QED BY <1>1, <1>2, <1>8, <2>1 DEF NotUnderWay
<1> QED BY <1>7, <1>8

\* ... or a message with no id, or with a new one, is sent to the server,
LEMMA MoreServerMail ==
  ASSUME IdsInv, UNCHANGED <<box, serving, calls>>, NEW m,
         m.id \in 0 .. calls, m.id # 0 => NotUnderWay(m.id),
         Len(serverBox) \in Nat,
         Len(serverBox') = Len(serverBox) + 1,
         serverBox'[Len(serverBox) + 1] = m,
         \A i \in 1 .. Len(serverBox) : serverBox'[i] = serverBox[i]
  PROVE  IdsInv' /\ \A id : NotUnderWay(id) /\ id # m.id => NotUnderWay(id)'
<1>1. \A i \in 1 .. Len(serverBox') :
        \/ i \in 1 .. Len(serverBox) /\ serverBox'[i] = serverBox[i]
        \/ i = Len(serverBox) + 1 /\ serverBox'[i] = m
  OBVIOUS
<1>2. ASSUME NEW i \in 1 .. Len(serverBox'), NEW j \in 1 .. Len(serverBox'),
             serverBox'[i].id = serverBox'[j].id, serverBox'[i].id # 0
      PROVE  i = j
  BY <1>1, <1>2 DEF IdsInv, NotUnderWay
<1>3. \A r \in serving : \A i \in 1 .. Len(serverBox') : serverBox'[i].id # r.id
  <2>1. \A r \in serving : r.id # 0 BY DEF IdsInv
  <2> QED BY <1>1, <2>1 DEF IdsInv, NotUnderWay
<1>4. \A t \in Threads : \A i \in 1 .. Len(box[t]), j \in 1 .. Len(serverBox') :
        box[t][i].answers # 0 => box[t][i].answers # serverBox'[j].id
  BY <1>1 DEF IdsInv, NotUnderWay
<1>5. \A i \in 1 .. Len(serverBox') : serverBox'[i].id \in 0 .. calls
  BY <1>1 DEF IdsInv
<1>6. IdsInv' BY <1>2, <1>3, <1>4, <1>5 DEF IdsInv
<1>7. ASSUME NEW id, NotUnderWay(id), id # m.id PROVE NotUnderWay(id)'
  BY <1>1, <1>7 DEF NotUnderWay
<1> QED BY <1>6, <1>7

\* ... or the server took or lost messages, and handles at most one it took.
LEMMA LessServerMail ==
  ASSUME IdsInv, UNCHANGED <<box, calls>>, calls \in Nat, NEW d \in Nat,
         \A i \in 1 .. Len(serverBox') :
           i \in Nat /\ i + d \in 1 .. Len(serverBox) /\ serverBox'[i] = serverBox[i + d],
         \A r, s \in serving' : r = s,
         \A r \in serving' :
           r.id # 0 /\ d # 0 /\ \E k \in 1 .. Len(serverBox) : k = d /\ r = serverBox[k]
  PROVE  IdsInv' /\ \A id : NotUnderWay(id) => NotUnderWay(id)'
<1>1. \A i \in 1 .. Len(serverBox') : serverBox'[i].id \in 0 .. calls
  BY DEF IdsInv
<1>2. \A r \in serving' : r.id \in 1 .. calls
  BY DEF IdsInv
<1>3. ASSUME NEW i \in 1 .. Len(serverBox'), NEW j \in 1 .. Len(serverBox'),
             serverBox'[i].id = serverBox'[j].id, serverBox'[i].id # 0
      PROVE  i = j
  <2>1. PICK k \in 1 .. Len(serverBox) : k = i + d /\ serverBox'[i] = serverBox[k] OBVIOUS
  <2>2. PICK l \in 1 .. Len(serverBox) : l = j + d /\ serverBox'[j] = serverBox[l] OBVIOUS
  <2>3. k = l BY <1>3, <2>1, <2>2 DEF IdsInv
  <2> QED BY <2>1, <2>2, <2>3
<1>4. ASSUME NEW r \in serving', NEW i \in 1 .. Len(serverBox'), serverBox'[i].id = r.id
      PROVE  FALSE
  <2>1. PICK l \in 1 .. Len(serverBox) : l = i + d /\ serverBox'[i] = serverBox[l] OBVIOUS
  <2>2. PICK k \in 1 .. Len(serverBox) : k = d /\ r = serverBox[k] OBVIOUS
  <2>3. r.id # 0 OBVIOUS
  <2>4. serverBox[l].id = serverBox[k].id /\ serverBox[l].id # 0 BY <1>4, <2>1, <2>2, <2>3
  <2>5. l = k BY <2>4 DEF IdsInv
  <2>6. i \in Nat /\ i # 0 OBVIOUS
  <2> QED BY <2>1, <2>2, <2>5, <2>6
<1>5. \A t \in Threads : \A i \in 1 .. Len(box[t]), j \in 1 .. Len(serverBox') :
        box[t][i].answers # 0 => box[t][i].answers # serverBox'[j].id
  <2> SUFFICES ASSUME NEW t \in Threads, NEW i \in 1 .. Len(box[t]), NEW j \in 1 .. Len(serverBox'),
                      box[t][i].answers # 0
               PROVE  box[t][i].answers # serverBox'[j].id
    OBVIOUS
  <2>1. PICK l \in 1 .. Len(serverBox) : serverBox'[j] = serverBox[l] OBVIOUS
  <2> QED BY <2>1 DEF IdsInv
<1>6. \A t \in Threads : \A i \in 1 .. Len(box[t]) : \A r \in serving' : box[t][i].answers # r.id
  <2> SUFFICES ASSUME NEW t \in Threads, NEW i \in 1 .. Len(box[t]), NEW r \in serving'
               PROVE  box[t][i].answers # r.id
    OBVIOUS
  <2>1. PICK k \in 1 .. Len(serverBox) : r = serverBox[k] /\ r.id # 0 OBVIOUS
  <2>2. box[t][i].answers # 0 => box[t][i].answers # serverBox[k].id BY DEF IdsInv
  <2> QED BY <2>1, <2>2
<1>7. IdsInv' BY <1>1, <1>2, <1>3, <1>4, <1>5, <1>6 DEF IdsInv
<1>8. ASSUME NEW id, NotUnderWay(id) PROVE NotUnderWay(id)'
  BY <1>8 DEF NotUnderWay
<1> QED BY <1>7, <1>8

LEMMA NextPlaceInv == PlaceInv /\ [Next]_vars => PlaceInv'
<1> SUFFICES ASSUME PlaceInv, [Next]_vars PROVE IdsInv' /\ NewInv'
  BY NextTypeOK, NextOwnInv DEF PlaceInv
<1>0. TypeOK /\ OwnInv /\ IdsInv /\ NewInv /\ CallsTyped /\ MailTyped /\ calls \in Nat
  BY TypeOKParts DEF PlaceInv, CallsTyped
<1>1. ASSUME UNCHANGED <<own, calls>>,
             \A u \in Threads : pc'[u] = "connected" => pc[u] = "connected",
             \A id : NotUnderWay(id) /\ id # 0 => NotUnderWay(id)'
      PROVE  NewInv'
  <2>1. ASSUME NEW u \in Threads, pc'[u] = "connected" PROVE NotUnderWay(own[u])'
    <3>1. own[u] # 0 /\ NotUnderWay(own[u]) BY <1>0, <1>1, <2>1 DEF OwnInv, NewInv
    <3>2. PICK id : id = own[u] OBVIOUS
    <3>3. NotUnderWay(id)' BY <1>1, <3>1, <3>2
    <3> QED BY <1>1, <3>2, <3>3 DEF NotUnderWay
  <2> QED BY <1>0, <1>1, <2>1 DEF NewInv
<1>2. ASSUME UNCHANGED <<box, serverBox, serving, own, calls>>,
             \A u \in Threads : pc'[u] = "connected" => pc[u] = "connected"
      PROVE  IdsInv' /\ NewInv'
  BY <1>0, <1>1, <1>2, SameMail
<1>3. ASSUME NEW t \in Threads, Connect(t) PROVE IdsInv' /\ NewInv'
  <2>1. /\ UNCHANGED <<box, serverBox, serving>> /\ calls' = calls + 1
        /\ own' = [own EXCEPT ![t] = calls + 1]
        /\ \A u \in Threads \ {t} : pc'[u] = pc[u]
    BY <1>0, <1>3 DEF Connect, End, serverVars, CallsTyped
  <2>2. IdsInv' BY <1>0, <2>1, SameMail
  <2>3. own'[t] = calls + 1 /\ \A u \in Threads \ {t} : own'[u] = own[u] /\ own[u] # calls + 1
    BY <1>0, <2>1 DEF CallsTyped, NewInv
  <2>4. NotUnderWay(calls + 1)
    <3>1. calls + 1 \notin 0 .. calls /\ 1 .. calls \subseteq 0 .. calls BY <1>0
    <3> QED BY <1>0, <3>1 DEF IdsInv, NotUnderWay
  <2>5. \A u \in Threads : own'[u] \in 0 .. calls' BY <1>0, <2>1, <2>3 DEF NewInv
  <2>6. \A u, v \in Threads : own'[u] = own'[v] /\ own'[u] # 0 => u = v
    BY <1>0, <2>3 DEF NewInv
  <2>7. ASSUME NEW u \in Threads, pc'[u] = "connected" PROVE NotUnderWay(own[u])'
    <3>1. CASE u = t BY <2>1, <2>3, <2>4, <3>1 DEF NotUnderWay
    <3>2. CASE u # t
      <4>1. NotUnderWay(own[u]) BY <1>0, <2>1, <2>7, <3>2 DEF NewInv
      <4> QED BY <2>1, <2>3, <3>2, <4>1 DEF NotUnderWay
    <3> QED BY <3>1, <3>2
  <2> QED BY <2>2, <2>5, <2>6, <2>7 DEF NewInv
<1>4. ASSUME NEW t \in Threads, Send(t) PROVE IdsInv' /\ NewInv'
  <2>1. /\ UNCHANGED <<box, serving, own, calls>>
        /\ pc[t] = "connected" /\ pc' = [pc EXCEPT ![t] = "sent"]
        /\ serverBox' = serverBox \/ serverBox' = Append(serverBox, Request(t))
    BY <1>4 DEF Send
  <2>2. \A u \in Threads : pc'[u] = "connected" => pc[u] = "connected" /\ u # t
    BY <1>0, <2>1 DEF CallsTyped
  <2>3. CASE serverBox' = serverBox BY <1>2, <2>1, <2>2, <2>3
  <2>4. CASE serverBox' = Append(serverBox, Request(t))
    <3>1. Request(t).id = own[t] /\ own[t] # 0 /\ own[t] \in 0 .. calls /\ NotUnderWay(own[t])
      BY <1>0, <2>1 DEF Request, OwnInv, NewInv
    <3>2. IdsInv' /\ \A id : NotUnderWay(id) /\ id # Request(t).id => NotUnderWay(id)'
      BY <1>0, <2>1, <2>4, <3>1, ServerBoxGrows, MoreServerMail
    <3>3. ASSUME NEW u \in Threads, pc'[u] = "connected" PROVE NotUnderWay(own[u])'
      <4>1. NotUnderWay(own[u]) /\ own[u] # own[t] BY <1>0, <2>2, <3>1, <3>3 DEF NewInv
      <4>2. PICK id : id = own[u] OBVIOUS
      <4>3. NotUnderWay(id)' BY <3>1, <3>2, <4>1, <4>2
      <4> QED BY <2>1, <4>2, <4>3 DEF NotUnderWay
    <3> QED BY <1>0, <2>1, <3>2, <3>3 DEF NewInv
  <2> QED BY <2>1, <2>3, <2>4
<1>5. ASSUME NEW t \in Threads, GiveUp(t) \/ Receive(t) PROVE IdsInv' /\ NewInv'
  <2>1. /\ UNCHANGED <<serverBox, serving, own, calls>>
        /\ \A u \in Threads : pc'[u] = "connected" => pc[u] = "connected"
    BY <1>0, <1>5 DEF GiveUp, Receive, End, serverVars, CallsTyped
  <2>2. PICK left : /\ box' = [box EXCEPT ![t] = left]
                    /\ \/ left \in Suffixes(box[t])
                       \/ box[t] # <<>> /\ left \in Suffixes(Tail(box[t]))
    BY <1>5 DEF GiveUp, Receive
  <2>3. PICK d \in Nat :
          /\ \A u \in Threads \ {t} : box'[u] = box[u]
          /\ \A i \in 1 .. Len(box'[t]) :
               i \in Nat /\ i + d \in 1 .. Len(box[t]) /\ box'[t][i] = box[t][i + d]
    BY <1>0, <2>2, BoxShrinks
  <2>4. IdsInv' /\ \A id : NotUnderWay(id) => NotUnderWay(id)'
    BY <1>0, <2>1, <2>3, LessMail
  <2> QED BY <1>1, <2>1, <2>4
<1>6. ASSUME NEW t \in Threads, Await(t) \/ Abort(t) PROVE IdsInv' /\ NewInv'
  BY <1>0, <1>2, <1>6 DEF Await, Abort, serverVars, CallsTyped
<1>7. CASE ServerReceive
  <2>1. /\ serverBox \in Seq(Requests) /\ serverBox # <<>> /\ serverBox' = Tail(serverBox)
        /\ serving' = {r \in {Head(serverBox)} : r.subject = "REQUEST" /\ r.id # 0}
        /\ UNCHANGED <<box, pc, own, calls>>
    BY <1>0, <1>7 DEF ServerReceive, OtherMessages, MailTyped, callVars
  <2>2. /\ Head(serverBox) = serverBox[1]
        /\ Len(serverBox) \in Nat \ {0}
        /\ Len(serverBox') = Len(serverBox) - 1
        /\ \A i \in 1 .. Len(serverBox) - 1 : serverBox'[i] = serverBox[i + 1]
    BY <2>1, TailType
  <2>3. \A i \in 1 .. Len(serverBox') :
          i \in Nat /\ i + 1 \in 1 .. Len(serverBox) /\ serverBox'[i] = serverBox[i + 1]
    BY <2>2
  <2>4. 1 \in 1 .. Len(serverBox) /\ 1 \in Nat /\ 1 # 0 BY <2>2
  <2>5. \A r \in serving' : r.id # 0 /\ r = serverBox[1] BY <2>1, <2>2
  <2>6. IdsInv' /\ \A id : NotUnderWay(id) => NotUnderWay(id)'
    BY <1>0, <2>1, <2>3, <2>4, <2>5, LessServerMail
  <2> QED BY <1>1, <2>1, <2>6
<1>8. CASE ServerAnswer
  <2>1. PICK r \in serving :
          /\ serving' = {}
          /\ \/ box' = [box EXCEPT ![r.from] = Append(@, Reply(r))]
             \/ box' = box
    BY <1>8 DEF ServerAnswer
  <2>2. UNCHANGED <<pc, own, calls, serverBox>> BY <1>8 DEF ServerAnswer, callVars
  <2>3. CASE box' = [box EXCEPT ![r.from] = Append(@, Reply(r))]
    <3>1. r.from \in Threads /\ Reply(r).answers = r.id BY <1>0 DEF MailTyped, Handled, Reply
    <3>2. IdsInv' /\ \A id : NotUnderWay(id) /\ id # 0 => NotUnderWay(id)'
      <4> DEFINE t == r.from
                 m == Reply(r)
      <4> HIDE DEF m
      <4>1. /\ \A u \in Threads \ {t} : box'[u] = box[u]
            /\ Len(box[t]) \in Nat
            /\ Len(box'[t]) = Len(box[t]) + 1
            /\ box'[t][Len(box[t]) + 1] = m
            /\ \A i \in 1 .. Len(box[t]) : box'[t][i] = box[t][i]
        BY <1>0, <2>3, <3>1, BoxGrows DEF m
      <4>2. serving' = {} /\ \E s \in serving : m.answers = s.id BY <2>1, <3>1 DEF m
      <4> HIDE DEF t
      <4>3. t \in Threads BY <3>1 DEF t
      <4> QED BY <1>0, <2>2, <4>1, <4>2, <4>3, MoreMail
    <3> QED BY <1>1, <2>2, <3>2
  <2>4. CASE box' = box
    <3>1. IdsInv' BY <1>0, <2>1, <2>2, <2>4 DEF IdsInv
    <3>2. \A id : NotUnderWay(id) => NotUnderWay(id)' BY <2>1, <2>2, <2>4 DEF NotUnderWay
    <3> QED BY <1>1, <2>2, <3>1, <3>2
  <2> QED BY <2>1, <2>3, <2>4
<1>9. CASE ServerStops
  <2>1. /\ serverBox \in Seq(Requests) /\ serverBox' \in Suffixes(serverBox)
        /\ serving' = {}
        /\ UNCHANGED <<pc, own, calls, box>>
    BY <1>0, <1>9 DEF ServerStops, MailTyped, callVars
  <2> DEFINE d == Len(serverBox) - Len(serverBox')
  <2>2. /\ Len(serverBox) \in Nat /\ Len(serverBox') \in Nat /\ d \in Nat
        /\ \A i \in 1 .. Len(serverBox') : serverBox'[i] = serverBox[i + d]
    BY <2>1, SuffixesType
  <2>3. \A i \in 1 .. Len(serverBox') :
          i \in Nat /\ i + d \in 1 .. Len(serverBox) /\ serverBox'[i] = serverBox[i + d]
    BY <2>2
  <2> HIDE DEF d
  <2>4. IdsInv' /\ \A id : NotUnderWay(id) => NotUnderWay(id)'
    BY <1>0, <2>1, <2>2, <2>3, LessServerMail
  <2> QED BY <1>1, <2>1, <2>4
<1>10. ASSUME NEW t \in Threads, StrayToClient(t) PROVE IdsInv' /\ NewInv'
  <2>1. /\ UNCHANGED <<pc, own, calls, serverBox, serving>>
        /\ box' = [box EXCEPT ![t] = Append(@, StrayReply)]
    BY <1>10 DEF StrayToClient, callVars, serverVars
  <2>2. StrayReply.answers = 0 BY DEF StrayReply
  <2>3. /\ \A u \in Threads \ {t} : box'[u] = box[u]
        /\ Len(box[t]) \in Nat
        /\ Len(box'[t]) = Len(box[t]) + 1
        /\ box'[t][Len(box[t]) + 1] = StrayReply
        /\ \A i \in 1 .. Len(box[t]) : box'[t][i] = box[t][i]
    BY <1>0, <2>1, BoxGrows
  <2>4. IdsInv' /\ \A id : NotUnderWay(id) /\ id # 0 => NotUnderWay(id)'
    BY <1>0, <2>1, <2>2, <2>3, MoreMail
  <2> QED BY <1>1, <2>1, <2>4
<1>11. ASSUME NEW t \in Threads, StrayToServer(t) PROVE IdsInv' /\ NewInv'
  <2>1. PICK m \in StrayRequests(t) : serverBox' = Append(serverBox, m)
    BY <1>11 DEF StrayToServer
  <2>2. UNCHANGED <<pc, own, calls, box, serving>> BY <1>11 DEF StrayToServer, callVars
  <2>3. m.id = 0 /\ m.id \in 0 .. calls BY <1>0, <2>1 DEF StrayRequests
  <2>4. IdsInv' /\ \A id : NotUnderWay(id) /\ id # m.id => NotUnderWay(id)'
    BY <1>0, <2>1, <2>2, <2>3, ServerBoxGrows, MoreServerMail
  <2> QED BY <1>1, <2>2, <2>3, <2>4
<1>12. CASE ServerStarts \/ Interrupt \/ UNCHANGED vars
  BY <1>2, <1>12 DEF ServerStarts, Interrupt, vars, callVars, serverVars
<1> QED
  BY <1>3, <1>4, <1>5, <1>6, <1>7, <1>8, <1>9, <1>10, <1>11, <1>12 DEF Next, CallStep

-----------------------------------------------------------------------------
\* The calls implement RequestReply

Asks == ({serverBox[i].id : i \in 1 .. Len(serverBox)} \cup {r.id : r \in serving}) \ {0}

AnswersIn(b) == UNION {{b[t][i].answers : i \in 1 .. Len(b[t])} : t \in Threads}

Answered == AnswersIn(box) \ {0}

Stages == [t \in Threads |-> Stage(t)]

LEMMA InAsks ==
  \A id : id \in Asks <=>
    /\ id # 0
    /\ \/ \E i \in 1 .. Len(serverBox) : serverBox[i].id = id
       \/ \E r \in serving : r.id = id
BY DEF Asks

LEMMA InAnswersIn ==
  \A b, id : id \in AnswersIn(b) <=>
    \E t \in Threads : \E i \in 1 .. Len(b[t]) : b[t][i].answers = id
<1> SUFFICES ASSUME NEW b, NEW id
             PROVE  id \in AnswersIn(b) <=>
                      \E t \in Threads : \E i \in 1 .. Len(b[t]) : b[t][i].answers = id
  OBVIOUS
<1> DEFINE Of(t) == {b[t][i].answers : i \in 1 .. Len(b[t])}
<1>1. \A t : id \in Of(t) <=> \E i \in 1 .. Len(b[t]) : b[t][i].answers = id
  OBVIOUS
<1> HIDE DEF Of
<1>2. id \in UNION {Of(t) : t \in Threads} <=> \E t \in Threads : id \in Of(t)
  OBVIOUS
<1>3. id \in UNION {Of(t) : t \in Threads} <=>
        \E t \in Threads : \E i \in 1 .. Len(b[t]) : b[t][i].answers = id
  BY <1>1, <1>2
<1> QED BY <1>3 DEF Of, AnswersIn

LEMMA InAnswered ==
  \A id :
    /\ id \in Answered <=>
         id # 0 /\ \E t \in Threads : \E i \in 1 .. Len(box[t]) : box[t][i].answers = id
    /\ id \in Answered' <=>
         id # 0 /\ \E t \in Threads : \E i \in 1 .. Len(box'[t]) : box'[t][i].answers = id
BY InAnswersIn DEF Answered

LEMMA StageIs ==
  \A t \in Threads :
    /\ pc[t] = "connected" => Stages[t] = "asking"
    /\ pc[t] \in {"sent", "waiting"} => Stages[t] = "waiting"
    /\ pc[t] = "idle" /\ result[t].how = "returned" => Stages[t] = "reply"
    /\ pc[t] = "idle" /\ result[t].how # "returned" => Stages[t] = "none"
    /\ pc[t] = "aborted" => Stages[t] = "none"
BY DEF Stages, Stage

LEMMA StageWillBe ==
  \A t \in Threads :
    /\ pc'[t] = "connected" => Stages'[t] = "asking"
    /\ pc'[t] \in {"sent", "waiting"} => Stages'[t] = "waiting"
    /\ pc'[t] = "idle" /\ result'[t].how = "returned" => Stages'[t] = "reply"
    /\ pc'[t] = "idle" /\ result'[t].how # "returned" => Stages'[t] = "none"
    /\ pc'[t] = "aborted" => Stages'[t] = "none"
    /\ UNCHANGED <<pc[t], result[t]>> => Stages'[t] = Stages[t]
BY DEF Stages, Stage

\* Only the stage of t changes.
LEMMA StageStep ==
  ASSUME NEW t \in Threads, \A u \in Threads \ {t} : UNCHANGED <<pc[u], result[u]>>
  PROVE  \A s : Stages'[t] = s => Stages' = [Stages EXCEPT ![t] = s]
<1>1. \A u \in Threads \ {t} : Stages'[u] = Stages[u] BY StageWillBe
<1>2. DOMAIN Stages = Threads /\ Stages = [u \in Threads |-> Stages[u]] BY DEF Stages
<1>3. Stages' = [u \in Threads |-> Stages'[u]] BY DEF Stages
<1> HIDE DEF Stages
<1> QED BY <1>1, <1>2, <1>3

\* What the steps of SyncRequest are to RequestReply.
LEMMA StepsAreRequestReply ==
  ASSUME Stages' \in [Threads -> {"asking", "waiting", "reply", "none"}],
         Stages \in [Threads -> {"asking", "waiting", "reply", "none"}]
  PROVE
  /\ \A t \in Threads :
       /\ Stages[t] \in {"reply", "none"}
       /\ \E s \in {"asking", "none"} : Stages' = [Stages EXCEPT ![t] = s]
       /\ calls \in Nat /\ calls < MaxCalls /\ calls' = calls + 1
       /\ own' = [own EXCEPT ![t] = calls']
       /\ UNCHANGED <<Asks, Answered>>
       => Promise!Next
  /\ \A t \in Threads :
       /\ Stages[t] = "asking" /\ Stages' = [Stages EXCEPT ![t] = "waiting"]
       /\ Asks' \in {Asks, Asks \cup {own[t]}}
       /\ UNCHANGED <<own, calls, Answered>>
       => Promise!Next
  /\ \A t \in Threads :
       /\ Stages[t] = "waiting" /\ Stages' = [Stages EXCEPT ![t] = "reply"]
       /\ own[t] \in Answered /\ Answered' \subseteq Answered \ {own[t]}
       /\ UNCHANGED <<own, calls, Asks>>
       => Promise!Next
  /\ \A callers \in SUBSET Threads :
       /\ Stages' = [c \in Threads |-> IF c \in callers THEN "none" ELSE Stages[c]]
       /\ Answered' \subseteq Answered
       /\ UNCHANGED <<own, calls, Asks>>
       => Promise!Next
  /\ /\ \E r \in Asks : Asks' = Asks \ {r} /\ Answered' = Answered \cup {r}
     /\ UNCHANGED <<own, calls, Stages>>
     => Promise!Next
  /\ Asks' \subseteq Asks /\ UNCHANGED <<own, calls, Stages, Answered>> => Promise!Next
  /\ UNCHANGED <<own, calls, Stages, Asks, Answered>> => UNCHANGED Promise!vars
<1>1. ASSUME NEW t \in Threads,
             Stages[t] \in {"reply", "none"},
             \E s \in {"asking", "none"} : Stages' = [Stages EXCEPT ![t] = s],
             calls \in Nat, calls < MaxCalls, calls' = calls + 1,
             own' = [own EXCEPT ![t] = calls'],
             UNCHANGED <<Asks, Answered>>
      PROVE  Promise!Next
  <2>1. /\ calls' \in CallIds \ (1 .. calls)
        /\ 1 .. calls' = (1 .. calls) \cup {calls'}
    BY <1>1, SyncAssumption DEF CallIds
  <2>2. Promise!Begin(t)
    BY <1>1, <2>1 DEF Promise!Begin, Promise!Busy, Stages, Asks, Answered, AnswersIn
  <2> QED BY <2>2 DEF Promise!Next
<1>2. ASSUME NEW t \in Threads,
             Stages[t] = "asking", Stages' = [Stages EXCEPT ![t] = "waiting"],
             Asks' \in {Asks, Asks \cup {own[t]}},
             UNCHANGED <<own, calls, Answered>>
      PROVE  Promise!Next
  <2>1. Promise!Send(t) BY <1>2 DEF Promise!Send, Stages, Asks, Answered, AnswersIn
  <2> QED BY <2>1 DEF Promise!Next
<1>3. ASSUME NEW t \in Threads,
             Stages[t] = "waiting", Stages' = [Stages EXCEPT ![t] = "reply"],
             own[t] \in Answered, Answered' \subseteq Answered \ {own[t]},
             UNCHANGED <<own, calls, Asks>>
      PROVE  Promise!Next
  <2>1. Promise!Return(t) BY <1>3 DEF Promise!Return, Stages, Asks, Answered, AnswersIn
  <2> QED BY <2>1 DEF Promise!Next
<1>4. ASSUME NEW callers \in SUBSET Threads,
             Stages' = [c \in Threads |-> IF c \in callers THEN "none" ELSE Stages[c]],
             Answered' \subseteq Answered,
             UNCHANGED <<own, calls, Asks>>
      PROVE  Promise!Next
  <2>1. Promise!GiveUp(callers) BY <1>4 DEF Promise!GiveUp, Stages, Asks, Answered, AnswersIn
  <2> QED BY <2>1 DEF Promise!Next
<1>5. ASSUME \E r \in Asks : Asks' = Asks \ {r} /\ Answered' = Answered \cup {r},
             UNCHANGED <<own, calls, Stages>>
      PROVE  Promise!Next
  <2>1. Promise!Answer BY <1>5 DEF Promise!Answer, Stages, Asks, Answered, AnswersIn
  <2> QED BY <2>1 DEF Promise!Next
<1>6. ASSUME Asks' \subseteq Asks, UNCHANGED <<own, calls, Stages, Answered>>
      PROVE  Promise!Next
  <2>1. Promise!Lose BY <1>6 DEF Promise!Lose, Stages, Asks, Answered, AnswersIn
  <2> QED BY <2>1 DEF Promise!Next
<1>7. ASSUME UNCHANGED <<own, calls, Stages, Asks, Answered>> PROVE UNCHANGED Promise!vars
  BY <1>7 DEF Promise!vars, Stages, Asks, Answered, AnswersIn
<1> QED BY <1>1, <1>2, <1>3, <1>4, <1>5, <1>6, <1>7

LEMMA NextIsRequestReply == PlaceInv /\ PlaceInv' /\ [Next]_vars => [Promise!Next]_Promise!vars
<1> SUFFICES ASSUME PlaceInv, PlaceInv', [Next]_vars PROVE Promise!Next \/ UNCHANGED Promise!vars
  OBVIOUS
<1>0. /\ TypeOK /\ OwnInv /\ IdsInv /\ NewInv /\ CallsTyped /\ MailTyped /\ calls \in Nat
      /\ CallsTyped' /\ MailTyped'
  <2>1. TypeOK' /\ (TypeOK' => CallsTyped' /\ MailTyped') BY TypeOKParts, PTL DEF PlaceInv
  <2> QED BY <2>1, TypeOKParts DEF PlaceInv, CallsTyped
<1>1. /\ Stages \in [Threads -> {"asking", "waiting", "reply", "none"}]
      /\ Stages' \in [Threads -> {"asking", "waiting", "reply", "none"}]
  BY DEF Stages, Stage
<1>2. ASSUME UNCHANGED <<box, serverBox, serving>> PROVE UNCHANGED <<Asks, Answered>>
  BY <1>2 DEF Asks, Answered, AnswersIn
<1>3. ASSUME \A t \in Threads : UNCHANGED <<pc[t], result[t]>> PROVE UNCHANGED Stages
  <2>1. \A t \in Threads : Stages'[t] = Stages[t] BY <1>3, StageWillBe
  <2> QED BY <1>1, <2>1
<1>4. ASSUME NEW t \in Threads, Connect(t) PROVE Promise!Next
  <2>1. /\ UNCHANGED <<box, serverBox, serving>>
        /\ pc[t] = "idle" /\ calls < MaxCalls /\ calls' = calls + 1
        /\ own' = [own EXCEPT ![t] = calls']
        /\ \A u \in Threads \ {t} : UNCHANGED <<pc[u], result[u]>>
        /\ pc'[t] = "connected" \/ (pc'[t] = "idle" /\ result'[t].how # "returned")
    BY <1>0, <1>4 DEF Connect, End, serverVars, CallsTyped
  <2>2. Stages[t] \in {"reply", "none"} /\ Stages'[t] \in {"asking", "none"}
    BY <2>1, StageIs, StageWillBe
  <2>3. \E s \in {"asking", "none"} : Stages' = [Stages EXCEPT ![t] = s]
    BY <2>1, <2>2, StageStep
  <2> QED BY <1>0, <1>1, <1>2, <2>1, <2>2, <2>3, StepsAreRequestReply
<1>5. ASSUME NEW t \in Threads, Send(t) PROVE Promise!Next
  <2>1. /\ UNCHANGED <<box, serving, own, calls>>
        /\ pc[t] = "connected" /\ pc'[t] = "sent"
        /\ \A u \in Threads \ {t} : UNCHANGED <<pc[u], result[u]>>
        /\ serverBox' = serverBox \/ serverBox' = Append(serverBox, Request(t))
    BY <1>0, <1>5 DEF Send, CallsTyped
  <2>2. Stages[t] = "asking" /\ Stages' = [Stages EXCEPT ![t] = "waiting"]
    BY <2>1, StageIs, StageWillBe, StageStep
  <2>3. Answered' = Answered BY <2>1 DEF Answered
  <2>4. Asks' \in {Asks, Asks \cup {own[t]}}
    <3>1. CASE serverBox' = serverBox BY <2>1, <3>1 DEF Asks
    <3>2. CASE serverBox' = Append(serverBox, Request(t))
      <4>1. /\ Len(serverBox) \in Nat
            /\ Len(serverBox') = Len(serverBox) + 1
            /\ serverBox'[Len(serverBox) + 1].id = own[t]
            /\ \A i \in 1 .. Len(serverBox) : serverBox'[i] = serverBox[i]
        BY <1>0, <3>2, ServerBoxGrows DEF Request
      <4>2. {serverBox'[i].id : i \in 1 .. Len(serverBox')}
              = {serverBox[i].id : i \in 1 .. Len(serverBox)} \cup {own[t]}
        BY <4>1
      <4>3. own[t] # 0 BY <1>0, <2>1 DEF OwnInv
      <4> QED BY <2>1, <4>2, <4>3 DEF Asks
    <3> QED BY <2>1, <3>1, <3>2
  <2> QED BY <1>1, <2>1, <2>2, <2>3, <2>4, StepsAreRequestReply
<1>6. ASSUME NEW t \in Threads, GiveUp(t) \/ Receive(t) PROVE Promise!Next
  <2>1. /\ UNCHANGED <<serverBox, serving, own, calls>>
        /\ \A u \in Threads \ {t} : UNCHANGED <<pc[u], result[u]>>
    BY <1>0, <1>6 DEF GiveUp, Receive, End, serverVars, CallsTyped
  <2>2. Asks' = Asks BY <2>1 DEF Asks
  <2>3. PICK left : /\ box' = [box EXCEPT ![t] = left]
                    /\ \/ GiveUp(t) /\ left \in Suffixes(box[t])
                       \/ Receive(t) /\ box[t] # <<>> /\ left \in Suffixes(Tail(box[t]))
    BY <1>6 DEF GiveUp, Receive
  <2>4. PICK d \in Nat :
          /\ box[t] # <<>> /\ left \in Suffixes(Tail(box[t])) => d # 0
          /\ \A u \in Threads \ {t} : box'[u] = box[u]
          /\ \A i \in 1 .. Len(box'[t]) :
               i \in Nat /\ i + d \in 1 .. Len(box[t]) /\ box'[t][i] = box[t][i + d]
    BY <1>0, <2>3, BoxShrinks
  <2>5. Answered' \subseteq Answered
    <3> SUFFICES ASSUME NEW id \in Answered' PROVE id \in Answered
      OBVIOUS
    <3>1. PICK u \in Threads : \E i \in 1 .. Len(box'[u]) : box'[u][i].answers = id
      BY InAnswered
    <3>2. \E i \in 1 .. Len(box[u]) : box[u][i].answers = id
      <4>1. CASE u = t BY <2>4, <3>1, <4>1
      <4>2. CASE u # t BY <2>4, <3>1, <4>2
      <4> QED BY <4>1, <4>2
    <3>3. id # 0 BY InAnswered
    <3> QED BY <3>2, <3>3, InAnswered
  <2>6. ASSUME pc'[t] = "idle", result'[t].how # "returned" PROVE Promise!Next
    <3>1. Stages'[t] = "none" /\ \A u \in Threads \ {t} : Stages'[u] = Stages[u]
      BY <2>1, <2>6, StageWillBe
    <3>2. Stages' = [u \in Threads |-> IF u \in {t} THEN "none" ELSE Stages[u]]
      BY <1>1, <3>1
    <3>3. {t} \in SUBSET Threads OBVIOUS
    <3> QED BY <1>1, <2>1, <2>2, <2>5, <3>2, <3>3, StepsAreRequestReply
  <2>7. CASE GiveUp(t)
    <3>1. pc'[t] = "idle" /\ result'[t].how # "returned"
      BY <1>0, <2>7 DEF GiveUp, End, CallsTyped
    <3> QED BY <2>6, <3>1
  <2>8. CASE Receive(t) /\ box[t] # <<>> /\ left \in Suffixes(Tail(box[t]))
    <3>1. /\ box[t] \in Seq(Truthful) /\ Head(box[t]) = box[t][1]
          /\ 1 \in 1 .. Len(box[t]) /\ Head(box[t]) \in Truthful
      BY <1>0, <2>8, TailType DEF OwnInv
    <3>2. pc[t] = "waiting" /\ own[t] # 0 BY <1>0, <2>8 DEF Receive, OwnInv
    <3>3. CASE IsReply(t, Head(box[t]))
      <4>1. pc'[t] = "idle" /\ result'[t].how = "returned"
        BY <1>0, <2>8, <3>3 DEF Receive, End, CallsTyped
      <4>2. Stages[t] = "waiting" /\ Stages' = [Stages EXCEPT ![t] = "reply"]
        BY <2>1, <3>2, <4>1, StageIs, StageWillBe, StageStep
      <4>3. box[t][1].answers = own[t] BY <3>1, <3>2, <3>3 DEF IsReply, Truthful
      <4>4. own[t] \in Answered BY <3>1, <3>2, <4>3, InAnswered
      <4>5. ASSUME NEW u \in Threads, NEW i \in 1 .. Len(box'[u]), box'[u][i].answers = own[t]
            PROVE  FALSE
        <5>1. CASE u = t
          <6>1. i + d \in 1 .. Len(box[t]) /\ box[t][i + d].answers = own[t]
            BY <2>4, <4>5, <5>1
          <6>2. i + d = 1 BY <1>0, <3>1, <3>2, <4>3, <6>1 DEF IdsInv
          <6> QED BY <2>4, <2>8, <6>2
        <5>2. CASE u # t
          <6>1. i \in 1 .. Len(box[u]) /\ box[u][i].answers = own[t] BY <2>4, <4>5, <5>2
          <6> QED BY <1>0, <3>1, <3>2, <4>3, <5>2, <6>1 DEF IdsInv
        <5> QED BY <5>1, <5>2
      <4>6. own[t] \notin Answered'
        <5>1. own[t] \in Answered' => \E u \in Threads : \E i \in 1 .. Len(box'[u]) :
                box'[u][i].answers = own[t]
          BY InAnswered
        <5> QED BY <4>5, <5>1
      <4> QED BY <1>1, <2>1, <2>2, <2>5, <4>2, <4>4, <4>6, StepsAreRequestReply
    <3>4. CASE ~IsReply(t, Head(box[t]))
      <4>1. pc'[t] = "idle" /\ result'[t].how # "returned"
        BY <1>0, <2>8, <3>4 DEF Receive, End, CallsTyped
      <4> QED BY <2>6, <4>1
    <3> QED BY <3>3, <3>4
  <2> QED BY <2>3, <2>7, <2>8
<1>7. ASSUME NEW t \in Threads, Await(t) PROVE UNCHANGED Promise!vars
  <2>1. /\ UNCHANGED <<own, calls, box, serverBox, serving>>
        /\ pc[t] = "sent" /\ pc'[t] = "waiting"
        /\ \A u \in Threads \ {t} : UNCHANGED <<pc[u], result[u]>>
    BY <1>0, <1>7 DEF Await, serverVars, CallsTyped
  <2>2. \A u \in Threads : Stages'[u] = Stages[u]
    BY <2>1, StageIs, StageWillBe
  <2>3. Stages' = Stages BY <1>1, <2>2
  <2> QED BY <1>1, <1>2, <2>1, <2>3, StepsAreRequestReply
<1>8. ASSUME NEW t \in Threads, Abort(t) PROVE Promise!Next
  <2>1. /\ UNCHANGED <<own, calls, box, serverBox, serving>>
        /\ \A u \in Threads : pc'[u] = "aborted"
    BY <1>0, <1>8 DEF Abort, serverVars
  <2>2. \A u \in Threads : Stages'[u] = "none" BY <2>1, StageWillBe
  <2>3. Stages' = [u \in Threads |-> IF u \in Threads THEN "none" ELSE Stages[u]]
    BY <1>1, <2>2
  <2>4. Threads \in SUBSET Threads OBVIOUS
  <2> QED BY <1>1, <1>2, <2>1, <2>3, <2>4, StepsAreRequestReply
<1>9. ASSUME UNCHANGED <<callVars, box>>, Asks' \subseteq Asks PROVE Promise!Next
  <2>1. UNCHANGED <<own, calls, Stages, Answered>>
    BY <1>3, <1>9 DEF callVars, Answered
  <2> QED BY <1>1, <1>9, <2>1, StepsAreRequestReply
<1>10. CASE ServerReceive
  <2>1. /\ serverBox \in Seq(Requests) /\ serverBox # <<>> /\ serverBox' = Tail(serverBox)
        /\ serving' \subseteq {Head(serverBox)}
        /\ UNCHANGED <<callVars, box>>
    BY <1>0, <1>10 DEF ServerReceive, OtherMessages, MailTyped
  <2>2. /\ Head(serverBox) = serverBox[1]
        /\ Len(serverBox) \in Nat \ {0}
        /\ Len(serverBox') = Len(serverBox) - 1
        /\ \A i \in 1 .. Len(serverBox) - 1 : serverBox'[i] = serverBox[i + 1]
    BY <2>1, TailType
  <2>3. \A i \in 1 .. Len(serverBox') : \E k \in 1 .. Len(serverBox) : serverBox'[i] = serverBox[k]
    <3> SUFFICES ASSUME NEW i \in 1 .. Len(serverBox')
                 PROVE  \E k \in 1 .. Len(serverBox) : serverBox'[i] = serverBox[k]
      OBVIOUS
    <3>1. i + 1 \in 1 .. Len(serverBox) /\ serverBox'[i] = serverBox[i + 1] BY <2>2
    <3> QED BY <3>1
  <2>4. \A r \in serving' : \E k \in 1 .. Len(serverBox) : r = serverBox[k]
    <3>1. 1 \in 1 .. Len(serverBox) BY <2>2
    <3> QED BY <2>1, <2>2, <3>1
  <2>5. Asks' \subseteq Asks BY <2>3, <2>4 DEF Asks
  <2> QED BY <1>9, <2>1, <2>5
<1>11. CASE ServerAnswer
  <2>1. PICK r \in serving :
          /\ serving' = {}
          /\ \/ box' = [box EXCEPT ![r.from] = Append(@, Reply(r))]
             \/ box' = box
    BY <1>11 DEF ServerAnswer
  <2>2. UNCHANGED <<callVars, serverBox>> BY <1>11 DEF ServerAnswer
  <2>3. CASE box' = [box EXCEPT ![r.from] = Append(@, Reply(r))]
    <3>1. r.from \in Threads /\ Reply(r).answers = r.id /\ r.id # 0
      BY <1>0 DEF MailTyped, Handled, CallIds, Reply
    <3> DEFINE t == r.from
    <3>2. /\ t \in Threads
          /\ \A u \in Threads \ {t} : box'[u] = box[u]
          /\ Len(box[t]) \in Nat
          /\ Len(box'[t]) = Len(box[t]) + 1
          /\ box'[t][Len(box[t]) + 1].answers = r.id
          /\ \A i \in 1 .. Len(box[t]) : box'[t][i] = box[t][i]
      BY <1>0, <2>3, <3>1, BoxGrows
    <3> HIDE DEF t
    <3>3. ASSUME NEW id
          PROVE  (\E u \in Threads : \E i \in 1 .. Len(box'[u]) : box'[u][i].answers = id)
                   <=> \/ \E u \in Threads : \E i \in 1 .. Len(box[u]) : box[u][i].answers = id
                       \/ id = r.id
      <4>1. \A u \in Threads : \A i \in 1 .. Len(box'[u]) :
              \/ i \in 1 .. Len(box[u]) /\ box'[u][i] = box[u][i]
              \/ u = t /\ i = Len(box[t]) + 1
        BY <3>2
      <4>2. \A u \in Threads : \A i \in 1 .. Len(box[u]) :
              i \in 1 .. Len(box'[u]) /\ box'[u][i] = box[u][i]
        BY <3>2
      <4>3. Len(box[t]) + 1 \in 1 .. Len(box'[t]) BY <3>2
      <4>4. (\E u \in Threads : \E i \in 1 .. Len(box'[u]) : box'[u][i].answers = id) =>
              \/ \E u \in Threads : \E i \in 1 .. Len(box[u]) : box[u][i].answers = id
              \/ id = r.id
        BY <3>2, <4>1
      <4>5. (\E u \in Threads : \E i \in 1 .. Len(box[u]) : box[u][i].answers = id) =>
              \E u \in Threads : \E i \in 1 .. Len(box'[u]) : box'[u][i].answers = id
        BY <4>2
      <4> QED BY <3>2, <4>3, <4>4, <4>5
    <3>4. ASSUME NEW id PROVE id \in Answered' <=> id \in Answered \cup {r.id}
      <4>1. id \in Answered' <=> id # 0 /\ \E u \in Threads : \E i \in 1 .. Len(box'[u]) : box'[u][i].answers = id
        BY InAnswered
      <4> QED BY <3>1, <3>3, <4>1, InAnswered
    <3>5. Answered' = Answered \cup {r.id} BY <3>4
    <3>6. r.id \in Asks /\ Asks' = Asks \ {r.id}
      <4>1. \A i \in 1 .. Len(serverBox) : serverBox[i].id # r.id BY <1>0 DEF IdsInv
      <4>2. \A s \in serving : s = r BY <1>0 DEF IdsInv
      <4> QED BY <2>1, <2>2, <3>1, <4>1, <4>2 DEF Asks
    <3>7. UNCHANGED <<own, calls, Stages>> BY <1>3, <2>2 DEF callVars
    <3> QED BY <1>1, <3>5, <3>6, <3>7, StepsAreRequestReply
  <2>4. CASE box' = box
    <3>1. Asks' \subseteq Asks BY <2>1, <2>2 DEF Asks
    <3> QED BY <1>9, <2>2, <2>4, <3>1
  <2> QED BY <2>1, <2>3, <2>4
<1>12. CASE ServerStops
  <2>1. /\ serverBox \in Seq(Requests) /\ serverBox' \in Suffixes(serverBox)
        /\ serving' = {}
        /\ UNCHANGED <<callVars, box>>
    BY <1>0, <1>12 DEF ServerStops, MailTyped
  <2>2. \A i \in 1 .. Len(serverBox') : \E k \in 1 .. Len(serverBox) : serverBox'[i] = serverBox[k]
    <3> SUFFICES ASSUME NEW i \in 1 .. Len(serverBox')
                 PROVE  \E k \in 1 .. Len(serverBox) : serverBox'[i] = serverBox[k]
      OBVIOUS
    <3> DEFINE k == i + (Len(serverBox) - Len(serverBox'))
    <3>1. /\ serverBox' \in Seq(Requests) /\ Len(serverBox') <= Len(serverBox)
          /\ serverBox'[i] = serverBox[k]
      BY <2>1, SuffixesType
    <3>2. Len(serverBox') \in Nat /\ Len(serverBox) \in Nat BY <2>1, <3>1
    <3>3. k \in 1 .. Len(serverBox) BY <3>1, <3>2
    <3> QED BY <3>1, <3>3
  <2>3. Asks' \subseteq Asks BY <2>1, <2>2 DEF Asks
  <2> QED BY <1>9, <2>1, <2>3
<1>13. ASSUME NEW t \in Threads, StrayToClient(t) PROVE UNCHANGED Promise!vars
  <2>1. /\ UNCHANGED <<callVars, serverBox, serving>>
        /\ box' = [box EXCEPT ![t] = Append(@, StrayReply)]
    BY <1>13 DEF StrayToClient, serverVars
  <2>2. /\ \A u \in Threads \ {t} : box'[u] = box[u]
        /\ Len(box[t]) \in Nat
        /\ Len(box'[t]) = Len(box[t]) + 1
        /\ box'[t][Len(box[t]) + 1].answers = 0
        /\ \A i \in 1 .. Len(box[t]) : box'[t][i] = box[t][i]
    <3>1. StrayReply.answers = 0 BY DEF StrayReply
    <3> QED BY <1>0, <2>1, <3>1, BoxGrows
  <2>3. \A u \in Threads : \A i \in 1 .. Len(box'[u]) :
          box'[u][i].answers = 0 \/ (i \in 1 .. Len(box[u]) /\ box'[u][i] = box[u][i])
    BY <2>2
  <2>4. \A u \in Threads : \A i \in 1 .. Len(box[u]) :
          i \in 1 .. Len(box'[u]) /\ box'[u][i] = box[u][i]
    BY <2>2
  <2>5. ASSUME NEW id PROVE id \in Answered' <=> id \in Answered
    <3>1. id \in Answered' <=> id # 0 /\ \E u \in Threads : \E i \in 1 .. Len(box'[u]) : box'[u][i].answers = id
      BY InAnswered
    <3> QED BY <2>3, <2>4, <3>1, InAnswered
  <2>6. Answered' = Answered BY <2>5
  <2>7. UNCHANGED <<own, calls, Stages, Asks>> BY <1>3, <2>1 DEF callVars, Asks
  <2> QED BY <1>1, <2>6, <2>7, StepsAreRequestReply
<1>14. ASSUME NEW t \in Threads, StrayToServer(t) PROVE UNCHANGED Promise!vars
  <2>1. PICK m \in StrayRequests(t) : serverBox' = Append(serverBox, m)
    BY <1>14 DEF StrayToServer
  <2>2. UNCHANGED <<callVars, box, serving>> BY <1>14 DEF StrayToServer
  <2>3. /\ Len(serverBox) \in Nat
        /\ Len(serverBox') = Len(serverBox) + 1
        /\ serverBox'[Len(serverBox) + 1].id = 0
        /\ \A i \in 1 .. Len(serverBox) : serverBox'[i] = serverBox[i]
    BY <1>0, <2>1, ServerBoxGrows DEF StrayRequests
  <2>4. {serverBox'[i].id : i \in 1 .. Len(serverBox')}
          = {serverBox[i].id : i \in 1 .. Len(serverBox)} \cup {0}
    BY <2>3
  <2>5. Asks' = Asks BY <2>2, <2>4 DEF Asks
  <2>6. UNCHANGED <<own, calls, Stages, Answered>> BY <1>3, <2>2 DEF callVars, Answered
  <2> QED BY <1>1, <2>5, <2>6, StepsAreRequestReply
<1>15. CASE ServerStarts \/ Interrupt \/ UNCHANGED vars
  <2>1. UNCHANGED <<callVars, box, serverBox, serving>>
    BY <1>15 DEF ServerStarts, Interrupt, vars, serverVars
  <2>2. UNCHANGED <<own, calls, Stages, Asks, Answered>> BY <1>2, <1>3, <2>1 DEF callVars
  <2> QED BY <1>1, <2>2, StepsAreRequestReply
<1> QED
  BY <1>4, <1>5, <1>6, <1>7, <1>8, <1>10, <1>11, <1>12, <1>13, <1>14, <1>15 DEF Next, CallStep

(***************************************************************************)
(* For any number of threads, calls and strays, and any faults: each       *)
(* request is answered at most once, and syncRequestWithReply() returns    *)
(* the answer to its own, once.                                            *)
(***************************************************************************)
THEOREM CallsKeepRequestReply == Spec => RequestReplySpec
<1>1. Init => PlaceInv /\ Promise!Init
  <2> SUFFICES ASSUME Init PROVE PlaceInv /\ Promise!Init
    OBVIOUS
  <2>1. /\ Len(serverBox) = 0 /\ serving = {} /\ calls = 0
        /\ own = [t \in Threads |-> 0]
        /\ \A t \in Threads :
             pc[t] = "idle" /\ result[t].how = "none" /\ box[t] = <<>> /\ Len(box[t]) = 0 /\ own[t] = 0
    BY DEF Init
  <2>2. OwnInv
    <3>1. <<>> \in Seq(Truthful) OBVIOUS
    <3> QED BY <3>1 DEF Init, OwnInv, OwnReply
  <2>3. IdsInv BY <2>1 DEF IdsInv
  <2>4. NewInv BY <2>1 DEF NewInv
  <2>5. Stages = [t \in Threads |-> "none"] BY <2>1 DEF Stages, Stage
  <2>6. 1 .. calls = {} BY <2>1
  <2>7. Asks = {} BY <2>1 DEF Asks
  <2>8. Answered = {} BY <2>1, InAnswered
  <2>9. Promise!Init BY <2>1, <2>5, <2>6, <2>7, <2>8 DEF Promise!Init, Stages, Asks, Answered, AnswersIn
  <2> QED BY <2>2, <2>3, <2>4, <2>9, InitTypeOK DEF PlaceInv
<1> QED
  BY <1>1, NextPlaceInv, NextIsRequestReply, PTL DEF Spec, SafetySpec, RequestReplySpec, Promise!Spec
=============================================================================
