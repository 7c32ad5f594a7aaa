---------------------------- MODULE SyncRequest -----------------------------
(***************************************************************************)
(* MlmSyncClient::syncRequestWithReply()                                   *)
(* (src/fty_common_mlm_sync_client.cc) in the threads of a process, and    *)
(* MlmBasicMailboxServer::handleMailbox()                                  *)
(* (src/fty_common_mlm_basic_mailbox_server.cc) in the process it asks,    *)
(* with the mailboxes of the Malamute broker between them.                 *)
(*                                                                         *)
(* A call connects as <client id>.<thread id>, so all calls of a thread    *)
(* use one mailbox. A request carries a new uuid, its correlation id: here *)
(* the number of the call. 0 stands for any other id, or none.             *)
(***************************************************************************)
EXTENDS Integers, Sequences

CONSTANTS
  Threads,    \* threads that call syncRequestWithReply()
  MaxCalls,   \* bound: calls in a behaviour
  MaxStrays,  \* bound: messages others send to a mailbox in a behaviour
  Faults      \* what may go wrong, see FaultKinds

(***************************************************************************)
(* connect:   mlm_client_new() or mlm_client_connect() fails               *)
(* send:      mlm_client_sendto() of the request fails                     *)
(* reply:     mlm_client_sendto() of the reply fails                       *)
(* refuse:    handleRequest() throws or has no results                     *)
(* stop:      the server's agent ends, and may be started again            *)
(* interrupt: the clients' process receives a signal                       *)
(***************************************************************************)
FaultKinds == {"connect", "send", "reply", "refuse", "stop", "interrupt"}

ASSUME SyncAssumption ==
  /\ MaxCalls \in Nat
  /\ MaxStrays \in Nat
  /\ Faults \subseteq FaultKinds

VARIABLES
  pc,           \* where each thread is in its call
  own,          \* correlation id of the last call of each thread
  result,       \* how that call ended, and the request its results answer
  calls,        \* calls begun so far
  box,          \* mailbox of each thread
  serverBox,    \* mailbox of the server
  serving,      \* the request handleMailbox() is handling, if any
  up,           \* the server is running
  unanswered,   \* history: requests that will not get a reply
  strays,       \* messages others have sent so far
  interrupted   \* zsys_interrupted in the clients' process

callVars == <<pc, own, result, calls>>
serverVars == <<serverBox, serving, up>>
vars == <<callVars, box, serverVars, unanswered, strays, interrupted>>

CallIds == 1 .. MaxCalls

\* Mutant: the correlation id is made anew for the message.
RequestNewId(t) == [subject |-> "REQUEST", id |-> calls + 1, from |-> t]

Request(t) == [subject |-> "REQUEST", id |-> own[t], from |-> t]

\* Mutant: the correlation id is not copied to the reply.
ReplyWithoutId(request) == [id |-> 0, answers |-> request.id]

\* The correlation id frame of a reply, and the request its payload answers.
Reply(request) == [id |-> request.id, answers |-> request.id]

StrayReply == [id |-> 0, answers |-> 0]

\* What others may send to the server's mailbox that is not a request.
StrayRequests(t) ==
  {[subject |-> "OTHER", id |-> 0, from |-> t], [subject |-> "REQUEST", id |-> 0, from |-> t]}

\* What may be left of a mailbox when its reader disconnects: the messages the
\* broker has not handed to it yet.
Suffixes(s) == {SubSeq(s, n, Len(s)) : n \in 1 .. Len(s) + 1}

Init ==
  /\ pc = [t \in Threads |-> "idle"]
  /\ own = [t \in Threads |-> 0]
  /\ result = [t \in Threads |-> [how |-> "none", of |-> 0]]
  /\ calls = 0
  /\ box = [t \in Threads |-> <<>>]
  /\ serverBox = <<>>
  /\ serving = {}
  /\ up = TRUE
  /\ unanswered = {}
  /\ strays = 0
  /\ interrupted = FALSE

-----------------------------------------------------------------------------
\* syncRequestWithReply()

\* The call is over and its mlm_client_t destroyed.
End(t, how, of) ==
  /\ pc' = [pc EXCEPT ![t] = "idle"]
  /\ result' = [result EXCEPT ![t] = [how |-> how, of |-> of]]

Connect(t) ==
  /\ pc[t] = "idle"
  /\ calls < MaxCalls
  /\ calls' = calls + 1
  /\ own' = [own EXCEPT ![t] = calls + 1]
  /\ \/ /\ pc' = [pc EXCEPT ![t] = "connected"]
        /\ UNCHANGED result
     \/ /\ "connect" \in Faults
        /\ End(t, "exception", 0)
  /\ UNCHANGED <<box, serverVars, unanswered, strays, interrupted>>

\* What mlm_client_sendto() returns is not looked at: the call goes on to wait
\* for a reply to a request that was not sent.
Send(t) ==
  /\ pc[t] = "connected"
  /\ ~interrupted
  /\ pc' = [pc EXCEPT ![t] = "sent"]
  /\ \/ /\ serverBox' = Append(serverBox, Request(t))
        /\ UNCHANGED unanswered
     \/ /\ "send" \in Faults
        /\ unanswered' = unanswered \cup {own[t]}
        /\ UNCHANGED serverBox
  /\ UNCHANGED <<own, result, calls, box, serving, up, strays, interrupted>>

\* zsys_interrupted is looked at before and after the request is sent.
GiveUp(t) ==
  /\ pc[t] \in {"connected", "sent"}
  /\ interrupted
  /\ End(t, "exception", 0)
  /\ \E left \in Suffixes(box[t]) : box' = [box EXCEPT ![t] = left]
  /\ UNCHANGED <<own, calls, serverVars, unanswered, strays, interrupted>>

Await(t) ==
  /\ pc[t] = "sent"
  /\ ~interrupted
  /\ pc' = [pc EXCEPT ![t] = "waiting"]
  /\ UNCHANGED <<own, result, calls, box, serverVars, unanswered, strays, interrupted>>

\* Mutant: the correlation id of the reply is not compared.
IsAnyMessage(t, m) == TRUE

IsReply(t, m) == m.id = own[t]

\* mlm_client_recv() waits for the next message without a timeout. If it is
\* not the reply, or has no frames, the call throws; there is no second try.
Receive(t) ==
  /\ pc[t] = "waiting"
  /\ box[t] # <<>>
  /\ IF IsReply(t, Head(box[t]))
       THEN End(t, "returned", Head(box[t]).answers)
       ELSE End(t, "mismatch", 0)
  /\ \E left \in Suffixes(Tail(box[t])) : box' = [box EXCEPT ![t] = left]
  /\ UNCHANGED <<own, calls, serverVars, unanswered, strays, interrupted>>

\* Interrupted, mlm_client_recv() returns NULL, and zmsg_size(NULL) aborts the
\* process.
Abort(t) ==
  /\ pc[t] = "waiting"
  /\ interrupted
  /\ pc' = [u \in Threads |-> "aborted"]
  /\ UNCHANGED <<own, result, calls, box, serverVars, unanswered, strays, interrupted>>

-----------------------------------------------------------------------------
\* MlmBasicMailboxServer

\* Mutant: handleMailbox() takes one message and the others go with it.
NothingElse == <<>>

\* handleMailbox() takes one message at a time.
OtherMessages == Tail(serverBox)

\* A message with another subject is ignored, one without a correlation id
\* logged; a request goes to m_server.handleRequest().
ServerReceive ==
  /\ up
  /\ serving = {}
  /\ serverBox # <<>>
  /\ serverBox' = OtherMessages
  /\ serving' =
       {r \in {Head(serverBox)} : r.subject = "REQUEST" /\ r.id # 0}
  /\ UNCHANGED <<callVars, box, up, unanswered, strays, interrupted>>

\* handleRequest() has returned or thrown: the reply goes to the mailbox of the
\* sender, or there is none. Either way the agent goes on.
ServerAnswer ==
  \E r \in serving :
    /\ up
    /\ serving' = {}
    /\ \/ /\ box' = [box EXCEPT ![r.from] = Append(@, Reply(r))]
          /\ UNCHANGED unanswered
       \/ /\ {"refuse", "reply"} \cap Faults # {}
          /\ unanswered' = unanswered \cup {r.id}
          /\ UNCHANGED box
    /\ UNCHANGED <<callVars, serverBox, up, strays, interrupted>>

ServerStops ==
  /\ "stop" \in Faults
  /\ up
  /\ up' = FALSE
  /\ serving' = {}
  /\ serverBox' \in Suffixes(serverBox)
  /\ unanswered' = unanswered \cup {r.id : r \in serving}
       \cup {serverBox[i].id : i \in 1 .. Len(serverBox) - Len(serverBox')}
  /\ UNCHANGED <<callVars, box, strays, interrupted>>

ServerStarts ==
  /\ ~up
  /\ up' = TRUE
  /\ UNCHANGED <<callVars, box, serverBox, serving, unanswered, strays, interrupted>>

-----------------------------------------------------------------------------
\* Others

\* Any client of the broker can write to any mailbox.
StrayToClient(t) ==
  /\ strays < MaxStrays
  /\ strays' = strays + 1
  /\ box' = [box EXCEPT ![t] = Append(@, StrayReply)]
  /\ UNCHANGED <<callVars, serverVars, unanswered, interrupted>>

StrayToServer(t) ==
  /\ strays < MaxStrays
  /\ strays' = strays + 1
  /\ \E r \in StrayRequests(t) : serverBox' = Append(serverBox, r)
  /\ UNCHANGED <<callVars, box, serving, up, unanswered, interrupted>>

Interrupt ==
  /\ "interrupt" \in Faults
  /\ ~interrupted
  /\ interrupted' = TRUE
  /\ UNCHANGED <<callVars, box, serverVars, unanswered, strays>>

CallStep(t) == Send(t) \/ GiveUp(t) \/ Await(t) \/ Receive(t) \/ Abort(t)

Next ==
  \/ \E t \in Threads : Connect(t) \/ CallStep(t) \/ StrayToClient(t) \/ StrayToServer(t)
  \/ ServerReceive
  \/ ServerAnswer
  \/ ServerStops
  \/ ServerStarts
  \/ Interrupt

\* Threads run, and handleRequest() ends. Nobody has to call, to stop or to
\* start the server again.
Fairness ==
  /\ \A t \in Threads : WF_vars(CallStep(t))
  /\ WF_vars(ServerReceive)
  /\ WF_vars(ServerAnswer)

SafetySpec == Init /\ [][Next]_vars

Spec == SafetySpec /\ Fairness

-----------------------------------------------------------------------------
\* Properties

\* Every variable has its type.
TypeOK ==
  /\ pc \in [Threads -> {"idle", "connected", "sent", "waiting", "aborted"}]
  /\ own \in [Threads -> 0 .. MaxCalls]
  /\ result \in [Threads ->
       [how : {"none", "returned", "mismatch", "exception"}, of : 0 .. MaxCalls]]
  /\ calls \in 0 .. MaxCalls
  /\ box \in [Threads -> Seq([id : 0 .. MaxCalls, answers : 0 .. MaxCalls])]
  /\ serverBox \in Seq([subject : {"REQUEST", "OTHER"}, id : 0 .. MaxCalls, from : Threads])
  /\ serving \in SUBSET [subject : {"REQUEST"}, id : CallIds, from : Threads]
  /\ up \in BOOLEAN
  /\ unanswered \in SUBSET (0 .. MaxCalls)
  /\ strays \in 0 .. MaxStrays
  /\ interrupted \in BOOLEAN

\* A call that returns, returns the results the server computed for it: not
\* those of an earlier call of the thread, nor those of another thread.
OwnReply ==
  \A t \in Threads :
    result[t].how = "returned" /\ pc[t] = "idle" => result[t].of = own[t]

\* Unless others write to its mailbox, a call never throws "Mismatch
\* correlation id": a mailbox that many calls of a thread share in turn never
\* holds the reply to an earlier one.
NoMismatch == strays = 0 => \A t \in Threads : result[t].how # "mismatch"

\* No call waits for nothing, whatever the others ask and however often the
\* server stops: its request is with the server, or there is something in its
\* mailbox, or the server had no reply or never got the request.
WaitIsNotInVain ==
  \A t \in Threads : pc[t] \in {"sent", "waiting"} =>
    \/ box[t] # <<>>
    \/ \E i \in 1 .. Len(serverBox) : serverBox[i] = Request(t)
    \/ Request(t) \in serving
    \/ own[t] \in unanswered

\* A call that waits for its reply ends, unless the server has none for it or
\* has stopped: whatever the others ask meanwhile.
CallEnds ==
  \A t \in Threads :
    pc[t] = "waiting" ~> pc[t] # "waiting" \/ own[t] \in unanswered \/ ~up

\* The stages of RequestReply. An aborted thread waits for nothing.
Stage(t) ==
  CASE pc[t] = "connected" -> "asking"
    [] pc[t] \in {"sent", "waiting"} -> "waiting"
    [] pc[t] = "idle" /\ result[t].how = "returned" -> "reply"
    [] OTHER -> "none"

Promise == INSTANCE RequestReply WITH
  Callers <- Threads,
  Ids <- CallIds,
  last <- own,
  stage <- [t \in Threads |-> Stage(t)],
  used <- 1 .. calls,
  asked <- ({serverBox[i].id : i \in 1 .. Len(serverBox)} \cup {r.id : r \in serving}) \ {0},
  answered <- (UNION {{box[t][i].answers : i \in 1 .. Len(box[t])} : t \in Threads}) \ {0}

\* Threads, mailboxes, a server that stops and starts, strays and signals
\* included, syncRequestWithReply() does no more than RequestReply allows: no
\* request is answered twice, and an answer is returned once, to its caller.
RequestReplySpec == Promise!Spec
=============================================================================
