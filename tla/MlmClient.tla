----------------------------- MODULE MlmClient ------------------------------
(***************************************************************************)
(* MlmClient (src/fty_common_mlm_tntmlm.cc): sendto(), recv() and          *)
(* requestreply() on one client, called one after the other, by one user   *)
(* of the pool or by several in turn. What a call leaves in the mailbox is *)
(* there for the next.                                                     *)
(*                                                                         *)
(* Each request has a new uuid, here its number; 0 stands for any other.   *)
(* Time passes between any two steps: while zpoller_wait() waits, and      *)
(* while the thread connects, sends, or deals with a message.              *)
(***************************************************************************)
EXTENDS Integers, Sequences

CONSTANTS
  Ops,        \* the operations that are called
  Timeouts,   \* the timeouts they are called with
  Limit,      \* the greatest timeout: 300 seconds
  Faults,     \* what may go wrong, see FaultKinds
  MaxCalls,   \* bound: requests in a behaviour
  MaxNoise,   \* bound: messages that answer no request
  MaxTime     \* bound: the clock

(***************************************************************************)
(* send:       mlm_client_sendto() fails                                   *)
(* disconnect: the connection to the broker is lost                        *)
(* interrupt:  the process receives a signal                               *)
(***************************************************************************)
FaultKinds == {"send", "disconnect", "interrupt"}

ASSUME ClientAssumption ==
  /\ Ops \subseteq {"sendto", "recv", "requestreply"}
  /\ Timeouts \subseteq Nat
  /\ Limit \in Nat
  /\ Faults \subseteq FaultKinds
  /\ MaxCalls \in Nat
  /\ MaxNoise \in Nat
  /\ MaxTime \in Nat

VARIABLES
  now,            \* zclock_mono()
  pc,             \* where the call is
  op,             \* the operation of the last call
  uuid,           \* the uuid it sends or waits for
  wait,           \* its timeout, once trimmed
  start,          \* when it began to wait
  polled,         \* when the timeout of the last zpoller_wait() was computed
  pollerTimeout,  \* and that timeout
  discarded,      \* history: messages that recv() discarded since it began
  due,            \* history: how the reply came, see Dues
  result,         \* how the call ended, and the request its message answers
  requests,       \* requests made so far
  asked,          \* requests that may still be answered
  inbox,          \* messages for the client
  connected,      \* mlm_client_connected()
  noise,          \* messages that answer no request so far
  interrupted     \* zsys_interrupted

callVars == <<op, uuid, wait>>
pollVars == <<start, polled, pollerTimeout, discarded>>
envVars == <<noise, interrupted>>
vars == <<now, pc, callVars, pollVars, due, result, requests, asked, inbox,
          connected, envVars>>

Uuids == 0 .. MaxCalls

Commands == {"REPLY", "OTHER"}

\* A reply is awaited if it comes to an empty mailbox that the call waits at, and
\* queued if it is there before, or other messages are.
Dues == {"none", "awaited", "queued"}

\* A reply has the uuid of the request it answers.
Messages == [uuid : Uuids, cmd : Commands, of : 0 .. MaxCalls]

Trimmed(timeout) == IF timeout > Limit THEN Limit ELSE timeout

\* The call is to return by then: quit, in requestreply().
Deadline == start + wait

\* Mutant: the message is not looked at.
MatchesAny(m) == TRUE

\* requestreply() wants the second frame to be REPLY, recv() does not look.
Matches(m) == m.uuid = uuid /\ (op = "recv" \/ m.cmd = "REPLY")

InBox(id) == \E i \in 1 .. Len(inbox) : inbox[i].uuid = id

Init ==
  /\ now = 0
  /\ pc = "idle"
  /\ op = "recv"
  /\ uuid = 0
  /\ wait = 0
  /\ start = 0
  /\ polled = 0
  /\ pollerTimeout = 0
  /\ discarded = 0
  /\ due = "none"
  /\ result = [how |-> "none", of |-> 0]
  /\ requests = 0
  /\ asked = {}
  /\ inbox = <<>>
  /\ connected \in BOOLEAN
  /\ connected \/ "disconnect" \in Faults
  /\ noise = 0
  /\ interrupted = FALSE

-----------------------------------------------------------------------------
\* Calls

\* Each operation connects again first, if the client is not connected.
Call(operation, id, timeout) ==
  /\ pc = "idle"
  /\ operation \in Ops
  /\ pc' = IF connected THEN "ready" ELSE "connecting"
  /\ op' = operation
  /\ uuid' = id
  /\ wait' = Trimmed(timeout)
  /\ result' = [how |-> "none", of |-> 0]
  /\ due' = "none"
  /\ UNCHANGED <<now, pollVars, asked, inbox, connected, envVars>>

Recv(timeout) ==
  /\ \E id \in 1 .. requests : Call("recv", id, timeout)
  /\ UNCHANGED requests

SendTo ==
  /\ requests < MaxCalls
  /\ requests' = requests + 1
  /\ Call("sendto", requests + 1, 0)

\* Mutant: all requests of a client have the uuid of the client.
ClientUuid == MaxCalls

NewUuid == requests + 1

RequestReply(timeout) ==
  /\ requests < MaxCalls
  /\ requests' = requests + 1
  /\ Call("requestreply", NewUuid, timeout)

\* A failure is logged, and the call goes on.
Connect ==
  /\ pc = "connecting"
  /\ pc' = "ready"
  /\ connected' \in BOOLEAN
  /\ UNCHANGED <<now, callVars, pollVars, due, result, requests, asked, inbox, envVars>>

End(how, of) ==
  /\ pc' = "idle"
  /\ result' = [how |-> how, of |-> of]

\* mlm_client_sendto(): without a connection, the message is lost.
Post ==
  asked' = IF connected THEN asked \cup {[uuid |-> uuid, of |-> requests]} ELSE asked

Send ==
  /\ pc = "ready"
  /\ op = "sendto"
  /\ \/ Post /\ End("sent", 0)
     \/ "send" \in Faults /\ End("failed", 0) /\ UNCHANGED asked
  /\ UNCHANGED <<now, callVars, pollVars, due, requests, inbox, connected, envVars>>

-----------------------------------------------------------------------------
\* requestreply()

SendRequest ==
  /\ pc = "ready"
  /\ op = "requestreply"
  /\ start' = now
  /\ \/ Post /\ pc' = "loop" /\ UNCHANGED result
     \/ "send" \in Faults /\ End("failed", 0) /\ UNCHANGED asked
  /\ UNCHANGED <<now, callVars, polled, pollerTimeout, discarded, due, requests,
                 inbox, connected, envVars>>

\* Mutant: what is left is rounded down.
TimeLeftRounded == Deadline - now - 1

\* What the absolute deadline leaves.
TimeLeft == Deadline - now

AwaitReply ==
  /\ pc = "loop"
  /\ IF TimeLeft <= 0
       THEN End("expired", 0) /\ UNCHANGED <<polled, pollerTimeout>>
       ELSE /\ pc' = "polling"
            /\ polled' = now
            /\ pollerTimeout' = TimeLeft
            /\ UNCHANGED result
  /\ UNCHANGED <<now, callVars, start, discarded, due, requests, asked, inbox, connected,
                 envVars>>

\* Mutant: the messages behind the one that is taken are discarded too.
NothingElse == <<>>

OtherMessages == Tail(inbox)

\* A message that is not the reply is discarded. Interrupted,
\* mlm_client_recv() may return NULL.
TakeReply ==
  /\ pc = "polling"
  /\ op = "requestreply"
  /\ inbox # <<>>
  /\ \/ /\ inbox' = OtherMessages
        /\ IF Matches(Head(inbox))
             THEN End("message", Head(inbox).of)
             ELSE pc' = "loop" /\ UNCHANGED result
     \/ /\ interrupted
        /\ pc' = "loop"
        /\ UNCHANGED <<inbox, result>>
  /\ UNCHANGED <<now, callVars, pollVars, due, requests, asked, connected, envVars>>

-----------------------------------------------------------------------------
\* recv()

StartRecv ==
  /\ pc = "ready"
  /\ op = "recv"
  /\ pc' = "polling"
  /\ start' = now
  /\ polled' = now
  /\ pollerTimeout' = wait
  /\ discarded' = 0
  /\ due' = IF InBox(uuid) THEN "queued" ELSE "none"
  /\ UNCHANGED <<now, callVars, result, requests, asked, inbox, connected, envVars>>

\* Mutant: unsigned, and not checked for being less.
RemainingUnchecked == pollerTimeout - (now - start)

\* Mutant: what is taken off is the clock, not the time since the start.
RemainingOfClock == IF now >= pollerTimeout THEN 0 ELSE pollerTimeout - now

\* Mutant: the timeout starts again with each message.
RemainingWhole == pollerTimeout

\* What is left of the timeout is reduced by the time since the start of the
\* call, at each message again.
Remaining ==
  IF now - start >= pollerTimeout THEN 0 ELSE pollerTimeout - (now - start)

TakeMessage ==
  /\ pc = "polling"
  /\ op = "recv"
  /\ inbox # <<>>
  /\ polled' = now
  /\ pollerTimeout' = Remaining
  /\ \/ /\ inbox' = OtherMessages
        /\ IF Matches(Head(inbox))
             THEN End("message", Head(inbox).of) /\ UNCHANGED discarded
             ELSE discarded' = discarded + 1 /\ UNCHANGED <<pc, result>>
     \/ interrupted /\ UNCHANGED <<inbox, pc, result, discarded>>
  /\ UNCHANGED <<now, callVars, start, due, requests, asked, connected, envVars>>

-----------------------------------------------------------------------------
\* zpoller_wait() returns NULL, in either operation: when its timeout has passed,
\* or later.

Expire ==
  /\ pc = "polling"
  /\ inbox = <<>>
  /\ now >= polled + pollerTimeout
  /\ End("expired", 0)
  /\ UNCHANGED <<now, callVars, pollVars, due, requests, asked, inbox, connected, envVars>>

Terminate ==
  /\ pc = "polling"
  /\ interrupted
  /\ End("interrupted", 0)
  /\ UNCHANGED <<now, callVars, pollVars, due, requests, asked, inbox, connected, envVars>>

-----------------------------------------------------------------------------
\* The others

Deliver(m) ==
  /\ connected
  /\ inbox' = Append(inbox, m)
  /\ due' = IF due = "none" /\ pc \in {"loop", "polling"} /\ Matches(m)
              THEN IF pc = "polling" /\ inbox = <<>> THEN "awaited" ELSE "queued"
              ELSE due
  /\ UNCHANGED <<now, pc, callVars, pollVars, result, requests, connected>>

\* The peer answers when it likes, or never, and may answer with an error.
Answer ==
  /\ \E r \in asked, cmd \in Commands :
       /\ asked' = asked \ {r}
       /\ Deliver([uuid |-> r.uuid, cmd |-> cmd, of |-> r.of])
  /\ UNCHANGED envVars

Noise ==
  /\ noise < MaxNoise
  /\ noise' = noise + 1
  /\ \E cmd \in Commands : Deliver([uuid |-> 0, cmd |-> cmd, of |-> 0])
  /\ UNCHANGED <<asked, interrupted>>

Disconnect ==
  /\ "disconnect" \in Faults
  /\ connected
  /\ connected' = FALSE
  /\ UNCHANGED <<now, pc, callVars, pollVars, due, result, requests, asked, inbox, envVars>>

Interrupt ==
  /\ "interrupt" \in Faults
  /\ ~interrupted
  /\ interrupted' = TRUE
  /\ UNCHANGED <<now, pc, callVars, pollVars, due, result, requests, asked, inbox,
                 connected, noise>>

\* Wherever the call is, it may take its time.
Tick ==
  /\ now < MaxTime
  /\ now' = now + 1
  /\ UNCHANGED <<pc, callVars, pollVars, due, result, requests, asked, inbox,
                 connected, envVars>>

Next ==
  \/ \E timeout \in Timeouts : Recv(timeout) \/ RequestReply(timeout)
  \/ SendTo
  \/ Connect
  \/ Send
  \/ SendRequest
  \/ AwaitReply
  \/ TakeReply
  \/ StartRecv
  \/ TakeMessage
  \/ Expire
  \/ Terminate
  \/ Answer
  \/ Noise
  \/ Disconnect
  \/ Interrupt
  \/ Tick

Spec == Init /\ [][Next]_vars

-----------------------------------------------------------------------------
\* Properties

\* Every variable has its type.
TypeOK ==
  /\ now \in 0 .. MaxTime
  /\ pc \in {"idle", "connecting", "ready", "loop", "polling"}
  /\ op \in {"sendto", "recv", "requestreply"}
  /\ uuid \in Uuids
  /\ wait \in 0 .. Limit
  /\ start \in 0 .. MaxTime
  /\ polled \in 0 .. MaxTime
  /\ pollerTimeout \in 0 .. Limit
  /\ discarded \in Nat
  /\ due \in Dues
  /\ result \in [how : {"none", "sent", "failed", "message", "expired", "interrupted"},
                 of : 0 .. MaxCalls]
  /\ requests \in 0 .. MaxCalls
  /\ asked \in SUBSET [uuid : Uuids, of : 0 .. MaxCalls]
  /\ inbox \in Seq(Messages)
  /\ connected \in BOOLEAN
  /\ noise \in 0 .. MaxNoise
  /\ interrupted \in BOOLEAN

\* requestreply() returns the reply to its own request: the late replies to
\* the requests of earlier calls, which other users of the pooled client may
\* have made, are in the same mailbox.
OwnReply ==
  pc = "idle" /\ op = "requestreply" /\ result.how = "message" => result.of = requests

\* No call asks zpoller_wait() to wait past the end of its timeout, however many
\* messages for others arrive meanwhile.
NotLate == pc = "polling" => pollerTimeout = 0 \/ polled + pollerTimeout <= Deadline

\* A call that was not interrupted returns NULL when its timeout has passed, and
\* no earlier.
NullMeansExpired ==
  pc = "idle" /\ result.how = "expired" /\ ~interrupted => now >= Deadline

\* requestreply() keeps to that, however many messages it discards, and even if
\* interrupted: it waits each time for what its absolute deadline leaves.
RequestWaitsFully ==
  pc = "idle" /\ op = "requestreply" /\ result.how = "expired" => now >= Deadline

\* recv() may not keep to it, as it counts the time since its start again at
\* each message it discards: n of them leave it at least the n-th part of its
\* timeout, so that it takes two to make it return NULL too early.
RecvWaitsItsShare ==
  pc = "idle" /\ op = "recv" /\ result.how = "expired" /\ ~interrupted =>
    wait <= (IF discarded = 0 THEN 1 ELSE discarded) * (now - start)

\* recv() never returns NULL, its timeout passed, when it had the reply in its
\* mailbox: it still looks, with a timeout of 0, at what is there.
\* requestreply() looks at its deadline between messages and may leave the reply
\* behind those it has discarded, but only when the deadline has passed, and
\* never a reply it was waiting for, unless interrupted.
ReplyIsNotMissed ==
  pc = "idle" /\ result.how = "expired" /\ due # "none" =>
    op = "requestreply" /\ now >= Deadline /\ (due = "queued" \/ interrupted)

\* The stages of RequestReply. recv() waits for a request made before.
Stage ==
  CASE pc = "idle" /\ result.how = "message" -> "reply"
    [] pc = "idle" /\ result.how # "message" -> "none"
    [] pc \in {"connecting", "ready"} /\ op # "recv" -> "asking"
    [] OTHER -> "waiting"

User == "user"

Promise == INSTANCE RequestReply WITH
  Callers <- {User},
  Ids <- 1 .. MaxCalls,
  last <- [c \in {User} |-> uuid],
  stage <- [c \in {User} |-> Stage],
  used <- 1 .. requests,
  asked <- {r.uuid : r \in asked},
  answered <- {inbox[i].uuid : i \in 1 .. Len(inbox)} \ {0}

\* In whatever order sendto(), recv() and requestreply() are called on one
\* client, with late replies, lost connections and timeouts, they do no more
\* than RequestReply allows: recv() and requestreply() return the reply to the
\* request they wait for, once, or NULL.
RequestReplySpec == Promise!Spec
=============================================================================
