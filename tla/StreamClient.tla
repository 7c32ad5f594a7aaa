---------------------------- MODULE StreamClient ----------------------------
(***************************************************************************)
(* MlmStreamClient (src/fty_common_mlm_stream_client.cc): one object, the  *)
(* threads that call subscribe(), unsubscribe() and the destructor, the    *)
(* listener thread the object starts and stops, and the part of the        *)
(* Malamute broker they rely on.                                           *)
(*                                                                         *)
(* A message is what the stream carries: publish() sends one of kind       *)
(* "MESSAGE", a client that wants its listener to stop sends one of kind   *)
(* "SYNC".  The kind is the Malamute subject; the listener never looks at  *)
(* it, so it reaches the callbacks whatever it is.                         *)
(***************************************************************************)
EXTENDS Integers, Sequences, FiniteSets

CONSTANTS
  Callers,  \* threads that call the methods of the object
  MaxSubs,  \* bound: subscribe() calls in a behaviour
  MaxMsgs,  \* bound: messages others publish on the stream in a behaviour
  Faults,   \* what may go wrong, see FaultKinds
  NoOne,    \* no caller: free mutex, empty slot of the map
  Listener  \* the listener thread, as an owner of the mutex

(***************************************************************************)
(* startup:   the listener cannot connect, or cannot consume the stream    *)
(* publish:   publishOnBus() throws                                        *)
(* spurious:  condition_variable::wait() returns without a notification    *)
(* interrupt: the process receives a signal, zsys_interrupted is raised    *)
(***************************************************************************)
FaultKinds == {"startup", "publish", "spurious", "interrupt"}

ASSUME StreamAssumption ==
  /\ MaxSubs \in Nat
  /\ MaxMsgs \in Nat
  /\ Faults \subseteq FaultKinds
  /\ NoOne \notin Callers
  /\ Listener \notin Callers \cup {NoOne}

VARIABLES
  callbacks,    \* m_callbacks: the caller whose callback has that id, or NoOne
  counter,      \* m_counter
  stop,         \* m_stopRequested
  exPtr,        \* m_exPtr is set
  lock,         \* owner of m_listenerCallbackMutex
  pc,           \* where each caller is
  arg,          \* m_counter as read by the subscribe(), id given to the unsubscribe()
                \* each caller is in
  held,         \* ids each caller got from subscribe() and has not given up
  lpc,          \* where the listener thread is; "none": m_listenerThread is not joinable
  gen,          \* number of listener threads started so far
  cur,          \* message the listener is handling
  todo,         \* ids whose callback the listener still has to run for cur
  inbox,        \* messages the broker has sent to the listener's client
  wire,         \* messages sent to the broker, not routed yet
  sent,         \* number of messages others have published
  interrupted,  \* zsys_interrupted
  alive         \* the destructor has not been called

callerVars == <<pc, arg, held>>
listenerVars == <<lpc, gen, cur, todo>>
busVars == <<inbox, wire, sent>>
vars == <<callbacks, counter, stop, exPtr, lock, callerVars, listenerVars,
          busVars, interrupted, alive>>

SubIds == 1 .. MaxSubs

Message == [kind : {"MESSAGE", "SYNC"}, from : Callers \cup {NoOne}, num : Nat]

\* The message of publishOnBus("SYNC", {}) by c, aimed at the listener running now.
Sync(c) == [kind |-> "SYNC", from |-> c, num |-> gen]

Registered == {i \in SubIds : callbacks[i] # NoOne}

Joinable == lpc # "none"

\* The listener's client is a consumer of the stream.
Consuming == lpc \in {"ready", "polling", "locking", "delivering"}

\* The listener thread has left, or never entered, its receive loop for good.
ListenerDown == lpc \in {"none", "failed", "exited"}

Init ==
  /\ callbacks = [i \in SubIds |-> NoOne]
  /\ counter = 0
  /\ stop = FALSE
  /\ exPtr = FALSE
  /\ lock = NoOne
  /\ pc = [c \in Callers |-> "idle"]
  /\ arg = [c \in Callers |-> 0]
  /\ held = [c \in Callers |-> {}]
  /\ lpc = "none"
  /\ gen = 0
  /\ cur = [kind |-> "SYNC", from |-> NoOne, num |-> 0]
  /\ todo = {}
  /\ inbox = <<>>
  /\ wire = {}
  /\ sent = 0
  /\ interrupted = FALSE
  /\ alive = TRUE

-----------------------------------------------------------------------------
\* subscribe()

Goto(c, where) == pc' = [pc EXCEPT ![c] = where]

\* Mutant: m_stopRequested keeps the value of the last stop.
BeginSubscribeKeepsStop(c) ==
  /\ alive
  /\ pc[c] = "idle"
  /\ counter < MaxSubs
  /\ arg' = [arg EXCEPT ![c] = counter]
  /\ Goto(c, "counting")
  /\ UNCHANGED <<callbacks, counter, stop, exPtr, lock, held, listenerVars, busVars, interrupted, alive>>

\* The two statements before the mutex is taken. m_counter++ reads, then
\* writes: of two callers that race, one increment may be lost.
BeginSubscribe(c) ==
  /\ alive
  /\ pc[c] = "idle"
  /\ counter < MaxSubs
  /\ stop' = FALSE
  /\ arg' = [arg EXCEPT ![c] = counter]
  /\ Goto(c, "counting")
  /\ UNCHANGED <<callbacks, counter, exPtr, lock, held, listenerVars, busVars, interrupted, alive>>

\* Mutant: m_counter is incremented for the key and again for the result.
IncrementCounterTwice(c) ==
  /\ pc[c] = "counting"
  /\ counter' = arg[c] + 2
  /\ arg' = [arg EXCEPT ![c] = 0]
  /\ Goto(c, "subscribing")
  /\ UNCHANGED <<callbacks, stop, exPtr, lock, held, listenerVars, busVars, interrupted, alive>>

IncrementCounter(c) ==
  /\ pc[c] = "counting"
  /\ counter' = arg[c] + 1
  /\ arg' = [arg EXCEPT ![c] = 0]
  /\ Goto(c, "subscribing")
  /\ UNCHANGED <<callbacks, stop, exPtr, lock, held, listenerVars, busVars, interrupted, alive>>

\* Take the mutex, add the callback, start the listener if there is no thread.
AddCallback(c) ==
  /\ pc[c] = "subscribing"
  /\ lock = NoOne
  /\ lock' = c
  /\ callbacks' = [callbacks EXCEPT ![counter] = c]
  /\ \/ /\ ~Joinable
        /\ exPtr' = FALSE
        /\ lpc' = "starting"
        /\ gen' = gen + 1
        /\ Goto(c, "spawned")
     \/ /\ Joinable
        /\ Goto(c, "returning")
        /\ UNCHANGED <<exPtr, lpc, gen>>
  /\ UNCHANGED <<counter, stop, arg, held, cur, todo, busVars, interrupted, alive>>

\* Mutant: the mutex is kept while waiting for the listener.
WaitStartedHoldingLock(c) ==
  /\ pc[c] = "spawned"
  /\ Goto(c, "waiting")
  /\ UNCHANGED <<callbacks, counter, stop, exPtr, lock, arg, held, listenerVars, busVars, interrupted, alive>>

\* m_listenerStarted.wait(lock): there is no predicate, only a notification
\* that comes after this step ends the wait.
WaitStarted(c) ==
  /\ pc[c] = "spawned"
  /\ lock' = NoOne
  /\ Goto(c, "waiting")
  /\ UNCHANGED <<callbacks, counter, stop, exPtr, arg, held, listenerVars, busVars, interrupted, alive>>

SpuriousWakeup(c) ==
  /\ "spurious" \in Faults
  /\ pc[c] = "waiting"
  /\ Goto(c, "woken")
  /\ UNCHANGED <<callbacks, counter, stop, exPtr, lock, arg, held, listenerVars, busVars, interrupted, alive>>

\* wait() returns with the mutex; rethrow m_exPtr or return the id. The mutex
\* is released either way, so it is taken and released within the step.
CheckStartup(c) ==
  /\ pc[c] = "woken"
  /\ lock = NoOne
  /\ Goto(c, "idle")
  /\ \/ exPtr /\ UNCHANGED held
     \/ ~exPtr /\ held' = [held EXCEPT ![c] = @ \cup {counter}]
  /\ UNCHANGED <<callbacks, counter, stop, exPtr, lock, arg, listenerVars, busVars, interrupted, alive>>

\* A thread was there already: return m_counter and release the mutex.
ReturnId(c) ==
  /\ pc[c] = "returning"
  /\ lock' = NoOne
  /\ held' = [held EXCEPT ![c] = @ \cup {counter}]
  /\ Goto(c, "idle")
  /\ UNCHANGED <<callbacks, counter, stop, exPtr, arg, listenerVars, busVars, interrupted, alive>>

-----------------------------------------------------------------------------
\* unsubscribe()

\* m_callbacks.count(subId), read without the mutex.
BeginUnsubscribe(c, id) ==
  /\ alive
  /\ pc[c] = "idle"
  /\ id \in held[c]
  /\ held' = [held EXCEPT ![c] = @ \ {id}]
  /\ \/ /\ id \in Registered
        /\ arg' = [arg EXCEPT ![c] = id]
        /\ Goto(c, "erasing")
     \/ /\ id \notin Registered
        /\ UNCHANGED <<arg, pc>>
  /\ UNCHANGED <<callbacks, counter, stop, exPtr, lock, listenerVars, busVars, interrupted, alive>>

Erase(c) ==
  /\ pc[c] = "erasing"
  /\ lock = NoOne
  /\ callbacks' = [callbacks EXCEPT ![arg[c]] = NoOne]
  /\ arg' = [arg EXCEPT ![c] = 0]
  /\ Goto(c, "erased")
  /\ UNCHANGED <<counter, stop, exPtr, lock, held, listenerVars, busVars, interrupted, alive>>

\* Mutant: the last unsubscribe() does not request the stop.
CheckEmptyNoStop(c) ==
  /\ pc[c] = "erased"
  /\ Goto(c, IF Registered = {} THEN "syncing" ELSE "idle")
  /\ UNCHANGED <<callbacks, counter, stop, exPtr, lock, arg, held, listenerVars, busVars, interrupted, alive>>

\* m_callbacks.empty(), again without the mutex.
CheckEmpty(c) ==
  /\ pc[c] = "erased"
  /\ \/ /\ Registered = {}
        /\ stop' = TRUE
        /\ Goto(c, "syncing")
     \/ /\ Registered # {}
        /\ Goto(c, "idle")
        /\ UNCHANGED stop
  /\ UNCHANGED <<callbacks, counter, exPtr, lock, arg, held, listenerVars, busVars, interrupted, alive>>

\* Mutant: the listener is joined without a message that wakes it.
PublishNoSync(c) ==
  /\ pc[c] = "syncing"
  /\ Goto(c, "joining")
  /\ UNCHANGED <<callbacks, counter, stop, exPtr, lock, arg, held, listenerVars, busVars, interrupted, alive>>

\* publishOnBus("SYNC", {}): when it throws, unsubscribe() is left with
\* m_stopRequested set and the thread not joined.
PublishSync(c) ==
  /\ pc[c] = "syncing"
  /\ \/ /\ wire' = wire \cup {Sync(c)}
        /\ Goto(c, "joining")
     \/ /\ "publish" \in Faults
        /\ Goto(c, "idle")
        /\ UNCHANGED wire
  /\ UNCHANGED <<callbacks, counter, stop, exPtr, lock, arg, held, listenerVars, inbox, sent, interrupted, alive>>

\* Mutant: unsubscribe() does not join the thread.
JoinForgotten(c) ==
  /\ pc[c] = "joining"
  /\ Goto(c, "idle")
  /\ UNCHANGED <<callbacks, counter, stop, exPtr, lock, arg, held, listenerVars, busVars, interrupted, alive>>

\* m_listenerThread.join(); it throws if another caller has joined the thread.
Join(c) ==
  /\ pc[c] = "joining"
  /\ lpc \in {"exited", "none"}
  /\ lpc' = "none"
  /\ Goto(c, "idle")
  /\ UNCHANGED <<callbacks, counter, stop, exPtr, lock, arg, held, gen, cur, todo, busVars, interrupted, alive>>

-----------------------------------------------------------------------------
\* ~MlmStreamClient()

\* Destroying a joinable std::thread, or letting an exception out of a
\* destructor, calls std::terminate().
Terminate(c) == Goto(c, "terminated")

BeginDestroy(c) ==
  /\ alive
  /\ \A d \in Callers : pc[d] = "idle"
  /\ alive' = FALSE
  /\ \/ /\ Registered # {}
        /\ stop' = TRUE
        /\ Goto(c, "destroy_syncing")
     \/ /\ Registered = {}
        /\ UNCHANGED stop
        /\ IF Joinable THEN Terminate(c) ELSE Goto(c, "destroyed")
  /\ UNCHANGED <<callbacks, counter, exPtr, lock, arg, held, listenerVars, busVars, interrupted>>

DestroySync(c) ==
  /\ pc[c] = "destroy_syncing"
  /\ \/ /\ wire' = wire \cup {Sync(c)}
        /\ Goto(c, "destroy_joining")
     \/ /\ "publish" \in Faults
        /\ Terminate(c)
        /\ UNCHANGED wire
  /\ UNCHANGED <<callbacks, counter, stop, exPtr, lock, arg, held, listenerVars, inbox, sent, interrupted, alive>>

DestroyJoin(c) ==
  /\ pc[c] = "destroy_joining"
  /\ \/ /\ lpc = "exited"
        /\ lpc' = "none"
        /\ Goto(c, "destroyed")
     \/ /\ lpc = "none"
        /\ Terminate(c)
        /\ UNCHANGED lpc
  /\ UNCHANGED <<callbacks, counter, stop, exPtr, lock, arg, held, gen, cur, todo, busVars, interrupted, alive>>

-----------------------------------------------------------------------------
\* listener()

\* Connect to the broker and consume the stream, or store the exception.
ListenerStart ==
  /\ lpc = "starting"
  /\ \/ /\ lpc' = "ready"
        /\ UNCHANGED exPtr
     \/ /\ "startup" \in Faults
        /\ lpc' = "failed"
        /\ exPtr' = TRUE
  /\ UNCHANGED <<callbacks, counter, stop, lock, callerVars, gen, cur, todo, busVars, interrupted, alive>>

\* m_listenerStarted.notify_all(), without the mutex: it wakes the callers
\* that are waiting now and nobody else.
ListenerNotify ==
  /\ \/ lpc = "ready" /\ lpc' = "polling"
     \/ lpc = "failed" /\ lpc' = "exited"
  /\ pc' = [c \in Callers |-> IF pc[c] = "waiting" THEN "woken" ELSE pc[c]]
  /\ UNCHANGED <<callbacks, counter, stop, exPtr, lock, arg, held, gen, cur, todo, busVars, interrupted, alive>>

\* Mutant: one message is handled per wake-up and the others are dropped.
ListenerRecvDropsBacklog ==
  /\ lpc = "polling"
  /\ inbox # <<>>
  /\ inbox' = <<>>
  /\ \/ stop /\ lpc' = "exited" /\ UNCHANGED cur
     \/ ~stop /\ lpc' = "locking" /\ cur' = Head(inbox)
  /\ UNCHANGED <<callbacks, counter, stop, exPtr, lock, callerVars, gen, todo, wire, sent, interrupted, alive>>

\* Receive a message; when a stop is requested drop it and leave the loop.
ListenerRecv ==
  /\ lpc = "polling"
  /\ inbox # <<>>
  /\ \/ /\ stop
        /\ lpc' = "exited"
        /\ inbox' = <<>>
        /\ UNCHANGED cur
     \/ /\ ~stop
        /\ cur' = Head(inbox)
        /\ inbox' = Tail(inbox)
        /\ lpc' = "locking"
  /\ UNCHANGED <<callbacks, counter, stop, exPtr, lock, callerVars, gen, todo, wire, sent, interrupted, alive>>

ListenerInterrupted ==
  /\ lpc = "polling"
  /\ interrupted
  /\ lpc' = "exited"
  /\ inbox' = <<>>
  /\ UNCHANGED <<callbacks, counter, stop, exPtr, lock, callerVars, gen, cur, todo, wire, sent, interrupted, alive>>

\* Mutant: m_callbacks is copied under the mutex and its callbacks run without it.
ListenerCopiesCallbacks ==
  /\ lpc = "locking"
  /\ lock = NoOne
  /\ todo' = Registered
  /\ lpc' = "delivering"
  /\ UNCHANGED <<callbacks, counter, stop, exPtr, lock, callerVars, gen, cur, busVars, interrupted, alive>>

ListenerLock ==
  /\ lpc = "locking"
  /\ lock = NoOne
  /\ lock' = Listener
  /\ todo' = Registered
  /\ lpc' = "delivering"
  /\ UNCHANGED <<callbacks, counter, stop, exPtr, callerVars, gen, cur, busVars, interrupted, alive>>

\* Mutant: what a callback throws ends the loop over the others.
CallbackReturnsOrThrows ==
  /\ lpc = "delivering"
  /\ \E id \in todo :
       /\ \A other \in todo : id <= other
       /\ todo' \in {todo \ {id}, {}}
  /\ UNCHANGED <<callbacks, counter, stop, exPtr, lock, callerVars, lpc, gen, cur, busVars, interrupted, alive>>

\* The callback with the smallest id left returns or throws; what it throws
\* is swallowed.
CallbackReturns ==
  /\ lpc = "delivering"
  /\ \E id \in todo :
       /\ \A other \in todo : id <= other
       /\ todo' = todo \ {id}
  /\ UNCHANGED <<callbacks, counter, stop, exPtr, lock, callerVars, lpc, gen, cur, busVars, interrupted, alive>>

ListenerUnlock ==
  /\ lpc = "delivering"
  /\ todo = {}
  /\ lock' = NoOne
  /\ lpc' = "polling"
  /\ UNCHANGED <<callbacks, counter, stop, exPtr, callerVars, gen, cur, todo, busVars, interrupted, alive>>

-----------------------------------------------------------------------------
\* The stream and the process around the object

\* publish() of this object or of another client of the stream, or the SYNC
\* of another MlmStreamClient that stops its own listener. Every publication
\* has a connection of its own, so those under way are not ordered.
Publish(kind) ==
  /\ sent < MaxMsgs
  /\ sent' = sent + 1
  /\ wire' = wire \cup {[kind |-> kind, from |-> NoOne, num |-> sent + 1]}
  /\ UNCHANGED <<callbacks, counter, stop, exPtr, lock, callerVars, listenerVars, inbox, interrupted, alive>>

\* The broker hands a message to the consumers the stream has at that time.
Route(m) ==
  /\ m \in wire
  /\ wire' = wire \ {m}
  /\ inbox' = IF Consuming THEN Append(inbox, m) ELSE inbox
  /\ UNCHANGED <<callbacks, counter, stop, exPtr, lock, callerVars, listenerVars, sent, interrupted, alive>>

Interrupt ==
  /\ "interrupt" \in Faults
  /\ ~interrupted
  /\ interrupted' = TRUE
  /\ UNCHANGED <<callbacks, counter, stop, exPtr, lock, callerVars, listenerVars, busVars, alive>>

-----------------------------------------------------------------------------
Running == \A c \in Callers : pc[c] # "terminated"

\* Steps a caller takes within a method, once it has called it.
CallerStep(c) ==
  \/ IncrementCounter(c) \/ AddCallback(c) \/ WaitStarted(c)
  \/ CheckStartup(c) \/ ReturnId(c)
  \/ Erase(c) \/ CheckEmpty(c) \/ PublishSync(c) \/ Join(c)
  \/ DestroySync(c) \/ DestroyJoin(c)

ListenerStep ==
  \/ ListenerStart \/ ListenerNotify \/ ListenerRecv \/ ListenerInterrupted
  \/ ListenerLock \/ CallbackReturns \/ ListenerUnlock

Next ==
  /\ Running
  /\ \/ \E c \in Callers :
          \/ BeginSubscribe(c)
          \/ SpuriousWakeup(c)
          \/ \E id \in SubIds : BeginUnsubscribe(c, id)
          \/ BeginDestroy(c)
          \/ CallerStep(c)
     \/ ListenerStep
     \/ \E kind \in {"MESSAGE", "SYNC"} : Publish(kind)
     \/ \E m \in wire : Route(m)
     \/ Interrupt

\* The scheduler runs every thread that can run, callbacks return, and the
\* broker routes what it was sent. Nobody has to call a method, publish,
\* interrupt the process or wake a waiter for nothing.
Fairness ==
  /\ \A c \in Callers : WF_vars(Running /\ CallerStep(c))
  /\ WF_vars(Running /\ ListenerStep)
  /\ WF_vars(Running /\ \E m \in wire : Route(m))

SafetySpec == Init /\ [][Next]_vars

Spec == SafetySpec /\ Fairness

-----------------------------------------------------------------------------
\* Properties

CallerPCs ==
  {"idle", "counting", "subscribing", "spawned", "waiting", "woken", "returning", "erasing",
   "erased", "syncing", "joining", "destroy_syncing", "destroy_joining",
   "destroyed", "terminated"}

ListenerPCs ==
  {"none", "starting", "failed", "ready", "polling", "locking", "delivering", "exited"}

\* Every variable has its type.
TypeOK ==
  /\ callbacks \in [SubIds -> Callers \cup {NoOne}]
  /\ counter \in 0 .. MaxSubs
  /\ stop \in BOOLEAN
  /\ exPtr \in BOOLEAN
  /\ lock \in Callers \cup {NoOne, Listener}
  /\ pc \in [Callers -> CallerPCs]
  /\ arg \in [Callers -> SubIds \cup {0}]
  /\ held \in [Callers -> SUBSET SubIds]
  /\ lpc \in ListenerPCs
  /\ gen \in Nat
  /\ cur \in Message
  /\ todo \in SUBSET SubIds
  /\ inbox \in Seq(Message)
  /\ wire \in SUBSET Message
  /\ sent \in 0 .. MaxMsgs
  /\ interrupted \in BOOLEAN
  /\ alive \in BOOLEAN

\* Once unsubscribe() has erased a callback, the listener neither runs it nor
\* is about to: the loop over m_callbacks never has an id that is not in the
\* map any more, however many threads subscribe and unsubscribe meanwhile.
NoCallbackAfterErase == lpc = "delivering" => todo \subseteq Registered

\* The SYNC message a client sends to stop its listener is never handed to
\* callbacks by the listener it was meant for: that listener has seen
\* m_stopRequested before, or sees it when SYNC arrives.
SyncStopsItsTarget ==
  lpc \in {"locking", "delivering"} => ~(cur.from \in Callers /\ cur.num = gen)

\* Who got an id from subscribe() and has not given it to unsubscribe() is
\* served: there is a listener thread and it has not left its loop, unless
\* the process was interrupted.
SubscriptionIsServed ==
  alive /\ ~interrupted /\ ListenerDown => \A c \in Callers : held[c] = {}

\* The same if the listener may fail to start, as long as it has not: a dead
\* thread is never taken for a listener that runs.
StartedIsServed == ~exPtr => SubscriptionIsServed

\* The destructor never ends the process: it does not destroy a joinable
\* thread and no exception leaves it.
NoTerminate == Running

\* m_listenerCallbackMutex has the owner the code between its lock and its
\* unlock makes it have, and who is elsewhere does not own it: whoever owns it
\* can release it without waiting for anybody.
LockOwnerIsInside ==
  /\ \A c \in Callers : lock = c <=> pc[c] \in {"spawned", "returning"}
  /\ lock = Listener <=> lpc = "delivering"

\* Who waits in join() waits for a listener that ends: it has left its loop, or
\* it consumes the stream, is to stop at its next message, and SYNC or another
\* message is on its way to it.
JoinIsNotInVain ==
  \A c \in Callers : pc[c] \in {"joining", "destroy_joining"} =>
    \/ lpc = "exited"
    \/ /\ lpc \in {"polling", "locking", "delivering"}
       /\ stop
       /\ Sync(c) \in wire \/ inbox # <<>>

\* Who waits in unsubscribe() or in the destructor for the listener to end
\* gets through: SYNC wakes the listener, or it has left its loop already.
StoppingReturns ==
  \A c \in Callers :
    pc[c] \in {"erasing", "destroy_syncing"} ~> pc[c] \in {"idle", "destroyed"}

\* A message that reached the listener's client is handed to the callback of
\* every subscription its owner keeps, unless the client is destroyed or the
\* process interrupted.
RoutedIsDelivered ==
  \A c \in Callers, id \in SubIds, n \in 1 .. MaxMsgs :
    (\E i \in DOMAIN inbox : inbox[i].from = NoOne /\ inbox[i].num = n) /\ id \in held[c]
      ~> \/ lpc = "delivering" /\ cur.from = NoOne /\ cur.num = n /\ id \in todo
         \/ id \notin held[c]
         \/ ~alive
         \/ interrupted

\* What the callback of a subscription has yet to be handed: the message being
\* handed out, if it is still due, and those that wait behind it.
Owed(id) ==
  IF id \in Registered
    THEN (IF lpc = "locking" \/ (lpc = "delivering" /\ id \in todo) THEN <<cur>> ELSE <<>>)
         \o inbox
    ELSE <<>>

Promise == INSTANCE Subscription WITH
  Ids <- SubIds,
  active <- Registered,
  queue <- [id \in SubIds |-> Owed(id)],
  open <- alive /\ ~interrupted

\* One owner's subscriptions are what Subscription promises: each is handed
\* what the broker routed while it was there, in order, once, in step with the
\* others, and across listeners that stop and start again nothing is dropped.
SubscriptionSpec == Promise!Spec

\* Nobody keeps m_listenerCallbackMutex for ever, a subscribe() whose listener
\* is not up yet included, while the process lives.
LockIsReleased == []<>(lock = NoOne \/ ~Running)

\* A subscribe() whose listener has failed to start ends (by rethrowing
\* m_exPtr).
StartupErrorIsTransferred ==
  \A c \in Callers : (pc[c] \in {"spawned", "waiting"} /\ exPtr) ~> pc[c] = "idle"
=============================================================================
