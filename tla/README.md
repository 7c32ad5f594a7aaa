# fty-common-mlm in TLA+

A verification development for `fty-common-mlm`, a C++ library of helpers around
the Malamute message broker: models of its concurrent and communicating parts,
the configurations with which TLC checks them, and theorems TLAPS proves about
them. Line numbers are those of the sources beside this directory
(`../src/src/*.cc`, `../src/include/*.h`, `../src/test/*.cc`).

## 1. The system

| Component | State it keeps | Operations | What makes it correct |
|---|---|---|---|
| `MlmStreamClient` (`fty_common_mlm_stream_client.cc`) | the map of callbacks, the counter of ids, the stop flag, the exception of a failed start, a mutex, a condition variable, the listener thread | `publish`, `subscribe`, `unsubscribe`, the destructor, the listener's loop | a subscription that is held is served; a callback that was erased does not run; stopping ends and never terminates the process |
| `Pool<T>` (`fty_common_mlm_pool.h`) | the vector of spare objects, its limit, a mutex; each `Ptr` has an object and a pool | `get`, `drop`, `setMaximumSize`, construction and destruction; moves, `release`, `setPool` and the end of a `Ptr` | an object has one owner, none is lost, the pool stays below its limit, and `get` gives an object |
| `MlmClient` (`fty_common_mlm_tntmlm.cc`) | a Malamute client with its mailbox, its uuid and a poller | `recv`, `sendto`, `requestreply`, `connect` | the reply to one's own request, or NULL when the timeout has passed and no earlier |
| `MlmSyncClient` (`fty_common_mlm_sync_client.cc`) | names and the timeout only; each call has a client of its own, all calls of a thread one mailbox | `syncRequestWithReply` | the results that were computed for this request |
| `MlmBasicMailboxServer` (`fty_common_mlm_basic_mailbox_server.cc`) | a reference to the `SyncServer` that handles requests | `handleMailbox`, called by the agent | each request answered to the one who sent it, under its id |
| `MlmAgent` (`fty_common_mlm_agent.cc`) | a Malamute client, the pipe of its `zactor_t`, the time of the last `tick` | `mainloop` and the callbacks of subclasses | every source served, `tick` not starved, `$TERM` ends it |
| `fty_uuid` (`fty_common_mlm_uuid.cc`) | a `zuuid_t`, into which the returned text points | `fty_uuid_create`, `_calculate`, `_generate` | the same uuid for the same device, and another for another; the text returned is not spoiled by others |
| `MlmUtils` (`fty_common_mlm_utils.cc`) | none | conversions of `zhash_t` to `std::map` and back | the hash outlives the map it was made from |
| `MlmObjGuard` (`fty_common_mlm_guards.h`), `ZConfig` (`fty_common_mlm_zconfig.cc`) | one C pointer | assignment, destruction; `getEntry`, `setEntry`, `save` | the pointer is destroyed once |

How they interact. `MlmBasicMailboxServer` is an `MlmAgent`, and answers what
`MlmSyncClient` asks, through mailboxes of the broker. `MlmClient` objects live
in a `Pool`, the global `mlm_pool`, and go from user to user with what is left
in their mailbox. `MlmStreamClient` publishes and listens through streams of the
broker, each publication on a connection of its own; it also sends itself, through
the broker, the `SYNC` message that makes its listener look at the stop flag.
The broker, CZMQ's pollers and clocks, and signals are external: they are
modelled as the code relies on them.

Where it is hard: the listener thread against the callers of a stream client
(mutex, condition variable, two fields read and written without either); the
order of messages that travel on separate connections; failures half-way
(a listener that does not start, a publication that throws in `unsubscribe()`);
handles that are moved; mailboxes that outlive the call that used them; timeouts
that run while messages for others arrive. `PROJECT.json` lists these hazards
line by line, with the properties that watch them.

## 2. The modules

| Module | Models | Proofs |
|---|---|---|
| `Subscription` | what a stream client promises its subscribers | |
| `StreamClient` | `MlmStreamClient`, its callers, its listener, the stream; implements `Subscription` with one owner | `StreamClientProofs`, `StreamOwnerProofs` |
| `ObjectLending` | what a pool of objects promises | |
| `ClientPool` | `Pool<T>` and `Pool::Ptr`; implements `ObjectLending` | `ClientPoolProofs` |
| `RequestReply` | what a request promises who makes it | |
| `SyncRequest` | `MlmSyncClient` and `MlmBasicMailboxServer`, with mailboxes between; implements `RequestReply` | `SyncRequestProofs` |
| `MlmClient` | `MlmClient`, with its mailbox and the clock; implements `RequestReply` | `MlmClientProofs`, `MlmClientRefinement` |
| `Agent` | `MlmAgent` | `AgentProofs` |
| `CObjects` | `MlmObjGuard`, `ZConfig`, `fty_uuid` and `map_to_zhash()` | `CObjectsProofs` |
| `MC*` | constants of these modules for TLC | |

The operators that begin with the comment "Mutant" are faulty variants of the
definition they stand before. They are part of no specification: put in its
place, each makes a property fail, which shows that the property depends on that
piece of the code.

### StreamClient

One `MlmStreamClient` object. `callbacks` is `m_callbacks` (for each id the
caller whose callback it is), `counter`, `stop`, `exPtr` and `lock` are the
members of those names; `lpc` is where the listener thread is, and `"none"` when
`m_listenerThread` is not joinable. `pc[c]` is where the caller `c` is.

The steps of a method are cut where another thread can see or change something:
`BeginSubscribe` (124, the read of `m_counter++`), `IncrementCounter` (125, its
write), `AddCallback` (127-134), `WaitStarted` (136), `CheckStartup` (139-144),
`ReturnId`; `BeginUnsubscribe` (149, without the mutex), `Erase` (151-152),
`CheckEmpty` (156, without the mutex), `PublishSync`, `Join`; `BeginDestroy`,
`DestroySync`, `DestroyJoin`; `ListenerStart`, `ListenerNotify`, `ListenerRecv`,
`ListenerLock`, `CallbackReturns`, `ListenerUnlock`. A wait on the condition
variable is ended by a notification that comes after it began and by nothing
else, but for `SpuriousWakeup`. `wire` is a set: publications have connections of
their own and are not ordered. `Route` hands a message to the listener's client
if it is a consumer at that time. `gen` numbers the listener threads, so that a
`SYNC` names the one it is meant for.

What may go wrong is the constant `Faults`: a listener that cannot connect, a
publication that throws, spurious wake-ups, an interruption.

`Subscription` is what this amounts to for who subscribes: each active
subscription has a queue; what is published goes to the end of all of them;
callbacks are handed the messages of theirs in order and once, and nobody is two
ahead of another; nothing is lost until the client is destroyed or interrupted.
The queue of an id is `Owed(id)`: the message the listener is handling, if that
callback has yet to run, and the inbox. Who subscribes to a client that has a
listener joins others, and gets what they have yet to be handed. A callback does
not throw in the model: the mutant that lets it shows that the rest of the
subscribers would miss the message.

### ClientPool and ObjectLending

`freePool` and `maxSpare` are the members of the pool; `ptr[h]` is a handle:
whether it exists, its `m_object`, and whether its `m_pool` is set. Every method
of the pool is one critical section, and a handle belongs to one thread, so a
call is one step and the interleavings of threads are those of their calls.
`Unlink` is `doUnlink()` with `put()` and the end of `m_object`, in the
destructor and in the move assignment alike. `std::move` of the raw pointer
`m_pool` copies it: a handle that was moved from has no object and a pool.

`ObjectLending` says what happens to an object, without any pool: made only if
none is spare, lent, given back, lent again, destroyed, never lost. `ClientPool`
implements it with the mapping `Status`.

### RequestReply

A caller begins a request, or claims one made before (`recv()` after `sendto()`);
the request is sent or gets lost; who is asked answers it at most once; the
answer goes to the caller that waits for it, once, or gets lost; callers may give
up. Both clients of this library implement it, by mappings at the end of
`SyncRequest` and `MlmClient`: `asked` is what is in the server's mailbox or
being handled (what the peer has yet to answer), `answered` what is in the
caller's mailbox. That a caller gets an answer at all is not its matter: `CallEnds`
and `ReplyIsNotMissed` say when.

### SyncRequest

`box[t]` is the mailbox `<client id>.<thread id>` of thread `t`, `serverBox` that
of the server. A call is `Connect`, `Send`, `Await`, `Receive`; an interruption
ends it at the two places where `zsys_interrupted` is looked at (`GiveUp`), or in
`mlm_client_recv()`, whose NULL result `zmsg_size()` does not survive (`Abort`).
When a client disconnects, the broker may have handed it any number of the
messages of its mailbox, which are lost; the others stay for the next call
(`Suffixes`). `ServerReceive` and `ServerAnswer` are `handleMailbox()`: a message
that is no request, or has no id, is dropped; a request gets a reply unless
`handleRequest()` throws, has no results, or the reply cannot be sent. The server
may stop and be started again. `unanswered` is a history variable.

### MlmClient

One client, its calls one after the other, by one user or by several that get it
from the pool in turn. Time is a variable, and passes between any two steps: while
`zpoller_wait()` waits, but also while the thread connects, looks at a message or is
not scheduled, so that a deadline may pass with messages in the mailbox (`Tick` has no
condition but the bound). `start + wait` is the deadline, which `requestreply()`
calls `quit`; `Remaining` is the computation of lines 77-82. `zpoller_wait()` returns a
message if there is one, and NULL when its timeout has passed, or later. A reply may
come at any time, late, never, or with a wrong second frame. `discarded` is a history
variable, and so is `due`: whether the reply came to an empty mailbox that the call was
polling (`awaited`), or is in the mailbox in another way (`queued`).

### Agent

The loop of `MlmAgent`: `Wake` or `Expire` (`zpoller_wait()`), `CheckTick`,
`TickReturns`, `Dispatch` or `DispatchNothing`, `HandlerReturns`. Callbacks belong
to subclasses: they take up to `MaxBusy` of time, and those in `Quitters` may return false.
If several sockets have messages the poller may choose any.

### CObjects

`kind[h]` says which wrapper is at place `h` and `ptr[h]` which object it points
to. `Replace` is what all of them do with their pointer: `MlmObjGuard::operator=`,
the destructors, and `fty_uuid_generate()`, which destroys the `zuuid_t` and makes
another. `AssignOwned` and `Copy` are what the types let a user do and should not:
give a guard what a guard owns (its own `get()` included), copy a guard by the
assignment the compiler generates (only the copy constructor is deleted), copy a
`ZConfig`. They are in the model so that the properties can say what they spoil.

`CreateForDevice` and `CreateForOther` are `fty_uuid_create()`. It returns a pointer: into
the `zuuid_t` of the `fty_uuid_t`, or to a constant. So `value[o]` is the uuid that is read
in the object `o` (in the constant, for 0), and `text[h]` says into which object the text
points that was last returned with the `fty_uuid_t` at `h`, and for which asset. Using the
`fty_uuid_t` again changes what is read there (84) or frees it (95). Values of attributes
are sequences of letters because the uuid of a device is the SHA1 of three texts one after
the other: assets whose texts differ may get the same. A device that lacks an attribute
gets the constant `ffffffff-...`. A hash of `map_to_zhash()` refers to memory that is freed
when that returns: the model reads any text from it.

The comment on the function (`fty_common_mlm_uuid.cc:117-120`, and the same in
`fty_common_mlm_uuid.h`) says that the uuid is calculated whenever the three attributes are
known; the code looks at the type first (128), and for an asset that is no device makes a
random one even so (131). `TextsTellAssetsApart` is about what the two agree on
(`Promised`): it leaves out the assets that are no devices and have all attributes.

## 3. The runs

Each run checks the properties its `.cfg` names. Passing runs:

| Run | Bounds | Shows |
|---|---|---|
| `stream_owner` | 1 thread, 3 subscriptions, 2 foreign messages, a listener that fails to start, an interruption | `TypeOK`; `SyncStopsItsTarget`; `NoTerminate`; `StartedIsServed`; `JoinIsNotInVain`; `StoppingReturns`; `RoutedIsDelivered`; `SubscriptionSpec` |
| `stream_callers` | 2 threads, 2 subscriptions, 1 foreign message, publications that fail, spurious wake-ups | `NoCallbackAfterErase`; `LockOwnerIsInside`; `LockIsReleased` |
| `pool_moves` | 3 handles, 3 objects, limits 0 to 2 | `TypeOK`; `OneOwner`; `SpareIsBounded`; `SlotsComeFromHandles`; `LendingSpec` |
| `sync_calls` | 2 threads, 3 calls, 1 stray message, all faults | `TypeOK`; `OwnReply`; `NoMismatch`; `WaitIsNotInVain`; `CallEnds`; `RequestReplySpec` |
| `client_all` | 2 requests, timeouts 0 and 4 (trimmed to 3), 5 units of time, 1 foreign message, all faults | `TypeOK`; `OwnReply`; `NotLate`; `ReplyIsNotMissed`; `RequestWaitsFully`; `RecvWaitsItsShare`; `RequestReplySpec` |
| `agent` | interval 3, callbacks up to 1, 3 messages, 13 units of time | `TypeOK`; `TickIsNotStarved`; `TermStops` |
| `c_objects` | 2 wrappers, 3 objects, 6 assets | `TypeOK`; `OneOwner`; `TextsTellAssetsApart` |

Why the bounds are enough. Three subscriptions of one owner give a listener that
is started, stopped and started again with messages of the first still on the
wire, and two that overlap. Two foreign messages and the `SYNC`s arrive in every
order. Two threads and two subscriptions give each pair of method calls at every
pair of steps. In the pool three handles can hold, move and give back while the
limit goes down and up, and `MaxSlots` stops only the moves that would add null
slots without end (the reason why the vector could otherwise grow for ever).
Three calls give a thread one mailbox that a second call finds
used, and another thread beside it. In `client_all` a call can meet the late reply to
the other request and a foreign message, the two messages it takes to get the
arithmetic of `recv()` wrong; the timeout of 4 is above `Limit` and is trimmed to 3, and
time goes on for two units after the deadline of a call that begins at once.
`client_early` has two foreign messages and no faults, so that nothing but the arithmetic
makes `recv()` return.
In `agent` the clock runs for longer than
`LongestGap`, and messages can come so that the poller does not expire meanwhile.
In `c_objects` one wrapper can be copied to the other or be destroyed and made
anew, three objects are a `zuuid_t` and two random ones after it, and among the six
assets two differ but concatenate to the same, two differ in the serial number
only, and two lack attributes; the two wrappers are interchangeable, so the
places are symmetric.
`CHECK_DEADLOCK` is off: bounds, destroyed clients and stopped agents end every
behaviour.

The faults are split between the two passing runs of `StreamClient`, because two
of them break what one owner may expect. A publication that fails leaves a thread
that nobody joins (`stream_terminate`). After a wait that ends without a
notification, `unsubscribe()` can publish its `SYNC` before the listener consumes
the stream: the broker drops it and the join does not end. `NoMismatch` speaks of
the behaviours in which nobody else wrote to a mailbox (`strays = 0`), `OwnReply`
of all of them.

Runs that find a violation, each of something a comment or a test says:

| Run | Property | What happens |
|---|---|---|
| `stream_lost_notify` | `StartupErrorIsTransferred` | the listener notifies before `subscribe()` waits (136 against 236): the error at startup is never rethrown and the caller hangs |
| `stream_unserved` | `SubscriptionIsServed` | a listener that did not start stays joinable (131), so the next subscriber gets an id and no listener |
| `stream_terminate` | `NoTerminate` | `publishOnBus()` throws in `unsubscribe()` or in the destructor (158, 62) |
| `pool_null` | `GetGivesAnObject` | a moved-from handle gives a null object back (pool.h:36), which is lent out |
| `client_early` | `NullMeansExpired` | `recv()` subtracts the time since its start at each foreign message (tntmlm.cc:81): with two of them, at times 1 and 2, it gives up at 2 instead of 3 |

### Fairness

`StreamClient`: each thread that can run does (`WF` of the steps of each caller
and of the listener), and the broker routes what it has. No method call, no
publication, no interruption and no spurious wake-up is demanded. The mutex is
fair enough by itself in these runs: nobody takes it for ever. `SyncRequest`: each thread that
is in a call goes on, the server receives and `handleRequest()` returns; nobody has to
call, and a server that stopped need not start again. `Agent`: the thread runs
and its callbacks return. These are what the schedulers of the operating system and the broker
provide; nothing is assumed about the order in which they do it.

## 4. The proofs

The theorems hold for all values of the constants that satisfy the `ASSUME` of
the module (ranges and distinctness only) and the assumptions named in the theorem.

* `TypeCorrect` (`StreamClientProofs`). `TypeOK` is not inductive: that `counter`
  stays an id needs `CountingBelowMax` (who has read the counter read less than the
  bound) and `CounterStarted`. With them it is, `TInv`.
* `ErasedIsNotCalled`: `LockInv` says that who is in a critical section owns the
  mutex, and that the listener, while it delivers, owns it and has only registered
  ids left. It holds for any number of racing threads.
* `SyncIsNotDelivered` (`StreamOwnerProofs`), with one owner (`OneOwner`):
  `SyncInv` says that the stop flag is set from before `SYNC` is published until
  the join, and that every `SYNC` on the wire or in the inbox is aimed at an
  earlier listener, or at this one by a caller that is waiting for it.
* `DestructorIsSafe`, with one owner and publications that succeed: `OwnerInv`
  relates, for each place the owner can be at, the callbacks and the thread: the
  thread is joinable exactly if a callback is registered or a stop is under way.
* `HeldIsServed`, with one owner and publications that succeed: `StartedIsServed`,
  that whoever holds an id has a listener, unless that failed to start or the
  process was interrupted. `ServedInv` adds to `OwnerInv` that a listener that
  started leaves its loop only because the stop was requested, and that it is not
  requested while an id is held. The runs `stream_unserved` and `stream_terminate`
  show that the exception and the assumption are needed. `HeldIsAlwaysServed`: if no
  listener fails to start there is no exception, and `SubscriptionIsServed`, which
  `stream_unserved` violates, holds.
* `SubscribersAreServed`, with one owner and publications that succeed:
  `SafetySpec => SubscriptionSpec`. Spurious wake-ups, failed starts and interruptions
  are allowed. The invariant `SubscriptionInv` is `TInv`, `LockInv`, `OwnerInv` and
  `ServedInv` with `InboxIsConsumed`: no message waits for a listener that does not
  consume. `OwedIs` says what the queue of an id is at each place the listener can
  be at, `OwedWillBe` what a step makes of it; `SubscriptionStep` what the step does
  to all queues together, and `StepsAreSubscription` that this is a step of
  `Subscription` or a stutter. Then each action of the code is one of these.
* `JoinsAreHeard`, with one owner, publications that succeed and no spurious wake-up:
  `JoinInv` adds to `JoinIsNotInVain` that `subscribe()` does not return before its
  listener is in its loop or has left it (`StartIsAwaited`). That is what a wake-up without a
  notification breaks: without the assumption TLC finds a `SYNC` that the broker
  drops. It uses `OwnerInv` and `SyncInv`. It is the safety part of `StoppingReturns`: what is left
  is that the thread and the broker go on.
* `LockIsNeverStuck` (`StreamClientProofs`), for any number of threads and every fault: the
  mutex is owned by who is between its lock and its unlock, where no step waits for
  another thread. It is the safety part of `LockIsReleased`.
* `PoolTypeCorrect`, `ObjectsHaveOneOwner`, `SpareNeverOutgrowsLimit`
  (`ClientPoolProofs`). `OneOwner` becomes inductive with `NoStrayObject`: a handle
  that does not exist holds nothing. The lemmas `UnlinkEffect` and `TrimEffect` say
  what `put()` and `resize()` do to the sets of lent, spare and destroyed objects.
* `PoolLends`: every step of `ClientPool` changes those sets as one step of
  `ObjectLending` does, or not at all (`PlacesStep`), so `Spec => LendingSpec`.
* `PoolFillsNoSlot`: each step leaves the slots alone, drops those at the end, or adds what a
  handle gave back (`SlotsStep`). `SmallerIsLength`, that `resize()` never gets a size above
  the one it has, is what it rests on.
* `UnmovedGetGivesAnObject`, if handles are not moved: no handle that has a pool
  and no slot is null. `pool_null` shows that the assumption is needed.

* `SyncTypeCorrect`, `ClientTypeCorrect`, `AgentTypeCorrect`, `ObjectsTypeCorrect`.
  Times are the point of the second and third: that no time is in the future, so that
  what is left of a timeout is not negative (`TimeTyped`, `ClockTyped`). `SourceIsReady`
  says that `mainloop()` never dispatches an empty socket. In `CObjects` the types
  need `TextInv`.
* `CallsReturnTheirOwnReply` (`SyncRequestProofs`) and `RequestsReturnTheirOwnReply`
  (`MlmClientProofs`): `OwnInv`, every message that has the id of a request has the
  results of that request, wherever it is (`Truthful`).
* `NoCallMeetsAnEarlierReply`, without strays: `Tidy(t)`. A thread that is about to
  send has nothing under way (`Quiet`); one that waits has at most its last request or
  the reply to it, in one of three places (`OneUnderWay`). An interrupted thread
  may leave its reply behind, and never waits again.
* `NoCallWaitsInVain`: `WaitInv`, the request of a thread that waits is with the server,
  or there is something in its mailbox, or the request got no reply; for the step of the server
  it needs that one request at most is being handled. It is the safety part of
  `CallEnds`, and holds with strays, which the call takes for its reply.
* `CallsKeepRequestReply`: `Spec => RequestReplySpec`. `IdsInv` says that an id is in one
  of the mailboxes, once, or being handled; `NewInv` that what a thread is about to
  send is nowhere yet. Then each step is one of `RequestReply` or a stutter
  (`StepsAreRequestReply`).
* `NoCallIsLate` and `RequestsWaitTheirTimeout` (`MlmClientProofs`): `PollInv`, what
  `zpoller_wait()` is given is 0 or ends no later than the deadline, and in `requestreply()`
  exactly then. `client_early` shows why the equality is not there for `recv()`.
* `RecvsWaitTheirShare` says how far that goes: `recv()` that discarded n messages waited at
  least the n-th part of its timeout, and all of it if n is 0 or 1. `ShareInv`: what is
  left for `zpoller_wait()` is the timeout less at most n times what had passed when the last
  message came (`DiscardShare`, `ExpireShare`). With two the bound is reached: `client_early`.
* `OnlyLateRepliesAreMissed`: `DueInv`, a reply stays in the mailbox until it is taken, and one
  that was awaited stays the first there. So `recv()`, which gives up only with an empty
  mailbox, misses none; `requestreply()`, which looks at its deadline between messages
  (140-143), can leave one behind that was queued, and does in some behaviours.
* `ClientKeepsRequestReply` (`MlmClientRefinement`): `UniqueInv`, no request is with
  the peer and answered, or answered twice.
* `TickKeepsItsPace` (`AgentProofs`): `PaceInv`, how long ago the last `tick()` may be at
  each point of an iteration. If the interval is 0 the property says nothing.
* `ObjectsAreDestroyedOnce` (`CObjectsProofs`): `OneOwner` is inductive with the types
  of the owners (`OwnersTyped`). `TextsStayAndTellAssetsApart`: `TextInv`, a text is in the
  object its `fty_uuid_t` owns, which no other wrapper shares, and what is read there is
  the uuid calculated for the asset, or the random one of that object (`TextIsRight`).
  That each `zuuid_t` has one owner is what keeps other wrappers away from it.

Every invariant and every refinement that a passing run checks is proved. Only
model-checked: liveness (`RoutedIsDelivered`, `StoppingReturns`, `LockIsReleased`,
`CallEnds`, `TermStops`), as fairness and `ENABLED` are beyond the provers used here.

Where a theorem about `StreamClient` assumes one owner or a fault that does not
happen, a run shows why: `stream_terminate` for publications, `stream_lost_notify`
and `stream_unserved` for the start. With two owners the second `subscribe()` can
reset the stop flag between the first one's request and its `SYNC`, and neither the
join nor the service of an id is certain.

## 5. What is not modelled

* Payloads, names, log messages. The name of the sender that the server cuts out
  of the address is left out with them.
* `publishOnBus()` is one step: its client is its own, and it succeeds or throws.
* Callbacks that call the stream client again. They run with the mutex held
  (218), so `subscribe()` and `unsubscribe()` from a callback wait for themselves.
* Calls that are refused at once (`requestreply()` without content or address).
* Malamute and CZMQ beyond what the code relies on; the time `connect()` takes
  in the constructor of a pooled client.
* `zhash_to_map()`, which changes nothing, and `zmsg_popstring()`, which is declared
  and not defined; the entries of a `ZConfig` and its file, which are CZMQ's.
* What the destructors of CZMQ do beside ending the object.
* `ClientPool` and `MlmClient` composed. `MlmClient` already is a client that goes from user to
  user with its mailbox, and by `OneOwner` and `LendingSpec` one user has it at
  a time: the composition would repeat the two.

## 6. Plan

Done: `StreamClient` with its proofs, `ObjectLending` and `ClientPool` with theirs,
`SyncRequest`, `MlmClient`, `Agent`; then `Subscription` and `RequestReply` with the
three refinements, and `CObjects`; then the proofs of `SyncRequest`, `MlmClient`, `Agent`
and `CObjects`, and of the two refinements of `RequestReply`; then the refinement of
`Subscription`, the safety parts of three of the liveness properties, and how early
`recv()` may give up.

Left: the safety part of `TermStops` (`$TERM` is in the pipe or the agent has ended), which
takes a history of what was sent to the pipe. No part of the code with a behaviour of its
own is left to model.
