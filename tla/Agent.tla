------------------------------- MODULE Agent --------------------------------
(***************************************************************************)
(* MlmAgent::mainloop() (src/fty_common_mlm_agent.cc): one thread that     *)
(* waits for messages from the pipe of its zactor_t, from the broker and   *)
(* from other sockets of the subclass, gives each to its callback, and     *)
(* calls tick() every now and then.                                        *)
(*                                                                         *)
(* The callbacks are the subclass's: they take up to MaxBusy of time, and  *)
(* some may end the agent. The loop itself takes no time.                  *)
(***************************************************************************)
EXTENDS Integers, Sequences

CONSTANTS
  PollerTimeout,  \* m_pollerTimeout, negative to disable tick()
  MaxBusy,        \* the longest a callback, or the subclass's constructor, takes
  Quitters,       \* callbacks of the subclass that may return false
  Interrupts,     \* whether the process may receive a signal
  MaxMessages,    \* bound: messages in a behaviour
  MaxTime         \* bound: the clock

Sources == {"pipe", "client", "other"}

Callbacks == {"tick", "handlePipe", "handleMailbox", "handleStream", "handleOther"}

ASSUME AgentAssumption ==
  /\ PollerTimeout \in Int
  /\ MaxBusy \in Nat
  /\ Quitters \subseteq Callbacks
  /\ Interrupts \in BOOLEAN
  /\ MaxMessages \in Nat
  /\ MaxTime \in Nat

VARIABLES
  now,        \* zclock_mono()
  pc,         \* where the loop is
  polled,     \* when the last zpoller_wait() began
  which,      \* the socket it returned, or "none"
  curClock,   \* the time it returned
  callback,   \* the callback that runs, and what it will return at best
  since,      \* when it was called
  lastTick,   \* m_lastTick
  pending,    \* messages in each socket
  arrived,    \* messages so far
  interrupted \* zsys_interrupted

loopVars == <<polled, which, curClock, lastTick>>
callVars == <<callback, since>>
vars == <<now, pc, loopVars, callVars, pending, arrived, interrupted>>

\* The messages of a socket, by the callback they are for; TERM is "$TERM",
\* for handlePipe(). UNKNOWN is a pattern that has no callback.
Kinds(s) ==
  CASE s = "pipe" -> {"TERM", "handlePipe"}
    [] s = "client" -> {"handleMailbox", "handleStream", "UNKNOWN"}
    [] s = "other" -> {"handleOther"}

Message == UNION {Kinds(s) : s \in Sources}

Empty == \A s \in Sources : pending[s] = <<>>

Init ==
  /\ now \in 0 .. MaxBusy
  /\ pc = "waiting"
  /\ polled = now
  /\ which = "none"
  /\ curClock = 0
  /\ callback = "UNKNOWN"
  /\ since = 0
  /\ lastTick = 0
  /\ pending = [s \in Sources |-> <<>>]
  /\ arrived = 0
  /\ interrupted = FALSE

-----------------------------------------------------------------------------
\* mainloop()

\* zpoller_wait() returns a socket that has a message. Which, if several have,
\* is for the poller to choose.
Wake(s) ==
  /\ pc = "waiting"
  /\ pending[s] # <<>>
  /\ pc' = "woken"
  /\ which' = s
  /\ curClock' = now
  /\ UNCHANGED <<now, polled, lastTick, callVars, pending, arrived, interrupted>>

\* zpoller_wait() returns NULL.
Expire ==
  /\ pc = "waiting"
  /\ \/ interrupted
     \/ Empty /\ PollerTimeout >= 0 /\ now >= polled + PollerTimeout
  /\ pc' = "woken"
  /\ which' = "none"
  /\ curClock' = now
  /\ UNCHANGED <<now, polled, lastTick, callVars, pending, arrived, interrupted>>

\* Mutant: the time of a tick is looked for only if there is no message.
TickIsDueIfIdle ==
  PollerTimeout > 0 /\ lastTick + PollerTimeout < curClock /\ which = "none"

TickIsDue == PollerTimeout > 0 /\ lastTick + PollerTimeout < curClock

Run(name) ==
  /\ callback' = name
  /\ since' = now

CheckTick ==
  /\ pc = "woken"
  /\ IF TickIsDue
       THEN pc' = "busy" /\ Run("tick")
       ELSE pc' = "dispatch" /\ UNCHANGED callVars
  /\ UNCHANGED <<now, loopVars, pending, arrived, interrupted>>

\* The end of the loop's body, and its condition.
Continue ==
  IF interrupted
    THEN pc' = "stopped" /\ UNCHANGED polled
    ELSE pc' = "waiting" /\ polled' = now

\* The message is taken from the socket and given to its callback.
Dispatch ==
  /\ pc = "dispatch"
  /\ which # "none"
  /\ LET m == Head(pending[which])
     IN IF m = "UNKNOWN"
          THEN Continue /\ UNCHANGED callVars
          ELSE pc' = "busy" /\ Run(m) /\ UNCHANGED polled
  /\ pending' = [pending EXCEPT ![which] = Tail(@)]
  /\ UNCHANGED <<now, which, curClock, lastTick, arrived, interrupted>>

\* There is no message: zpoller_wait() or, interrupted, zmsg_recv() or
\* mlm_client_recv() returned NULL.
DispatchNothing ==
  /\ pc = "dispatch"
  /\ \/ which = "none" /\ Continue
     \/ which # "none" /\ interrupted /\ pc' = "stopped" /\ UNCHANGED polled
  /\ UNCHANGED <<now, which, curClock, lastTick, callVars, pending, arrived, interrupted>>

\* Mutant: m_lastTick is the time of the next tick().
NextTickTime == lastTick + 2 * PollerTimeout

TickTime == curClock

\* m_lastTick is the time before tick(), and stays if tick() ends the agent.
\* The socket is dispatched after it.
TickReturns ==
  /\ pc = "busy"
  /\ callback = "tick"
  /\ \/ pc' = "dispatch" /\ lastTick' = TickTime
     \/ "tick" \in Quitters /\ pc' = "stopped" /\ UNCHANGED lastTick
  /\ UNCHANGED <<now, polled, which, curClock, callVars, pending, arrived, interrupted>>

\* Mutant: handlePipe() returns true for every command.
AlwaysMayContinue == TRUE

\* handlePipe() returns false for $TERM.
MayContinue == callback # "TERM"

HandlerReturns ==
  /\ pc = "busy"
  /\ callback # "tick"
  /\ \/ MayContinue /\ Continue
     \/ callback \in Quitters \cup {"TERM"} /\ pc' = "stopped" /\ UNCHANGED polled
  /\ UNCHANGED <<now, which, curClock, lastTick, callVars, pending, arrived, interrupted>>

-----------------------------------------------------------------------------
\* The others

Arrive(s) ==
  /\ arrived < MaxMessages
  /\ arrived' = arrived + 1
  /\ \E m \in Kinds(s) : pending' = [pending EXCEPT ![s] = Append(@, m)]
  /\ UNCHANGED <<now, pc, loopVars, callVars, interrupted>>

Interrupt ==
  /\ Interrupts
  /\ ~interrupted
  /\ interrupted' = TRUE
  /\ UNCHANGED <<now, pc, loopVars, callVars, pending, arrived>>

\* Time passes while the poller waits and while a callback runs.
Clock ==
  /\ now < MaxTime
  /\ \/ /\ pc = "waiting"
        /\ Empty
        /\ ~interrupted
        /\ PollerTimeout >= 0 => now < polled + PollerTimeout
     \/ pc = "busy" /\ now < since + MaxBusy
  /\ now' = now + 1
  /\ UNCHANGED <<pc, loopVars, callVars, pending, arrived, interrupted>>

Step ==
  \/ \E s \in Sources : Wake(s)
  \/ Expire
  \/ CheckTick
  \/ Dispatch
  \/ DispatchNothing
  \/ TickReturns
  \/ HandlerReturns

Next ==
  \/ Step
  \/ \E s \in Sources : Arrive(s)
  \/ Interrupt
  \/ Clock

SafetySpec == Init /\ [][Next]_vars

\* The thread runs, and the callbacks return.
Spec == SafetySpec /\ WF_vars(Step)

-----------------------------------------------------------------------------
\* Properties

\* Every variable has its type.
TypeOK ==
  /\ now \in Nat
  /\ pc \in {"waiting", "woken", "busy", "dispatch", "stopped"}
  /\ polled \in 0 .. now
  /\ which \in Sources \cup {"none"}
  /\ curClock \in 0 .. now
  /\ callback \in Message \cup {"tick"}
  /\ since \in 0 .. now
  /\ lastTick \in 0 .. now
  /\ pending \in [Sources -> Seq(Message)]
  /\ arrived \in 0 .. MaxMessages
  /\ interrupted \in BOOLEAN

\* The longest time without a tick(): an iteration that came too early for it
\* or that called it, the callback it dispatched, and a whole zpoller_wait().
LongestGap ==
  PollerTimeout + MaxBusy + (IF MaxBusy > PollerTimeout THEN MaxBusy ELSE PollerTimeout)

\* tick() is called at a "rough interval" of m_pollerTimeout: however many
\* messages arrive, and whenever they do, LongestGap is the longest it takes.
TickIsNotStarved ==
  PollerTimeout > 0 /\ pc # "stopped" /\ ~(pc = "busy" /\ callback = "tick")
    => now - lastTick <= LongestGap

\* zactor_destroy() sends $TERM, and the agent ends.
TermStops ==
  (\E i \in 1 .. Len(pending["pipe"]) : pending["pipe"][i] = "TERM") ~> pc = "stopped"
=============================================================================
