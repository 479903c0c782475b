--------------------------- MODULE ManagedRuntime ---------------------------
(***************************************************************************)
(* The proxy's managed runtimes (proxy_runtime.py): local model servers    *)
(* the proxy starts on demand, shares between requests, reaps when idle    *)
(* and stops at shutdown.  Everything runs on one asyncio event loop, so a *)
(* step of this module is the code between two suspension points; the      *)
(* suspension points are the program counters of the actors:               *)
(*                                                                         *)
(*   - a request asks for a backend (ensure_running), uses it between      *)
(*     begin_request and end_request, and touches it once it has answered; *)
(*   - the Reaper is the task of reap_idle_forever;                        *)
(*   - the Closer is the shutdown part of the proxy's lifespan.            *)
(*                                                                         *)
(* A tick of the model's time is one second.  _RuntimeState.log_handle is  *)
(* set and cleared together with _RuntimeState.process and has no variable *)
(* of its own.  uvicorn runs the lifespan's shutdown only when no request  *)
(* is in flight, and nothing else cancels a request's task.                *)
(***************************************************************************)
EXTENDS Naturals, Sequences, FiniteSets

CONSTANTS
    Requests,           \* concurrent requests the server may be handling
    Reaper, Closer,     \* the idle reaper task and the lifespan's shutdown
    Nobody,             \* the holder of a free lock
    N,                  \* number of managed backends, in configuration order
    IdleTimeout,        \* runtime.idle_timeout_seconds of each backend
    ReadinessTimeout,   \* runtime.readiness_timeout_seconds of each backend
    ShutdownTimeout,    \* runtime.shutdown_timeout_seconds of each backend
    Interval,           \* interval_seconds of reap_idle_forever
    Faults,             \* what the environment may do, see FaultKinds
    Unkillable,         \* backends whose child may outlive SIGKILL
    MaxAbandoned        \* bound: streams abandoned per backend

Backends == 1 .. N
Actors   == Requests \cup {Reaper, Closer}
NoBackend == 0
KillWait == 1           \* process.wait(timeout=1.0) after process.kill()

(***************************************************************************)
(* "crash": a runtime may exit at any time.  "abandon": the client is gone *)
(* before the response of an opened stream starts, so that the response's  *)
(* generator never runs.  The runtimes of Unkillable may outlive SIGKILL   *)
(* by more than the second the code waits for them.                        *)
(***************************************************************************)
FaultKinds == {"crash", "abandon"}

ASSUME ActorsAssumption ==
    /\ IsFiniteSet(Requests)
    /\ Reaper \notin Requests /\ Closer \notin Requests /\ Reaper # Closer
    /\ Nobody \notin Actors
ASSUME ConfigAssumption ==
    /\ N \in Nat \ {0}
    /\ IdleTimeout \in [Backends -> Nat \ {0}]
    /\ ReadinessTimeout \in [Backends -> Nat \ {0}]
    /\ ShutdownTimeout \in [Backends -> Nat \ {0}]
    /\ Interval \in Nat \ {0}
    /\ Faults \subseteq FaultKinds
    /\ Unkillable \subseteq Backends
    /\ MaxAbandoned \in Nat

VARIABLES
    proc,       \* state.process: "none", a running child ("up") or an "exited" one
    idle,       \* seconds since state.last_used, counted up to the idle timeout
    active,     \* state.active_requests
    holder,     \* who holds state.lock
    queue,      \* who waits for state.lock, first come first served
    left,       \* seconds left of the timed wait of the lock's holder
    pc,         \* the suspension point an actor is at
    at,         \* the backend an actor is working on
    nap,        \* seconds left of the reaper's sleep
    ripe,       \* backends idle for long enough at the reaper's captured now
    ready,      \* history: the child has answered its readiness probe
    orphans,    \* history: running children no state.process refers to
    leaked      \* history: uses no end_request will ever release

vars == <<proc, idle, active, holder, queue, left, pc, at, nap, ripe, ready, orphans, leaked>>

RequestPC == {"idle", "queued", "probing", "pausing", "stopping", "killing",
              "serving", "answered"}
ReaperPC  == {"asleep", "sweeping", "queued", "stopping", "killing", "dead", "cancelled"}
CloserPC  == {"open", "sweeping", "queued", "stopping", "killing", "done", "failed"}
\* The suspension points at which an actor holds the lock of at[a].
LockedPC  == {"probing", "pausing", "stopping", "killing"}
-----------------------------------------------------------------------------
Running(b) == proc[b] = "up"
\* Faulty: the lock is not waited for.
Free_Unlocked(b) == TRUE

\* A lock that can be had at once.
Free(b)    == holder[b] = Nobody /\ queue[b] = <<>>
Goto(a, point, b) == pc' = [pc EXCEPT ![a] = point] /\ at' = [at EXCEPT ![a] = b]
Leave(r)   == Goto(r, "idle", NoBackend)
\* The requests between begin_request and end_request on b.
Users(b)   == {r \in Requests : pc[r] = "serving" /\ at[r] = b}

\* state.last_used = self._monotonic(): never in the past of a captured now.
Touch(b) == idle' = [idle EXCEPT ![b] = 0] /\ ripe' = ripe \ {b}

\* The lock's release: the first waiter, if any, is woken (see Granted).
Release(b) == holder' = [holder EXCEPT ![b] = Nobody] /\ left' = [left EXCEPT ![b] = 0]
Hold(a, b, time) == holder' = [holder EXCEPT ![b] = a] /\ left' = [left EXCEPT ![b] = time]

BeginRequest(b) == active' = [active EXCEPT ![b] = @ + 1]

\* Faulty: the count of active requests has no floor, or is not given back.
EndRequest_NoFloor(b) == active' = [active EXCEPT ![b] = @ - 1]
EndRequest_Forgotten(b) == UNCHANGED active

EndRequest(b)   == active' = [active EXCEPT ![b] = IF @ = 0 THEN 0 ELSE @ - 1]

\* An assignment to state.process gives up the reference to what it held.
Drop(b) == orphans' = [orphans EXCEPT ![b] = IF Running(b) THEN @ + 1 ELSE @]
Track(b) == proc' = [proc EXCEPT ![b] = "up"] /\ Drop(b)

\* The tail of _stop_locked: last_used = 0.0 is as long ago as can be.
ResetState(b) ==
    /\ proc' = [proc EXCEPT ![b] = "none"]
    /\ Drop(b)
    /\ ready' = [ready EXCEPT ![b] = FALSE]
    /\ idle' = [idle EXCEPT ![b] = IdleTimeout[b]]
    /\ active' = [active EXCEPT ![b] = 0]
    /\ UNCHANGED ripe

\* _stop_locked up to its first wait, for an actor that goes on to `next`.
StopLocked(a, b, next) ==
    IF Running(b)
    THEN /\ Hold(a, b, ShutdownTimeout[b])
         /\ Goto(a, "stopping", b)
         /\ UNCHANGED <<proc, idle, active, ripe, ready, orphans>>
    ELSE /\ ResetState(b)
         /\ Release(b)
         /\ Goto(a, next, IF a \in Requests THEN NoBackend ELSE b)
-----------------------------------------------------------------------------
(* What an actor does with the lock of b, up to its next suspension.       *)

\* ensure_running finds the process running; begin_request follows at once.
Reuse(r, b) ==
    /\ Running(b)
    /\ Touch(b)
    /\ BeginRequest(b)
    /\ Goto(r, "serving", b)
    /\ UNCHANGED <<proc, holder, left, ready, orphans>>

\* _start_locked up to the first readiness probe.
Spawn(r, b) ==
    /\ ~Running(b)
    /\ Track(b)
    /\ ready' = [ready EXCEPT ![b] = FALSE]
    /\ Touch(b)
    /\ Hold(r, b, ReadinessTimeout[b])
    /\ Goto(r, "probing", b)
    /\ UNCHANGED active

\* The log cannot be opened, or the command is missing or does not start.
SpawnFails(r, b) ==
    /\ ~Running(b)
    /\ Leave(r)
    /\ UNCHANGED <<proc, idle, active, holder, left, ripe, ready, orphans>>

\* The child has exited when it is first polled: nothing to wait for.
SpawnExits(r, b) ==
    /\ ~Running(b)
    /\ ResetState(b)
    /\ Leave(r)
    /\ UNCHANGED <<holder, left>>

Critical(a, b) ==
    \/ a \in Requests /\ (Reuse(a, b) \/ Spawn(a, b) \/ SpawnFails(a, b) \/ SpawnExits(a, b))
    \/ a \notin Requests /\ StopLocked(a, b, "sweeping")

\* async with state.lock: enter at once when free, otherwise wait in line.
Acquire(a, b) ==
    \/ Free(b) /\ Critical(a, b) /\ UNCHANGED queue
    \/ /\ ~Free(b)
       /\ queue' = [queue EXCEPT ![b] = Append(@, a)]
       /\ Goto(a, "queued", b)
       /\ UNCHANGED <<proc, idle, active, holder, left, ripe, ready, orphans>>

Granted(a, b) ==
    /\ pc[a] = "queued" /\ at[a] = b
    /\ holder[b] = Nobody
    /\ queue[b] # <<>> /\ Head(queue[b]) = a
    /\ queue' = [queue EXCEPT ![b] = Tail(@)]
    /\ Critical(a, b)
    /\ UNCHANGED <<nap, leaked>>
-----------------------------------------------------------------------------
(* Requests.                                                               *)

EnsureRunning(r, b) ==
    /\ pc[r] = "idle"
    /\ pc[Closer] = "open"
    /\ Acquire(r, b)
    /\ UNCHANGED <<nap, leaked>>

\* _wait_until_ready: the probe's answer, then the sleep, then the loop's test.
ProbeReady(r) ==
    LET b == at[r] IN
    /\ pc[r] = "probing"
    /\ ready' = [ready EXCEPT ![b] = TRUE]
    /\ Touch(b)
    /\ Release(b)
    /\ BeginRequest(b)
    /\ Goto(r, "serving", b)
    /\ UNCHANGED <<proc, queue, nap, orphans, leaked>>

ProbeNotReady(r) ==
    /\ pc[r] = "probing"
    /\ Goto(r, "pausing", at[r])
    /\ UNCHANGED <<proc, idle, active, holder, queue, left, nap, ripe, ready, orphans, leaked>>

PollAgain(r) ==
    /\ pc[r] = "pausing"
    /\ left[at[r]] > 0 /\ Running(at[r])
    /\ Goto(r, "probing", at[r])
    /\ UNCHANGED <<proc, idle, active, holder, queue, left, nap, ripe, ready, orphans, leaked>>

\* RuntimeStartError: the deadline has passed, or the child has exited.
StartFails(r) ==
    /\ pc[r] = "pausing"
    /\ left[at[r]] = 0 \/ ~Running(at[r])
    /\ StopLocked(r, at[r], "idle")
    /\ UNCHANGED <<queue, nap, leaked>>

\* The post, or the stream's last chunk: with or without a final answer.
EndUse(r) ==
    LET b == at[r] IN
    /\ pc[r] = "serving"
    /\ EndRequest(b)
    /\ Touch(b)
    /\ \/ Goto(r, "answered", b)
       \/ Leave(r)
    /\ UNCHANGED <<proc, holder, queue, left, nap, ready, orphans, leaked>>

\* The handler's touch after the answer was verified and recorded.
TouchAnswered(r) ==
    /\ pc[r] = "answered"
    /\ Touch(at[r])
    /\ Leave(r)
    /\ UNCHANGED <<proc, active, holder, queue, left, nap, ready, orphans, leaked>>

\* An opened stream whose generator never runs: its finally never does either.
AbandonStream(r) ==
    LET b == at[r] IN
    /\ "abandon" \in Faults
    /\ pc[r] = "serving"
    /\ leaked[b] < MaxAbandoned
    /\ leaked' = [leaked EXCEPT ![b] = @ + 1]
    /\ Leave(r)
    /\ UNCHANGED <<proc, idle, active, holder, queue, left, nap, ripe, ready, orphans>>
-----------------------------------------------------------------------------
(* The rest of _stop_locked, for whoever holds the lock.                   *)

AfterStop(a)    == IF a \in Requests THEN "idle" ELSE "sweeping"
AfterTimeout(a) == IF a \in Requests THEN "idle" ELSE IF a = Reaper THEN "dead" ELSE "failed"
PlaceAfter(a)   == IF a \in Requests THEN NoBackend ELSE at[a]

\* Faulty: the state is reset without waiting for the child.
StopDone_NoWait(a) ==
    /\ pc[a] \in {"stopping", "killing"}
    /\ ResetState(at[a])
    /\ Release(at[a])
    /\ Goto(a, AfterStop(a), PlaceAfter(a))
    /\ UNCHANGED <<queue, nap, leaked>>

StopDone(a) ==
    /\ pc[a] \in {"stopping", "killing"}
    /\ ~Running(at[a])
    /\ ResetState(at[a])
    /\ Release(at[a])
    /\ Goto(a, AfterStop(a), PlaceAfter(a))
    /\ UNCHANGED <<queue, nap, leaked>>

Kill(a) ==
    /\ pc[a] = "stopping"
    /\ left[at[a]] = 0 /\ Running(at[a])
    /\ left' = [left EXCEPT ![at[a]] = KillWait]
    /\ Goto(a, "killing", at[a])
    /\ UNCHANGED <<proc, idle, active, holder, queue, nap, ripe, ready, orphans, leaked>>

\* TimeoutExpired leaves the critical section before the state is reset.
KillTimesOut(a) ==
    /\ pc[a] = "killing" /\ at[a] \in Unkillable
    /\ left[at[a]] = 0 /\ Running(at[a])
    /\ Release(at[a])
    /\ Goto(a, AfterTimeout(a), PlaceAfter(a))
    /\ UNCHANGED <<proc, idle, active, queue, nap, ripe, ready, orphans, leaked>>
-----------------------------------------------------------------------------
(* The reaper.                                                             *)

\* stop_idle captures now once for the whole sweep.
Wake ==
    /\ pc[Reaper] = "asleep" /\ nap = 0
    /\ ripe' = {b \in Backends : idle[b] >= IdleTimeout[b]}
    /\ Goto(Reaper, "sweeping", NoBackend)
    /\ UNCHANGED <<proc, idle, active, holder, queue, left, nap, ready, orphans, leaked>>

\* Faulty: backends in use are swept too.
Due_Active == {b \in ripe : b > at[Reaper] /\ Running(b)}

\* What the sweep has still to stop, as it looks before the lock is asked for.
Due == {b \in ripe : b > at[Reaper] /\ Running(b) /\ active[b] = 0}

SweepNext(b) ==
    /\ pc[Reaper] = "sweeping"
    /\ b \in Due /\ \A c \in Due : b <= c
    /\ Acquire(Reaper, b)
    /\ UNCHANGED <<nap, leaked>>

SweepEnds ==
    /\ pc[Reaper] = "sweeping"
    /\ Due = {}
    /\ ripe' = {}
    /\ nap' = Interval
    /\ Goto(Reaper, "asleep", NoBackend)
    /\ UNCHANGED <<proc, idle, active, holder, queue, left, ready, orphans, leaked>>
-----------------------------------------------------------------------------
(* Shutdown.                                                               *)

\* Faulty: the reaper's place in a lock's line is kept.
CancelReaper_KeepsPlace ==
    /\ holder' = [b \in Backends |-> Nobody]
    /\ left' = [b \in Backends |-> 0]
    /\ UNCHANGED queue
    /\ ripe' = {}

\* Faulty: a lock the reaper holds is not released.
CancelReaper_KeepsLock ==
    /\ queue' = [b \in Backends |-> <<>>]
    /\ UNCHANGED <<holder, left>>
    /\ ripe' = {}

\* Cancellation takes the reaper out of a wait for a lock, or out of the wait
\* for a child it is stopping: then the lock is released and the state kept.
\* With no request in flight nobody else has a lock or waits for one.
CancelReaper ==
    /\ holder' = [b \in Backends |-> Nobody]
    /\ left' = [b \in Backends |-> 0]
    /\ queue' = [b \in Backends |-> <<>>]
    /\ ripe' = {}

\* A reaper that has died raises its exception again: no stop_all.
Shutdown ==
    /\ pc[Closer] = "open"
    /\ \A r \in Requests : pc[r] = "idle"
    /\ IF pc[Reaper] = "dead"
       THEN /\ pc' = [pc EXCEPT ![Closer] = "failed"]
            /\ UNCHANGED <<at, holder, queue, left, ripe>>
       ELSE /\ pc' = [pc EXCEPT ![Closer] = "sweeping", ![Reaper] = "cancelled"]
            /\ at' = [at EXCEPT ![Reaper] = NoBackend]
            /\ CancelReaper
    /\ UNCHANGED <<proc, idle, active, nap, ready, orphans, leaked>>

\* stop_all goes through the backends in order and stops at an exception.
StopAllNext ==
    /\ pc[Closer] = "sweeping"
    /\ at[Closer] < N
    /\ Acquire(Closer, at[Closer] + 1)
    /\ UNCHANGED <<nap, leaked>>

\* Faulty: one backend is left out.
StopAllDone_Early ==
    /\ pc[Closer] = "sweeping"
    /\ at[Closer] = N - 1
    /\ Goto(Closer, "done", N)
    /\ UNCHANGED <<proc, idle, active, holder, queue, left, nap, ripe, ready, orphans, leaked>>

StopAllDone ==
    /\ pc[Closer] = "sweeping"
    /\ at[Closer] = N
    /\ Goto(Closer, "done", N)
    /\ UNCHANGED <<proc, idle, active, holder, queue, left, nap, ripe, ready, orphans, leaked>>

\* The proxy has exited.
Halted == pc[Closer] \in {"done", "failed"} /\ UNCHANGED vars
-----------------------------------------------------------------------------
(* The environment.                                                        *)

\* A child exits by itself, or on a signal.
ProcessExits(b) ==
    /\ Running(b)
    /\ \/ "crash" \in Faults
       \/ \E a \in Actors : pc[a] \in {"stopping", "killing"} /\ at[a] = b
    /\ proc' = [proc EXCEPT ![b] = "exited"]
    /\ UNCHANGED <<idle, active, holder, queue, left, pc, at, nap, ripe, ready, orphans, leaked>>

\* A second passes.  The event loop is quick: before time goes on it runs the
\* tasks that are ready (a woken waiter, a sweep) and ends the waits that have
\* timed out (a probe with its timeout, a wait for a child with its own).
Tick ==
    /\ pc[Closer] \notin {"done", "failed"}
    /\ \A b \in Backends : IF holder[b] = Nobody THEN queue[b] = <<>> ELSE left[b] > 0
    /\ pc[Reaper] # "sweeping" /\ pc[Closer] # "sweeping"
    /\ pc[Reaper] = "asleep" => nap > 0
    /\ idle' = [b \in Backends |-> IF idle[b] < IdleTimeout[b] THEN idle[b] + 1 ELSE idle[b]]
    /\ left' = [b \in Backends |-> IF left[b] > 0 THEN left[b] - 1 ELSE 0]
    /\ nap' = IF nap > 0 THEN nap - 1 ELSE 0
    /\ UNCHANGED <<proc, active, holder, queue, pc, at, ripe, ready, orphans, leaked>>
-----------------------------------------------------------------------------
Init ==
    /\ proc = [b \in Backends |-> "none"]
    /\ idle = IdleTimeout
    /\ active = [b \in Backends |-> 0]
    /\ holder = [b \in Backends |-> Nobody]
    /\ queue = [b \in Backends |-> <<>>]
    /\ left = [b \in Backends |-> 0]
    /\ pc = [a \in Actors |-> IF a \in Requests THEN "idle"
                              ELSE IF a = Reaper THEN "asleep" ELSE "open"]
    /\ at = [a \in Actors |-> NoBackend]
    /\ nap = Interval
    /\ ripe = {}
    /\ ready = [b \in Backends |-> FALSE]
    /\ orphans = [b \in Backends |-> 0]
    /\ leaked = [b \in Backends |-> 0]

RequestStep(r) ==
    \/ \E b \in Backends : EnsureRunning(r, b)
    \/ ProbeReady(r) \/ ProbeNotReady(r) \/ PollAgain(r) \/ StartFails(r)
    \/ EndUse(r) \/ TouchAnswered(r) \/ AbandonStream(r)

LockStep(a) ==
    \/ \E b \in Backends : Granted(a, b)
    \/ StopDone(a) \/ Kill(a) \/ KillTimesOut(a)

ReaperStep == Wake \/ (\E b \in Backends : SweepNext(b)) \/ SweepEnds
CloserStep == StopAllNext \/ StopAllDone

Next ==
    \/ \E r \in Requests : RequestStep(r)
    \/ \E a \in Actors : LockStep(a)
    \/ ReaperStep
    \/ Shutdown \/ CloserStep \/ Halted
    \/ \E b \in Backends : ProcessExits(b)
    \/ Tick

Spec == Init /\ [][Next]_vars

(***************************************************************************)
(* The event loop runs every task that is ready, and the waits end by      *)
(* themselves or by their timeouts.  Nothing makes a request come, a       *)
(* stream end or be abandoned, a runtime crash or the operator shut down.  *)
(***************************************************************************)
Progress(a) ==
    \/ \E b \in Backends : Granted(a, b)
    \/ StopDone(a) \/ Kill(a) \/ KillTimesOut(a)
    \/ a \in Requests /\ (ProbeReady(a) \/ ProbeNotReady(a) \/ PollAgain(a) \/ StartFails(a)
                          \/ TouchAnswered(a))
    \/ a = Reaper /\ ReaperStep
    \/ a = Closer /\ CloserStep

Fairness ==
    /\ \A a \in Actors : WF_vars(Progress(a))
    /\ WF_vars(Tick)
    \* SIGKILL works, but on the runtimes of Unkillable.
    /\ \A b \in Backends \ Unkillable :
          WF_vars((\E a \in Actors : pc[a] = "killing" /\ at[a] = b) /\ ProcessExits(b))

FairSpec == Spec /\ Fairness
-----------------------------------------------------------------------------
(* Properties.                                                             *)

TypeOK ==
    /\ proc \in [Backends -> {"none", "up", "exited"}]
    /\ idle \in [Backends -> Nat] /\ \A b \in Backends : idle[b] <= IdleTimeout[b]
    /\ active \in [Backends -> Nat]
    /\ holder \in [Backends -> Actors \cup {Nobody}]
    /\ queue \in [Backends -> Seq(Actors)]
    /\ left \in [Backends -> Nat]
    /\ pc \in [Actors -> RequestPC \cup ReaperPC \cup CloserPC]
    /\ \A r \in Requests : pc[r] \in RequestPC
    /\ pc[Reaper] \in ReaperPC /\ pc[Closer] \in CloserPC
    /\ at \in [Actors -> Backends \cup {NoBackend}]
    /\ nap \in Nat
    /\ ripe \subseteq Backends
    /\ ready \in [Backends -> BOOLEAN]
    /\ orphans \in [Backends -> Nat]
    /\ leaked \in [Backends -> Nat]

\* Starting and stopping a runtime exclude each other although both suspend
\* half way (async with state.lock in ensure_running and stop_backend): the
\* actors inside are exactly the holders, so there is one per backend.
MutualExclusion ==
    \A b \in Backends, a \in Actors :
        holder[b] = a <=> pc[a] \in LockedPC /\ at[a] = b

\* No wakeup is lost and none is spent twice: the waiters of a backend's lock
\* are exactly the actors suspended on it, each once.
WaitersQueued ==
    \A b \in Backends :
        /\ {queue[b][i] : i \in DOMAIN queue[b]} = {a \in Actors : pc[a] = "queued" /\ at[a] = b}
        /\ \A i, j \in DOMAIN queue[b] : queue[b][i] = queue[b][j] => i = j

\* The manager never loses track of a child: whenever state.process is
\* overwritten (_start_locked) or cleared (_stop_locked) the process it
\* referred to has exited, so a backend has at most one running child.
NoOrphan == \A b \in Backends : orphans[b] = 0

\* active_requests never counts a use that is over: what keeps the reaper
\* away is a request between begin_request and end_request, or an abandoned
\* stream.  (The reverse is not true: _stop_locked forgets uses.)
ActiveBacked ==
    \A b \in Backends : active[b] <= Cardinality(Users(b)) + leaked[b]

\* The reaper never starts to stop a runtime that a request is using.
KeepsActiveWarm ==
    [][\A b \in Backends :
         Users(b) # {} /\ pc'[Reaper] = "stopping" /\ at'[Reaper] = b
            => pc[Reaper] = "stopping"]_vars

\* When the proxy has exited, no child that could be stopped is running:
\* stop_all reaches every backend, after a reaper that was cancelled half way
\* through stopping one as well.
ShutdownStopsAll ==
    pc[Closer] \in {"done", "failed"} =>
        \A b \in Backends \ Unkillable : ~Running(b) /\ orphans[b] = 0

\* A runtime nobody uses is eventually stopped or used again, until shutdown.
IdleIsReaped ==
    \A b \in Backends :
        (Running(b) /\ Users(b) = {}) ~> (~Running(b) \/ Users(b) # {})

\* Every wait ends, though all of them wait for the lock of one backend: a request that
\* needs a runtime is eventually served or fails, no start, stop or wait for the lock goes
\* on forever, no later request overtakes it; and once begun, the shutdown ends.
WaitsEnd ==
    /\ \A r \in Requests : pc[r] \in {"queued"} \cup LockedPC ~> pc[r] \in {"serving", "idle"}
    /\ pc[Closer] # "open" ~> pc[Closer] \in {"done", "failed"}
-----------------------------------------------------------------------------
(* The abstraction: what is left of this module's state for its users.     *)

childView == [b \in Backends |->
                IF ~Running(b) THEN "absent" ELSE IF ready[b] THEN "warm" ELSE "loading"]
usingView == [r \in Requests |-> IF pc[r] = "serving" THEN at[r] ELSE NoBackend]

Lifecycle == INSTANCE RuntimeLifecycle
                WITH child <- childView, using <- usingView, closed <- pc[Closer] = "done"

\* The manager implements RuntimeLifecycle as long as all children can be killed.
ImplementsLifecycle == Lifecycle!LSpec
=============================================================================
