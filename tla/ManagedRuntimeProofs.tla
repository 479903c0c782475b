------------------------ MODULE ManagedRuntimeProofs ------------------------
(***************************************************************************)
(* Theorems about ManagedRuntime for any number of backends and requests   *)
(* and any timeouts: that a backend's lock excludes and a process is never *)
(* started twice or left behind; then what the requests may rely on, the   *)
(* line before a lock, the count of uses, the warm runtime, the shutdown,  *)
(* and the specification that hides all of it, RuntimeLifecycle.           *)
(***************************************************************************)
EXTENDS ManagedRuntime, SequenceTheorems, FiniteSetTheorems, TLAPS

-----------------------------------------------------------------------------
(* Locks and processes.                                                    *)

\* Where an actor is when it is suspended on, or inside, a backend's lock, or
\* between a request's begin and its last touch.
Placed ==
    \A a \in Actors :
        pc[a] \in LockedPC \cup {"queued", "serving", "answered"} => at[a] \in Backends

LockInv == TypeOK /\ Placed /\ MutualExclusion

PlaceType == Backends \cup {NoBackend}

\* The points an actor may be at.
Points(a) == IF a \in Requests THEN RequestPC ELSE IF a = Reaper THEN ReaperPC ELSE CloserPC

(***************************************************************************)
(* How one actor's move keeps the three parts of the invariant.            *)
(***************************************************************************)
\* TypeOK in three parts: the control state, the timed state, the counters.
ControlOK ==
    /\ pc \in [Actors -> RequestPC \cup ReaperPC \cup CloserPC]
    /\ \A r \in Requests : pc[r] \in RequestPC
    /\ pc[Reaper] \in ReaperPC /\ pc[Closer] \in CloserPC
    /\ at \in [Actors -> PlaceType]
TimedOK ==
    /\ idle \in [Backends -> Nat] /\ \A b \in Backends : idle[b] <= IdleTimeout[b]
    /\ left \in [Backends -> Nat]
    /\ nap \in Nat
    /\ ripe \subseteq Backends
LocksOK ==
    /\ holder \in [Backends -> Actors \cup {Nobody}]
    /\ queue \in [Backends -> Seq(Actors)]
CountsOK ==
    /\ proc \in [Backends -> {"none", "up", "exited"}]
    /\ active \in [Backends -> Nat]
    /\ ready \in [Backends -> BOOLEAN]
    /\ orphans \in [Backends -> Nat]
    /\ leaked \in [Backends -> Nat]

\* TypeOK is the conjunction of these parts.
LEMMA TypeParts == TypeOK <=> ControlOK /\ TimedOK /\ LocksOK /\ CountsOK
BY DEF TypeOK, ControlOK, TimedOK, LocksOK, CountsOK, PlaceType

\* An actor that moves between its own points keeps the control state typed.
LEMMA GotoType ==
    ASSUME TypeOK, NEW a \in Actors, NEW point \in Points(a), NEW b \in PlaceType,
           Goto(a, point, b)
    PROVE  ControlOK'
BY ActorsAssumption DEF TypeOK, ControlOK, Goto, Points, PlaceType, Actors

\* ... and at a backend whenever its point needs one.
LEMMA GotoPlaced ==
    ASSUME TypeOK, Placed, NEW a \in Actors, NEW point \in Points(a), NEW b \in PlaceType,
           Goto(a, point, b),
           point \in LockedPC \cup {"queued", "serving", "answered"} => b \in Backends
    PROVE  Placed'
BY DEF TypeOK, Placed, Goto, Actors

\* A move outside the lock leaves its ownership alone,
LEMMA GotoOutside ==
    ASSUME TypeOK, MutualExclusion, NEW a \in Actors, NEW point \in Points(a),
           NEW b \in PlaceType, Goto(a, point, b), holder' = holder,
           pc[a] \notin LockedPC, point \notin LockedPC
    PROVE  MutualExclusion'
BY DEF TypeOK, MutualExclusion, Goto, Actors, LockedPC

\* a move inside the lock too;
LEMMA GotoInside ==
    ASSUME TypeOK, MutualExclusion, NEW a \in Actors, NEW point \in Points(a),
           Goto(a, point, at[a]), holder' = holder,
           pc[a] \in LockedPC, point \in LockedPC
    PROVE  MutualExclusion'
BY DEF TypeOK, MutualExclusion, Goto, Actors, LockedPC

\* an actor that enters a free lock becomes its holder,
LEMMA GotoEnter ==
    ASSUME TypeOK, MutualExclusion, NEW a \in Actors, NEW point \in Points(a), NEW b \in Backends,
           Goto(a, point, b), holder' = [holder EXCEPT ![b] = a],
           holder[b] = Nobody \/ holder[b] = a, pc[a] \in LockedPC => at[a] = b,
           point \in LockedPC
    PROVE  MutualExclusion'
BY ActorsAssumption DEF TypeOK, MutualExclusion, Goto, Actors, LockedPC

\* and one that leaves it gives it up.
LEMMA GotoExit ==
    ASSUME TypeOK, MutualExclusion, NEW a \in Actors, NEW point \in Points(a), NEW b \in Backends,
           NEW c \in PlaceType,
           Goto(a, point, c), holder' = [holder EXCEPT ![b] = Nobody],
           holder[b] \in {Nobody, a}, pc[a] \in LockedPC => at[a] = b,
           point \notin LockedPC
    PROVE  MutualExclusion'
BY ActorsAssumption DEF TypeOK, MutualExclusion, Goto, Actors, LockedPC

\* _stop_locked up to its first wait, by an actor inside the lock or entering it.
LEMMA StopLockedLock ==
    ASSUME LockInv, NEW a \in Actors, NEW b \in Backends, NEW next \in Points(a),
           StopLocked(a, b, next), next \notin LockedPC \cup {"queued", "serving", "answered"},
           holder[b] \in {Nobody, a}, pc[a] \in LockedPC => at[a] = b,
           UNCHANGED <<nap, leaked>>, queue' \in [Backends -> Seq(Actors)]
    PROVE  LockInv'
<1>. USE DEF LockInv, PlaceType
<1>1. CASE Running(b)
  <2>1. "stopping" \in Points(a)
    BY ActorsAssumption DEF Points, RequestPC, ReaperPC, CloserPC, Actors
  <2>2. TypeOK'
    <3>1. ControlOK'
      BY <1>1, <2>1, GotoType DEF StopLocked, Hold
    <3>2. TimedOK'
      BY <1>1, <2>1, TypeParts, ConfigAssumption DEF TimedOK, StopLocked, Hold
    <3>3. LocksOK'
      BY <1>1, <2>1, TypeParts DEF LocksOK, StopLocked, Hold
    <3>4. CountsOK'
      BY <1>1, <2>1, TypeParts DEF CountsOK, StopLocked, Hold
    <3>. QED BY <3>1, <3>2, <3>3, <3>4 DEF TypeOK, ControlOK, TimedOK, LocksOK, CountsOK
  <2>3. Placed' /\ MutualExclusion'
    BY <1>1, <2>1, GotoPlaced, GotoEnter DEF StopLocked, Hold, LockedPC
  <2>. QED BY <2>2, <2>3
<1>2. CASE ~Running(b)
  <2>. DEFINE place == IF a \in Requests THEN NoBackend ELSE b
  <2>1. Goto(a, next, place) /\ ResetState(b) /\ Release(b) /\ place \in PlaceType
    BY <1>2 DEF StopLocked
  <2>2. TypeOK'
    <3>1. ControlOK'
      BY <2>1, GotoType DEF ResetState, Drop, Release
    <3>2. TimedOK'
      BY <2>1, TypeParts, ConfigAssumption DEF TimedOK, ResetState, Drop, Release
    <3>3. LocksOK'
      BY <2>1, TypeParts DEF LocksOK, ResetState, Drop, Release
    <3>4. CountsOK'
      BY <2>1, TypeParts DEF CountsOK, ResetState, Drop, Release
    <3>. QED BY <3>1, <3>2, <3>3, <3>4 DEF TypeOK, ControlOK, TimedOK, LocksOK, CountsOK
  <2>3. Placed' /\ MutualExclusion'
    BY <2>1, GotoPlaced, GotoExit DEF Release, LockedPC
  <2>. QED BY <2>2, <2>3
<1>. QED BY <1>1, <1>2

\* An actor that enters the lock of b, up to its next suspension.
LEMMA CriticalLock ==
    ASSUME LockInv, NEW a \in Actors, NEW b \in Backends, Critical(a, b),
           holder[b] = Nobody, pc[a] \notin LockedPC,
           UNCHANGED <<nap, leaked>>, queue' \in [Backends -> Seq(Actors)]
    PROVE  LockInv'
<1>. USE DEF LockInv, PlaceType
<1>1. CASE a \in Requests /\ Reuse(a, b)
  <2>1. "serving" \in Points(a)
    BY <1>1 DEF Points, RequestPC
  <2>2. TypeOK'
    <3>1. ControlOK'
      BY <1>1, <2>1, GotoType DEF Reuse, Touch, BeginRequest
    <3>2. TimedOK'
      BY <1>1, <2>1, TypeParts, ConfigAssumption DEF TimedOK, Reuse, Touch, BeginRequest
    <3>3. LocksOK'
      BY <1>1, <2>1, TypeParts DEF LocksOK, Reuse, Touch, BeginRequest
    <3>4. CountsOK'
      BY <1>1, <2>1, TypeParts DEF CountsOK, Reuse, Touch, BeginRequest
    <3>. QED BY <3>1, <3>2, <3>3, <3>4 DEF TypeOK, ControlOK, TimedOK, LocksOK, CountsOK
  <2>3. Placed' /\ MutualExclusion'
    BY <1>1, <2>1, GotoPlaced, GotoOutside DEF Reuse, LockedPC
  <2>. QED BY <2>2, <2>3
<1>2. CASE a \in Requests /\ Spawn(a, b)
  <2>1. "probing" \in Points(a)
    BY <1>2 DEF Points, RequestPC
  <2>2. TypeOK'
    <3>1. ControlOK'
      BY <1>2, <2>1, GotoType DEF Spawn, Touch, Track, Drop, Hold
    <3>2. TimedOK'
      BY <1>2, <2>1, TypeParts, ConfigAssumption DEF TimedOK, Spawn, Touch, Track, Drop, Hold
    <3>3. LocksOK'
      BY <1>2, <2>1, TypeParts DEF LocksOK, Spawn, Touch, Track, Drop, Hold
    <3>4. CountsOK'
      BY <1>2, <2>1, TypeParts DEF CountsOK, Spawn, Touch, Track, Drop, Hold
    <3>. QED BY <3>1, <3>2, <3>3, <3>4 DEF TypeOK, ControlOK, TimedOK, LocksOK, CountsOK
  <2>3. Placed' /\ MutualExclusion'
    BY <1>2, <2>1, GotoPlaced, GotoEnter DEF Spawn, Hold, LockedPC
  <2>. QED BY <2>2, <2>3
<1>3. CASE a \in Requests /\ SpawnFails(a, b)
  <2>1. "idle" \in Points(a)
    BY <1>3 DEF Points, RequestPC
  <2>2. TypeOK'
    <3>1. ControlOK'
      BY <1>3, <2>1, GotoType DEF SpawnFails, Leave
    <3>2. TimedOK'
      BY <1>3, <2>1, TypeParts, ConfigAssumption DEF TimedOK, SpawnFails, Leave
    <3>3. LocksOK'
      BY <1>3, <2>1, TypeParts DEF LocksOK, SpawnFails, Leave
    <3>4. CountsOK'
      BY <1>3, <2>1, TypeParts DEF CountsOK, SpawnFails, Leave
    <3>. QED BY <3>1, <3>2, <3>3, <3>4 DEF TypeOK, ControlOK, TimedOK, LocksOK, CountsOK
  <2>3. Placed' /\ MutualExclusion'
    BY <1>3, <2>1, GotoPlaced, GotoOutside DEF SpawnFails, Leave, LockedPC
  <2>. QED BY <2>2, <2>3
<1>4. CASE a \in Requests /\ SpawnExits(a, b)
  <2>1. "idle" \in Points(a)
    BY <1>4 DEF Points, RequestPC
  <2>2. TypeOK'
    <3>1. ControlOK'
      BY <1>4, <2>1, GotoType DEF SpawnExits, ResetState, Drop, Leave
    <3>2. TimedOK'
      BY <1>4, <2>1, TypeParts, ConfigAssumption
         DEF TimedOK, SpawnExits, ResetState, Drop, Leave
    <3>3. LocksOK'
      BY <1>4, <2>1, TypeParts DEF LocksOK, SpawnExits, ResetState, Drop, Leave
    <3>4. CountsOK'
      BY <1>4, <2>1, TypeParts DEF CountsOK, SpawnExits, ResetState, Drop, Leave
    <3>. QED BY <3>1, <3>2, <3>3, <3>4 DEF TypeOK, ControlOK, TimedOK, LocksOK, CountsOK
  <2>3. Placed' /\ MutualExclusion'
    BY <1>4, <2>1, GotoPlaced, GotoOutside DEF SpawnExits, Leave, LockedPC
  <2>. QED BY <2>2, <2>3
<1>5. CASE a \notin Requests /\ StopLocked(a, b, "sweeping")
  BY <1>5, StopLockedLock DEF Points, ReaperPC, CloserPC, LockedPC, Actors
<1>. QED BY <1>1, <1>2, <1>3, <1>4, <1>5 DEF Critical

\* An actor inside a lock is its holder.
LEMMA MutexHolder ==
    ASSUME LockInv, NEW a \in Actors, pc[a] \in LockedPC
    PROVE  at[a] \in Backends /\ holder[at[a]] = a
BY DEF LockInv, Placed, MutualExclusion

\* The proxy starts with free locks and actors outside them.
LEMMA InitLock == Init => LockInv
BY ActorsAssumption, ConfigAssumption, EmptySeq
   DEF Init, LockInv, TypeOK, Placed, MutualExclusion, RequestPC, ReaperPC, CloserPC,
       LockedPC, Actors, NoBackend

\* Asking for the lock of b: entering it, or joining the line.
LEMMA AcquireLock ==
    ASSUME LockInv, NEW a \in Actors, NEW b \in Backends, Acquire(a, b),
           pc[a] \notin LockedPC, UNCHANGED <<nap, leaked>>
    PROVE  LockInv'
<1>. USE DEF PlaceType
<1>1. CASE Free(b) /\ Critical(a, b) /\ UNCHANGED queue
  BY <1>1, CriticalLock DEF Free, LockInv, TypeOK
<1>2. CASE /\ queue' = [queue EXCEPT ![b] = Append(@, a)]
           /\ Goto(a, "queued", b)
           /\ UNCHANGED <<proc, idle, active, holder, left, ripe, ready, orphans>>
  <2>1. "queued" \in Points(a)
    BY ActorsAssumption DEF Points, RequestPC, ReaperPC, CloserPC, Actors
  <2>2. ControlOK'
    BY <1>2, <2>1, GotoType DEF LockInv
  <2>3. queue' \in [Backends -> Seq(Actors)]
    BY <1>2, AppendProperties DEF LockInv, TypeOK
  <2>4. TypeOK'
    BY <1>2, <2>2, <2>3 DEF LockInv, TypeOK, ControlOK
  <2>5. Placed' /\ MutualExclusion'
    BY <1>2, <2>1, GotoPlaced, GotoOutside DEF LockInv, LockedPC
  <2>. QED BY <2>4, <2>5 DEF LockInv
<1>. QED BY <1>1, <1>2 DEF Acquire

\* Every step keeps the invariant: one case per action.
LEMMA NextLock == LockInv /\ [Next]_vars => LockInv'
<1>. SUFFICES ASSUME LockInv, [Next]_vars PROVE LockInv'
  OBVIOUS
<1>. USE DEF PlaceType
<1>1. ASSUME NEW r \in Requests, NEW b \in Backends, EnsureRunning(r, b) PROVE LockInv'
  BY <1>1, AcquireLock DEF EnsureRunning, LockedPC, Actors
<1>2. ASSUME NEW r \in Requests, ProbeReady(r) PROVE LockInv'
  <2>1. r \in Actors /\ "serving" \in Points(r) /\ at[r] \in Backends /\ holder[at[r]] = r
    BY <1>2, ActorsAssumption, MutexHolder
       DEF LockInv, TypeOK, Placed, ProbeReady, Touch, Release, BeginRequest, Points,
           RequestPC, ReaperPC, CloserPC, LockedPC, Actors, Backends
  <2>2. TypeOK'
    <3>1. ControlOK'
      BY <1>2, <2>1, GotoType DEF LockInv, ProbeReady, Touch, Release, BeginRequest
    <3>2. TimedOK'
      BY <1>2, <2>1, TypeParts, ConfigAssumption
         DEF LockInv, TimedOK, ProbeReady, Touch, Release, BeginRequest
    <3>3. LocksOK'
      BY <1>2, <2>1, TypeParts DEF LockInv, LocksOK, ProbeReady, Touch, Release, BeginRequest
    <3>4. CountsOK'
      BY <1>2, <2>1, TypeParts DEF LockInv, CountsOK, ProbeReady, Touch, Release, BeginRequest
    <3>. QED BY <3>1, <3>2, <3>3, <3>4 DEF TypeOK, ControlOK, TimedOK, LocksOK, CountsOK
  <2>3. Placed'
    BY <1>2, <2>1, GotoPlaced DEF LockInv, LockedPC, ProbeReady, Touch, Release, BeginRequest
  <2>4. MutualExclusion'
    BY <1>2, <2>1, GotoExit, MutexHolder
       DEF LockInv, LockedPC, ProbeReady, Touch, Release, BeginRequest
  <2>. QED BY <2>2, <2>3, <2>4 DEF LockInv
<1>3. ASSUME NEW r \in Requests, ProbeNotReady(r) PROVE LockInv'
  <2>1. r \in Actors /\ "pausing" \in Points(r) /\ at[r] \in Backends
    BY <1>3, ActorsAssumption
       DEF LockInv, TypeOK, Placed, ProbeNotReady, Points, RequestPC, ReaperPC, CloserPC,
           LockedPC, Actors, Backends
  <2>2. TypeOK'
    <3>1. ControlOK'
      BY <1>3, <2>1, GotoType DEF LockInv, ProbeNotReady
    <3>2. TimedOK'
      BY <1>3, <2>1, TypeParts, ConfigAssumption DEF LockInv, TimedOK, ProbeNotReady
    <3>3. LocksOK'
      BY <1>3, <2>1, TypeParts DEF LockInv, LocksOK, ProbeNotReady
    <3>4. CountsOK'
      BY <1>3, <2>1, TypeParts DEF LockInv, CountsOK, ProbeNotReady
    <3>. QED BY <3>1, <3>2, <3>3, <3>4 DEF TypeOK, ControlOK, TimedOK, LocksOK, CountsOK
  <2>3. Placed'
    BY <1>3, <2>1, GotoPlaced DEF LockInv, LockedPC, ProbeNotReady
  <2>4. MutualExclusion'
    BY <1>3, <2>1, GotoInside DEF LockInv, LockedPC, ProbeNotReady
  <2>. QED BY <2>2, <2>3, <2>4 DEF LockInv
<1>4. ASSUME NEW r \in Requests, PollAgain(r) PROVE LockInv'
  <2>1. r \in Actors /\ "probing" \in Points(r) /\ at[r] \in Backends
    BY <1>4, ActorsAssumption
       DEF LockInv, TypeOK, Placed, PollAgain, Points, RequestPC, ReaperPC, CloserPC,
           LockedPC, Actors, Backends
  <2>2. TypeOK'
    <3>1. ControlOK'
      BY <1>4, <2>1, GotoType DEF LockInv, PollAgain
    <3>2. TimedOK'
      BY <1>4, <2>1, TypeParts, ConfigAssumption DEF LockInv, TimedOK, PollAgain
    <3>3. LocksOK'
      BY <1>4, <2>1, TypeParts DEF LockInv, LocksOK, PollAgain
    <3>4. CountsOK'
      BY <1>4, <2>1, TypeParts DEF LockInv, CountsOK, PollAgain
    <3>. QED BY <3>1, <3>2, <3>3, <3>4 DEF TypeOK, ControlOK, TimedOK, LocksOK, CountsOK
  <2>3. Placed'
    BY <1>4, <2>1, GotoPlaced DEF LockInv, LockedPC, PollAgain
  <2>4. MutualExclusion'
    BY <1>4, <2>1, GotoInside DEF LockInv, LockedPC, PollAgain
  <2>. QED BY <2>2, <2>3, <2>4 DEF LockInv
<1>5. ASSUME NEW r \in Requests, StartFails(r) PROVE LockInv'
  <2>1. r \in Actors /\ "idle" \in Points(r) /\ at[r] \in Backends /\ holder[at[r]] = r
    BY <1>5, MutexHolder DEF StartFails, LockInv, Placed, Points, RequestPC, LockedPC, Actors
  <2>2. /\ StopLocked(r, at[r], "idle")
        /\ UNCHANGED <<nap, leaked>>
        /\ queue' \in [Backends -> Seq(Actors)]
    BY <1>5 DEF StartFails, LockInv, TypeOK
  <2>. QED BY <2>1, <2>2, StopLockedLock DEF LockedPC
<1>6. ASSUME NEW r \in Requests, EndUse(r) PROVE LockInv'
  <2>1. r \in Actors /\ at[r] \in Backends /\ pc[r] \notin LockedPC
    BY <1>6 DEF EndUse, LockInv, Placed, LockedPC, Actors
  <2>2. PICK point \in {"answered", "idle"}, c \in {at[r], NoBackend} :
            Goto(r, point, c) /\ (point = "answered" => c = at[r])
    BY <1>6 DEF EndUse, Leave
  <2>3. point \in Points(r) /\ c \in PlaceType /\ point \notin LockedPC
    BY <2>1, <2>2 DEF Points, RequestPC, LockedPC
  <2>4. ControlOK'
    BY <2>1, <2>2, <2>3, GotoType DEF LockInv
  <2>5. TimedOK' /\ LocksOK'
    BY <1>6, <2>1, TypeParts, ConfigAssumption DEF EndUse, Touch, LockInv, TimedOK, LocksOK
  <2>6. CountsOK'
    BY <1>6, <2>1, TypeParts DEF EndUse, EndRequest, LockInv, CountsOK
  <2>7. TypeOK'
    BY <2>4, <2>5, <2>6 DEF TypeOK, ControlOK, TimedOK, LocksOK, CountsOK
  <2>8. Placed'
    BY <2>1, <2>2, <2>3, GotoPlaced DEF LockInv
  <2>9. MutualExclusion'
    BY <1>6, <2>1, <2>2, <2>3, GotoOutside DEF EndUse, LockInv
  <2>. QED BY <2>7, <2>8, <2>9 DEF LockInv
<1>7. ASSUME NEW r \in Requests, TouchAnswered(r) PROVE LockInv'
  <2>1. r \in Actors /\ "idle" \in Points(r) /\ at[r] \in Backends
    BY <1>7, ActorsAssumption
       DEF LockInv, TypeOK, Placed, TouchAnswered, Touch, Leave, Points, RequestPC,
           ReaperPC, CloserPC, LockedPC, Actors, Backends
  <2>2. TypeOK'
    <3>1. ControlOK'
      BY <1>7, <2>1, GotoType DEF LockInv, TouchAnswered, Touch, Leave
    <3>2. TimedOK'
      BY <1>7, <2>1, TypeParts, ConfigAssumption
         DEF LockInv, TimedOK, TouchAnswered, Touch, Leave
    <3>3. LocksOK'
      BY <1>7, <2>1, TypeParts DEF LockInv, LocksOK, TouchAnswered, Touch, Leave
    <3>4. CountsOK'
      BY <1>7, <2>1, TypeParts DEF LockInv, CountsOK, TouchAnswered, Touch, Leave
    <3>. QED BY <3>1, <3>2, <3>3, <3>4 DEF TypeOK, ControlOK, TimedOK, LocksOK, CountsOK
  <2>3. Placed'
    BY <1>7, <2>1, GotoPlaced DEF LockInv, LockedPC, TouchAnswered, Touch, Leave
  <2>4. MutualExclusion'
    BY <1>7, <2>1, GotoOutside DEF LockInv, LockedPC, TouchAnswered, Touch, Leave
  <2>. QED BY <2>2, <2>3, <2>4 DEF LockInv
<1>8. ASSUME NEW r \in Requests, AbandonStream(r) PROVE LockInv'
  <2>1. r \in Actors /\ "idle" \in Points(r) /\ at[r] \in Backends
    BY <1>8, ActorsAssumption
       DEF LockInv, TypeOK, Placed, AbandonStream, Leave, Points, RequestPC, ReaperPC,
           CloserPC, LockedPC, Actors, Backends
  <2>2. TypeOK'
    <3>1. ControlOK'
      BY <1>8, <2>1, GotoType DEF LockInv, AbandonStream, Leave
    <3>2. TimedOK'
      BY <1>8, <2>1, TypeParts, ConfigAssumption DEF LockInv, TimedOK, AbandonStream, Leave
    <3>3. LocksOK'
      BY <1>8, <2>1, TypeParts DEF LockInv, LocksOK, AbandonStream, Leave
    <3>4. CountsOK'
      BY <1>8, <2>1, TypeParts DEF LockInv, CountsOK, AbandonStream, Leave
    <3>. QED BY <3>1, <3>2, <3>3, <3>4 DEF TypeOK, ControlOK, TimedOK, LocksOK, CountsOK
  <2>3. Placed'
    BY <1>8, <2>1, GotoPlaced DEF LockInv, LockedPC, AbandonStream, Leave
  <2>4. MutualExclusion'
    BY <1>8, <2>1, GotoOutside DEF LockInv, LockedPC, AbandonStream, Leave
  <2>. QED BY <2>2, <2>3, <2>4 DEF LockInv
<1>9. ASSUME NEW a \in Actors, NEW b \in Backends, Granted(a, b) PROVE LockInv'
  <2>1. queue' \in [Backends -> Seq(Actors)]
    BY <1>9, HeadTailProperties DEF Granted, LockInv, TypeOK
  <2>. QED BY <1>9, <2>1, CriticalLock DEF Granted, LockedPC
<1>10. ASSUME NEW a \in Actors, StopDone(a) PROVE LockInv'
  <2>0. pc[a] \in LockedPC
    BY <1>10 DEF StopDone, LockedPC
  <2>1. /\ AfterStop(a) \in Points(a)
        /\ at[a] \in Backends
        /\ PlaceAfter(a) \in PlaceType
        /\ holder[at[a]] = a
        /\ AfterStop(a) \notin LockedPC \cup {"queued", "serving", "answered"}
    BY <1>10, <2>0, ActorsAssumption, MutexHolder
       DEF AfterStop, PlaceAfter, Points, RequestPC, ReaperPC, CloserPC, LockedPC, Actors
  <2>2. TypeOK'
    <3>1. ControlOK'
      BY <1>10, <2>1, GotoType DEF LockInv, StopDone, ResetState, Drop, Release
    <3>2. TimedOK'
      BY <1>10, <2>1, TypeParts, ConfigAssumption
         DEF LockInv, TimedOK, StopDone, ResetState, Drop, Release
    <3>3. LocksOK'
      BY <1>10, <2>1, TypeParts DEF LockInv, LocksOK, StopDone, ResetState, Drop, Release
    <3>4. CountsOK'
      BY <1>10, <2>1, TypeParts DEF LockInv, CountsOK, StopDone, ResetState, Drop, Release
    <3>. QED BY <3>1, <3>2, <3>3, <3>4 DEF TypeOK, ControlOK, TimedOK, LocksOK, CountsOK
  <2>3. Placed'
    BY <1>10, <2>1, GotoPlaced DEF LockInv, LockedPC, StopDone, ResetState, Drop, Release
  <2>4. MutualExclusion'
    BY <1>10, <2>1, GotoExit DEF LockInv, LockedPC, StopDone, ResetState, Drop, Release
  <2>. QED BY <2>2, <2>3, <2>4 DEF LockInv
<1>11. ASSUME NEW a \in Actors, Kill(a) PROVE LockInv'
  <2>1. "killing" \in Points(a) /\ at[a] \in Backends
    BY <1>11, ActorsAssumption
       DEF LockInv, TypeOK, Placed, Kill, KillWait, Points, RequestPC, ReaperPC, CloserPC,
           LockedPC, Actors, Backends
  <2>2. TypeOK'
    <3>1. ControlOK'
      BY <1>11, <2>1, GotoType DEF LockInv, Kill, KillWait
    <3>2. TimedOK'
      BY <1>11, <2>1, TypeParts, ConfigAssumption DEF LockInv, TimedOK, Kill, KillWait
    <3>3. LocksOK'
      BY <1>11, <2>1, TypeParts DEF LockInv, LocksOK, Kill, KillWait
    <3>4. CountsOK'
      BY <1>11, <2>1, TypeParts DEF LockInv, CountsOK, Kill, KillWait
    <3>. QED BY <3>1, <3>2, <3>3, <3>4 DEF TypeOK, ControlOK, TimedOK, LocksOK, CountsOK
  <2>3. Placed'
    BY <1>11, <2>1, GotoPlaced DEF LockInv, LockedPC, Kill, KillWait
  <2>4. MutualExclusion'
    BY <1>11, <2>1, GotoInside DEF LockInv, LockedPC, Kill, KillWait
  <2>. QED BY <2>2, <2>3, <2>4 DEF LockInv
<1>12. ASSUME NEW a \in Actors, KillTimesOut(a) PROVE LockInv'
  <2>0. pc[a] \in LockedPC
    BY <1>12 DEF KillTimesOut, LockedPC
  <2>1. /\ AfterTimeout(a) \in Points(a)
        /\ at[a] \in Backends
        /\ PlaceAfter(a) \in PlaceType
        /\ holder[at[a]] = a
        /\ AfterTimeout(a) \notin LockedPC \cup {"queued", "serving", "answered"}
    BY <1>12, <2>0, ActorsAssumption, MutexHolder
       DEF AfterTimeout, PlaceAfter, Points, RequestPC, ReaperPC, CloserPC, LockedPC,
           Actors
  <2>2. TypeOK'
    <3>1. ControlOK'
      BY <1>12, <2>1, GotoType DEF LockInv, KillTimesOut, Release
    <3>2. TimedOK'
      BY <1>12, <2>1, TypeParts, ConfigAssumption DEF LockInv, TimedOK, KillTimesOut, Release
    <3>3. LocksOK'
      BY <1>12, <2>1, TypeParts DEF LockInv, LocksOK, KillTimesOut, Release
    <3>4. CountsOK'
      BY <1>12, <2>1, TypeParts DEF LockInv, CountsOK, KillTimesOut, Release
    <3>. QED BY <3>1, <3>2, <3>3, <3>4 DEF TypeOK, ControlOK, TimedOK, LocksOK, CountsOK
  <2>3. Placed'
    BY <1>12, <2>1, GotoPlaced DEF LockInv, LockedPC, KillTimesOut, Release
  <2>4. MutualExclusion'
    BY <1>12, <2>1, GotoExit DEF LockInv, LockedPC, KillTimesOut, Release
  <2>. QED BY <2>2, <2>3, <2>4 DEF LockInv
<1>13. ASSUME Wake PROVE LockInv'
  <2>1. Reaper \in Actors /\ "sweeping" \in Points(Reaper) /\ "sweeping" \notin LockedPC
    BY <1>13, ActorsAssumption
       DEF LockInv, TypeOK, Placed, Wake, Points, RequestPC, ReaperPC, CloserPC, LockedPC,
           Actors, Backends
  <2>2. TypeOK'
    <3>1. ControlOK'
      BY <1>13, <2>1, GotoType DEF LockInv, Wake
    <3>2. TimedOK'
      BY <1>13, <2>1, TypeParts, ConfigAssumption DEF LockInv, TimedOK, Wake
    <3>3. LocksOK'
      BY <1>13, <2>1, TypeParts DEF LockInv, LocksOK, Wake
    <3>4. CountsOK'
      BY <1>13, <2>1, TypeParts DEF LockInv, CountsOK, Wake
    <3>. QED BY <3>1, <3>2, <3>3, <3>4 DEF TypeOK, ControlOK, TimedOK, LocksOK, CountsOK
  <2>3. Placed'
    BY <1>13, <2>1, GotoPlaced DEF LockInv, LockedPC, Wake
  <2>4. MutualExclusion'
    BY <1>13, <2>1, GotoOutside DEF LockInv, LockedPC, Wake
  <2>. QED BY <2>2, <2>3, <2>4 DEF LockInv
<1>14. ASSUME NEW b \in Backends, SweepNext(b) PROVE LockInv'
  BY <1>14, AcquireLock DEF SweepNext, LockedPC, Actors
<1>15. ASSUME SweepEnds PROVE LockInv'
  <2>1. Reaper \in Actors /\ "asleep" \in Points(Reaper) /\ "asleep" \notin LockedPC
    BY <1>15, ActorsAssumption
       DEF LockInv, TypeOK, Placed, SweepEnds, Points, RequestPC, ReaperPC, CloserPC,
           LockedPC, Actors, Backends
  <2>2. TypeOK'
    <3>1. ControlOK'
      BY <1>15, <2>1, GotoType DEF LockInv, SweepEnds
    <3>2. TimedOK'
      BY <1>15, <2>1, TypeParts, ConfigAssumption DEF LockInv, TimedOK, SweepEnds
    <3>3. LocksOK'
      BY <1>15, <2>1, TypeParts DEF LockInv, LocksOK, SweepEnds
    <3>4. CountsOK'
      BY <1>15, <2>1, TypeParts DEF LockInv, CountsOK, SweepEnds
    <3>. QED BY <3>1, <3>2, <3>3, <3>4 DEF TypeOK, ControlOK, TimedOK, LocksOK, CountsOK
  <2>3. Placed'
    BY <1>15, <2>1, GotoPlaced DEF LockInv, LockedPC, SweepEnds
  <2>4. MutualExclusion'
    BY <1>15, <2>1, GotoOutside DEF LockInv, LockedPC, SweepEnds
  <2>. QED BY <2>2, <2>3, <2>4 DEF LockInv
<1>16. ASSUME Shutdown PROVE LockInv'
  <2>1. CASE pc[Reaper] = "dead"
    <3>1. pc' = [pc EXCEPT ![Closer] = "failed"] /\ UNCHANGED <<at, holder, queue, left, ripe>>
      BY <1>16, <2>1 DEF Shutdown
    <3>2. UNCHANGED <<proc, idle, active, nap, ready, orphans, leaked>>
      BY <1>16 DEF Shutdown
    <3>3. TypeOK'
      BY <3>1, <3>2, ActorsAssumption DEF LockInv, TypeOK, CloserPC, Actors
    <3>4. Placed' /\ MutualExclusion'
      BY <1>16, <3>1, ActorsAssumption
         DEF Shutdown, LockInv, TypeOK, Placed, MutualExclusion, LockedPC, Actors
    <3>. QED BY <3>3, <3>4 DEF LockInv
  <2>2. CASE pc[Reaper] # "dead"
    <3>1. /\ pc' = [pc EXCEPT ![Closer] = "sweeping", ![Reaper] = "cancelled"]
          /\ at' = [at EXCEPT ![Reaper] = NoBackend]
          /\ CancelReaper
          /\ \A r \in Requests : pc[r] = "idle"
          /\ UNCHANGED <<proc, idle, active, nap, ready, orphans, leaked>>
      BY <1>16, <2>2 DEF Shutdown
    <3>2. TypeOK'
      BY <3>1, ActorsAssumption, EmptySeq
         DEF CancelReaper, LockInv, TypeOK, ReaperPC, CloserPC, Actors
    <3>3. \A a \in Actors : pc'[a] \in {"idle", "cancelled", "sweeping"}
      BY <3>1, ActorsAssumption DEF LockInv, TypeOK, Actors
    <3>4. Placed'
      BY <3>3 DEF Placed, LockedPC
    <3>5. MutualExclusion'
      BY <3>1, <3>3, ActorsAssumption DEF CancelReaper, MutualExclusion, LockedPC, Actors
    <3>. QED BY <3>2, <3>4, <3>5 DEF LockInv
  <2>. QED BY <2>1, <2>2
<1>17. ASSUME StopAllNext PROVE LockInv'
  <2>1. Closer \in Actors /\ at[Closer] \in Backends \cup {NoBackend} /\ at[Closer] < N
    BY <1>17 DEF StopAllNext, LockInv, TypeOK, Actors
  <2>2. at[Closer] + 1 \in Backends
    <3>1. N \in Nat \ {0}
      BY ConfigAssumption
    <3>. QED BY <2>1, <3>1 DEF Backends, NoBackend
  <2>. QED BY <1>17, <2>1, <2>2, AcquireLock DEF StopAllNext, LockedPC
<1>18. ASSUME StopAllDone PROVE LockInv'
  <2>1. /\ Closer \in Actors
        /\ "done" \in Points(Closer)
        /\ N \in PlaceType
        /\ "done" \notin LockedPC
    BY <1>18, ActorsAssumption, ConfigAssumption
       DEF LockInv, TypeOK, Placed, StopAllDone, Points, RequestPC, ReaperPC, CloserPC,
           LockedPC, Actors, Backends
  <2>2. TypeOK'
    <3>1. ControlOK'
      BY <1>18, <2>1, GotoType DEF LockInv, StopAllDone
    <3>2. TimedOK'
      BY <1>18, <2>1, TypeParts, ConfigAssumption DEF LockInv, TimedOK, StopAllDone
    <3>3. LocksOK'
      BY <1>18, <2>1, TypeParts DEF LockInv, LocksOK, StopAllDone
    <3>4. CountsOK'
      BY <1>18, <2>1, TypeParts DEF LockInv, CountsOK, StopAllDone
    <3>. QED BY <3>1, <3>2, <3>3, <3>4 DEF TypeOK, ControlOK, TimedOK, LocksOK, CountsOK
  <2>3. Placed'
    BY <1>18, <2>1, GotoPlaced DEF LockInv, LockedPC, StopAllDone
  <2>4. MutualExclusion'
    BY <1>18, <2>1, GotoOutside, ConfigAssumption DEF LockInv, LockedPC, StopAllDone
  <2>. QED BY <2>2, <2>3, <2>4 DEF LockInv
<1>19. ASSUME NEW b \in Backends, ProcessExits(b) PROVE LockInv'
  BY <1>19 DEF ProcessExits, LockInv, TypeOK, Placed, MutualExclusion
<1>20. ASSUME Tick PROVE LockInv'
  <2>1. TimedOK'
    BY <1>20, ConfigAssumption DEF Tick, LockInv, TypeOK, TimedOK
  <2>2. TypeOK'
    BY <1>20, <2>1 DEF Tick, LockInv, TypeOK, TimedOK
  <2>. QED BY <1>20, <2>2 DEF Tick, LockInv, Placed, MutualExclusion
<1>21. CASE UNCHANGED vars
  BY <1>21 DEF vars, LockInv, TypeOK, Placed, MutualExclusion
<1>. QED
  BY <1>1, <1>2, <1>3, <1>4, <1>5, <1>6, <1>7, <1>8, <1>9, <1>10, <1>11, <1>12, <1>13,
     <1>14, <1>15, <1>16, <1>17, <1>18, <1>19, <1>20, <1>21
     DEF Next, RequestStep, LockStep, ReaperStep, CloserStep, Halted

\* The lock's holder is the actor inside, so nobody else is: starts and stops
\* of a runtime never overlap, and every variable has its type.
THEOREM LockSafety == Spec => [](TypeOK /\ MutualExclusion)
<1>1. Init => LockInv
  BY InitLock
<1>2. LockInv => TypeOK /\ MutualExclusion
  BY DEF LockInv
<1>. QED BY <1>1, <1>2, NextLock, PTL DEF Spec

\* Whatever crashes, times out and fails to start: the count of a backend's requests
\* never falls below zero, and no actor is at a place that is not of its own code.
THEOREM RuntimesWellTyped == Spec => []TypeOK
    BY LockSafety, PTL

-----------------------------------------------------------------------------
\* A reference to a process that does not run may be given up.
LEMMA DropExited ==
    ASSUME orphans \in [Backends -> Nat], NoOrphan, NEW b, Drop(b), ~Running(b)
    PROVE  NoOrphan'
BY DEF NoOrphan, Drop

\* What is done inside a lock up to the first wait leaves no child behind.
LEMMA CriticalOrphan ==
    ASSUME orphans \in [Backends -> Nat], NoOrphan, NEW a, NEW b, Critical(a, b)
    PROVE  NoOrphan'
<1>1. CASE Reuse(a, b) \/ SpawnFails(a, b)
  BY <1>1 DEF Reuse, SpawnFails, NoOrphan
<1>2. CASE Spawn(a, b) \/ SpawnExits(a, b)
  BY <1>2, DropExited DEF Spawn, SpawnExits, Track, ResetState
<1>3. CASE StopLocked(a, b, "sweeping")
  BY <1>3, DropExited DEF StopLocked, ResetState, NoOrphan
<1>. QED BY <1>1, <1>2, <1>3 DEF Critical

\* Every step keeps track of every running child.
LEMMA NextOrphan == TypeOK /\ NoOrphan /\ [Next]_vars => NoOrphan'
<1>. SUFFICES ASSUME orphans \in [Backends -> Nat], NoOrphan, [Next]_vars PROVE NoOrphan'
  BY DEF TypeOK
<1>1. ASSUME NEW a, NEW b, Acquire(a, b) PROVE NoOrphan'
  BY <1>1, CriticalOrphan DEF Acquire, NoOrphan
<1>2. ASSUME NEW a, NEW b, Granted(a, b) PROVE NoOrphan'
  BY <1>2, CriticalOrphan DEF Granted
<1>3. ASSUME NEW r, StartFails(r) PROVE NoOrphan'
  BY <1>3, DropExited DEF StartFails, StopLocked, ResetState, NoOrphan
<1>4. ASSUME NEW a, StopDone(a) PROVE NoOrphan'
  BY <1>4, DropExited DEF StopDone, ResetState
<1>5. ASSUME NEW r, \/ ProbeReady(r) \/ ProbeNotReady(r) \/ PollAgain(r) \/ EndUse(r)
                    \/ TouchAnswered(r) \/ AbandonStream(r) \/ Kill(r) \/ KillTimesOut(r)
      PROVE NoOrphan'
  BY <1>5 DEF ProbeReady, ProbeNotReady, PollAgain, EndUse, TouchAnswered, AbandonStream,
              Kill, KillTimesOut, NoOrphan
<1>6. CASE Wake \/ SweepEnds \/ Shutdown \/ StopAllDone \/ Tick \/ UNCHANGED vars
  BY <1>6 DEF Wake, SweepEnds, Shutdown, StopAllDone, Tick, vars, NoOrphan
<1>7. ASSUME NEW b, ProcessExits(b) PROVE NoOrphan'
  BY <1>7 DEF ProcessExits, NoOrphan
<1>. QED
  BY <1>1, <1>2, <1>3, <1>4, <1>5, <1>6, <1>7
     DEF Next, RequestStep, LockStep, ReaperStep, CloserStep, Halted, EnsureRunning,
         SweepNext, StopAllNext

\* However starts, crashes, stops and kills that time out interleave, the
\* manager never gives up its reference to a child that is still running.
THEOREM ChildrenTracked == Spec => []NoOrphan
<1>1. Init => NoOrphan
  BY DEF Init, NoOrphan
<1>2. TypeOK /\ NoOrphan /\ [Next]_vars => NoOrphan'
  BY NextOrphan
<1>3. Spec => []TypeOK
  BY LockSafety, PTL
<1>. QED BY <1>1, <1>2, <1>3, PTL DEF Spec

-----------------------------------------------------------------------------
(* Who waits for a lock.                                                   *)

\* The two parts of WaitersQueued, element by element: who waits is in line,
\* and the line holds nobody else and nobody twice.
InLine(a, b) == \E i \in DOMAIN queue[b] : queue[b][i] = a
LineInv ==
    /\ \A b \in Backends : \A i \in DOMAIN queue[b] :
          pc[queue[b][i]] = "queued" /\ at[queue[b][i]] = b
    /\ \A a \in Actors : pc[a] = "queued" => InLine(a, at[a])
    /\ \A b \in Backends : \A i, j \in DOMAIN queue[b] : queue[b][i] = queue[b][j] => i = j

-----------------------------------------------------------------------------
(* The line before a lock.                                                 *)

\* An actor that neither joins nor leaves a line leaves all of them alone,
LEMMA LineMove ==
    ASSUME TypeOK, LineInv, NEW a \in Actors, NEW point, NEW c, Goto(a, point, c),
           pc[a] # "queued", point # "queued", queue' = queue
    PROVE  LineInv'
<1>1. \A b \in Backends : \A i \in DOMAIN queue[b] : queue[b][i] \in Actors /\ queue[b][i] # a
  BY DEF TypeOK, LineInv
<1>2. /\ pc'[a] # "queued" /\ \A x \in Actors : x # a => pc'[x] = pc[x] /\ at'[x] = at[x]
      /\ queue' = queue
  BY DEF TypeOK, Goto
<1>3. (\A x \in Actors : pc[x] = "queued" => InLine(x, at[x]))'
  BY <1>2 DEF LineInv, InLine
<1>. QED BY <1>1, <1>2, <1>3 DEF LineInv

\* one that joins is last in its line,
LEMMA LineJoin ==
    ASSUME TypeOK, LineInv, NEW a \in Actors, NEW b \in Backends, Goto(a, "queued", b),
           pc[a] # "queued", queue' = [queue EXCEPT ![b] = Append(@, a)]
    PROVE  LineInv'
<1>. DEFINE q == queue[b]
<1>1. q \in Seq(Actors) /\ queue' = [queue EXCEPT ![b] = Append(q, a)] /\ queue'[b] = Append(q, a)
  BY DEF TypeOK
<1>2. /\ Len(q) \in Nat /\ DOMAIN q = 1 .. Len(q) /\ DOMAIN Append(q, a) = 1 .. Len(q) + 1
      /\ \A i \in 1 .. Len(q) : Append(q, a)[i] = q[i]
      /\ Append(q, a)[Len(q) + 1] = a
  BY <1>1, AppendProperties, LenProperties
<1>3. \A c \in Backends : \A i \in DOMAIN queue[c] : queue[c][i] \in Actors /\ queue[c][i] # a
  BY DEF TypeOK, LineInv
<1>4. \A c \in Backends : c # b => queue'[c] = queue[c]
  BY <1>1 DEF TypeOK
<1>5. \A x \in Actors : x # a => pc'[x] = pc[x] /\ at'[x] = at[x]
  BY DEF TypeOK, Goto
<1>6. pc'[a] = "queued" /\ at'[a] = b
  BY DEF TypeOK, Goto
<1>7. \A c \in Backends : \A i \in DOMAIN queue'[c] : pc'[queue'[c][i]] = "queued" /\ at'[queue'[c][i]] = c
  <2>. TAKE c \in Backends
  <2>1. CASE c # b
    BY <2>1, <1>3, <1>4, <1>5 DEF LineInv
  <2>2. CASE c = b
    BY <2>2, <1>1, <1>2, <1>3, <1>5, <1>6 DEF LineInv
  <2>. QED BY <2>1, <2>2
<1>8. \A x \in Actors : (pc[x] = "queued" => InLine(x, at[x]))'
  <2>. TAKE x \in Actors
  <2>. HAVE pc'[x] = "queued"
  <2>1. CASE x = a
    BY <2>1, <1>1, <1>2, <1>6 DEF InLine
  <2>2. CASE x # a
    <3>1. PICK i \in DOMAIN queue[at[x]] : queue[at[x]][i] = x
      BY <2>2, <1>5 DEF LineInv, InLine
    <3>2. at'[x] = at[x] /\ i \in DOMAIN queue'[at[x]] /\ queue'[at[x]][i] = x
      BY <2>2, <3>1, <1>1, <1>2, <1>4, <1>5 DEF TypeOK
    <3>. QED BY <3>2 DEF InLine
  <2>. QED BY <2>1, <2>2
<1>9. \A c \in Backends : \A i, j \in DOMAIN queue'[c] : queue'[c][i] = queue'[c][j] => i = j
  <2>. TAKE c \in Backends
  <2>1. CASE c # b
    BY <2>1, <1>4 DEF LineInv
  <2>2. CASE c = b
    BY <2>2, <1>1, <1>2, <1>3 DEF LineInv
  <2>. QED BY <2>1, <2>2
<1>. QED BY <1>7, <1>8, <1>9 DEF LineInv

\* and the first one leaves it with the others in their order.
LEMMA LineLeave ==
    ASSUME TypeOK, LineInv, NEW a \in Actors, NEW b \in Backends, NEW point, NEW c,
           Goto(a, point, c), point # "queued",
           queue[b] # <<>>, Head(queue[b]) = a, queue' = [queue EXCEPT ![b] = Tail(@)]
    PROVE  LineInv'
<1>. DEFINE q == queue[b]
<1>1. q \in Seq(Actors) /\ queue'[b] = Tail(q)
  BY DEF TypeOK
<1>2. /\ Len(q) \in Nat \ {0} /\ DOMAIN q = 1 .. Len(q) /\ DOMAIN Tail(q) = 1 .. Len(q) - 1
      /\ \A i \in 1 .. Len(q) - 1 : Tail(q)[i] = q[i + 1]
      /\ q[1] = a
  BY <1>1, HeadTailProperties, LenProperties, EmptySeq
<1>3. \A d \in Backends : d # b => queue'[d] = queue[d]
  BY DEF TypeOK
<1>4. \A x \in Actors : x # a => pc'[x] = pc[x] /\ at'[x] = at[x]
  BY DEF TypeOK, Goto
<1>5. pc'[a] # "queued" /\ at[a] = b
  BY <1>1, <1>2 DEF TypeOK, Goto, LineInv
<1>6. \A d \in Backends : \A i \in DOMAIN queue[d] : queue[d][i] \in Actors
  BY DEF TypeOK
<1>7. \A d \in Backends : \A i \in DOMAIN queue'[d] :
          queue'[d][i] \in Actors \ {a} /\ pc'[queue'[d][i]] = "queued" /\ at'[queue'[d][i]] = d
  <2>. TAKE d \in Backends
  <2>1. CASE d # b
    BY <2>1, <1>3, <1>4, <1>5, <1>6 DEF LineInv
  <2>2. CASE d = b
    <3>. TAKE i \in DOMAIN queue'[d]
    <3>1. i \in 1 .. Len(q) - 1 /\ queue'[d][i] = q[i + 1]
      BY <2>2, <1>1, <1>2
    <3>2. i + 1 \in DOMAIN q /\ 1 \in DOMAIN q /\ i + 1 # 1
      BY <3>1, <1>2
    <3>3. q[i + 1] # q[1] /\ q[i + 1] \in Actors /\ pc[q[i + 1]] = "queued" /\ at[q[i + 1]] = b
      BY <3>2, <1>6 DEF LineInv
    <3>. QED BY <3>1, <3>3, <2>2, <1>2, <1>4
  <2>. QED BY <2>1, <2>2
<1>8. \A x \in Actors : (pc[x] = "queued" => InLine(x, at[x]))'
  <2>. TAKE x \in Actors
  <2>. HAVE pc'[x] = "queued"
  <2>1. x # a /\ pc[x] = "queued" /\ at'[x] = at[x]
    BY <1>4, <1>5
  <2>2. PICK i \in DOMAIN queue[at[x]] : queue[at[x]][i] = x
    BY <2>1 DEF LineInv, InLine
  <2>3. CASE at[x] # b
    BY <2>1, <2>2, <2>3, <1>3 DEF InLine, TypeOK
  <2>4. CASE at[x] = b
    <3>1. i \in 1 .. Len(q) /\ i # 1
      BY <2>1, <2>2, <2>4, <1>2
    <3>2. i - 1 \in DOMAIN Tail(q) /\ Tail(q)[i - 1] = x
      BY <3>1, <2>2, <2>4, <1>2
    <3>. QED BY <3>2, <2>1, <2>4, <1>1 DEF InLine
  <2>. QED BY <2>3, <2>4
<1>9. \A d \in Backends : \A i, j \in DOMAIN queue'[d] : queue'[d][i] = queue'[d][j] => i = j
  <2>. TAKE d \in Backends
  <2>1. CASE d # b
    BY <2>1, <1>3 DEF LineInv
  <2>2. CASE d = b
    BY <2>2, <1>1, <1>2 DEF LineInv
  <2>. QED BY <2>1, <2>2
<1>. QED BY <1>7, <1>8, <1>9 DEF LineInv

\* Where an actor is once it has gone as far as it can inside the lock of b.
LEMMA CriticalPlace ==
    ASSUME NEW a \in Actors, NEW b, Critical(a, b)
    PROVE  \E point \in {"serving", "probing", "idle", "stopping", "sweeping"},
              c \in {b, NoBackend} : Goto(a, point, c)
BY DEF Critical, Reuse, Spawn, SpawnFails, SpawnExits, StopLocked, Leave

\* stop_all goes on to a backend that there is.
LEMMA NextInOrder == TypeOK /\ StopAllNext => at[Closer] + 1 \in Backends
<1>. SUFFICES ASSUME TypeOK, StopAllNext PROVE at[Closer] + 1 \in Backends
  OBVIOUS
<1>1. at[Closer] \in Backends \cup {NoBackend} /\ at[Closer] < N
  BY DEF StopAllNext, TypeOK, Actors
<1>2. N \in Nat \ {0}
  BY ConfigAssumption
<1>. QED BY <1>1, <1>2 DEF Backends, NoBackend

\* Every step keeps the lines.
LEMMA NextLine == LockInv /\ LineInv /\ [Next]_vars => LineInv'
<1>. SUFFICES ASSUME LockInv, LineInv, [Next]_vars PROVE LineInv'
  OBVIOUS
<1>0. TypeOK
  BY DEF LockInv
<1>1. ASSUME NEW a \in Actors, NEW b \in Backends, Acquire(a, b), pc[a] # "queued" PROVE LineInv'
  BY <1>0, <1>1, CriticalPlace, LineMove, LineJoin DEF Acquire
<1>2. ASSUME NEW a \in Actors, NEW b \in Backends, Granted(a, b) PROVE LineInv'
  BY <1>0, <1>2, CriticalPlace, LineLeave DEF Granted
<1>3. ASSUME NEW r \in Requests,
             \/ ProbeReady(r) \/ ProbeNotReady(r) \/ PollAgain(r)
             \/ EndUse(r) \/ TouchAnswered(r) \/ AbandonStream(r)
      PROVE  LineInv'
  BY <1>0, <1>3, LineMove
     DEF ProbeReady, ProbeNotReady, PollAgain, EndUse, TouchAnswered, AbandonStream, Leave, Actors
<1>4. ASSUME NEW r \in Requests, StartFails(r) PROVE LineInv'
  BY <1>0, <1>4, LineMove DEF StartFails, StopLocked, Actors
<1>5. ASSUME NEW a \in Actors, StopDone(a) \/ Kill(a) \/ KillTimesOut(a) PROVE LineInv'
  BY <1>0, <1>5, LineMove DEF StopDone, Kill, KillTimesOut, AfterStop, AfterTimeout
<1>6. CASE Wake \/ SweepEnds
  BY <1>0, <1>6, LineMove DEF Wake, SweepEnds, Actors
<1>7. CASE StopAllDone
  BY <1>0, <1>7, LineMove DEF StopAllDone, Actors
<1>8. CASE Shutdown
  <2>1. CASE pc[Reaper] = "dead"
    <3>1. UNCHANGED <<at, queue>> /\ \A a \in Actors : pc'[a] = "queued" <=> pc[a] = "queued"
      BY <1>0, <1>8, <2>1, ActorsAssumption DEF Shutdown, TypeOK
    <3>2. \A b \in Backends : \A i \in DOMAIN queue[b] : queue[b][i] \in Actors
      BY <1>0 DEF TypeOK
    <3>. QED BY <3>1, <3>2 DEF LineInv, InLine
  <2>2. CASE pc[Reaper] # "dead"
    <3>1. queue' = [b \in Backends |-> <<>>]
      BY <1>8, <2>2 DEF Shutdown, CancelReaper
    <3>2. \A a \in Actors : pc'[a] # "queued"
      BY <1>0, <1>8, <2>2, ActorsAssumption DEF Shutdown, TypeOK, Actors
    <3>3. \A b \in Backends : DOMAIN queue'[b] = {}
      BY <3>1
    <3>. QED BY <3>2, <3>3 DEF LineInv
  <2>. QED BY <2>1, <2>2
<1>9. CASE (\E b \in Backends : ProcessExits(b)) \/ Tick \/ UNCHANGED vars
  BY <1>9 DEF ProcessExits, Tick, vars, LineInv, InLine
<1>10. ASSUME NEW r \in Requests, NEW b \in Backends, EnsureRunning(r, b) PROVE LineInv'
  BY <1>1, <1>10 DEF EnsureRunning, Actors
<1>11. ASSUME NEW b \in Backends, SweepNext(b) PROVE LineInv'
  BY <1>1, <1>11 DEF SweepNext, Actors
<1>12. CASE StopAllNext
  BY <1>0, <1>1, <1>12, NextInOrder DEF StopAllNext, Actors
<1>. QED
  BY <1>2, <1>3, <1>4, <1>5, <1>6, <1>7, <1>8, <1>9, <1>10, <1>11, <1>12
     DEF Next, RequestStep, LockStep, ReaperStep, CloserStep, Halted

\* No wakeup is lost and none is spent twice, for any number of waiters: who waits
\* for a backend's lock is in its line, once, and nobody else is.
THEOREM WaitersInLine == Spec => []WaitersQueued
<1>1. Init => LineInv
  BY ActorsAssumption DEF Init, LineInv
<1>2. TypeOK /\ LineInv => WaitersQueued
  <2>. SUFFICES ASSUME TypeOK, LineInv, NEW b \in Backends
                PROVE  {queue[b][i] : i \in DOMAIN queue[b]}
                          = {a \in Actors : pc[a] = "queued" /\ at[a] = b}
    BY DEF WaitersQueued, LineInv
  <2>1. \A i \in DOMAIN queue[b] : queue[b][i] \in Actors
    BY DEF TypeOK
  <2>. QED BY <2>1 DEF LineInv, InLine
<1>3. Spec => []LockInv
  BY InitLock, NextLock, PTL DEF Spec
<1>4. LockInv => TypeOK
  BY DEF LockInv
<1>. QED BY <1>1, <1>2, <1>3, <1>4, NextLine, PTL DEF Spec

-----------------------------------------------------------------------------
(* The count of uses.                                                      *)

\* There are finitely many requests, so finitely many use a backend.
LEMMA UsersFinite ==
    ASSUME NEW b
    PROVE  /\ IsFiniteSet(Users(b)) /\ Cardinality(Users(b)) \in Nat
           /\ Cardinality(Users(b)') \in Nat
<1>1. Users(b) \in SUBSET Requests /\ Users(b)' \in SUBSET Requests
  BY DEF Users
<1>. QED BY <1>1, ActorsAssumption, FS_Subset, FS_CardinalityType

\* A move outside a use leaves the users alone,
LEMMA UsersKept ==
    ASSUME TypeOK, NEW a \in Actors, NEW point, NEW c, Goto(a, point, c),
           pc[a] # "serving", point # "serving"
    PROVE  \A b : Users(b)' = Users(b)
BY DEF TypeOK, Goto, Users, Actors

\* a request that begins is one more,
LEMMA UsersJoin ==
    ASSUME TypeOK, NEW r \in Requests, NEW b \in Backends, Goto(r, "serving", b), pc[r] # "serving"
    PROVE  /\ Users(b)' = Users(b) \cup {r}
           /\ Cardinality(Users(b)') = Cardinality(Users(b)) + 1
           /\ \A c : c # b => Users(c)' = Users(c)
<1>1. Users(b)' = Users(b) \cup {r} /\ \A c : c # b => Users(c)' = Users(c)
  BY DEF TypeOK, Goto, Users, Actors
<1>2. r \notin Users(b)
  BY DEF Users
<1>. QED BY <1>1, <1>2, UsersFinite, FS_AddElement

\* and one that ends is one less.
LEMMA UsersPart ==
    ASSUME TypeOK, NEW r \in Requests, NEW b \in Backends, pc[r] = "serving", at[r] = b,
           NEW point, point # "serving", NEW c, Goto(r, point, c)
    PROVE  /\ r \in Users(b)
           /\ Users(b)' = Users(b) \ {r}
           /\ Cardinality(Users(b)') = Cardinality(Users(b)) - 1
           /\ \A d : d # b => Users(d)' = Users(d)
<1>1. Users(b)' = Users(b) \ {r} /\ \A d : d # b => Users(d)' = Users(d)
  BY DEF TypeOK, Goto, Users, Actors
<1>2. r \in Users(b)
  BY DEF Users
<1>3. IsFiniteSet(Users(b))
  BY UsersFinite
<1>4. Cardinality(Users(b) \ {r}) = Cardinality(Users(b)) - 1
  BY <1>2, <1>3, FS_RemoveElement
<1>. QED BY <1>1, <1>2, <1>4

\* What happens at one backend disturbs the count of that one at most.
LEMMA BackedAt ==
    ASSUME TypeOK, ActiveBacked, NEW b \in Backends, NEW n, NEW m,
           active' = [active EXCEPT ![b] = n], leaked' = [leaked EXCEPT ![b] = m],
           \A c : c # b => Users(c)' = Users(c), n <= Cardinality(Users(b)') + m
    PROVE  ActiveBacked'
BY DEF TypeOK, ActiveBacked

\* An actor that enters the lock of b counts itself if it begins a use.
LEMMA CriticalBacked ==
    ASSUME TypeOK, ActiveBacked, NEW a \in Actors, NEW b \in Backends, Critical(a, b),
           pc[a] # "serving", leaked' = leaked
    PROVE  ActiveBacked'
<1>1. CASE a \in Requests /\ Reuse(a, b)
  <2>1. /\ active' = [active EXCEPT ![b] = @ + 1]
        /\ Cardinality(Users(b)') = Cardinality(Users(b)) + 1
        /\ \A c : c # b => Users(c)' = Users(c)
    BY <1>1, UsersJoin DEF Reuse, BeginRequest
  <2>2. active[b] + 1 <= Cardinality(Users(b)') + leaked[b]
    BY <2>1, UsersFinite DEF ActiveBacked, TypeOK
  <2>3. leaked' = [leaked EXCEPT ![b] = leaked[b]]
    BY DEF TypeOK
  <2>. QED BY <2>1, <2>2, <2>3, BackedAt
<1>2. CASE Spawn(a, b) \/ SpawnFails(a, b)
  <2>1. active' = active /\ \A c : Users(c)' = Users(c)
    BY <1>2, UsersKept DEF Spawn, SpawnFails, Leave
  <2>. QED BY <2>1 DEF ActiveBacked
<1>3. CASE SpawnExits(a, b) \/ StopLocked(a, b, "sweeping")
  <2>1. active' \in {active, [active EXCEPT ![b] = 0]} /\ \A c : Users(c)' = Users(c)
    BY <1>3, UsersKept DEF SpawnExits, StopLocked, ResetState, Leave
  <2>2. ActiveBacked' \/ (active' = [active EXCEPT ![b] = 0] /\ leaked' = [leaked EXCEPT ![b] = leaked[b]])
    BY <2>1 DEF ActiveBacked, TypeOK
  <2>3. 0 <= Cardinality(Users(b)') + leaked[b]
    BY UsersFinite DEF TypeOK
  <2>. QED BY <2>1, <2>2, <2>3, BackedAt
<1>. QED BY <1>1, <1>2, <1>3 DEF Critical

\* Every step keeps the count backed.
LEMMA NextBacked == LockInv /\ ActiveBacked /\ [Next]_vars => ActiveBacked'
<1>. SUFFICES ASSUME LockInv, ActiveBacked, [Next]_vars PROVE ActiveBacked'
  OBVIOUS
<1>0. TypeOK
  BY DEF LockInv
<1>1. ASSUME active' = active, leaked' = leaked, \A b : Users(b)' = Users(b) PROVE ActiveBacked'
  BY <1>1 DEF ActiveBacked
<1>2. ASSUME NEW a \in Actors, NEW b \in Backends, Acquire(a, b), pc[a] # "serving", leaked' = leaked
      PROVE  ActiveBacked'
  BY <1>0, <1>1, <1>2, CriticalBacked, UsersKept DEF Acquire
<1>3. ASSUME NEW a \in Actors, NEW b \in Backends, Granted(a, b) PROVE ActiveBacked'
  BY <1>0, <1>3, CriticalBacked DEF Granted
<1>4. ASSUME NEW r \in Requests, NEW b \in Backends, at[r] = b, ProbeReady(r) PROVE ActiveBacked'
  <2>1. /\ leaked' = [leaked EXCEPT ![b] = leaked[b]] /\ active' = [active EXCEPT ![b] = @ + 1]
        /\ Cardinality(Users(b)') = Cardinality(Users(b)) + 1
        /\ \A c : c # b => Users(c)' = Users(c)
    BY <1>0, <1>4, UsersJoin DEF ProbeReady, BeginRequest, TypeOK
  <2>2. active[b] + 1 <= Cardinality(Users(b)) + 1 + leaked[b]
    BY <1>0, UsersFinite DEF ActiveBacked, TypeOK
  <2>. QED BY <1>0, <2>1, <2>2, BackedAt
<1>5. ASSUME NEW r \in Requests, NEW b \in Backends, at[r] = b, EndUse(r) PROVE ActiveBacked'
  <2>. DEFINE n == IF active[b] = 0 THEN 0 ELSE active[b] - 1
  <2>1. pc[r] = "serving" /\ \E point \in {"answered", "idle"}, c \in {b, NoBackend} : Goto(r, point, c)
    BY <1>5 DEF EndUse, Leave
  <2>2. /\ leaked' = [leaked EXCEPT ![b] = leaked[b]] /\ active' = [active EXCEPT ![b] = n]
        /\ Cardinality(Users(b)') = Cardinality(Users(b)) - 1
        /\ \A c : c # b => Users(c)' = Users(c)
    BY <1>0, <1>5, <2>1, UsersPart DEF EndUse, EndRequest, TypeOK
  <2>3. active[b] <= Cardinality(Users(b)) + leaked[b] /\ active[b] \in Nat /\ leaked[b] \in Nat
    BY <1>0 DEF ActiveBacked, TypeOK
  <2>4. n <= Cardinality(Users(b)') + leaked[b]
    BY <2>2, <2>3, UsersFinite
  <2>. QED BY <1>0, <2>2, <2>4, BackedAt
<1>6. ASSUME NEW r \in Requests, NEW b \in Backends, at[r] = b, AbandonStream(r) PROVE ActiveBacked'
  <2>1. /\ leaked' = [leaked EXCEPT ![b] = leaked[b] + 1] /\ active' = [active EXCEPT ![b] = active[b]]
        /\ Cardinality(Users(b)') = Cardinality(Users(b)) - 1
        /\ \A c : c # b => Users(c)' = Users(c)
    BY <1>0, <1>6, UsersPart DEF AbandonStream, Leave, TypeOK
  <2>2. active[b] <= Cardinality(Users(b)) + leaked[b] /\ active[b] \in Nat /\ leaked[b] \in Nat
    BY <1>0 DEF ActiveBacked, TypeOK
  <2>3. active[b] <= Cardinality(Users(b)') + (leaked[b] + 1)
    BY <2>1, <2>2, UsersFinite
  <2>. QED BY <1>0, <2>1, <2>3, BackedAt
<1>7. ASSUME NEW r \in Requests, ProbeNotReady(r) \/ PollAgain(r) \/ TouchAnswered(r)
      PROVE  ActiveBacked'
  BY <1>0, <1>1, <1>7, UsersKept DEF ProbeNotReady, PollAgain, TouchAnswered, Leave, Actors
<1>8. ASSUME NEW a \in Actors, Kill(a) \/ KillTimesOut(a) PROVE ActiveBacked'
  BY <1>0, <1>1, <1>8, UsersKept DEF Kill, KillTimesOut, AfterTimeout
<1>9. ASSUME NEW a \in Actors, NEW b \in Backends, at[a] = b, StartFails(a) \/ StopDone(a)
      PROVE  ActiveBacked'
  <2>1. /\ active' \in {active, [active EXCEPT ![b] = 0]} /\ leaked' = leaked
        /\ \A c : Users(c)' = Users(c)
    BY <1>0, <1>9, UsersKept DEF StartFails, StopDone, StopLocked, ResetState, AfterStop
  <2>2. leaked' = [leaked EXCEPT ![b] = leaked[b]] /\ 0 <= Cardinality(Users(b)') + leaked[b]
    BY <1>0, <2>1, UsersFinite DEF TypeOK
  <2>. QED BY <1>0, <1>1, <2>1, <2>2, BackedAt
<1>10. CASE Wake \/ SweepEnds \/ StopAllDone
  BY <1>0, <1>1, <1>10, UsersKept DEF Wake, SweepEnds, StopAllDone, Actors
<1>11. CASE Shutdown
  <2>1. \A r \in Requests : pc'[r] = pc[r] /\ at'[r] = at[r]
    BY <1>0, <1>11, ActorsAssumption DEF Shutdown, TypeOK, Actors
  <2>. QED BY <1>1, <1>11, <2>1 DEF Shutdown, Users
<1>12. CASE (\E b \in Backends : ProcessExits(b)) \/ Tick \/ UNCHANGED vars
  BY <1>1, <1>12 DEF ProcessExits, Tick, vars, Users
<1>13. ASSUME NEW r \in Requests, NEW b \in Backends, EnsureRunning(r, b) PROVE ActiveBacked'
  BY <1>2, <1>13 DEF EnsureRunning, Actors
<1>14. ASSUME NEW b \in Backends, SweepNext(b) PROVE ActiveBacked'
  BY <1>2, <1>14 DEF SweepNext, Actors
<1>15. CASE StopAllNext
  BY <1>0, <1>2, <1>15, NextInOrder DEF StopAllNext, Actors
<1>16. \A a \in Actors :
          pc[a] \in LockedPC \cup {"serving"} => at[a] \in Backends
  BY DEF LockInv, Placed
<1>17. ASSUME NEW r \in Requests, RequestStep(r) PROVE ActiveBacked'
  <2>1. r \in Actors
    BY DEF Actors
  <2>2. CASE ProbeReady(r) \/ EndUse(r) \/ AbandonStream(r) \/ StartFails(r)
    BY <1>4, <1>5, <1>6, <1>9, <1>16, <2>1, <2>2
       DEF ProbeReady, EndUse, AbandonStream, StartFails, LockedPC
  <2>. QED BY <1>7, <1>13, <1>17, <2>2 DEF RequestStep
<1>18. ASSUME NEW a \in Actors, LockStep(a) PROVE ActiveBacked'
  BY <1>3, <1>8, <1>9, <1>16, <1>18 DEF LockStep, StopDone, LockedPC
<1>. QED
  BY <1>10, <1>11, <1>12, <1>14, <1>15, <1>17, <1>18 DEF Next, ReaperStep, CloserStep, Halted

\* active_requests never counts a use that is over, however often the state is reset
\* under it and in whatever order the uses end.
THEOREM CountIsBacked == Spec => []ActiveBacked
<1>1. Init => ActiveBacked
  BY UsersFinite DEF Init, ActiveBacked
<1>2. Spec => []LockInv
  BY InitLock, NextLock, PTL DEF Spec
<1>. QED BY <1>1, <1>2, NextBacked, PTL DEF Spec

-----------------------------------------------------------------------------
(* Shutdown.                                                               *)

\* While the proxy shuts down no request is handled and the reaper is gone.
Closing ==
    /\ pc[Closer] # "open" =>
          /\ \A r \in Requests : pc[r] = "idle"
          /\ pc[Reaper] \in {"cancelled", "dead"}
    /\ pc[Closer] = "open" => at[Closer] = NoBackend

\* Whoever is not at rest moves before the shutdown or as a part of it.
LEMMA ClosingMove ==
    ASSUME TypeOK, Closing, NEW a \in Actors, NEW point, NEW c, Goto(a, point, c), point # "open",
           a \in Requests => pc[a] # "idle" \/ pc[Closer] = "open",
           a = Reaper => pc[Reaper] \notin {"cancelled", "dead"},
           a = Closer => pc[Closer] # "open"
    PROVE  Closing'
BY ActorsAssumption DEF TypeOK, Closing, Goto, Actors

\* Every step keeps the order of the shutdown.
LEMMA NextClosing == LockInv /\ Closing /\ [Next]_vars => Closing'
<1>. SUFFICES ASSUME LockInv, Closing, [Next]_vars PROVE Closing'
  OBVIOUS
<1>0. TypeOK
  BY DEF LockInv
<1>1. ASSUME NEW a \in Actors, NEW b \in Backends, Acquire(a, b),
             a \in Requests => pc[Closer] = "open",
             a = Reaper => pc[Reaper] = "sweeping",
             a = Closer => pc[Closer] = "sweeping"
      PROVE  Closing'
  BY <1>0, <1>1, CriticalPlace, ClosingMove DEF Acquire
<1>2. ASSUME NEW a \in Actors, NEW b \in Backends, Granted(a, b) PROVE Closing'
  BY <1>0, <1>2, CriticalPlace, ClosingMove DEF Granted
<1>3. ASSUME NEW r \in Requests, RequestStep(r) PROVE Closing'
  <2>1. r \in Actors /\ r # Reaper /\ r # Closer
    BY ActorsAssumption DEF Actors
  <2>2. ASSUME NEW b \in Backends, EnsureRunning(r, b) PROVE Closing'
    BY <1>1, <2>1, <2>2 DEF EnsureRunning
  <2>3. CASE ProbeReady(r) \/ ProbeNotReady(r) \/ PollAgain(r)
    BY <1>0, <2>1, <2>3, ClosingMove DEF ProbeReady, ProbeNotReady, PollAgain
  <2>4. CASE EndUse(r) \/ TouchAnswered(r) \/ AbandonStream(r)
    BY <1>0, <2>1, <2>4, ClosingMove DEF EndUse, TouchAnswered, AbandonStream, Leave
  <2>5. CASE StartFails(r)
    BY <1>0, <2>1, <2>5, ClosingMove DEF StartFails, StopLocked
  <2>. QED BY <1>3, <2>2, <2>3, <2>4, <2>5 DEF RequestStep
<1>4. ASSUME NEW a \in Actors, LockStep(a) PROVE Closing'
  <2>1. CASE StopDone(a) \/ Kill(a) \/ KillTimesOut(a)
    BY <1>0, <2>1, ClosingMove DEF StopDone, Kill, KillTimesOut, AfterStop, AfterTimeout
  <2>. QED BY <1>2, <1>4, <2>1 DEF LockStep
<1>5. CASE ReaperStep
  <2>1. Reaper \in Actors /\ Reaper \notin Requests /\ Reaper # Closer
    BY ActorsAssumption DEF Actors
  <2>2. CASE Wake \/ SweepEnds
    BY <1>0, <2>1, <2>2, ClosingMove DEF Wake, SweepEnds
  <2>. QED BY <1>1, <1>5, <2>1, <2>2 DEF ReaperStep, SweepNext
<1>6. CASE CloserStep
  <2>1. Closer \in Actors /\ Closer \notin Requests /\ Reaper # Closer
    BY ActorsAssumption DEF Actors
  <2>2. CASE StopAllDone
    BY <1>0, <2>1, <2>2, ClosingMove DEF StopAllDone
  <2>3. CASE StopAllNext
    BY <1>0, <1>1, <2>1, <2>3, NextInOrder DEF StopAllNext
  <2>. QED BY <1>6, <2>2, <2>3 DEF CloserStep
<1>7. CASE Shutdown
  BY <1>0, <1>7, ActorsAssumption DEF Shutdown, TypeOK, Closing, Actors
<1>8. CASE (\E b \in Backends : ProcessExits(b)) \/ Tick \/ UNCHANGED vars
  BY <1>8 DEF ProcessExits, Tick, vars, Closing
<1>. QED BY <1>3, <1>4, <1>5, <1>6, <1>7, <1>8 DEF Next, Halted

\* A sweep of stop_all has stopped what it has passed.  Where every child can be
\* killed no wait for one raises, and neither task dies of it.
Swept ==
    /\ pc[Closer] \in {"sweeping", "done"} => \A b \in Backends : b <= at[Closer] => ~Running(b)
    /\ pc[Closer] \in {"queued", "stopping", "killing"} =>
          \A b \in Backends : b < at[Closer] => ~Running(b)
    /\ pc[Closer] = "done" => at[Closer] = N
    /\ pc[Closer] # "failed" /\ pc[Reaper] # "dead"

\* Before the shutdown there is no sweep.
LEMMA SweptBefore ==
    ASSUME TypeOK, Swept, NEW a \in Actors, a # Closer, NEW point, point # "dead", NEW c,
           Goto(a, point, c), pc[Closer] = "open"
    PROVE  Swept'
BY ActorsAssumption DEF TypeOK, Swept, Goto, Actors

\* The sweep at a backend whose lock it has.
LEMMA SweptStop ==
    ASSUME TypeOK, Swept, NEW b \in Backends, StopLocked(Closer, b, "sweeping"),
           \A c \in Backends : c < b => ~Running(c)
    PROVE  Swept'
<1>. Reaper \in Actors /\ Closer \in Actors /\ Closer \notin Requests /\ Reaper # Closer
  BY ActorsAssumption DEF Actors
<1>1. \A c \in Backends : c <= b => c < b \/ c = b
  BY DEF Backends
<1>2. pc[Reaper] # "dead" /\ \A point : pc' = [pc EXCEPT ![Closer] = point] => pc'[Reaper] = pc[Reaper]
  BY DEF TypeOK, Swept
<1>3. CASE Running(b)
  <2>1. /\ pc'[Closer] = "stopping" /\ at'[Closer] = b /\ pc'[Reaper] = pc[Reaper]
        /\ \A c \in Backends : Running(c)' = Running(c)
    BY <1>2, <1>3 DEF StopLocked, Goto, TypeOK, Running
  <2>. QED BY <1>2, <2>1 DEF Swept
<1>4. CASE ~Running(b)
  <2>1. /\ pc'[Closer] = "sweeping" /\ at'[Closer] = b /\ pc'[Reaper] = pc[Reaper]
        /\ proc' = [proc EXCEPT ![b] = "none"]
    BY <1>2, <1>4 DEF StopLocked, ResetState, Goto, TypeOK
  <2>2. \A c \in Backends : c <= b => ~Running(c)'
    BY <1>1, <1>4, <2>1 DEF TypeOK, Running
  <2>. QED BY <1>2, <2>1, <2>2 DEF Swept
<1>. QED BY <1>3, <1>4

\* Every step keeps the sweep's work, if all children can be killed.
LEMMA NextSwept ==
    ASSUME Unkillable = {}, LockInv, Closing, Swept, [Next]_vars PROVE Swept'
<1>0. TypeOK
  BY DEF LockInv
<1>1. ASSUME NEW a \in Actors, NEW b \in Backends, Acquire(a, b) \/ Granted(a, b),
             a # Closer, pc[Closer] = "open"
      PROVE  Swept'
  BY <1>0, <1>1, CriticalPlace, SweptBefore DEF Acquire, Granted
<1>2. ASSUME NEW r \in Requests, RequestStep(r) PROVE Swept'
  <2>1. r \in Actors /\ r # Closer
    BY ActorsAssumption DEF Actors
  <2>2. ASSUME NEW b \in Backends, EnsureRunning(r, b) PROVE Swept'
    BY <1>1, <2>1, <2>2 DEF EnsureRunning
  <2>3. CASE ProbeReady(r) \/ ProbeNotReady(r) \/ PollAgain(r)
    BY <1>0, <2>1, <2>3, SweptBefore DEF Closing, ProbeReady, ProbeNotReady, PollAgain
  <2>4. CASE EndUse(r) \/ TouchAnswered(r) \/ AbandonStream(r)
    BY <1>0, <2>1, <2>4, SweptBefore DEF Closing, EndUse, TouchAnswered, AbandonStream, Leave
  <2>5. CASE StartFails(r)
    BY <1>0, <2>1, <2>5, SweptBefore DEF Closing, StartFails, StopLocked
  <2>. QED BY <1>2, <2>2, <2>3, <2>4, <2>5 DEF RequestStep
<1>3. ASSUME NEW a \in Actors, a # Closer, LockStep(a) PROVE Swept'
  <2>1. pc[a] \in {"queued"} \cup LockedPC => pc[Closer] = "open"
    BY <1>3 DEF Closing, Actors, LockedPC
  <2>2. CASE StopDone(a) \/ Kill(a)
    BY <1>0, <1>3, <2>1, <2>2, SweptBefore DEF StopDone, Kill, AfterStop, LockedPC
  <2>3. ~KillTimesOut(a)
    BY DEF KillTimesOut
  <2>. QED BY <1>1, <1>3, <2>1, <2>2, <2>3 DEF LockStep, Granted
<1>4. ASSUME LockStep(Closer) PROVE Swept'
  <2>. Closer \in Actors /\ Closer \notin Requests /\ Reaper # Closer
    BY ActorsAssumption DEF Actors
  <2>1. ASSUME NEW b \in Backends, Granted(Closer, b) PROVE Swept'
    BY <1>0, <2>1, SweptStop DEF Granted, Critical, Swept
  <2>2. CASE StopDone(Closer)
    <3>1. at[Closer] \in Backends /\ ~Running(at[Closer])
      BY <2>2 DEF StopDone, LockInv, Placed, LockedPC
    <3>2. \A c \in Backends : c <= at[Closer] => c < at[Closer] \/ c = at[Closer]
      BY <3>1 DEF Backends
    <3>3. \A c \in Backends : c <= at[Closer] => ~Running(c)'
      BY <1>0, <2>2, <3>1, <3>2 DEF StopDone, ResetState, TypeOK, Running, Swept
    <3>4. Goto(Closer, "sweeping", at[Closer])
      BY <2>2 DEF StopDone, AfterStop, PlaceAfter
    <3>. QED BY <1>0, <3>3, <3>4 DEF Goto, TypeOK, Swept
  <2>3. CASE Kill(Closer)
    BY <1>0, <2>3 DEF Kill, Goto, TypeOK, Swept, Running
  <2>4. ~KillTimesOut(Closer)
    BY DEF KillTimesOut
  <2>. QED BY <1>4, <2>1, <2>2, <2>3, <2>4 DEF LockStep
<1>5. CASE ReaperStep
  <2>1. Reaper \in Actors /\ Reaper # Closer
    BY ActorsAssumption DEF Actors
  <2>2. CASE Wake \/ SweepEnds
    BY <1>0, <2>1, <2>2, SweptBefore DEF Closing, Wake, SweepEnds
  <2>. QED BY <1>1, <1>5, <2>1, <2>2 DEF Closing, ReaperStep, SweepNext
<1>6. CASE CloserStep
  <2>. Closer \in Actors /\ Closer \notin Requests /\ Reaper # Closer
    BY ActorsAssumption DEF Actors
  <2>1. CASE StopAllDone
    BY <1>0, <2>1, ConfigAssumption DEF StopAllDone, Goto, TypeOK, Swept, Running
  <2>2. CASE StopAllNext
    <3>. DEFINE b == at[Closer] + 1
    <3>0. at[Closer] \in Backends \cup {NoBackend}
      BY <1>0 DEF TypeOK
    <3>1. b \in Backends /\ at[Closer] \in Nat
      BY <1>0, <2>2, <3>0, NextInOrder, ConfigAssumption DEF Backends, NoBackend
    <3>2. \A c \in Backends : c < b => ~Running(c)
      BY <2>2, <3>1 DEF StopAllNext, Swept, Backends
    <3>3. CASE Critical(Closer, b)
      BY <1>0, <3>1, <3>2, <3>3, SweptStop DEF Critical
    <3>4. CASE Goto(Closer, "queued", b) /\ proc' = proc
      BY <1>0, <3>2, <3>4 DEF Goto, TypeOK, Swept, Running
    <3>. QED BY <2>2, <3>3, <3>4 DEF StopAllNext, Acquire
  <2>. QED BY <1>6, <2>1, <2>2 DEF CloserStep
<1>7. CASE Shutdown
  <2>1. pc'[Closer] = "sweeping" /\ at'[Closer] = NoBackend /\ pc'[Reaper] = "cancelled"
    BY <1>0, <1>7, ActorsAssumption DEF Shutdown, TypeOK, Closing, Swept, Actors
  <2>. QED BY <2>1 DEF Swept, Backends, NoBackend
<1>8. CASE (\E b \in Backends : ProcessExits(b)) \/ Tick \/ UNCHANGED vars
  BY <1>0, <1>8 DEF ProcessExits, Tick, vars, Swept, Running, TypeOK
<1>. QED BY <1>2, <1>3, <1>4, <1>5, <1>6, <1>7, <1>8 DEF Next, Halted

\* Where every child can be killed, no child is left when the proxy has exited:
\* stop_all reaches every backend, whatever the reaper was doing when it was
\* cancelled and whatever crashed before.
THEOREM ShutdownLeavesNone == ASSUME Unkillable = {} PROVE Spec => []ShutdownStopsAll
<1>1. Init => Closing /\ Swept
  BY ActorsAssumption DEF Init, Closing, Swept, Actors
<1>2. Spec => []LockInv
  BY InitLock, NextLock, PTL DEF Spec
<1>3. LockInv /\ Closing /\ Swept /\ [Next]_vars => Closing' /\ Swept'
  BY NextClosing, NextSwept
<1>4. Swept /\ NoOrphan => ShutdownStopsAll
  BY ConfigAssumption DEF Swept, NoOrphan, ShutdownStopsAll, Backends
<1>. QED BY <1>1, <1>2, <1>3, <1>4, ChildrenTracked, PTL DEF Spec

-----------------------------------------------------------------------------
(* A warm runtime.                                                         *)

\* A child that runs has answered its probe, unless a request has its lock.
WarmWhenFree == \A b \in Backends : Running(b) /\ holder[b] \notin Requests => ready[b]

\* A stop that starts while nobody has the lock leaves a child that is warm.
LEMMA StopWarm ==
    ASSUME TypeOK, WarmWhenFree, NEW a, NEW b \in Backends, NEW next, StopLocked(a, b, next),
           a \in Requests \/ holder[b] = Nobody
    PROVE  WarmWhenFree'
<1>1. CASE Running(b)
  <2>1. /\ proc' = proc /\ ready' = ready /\ holder' = [holder EXCEPT ![b] = a]
    BY <1>1 DEF StopLocked, Hold
  <2>2. a \in Requests \/ ready[b]
    BY <1>1, ActorsAssumption DEF WarmWhenFree, Actors
  <2>. QED BY <2>1, <2>2 DEF TypeOK, WarmWhenFree, Running
<1>2. CASE ~Running(b)
  <2>1. /\ proc' = [proc EXCEPT ![b] = "none"] /\ ready' = [ready EXCEPT ![b] = FALSE]
        /\ holder' = [holder EXCEPT ![b] = Nobody]
    BY <1>2 DEF StopLocked, ResetState, Release
  <2>. QED BY <2>1 DEF TypeOK, WarmWhenFree, Running
<1>. QED BY <1>1, <1>2

\* An actor that enters the lock of b while nobody holds it.
LEMMA CriticalWarm ==
    ASSUME TypeOK, WarmWhenFree, NEW a \in Actors, NEW b \in Backends, Critical(a, b),
           holder[b] = Nobody
    PROVE  WarmWhenFree'
<1>. Nobody \notin Requests
  BY ActorsAssumption DEF Actors
<1>1. CASE a \in Requests /\ (Reuse(a, b) \/ SpawnFails(a, b))
  BY <1>1 DEF Reuse, SpawnFails, WarmWhenFree, Running
<1>2. CASE a \in Requests /\ Spawn(a, b)
  BY <1>2 DEF Spawn, Track, Hold, TypeOK, WarmWhenFree, Running
<1>3. CASE a \in Requests /\ SpawnExits(a, b)
  BY <1>3 DEF SpawnExits, ResetState, TypeOK, WarmWhenFree, Running
<1>4. CASE a \notin Requests /\ StopLocked(a, b, "sweeping")
  BY <1>4, StopWarm
<1>. QED BY <1>1, <1>2, <1>3, <1>4 DEF Critical

\* Every step keeps a child that nobody is starting warm.
LEMMA NextWarm ==
    ASSUME Unkillable = {}, LockInv, WarmWhenFree, [Next]_vars PROVE WarmWhenFree'
<1>0. TypeOK
  BY DEF LockInv
<1>1. ASSUME NEW a \in Actors, NEW b \in Backends, Acquire(a, b) \/ Granted(a, b)
      PROVE  WarmWhenFree'
  BY <1>0, <1>1, CriticalWarm DEF Acquire, Granted, Free, WarmWhenFree, Running
<1>2. ASSUME NEW r \in Requests, RequestStep(r) PROVE WarmWhenFree'
  <2>1. r \in Actors
    BY DEF Actors
  <2>2. CASE ProbeReady(r)
    BY <1>0, <2>2 DEF ProbeReady, Release, TypeOK, WarmWhenFree, Running
  <2>3. CASE StartFails(r)
    BY <1>0, <2>1, <2>3, StopWarm DEF StartFails, LockInv, Placed, LockedPC
  <2>4. CASE \/ ProbeNotReady(r) \/ PollAgain(r)
             \/ EndUse(r) \/ TouchAnswered(r) \/ AbandonStream(r)
    BY <2>4 DEF ProbeNotReady, PollAgain, EndUse, TouchAnswered, AbandonStream, WarmWhenFree, Running
  <2>. QED BY <1>1, <1>2, <2>1, <2>2, <2>3, <2>4 DEF RequestStep, EnsureRunning
<1>3. ASSUME NEW a \in Actors, LockStep(a) PROVE WarmWhenFree'
  <2>1. CASE StopDone(a)
    BY <1>0, <2>1 DEF StopDone, ResetState, Release, TypeOK, WarmWhenFree, Running
  <2>2. CASE Kill(a)
    BY <2>2 DEF Kill, WarmWhenFree, Running
  <2>3. ~KillTimesOut(a)
    BY DEF KillTimesOut
  <2>. QED BY <1>1, <1>3, <2>1, <2>2, <2>3 DEF LockStep
<1>4. CASE ReaperStep
  BY <1>1, <1>4 DEF ReaperStep, Wake, SweepEnds, SweepNext, WarmWhenFree, Running, Actors
<1>5. CASE CloserStep
  <2>1. CASE StopAllDone
    BY <2>1 DEF StopAllDone, WarmWhenFree, Running
  <2>2. CASE StopAllNext
    BY <1>0, <1>1, <2>2, NextInOrder DEF StopAllNext, Actors
  <2>. QED BY <1>5, <2>1, <2>2 DEF CloserStep
<1>6. CASE Shutdown
  <2>1. \A b \in Backends : holder[b] \notin Requests
    BY <1>6 DEF Shutdown, LockInv, MutualExclusion, LockedPC, Actors
  <2>. QED BY <1>6, <2>1 DEF Shutdown, WarmWhenFree, Running
<1>7. CASE (\E b \in Backends : ProcessExits(b)) \/ Tick \/ UNCHANGED vars
  BY <1>0, <1>7 DEF ProcessExits, Tick, vars, TypeOK, WarmWhenFree, Running
<1>. QED BY <1>2, <1>3, <1>4, <1>5, <1>6, <1>7 DEF Next, Halted

-----------------------------------------------------------------------------
(* The refinement: what each step is to the users of the runtimes.         *)

ViewInv == LockInv /\ Closing /\ Swept /\ WarmWhenFree

\* The users see the same children where none comes, goes or becomes warm,
LEMMA ChildKept ==
    ASSUME \A b \in Backends : Running(b)' = Running(b),
           \A b \in Backends : Running(b) => ready'[b] = ready[b]
    PROVE  childView' = childView
BY DEF childView

\* and otherwise the change is at one backend.
LEMMA ChildAt ==
    ASSUME NEW b \in Backends, NEW s,
           \A c \in Backends : c # b => Running(c)' = Running(c) /\ ready'[c] = ready[c],
           s = IF ~Running(b)' THEN "absent" ELSE IF ready'[b] THEN "warm" ELSE "loading"
    PROVE  childView' = [childView EXCEPT ![b] = s]
BY DEF childView

\* A move outside a use changes nobody's backend,
LEMMA UsingKept ==
    ASSUME TypeOK, NEW a \in Actors, NEW point, NEW c, Goto(a, point, c),
           pc[a] # "serving", point # "serving"
    PROVE  usingView' = usingView
BY DEF TypeOK, Goto, usingView, Actors

\* a use begins with one
LEMMA UsingJoin ==
    ASSUME TypeOK, NEW r \in Requests, NEW b \in Backends, Goto(r, "serving", b), pc[r] # "serving"
    PROVE  usingView[r] = NoBackend /\ usingView' = [usingView EXCEPT ![r] = b]
BY DEF TypeOK, Goto, usingView, Actors

\* and ends with none.
LEMMA UsingPart ==
    ASSUME TypeOK, NEW r \in Requests, pc[r] = "serving", at[r] \in Backends,
           NEW point, point # "serving", NEW c, Goto(r, point, c)
    PROVE  usingView[r] # NoBackend /\ usingView' = [usingView EXCEPT ![r] = NoBackend]
<1>1. at[r] # NoBackend
  BY ConfigAssumption DEF Backends, NoBackend
<1>2. pc'[r] # "serving" /\ \A x \in Requests : x # r => pc'[x] = pc[x] /\ at'[x] = at[x]
  BY DEF TypeOK, Goto, Actors
<1>. QED BY <1>1, <1>2 DEF usingView

\* The proxy is closed by the step that ends stop_all, and by no other.
LEMMA ClosedKept ==
    ASSUME TypeOK, NEW a \in Actors, NEW point, NEW c, Goto(a, point, c),
           pc[a] # "done", point # "done"
    PROVE  (pc[Closer] = "done")' = (pc[Closer] = "done")
BY DEF TypeOK, Goto

\* A reset follows a child that has exited: no user sees it.
LEMMA StopKept ==
    ASSUME TypeOK, NEW a, NEW b \in Backends, NEW next, StopLocked(a, b, next)
    PROVE  childView' = childView
<1>1. CASE Running(b)
  BY <1>1, ChildKept DEF StopLocked, Running
<1>2. CASE ~Running(b)
  BY <1>2, ChildKept DEF StopLocked, ResetState, TypeOK, Running
<1>. QED BY <1>1, <1>2

\* The part inside a lock starts a child where there is none, joins a warm one, or
\* shows nothing.
LEMMA CriticalView ==
    ASSUME ViewInv, NEW a \in Actors, NEW b \in Backends, Critical(a, b),
           holder[b] = Nobody, pc[a] \notin {"serving", "done"},
           a \in Requests => pc[Closer] = "open"
    PROVE  [Lifecycle!LNext]_(Lifecycle!lvars)
<1>0. TypeOK
  BY DEF ViewInv, LockInv
<1>1. CASE a \in Requests /\ Reuse(a, b)
  <2>1. childView' = childView /\ childView[b] = "warm"
    BY <1>1, ChildKept, ActorsAssumption
       DEF Reuse, ViewInv, WarmWhenFree, Running, childView, Actors
  <2>2. usingView[a] = NoBackend /\ usingView' = [usingView EXCEPT ![a] = b]
    BY <1>0, <1>1, UsingJoin DEF Reuse
  <2>3. pc[Closer] # "done" /\ (pc[Closer] = "done")' = (pc[Closer] = "done")
    BY <1>0, <1>1, ClosedKept DEF Reuse
  <2>4. Lifecycle!Join(a, b)
    BY <2>1, <2>2, <2>3 DEF Lifecycle!Join
  <2>. QED BY <1>1, <2>4 DEF Lifecycle!LNext
<1>2. CASE a \in Requests /\ Spawn(a, b)
  <2>1. childView[b] = "absent" /\ childView' = [childView EXCEPT ![b] = "loading"]
    BY <1>0, <1>2, ChildAt DEF Spawn, Track, TypeOK, Running, childView
  <2>2. usingView' = usingView
    BY <1>0, <1>2, UsingKept DEF Spawn
  <2>3. pc[Closer] # "done" /\ (pc[Closer] = "done")' = (pc[Closer] = "done")
    BY <1>0, <1>2, ClosedKept DEF Spawn
  <2>4. Lifecycle!Launch(b)
    BY <2>1, <2>2, <2>3 DEF Lifecycle!Launch
  <2>. QED BY <2>4 DEF Lifecycle!LNext
<1>3. CASE \/ a \in Requests /\ (SpawnFails(a, b) \/ SpawnExits(a, b))
           \/ a \notin Requests /\ StopLocked(a, b, "sweeping")
  <2>1. childView' = childView
    <3>1. CASE a \in Requests /\ SpawnFails(a, b)
      BY <3>1, ChildKept DEF SpawnFails, Running
    <3>2. CASE a \in Requests /\ SpawnExits(a, b)
      BY <1>0, <3>2, ChildKept DEF SpawnExits, ResetState, TypeOK, Running
    <3>. QED BY <1>0, <1>3, <3>1, <3>2, StopKept
  <2>2. \E point \in {"idle", "stopping", "sweeping"}, c \in {b, NoBackend} : Goto(a, point, c)
    BY <1>3 DEF SpawnFails, SpawnExits, StopLocked, Leave
  <2>3. usingView' = usingView /\ (pc[Closer] = "done")' = (pc[Closer] = "done")
    BY <1>0, <2>2, UsingKept, ClosedKept
  <2>. QED BY <2>1, <2>3 DEF Lifecycle!lvars
<1>. QED BY <1>1, <1>2, <1>3 DEF Critical

\* Every step is a step of RuntimeLifecycle or changes nothing that its users see.
LEMMA NextView ==
    ASSUME Unkillable = {}, ViewInv, [Next]_vars PROVE [Lifecycle!LNext]_(Lifecycle!lvars)
<1>0. TypeOK /\ Placed
  BY DEF ViewInv, LockInv
<1>1. ASSUME NEW a \in Actors, NEW point, NEW c, Goto(a, point, c), childView' = childView,
             pc[a] \notin {"serving", "done"}, point \notin {"serving", "done"}
      PROVE  UNCHANGED Lifecycle!lvars
  BY <1>0, <1>1, UsingKept, ClosedKept DEF Lifecycle!lvars
<1>2. ASSUME NEW a \in Actors, NEW b \in Backends, Acquire(a, b), pc[a] \notin {"serving", "done"},
             a \in Requests => pc[Closer] = "open"
      PROVE  [Lifecycle!LNext]_(Lifecycle!lvars)
  <2>1. CASE Free(b) /\ Critical(a, b)
    BY <1>2, <2>1, CriticalView DEF Free
  <2>2. CASE Goto(a, "queued", b) /\ UNCHANGED <<proc, ready>>
    BY <1>1, <1>2, <2>2, ChildKept DEF Running
  <2>. QED BY <1>2, <2>1, <2>2 DEF Acquire
<1>3. ASSUME NEW a \in Actors, NEW b \in Backends, Granted(a, b)
      PROVE  [Lifecycle!LNext]_(Lifecycle!lvars)
  BY <1>3, CriticalView DEF Granted, ViewInv, Closing
<1>4. ASSUME NEW r \in Requests, NEW b \in Backends, at[r] = b, ProbeReady(r) PROVE Lifecycle!LNext
  <2>. r \in Actors
    BY DEF Actors
  <2>1. usingView[r] = NoBackend /\ usingView' = [usingView EXCEPT ![r] = b]
    BY <1>0, <1>4, UsingJoin DEF ProbeReady
  <2>2. pc[Closer] = "open" /\ (pc[Closer] = "done")' = (pc[Closer] = "done")
    BY <1>0, <1>4, ClosedKept DEF ProbeReady, ViewInv, Closing
  <2>3. proc' = proc /\ ready' = [ready EXCEPT ![b] = TRUE]
    BY <1>4 DEF ProbeReady
  <2>4. childView' = [childView EXCEPT ![b] = IF Running(b) THEN "warm" ELSE "absent"]
    BY <1>0, <2>3, ChildAt DEF TypeOK, Running
  <2>5. ~Running(b) => childView[b] = "absent" /\ childView' = childView
    BY <2>4 DEF childView
  <2>6. childView'[b] # "loading"
    BY <2>4 DEF childView
  <2>7. Running(b) => childView[b] # "absent"
    BY DEF childView
  <2>8. Lifecycle!Join(r, b)
    BY <2>1, <2>2, <2>4, <2>5, <2>6, <2>7 DEF Lifecycle!Join
  <2>. QED BY <2>8 DEF Lifecycle!LNext
<1>5. ASSUME NEW r \in Requests, at[r] \in Backends, EndUse(r) \/ AbandonStream(r)
      PROVE  Lifecycle!LNext
  <2>. r \in Actors
    BY DEF Actors
  <2>1. pc[r] = "serving" /\ \E point \in {"answered", "idle"}, c \in {at[r], NoBackend} : Goto(r, point, c)
    BY <1>5 DEF EndUse, AbandonStream, Leave
  <2>2. usingView[r] # NoBackend /\ usingView' = [usingView EXCEPT ![r] = NoBackend]
    BY <1>0, <1>5, <2>1, UsingPart
  <2>3. (pc[Closer] = "done")' = (pc[Closer] = "done")
    BY <1>0, <2>1, ClosedKept
  <2>4. childView' = childView
    BY <1>5, ChildKept DEF EndUse, AbandonStream, Running
  <2>5. Lifecycle!Depart(r)
    BY <2>2, <2>3, <2>4 DEF Lifecycle!Depart
  <2>. QED BY <2>5 DEF Lifecycle!LNext
<1>6. ASSUME NEW r \in Requests, ProbeNotReady(r) \/ PollAgain(r) \/ TouchAnswered(r)
      PROVE  UNCHANGED Lifecycle!lvars
  <2>1. childView' = childView
    BY <1>6, ChildKept DEF ProbeNotReady, PollAgain, TouchAnswered, Running
  <2>. QED BY <1>1, <1>6, <2>1 DEF ProbeNotReady, PollAgain, TouchAnswered, Leave, Actors
<1>7. ASSUME NEW r \in Requests, at[r] \in Backends, StartFails(r) PROVE UNCHANGED Lifecycle!lvars
  <2>1. childView' = childView
    BY <1>0, <1>7, StopKept DEF StartFails
  <2>. QED BY <1>1, <1>7, <2>1 DEF StartFails, StopLocked, Actors
<1>8. ASSUME NEW a \in Actors, StopDone(a) \/ Kill(a) PROVE UNCHANGED Lifecycle!lvars
  <2>1. childView' = childView
    BY <1>0, <1>8, ChildKept DEF StopDone, ResetState, Kill, TypeOK, Running
  <2>. QED BY <1>1, <1>8, <2>1 DEF StopDone, Kill, AfterStop
<1>9. CASE Wake \/ SweepEnds
  <2>1. childView' = childView
    BY <1>9, ChildKept DEF Wake, SweepEnds, Running
  <2>. QED BY <1>1, <1>9, <2>1 DEF Wake, SweepEnds, Actors
<1>10. CASE Shutdown
  <2>1. \A r \in Requests : pc[r] # "serving" /\ pc'[r] # "serving"
    BY <1>0, <1>10, ActorsAssumption DEF Shutdown, TypeOK, Actors
  <2>2. pc[Closer] # "done" /\ pc'[Closer] # "done"
    BY <1>0, <1>10, ActorsAssumption DEF Shutdown, TypeOK, Actors
  <2>3. childView' = childView
    BY <1>10, ChildKept DEF Shutdown, Running
  <2>. QED BY <2>1, <2>2, <2>3 DEF Lifecycle!lvars, usingView
<1>11. CASE StopAllDone
  <2>1. \A b \in Backends : childView[b] = "absent"
    BY <1>11 DEF StopAllDone, ViewInv, Swept, childView, Backends
  <2>2. \A r \in Requests : usingView[r] = NoBackend /\ pc'[r] = pc[r]
    BY <1>0, <1>11, ActorsAssumption DEF StopAllDone, Goto, TypeOK, ViewInv, Closing, usingView, Actors
  <2>3. (pc[Closer] = "done")' = TRUE
    BY <1>0, <1>11 DEF StopAllDone, Goto, TypeOK, Actors
  <2>4. childView' = childView
    BY <1>11, ChildKept DEF StopAllDone, Running
  <2>5. usingView' = usingView
    BY <2>2, <1>11 DEF ViewInv, Closing, StopAllDone, usingView
  <2>6. Lifecycle!Close
    BY <2>1, <2>2, <2>3, <2>4, <2>5 DEF Lifecycle!Close
  <2>. QED BY <2>6 DEF Lifecycle!LNext
<1>12. ASSUME NEW b \in Backends, ProcessExits(b) PROVE Lifecycle!LNext
  <2>1. childView[b] # "absent" /\ childView' = [childView EXCEPT ![b] = "absent"]
    BY <1>0, <1>12, ChildAt DEF ProcessExits, TypeOK, Running, childView
  <2>2. usingView' = usingView /\ (pc[Closer] = "done")' = (pc[Closer] = "done")
    BY <1>12 DEF ProcessExits, usingView
  <2>3. Lifecycle!Gone(b)
    BY <2>1, <2>2 DEF Lifecycle!Gone
  <2>. QED BY <2>3 DEF Lifecycle!LNext
<1>13. CASE Tick \/ UNCHANGED vars
  <2>1. UNCHANGED <<proc, ready, pc, at>>
    BY <1>13 DEF Tick, vars
  <2>. QED BY <2>1, ChildKept DEF Lifecycle!lvars, usingView, Running
<1>14. ASSUME NEW r \in Requests, RequestStep(r) PROVE [Lifecycle!LNext]_(Lifecycle!lvars)
  <2>1. r \in Actors /\ (pc[r] \in LockedPC \cup {"serving"} => at[r] \in Backends)
    BY <1>0 DEF Actors, Placed
  <2>2. ASSUME NEW b \in Backends, EnsureRunning(r, b) PROVE [Lifecycle!LNext]_(Lifecycle!lvars)
    BY <1>2, <2>1, <2>2 DEF EnsureRunning
  <2>3. CASE ProbeReady(r) \/ EndUse(r) \/ AbandonStream(r) \/ StartFails(r)
    BY <1>4, <1>5, <1>7, <2>1, <2>3 DEF ProbeReady, EndUse, AbandonStream, StartFails, LockedPC
  <2>. QED BY <1>6, <1>14, <2>2, <2>3 DEF RequestStep
<1>15. ASSUME NEW a \in Actors, LockStep(a) PROVE [Lifecycle!LNext]_(Lifecycle!lvars)
  <2>1. ~KillTimesOut(a)
    BY DEF KillTimesOut
  <2>. QED BY <1>3, <1>8, <1>15, <2>1 DEF LockStep
<1>16. ASSUME NEW b \in Backends, SweepNext(b) PROVE [Lifecycle!LNext]_(Lifecycle!lvars)
  BY <1>2, <1>16, ActorsAssumption DEF SweepNext, Actors
<1>17. CASE StopAllNext
  BY <1>0, <1>2, <1>17, NextInOrder, ActorsAssumption DEF StopAllNext, Actors
<1>. QED
  BY <1>9, <1>10, <1>11, <1>12, <1>13, <1>14, <1>15, <1>16, <1>17
     DEF Next, ReaperStep, CloserStep, Halted

\* Where every child can be killed, the manager implements RuntimeLifecycle: however
\* starts, stops, sweeps and crashes interleave, a request joins only a warm child or
\* one that has just exited, a child is started only where there is none, and the
\* proxy closes with no child and no use left.
THEOREM ManagerRefines == ASSUME Unkillable = {} PROVE Spec => ImplementsLifecycle
<1>1. Init => Closing /\ Swept /\ WarmWhenFree
  BY ActorsAssumption, ConfigAssumption DEF Init, Closing, Swept, WarmWhenFree, Running, Actors
<1>2. Spec => []LockInv
  BY InitLock, NextLock, PTL DEF Spec
<1>3. ViewInv /\ [Next]_vars => Closing' /\ Swept' /\ WarmWhenFree'
  BY NextClosing, NextSwept, NextWarm DEF ViewInv
<1>4. Init => Lifecycle!LInit
  BY ActorsAssumption DEF Init, Lifecycle!LInit, childView, usingView, Running, Actors
<1>5. ViewInv /\ [Next]_vars => [Lifecycle!LNext]_(Lifecycle!lvars)
  BY NextView
<1>6. ViewInv <=> LockInv /\ Closing /\ Swept /\ WarmWhenFree
  BY DEF ViewInv
<1>. QED BY <1>1, <1>2, <1>3, <1>4, <1>5, <1>6, PTL DEF Spec, ImplementsLifecycle, Lifecycle!LSpec

-----------------------------------------------------------------------------
(* The reaper and the uses.                                                *)

\* Every child can be killed, none exits by itself, and a backend's idle timeout is
\* longer than a start that fails can hold the backend's lock.
PatientConfig ==
    /\ Unkillable = {} /\ "crash" \notin Faults
    /\ \A b \in Backends : IdleTimeout[b] > ReadinessTimeout[b] + ShutdownTimeout[b] + KillWait

\* A runtime in use runs and nobody has its lock; no use is forgotten; and a start
\* that still polls has its child.
UsedRuns    == \A b \in Backends : Users(b) # {} => Running(b) /\ holder[b] = Nobody
UsesCounted == \A b \in Backends : Cardinality(Users(b)) <= active[b]
StartRuns   == \A r \in Requests, b \in Backends :
                  pc[r] \in {"probing", "pausing"} /\ at[r] = b => Running(b)
InUse == UsedRuns /\ UsesCounted /\ StartRuns

\* How long a start has held the lock of b at most, and may still hold it, at `point`.
HoldTime(point, b) ==
    CASE point \in {"probing", "pausing"} -> ReadinessTimeout[b]
      [] point = "stopping" -> ReadinessTimeout[b] + ShutdownTimeout[b]
      [] OTHER -> ReadinessTimeout[b] + ShutdownTimeout[b] + KillWait

\* A start touched its backend when it took the lock; who wakes a waiter has touched the
\* backend or stopped it; what is ripe has not been touched: the reaper never waits in line.
RipeIdle   == \A b \in ripe : idle[b] = IdleTimeout[b]
StartTimed == \A r \in Requests, b \in Backends :
                 pc[r] \in LockedPC /\ at[r] = b => idle[b] + left[b] <= HoldTime(pc[r], b)
WokenFresh == \A b \in Backends :
                 holder[b] = Nobody /\ queue[b] # <<>> /\ Running(b) => idle[b] = 0
Clocks == RipeIdle /\ StartTimed /\ WokenFresh /\ pc[Reaper] # "queued"

WarmInv == LockInv /\ Closing /\ InUse /\ Clocks

\* A move outside a use, that changes no backend in use, keeps the uses;
LEMMA UseKept ==
    ASSUME TypeOK, TypeOK', InUse, NEW a \in Actors, NEW point, NEW c, Goto(a, point, c),
           pc[a] # "serving", point # "serving",
           \A d \in Backends : \/ Users(d) = {}
                               \/ /\ Running(d)' = Running(d)
                                  /\ holder'[d] = holder[d] /\ active'[d] = active[d],
           \A d \in Backends : Running(d) => Running(d)',
           point \in {"probing", "pausing"} => c \in Backends /\ Running(c)'
    PROVE  InUse'
<1>1. \A d : Users(d)' = Users(d)
  BY UsersKept
<1>2. UsedRuns'
  BY <1>1 DEF InUse, UsedRuns
<1>3. UsesCounted'
  <2>. SUFFICES ASSUME NEW d \in Backends PROVE Cardinality(Users(d)') <= active'[d]
    BY DEF UsesCounted
  <2>1. CASE Users(d) = {}
    <3>1. Cardinality(Users(d)') = 0
      BY <1>1, <2>1, FS_EmptySet
    <3>2. active'[d] \in Nat
      BY DEF TypeOK
    <3>. QED BY <3>1, <3>2
  <2>2. CASE Users(d) # {}
    BY <1>1, <2>2 DEF InUse, UsesCounted
  <2>. QED BY <2>1, <2>2
<1>4. StartRuns'
  <2>1. pc'[a] = point /\ at'[a] = c /\ \A r \in Actors : r # a => pc'[r] = pc[r] /\ at'[r] = at[r]
    BY DEF Goto, TypeOK
  <2>2. \A r \in Requests, d \in Backends :
            pc'[r] \in {"probing", "pausing"} /\ at'[r] = d => Running(d)'
    <3>. TAKE r \in Requests, d \in Backends
    <3>1. CASE r = a
      BY <2>1, <3>1
    <3>2. CASE r # a
      BY <2>1, <3>2 DEF Actors, InUse, StartRuns
    <3>. QED BY <3>1, <3>2
  <2>. QED BY <2>2 DEF StartRuns
<1>. QED BY <1>2, <1>3, <1>4 DEF InUse

\* a use begins with its runtime running and its lock free, and is counted;
LEMMA UseJoin ==
    ASSUME TypeOK, InUse, NEW r \in Requests, NEW b \in Backends, Goto(r, "serving", b),
           pc[r] # "serving", Running(b), proc' = proc, holder' \in {holder, [holder EXCEPT ![b] = Nobody]},
           holder'[b] = Nobody, BeginRequest(b)
    PROVE  InUse'
<1>1. /\ Users(b)' = Users(b) \cup {r} /\ Cardinality(Users(b)') = Cardinality(Users(b)) + 1
      /\ \A c : c # b => Users(c)' = Users(c)
  BY UsersJoin
<1>2. \A c \in Backends : c # b => holder'[c] = holder[c] /\ active'[c] = active[c]
  BY DEF TypeOK, BeginRequest
<1>3. UsedRuns'
  BY <1>1, <1>2 DEF InUse, UsedRuns, Running
<1>4. UsesCounted'
  <2>1. active'[b] = active[b] + 1 /\ Cardinality(Users(b)) <= active[b] /\ active[b] \in Nat
    BY DEF TypeOK, BeginRequest, InUse, UsesCounted
  <2>2. Cardinality(Users(b)') <= active'[b]
    BY <1>1, <2>1, UsersFinite
  <2>. QED BY <1>1, <1>2, <2>2 DEF InUse, UsesCounted
<1>5. StartRuns'
  <2>1. pc'[r] = "serving" /\ \A x \in Requests : x # r => pc'[x] = pc[x] /\ at'[x] = at[x]
    BY DEF Goto, TypeOK, Actors
  <2>. QED BY <2>1 DEF InUse, StartRuns, Running
<1>. QED BY <1>3, <1>4, <1>5 DEF InUse

\* and it ends as one of those counted.
LEMMA UsePart ==
    ASSUME TypeOK, InUse, NEW r \in Requests, NEW b \in Backends, pc[r] = "serving", at[r] = b,
           NEW point \in {"answered", "idle"}, NEW c, Goto(r, point, c),
           UNCHANGED <<proc, holder>>, EndRequest(b) \/ UNCHANGED active
    PROVE  InUse'
<1>1. /\ Users(b)' = Users(b) \ {r} /\ Cardinality(Users(b)') = Cardinality(Users(b)) - 1
      /\ \A d : d # b => Users(d)' = Users(d)
  BY UsersPart
<1>2. UsedRuns'
  BY <1>1 DEF InUse, UsedRuns, Running
<1>3. UsesCounted'
  <2>1. Cardinality(Users(b)) <= active[b] /\ active[b] \in Nat
    BY DEF TypeOK, InUse, UsesCounted
  <2>3. Cardinality(Users(b)') <= active'[b]
    <3>1. active'[b] = active[b] \/ active'[b] = active[b] - 1 \/ (active[b] = 0 /\ active'[b] = 0)
      BY <2>1 DEF TypeOK, EndRequest
    <3>. QED BY <1>1, <2>1, <3>1, UsersFinite
  <2>4. \A d \in Backends : d # b => active'[d] = active[d]
    BY DEF TypeOK, EndRequest
  <2>. QED BY <1>1, <2>3, <2>4 DEF InUse, UsesCounted
<1>4. StartRuns'
  <2>1. pc'[r] = point /\ \A x \in Requests : x # r => pc'[x] = pc[x] /\ at'[x] = at[x]
    BY DEF Goto, TypeOK, Actors
  <2>. QED BY <2>1 DEF InUse, StartRuns, Running
<1>. QED BY <1>2, <1>3, <1>4 DEF InUse

\* A stop of a backend that nobody uses forgets no use.
LEMMA StopUses ==
    ASSUME TypeOK, TypeOK', InUse, NEW a \in Actors, NEW b \in Backends,
           NEW next \in {"idle", "sweeping"}, StopLocked(a, b, next),
           pc[a] # "serving", Users(b) = {}
    PROVE  InUse'
<1>1. \A d \in Backends : d # b =>
          Running(d)' = Running(d) /\ holder'[d] = holder[d] /\ active'[d] = active[d]
  <2>1. CASE Running(b)
    BY <2>1 DEF StopLocked, Hold, TypeOK, Running
  <2>2. CASE ~Running(b)
    BY <2>2 DEF StopLocked, ResetState, Release, TypeOK, Running
  <2>. QED BY <2>1, <2>2
<1>2. \A d \in Backends : Running(d) => Running(d)'
  BY DEF StopLocked, ResetState, TypeOK, Running
<1>3. \E point \in {"stopping", "idle", "sweeping"}, c \in {b, NoBackend} : Goto(a, point, c)
  BY DEF StopLocked
<1>. QED BY <1>1, <1>2, <1>3, UseKept

\* An actor that enters the lock of b while nobody holds it.
LEMMA CriticalUses ==
    ASSUME TypeOK, TypeOK', InUse, NEW a \in Actors, NEW b \in Backends, Critical(a, b),
           pc[a] # "serving", holder[b] = Nobody, a \notin Requests => Users(b) = {}
    PROVE  InUse'
<1>1. CASE a \in Requests /\ Reuse(a, b)
  BY <1>1, UseJoin DEF Reuse
<1>2. CASE a \in Requests /\ Spawn(a, b)
  <2>1. Users(b) = {}
    BY <1>2 DEF Spawn, InUse, UsedRuns
  <2>2. \A d \in Backends : d # b =>
            Running(d)' = Running(d) /\ holder'[d] = holder[d] /\ active'[d] = active[d]
    BY <1>2 DEF Spawn, Track, Hold, TypeOK, Running
  <2>3. \A d \in Backends : Running(d) \/ d = b => Running(d)'
    BY <1>2 DEF Spawn, Track, TypeOK, Running
  <2>. QED BY <1>2, <2>1, <2>2, <2>3, UseKept DEF Spawn
<1>3. CASE a \in Requests /\ SpawnFails(a, b)
  BY <1>3, UseKept DEF SpawnFails, Leave, Running
<1>4. CASE a \in Requests /\ SpawnExits(a, b)
  <2>1. Users(b) = {}
    BY <1>4 DEF SpawnExits, InUse, UsedRuns
  <2>2. \A d \in Backends : d # b =>
            Running(d)' = Running(d) /\ holder'[d] = holder[d] /\ active'[d] = active[d]
    BY <1>4 DEF SpawnExits, ResetState, TypeOK, Running
  <2>3. \A d \in Backends : Running(d) => Running(d)'
    BY <1>4 DEF SpawnExits, ResetState, TypeOK, Running
  <2>. QED BY <1>4, <2>1, <2>2, <2>3, UseKept DEF SpawnExits, Leave
<1>5. CASE a \notin Requests /\ StopLocked(a, b, "sweeping")
  BY <1>5, StopUses
<1>. QED BY <1>1, <1>2, <1>3, <1>4, <1>5 DEF Critical

\* Without a use that counts a backend is not in use: the reaper looks at the count.
LEMMA DueUnused == ASSUME InUse, NEW b \in Backends, b \in Due PROVE Users(b) = {}
<1>1. Cardinality(Users(b)) = 0
  BY UsersFinite DEF Due, InUse, UsesCounted
<1>. QED BY <1>1, UsersFinite, FS_EmptySet

\* Every step keeps the uses.
LEMMA NextInUse == ASSUME PatientConfig, WarmInv, [Next]_vars PROVE InUse'
<1>0. TypeOK /\ TypeOK' /\ Placed /\ MutualExclusion /\ InUse
  BY NextLock DEF WarmInv, LockInv
<1>1. ASSUME NEW a \in Actors, NEW b \in Backends, Acquire(a, b), pc[a] # "serving",
             a \notin Requests => Users(b) = {}
      PROVE  InUse'
  <2>1. CASE Free(b) /\ Critical(a, b)
    BY <1>0, <1>1, <2>1, CriticalUses DEF Free
  <2>2. CASE Goto(a, "queued", b) /\ UNCHANGED <<proc, holder, active>>
    BY <1>0, <1>1, <2>2, UseKept DEF Running
  <2>. QED BY <1>1, <2>1, <2>2 DEF Acquire
<1>2. pc[Closer] # "open" => \A b \in Backends : Users(b) = {}
  BY DEF WarmInv, Closing, Users
<1>3. ASSUME NEW a \in Actors, NEW b \in Backends, Granted(a, b) PROVE InUse'
  <2>1. a \notin Requests => a = Closer
    BY <1>3 DEF Granted, WarmInv, Clocks, Actors
  <2>2. a \notin Requests => Users(b) = {}
    BY <1>2, <1>3, <2>1 DEF Granted
  <2>. QED BY <1>0, <1>3, <2>2, CriticalUses DEF Granted
<1>4. ASSUME NEW a \in Actors, NEW b \in Backends, pc[a] \in LockedPC, at[a] = b
      PROVE  holder[b] = a /\ Users(b) = {}
  BY <1>0, <1>4, ActorsAssumption DEF MutualExclusion, InUse, UsedRuns
<1>5. ASSUME NEW r \in Requests, RequestStep(r) PROVE InUse'
  <2>1. r \in Actors /\ (pc[r] \in LockedPC \cup {"serving"} => at[r] \in Backends)
    BY <1>0 DEF Actors, Placed
  <2>2. ASSUME NEW b \in Backends, EnsureRunning(r, b) PROVE InUse'
    BY <1>1, <2>1, <2>2 DEF EnsureRunning
  <2>3. ASSUME NEW b \in Backends, at[r] = b, ProbeReady(r) PROVE InUse'
    <3>1. Running(b)
      BY <1>0, <2>3 DEF ProbeReady, InUse, StartRuns
    <3>2. holder' = [holder EXCEPT ![b] = Nobody] /\ holder'[b] = Nobody
      BY <1>0, <2>3 DEF ProbeReady, Release, TypeOK
    <3>. QED BY <1>0, <2>3, <3>1, <3>2, UseJoin DEF ProbeReady
  <2>4. CASE ProbeNotReady(r) \/ PollAgain(r)
    <3>1. at[r] \in Backends /\ Running(at[r])
      BY <1>0, <2>1, <2>4 DEF ProbeNotReady, PollAgain, LockedPC, InUse, StartRuns
    <3>. QED BY <1>0, <2>1, <2>4, <3>1, UseKept DEF ProbeNotReady, PollAgain, Running
  <2>5. CASE StartFails(r)
    BY <1>0, <1>4, <2>1, <2>5, StopUses DEF StartFails, LockedPC
  <2>6. ASSUME NEW b \in Backends, at[r] = b, EndUse(r) \/ AbandonStream(r) PROVE InUse'
    BY <1>0, <2>6, UsePart DEF EndUse, AbandonStream, Leave
  <2>7. CASE TouchAnswered(r)
    BY <1>0, <2>1, <2>7, UseKept DEF TouchAnswered, Leave, Running
  <2>8. ProbeReady(r) \/ EndUse(r) \/ AbandonStream(r) => at[r] \in Backends
    BY <2>1 DEF ProbeReady, EndUse, AbandonStream, LockedPC
  <2>. QED BY <1>5, <2>2, <2>3, <2>4, <2>5, <2>6, <2>7, <2>8 DEF RequestStep
<1>6. ASSUME NEW a \in Actors, LockStep(a) PROVE InUse'
  <2>1. ASSUME NEW b \in Backends, at[a] = b, StopDone(a) PROVE InUse'
    <3>1. Users(b) = {}
      BY <1>4, <2>1 DEF StopDone, LockedPC
    <3>2. \A d \in Backends : d # b =>
              Running(d)' = Running(d) /\ holder'[d] = holder[d] /\ active'[d] = active[d]
      BY <1>0, <2>1 DEF StopDone, ResetState, Release, TypeOK, Running
    <3>3. \A d \in Backends : Running(d) => Running(d)'
      BY <1>0, <2>1 DEF StopDone, ResetState, TypeOK, Running
    <3>4. AfterStop(a) \in {"idle", "sweeping"} /\ pc[a] # "serving"
      BY <2>1 DEF StopDone, AfterStop
    <3>. QED BY <1>0, <2>1, <3>1, <3>2, <3>3, <3>4, UseKept DEF StopDone
  <2>2. CASE Kill(a)
    BY <1>0, <2>2, UseKept DEF Kill, Running
  <2>3. ~KillTimesOut(a)
    BY DEF KillTimesOut, PatientConfig
  <2>. QED BY <1>0, <1>3, <1>6, <2>1, <2>2, <2>3 DEF LockStep, Placed, LockedPC, StopDone
<1>7. ASSUME NEW b \in Backends, SweepNext(b) PROVE InUse'
  BY <1>0, <1>1, <1>7, DueUnused DEF SweepNext, Actors
<1>8. CASE Wake \/ SweepEnds \/ StopAllDone
  BY <1>0, <1>8, UseKept DEF Wake, SweepEnds, StopAllDone, Actors, Running
<1>9. CASE StopAllNext
  BY <1>0, <1>1, <1>2, <1>9, NextInOrder DEF StopAllNext, Actors
<1>10. CASE Shutdown
  <2>1. \A r \in Requests : pc[r] = "idle" /\ pc'[r] = "idle"
    BY <1>0, <1>10, ActorsAssumption DEF Shutdown, TypeOK, Actors
  <2>2. \A b \in Backends : Users(b)' = {} /\ Users(b) = {}
    BY <2>1 DEF Users
  <2>3. active' = active
    BY <1>10 DEF Shutdown
  <2>. QED BY <1>0, <2>1, <2>2, <2>3 DEF InUse, UsedRuns, UsesCounted, StartRuns
<1>11. ASSUME NEW b \in Backends, ProcessExits(b) PROVE InUse'
  <2>1. PICK a \in Actors : pc[a] \in {"stopping", "killing"} /\ at[a] = b
    BY <1>11 DEF ProcessExits, PatientConfig
  <2>2. holder[b] = a /\ Users(b) = {}
    BY <1>4, <2>1 DEF LockedPC
  <2>3. \A c \in Backends : c # b => Running(c)' = Running(c)
    BY <1>0, <1>11 DEF ProcessExits, TypeOK, Running
  <2>4. \A c \in Backends : Users(c)' = Users(c)
    BY <1>11 DEF ProcessExits, Users
  <2>5. \A r \in Requests : at[r] = b => pc[r] \notin {"probing", "pausing"}
    BY <1>0, <2>1, <2>2 DEF MutualExclusion, LockedPC, Actors
  <2>. QED BY <1>0, <1>11, <2>2, <2>3, <2>4, <2>5
          DEF ProcessExits, InUse, UsedRuns, UsesCounted, StartRuns
<1>12. CASE Tick \/ UNCHANGED vars
  BY <1>0, <1>12 DEF Tick, vars, InUse, UsedRuns, UsesCounted, StartRuns, Users, Running
<1>. QED
  BY <1>5, <1>6, <1>7, <1>8, <1>9, <1>10, <1>11, <1>12 DEF Next, ReaperStep, CloserStep, Halted

\* Who moves and has not got a start's lock leaves the starts their time.
LEMMA TimedMove ==
    ASSUME TypeOK, MutualExclusion, StartTimed, NEW a \in Actors, NEW point, NEW c,
           Goto(a, point, c),
           \A d \in Backends : idle'[d] + left'[d] <= idle[d] + left[d] \/ holder[d] \in {a, Nobody},
           a \in Requests /\ point \in LockedPC =>
              c \in Backends /\ idle'[c] + left'[c] <= HoldTime(point, c),
           idle' \in [Backends -> Nat], left' \in [Backends -> Nat]
    PROVE  StartTimed'
<1>1. pc'[a] = point /\ at'[a] = c /\ \A r \in Actors : r # a => pc'[r] = pc[r] /\ at'[r] = at[r]
  BY DEF Goto, TypeOK
<1>2. \A r \in Requests, b \in Backends :
          pc'[r] \in LockedPC /\ at'[r] = b => idle'[b] + left'[b] <= HoldTime(pc'[r], b)
  <2>. SUFFICES ASSUME NEW r \in Requests, NEW b \in Backends, pc'[r] \in LockedPC, at'[r] = b
                PROVE  idle'[b] + left'[b] <= HoldTime(pc'[r], b)
    OBVIOUS
  <2>1. CASE r = a
    BY <1>1, <2>1
  <2>2. CASE r # a
    <3>1. pc'[r] = pc[r] /\ pc[r] \in LockedPC /\ at[r] = b
      BY <1>1, <2>2 DEF Actors
    <3>2. holder[b] = r /\ r # Nobody
      BY <3>1, ActorsAssumption DEF MutualExclusion, Actors
    <3>3. idle'[b] + left'[b] <= idle[b] + left[b]
      BY <2>2, <3>2
    <3>4. idle[b] + left[b] <= HoldTime(pc[r], b) /\ idle[b] \in Nat /\ left[b] \in Nat
      BY <3>1 DEF StartTimed, TypeOK
    <3>5. HoldTime(pc[r], b) \in Nat
      BY ConfigAssumption DEF HoldTime, KillWait
    <3>. QED BY <3>1, <3>3, <3>4, <3>5
  <2>. QED BY <2>1, <2>2
<1>. QED BY <1>2 DEF StartTimed, HoldTime

\* An actor that enters the lock of b while nobody holds it.
LEMMA CriticalTimed ==
    ASSUME TypeOK, TypeOK', MutualExclusion, StartTimed, NEW a \in Actors, NEW b \in Backends,
           Critical(a, b), holder[b] = Nobody
    PROVE  StartTimed'
<1>1. \A d \in Backends : d # b => idle'[d] = idle[d] /\ left'[d] = left[d]
  <2>1. CASE Reuse(a, b) \/ Spawn(a, b)
    BY <2>1 DEF Reuse, Spawn, Touch, Hold, Release, TypeOK
  <2>2. CASE SpawnFails(a, b)
    BY <2>2 DEF SpawnFails
  <2>3. CASE SpawnExits(a, b)
    BY <2>3 DEF SpawnExits, ResetState, TypeOK
  <2>4. CASE StopLocked(a, b, "sweeping") /\ Running(b)
    BY <2>4 DEF StopLocked, Hold, TypeOK
  <2>5. CASE StopLocked(a, b, "sweeping") /\ ~Running(b)
    BY <2>5 DEF StopLocked, ResetState, Release, TypeOK
  <2>. QED BY <2>1, <2>2, <2>3, <2>4, <2>5 DEF Critical
<1>3. /\ idle' \in [Backends -> Nat] /\ left' \in [Backends -> Nat]
      /\ \A d \in Backends : idle[d] \in Nat /\ left[d] \in Nat
  BY DEF TypeOK
<1>2. \A d \in Backends : idle'[d] + left'[d] <= idle[d] + left[d] \/ holder[d] \in {a, Nobody}
  BY <1>1, <1>3
<1>4. CASE a \in Requests /\ Spawn(a, b)
  <2>1. idle'[b] = 0 /\ left'[b] = ReadinessTimeout[b]
    BY <1>4 DEF Spawn, Touch, Hold, TypeOK
  <2>2. idle'[b] + left'[b] <= HoldTime("probing", b)
    BY <2>1, ConfigAssumption DEF HoldTime
  <2>. QED BY <1>2, <1>3, <1>4, <2>2, TimedMove DEF Spawn
<1>5. CASE ~(a \in Requests /\ Spawn(a, b))
  <2>1. \E point \in {"serving", "idle", "stopping", "sweeping"}, c \in {b, NoBackend} :
            Goto(a, point, c) /\ (a \in Requests => point \notin LockedPC)
    BY <1>5 DEF Critical, Reuse, SpawnFails, SpawnExits, StopLocked, Leave, LockedPC
  <2>. QED BY <1>2, <1>3, <2>1, TimedMove
<1>. QED BY <1>4, <1>5

\* Every step keeps the starts within their time.
LEMMA NextTimed == ASSUME PatientConfig, WarmInv, [Next]_vars PROVE StartTimed'
<1>0. TypeOK /\ TypeOK' /\ Placed /\ MutualExclusion /\ StartTimed
  BY NextLock DEF WarmInv, LockInv, Clocks
<1>1. /\ idle' \in [Backends -> Nat] /\ left' \in [Backends -> Nat]
      /\ idle \in [Backends -> Nat] /\ left \in [Backends -> Nat]
      /\ \A d \in Backends : /\ idle[d] \in Nat /\ left[d] \in Nat
                             /\ idle'[d] \in Nat /\ left'[d] \in Nat
  BY <1>0 DEF TypeOK
<1>2. ASSUME NEW a \in Actors, NEW point, NEW c, Goto(a, point, c),
             \A d \in Backends : idle'[d] <= idle[d] /\ left'[d] <= left[d],
             point \notin LockedPC
      PROVE  StartTimed'
  <2>1. \A d \in Backends : idle'[d] + left'[d] <= idle[d] + left[d]
    BY <1>1, <1>2
  <2>. QED BY <1>0, <1>1, <1>2, <2>1, TimedMove
<1>3. ASSUME NEW a \in Actors, NEW b \in Backends, Acquire(a, b) \/ Granted(a, b)
      PROVE  StartTimed'
  <2>1. CASE holder[b] = Nobody /\ Critical(a, b)
    BY <1>0, <2>1, CriticalTimed
  <2>2. CASE Goto(a, "queued", b) /\ UNCHANGED <<idle, left>>
    <3>1. \A d \in Backends : idle'[d] <= idle[d] /\ left'[d] <= left[d]
      BY <1>1, <2>2
    <3>. QED BY <1>2, <2>2, <3>1 DEF LockedPC
  <2>. QED BY <1>3, <2>1, <2>2 DEF Acquire, Granted, Free
<1>4. ASSUME NEW a \in Actors, NEW b \in Backends, pc[a] \in LockedPC, at[a] = b
      PROVE  holder[b] = a
  BY <1>0, <1>4 DEF MutualExclusion
<1>5. ASSUME NEW r \in Requests, RequestStep(r) PROVE StartTimed'
  <2>1. r \in Actors /\ (pc[r] \in LockedPC \cup {"serving", "answered"} => at[r] \in Backends)
    BY <1>0 DEF Actors, Placed
  <2>2. ASSUME NEW b \in Backends, EnsureRunning(r, b) PROVE StartTimed'
    BY <1>3, <2>1, <2>2 DEF EnsureRunning
  <2>3. CASE EndUse(r) \/ TouchAnswered(r) \/ AbandonStream(r) \/ ProbeReady(r)
    <3>1. \A d \in Backends : idle'[d] <= idle[d] /\ left'[d] <= left[d]
      BY <1>1, <2>1, <2>3
         DEF EndUse, TouchAnswered, AbandonStream, ProbeReady, Touch, Release, LockedPC
    <3>2. \E point \in {"answered", "idle", "serving"}, c \in {at[r], NoBackend} : Goto(r, point, c)
      BY <2>3 DEF EndUse, TouchAnswered, AbandonStream, ProbeReady, Leave
    <3>. QED BY <1>2, <2>1, <3>1, <3>2 DEF LockedPC
  <2>4. ASSUME NEW b \in Backends, at[r] = b, ProbeNotReady(r) \/ PollAgain(r) PROVE StartTimed'
    <3>1. idle[b] + left[b] <= HoldTime(pc[r], b) /\ pc[r] \in {"probing", "pausing"}
      BY <1>0, <2>4 DEF ProbeNotReady, PollAgain, StartTimed, LockedPC
    <3>2. \A point \in {"probing", "pausing"} : HoldTime(point, b) = HoldTime(pc[r], b)
      BY <3>1 DEF HoldTime
    <3>3. UNCHANGED <<idle, left>> /\ \E point \in {"probing", "pausing"} : Goto(r, point, b)
      BY <2>4 DEF ProbeNotReady, PollAgain
    <3>4. \A d \in Backends : idle'[d] + left'[d] <= idle[d] + left[d]
      BY <1>1, <3>3
    <3>. QED BY <1>0, <1>1, <2>1, <3>1, <3>2, <3>3, <3>4, TimedMove
  <2>5. ASSUME NEW b \in Backends, at[r] = b, StartFails(r) PROVE StartTimed'
    <3>1. idle[b] + left[b] <= ReadinessTimeout[b] /\ Running(b) /\ holder[b] = r
      BY <1>0, <1>4, <2>1, <2>5
         DEF StartFails, StartTimed, LockedPC, HoldTime, WarmInv, InUse, StartRuns
    <3>2. idle' = idle /\ left' = [left EXCEPT ![b] = ShutdownTimeout[b]] /\ Goto(r, "stopping", b)
      BY <2>5, <3>1 DEF StartFails, StopLocked, Hold
    <3>3. idle'[b] + left'[b] <= HoldTime("stopping", b)
      <4>1. ReadinessTimeout[b] \in Nat /\ ShutdownTimeout[b] \in Nat
        BY ConfigAssumption
      <4>2. idle[b] <= ReadinessTimeout[b]
        BY <1>1, <3>1, <4>1
      <4>3. idle'[b] = idle[b] /\ left'[b] = ShutdownTimeout[b]
        BY <1>1, <3>2
      <4>. QED BY <1>1, <4>1, <4>2, <4>3 DEF HoldTime
    <3>4. \A d \in Backends : idle'[d] + left'[d] <= idle[d] + left[d] \/ holder[d] \in {r, Nobody}
      BY <1>1, <3>1, <3>2
    <3>. QED BY <1>0, <1>1, <2>1, <3>2, <3>3, <3>4, TimedMove
  <2>6. ProbeNotReady(r) \/ PollAgain(r) \/ StartFails(r) => at[r] \in Backends
    BY <2>1 DEF ProbeNotReady, PollAgain, StartFails, LockedPC
  <2>. QED BY <1>5, <2>2, <2>3, <2>4, <2>5, <2>6 DEF RequestStep
<1>6. ASSUME NEW a \in Actors, LockStep(a) PROVE StartTimed'
  <2>1. ASSUME NEW b \in Backends, at[a] = b, StopDone(a) PROVE StartTimed'
    <3>1. /\ holder[b] = a /\ AfterStop(a) \notin LockedPC
          /\ \A d \in Backends : d # b => idle'[d] = idle[d] /\ left'[d] = left[d]
      BY <1>0, <1>4, <2>1 DEF StopDone, LockedPC, AfterStop, ResetState, Release, TypeOK
    <3>2. \A d \in Backends : idle'[d] + left'[d] <= idle[d] + left[d] \/ holder[d] \in {a, Nobody}
      BY <1>1, <3>1
    <3>. QED BY <1>0, <1>1, <2>1, <3>1, <3>2, TimedMove DEF StopDone
  <2>2. ASSUME NEW b \in Backends, at[a] = b, Kill(a) PROVE StartTimed'
    <3>1. /\ holder[b] = a /\ idle' = idle /\ left' = [left EXCEPT ![b] = KillWait]
          /\ left[b] = 0 /\ pc[a] = "stopping" /\ Goto(a, "killing", b)
      BY <1>4, <2>2 DEF Kill, LockedPC
    <3>2. a \in Requests => idle[b] + left[b] <= ReadinessTimeout[b] + ShutdownTimeout[b]
      BY <1>0, <2>2, <3>1 DEF StartTimed, LockedPC, HoldTime
    <3>3. a \in Requests => idle'[b] + left'[b] <= HoldTime("killing", b)
      <4>1. idle'[b] = idle[b] /\ left'[b] = KillWait /\ left[b] = 0
            /\ ReadinessTimeout[b] \in Nat /\ ShutdownTimeout[b] \in Nat
        BY <1>1, <3>1, ConfigAssumption
      <4>. QED BY <1>1, <3>2, <4>1 DEF HoldTime, KillWait
    <3>4. \A d \in Backends : idle'[d] + left'[d] <= idle[d] + left[d] \/ holder[d] \in {a, Nobody}
      BY <1>1, <3>1
    <3>. QED BY <1>0, <1>1, <3>1, <3>3, <3>4, TimedMove
  <2>3. ~KillTimesOut(a)
    BY DEF KillTimesOut, PatientConfig
  <2>. QED BY <1>0, <1>3, <1>6, <2>1, <2>2, <2>3 DEF LockStep, Placed, LockedPC, StopDone, Kill
<1>7. ASSUME NEW b \in Backends, SweepNext(b) PROVE StartTimed'
  BY <1>3, <1>7 DEF SweepNext, Actors
<1>8. CASE Wake \/ SweepEnds \/ StopAllDone
  <2>1. \A d \in Backends : idle'[d] <= idle[d] /\ left'[d] <= left[d]
    BY <1>0, <1>8 DEF Wake, SweepEnds, StopAllDone, TypeOK
  <2>. QED BY <1>2, <1>8, <2>1 DEF Wake, SweepEnds, StopAllDone, Actors, LockedPC
<1>9. CASE StopAllNext
  BY <1>0, <1>3, <1>9, NextInOrder DEF StopAllNext, Actors
<1>10. CASE Shutdown
  <2>1. \A r \in Requests : pc'[r] = "idle"
    BY <1>0, <1>10, ActorsAssumption DEF Shutdown, TypeOK, Actors
  <2>. QED BY <2>1 DEF StartTimed, LockedPC
<1>11. CASE Tick
  <2>1. UNCHANGED <<pc, at>>
    BY <1>11 DEF Tick
  <2>2. \A r \in Requests, b \in Backends :
            pc[r] \in LockedPC /\ at[r] = b => idle'[b] + left'[b] <= idle[b] + left[b]
    <3>. SUFFICES ASSUME NEW r \in Requests, NEW b \in Backends, pc[r] \in LockedPC, at[r] = b
                  PROVE  idle'[b] + left'[b] <= idle[b] + left[b]
      OBVIOUS
    <3>1. holder[b] # Nobody
      BY <1>4, ActorsAssumption DEF Actors
    <3>2. left[b] > 0 /\ left'[b] = left[b] - 1 /\ idle'[b] \in {idle[b], idle[b] + 1}
      BY <1>11, <3>1 DEF Tick
    <3>3. idle[b] \in Nat /\ left[b] \in Nat
      BY <1>0 DEF TypeOK
    <3>. QED BY <3>2, <3>3
  <2>3. \A r \in Requests, b \in Backends : HoldTime(pc[r], b) \in Nat
    BY ConfigAssumption DEF HoldTime, KillWait
  <2>4. \A r \in Requests, b \in Backends :
            pc[r] \in LockedPC /\ at[r] = b => idle'[b] + left'[b] <= HoldTime(pc[r], b)
    <3>. SUFFICES ASSUME NEW r \in Requests, NEW b \in Backends, pc[r] \in LockedPC, at[r] = b
                  PROVE  idle'[b] + left'[b] <= HoldTime(pc[r], b)
      OBVIOUS
    <3>1. /\ idle'[b] + left'[b] <= idle[b] + left[b] /\ HoldTime(pc[r], b) \in Nat
          /\ idle[b] + left[b] <= HoldTime(pc[r], b)
      BY <1>0, <2>2, <2>3 DEF StartTimed
    <3>. QED BY <1>1, <3>1
  <2>. QED BY <2>1, <2>4 DEF StartTimed, HoldTime
<1>12. CASE (\E b \in Backends : ProcessExits(b)) \/ UNCHANGED vars
  BY <1>0, <1>12 DEF ProcessExits, vars, StartTimed, HoldTime
<1>. QED
  BY <1>5, <1>6, <1>7, <1>8, <1>9, <1>10, <1>11, <1>12 DEF Next, ReaperStep, CloserStep, Halted

\* What is ripe has not been touched since the reaper woke.
LEMMA NextRipe == ASSUME PatientConfig, WarmInv, [Next]_vars PROVE RipeIdle'
<1>0. TypeOK /\ RipeIdle
  BY DEF WarmInv, LockInv, Clocks
<1>1. ASSUME NEW b \in Backends, Touch(b) PROVE RipeIdle'
  BY <1>0, <1>1 DEF Touch, RipeIdle, TypeOK
<1>2. ASSUME NEW b \in Backends, ResetState(b) PROVE RipeIdle'
  BY <1>0, <1>2 DEF ResetState, RipeIdle, TypeOK
<1>3. ASSUME UNCHANGED <<idle, ripe>> PROVE RipeIdle'
  BY <1>0, <1>3 DEF RipeIdle
<1>4. ASSUME NEW a \in Actors, NEW b \in Backends, Critical(a, b) PROVE RipeIdle'
  BY <1>1, <1>2, <1>3, <1>4 DEF Critical, Reuse, Spawn, SpawnFails, SpawnExits, StopLocked
<1>5. ASSUME NEW a \in Actors, NEW b \in Backends, Acquire(a, b) \/ Granted(a, b) PROVE RipeIdle'
  BY <1>3, <1>4, <1>5 DEF Acquire, Granted
<1>6. ASSUME NEW r \in Requests, RequestStep(r) PROVE RipeIdle'
  <2>1. r \in Actors /\ (pc[r] \in LockedPC \cup {"serving", "answered"} => at[r] \in Backends)
    BY DEF Actors, WarmInv, LockInv, Placed
  <2>2. CASE ProbeReady(r) \/ EndUse(r) \/ TouchAnswered(r) \/ StartFails(r)
    BY <1>1, <1>2, <1>3, <2>1, <2>2
       DEF ProbeReady, EndUse, TouchAnswered, StartFails, StopLocked, LockedPC
  <2>3. CASE ProbeNotReady(r) \/ PollAgain(r) \/ AbandonStream(r)
    BY <1>3, <2>3 DEF ProbeNotReady, PollAgain, AbandonStream
  <2>. QED BY <1>5, <1>6, <2>1, <2>2, <2>3 DEF RequestStep, EnsureRunning
<1>7. ASSUME NEW a \in Actors, LockStep(a) PROVE RipeIdle'
  <2>1. pc[a] \in LockedPC => at[a] \in Backends
    BY DEF WarmInv, LockInv, Placed
  <2>. QED BY <1>2, <1>3, <1>5, <1>7, <2>1 DEF LockStep, StopDone, Kill, KillTimesOut, LockedPC
<1>8. CASE Wake
  BY <1>0, <1>8, ConfigAssumption DEF Wake, RipeIdle, TypeOK
<1>9. CASE SweepEnds
  BY <1>9 DEF SweepEnds, RipeIdle
<1>10. ASSUME NEW b \in Backends, SweepNext(b) PROVE RipeIdle'
  BY <1>5, <1>10 DEF SweepNext, Actors
<1>11. CASE StopAllDone \/ (\E b \in Backends : ProcessExits(b)) \/ UNCHANGED vars
  BY <1>3, <1>11 DEF StopAllDone, ProcessExits, vars
<1>12. CASE StopAllNext
  BY <1>0, <1>5, <1>12, NextInOrder DEF StopAllNext, Actors
<1>13. CASE Shutdown
  BY <1>0, <1>13 DEF Shutdown, CancelReaper, RipeIdle
<1>14. CASE Tick
  BY <1>0, <1>14, ConfigAssumption DEF Tick, RipeIdle, TypeOK
<1>. QED
  BY <1>6, <1>7, <1>8, <1>9, <1>10, <1>11, <1>12, <1>13, <1>14 DEF Next, ReaperStep, CloserStep, Halted

\* What a move does at the backend it is about, and nothing at the others, keeps a
\* woken waiter's backend fresh.
LEMMA FreshAt ==
    ASSUME WokenFresh, NEW b \in Backends,
           \A c \in Backends : c # b =>
              /\ idle'[c] = idle[c] /\ holder'[c] = holder[c] /\ queue'[c] = queue[c]
              /\ Running(c)' = Running(c),
           holder'[b] = Nobody /\ queue'[b] # <<>> /\ Running(b)' => idle'[b] = 0
    PROVE  WokenFresh'
<1>1. \A c \in Backends : holder'[c] = Nobody /\ queue'[c] # <<>> /\ Running(c)' => idle'[c] = 0
  BY DEF WokenFresh
<1>. QED BY <1>1 DEF WokenFresh

\* A stop holds the lock of what runs.
LEMMA StopFresh ==
    ASSUME TypeOK, WokenFresh, NEW a \in Actors, NEW b \in Backends, NEW next,
           StopLocked(a, b, next), \A c \in Backends : c # b => queue'[c] = queue[c]
    PROVE  WokenFresh'
<1>0. a # Nobody
  BY ActorsAssumption
<1>1. \A c \in Backends : c # b =>
          /\ idle'[c] = idle[c] /\ holder'[c] = holder[c] /\ Running(c)' = Running(c)
  BY DEF StopLocked, ResetState, Hold, Release, TypeOK, Running
<1>2. holder'[b] = Nobody => ~Running(b)'
  BY <1>0 DEF StopLocked, ResetState, Hold, TypeOK, Running
<1>. QED BY <1>1, <1>2, FreshAt

\* An actor that enters the lock of b while nobody holds it.
LEMMA CriticalFresh ==
    ASSUME TypeOK, WokenFresh, NEW a \in Actors, NEW b \in Backends, Critical(a, b),
           \A c \in Backends : c # b => queue'[c] = queue[c]
    PROVE  WokenFresh'
<1>1. CASE a \in Requests /\ (Reuse(a, b) \/ Spawn(a, b))
  <2>1. idle'[b] = 0
    BY <1>1 DEF Reuse, Spawn, Touch, TypeOK
  <2>2. \A c \in Backends : c # b =>
            /\ idle'[c] = idle[c] /\ holder'[c] = holder[c] /\ Running(c)' = Running(c)
    BY <1>1 DEF Reuse, Spawn, Touch, Track, Hold, TypeOK, Running
  <2>. QED BY <2>1, <2>2, FreshAt
<1>2. CASE a \in Requests /\ SpawnFails(a, b)
  BY <1>2, FreshAt DEF SpawnFails, Running
<1>3. CASE a \in Requests /\ SpawnExits(a, b)
  <2>1. ~Running(b)' /\ \A c \in Backends : c # b =>
            /\ idle'[c] = idle[c] /\ holder'[c] = holder[c] /\ Running(c)' = Running(c)
    BY <1>3 DEF SpawnExits, ResetState, TypeOK, Running
  <2>. QED BY <2>1, FreshAt
<1>4. CASE a \notin Requests /\ StopLocked(a, b, "sweeping")
  BY <1>4, StopFresh
<1>. QED BY <1>1, <1>2, <1>3, <1>4 DEF Critical

\* Every step keeps the backend of a woken waiter fresh.
LEMMA NextFresh == ASSUME PatientConfig, WarmInv, [Next]_vars PROVE WokenFresh'
<1>0. TypeOK /\ Placed /\ WokenFresh
  BY DEF WarmInv, LockInv, Clocks
<1>1. ASSUME NEW a \in Actors, NEW b \in Backends, Acquire(a, b) PROVE WokenFresh'
  <2>1. CASE Critical(a, b) /\ UNCHANGED queue
    BY <1>0, <2>1, CriticalFresh
  <2>2. CASE /\ ~Free(b) /\ queue' = [queue EXCEPT ![b] = Append(@, a)]
             /\ UNCHANGED <<proc, idle, holder>>
    <3>1. \A c \in Backends : c # b => queue'[c] = queue[c]
      BY <1>0, <2>2 DEF TypeOK
    <3>2. holder'[b] = Nobody /\ Running(b)' => idle'[b] = 0
      BY <1>0, <2>2 DEF Free, WokenFresh, Running
    <3>. QED BY <1>0, <2>2, <3>1, <3>2, FreshAt DEF Running
  <2>. QED BY <1>1, <2>1, <2>2 DEF Acquire
<1>2. ASSUME NEW a \in Actors, NEW b \in Backends, Granted(a, b) PROVE WokenFresh'
  <2>1. \A c \in Backends : c # b => queue'[c] = queue[c]
    BY <1>0, <1>2 DEF Granted, TypeOK
  <2>. QED BY <1>0, <1>2, <2>1, CriticalFresh DEF Granted
<1>3. ASSUME UNCHANGED <<proc, idle, holder, queue>> PROVE WokenFresh'
  BY <1>0, <1>3 DEF WokenFresh, Running
<1>4. ASSUME NEW r \in Requests, RequestStep(r) PROVE WokenFresh'
  <2>1. r \in Actors /\ (pc[r] \in LockedPC \cup {"serving", "answered"} => at[r] \in Backends)
    BY <1>0 DEF Actors, Placed
  <2>2. CASE ProbeReady(r) \/ EndUse(r) \/ TouchAnswered(r)
    <3>1. at[r] \in Backends /\ Touch(at[r]) /\ UNCHANGED <<proc, queue>>
          /\ holder' \in {holder, [holder EXCEPT ![at[r]] = Nobody]}
      BY <2>1, <2>2 DEF ProbeReady, EndUse, TouchAnswered, Release, LockedPC
    <3>2. idle'[at[r]] = 0 /\ \A c \in Backends : c # at[r] =>
              /\ idle'[c] = idle[c] /\ holder'[c] = holder[c] /\ queue'[c] = queue[c]
              /\ Running(c)' = Running(c)
      BY <1>0, <3>1 DEF Touch, TypeOK, Running
    <3>. QED BY <1>0, <3>1, <3>2, FreshAt
  <2>3. CASE StartFails(r)
    BY <1>0, <2>1, <2>3, StopFresh DEF StartFails, LockedPC
  <2>4. CASE ProbeNotReady(r) \/ PollAgain(r) \/ AbandonStream(r)
    BY <1>3, <2>4 DEF ProbeNotReady, PollAgain, AbandonStream
  <2>. QED BY <1>1, <1>4, <2>1, <2>2, <2>3, <2>4 DEF RequestStep, EnsureRunning
<1>5. ASSUME NEW a \in Actors, LockStep(a) PROVE WokenFresh'
  <2>1. ASSUME NEW b \in Backends, at[a] = b, StopDone(a) PROVE WokenFresh'
    <3>1. ~Running(b)' /\ \A c \in Backends : c # b =>
              /\ idle'[c] = idle[c] /\ holder'[c] = holder[c] /\ Running(c)' = Running(c)
      BY <1>0, <2>1 DEF StopDone, ResetState, Release, TypeOK, Running
    <3>2. queue' = queue
      BY <2>1 DEF StopDone
    <3>. QED BY <1>0, <3>1, <3>2, FreshAt
  <2>2. CASE Kill(a)
    BY <1>3, <2>2 DEF Kill
  <2>3. ~KillTimesOut(a)
    BY DEF KillTimesOut, PatientConfig
  <2>. QED BY <1>0, <1>2, <1>5, <2>1, <2>2, <2>3 DEF LockStep, Placed, LockedPC, StopDone
<1>6. ASSUME NEW b \in Backends, SweepNext(b) PROVE WokenFresh'
  BY <1>1, <1>6 DEF SweepNext, Actors
<1>7. CASE StopAllNext
  BY <1>0, <1>1, <1>7, NextInOrder DEF StopAllNext, Actors
<1>8. CASE Wake \/ SweepEnds \/ StopAllDone \/ UNCHANGED vars
  BY <1>3, <1>8 DEF Wake, SweepEnds, StopAllDone, vars
<1>9. CASE Shutdown
  <2>1. CASE pc[Reaper] = "dead"
    BY <1>3, <1>9, <2>1 DEF Shutdown
  <2>2. CASE pc[Reaper] # "dead"
    <3>1. \A b \in Backends : queue'[b] = <<>>
      BY <1>9, <2>2 DEF Shutdown, CancelReaper
    <3>. QED BY <3>1 DEF WokenFresh
  <2>. QED BY <2>1, <2>2
<1>10. ASSUME NEW b \in Backends, ProcessExits(b) PROVE WokenFresh'
  BY <1>0, <1>10 DEF ProcessExits, WokenFresh, TypeOK, Running
<1>11. CASE Tick
  <2>1. \A b \in Backends : holder[b] = Nobody => queue[b] = <<>>
    BY <1>11 DEF Tick
  <2>. QED BY <1>11, <2>1 DEF Tick, WokenFresh
<1>. QED
  BY <1>4, <1>5, <1>6, <1>7, <1>8, <1>9, <1>10, <1>11 DEF Next, ReaperStep, CloserStep, Halted

\* The lock of a backend that is due is free when the reaper comes.
LEMMA DueFree ==
    ASSUME PatientConfig, WarmInv, pc[Reaper] = "sweeping", NEW b \in Backends, b \in Due
    PROVE  Free(b)
<1>0. TypeOK /\ MutualExclusion /\ Clocks
  BY DEF WarmInv, LockInv
<1>1. idle[b] = IdleTimeout[b] /\ idle[b] > 0 /\ Running(b)
  BY <1>0, ConfigAssumption DEF Due, Clocks, RipeIdle
<1>2. CASE holder[b] = Nobody
  BY <1>0, <1>1, <1>2 DEF Clocks, WokenFresh, Free
<1>3. ASSUME NEW r \in Requests, holder[b] = r PROVE FALSE
  <2>1. pc[r] \in LockedPC /\ at[r] = b
    BY <1>0, <1>3 DEF MutualExclusion, Actors
  <2>2. idle[b] + left[b] <= HoldTime(pc[r], b)
    BY <1>0, <2>1 DEF Clocks, StartTimed
  <2>3. ReadinessTimeout[b] \in Nat /\ ShutdownTimeout[b] \in Nat /\ left[b] \in Nat
        /\ IdleTimeout[b] \in Nat
    BY <1>0, ConfigAssumption DEF TypeOK
  <2>4. HoldTime(pc[r], b) <= ReadinessTimeout[b] + ShutdownTimeout[b] + KillWait
    BY <2>3 DEF HoldTime, KillWait
  <2>5. HoldTime(pc[r], b) \in Nat
    BY <2>3 DEF HoldTime, KillWait
  <2>6. IdleTimeout[b] > ReadinessTimeout[b] + ShutdownTimeout[b] + KillWait
    BY DEF PatientConfig
  <2>. QED BY <1>1, <2>2, <2>3, <2>4, <2>5, <2>6 DEF KillWait
<1>4. holder[b] # Reaper /\ holder[b] # Closer
  BY <1>0 DEF MutualExclusion, WarmInv, Closing, LockedPC, Actors
<1>. QED BY <1>0, <1>2, <1>3, <1>4 DEF TypeOK, Actors

\* So the reaper never waits in a line.
LEMMA NextAwake == ASSUME PatientConfig, WarmInv, [Next]_vars PROVE pc'[Reaper] # "queued"
<1>0. TypeOK /\ pc[Reaper] # "queued"
  BY DEF WarmInv, LockInv, Clocks
<1>1. ASSUME NEW a \in Actors, a # Reaper, NEW point, NEW c, Goto(a, point, c)
      PROVE  pc'[Reaper] # "queued"
  BY <1>0, <1>1 DEF Goto, TypeOK
<1>2. ASSUME NEW point, point # "queued", NEW c, Goto(Reaper, point, c)
      PROVE  pc'[Reaper] # "queued"
  BY <1>0, <1>2 DEF Goto, TypeOK, Actors
<1>3. ASSUME NEW a \in Actors, NEW b \in Backends, Acquire(a, b), a # Reaper \/ Free(b)
      PROVE  pc'[Reaper] # "queued"
  BY <1>1, <1>2, <1>3, CriticalPlace DEF Acquire
<1>4. ASSUME NEW a \in Actors, NEW b \in Backends, Granted(a, b)
      PROVE  pc'[Reaper] # "queued"
  BY <1>1, <1>2, <1>4, CriticalPlace DEF Granted
<1>5. ASSUME NEW r \in Requests, RequestStep(r) PROVE pc'[Reaper] # "queued"
  <2>1. r \in Actors /\ r # Reaper
    BY ActorsAssumption DEF Actors
  <2>2. CASE ProbeReady(r) \/ ProbeNotReady(r) \/ PollAgain(r) \/ StartFails(r)
    BY <1>1, <2>1, <2>2 DEF ProbeReady, ProbeNotReady, PollAgain, StartFails, StopLocked
  <2>3. CASE EndUse(r) \/ TouchAnswered(r) \/ AbandonStream(r)
    BY <1>1, <2>1, <2>3 DEF EndUse, TouchAnswered, AbandonStream, Leave
  <2>. QED BY <1>3, <1>5, <2>1, <2>2, <2>3 DEF RequestStep, EnsureRunning
<1>6. ASSUME NEW a \in Actors, LockStep(a) PROVE pc'[Reaper] # "queued"
  <2>1. CASE StopDone(a) \/ Kill(a) \/ KillTimesOut(a)
    BY <1>1, <1>2, <2>1 DEF StopDone, Kill, KillTimesOut, AfterStop, AfterTimeout
  <2>. QED BY <1>4, <1>6, <2>1 DEF LockStep
<1>7. CASE Wake \/ SweepEnds
  BY <1>2, <1>7 DEF Wake, SweepEnds
<1>8. ASSUME NEW b \in Backends, SweepNext(b) PROVE pc'[Reaper] # "queued"
  BY <1>3, <1>8, DueFree DEF SweepNext, Actors
<1>9. CASE StopAllDone \/ StopAllNext
  BY <1>0, <1>1, <1>3, <1>9, NextInOrder, ActorsAssumption DEF StopAllDone, StopAllNext, Actors
<1>10. CASE Shutdown
  BY <1>0, <1>10, ActorsAssumption DEF Shutdown, TypeOK, Actors
<1>11. CASE (\E b \in Backends : ProcessExits(b)) \/ Tick \/ UNCHANGED vars
  BY <1>0, <1>11 DEF ProcessExits, Tick, vars
<1>. QED
  BY <1>5, <1>6, <1>7, <1>8, <1>9, <1>10, <1>11 DEF Next, ReaperStep, CloserStep, Halted

\* The reaper begins a stop only when it finds a backend due and its lock free.
LEMMA NextSpares ==
    ASSUME PatientConfig, WarmInv, [Next]_vars, NEW b \in Backends, Users(b) # {},
           pc'[Reaper] = "stopping", at'[Reaper] = b
    PROVE  pc[Reaper] = "stopping"
<1>0. TypeOK /\ pc[Reaper] # "queued"
  BY DEF WarmInv, LockInv, Clocks
<1>. SUFFICES ASSUME pc[Reaper] # "stopping" PROVE FALSE
  OBVIOUS
<1>1. ASSUME NEW a \in Actors, a # Reaper, NEW point, NEW c, Goto(a, point, c) PROVE FALSE
  BY <1>0, <1>1 DEF Goto, TypeOK
<1>2. ASSUME NEW point, point # "stopping", NEW c, Goto(Reaper, point, c) PROVE FALSE
  BY <1>0, <1>2 DEF Goto, TypeOK, Actors
<1>3. ASSUME NEW a \in Actors, a # Reaper, NEW c \in Backends, Acquire(a, c) \/ Granted(a, c)
      PROVE  FALSE
  BY <1>1, <1>3, CriticalPlace DEF Acquire, Granted
<1>4. ASSUME NEW r \in Requests, RequestStep(r) PROVE FALSE
  <2>1. r \in Actors /\ r # Reaper
    BY ActorsAssumption DEF Actors
  <2>2. CASE ProbeReady(r) \/ ProbeNotReady(r) \/ PollAgain(r) \/ StartFails(r)
    BY <1>1, <2>1, <2>2 DEF ProbeReady, ProbeNotReady, PollAgain, StartFails, StopLocked
  <2>3. CASE EndUse(r) \/ TouchAnswered(r) \/ AbandonStream(r)
    BY <1>1, <2>1, <2>3 DEF EndUse, TouchAnswered, AbandonStream, Leave
  <2>. QED BY <1>3, <1>4, <2>1, <2>2, <2>3 DEF RequestStep, EnsureRunning
<1>5. ASSUME NEW a \in Actors, LockStep(a) PROVE FALSE
  <2>1. CASE StopDone(a) \/ Kill(a) \/ KillTimesOut(a)
    BY <1>1, <1>2, <2>1 DEF StopDone, Kill, KillTimesOut, AfterStop, AfterTimeout
  <2>. QED BY <1>0, <1>3, <1>5, <2>1 DEF LockStep, Granted
<1>6. CASE Wake \/ SweepEnds
  BY <1>2, <1>6 DEF Wake, SweepEnds
<1>7. ASSUME NEW c \in Backends, SweepNext(c) PROVE FALSE
  <2>1. Free(c) /\ Users(c) = {}
    BY <1>7, DueFree, DueUnused DEF SweepNext, WarmInv
  <2>2. c # b
    BY <2>1
  <2>3. StopLocked(Reaper, c, "sweeping")
    BY <1>7, <2>1, ActorsAssumption DEF SweepNext, Acquire, Critical
  <2>4. \E point \in {"stopping", "sweeping"} : Goto(Reaper, point, c)
    BY <2>3, ActorsAssumption DEF StopLocked
  <2>. QED BY <1>0, <2>2, <2>4 DEF Goto, TypeOK, Actors
<1>8. CASE StopAllDone \/ StopAllNext
  BY <1>0, <1>1, <1>3, <1>8, NextInOrder, ActorsAssumption DEF StopAllDone, StopAllNext, Actors
<1>9. CASE Shutdown
  BY <1>0, <1>9, ActorsAssumption DEF Shutdown, TypeOK, Actors
<1>10. CASE (\E c \in Backends : ProcessExits(c)) \/ Tick \/ UNCHANGED vars
  BY <1>10 DEF ProcessExits, Tick, vars
<1>. QED
  BY <1>4, <1>5, <1>6, <1>7, <1>8, <1>9, <1>10 DEF Next, ReaperStep, CloserStep, Halted

\* The reaper never starts to stop a runtime that a request is using, however many
\* requests share it, start it or wait for it, as long as no child exits by itself and
\* every idle timeout is longer than a start that fails.
THEOREM ReaperSparesUsers == ASSUME PatientConfig PROVE Spec => KeepsActiveWarm
<1>1. Init => Closing /\ InUse /\ Clocks
  <2>1. Init => \A b : Users(b) = {}
    <3>1. Init => \A r \in Requests : pc[r] # "serving"
      BY DEF Init, Actors
    <3>. QED BY <3>1 DEF Users
  <2>2. Init => UsesCounted
    <3>1. Cardinality({}) = 0
      BY FS_EmptySet
    <3>2. Init => \A b : Cardinality(Users(b)) = 0
      BY <2>1, <3>1
    <3>. QED BY <3>2 DEF Init, UsesCounted
  <2>3. Init => UsedRuns /\ StartRuns
    BY <2>1 DEF Init, UsedRuns, StartRuns, Actors
  <2>. QED BY <2>2, <2>3, ActorsAssumption
          DEF Init, InUse, Closing, Clocks, RipeIdle, StartTimed, WokenFresh, LockedPC, Actors
<1>2. Spec => []LockInv
  BY InitLock, NextLock, PTL DEF Spec
<1>3. WarmInv /\ [Next]_vars => Closing' /\ InUse' /\ Clocks'
  BY NextClosing, NextInUse, NextTimed, NextRipe, NextFresh, NextAwake DEF WarmInv, Clocks
<1>4. WarmInv <=> LockInv /\ Closing /\ InUse /\ Clocks
  BY DEF WarmInv
<1>5. WarmInv /\ [Next]_vars =>
          [\A b \in Backends :
             Users(b) # {} /\ pc'[Reaper] = "stopping" /\ at'[Reaper] = b
                => pc[Reaper] = "stopping"]_vars
  BY NextSpares
<1>. QED BY <1>1, <1>2, <1>3, <1>4, <1>5, PTL DEF Spec, KeepsActiveWarm
=============================================================================
