------------------------ MODULE RuntimeAdapterProofs ------------------------
(***************************************************************************)
(* That no runtime gets lost, that only a matching one is signalled and    *)
(* that a stop that reports success leaves none, for every set of command  *)
(* lines, process numbers and commands.                                    *)
(*                                                                         *)
(* All three rest on one invariant, which holds until operations overlap   *)
(* or one is cut off while it records its PID: the only actor at work      *)
(* knows what the marker says (Knows), and when nobody is recording, the   *)
(* marker names every runtime, with its command (Recorded).                *)
(***************************************************************************)
EXTENDS RuntimeAdapter, TLAPS

Dos == {"start", "stop", "none"}
Stopping == {"terminate", "stopping", "kill", "killed"}
Recording == {"record", "write"}
Pcs == {"idle", "read", "decide", "settle", "health", "spawn", "wait"} \cup Recording \cup Stopping

Seens == [pid : Pids \cup {NoPid}, cmd : Commands \cup {NoCommand}]
Markers == [pid : Pids \cup {NoPid}, cmd : Commands \cup {NoCommand, "torn"}]
Doings == [do : Dos, pc : Pcs, cmd : Commands \cup {NoCommand}, seen : Seens,
           pid : Pids \cup {NoPid}, undo : BOOLEAN]
Phases == {"free", "starting", "serving", "zombie"}
Process == [phase : Phases, ours : BOOLEAN, cmd : Commands \cup {NoCommand},
            parent : Actors \cup {InitD}]

Typed ==
    /\ proc \in [Pids -> Process]
    /\ marker \in Markers
    /\ marker.pid # NoPid => marker.cmd \in Commands
    /\ configured \in Commands
    /\ op \in [Actors -> Doings]
    /\ excused \in BOOLEAN

\* What holds of an operation whatever the others do.
Holds(a) ==
    /\ op[a].pc \in Stopping => op[a].seen.pid \in Pids /\ op[a].seen.cmd = op[a].cmd
    /\ op[a].pc \in Recording \cup {"wait"} => op[a].pid \in Pids
    /\ op[a].pc # "idle" => op[a].cmd \in Commands

Ours(p) == Alive(p) /\ proc[p].ours
NoneOurs == \A p \in Pids : ~Ours(p)

\* What the only actor at work knows of the marker and the runtimes.
Knows(a) ==
    /\ op[a].pc \in {"decide", "settle"} \cup Stopping =>
        /\ op[a].seen.pid = marker.pid
        /\ op[a].seen.pid # NoPid => op[a].seen.cmd = marker.cmd
    /\ op[a].pc \in {"health", "spawn"} => NoneOurs
    /\ op[a].pc \in Recording =>
        \A p \in Pids : Ours(p) => p = op[a].pid /\ proc[p].cmd = op[a].cmd

Sole == \A a, b \in Actors : op[a].pc # "idle" /\ op[b].pc # "idle" => a = b
Recorded ==
    (\A a \in Actors : op[a].pc \notin Recording) =>
        \A p \in Pids : Ours(p) => p = marker.pid /\ proc[p].cmd = marker.cmd

HoldInv == \A a \in Actors : Holds(a)
MarkerInv == ~excused => Sole /\ Recorded /\ \A a \in Actors : Knows(a)

Inv == Typed /\ HoldInv /\ MarkerInv
-----------------------------------------------------------------------------
\* The actor a is now at pc, and the others where they were.
Now(a, pc, cmd, seen, pid) ==
    /\ op' \in [Actors -> Doings]
    /\ op'[a].pc = pc /\ op'[a].cmd = cmd /\ op'[a].seen = seen /\ op'[a].pid = pid
    /\ \A b \in Actors \ {a} : op'[b] = op[b]

\* No runtime of ours is new.
NoneNew == \A p \in Pids : Ours(p)' => Ours(p) /\ proc'[p].cmd = proc[p].cmd

\* An idle actor is well typed.
LEMMA IdleDoing ==
    /\ Idle \in Doings
    /\ Idle.pc = "idle" /\ Idle.cmd = NoCommand /\ Idle.seen = NoMarker /\ Idle.pid = NoPid
  <1>1. NoMarker \in Seens
    BY DEF NoMarker, Seens
  <1>2. QED
    BY <1>1 DEF Idle, Doings, Dos, Pcs

\* A free number is well typed and no runtime.
LEMMA FreeProcess == Gone \in Process /\ Gone.phase = "free" /\ ~Gone.ours
  BY DEF Gone, Process, Phases

\* What replaces an actor's record is all that changes.
LEMMA Replaced ==
    ASSUME op \in [Actors -> Doings], NEW a \in Actors, NEW x \in Doings,
           op' = [op EXCEPT ![a] = x]
    PROVE  Now(a, x.pc, x.cmd, x.seen, x.pid)
  BY DEF Now

\* Going to another place changes the place alone.
LEMMA Goes ==
    ASSUME op \in [Actors -> Doings], NEW a \in Actors, NEW pc \in Pcs, Go(a, pc)
    PROVE  Now(a, pc, op[a].cmd, op[a].seen, op[a].pid)
  <1> DEFINE x == [op[a] EXCEPT !.pc = pc]
  <1>1. x \in Doings /\ x.pc = pc /\ x.cmd = op[a].cmd /\ x.seen = op[a].seen /\ x.pid = op[a].pid
    BY DEF Doings
  <1>2. op' = [op EXCEPT ![a] = x]
    BY DEF Go
  <1> HIDE DEF x
  <1>3. QED
    BY <1>1, <1>2, Replaced

\* The end of a process gives its children away and takes none.
LEMMA ExitedTable ==
    ASSUME proc \in [Pids -> Process], NEW a \in Actors, proc' = Exited(proc, a)
    PROVE  proc' \in [Pids -> Process] /\ NoneNew
  <1>1. ASSUME NEW p \in Pids
        PROVE  /\ proc'[p] \in Process
               /\ proc'[p] = Gone \/ (/\ proc'[p].phase = proc[p].phase /\ proc'[p].ours = proc[p].ours
                                      /\ proc'[p].cmd = proc[p].cmd)
    <2>1. CASE proc[p].parent # a
      BY <2>1 DEF Exited
    <2>2. CASE proc[p].parent = a /\ proc[p].phase = "zombie"
      BY <2>2, FreeProcess DEF Exited
    <2>3. CASE proc[p].parent = a /\ proc[p].phase # "zombie"
      <3> DEFINE x == [proc[p] EXCEPT !.parent = InitD]
      <3>1. proc'[p] = x
        BY <2>3 DEF Exited
      <3>2. x \in Process /\ x.phase = proc[p].phase /\ x.ours = proc[p].ours /\ x.cmd = proc[p].cmd
        BY DEF Process
      <3> HIDE DEF x
      <3>3. QED
        BY <3>1, <3>2
    <2>4. QED
      BY <2>1, <2>2, <2>3
  <1>2. proc' \in [Pids -> Process]
    BY <1>1 DEF Exited
  <1>3. NoneNew
    BY <1>1, FreeProcess DEF NoneNew, Ours, Alive
  <1>4. QED
    BY <1>2, <1>3

\* Freeing some numbers takes no child either.
LEMMA FreedTable ==
    ASSUME proc \in [Pids -> Process], NEW F \in SUBSET Pids,
           proc' = [p \in Pids |-> IF p \in F THEN Gone ELSE proc[p]]
    PROVE  proc' \in [Pids -> Process] /\ NoneNew
  BY FreeProcess DEF NoneNew, Ours, Alive

\* An operation that ends leaves its actor idle, and no new runtime.
LEMMA Finishes ==
    ASSUME Typed, NEW a \in Actors, NEW status, Finish(a, status)
    PROVE  /\ Now(a, "idle", NoCommand, NoMarker, NoPid)
           /\ proc' \in [Pids -> Process] /\ NoneNew
  <1>1. Now(a, "idle", NoCommand, NoMarker, NoPid)
    BY IdleDoing, Replaced DEF Typed, Finish
  <1>2. CASE a \in Clis
    BY <1>1, <1>2, ExitedTable DEF Finish, Typed
  <1>3. CASE a \notin Clis /\ proc' = proc
    BY <1>1, <1>3 DEF Typed, NoneNew, Ours, Alive
  <1>4. CASE a \notin Clis /\ proc' # proc
    <2>1. proc' = [proc EXCEPT ![op[a].pid] = Gone]
      BY <1>4 DEF Finish
    <2>2. proc' = [p \in Pids |-> IF p \in {op[a].pid} \cap Pids THEN Gone ELSE proc[p]]
      BY <2>1 DEF Typed
    <2>3. QED
      BY <1>1, <2>2, FreedTable DEF Typed
  <1>5. QED
    BY <1>2, <1>3, <1>4
-----------------------------------------------------------------------------
\* A step of the only actor at work keeps the invariant when it keeps what that
\* actor holds and knows.
LEMMA ActorKeeps ==
    ASSUME Inv, NEW a \in Actors, op[a].pc # "idle", NEW pc, NEW cmd, NEW seen, NEW pid,
           Now(a, pc, cmd, seen, pid), Typed', Holds(a)', excused => excused',
           ~excused' => Knows(a)' /\ Recorded'
    PROVE  Inv'
  <1>1. HoldInv'
    BY DEF Inv, HoldInv, Holds, Now
  <1>2. ASSUME ~excused' PROVE Sole' /\ \A b \in Actors : Knows(b)'
    <2>1. \A b \in Actors \ {a} : op'[b].pc = "idle"
      BY <1>2 DEF Inv, MarkerInv, Sole, Now
    <2>2. QED
      BY <1>2, <2>1 DEF Sole, Knows, Stopping, Recording
  <1>3. QED
    BY <1>1, <1>2 DEF Inv, MarkerInv

\* What the marker does not name, or names though it is gone, is no runtime of ours.
LEMMA GoneForGood ==
    ASSUME Inv, ~excused, NEW a \in Actors, op[a].pc \in {"decide", "settle"} \cup Stopping,
           ~PidRunning(op[a].seen.pid)
    PROVE  NoneOurs
  <1>1. \A b \in Actors : op[b].pc \notin Recording
    BY DEF Inv, MarkerInv, Sole, Stopping, Recording
  <1>2. \A p \in Pids : Ours(p) => p = op[a].seen.pid
    BY <1>1 DEF Inv, MarkerInv, Recorded, Knows
  <1>3. QED
    BY <1>2 DEF NoneOurs, Ours, Alive, PidRunning

\* An operation that ends: what it leaves unrecorded excuses it, and it only
\* removes a marker that names no runtime of ours.
LEMMA EndingKeeps ==
    ASSUME Inv, NEW a \in Actors, op[a].pc # "idle", NEW status, Finish(a, status),
           excused' = (excused \/ op[a].pc \in Recording), UNCHANGED configured,
           marker' # marker => marker' = NoMarker /\ (~excused => NoneOurs)
    PROVE  Inv'
  <1>1. /\ Now(a, "idle", NoCommand, NoMarker, NoPid)
        /\ proc' \in [Pids -> Process] /\ NoneNew
    BY Finishes DEF Inv
  <1>2. Typed'
    <2>1. NoMarker \in Markers /\ NoMarker.pid = NoPid
      BY DEF NoMarker, Markers
    <2>2. QED
      BY <1>1, <2>1 DEF Inv, Typed, Now
  <1>3. Holds(a)' /\ Knows(a)'
    BY <1>1 DEF Now, Holds, Knows, Stopping, Recording
  <1>4. ASSUME ~excused' PROVE Recorded'
    <2>1. \A b \in Actors : op[b].pc \notin Recording
      BY <1>4 DEF Inv, MarkerInv, Sole, Recording
    <2>2. \A p \in Pids : Ours(p) => p = marker.pid /\ proc[p].cmd = marker.cmd
      BY <1>4, <2>1 DEF Inv, MarkerInv, Recorded
    <2>3. QED
      BY <1>1, <1>4, <2>2 DEF Recorded, NoneNew, NoneOurs
  <1>5. QED
    BY <1>1, <1>2, <1>3, <1>4, ActorKeeps DEF Inv, Typed

\* An operation that goes on without touching anything.
LEMMA GoingKeeps ==
    ASSUME Inv, NEW a \in Actors, op[a].pc \notin {"idle"} \cup Recording,
           NEW pc \in Pcs \ Recording, Go(a, pc),
           UNCHANGED <<proc, marker, configured, excused>>,
           pc \in Stopping => /\ op[a].pc \in {"settle"} \cup Stopping
                              /\ op[a].seen.pid \in Pids /\ op[a].seen.cmd = op[a].cmd,
           pc \in {"decide", "settle", "wait"} => op[a].pc = pc,
           pc \in {"health", "spawn"} => op[a].pc \in {"health", "spawn"}
    PROVE  Inv'
  <1>1. Now(a, pc, op[a].cmd, op[a].seen, op[a].pid)
    BY Goes DEF Inv, Typed
  <1>2. Typed'
    BY <1>1 DEF Inv, Typed, Now
  <1>3. Holds(a)'
    BY <1>1 DEF Inv, HoldInv, Holds, Now, Stopping, Recording
  <1>4. ASSUME ~excused PROVE Knows(a)' /\ Recorded'
    <2>1. \A p \in Pids : Ours(p)' <=> Ours(p)
      BY DEF Ours, Alive
    <2>2. Knows(a)
      BY <1>4 DEF Inv, MarkerInv
    <2>3. Knows(a)'
      BY <1>1, <2>1, <2>2 DEF Knows, NoneOurs, Now, Stopping, Recording
    <2>4. Recorded'
      BY <1>1, <1>4, <2>1 DEF Inv, MarkerInv, Recorded, Now
    <2>5. QED
      BY <2>3, <2>4
  <1>5. QED
    BY <1>1, <1>2, <1>3, <1>4, ActorKeeps
-----------------------------------------------------------------------------
(* The steps of an operation.                                              *)

\* Reading tells the only actor what the marker says.
LEMMA ReadKeeps ==
    ASSUME Inv, NEW a \in Actors, Read(a)
    PROVE  Inv'
  <1> DEFINE pc == IF op[a].do = "start" /\ ~op[a].undo THEN "decide" ELSE "settle"
             x == [op[a] EXCEPT !.seen = ReadPidMarker, !.do = "none", !.pc = pc]
  <1>1. op[a].pc = "read" /\ UNCHANGED <<proc, marker, configured, excused>>
    BY DEF Read, At
  <1>2. ReadPidMarker \in Seens
    BY DEF Inv, Typed, ReadPidMarker, NoMarker, Markers, Seens
  <1>3. /\ x \in Doings /\ x.pc = pc /\ x.cmd = op[a].cmd /\ x.seen = ReadPidMarker
        /\ x.pid = op[a].pid
    BY <1>2 DEF Inv, Typed, Doings, Dos, Pcs
  <1>4. op' = [op EXCEPT ![a] = x]
    BY DEF Read
  <1>5. pc \in {"decide", "settle"}
    OBVIOUS
  <1> HIDE DEF x, pc
  <1>6. Now(a, pc, op[a].cmd, ReadPidMarker, op[a].pid)
    BY <1>3, <1>4, Replaced DEF Inv, Typed
  <1>7. Typed'
    BY <1>1, <1>6 DEF Inv, Typed, Now
  <1>8. Holds(a)'
    BY <1>1, <1>5, <1>6 DEF Inv, HoldInv, Holds, Now, Stopping, Recording
  <1>9. Knows(a)'
    BY <1>1, <1>5, <1>6 DEF Knows, Now, ReadPidMarker, NoMarker, Stopping, Recording
  <1>10. ASSUME ~excused PROVE Recorded'
    <2>1. \A b \in Actors : op[b].pc \notin Recording
      BY <1>1, <1>10 DEF Inv, MarkerInv, Sole, Recording
    <2>2. QED
      BY <1>1, <1>10, <2>1 DEF Inv, MarkerInv, Recorded, Ours, Alive
  <1>11. QED
    BY <1>1, <1>6, <1>7, <1>8, <1>9, <1>10, ActorKeeps

\* A stale marker names nothing of ours: removed or not, there is no runtime.
LEMMA StaleMarkerKeeps ==
    ASSUME Inv, NEW a \in Actors, StaleMarker(a)
    PROVE  Inv'
  <1> DEFINE x == [op[a] EXCEPT !.pc = "health", !.seen = NoMarker]
  <1>1. op[a].pc = "decide" /\ UNCHANGED <<proc, configured, excused>> /\ ~PidRunning(op[a].seen.pid)
    BY DEF StaleMarker, At
  <1>2. NoMarker \in Seens /\ NoMarker \in Markers /\ NoMarker.pid = NoPid
    BY DEF NoMarker, Seens, Markers
  <1>3. x \in Doings /\ x.pc = "health" /\ x.cmd = op[a].cmd /\ x.seen = NoMarker /\ x.pid = op[a].pid
    BY <1>2 DEF Inv, Typed, Doings, Pcs
  <1>4. op' = [op EXCEPT ![a] = x]
    BY DEF StaleMarker
  <1> HIDE DEF x
  <1>5. Now(a, "health", op[a].cmd, NoMarker, op[a].pid)
    BY <1>3, <1>4, Replaced DEF Inv, Typed
  <1>6. marker' \in {marker, NoMarker}
    BY DEF StaleMarker
  <1>7. Typed'
    BY <1>1, <1>2, <1>5, <1>6 DEF Inv, Typed, Now
  <1>8. Holds(a)'
    BY <1>1, <1>5 DEF Inv, HoldInv, Holds, Now, Stopping, Recording
  <1>9. ASSUME ~excused PROVE Knows(a)' /\ Recorded'
    <2>1. NoneOurs'
      BY <1>1, <1>9, GoneForGood DEF NoneOurs, Ours, Alive
    <2>2. QED
      BY <1>5, <2>1 DEF Knows, Recorded, NoneOurs, Now, Stopping, Recording
  <1>10. QED
    BY <1>1, <1>5, <1>7, <1>8, <1>9, ActorKeeps

\* A child is spawned where there is none.
LEMMA SpawnKeeps ==
    ASSUME Inv, NEW a \in Actors, Spawn(a)
    PROVE  Inv'
  <1>1. op[a].pc = "spawn" /\ UNCHANGED <<marker, configured, excused>>
    BY DEF Spawn, At
  <1>2. PICK p \in Pids :
          /\ Cleanup(a)[p] = Gone
          /\ proc' = [Cleanup(a) EXCEPT ![p] = [phase |-> "starting", ours |-> TRUE,
                                                cmd |-> op[a].cmd, parent |-> a]]
          /\ op' = [op EXCEPT ![a].pc = "record", ![a].pid = p]
    BY DEF Spawn
  <1> DEFINE x == [op[a] EXCEPT !.pc = "record", !.pid = p]
             c == [phase |-> "starting", ours |-> TRUE, cmd |-> op[a].cmd, parent |-> a]
  <1>3. x \in Doings /\ x.pc = "record" /\ x.cmd = op[a].cmd /\ x.seen = op[a].seen /\ x.pid = p
    BY DEF Inv, Typed, Doings, Pcs, Recording
  <1>4. op' = [op EXCEPT ![a] = x]
    BY <1>2
  <1>5. op[a].cmd \in Commands
    BY <1>1 DEF Inv, HoldInv, Holds
  <1>6. c \in Process /\ c.cmd = op[a].cmd
    BY <1>5 DEF Process, Phases
  <1>7. \A r \in Pids : proc'[r] = IF r = p THEN c ELSE Cleanup(a)[r]
    BY <1>2 DEF Cleanup
  <1>8. proc' = [r \in Pids |-> IF r = p THEN c ELSE Cleanup(a)[r]]
    BY <1>2 DEF Cleanup
  <1> HIDE DEF x, c
  <1>9. \A r \in Pids : Cleanup(a)[r] \in {Gone, proc[r]}
    BY DEF Cleanup
  <1>10. Now(a, "record", op[a].cmd, op[a].seen, p)
    BY <1>3, <1>4, Replaced DEF Inv, Typed
  <1>11. Typed'
    BY <1>1, <1>6, <1>8, <1>9, <1>10, FreeProcess DEF Inv, Typed, Now
  <1>12. Holds(a)'
    BY <1>5, <1>10 DEF Holds, Now, Stopping, Recording
  <1>13. ASSUME ~excused PROVE Knows(a)' /\ Recorded'
    <2>1. NoneOurs
      BY <1>1, <1>13 DEF Inv, MarkerInv, Knows
    <2>2. \A r \in Pids : Ours(r)' => r = p /\ proc'[r].cmd = op[a].cmd
      BY <1>6, <1>7, <1>9, <2>1, FreeProcess DEF NoneOurs, Ours, Alive
    <2>3. QED
      BY <1>10, <2>2 DEF Knows, Recorded, Now, Stopping, Recording
  <1>14. QED
    BY <1>1, <1>10, <1>11, <1>12, <1>13, ActorKeeps

\* While the marker is torn its actor knows the child, ...
LEMMA OpenMarkerKeeps ==
    ASSUME Inv, NEW a \in Actors, OpenMarker(a)
    PROVE  Inv'
  <1>1. /\ op[a].pc = "record" /\ marker' = Torn /\ Go(a, "write")
        /\ UNCHANGED <<proc, configured, excused>>
    BY DEF OpenMarker, At
  <1>2. Now(a, "write", op[a].cmd, op[a].seen, op[a].pid)
    BY <1>1, Goes DEF Inv, Typed, Pcs, Recording
  <1>3. Torn \in Markers /\ Torn.pid = NoPid
    BY DEF Torn, Markers
  <1>4. Typed'
    BY <1>1, <1>2, <1>3 DEF Inv, Typed, Now
  <1>5. Holds(a)'
    BY <1>1, <1>2 DEF Inv, HoldInv, Holds, Now, Stopping, Recording
  <1>6. ASSUME ~excused PROVE Knows(a)' /\ Recorded'
    <2>1. \A p \in Pids : Ours(p) => p = op[a].pid /\ proc[p].cmd = op[a].cmd
      BY <1>1, <1>6 DEF Inv, MarkerInv, Knows, Recording
    <2>2. QED
      BY <1>1, <1>2, <2>1 DEF Knows, Recorded, Ours, Alive, Now, Stopping, Recording
  <1>7. QED
    BY <1>1, <1>2, <1>4, <1>5, <1>6, ActorKeeps

\* ... and then the marker names it.
LEMMA WriteMarkerKeeps ==
    ASSUME Inv, NEW a \in Actors, WriteMarker(a)
    PROVE  Inv'
  <1>1. /\ op[a].pc = "write" /\ Go(a, "wait") /\ UNCHANGED <<proc, configured, excused>>
        /\ marker' = [pid |-> op[a].pid, cmd |-> op[a].cmd]
    BY DEF WriteMarker, At
  <1>2. Now(a, "wait", op[a].cmd, op[a].seen, op[a].pid)
    BY <1>1, Goes DEF Inv, Typed, Pcs
  <1>3. op[a].pid \in Pids /\ op[a].cmd \in Commands
    BY <1>1 DEF Inv, HoldInv, Holds, Recording
  <1>4. marker' \in Markers /\ marker'.pid = op[a].pid /\ marker'.cmd = op[a].cmd
    BY <1>1, <1>3 DEF Markers
  <1>5. Typed'
    BY <1>1, <1>2, <1>3, <1>4 DEF Inv, Typed, Now
  <1>6. Holds(a)'
    BY <1>2, <1>3 DEF Holds, Now, Stopping, Recording
  <1>7. ASSUME ~excused PROVE Knows(a)' /\ Recorded'
    <2>1. \A p \in Pids : Ours(p) => p = op[a].pid /\ proc[p].cmd = op[a].cmd
      BY <1>1, <1>7 DEF Inv, MarkerInv, Knows, Recording
    <2>2. QED
      BY <1>1, <1>2, <1>4, <2>1 DEF Knows, Recorded, Ours, Alive, Now, Stopping, Recording
  <1>8. QED
    BY <1>1, <1>2, <1>5, <1>6, <1>7, ActorKeeps

\* A start that fails goes on as a stop; its child may be reaped.
LEMMA NotReadyKeeps ==
    ASSUME Inv, NEW a \in Actors, NotReady(a)
    PROVE  Inv'
  <1> DEFINE x == [op[a] EXCEPT !.pc = "read", !.undo = TRUE]
  <1>1. op[a].pc = "wait" /\ UNCHANGED <<marker, configured, excused>>
    BY DEF NotReady, At
  <1>2. /\ x \in Doings /\ x.pc = "read" /\ x.cmd = op[a].cmd /\ x.seen = op[a].seen
        /\ x.pid = op[a].pid
    BY DEF Inv, Typed, Doings, Pcs
  <1>3. op' = [op EXCEPT ![a] = x]
    BY DEF NotReady
  <1> HIDE DEF x
  <1>4. Now(a, "read", op[a].cmd, op[a].seen, op[a].pid)
    BY <1>2, <1>3, Replaced DEF Inv, Typed
  <1>5. proc' \in [Pids -> Process] /\ NoneNew
    <2>1. CASE proc' = proc
      BY <2>1 DEF Inv, Typed, NoneNew, Ours, Alive
    <2>2. CASE proc' = [proc EXCEPT ![op[a].pid] = Gone]
      <3>1. proc' = [p \in Pids |-> IF p \in {op[a].pid} \cap Pids THEN Gone ELSE proc[p]]
        BY <2>2 DEF Inv, Typed
      <3>2. QED
        BY <3>1, FreedTable DEF Inv, Typed
    <2>3. QED
      BY <2>1, <2>2 DEF NotReady
  <1>6. Typed'
    BY <1>1, <1>4, <1>5 DEF Inv, Typed, Now
  <1>7. Holds(a)'
    BY <1>1, <1>4 DEF Inv, HoldInv, Holds, Now, Stopping, Recording
  <1>8. Knows(a)'
    BY <1>4 DEF Knows, Now, Stopping, Recording
  <1>9. ASSUME ~excused PROVE Recorded'
    <2>1. \A b \in Actors : op[b].pc \notin Recording
      BY <1>1, <1>9 DEF Inv, MarkerInv, Sole, Recording
    <2>2. QED
      BY <1>1, <1>5, <1>9, <2>1 DEF Inv, MarkerInv, Recorded, NoneNew
  <1>10. QED
    BY <1>1, <1>4, <1>6, <1>7, <1>8, <1>9, ActorKeeps

\* The steps that end an operation, and the marker they remove.
LEMMA EndsKeep ==
    ASSUME Inv, NEW a \in Actors,
           \/ Blocked(a) \/ AlreadyRunning(a) \/ EndpointHealthy(a) \/ SpawnFails(a) \/ RecordFails(a)
           \/ BecomesReady(a) \/ NothingToStop(a) \/ SignalRefused(a) \/ Stopped(a) \/ TimedOut(a)
    PROVE  Inv'
  <1>1. CASE NothingToStop(a) \/ Stopped(a)
    <2>1. op[a].pc \in {"decide", "settle"} \cup Stopping /\ ~PidRunning(op[a].seen.pid)
      BY <1>1 DEF NothingToStop, Stopped, At, Stopping
    <2>2. ~excused => NoneOurs
      BY <2>1, GoneForGood
    <2>3. PICK status : Finish(a, status)
      BY <1>1 DEF NothingToStop, Stopped
    <2>4. marker' \in {marker, NoMarker} /\ UNCHANGED <<configured, excused>>
      BY <1>1 DEF NothingToStop, Stopped
    <2>5. op[a].pc # "idle" /\ op[a].pc \notin Recording
      BY <2>1 DEF Stopping, Recording
    <2>6. excused' = (excused \/ op[a].pc \in Recording)
      BY <2>4, <2>5 DEF Inv, Typed
    <2>7. marker' # marker => marker' = NoMarker /\ (~excused => NoneOurs)
      BY <2>2, <2>4
    <2>8. UNCHANGED configured
      BY <2>4
    <2>9. QED
      BY <2>3, <2>5, <2>6, <2>7, <2>8, EndingKeeps
  <1>2. CASE RecordFails(a)
    <2>1. /\ op[a].pc \in Recording /\ Finish(a, "raised") /\ excused' = TRUE
          /\ UNCHANGED <<marker, configured>>
      BY <1>2 DEF RecordFails, Recording
    <2>2. op[a].pc # "idle"
      BY <2>1 DEF Recording
    <2>3. QED
      BY <2>1, <2>2, EndingKeeps
  <1>3. CASE \/ Blocked(a) \/ AlreadyRunning(a) \/ EndpointHealthy(a) \/ SpawnFails(a)
             \/ BecomesReady(a) \/ SignalRefused(a) \/ TimedOut(a)
    <2>1. op[a].pc # "idle" /\ op[a].pc \notin Recording
      BY <1>3 DEF Blocked, AlreadyRunning, EndpointHealthy, SpawnFails, BecomesReady, SignalRefused,
                  TimedOut, Signalled, At, Recording
    <2>2. PICK status : Finish(a, status)
      BY <1>3 DEF Blocked, AlreadyRunning, EndpointHealthy, SpawnFails, BecomesReady, SignalRefused,
                  TimedOut
    <2>3. UNCHANGED <<marker, configured, excused>>
      BY <1>3 DEF Blocked, AlreadyRunning, EndpointHealthy, SpawnFails, BecomesReady, SignalRefused,
                  TimedOut
    <2>4. excused' = (excused \/ op[a].pc \in Recording)
      BY <2>1, <2>3 DEF Inv, Typed
    <2>5. QED
      BY <2>1, <2>2, <2>3, <2>4, EndingKeeps
  <1>4. QED
    BY <1>1, <1>2, <1>3

\* The steps that only go on.
LEMMA GoesKeep ==
    ASSUME Inv, NEW a \in Actors,
           \/ EndpointNotReady(a) \/ BeginStop(a) \/ Terminate(a) \/ ShutdownTimeout(a) \/ Kill(a)
    PROVE  Inv'
  <1>1. UNCHANGED <<proc, marker, configured, excused>>
    BY DEF EndpointNotReady, BeginStop, Terminate, ShutdownTimeout, Kill
  <1>2. CASE EndpointNotReady(a)
    <2>1. op[a].pc = "health" /\ Go(a, "spawn") /\ "spawn" \in Pcs \ Recording
      BY <1>2 DEF EndpointNotReady, At, Pcs, Recording
    <2>2. QED
      BY <1>1, <2>1, GoingKeeps DEF Recording, Stopping
  <1>3. CASE BeginStop(a)
    <2>1. op[a].pc = "settle" /\ Go(a, "terminate") /\ "terminate" \in Pcs \ Recording
      BY <1>3 DEF BeginStop, At, Pcs, Recording, Stopping
    <2>2. op[a].seen.pid \in Pids /\ op[a].seen # NoMarker
      BY <1>3, NonesAssumption DEF BeginStop, PidRunning, NoMarker
    <2>3. op[a].seen.cmd = op[a].cmd
      BY <1>3, <2>2 DEF BeginStop, Mismatch
    <2>4. QED
      BY <1>1, <2>1, <2>2, <2>3, GoingKeeps DEF Recording, Stopping
  <1>4. CASE Terminate(a) \/ ShutdownTimeout(a) \/ Kill(a)
    <2>1. PICK pc \in Stopping : Go(a, pc)
      BY <1>4 DEF Terminate, ShutdownTimeout, Kill, Stopping
    <2>2. op[a].pc \in Stopping
      BY <1>4 DEF Terminate, ShutdownTimeout, Kill, Stopping, At
    <2>3. op[a].seen.pid \in Pids /\ op[a].seen.cmd = op[a].cmd
      BY <2>2 DEF Inv, HoldInv, Holds
    <2>4. pc \in Pcs \ Recording /\ op[a].pc \notin {"idle"} \cup Recording
      BY <2>1, <2>2 DEF Pcs, Stopping, Recording
    <2>5. pc \notin {"decide", "settle", "wait", "health", "spawn"}
      BY <2>1 DEF Stopping
    <2>6. QED
      BY <1>1, <2>1, <2>2, <2>3, <2>4, <2>5, GoingKeeps
  <1>5. QED
    BY <1>2, <1>3, <1>4
-----------------------------------------------------------------------------
\* An operation that begins beside another one excuses what follows.
LEMMA RequestKeeps ==
    ASSUME Inv, NEW a \in Actors, Request(a)
    PROVE  Inv'
  <1>1. PICK do \in {"start", "stop"} :
          op' = [op EXCEPT ![a] = [Idle EXCEPT !.do = do, !.pc = "read", !.cmd = configured]]
    BY DEF Request
  <1> DEFINE x == [Idle EXCEPT !.do = do, !.pc = "read", !.cmd = configured]
  <1>2. /\ x \in Doings /\ x.pc = "read" /\ x.cmd = configured /\ x.seen = NoMarker
        /\ x.pid = NoPid
    BY IdleDoing DEF Inv, Typed, Doings, Dos, Pcs
  <1> HIDE DEF x
  <1>3. Now(a, "read", configured, NoMarker, NoPid)
    BY <1>1, <1>2, Replaced DEF Inv, Typed, x
  <1>4. UNCHANGED <<proc, marker, configured>> /\ excused' = (excused \/ Busy # {})
    BY DEF Request
  <1>5. Typed'
    BY <1>3, <1>4 DEF Inv, Typed, Now
  <1>6. HoldInv'
    BY <1>3, <1>4 DEF Inv, Typed, HoldInv, Holds, Now, Stopping, Recording
  <1>7. ASSUME ~excused' PROVE Sole' /\ Recorded' /\ \A b \in Actors : Knows(b)'
    <2>1. ~excused /\ \A b \in Actors : op[b].pc = "idle"
      BY <1>4, <1>7 DEF Busy, At
    <2>2. \A b \in Actors : op'[b].pc \in {"idle", "read"} /\ (op'[b].pc = "read" => b = a)
      BY <1>3, <2>1 DEF Now
    <2>3. Sole' /\ \A b \in Actors : Knows(b)'
      BY <2>2 DEF Sole, Knows, Stopping, Recording
    <2>4. Recorded'
      BY <1>4, <2>1 DEF Inv, MarkerInv, Recorded, Recording, Ours, Alive
    <2>5. QED
      BY <2>3, <2>4
  <1>8. QED
    BY <1>5, <1>6, <1>7 DEF Inv, MarkerInv

\* The end of a process gives its runtimes away, and excuses what it had not recorded.
LEMMA CrashKeeps ==
    ASSUME Inv, NEW a \in Actors, Crash(a)
    PROVE  Inv'
  <1>1. Now(a, "idle", NoCommand, NoMarker, NoPid)
    BY IdleDoing, Replaced DEF Inv, Typed, Crash
  <1>2. proc' \in [Pids -> Process] /\ NoneNew
    BY ExitedTable DEF Inv, Typed, Crash
  <1>3. UNCHANGED <<marker, configured>> /\ excused' = (excused \/ op[a].pc \in Recording)
    BY DEF Crash, Recording
  <1>4. Typed'
    BY <1>1, <1>2, <1>3 DEF Inv, Typed, Now
  <1>5. HoldInv'
    BY <1>1 DEF Inv, HoldInv, Holds, Now, Stopping, Recording
  <1>6. ASSUME ~excused' PROVE Sole' /\ Recorded' /\ \A b \in Actors : Knows(b)'
    <2>1. ~excused /\ op[a].pc \notin Recording
      BY <1>3, <1>6
    <2>2. Sole'
      BY <1>1, <2>1 DEF Inv, MarkerInv, Sole, Now
    <2>3. Recorded'
      BY <1>1, <1>2, <1>3, <2>1 DEF Inv, MarkerInv, Recorded, NoneNew, Now
    <2>4. ASSUME NEW b \in Actors PROVE Knows(b)'
      <3>1. CASE b = a
        BY <1>1, <3>1 DEF Knows, Now, Stopping, Recording
      <3>2. CASE b # a
        <4>1. op'[b] = op[b] /\ Knows(b)
          BY <1>1, <2>1, <3>2 DEF Inv, MarkerInv, Now
        <4>2. QED
          BY <1>2, <1>3, <4>1 DEF Knows, NoneOurs, NoneNew
      <3>3. QED
        BY <3>1, <3>2
    <2>5. QED
      BY <2>2, <2>3, <2>4
  <1>7. QED
    BY <1>4, <1>5, <1>6 DEF Inv, MarkerInv

\* Nothing outside an operation brings a runtime of ours to life.
LEMMA OutsideKeeps ==
    ASSUME Inv, UNCHANGED <<op, marker, excused>>, proc' \in [Pids -> Process], NoneNew,
           configured' \in Commands
    PROVE  Inv'
  <1>1. Typed'
    BY DEF Inv, Typed
  <1>2. HoldInv'
    BY DEF Inv, HoldInv, Holds
  <1>3. MarkerInv'
    <2>1. Sole => Sole'
      BY DEF Sole
    <2>2. Recorded => Recorded'
      BY DEF Recorded, NoneNew
    <2>3. \A a \in Actors : Knows(a) => Knows(a)'
      BY DEF Knows, NoneOurs, NoneNew
    <2>4. QED
      BY <2>1, <2>2, <2>3 DEF Inv, MarkerInv
  <1>4. QED
    BY <1>1, <1>2, <1>3 DEF Inv

\* What else happens on the machine.
LEMMA EnvironmentKeeps ==
    ASSUME Inv, Environment
    PROVE  Inv'
  <1>1. UNCHANGED <<op, marker, excused>> /\ configured' \in Commands
    BY DEF Environment, Serve, Exit, OutsideStarts, OtherPopen, EditCommand, Inv, Typed
  <1>2. proc \in [Pids -> Process]
    BY DEF Inv, Typed
  <1>3. ASSUME NEW p \in Pids, NEW x \in Process, proc' = [proc EXCEPT ![p] = x],
               x.phase \in {"starting", "serving"} /\ x.ours => Ours(p) /\ x.cmd = proc[p].cmd
        PROVE  proc' \in [Pids -> Process] /\ NoneNew
    BY <1>2, <1>3 DEF NoneNew, Ours, Alive
  <1>4. ASSUME NEW p \in Pids, Serve(p) PROVE proc' \in [Pids -> Process] /\ NoneNew
    <2> DEFINE x == [proc[p] EXCEPT !.phase = "serving"]
    <2>1. proc' = [proc EXCEPT ![p] = x] /\ proc[p].phase = "starting"
      BY <1>4 DEF Serve
    <2>2. x \in Process /\ x.ours = proc[p].ours /\ x.cmd = proc[p].cmd
      BY <1>2 DEF Process, Phases
    <2> HIDE DEF x
    <2>3. QED
      BY <1>3, <2>1, <2>2 DEF Ours, Alive
  <1>5. ASSUME NEW p \in Pids, Exit(p) PROVE proc' \in [Pids -> Process] /\ NoneNew
    <2> DEFINE x == IF proc[p].parent = InitD THEN Gone
                    ELSE [Gone EXCEPT !.phase = "zombie", !.parent = proc[p].parent]
    <2>1. proc' = [proc EXCEPT ![p] = x]
      BY <1>5 DEF Exit
    <2>2. x \in Process /\ x.phase \in {"free", "zombie"}
      BY <1>2 DEF Gone, Process, Phases
    <2> HIDE DEF x
    <2>3. QED
      BY <1>3, <2>1, <2>2
  <1>6. ASSUME NEW p \in Pids, OutsideStarts(p) PROVE proc' \in [Pids -> Process] /\ NoneNew
    <2> DEFINE x == [Gone EXCEPT !.phase = "starting"]
    <2>1. proc' = [proc EXCEPT ![p] = x]
      BY <1>6 DEF OutsideStarts
    <2>2. x \in Process /\ ~x.ours
      BY DEF Gone, Process, Phases
    <2> HIDE DEF x
    <2>3. QED
      BY <1>3, <2>1, <2>2
  <1>7. ASSUME OtherPopen PROVE proc' \in [Pids -> Process] /\ NoneNew
    <2>1. proc' = [p \in Pids |-> IF p \in {q \in Pids : proc[q].phase = "zombie" /\ proc[q].parent = Server}
                                  THEN Gone ELSE proc[p]]
      BY <1>7 DEF OtherPopen, Cleanup
    <2>2. QED
      BY <1>2, <2>1, FreedTable
  <1>8. ASSUME EditCommand PROVE proc' \in [Pids -> Process] /\ NoneNew
    BY <1>2, <1>8 DEF EditCommand, NoneNew, Ours, Alive
  <1>9. proc' \in [Pids -> Process] /\ NoneNew
    BY <1>4, <1>5, <1>6, <1>7, <1>8 DEF Environment
  <1>10. QED
    BY <1>1, <1>9, OutsideKeeps
-----------------------------------------------------------------------------
\* The invariant holds at first,
LEMMA InitInv == Init => Inv
  <1> SUFFICES ASSUME Init PROVE Inv
    OBVIOUS
  <1>1. \A p \in Pids : proc[p].phase = "free"
    BY FreeProcess DEF Init
  <1>2. \A a \in Actors : op[a] = Idle /\ op[a].pc = "idle"
    BY IdleDoing DEF Init
  <1>3. Typed
    <2>1. NoMarker \in Markers /\ NoMarker.pid = NoPid
      BY DEF NoMarker, Markers
    <2>2. QED
      BY <2>1, FreeProcess, IdleDoing DEF Init, Typed
  <1>4. HoldInv
    BY <1>2 DEF HoldInv, Holds, Stopping, Recording
  <1>5. MarkerInv
    BY <1>1, <1>2 DEF MarkerInv, Sole, Recorded, Knows, Ours, Alive, Stopping, Recording
  <1>6. QED
    BY <1>3, <1>4, <1>5 DEF Inv

\* and every step keeps it.
LEMMA NextInv == Inv /\ [Next]_vars => Inv'
  <1> SUFFICES ASSUME Inv, [Next]_vars PROVE Inv'
    OBVIOUS
  <1>1. ASSUME NEW a \in Actors, Step(a) PROVE Inv'
    BY <1>1, ReadKeeps, EndsKeep, GoesKeep, StaleMarkerKeeps, SpawnKeeps, OpenMarkerKeeps,
       WriteMarkerKeeps, NotReadyKeeps DEF Step, StartStep, StopStep
  <1>2. ASSUME NEW a \in Actors, Request(a) \/ Crash(a) PROVE Inv'
    BY <1>2, RequestKeeps, CrashKeeps
  <1>3. CASE UNCHANGED <<proc, marker, configured, op, excused>>
    <2>1. proc' \in [Pids -> Process] /\ NoneNew /\ configured' \in Commands
      BY <1>3 DEF Inv, Typed, NoneNew, Ours, Alive
    <2>2. QED
      BY <1>3, <2>1, OutsideKeeps
  <1>4. CASE Environment
    BY <1>4, EnvironmentKeeps
  <1>5. QED
    BY <1>1, <1>2, <1>3, <1>4 DEF Next, Refuse, vars

\* It is one, then.
LEMMA InvHolds == Spec => []Inv
  BY InitInv, NextInv, PTL DEF Spec

\* The types, and that who signals has read a PID and who records has a child.
THEOREM AdapterWellTyped == Spec => []TypeOK
  <1>1. Inv => TypeOK
    BY DEF Inv, Typed, HoldInv, Holds, TypeOK, Doings, Dos, Seens, Markers, Process, Phases, Stopping,
           Recording
  <1>2. QED
    BY <1>1, InvHolds, PTL

\* As long as operations do not overlap and none is cut off while it records, every
\* runtime that is alive is the one the PID file names.
THEOREM NoRuntimeLost == Spec => []NoLostRuntime
  <1>1. Inv => NoLostRuntime
    <2> SUFFICES ASSUME Inv, ~excused, NEW p \in Runtimes
                 PROVE  p = marker.pid \/ p \in BeingRecorded
      BY DEF NoLostRuntime
    <2>1. p \in Pids /\ Ours(p)
      BY DEF Runtimes, Ours
    <2>2. CASE \E a \in Actors : op[a].pc \in Recording
      BY <2>1, <2>2 DEF Inv, MarkerInv, Knows, BeingRecorded, Recording
    <2>3. CASE \A a \in Actors : op[a].pc \notin Recording
      BY <2>1, <2>3 DEF Inv, MarkerInv, Recorded
    <2>4. QED
      BY <2>2, <2>3
  <1>2. QED
    BY <1>1, InvHolds, PTL

\* A runtime is signalled by an operation with its own command only.
THEOREM OnlyMatchingSignalled == Spec => []OnlyMatching
  <1>1. Inv => OnlyMatching
    <2> SUFFICES ASSUME Inv, ~excused, NEW a \in Actors, Signalled(a), op[a].seen.pid \in Runtimes
                 PROVE  proc[op[a].seen.pid].cmd = op[a].cmd
      BY DEF OnlyMatching
    <2>1. op[a].pc \in Stopping
      BY DEF Signalled, Stopping
    <2>2. \A b \in Actors : op[b].pc \notin Recording
      BY <2>1 DEF Inv, MarkerInv, Sole, Stopping, Recording
    <2>3. op[a].seen.pid \in Pids /\ op[a].seen.cmd = op[a].cmd /\ op[a].seen.pid # NoPid
      BY <2>1, NonesAssumption DEF Inv, HoldInv, Holds
    <2>4. op[a].seen.pid = marker.pid /\ op[a].seen.cmd = marker.cmd
      BY <2>1, <2>3 DEF Inv, MarkerInv, Knows
    <2>5. Ours(op[a].seen.pid)
      BY DEF Runtimes, Ours
    <2>6. QED
      BY <2>2, <2>3, <2>4, <2>5 DEF Inv, MarkerInv, Recorded
  <1>2. QED
    BY <1>1, InvHolds, PTL

\* What ends an operation otherwise is not called a success.
LEMMA OnlyStopsSucceed ==
    ASSUME NEW a \in Actors, NEW status \in {"blocked", "already_running", "unsupported", "error",
                                            "raised", "started"},
           answer' \in Reported(a, status)
    PROVE  answer' \notin Success
  BY DEF Reported, Success

\* A stop (or an unload) that reports success leaves no runtime behind.
THEOREM StoppedIsGone == Spec => StoppedMeansGone
  <1>1. ASSUME Inv, ~excused, NEW a \in Actors, Step(a), answer' \in Success
        PROVE  Runtimes' = {}
    <2>1. CASE NothingToStop(a) \/ Stopped(a)
      <3>1. op[a].pc \in {"decide", "settle"} \cup Stopping /\ ~PidRunning(op[a].seen.pid)
        BY <2>1 DEF NothingToStop, Stopped, At, Stopping
      <3>2. NoneOurs
        BY <1>1, <3>1, GoneForGood
      <3>3. PICK status : Finish(a, status)
        BY <2>1 DEF NothingToStop, Stopped
      <3>4. NoneNew
        BY <1>1, <3>3, Finishes DEF Inv
      <3>5. QED
        BY <3>2, <3>4 DEF NoneOurs, NoneNew, Ours, Runtimes
    <2>2. CASE \/ Blocked(a) \/ AlreadyRunning(a) \/ EndpointHealthy(a) \/ SpawnFails(a)
               \/ RecordFails(a) \/ BecomesReady(a) \/ SignalRefused(a) \/ TimedOut(a)
      <3>1. PICK status \in {"blocked", "already_running", "unsupported", "error", "raised",
                             "started"} : Finish(a, status)
        BY <2>2 DEF Blocked, AlreadyRunning, EndpointHealthy, SpawnFails, RecordFails,
                    BecomesReady, SignalRefused, TimedOut
      <3>2. QED
        BY <1>1, <3>1, OnlyStopsSucceed DEF Finish
    <2>3. CASE \/ Read(a) \/ StaleMarker(a) \/ EndpointNotReady(a) \/ Spawn(a) \/ OpenMarker(a)
               \/ WriteMarker(a) \/ NotReady(a) \/ BeginStop(a) \/ Terminate(a)
               \/ ShutdownTimeout(a) \/ Kill(a)
      <3>1. answer' = "none"
        BY <2>3 DEF Read, StaleMarker, EndpointNotReady, Spawn, OpenMarker, WriteMarker, NotReady,
                    BeginStop, Terminate, ShutdownTimeout, Kill
      <3>2. QED
        BY <1>1, <3>1 DEF Success
    <2>4. QED
      BY <1>1, <2>1, <2>2, <2>3 DEF Step, StartStep, StopStep
  <1>2. ASSUME NEW a \in Actors, Request(a) \/ Refuse(a) \/ Crash(a) PROVE answer' \notin Success
    BY <1>2 DEF Request, Refuse, Crash, Success
  <1>3. ASSUME Environment PROVE answer' \notin Success
    BY <1>3 DEF Environment, Serve, Exit, OutsideStarts, OtherPopen, EditCommand, Success
  <1>4. Inv /\ [Next]_vars => [\A a \in Actors :
         ~At(a, "idle") /\ ~excused /\ answer' \in Success => Runtimes' = {}]_vars
    BY <1>1, <1>2, <1>3 DEF Next
  <1>5. QED
    BY <1>4, InvHolds, PTL DEF Spec, StoppedMeansGone
=============================================================================
