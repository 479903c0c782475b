--------------------------- MODULE RuntimeAdapter ---------------------------
(***************************************************************************)
(* Starting and stopping one backend's runtime from the admin actions      *)
(* (ManagedRuntimeAdapter in runtime_adapters.py, reached through          *)
(* run_admin_action).  What is known of the runtime is in a PID file, the  *)
(* marker, that every operation reads anew.  The settings server runs its  *)
(* operations one after the other and lives on: its children stay zombies  *)
(* until it waits for them.  A command line process runs one operation and *)
(* exits.  They share the marker, the process table and nothing else.      *)
(*                                                                         *)
(* A step of an operation ends where another process can come in: after    *)
(* the marker is read, after each signal, between the two halves of        *)
(* write_text.  Timeouts may fire at any time.                             *)
(***************************************************************************)
EXTENDS Naturals, FiniteSets

CONSTANTS
    Server,         \* the settings server
    Clis,           \* command line processes
    Pids,           \* the process numbers: a number that is free is used again
    Commands,       \* what runtime.command may be set to
    NoCommand,      \* the command of a process that is not a runtime of ours
    NoPid, InitD    \* no process; the parent of orphans

Actors == Clis \cup {Server}

ASSUME ActorsAssumption == Server \notin Clis /\ InitD \notin Actors
ASSUME NonesAssumption == NoCommand \notin Commands /\ NoPid \notin Pids

VARIABLES
    proc,       \* the process table
    marker,     \* the PID file
    configured, \* runtime.command in the file the next operation loads
    op,         \* what each actor is doing
    answer,     \* the status of the operation that has just ended, else "none"
    excused     \* an operation began while another one was running, or was cut
                \* off between Popen and the end of _write_pid

vars == <<proc, marker, configured, op, answer, excused>>

Gone == [phase |-> "free", ours |-> FALSE, cmd |-> NoCommand, parent |-> InitD]
NoMarker == [pid |-> NoPid, cmd |-> NoCommand]
\* What write_text leaves after truncating: _read_pid_marker reads it as no marker.
Torn == [pid |-> NoPid, cmd |-> "torn"]

Alive(p) == p \in Pids /\ proc[p].phase \in {"starting", "serving"}

\* _pid_running: signal 0 reaches a zombie too.
PidRunning(p) == p \in Pids /\ proc[p].phase # "free"

ReadPidMarker == IF marker.pid = NoPid THEN NoMarker ELSE marker

\* _pid_marker_matches_backend is false.
Mismatch(a) == op[a].seen # NoMarker /\ op[a].seen.cmd # op[a].cmd

\* Some runtime answers at the endpoint.
Healthy == \E p \in Pids : proc[p].phase = "serving"

\* What an operation may call its outcome: load_model and unload_model are
\* start_server and stop_server, and rename what went well.  A start that ended as
\* stop_server does reports the failed start all the same.
Reported(a, status) ==
    IF op[a].undo THEN {"error"}
    ELSE CASE status = "started" -> {"started", "loaded"}
           [] status = "already_running" -> {"already_running", "already_loaded"}
           [] status = "stopped" -> {"stopped", "unloaded"}
           [] status = "not_running" -> {"not_running", "not_loaded"}
           [] OTHER -> {status}

Idle == [do |-> "none", pc |-> "idle", cmd |-> NoCommand, seen |-> NoMarker,
         pid |-> NoPid, undo |-> FALSE]

At(a, pc) == op[a].pc = pc
Go(a, pc) == op' = [op EXCEPT ![a].pc = pc]

\* The end of a, when it is a command line process: init adopts its children and
\* reaps the dead ones.
Exited(table, a) ==
    [p \in Pids |-> IF table[p].parent # a THEN table[p]
                    ELSE IF table[p].phase = "zombie" THEN Gone
                    ELSE [table[p] EXCEPT !.parent = InitD]]

\* Popen.__del__ waits for the child an operation started; what the settings
\* server started before stays as it is.
Finish(a, status) ==
    LET p == op[a].pid IN
    /\ op' = [op EXCEPT ![a] = Idle]
    /\ answer' \in Reported(a, status)
    /\ proc' = IF a \in Clis THEN Exited(proc, a)
               ELSE IF p # NoPid /\ proc[p].phase = "zombie" /\ proc[p].parent = a
               THEN [proc EXCEPT ![p] = Gone] ELSE proc
-----------------------------------------------------------------------------
(* Operations.                                                             *)

Init ==
    /\ proc = [p \in Pids |-> Gone]
    /\ marker = NoMarker
    /\ configured \in Commands
    /\ op = [a \in Actors |-> Idle]
    /\ answer = "none"
    /\ excused = FALSE

Busy == {a \in Actors : ~At(a, "idle")}

\* The action is confirmed, loads the configuration and finds the command.
Request(a) ==
    /\ At(a, "idle")
    /\ \E do \in {"start", "stop"} :
         op' = [op EXCEPT ![a] = [Idle EXCEPT !.do = do, !.pc = "read", !.cmd = configured]]
    /\ answer' = "none"
    /\ excused' = (excused \/ Busy # {})
    /\ UNCHANGED <<proc, marker, configured>>

\* The command is not on PATH, or the request names another model.
Refuse(a) ==
    /\ At(a, "idle")
    /\ answer' \in {"unsupported", "invalid_request"}
    /\ UNCHANGED <<proc, marker, configured, op, excused>>

Read(a) ==
    /\ At(a, "read")
    /\ op' = [op EXCEPT ![a].seen = ReadPidMarker, ![a].do = "none",
                        ![a].pc = IF op[a].do = "start" /\ ~op[a].undo THEN "decide" ELSE "settle"]
    /\ answer' = "none"
    /\ UNCHANGED <<proc, marker, configured, excused>>

\* start_server up to the health check.
Blocked(a) ==
    /\ op[a].pc \in {"decide", "settle"} /\ Mismatch(a) /\ PidRunning(op[a].seen.pid)
    /\ Finish(a, "blocked")
    /\ UNCHANGED <<marker, configured, excused>>

AlreadyRunning(a) ==
    /\ At(a, "decide") /\ ~Mismatch(a) /\ PidRunning(op[a].seen.pid)
    /\ Finish(a, "already_running")
    /\ UNCHANGED <<marker, configured, excused>>

\* Faulty: a marker of another command is replaced, whatever it names.
StaleMarker_Replaced(a) ==
    /\ At(a, "decide") /\ (Mismatch(a) \/ ~PidRunning(op[a].seen.pid))
    /\ marker' = IF Mismatch(a) THEN NoMarker ELSE marker
    /\ op' = [op EXCEPT ![a].pc = "health", ![a].seen = NoMarker]
    /\ answer' = "none"
    /\ UNCHANGED <<proc, configured, excused>>

StaleMarker(a) ==
    /\ At(a, "decide") /\ ~PidRunning(op[a].seen.pid)
    /\ marker' = IF Mismatch(a) THEN NoMarker ELSE marker
    /\ op' = [op EXCEPT ![a].pc = "health", ![a].seen = NoMarker]
    /\ answer' = "none"
    /\ UNCHANGED <<proc, configured, excused>>

EndpointHealthy(a) ==
    /\ At(a, "health") /\ Healthy
    /\ Finish(a, "already_running")
    /\ UNCHANGED <<marker, configured, excused>>

\* The endpoint is closed, slower than 0.2 s, or lists another model.
EndpointNotReady(a) ==
    /\ At(a, "health")
    /\ Go(a, "spawn")
    /\ answer' = "none"
    /\ UNCHANGED <<proc, marker, configured, excused>>

\* subprocess._cleanup, at the start of every Popen.
Cleanup(a) ==
    [p \in Pids |-> IF proc[p].phase = "zombie" /\ proc[p].parent = a THEN Gone ELSE proc[p]]

Spawn(a) ==
    /\ At(a, "spawn")
    /\ \E p \in Pids :
         /\ Cleanup(a)[p] = Gone
         /\ proc' = [Cleanup(a) EXCEPT ![p] = [phase |-> "starting", ours |-> TRUE,
                                               cmd |-> op[a].cmd, parent |-> a]]
         /\ op' = [op EXCEPT ![a].pc = "record", ![a].pid = p]
    /\ answer' = "none"
    /\ UNCHANGED <<marker, configured, excused>>

SpawnFails(a) ==
    /\ At(a, "spawn")
    /\ \E status \in {"unsupported", "error"} : Finish(a, status)
    /\ UNCHANGED <<marker, configured, excused>>

\* _write_pid: write_text opens the file, which truncates it, ...
OpenMarker(a) ==
    /\ At(a, "record")
    /\ marker' = Torn
    /\ Go(a, "write")
    /\ answer' = "none"
    /\ UNCHANGED <<proc, configured, excused>>

\* ... and writes.
WriteMarker(a) ==
    /\ At(a, "write")
    /\ marker' = [pid |-> op[a].pid, cmd |-> op[a].cmd]
    /\ Go(a, "wait")
    /\ answer' = "none"
    /\ UNCHANGED <<proc, configured, excused>>

\* An OSError of either leaves start_server: the child runs on.
RecordFails(a) ==
    /\ op[a].pc \in {"record", "write"}
    /\ Finish(a, "raised")
    /\ excused' = TRUE
    /\ UNCHANGED <<marker, configured>>

\* _wait_until_ready.  Whoever answers makes the start a success.
BecomesReady(a) ==
    /\ At(a, "wait") /\ Alive(op[a].pid) /\ Healthy
    /\ Finish(a, "started")
    /\ UNCHANGED <<marker, configured, excused>>

\* poll() finds the child dead, and waits for it, or the time is up: stop_server.
NotReady(a) ==
    /\ At(a, "wait")
    /\ op' = [op EXCEPT ![a].pc = "read", ![a].undo = TRUE]
    /\ proc' = IF Alive(op[a].pid) THEN proc ELSE [proc EXCEPT ![op[a].pid] = Gone]
    /\ answer' = "none"
    /\ UNCHANGED <<marker, configured, excused>>

\* stop_server: nothing is recorded, or what is recorded is gone.
NothingToStop(a) ==
    /\ At(a, "settle") /\ ~PidRunning(op[a].seen.pid)
    /\ marker' = IF op[a].seen = NoMarker THEN marker ELSE NoMarker
    /\ Finish(a, "not_running")
    /\ UNCHANGED <<configured, excused>>

\* Faulty: whatever is recorded is stopped.
BeginStop_Any(a) ==
    /\ At(a, "settle") /\ PidRunning(op[a].seen.pid)
    /\ Go(a, "terminate")
    /\ answer' = "none"
    /\ UNCHANGED <<proc, marker, configured, excused>>

\* Faulty: no marker is not told from one whose process is gone.
BeginStop_Unrecorded(a) ==
    /\ At(a, "settle") /\ ~Mismatch(a)
    /\ Go(a, "terminate")
    /\ answer' = "none"
    /\ UNCHANGED <<proc, marker, configured, excused>>

BeginStop(a) ==
    /\ At(a, "settle") /\ ~Mismatch(a) /\ PidRunning(op[a].seen.pid)
    /\ Go(a, "terminate")
    /\ answer' = "none"
    /\ UNCHANGED <<proc, marker, configured, excused>>

\* _terminate_pid.  A signal only has an effect through Exit, which needs none.
Signalled(a) == op[a].pc \in {"terminate", "kill"} /\ PidRunning(op[a].seen.pid)

Terminate(a) ==
    /\ At(a, "terminate") /\ Signalled(a)
    /\ Go(a, "stopping")
    /\ answer' = "none"
    /\ UNCHANGED <<proc, marker, configured, excused>>

SignalRefused(a) ==
    /\ Signalled(a) /\ ~proc[op[a].seen.pid].ours
    /\ Finish(a, "error")
    /\ UNCHANGED <<marker, configured, excused>>

\* Faulty: the wait after SIGKILL is over when the signal is sent.
Stopped_Kill(a) ==
    /\ op[a].pc \in {"terminate", "stopping", "kill", "killed"}
    /\ ~PidRunning(op[a].seen.pid) \/ At(a, "killed")
    /\ marker' = NoMarker
    /\ Finish(a, "stopped")
    /\ UNCHANGED <<configured, excused>>

\* The process is gone, as a signal or a poll tells.
Stopped(a) ==
    /\ op[a].pc \in {"terminate", "stopping", "kill", "killed"}
    /\ ~PidRunning(op[a].seen.pid)
    /\ marker' = NoMarker
    /\ Finish(a, "stopped")
    /\ UNCHANGED <<configured, excused>>

\* Faulty: a process that does not end is waited for.
ShutdownTimeout_None(a) == FALSE /\ UNCHANGED vars

ShutdownTimeout(a) ==
    /\ At(a, "stopping")
    /\ Go(a, "kill")
    /\ answer' = "none"
    /\ UNCHANGED <<proc, marker, configured, excused>>

Kill(a) ==
    /\ At(a, "kill") /\ Signalled(a)
    /\ Go(a, "killed")
    /\ answer' = "none"
    /\ UNCHANGED <<proc, marker, configured, excused>>

\* The one look after SIGKILL still finds it.
TimedOut(a) ==
    /\ At(a, "killed") /\ PidRunning(op[a].seen.pid)
    /\ Finish(a, "error")
    /\ UNCHANGED <<marker, configured, excused>>

StartStep(a) ==
    \/ AlreadyRunning(a) \/ StaleMarker(a) \/ EndpointHealthy(a) \/ EndpointNotReady(a)
    \/ Spawn(a) \/ SpawnFails(a) \/ OpenMarker(a) \/ WriteMarker(a) \/ RecordFails(a)
    \/ BecomesReady(a) \/ NotReady(a)

StopStep(a) ==
    \/ NothingToStop(a) \/ BeginStop(a) \/ Terminate(a) \/ SignalRefused(a)
    \/ Stopped(a) \/ ShutdownTimeout(a) \/ Kill(a) \/ TimedOut(a)

Step(a) == Read(a) \/ Blocked(a) \/ StartStep(a) \/ StopStep(a)
-----------------------------------------------------------------------------
(* Processes and the rest of the machine.                                  *)

\* Only one can listen on the port; the other ones exit.
Serve(p) ==
    /\ proc[p].phase = "starting" /\ ~Healthy
    /\ proc' = [proc EXCEPT ![p].phase = "serving"]
    /\ answer' = "none"
    /\ UNCHANGED <<marker, configured, op, excused>>

\* By a signal, by itself or for want of the port.
Exit(p) ==
    /\ Alive(p)
    /\ proc' = [proc EXCEPT ![p] = IF @.parent = InitD THEN Gone
                                     ELSE [Gone EXCEPT !.phase = "zombie", !.parent = proc[p].parent]]
    /\ answer' = "none"
    /\ UNCHANGED <<marker, configured, op, excused>>

\* A process of somebody else takes a free number: the proxy's own runtime, or
\* anything.
OutsideStarts(p) ==
    /\ proc[p] = Gone
    /\ proc' = [proc EXCEPT ![p].phase = "starting"]
    /\ answer' = "none"
    /\ UNCHANGED <<marker, configured, op, excused>>

\* Another Popen of the settings server (ollama, a download) waits for its zombies.
OtherPopen ==
    /\ At(Server, "idle")
    /\ proc' = Cleanup(Server)
    /\ answer' = "none"
    /\ UNCHANGED <<marker, configured, op, excused>>

\* Somebody saves another runtime.command.
EditCommand ==
    /\ configured' \in Commands \ {configured}
    /\ answer' = "none"
    /\ UNCHANGED <<proc, marker, op, excused>>

\* The process of a ends in the middle; a settings server is started again.
Crash(a) ==
    /\ a = Server \/ ~At(a, "idle")
    /\ proc' = Exited(proc, a)
    /\ excused' = (excused \/ op[a].pc \in {"record", "write"})
    /\ op' = [op EXCEPT ![a] = Idle]
    /\ answer' = "none"
    /\ UNCHANGED <<marker, configured>>

Environment ==
    \/ \E p \in Pids : Serve(p) \/ Exit(p) \/ OutsideStarts(p)
    \/ OtherPopen \/ EditCommand

Next == (\E a \in Actors : Request(a) \/ Refuse(a) \/ Step(a) \/ Crash(a)) \/ Environment

Spec == Init /\ [][Next]_vars
-----------------------------------------------------------------------------
(* Properties.                                                             *)

TypeOK ==
    /\ proc \in [Pids -> [phase : {"free", "starting", "serving", "zombie"}, ours : BOOLEAN,
                          cmd : Commands \cup {NoCommand}, parent : Actors \cup {InitD}]]
    /\ marker \in [pid : Pids \cup {NoPid}, cmd : Commands \cup {NoCommand, "torn"}]
    /\ configured \in Commands
    /\ \A a \in Actors :
        /\ op[a].do \in {"start", "stop", "none"}
        /\ op[a].cmd \in Commands \cup {NoCommand} /\ op[a].pid \in Pids \cup {NoPid}
        /\ op[a].seen \in [pid : Pids \cup {NoPid}, cmd : Commands \cup {NoCommand}]
        /\ (op[a].pc \in {"terminate", "stopping", "kill", "killed"} => op[a].seen.pid \in Pids)
        /\ (op[a].pc \in {"record", "write", "wait"} => op[a].pid \in Pids)
    /\ excused \in BOOLEAN

Runtimes == {p \in Pids : Alive(p) /\ proc[p].ours}
BeingRecorded == {op[a].pid : a \in {b \in Actors : op[b].pc \in {"record", "write"}}}

\* As long as operations do not overlap and none is cut off before the PID is
\* written, every runtime started from here that is alive is the one the PID
\* file names, so there is one at most and stop_server can find it: whatever
\* died in between, whichever numbers were used again, however often the
\* command was edited and however the starts and stops failed.
NoLostRuntime ==
    ~excused => \A p \in Runtimes : p = marker.pid \/ p \in BeingRecorded

Success == {"stopped", "not_running", "unloaded", "not_loaded"}

\* A stop (or an unload) that reports success leaves no runtime behind.
StoppedMeansGone ==
    [][\A a \in Actors :
         ~At(a, "idle") /\ ~excused /\ answer' \in Success => Runtimes' = {}]_vars

\* A runtime is signalled by an operation that was configured with its command
\* only, in every interleaving with edits, crashes and other operations: a process
\* with another command is left alone unless its number was somebody else's when
\* the marker was read.
OnlyMatching ==
    ~excused => \A a \in Actors :
        Signalled(a) /\ op[a].seen.pid \in Runtimes => proc[op[a].seen.pid].cmd = op[a].cmd

\* No operation is held up by a runtime, however deaf, or by another operation:
\* whatever state they have left the marker and the processes in, it can take its
\* next step, and none goes back but once (a failed start, to stop_server).
NeverHeld == \A a \in Busy : ENABLED Step(a)
=============================================================================
