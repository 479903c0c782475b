-------------------------- MODULE ProxySupervisor --------------------------
(***************************************************************************)
(* The proxy's process under the settings server (admin/supervisor.py),    *)
(* with the configuration files of ConfigStore: a proxy reads              *)
(* routing_proxy.yaml once, when it starts, and then listens on the port   *)
(* it found there.  The supervisor knows one child.  A settings server     *)
(* that ends leaves its proxy running, and the next one knows nothing of   *)
(* it.  stop gives the proxy 5 s from SIGTERM to exit, SIGKILL another 5 s *)
(* and raises TimeoutExpired after that; the timeouts may fire whenever    *)
(* the process is still there.                                             *)
(***************************************************************************)
EXTENDS ConfigStore

CONSTANTS
    Port,       \* the setting that is the port
    Procs,      \* processes of proxies
    NoProc

ASSUME PortAssumption == Port \in Settings
ASSUME ProcsAssumption == NoProc \notin Procs

VARIABLES
    proxies,    \* every proxy: st, the configuration it has loaded, whether it has
                \* started a managed runtime
    child,      \* the supervisor's _process
    fresh,      \* the proxy was started after the last change of its configuration
    lost        \* a settings server has ended

pvars == <<proxies, child, fresh, lost>>
vars == <<svars, pvars>>

Dead == [st |-> "gone", conf |-> Missing, kids |-> FALSE]
Living(p) == p \in Procs /\ proxies[p].st # "gone"
Listening(p) == proxies[p].st \in {"up", "closing"}

Init ==
    /\ StoreInit
    /\ proxies = [p \in Procs |-> Dead]
    /\ child = NoProc
    /\ fresh = FALSE /\ lost = FALSE

\* The settings server begins a request when it has answered the one before.
BeginControl ==
    /\ At(Server, "idle") /\ begun < MaxBegun
    /\ begun' = begun + 1
    /\ \E do \in {"start", "stop", "restart"} :
         op' = [op EXCEPT ![Server] = [Idle EXCEPT !.do = do,
                                         !.pc = IF do = "start" THEN "start" ELSE "stop"]]
    /\ UNCHANGED <<file, backup, router, saved, hazard, pvars>>

Quiet == UNCHANGED <<file, backup, router, begun, hazard>>

\* status() says running.
StartsNothing ==
    /\ At(Server, "start") /\ Living(child)
    /\ Finish(Server, saved)
    /\ Quiet /\ UNCHANGED pvars

\* Faulty: start trusts stop to have ended the child.
StartProxy_Unasked ==
    /\ At(Server, "start")
    /\ \E p \in Procs :
        /\ proxies[p] = Dead
        /\ proxies' = [proxies EXCEPT ![p].st = "loading"]
        /\ child' = p
    /\ fresh' = ~lost
    /\ Finish(Server, saved)
    /\ Quiet /\ UNCHANGED <<lost>>

StartProxy ==
    /\ At(Server, "start") /\ ~Living(child)
    /\ \E p \in Procs :
        /\ proxies[p] = Dead
        /\ proxies' = [proxies EXCEPT ![p].st = "loading"]
        /\ child' = p
    /\ fresh' = ~lost
    /\ Finish(Server, saved)
    /\ Quiet /\ UNCHANGED <<lost>>

\* OSError: the log or the interpreter cannot be opened.
StartFails ==
    /\ At(Server, "start") /\ ~Living(child)
    /\ Finish(Server, saved)
    /\ Quiet /\ UNCHANGED pvars

\* What stop goes on to.
AfterStop ==
    IF op[Server].do = "restart" THEN Go(Server, "start")
    ELSE op' = [op EXCEPT ![Server] = Idle]

\* SIGTERM: a proxy that is still starting dies of it, a running one shuts down.
Signalled(q) ==
    IF q.st \in {"loading", "bind"} THEN Dead
    ELSE IF q.st = "up" THEN [q EXCEPT !.st = "closing"]
    ELSE q

StopProxy ==
    /\ At(Server, "stop") /\ Living(child)
    /\ Go(Server, "wait")
    /\ proxies' = [proxies EXCEPT ![child] = Signalled(@)]
    /\ Quiet /\ UNCHANGED <<saved, child, fresh, lost>>

Stopped ==
    /\ op[Server].pc \in {"stop", "wait", "wait killed"} /\ ~Living(child)
    /\ AfterStop
    /\ Quiet /\ UNCHANGED <<saved, pvars>>

KillProxy ==
    /\ At(Server, "wait") /\ Living(child)
    /\ Go(Server, "wait killed")
    /\ proxies' = [proxies EXCEPT ![child].st = "killed"]
    /\ Quiet /\ UNCHANGED <<saved, child, fresh, lost>>

\* TimeoutExpired leaves stop, and restart with it.
StopRaises ==
    /\ At(Server, "wait killed") /\ Living(child)
    /\ Finish(Server, saved)
    /\ Quiet /\ UNCHANGED pvars
-----------------------------------------------------------------------------
(* The proxies.                                                            *)

Rest == UNCHANGED <<svars, child, fresh, lost>>

\* main loads the configuration; what does not load ends it.
LoadConfig(p) ==
    /\ proxies[p].st = "loading"
    /\ proxies' = [proxies EXCEPT ![p] = IF Loads(file) THEN [@ EXCEPT !.st = "bind", !.conf = file] ELSE Dead]
    /\ Rest

\* The port is taken by another proxy, or it is ours.
Bind(p) ==
    /\ proxies[p].st = "bind"
    /\ proxies' = [proxies EXCEPT ![p] =
                     IF \E q \in Procs : Listening(q) /\ proxies[q].conf[Port] = @.conf[Port]
                     THEN Dead ELSE [@ EXCEPT !.st = "up"]]
    /\ Rest

\* A request makes the proxy start a managed runtime (ManagedRuntime).
StartRuntime(p) ==
    /\ proxies[p].st = "up" /\ ~proxies[p].kids
    /\ proxies' = [proxies EXCEPT ![p].kids = TRUE]
    /\ Rest

\* The shutdown ends with stop_all.
ShutDown(p) ==
    /\ proxies[p].st = "closing"
    /\ proxies' = [proxies EXCEPT ![p] = Dead]
    /\ Rest

Die(p) ==
    /\ proxies[p].st = "killed"
    /\ proxies' = [proxies EXCEPT ![p] = Dead]
    /\ Rest

\* A proxy ends by itself.
Fails(p) ==
    /\ proxies[p].st \in {"loading", "bind", "up"}
    /\ proxies' = [proxies EXCEPT ![p] = Dead]
    /\ Rest

ProxyStep(p) == LoadConfig(p) \/ Bind(p) \/ StartRuntime(p) \/ ShutDown(p) \/ Die(p) \/ Fails(p)
-----------------------------------------------------------------------------
Crash(a) ==
    /\ a = Server \/ ~At(a, "idle")
    /\ EndOp(a)
    /\ child' = IF a = Server THEN NoProc ELSE child
    /\ lost' = (lost \/ a = Server)
    /\ fresh' = (fresh /\ a # Server)
    /\ UNCHANGED proxies

\* A step on the files makes what a proxy has loaded stale when it changes them.
Edit(a) ==
    /\ Begin(a) \/ StoreStep(a)
    /\ fresh' = (fresh /\ file' = file)
    /\ UNCHANGED <<proxies, child, lost>>

Control ==
    \/ BeginControl \/ StartsNothing \/ StartProxy \/ StartFails
    \/ StopProxy \/ Stopped \/ KillProxy \/ StopRaises

Next ==
    \/ \E a \in Actors : Edit(a) \/ Crash(a)
    \/ Control
    \/ \E p \in Procs : ProxyStep(p)

Spec == Init /\ [][Next]_vars
-----------------------------------------------------------------------------
(* Properties.                                                             *)

TypeOK ==
    /\ file \in ProxyFiles \cup {Missing, Torn} /\ backup \in ProxyFiles \cup {Missing, Torn}
    /\ router \in {Missing, Torn, "edited", "packaged"}
    /\ \A a \in Actors :
        /\ op[a].data \in ProxyFiles \cup {Missing}
        /\ op[a].text \in ProxyFiles \cup {Missing, Torn}
        /\ At(a, "write") => op[a].text # Missing
    /\ \A p \in Procs : proxies[p].st \in {"bind", "up", "closing"} => proxies[p].conf \in Valid
    /\ child \in Procs \cup {NoProc}

\* What operations have set and reported as set is what the file says, and what
\* failed has changed nothing: not a patch that does not load, whether it is found
\* before the file is written (save) or after (connect, which writes the backup
\* back), and not an init that finds the file there.  It takes two operations at
\* once, or the end of a process within one, to lose a setting.
SavedStays == hazard = "none" /\ Busy = {} => file = saved

\* A file that is there loads, between writes and after a connect, however the
\* settings server's operations, init, setup and catalog apply interleave.  (A
\* connect beside one of them, or a process that ends within a write, can leave a
\* broken one.)
FileLoads ==
    /\ hazard # "exposed" /\ file # Missing
    /\ ~\E a \in Actors : At(a, "write") \/ op[a].do \in {"connect", "restore"}
    => Loads(file)

\* As long as its settings server lives, a proxy is the supervisor's child or
\* gone: no restart, failed or not, leaves two.
NoStrayProxy == ~lost => \A p \in Procs : Living(p) => p = child

\* After a restart that went through, whoever listens has loaded the
\* configuration as it is, until it is changed again.
RestartTakesEffect ==
    ~lost /\ fresh => \A p \in Procs : Listening(p) => proxies[p].conf = file
=============================================================================
