---------------------------- MODULE ConfigStore ----------------------------
(***************************************************************************)
(* The two configuration files of a router, routing_proxy.yaml and         *)
(* model_router.yaml, and everything that rewrites them: the settings      *)
(* server's actions (admin/config_edit.py, admin/actions.py) and the       *)
(* command line's init, runtimes connect, setup and catalog apply          *)
(* (product.py, runtime_install.py, setup_assistant.py,                    *)
(* catalog_update.py).  All of them read the file, work on what they read, *)
(* and write the whole file: write_text truncates it and then writes.      *)
(* Nothing is locked.  The settings server runs one action at a time; a    *)
(* command line process runs beside it.                                    *)
(*                                                                         *)
(* A proxy file is the values of a few settings.  Which combinations       *)
(* load_proxy_config accepts is a constant here (ProxyConfig models it).   *)
(***************************************************************************)
EXTENDS Naturals, FiniteSets

CONSTANTS
    Server,     \* the settings server
    Clis,       \* command line processes
    Settings,   \* what a proxy file sets: a backend's model, the port, ...
    OfBackends, \* those of them that belong to a backend
    Values,
    Valid,      \* the proxy files that load
    Presets,    \* what init writes for each preset
    MaxBegun,   \* how many operations are begun
    Missing,    \* no file
    Torn        \* a file that was truncated and not yet written

Actors == Clis \cup {Server}
ProxyFiles == [Settings -> Values]

ASSUME ServerAssumption == Server \notin Clis
ASSUME SettingsAssumption == OfBackends \subseteq Settings
ASSUME PresetsAssumption == Presets \subseteq Valid /\ Valid \subseteq ProxyFiles
ASSUME NonesAssumption == Missing \notin ProxyFiles /\ Torn \notin ProxyFiles /\ Missing # Torn

VARIABLES
    file,       \* routing_proxy.yaml
    backup,     \* routing_proxy.yaml.bak
    router,     \* model_router.yaml: Missing, Torn, "edited" or "packaged"
    op,         \* what each actor is doing
    begun,      \* how many operations have begun
    saved,      \* what the operations that reported success have set
    hazard      \* "none"; "overlap": an operation began while another one was
                \* running; "exposed": one of the two was a connect, or a process
                \* ended within an operation

svars == <<file, backup, router, op, begun, saved, hazard>>

\* text is what the operation is about to write, data what it has read.
Idle == [do |-> "none", pc |-> "idle", set |-> <<>>, force |-> FALSE, data |-> Missing, text |-> Missing]

Readable(f) == f \in ProxyFiles

\* Faulty: a file that parses is accepted.
Loads_Parsed(f) == Readable(f)

\* load_proxy_config accepts it.
Loads(f) == f \in Valid

At(a, pc) == op[a].pc = pc
Go(a, pc) == op' = [op EXCEPT ![a].pc = pc]
Busy == {a \in Actors : ~At(a, "idle")}

\* _patch_proxy_config_data, and the update in _write_backend_patch.
Patched(f, set) == [s \in Settings |-> IF s \in DOMAIN set THEN set[s] ELSE f[s]]

\* The end of an operation, with its effect on what the user thinks is saved.
Finish(a, now) ==
    /\ op' = [op EXCEPT ![a] = Idle]
    /\ saved' = IF hazard = "none" THEN now ELSE Missing
-----------------------------------------------------------------------------
StoreInit ==
    /\ file \in Valid \cup {Missing}
    /\ backup = Missing
    /\ router \in {Missing, "edited"}
    /\ op = [a \in Actors |-> Idle]
    /\ saved = file /\ begun = 0
    /\ hazard = "none"

ServerDoes == {"save", "assign", "preset", "catalog"}
CliDoes == {"connect", "init", "setup", "catalog"}

\* One setting is patched: any by a save, a backend's by an assignment or connect.
Patches(do) ==
    IF do \in {"save", "assign", "connect"}
    THEN {[s \in {t} |-> v] : t \in IF do = "save" THEN Settings ELSE OfBackends, v \in Values}
    ELSE {<<>>}

\* Where an operation starts.
FirstStep(do) ==
    CASE do = "assign" -> "load"
      [] do \in {"save", "connect"} -> "read"
      [] OTHER -> "router"

\* Only an operation that replaces existing files needs to be forced.
Begin(a) ==
    /\ At(a, "idle") /\ begun < MaxBegun
    /\ begun' = begun + 1
    /\ \E do \in IF a = Server THEN ServerDoes ELSE CliDoes, force \in BOOLEAN :
        /\ do \in {"init", "setup"} \/ force
        /\ \E set \in Patches(do) :
             op' = [op EXCEPT ![a] = [Idle EXCEPT !.do = do, !.set = set, !.force = force,
                                                  !.pc = FirstStep(do)]]
        /\ hazard' = IF Busy = {} \/ hazard = "exposed" THEN hazard
                     ELSE IF do = "connect" \/ \E b \in Busy : op[b].do \in {"connect", "restore"}
                     THEN "exposed" ELSE "overlap"
    /\ UNCHANGED <<file, backup, router, saved>>

\* _assign_route_action looks the backend up in the loaded configuration.
Load(a) ==
    /\ At(a, "load")
    /\ IF Loads(file) THEN Go(a, "read") /\ UNCHANGED saved ELSE Finish(a, saved)
    /\ UNCHANGED <<file, backup, router, begun, hazard>>

\* Faulty: what is written has not been validated.
Read_NotValidated(a) ==
    /\ At(a, "read")
    /\ IF op[a].do = "connect" /\ Readable(file)
       THEN op' = [op EXCEPT ![a].data = file, ![a].pc = "probe"] /\ UNCHANGED saved
       ELSE IF Readable(file)
       THEN op' = [op EXCEPT ![a].text = Patched(file, op[a].set), ![a].pc = "open"] /\ UNCHANGED saved
       ELSE Finish(a, saved)
    /\ UNCHANGED <<file, backup, router, begun, hazard>>

\* Read and parse; a file that is missing or empty ends the operation.
\* save_proxy_config_patch patches what it has read and validates the outcome in a
\* temporary file before it goes on.
Read(a) ==
    /\ At(a, "read")
    /\ LET text == Patched(file, op[a].set) IN
       IF op[a].do = "connect" /\ Readable(file)
       THEN op' = [op EXCEPT ![a].data = file, ![a].pc = "probe"] /\ UNCHANGED saved
       ELSE IF Readable(file) /\ Loads(text)
       THEN op' = [op EXCEPT ![a] = [Idle EXCEPT !.do = op[a].do, !.text = text, !.pc = "open"]]
            /\ UNCHANGED saved
       ELSE Finish(a, saved)
    /\ UNCHANGED <<file, backup, router, begun, hazard>>

\* build_runtime_connect_plan probes the endpoint and then may find that it is not
\* to write: not confirmed, no such backend, no model.
GiveUp(a) ==
    /\ At(a, "probe")
    /\ Finish(a, saved)
    /\ UNCHANGED <<file, backup, router, begun, hazard>>

\* _write_backend_patch: the file as it is now goes to the backup ...
Copy(a) ==
    /\ At(a, "probe")
    /\ op' = [op EXCEPT ![a].text = file, ![a].pc = "open bak"]
    /\ UNCHANGED <<file, backup, router, saved, begun, hazard>>

OpenBackup(a) ==
    /\ At(a, "open bak")
    /\ backup' = Torn
    /\ Go(a, "write bak")
    /\ UNCHANGED <<file, router, saved, begun, hazard>>

\* ... and the patched file as it was read before the probe takes its place.
WriteBackup(a) ==
    /\ At(a, "write bak")
    /\ backup' = op[a].text
    /\ op' = [op EXCEPT ![a] = [Idle EXCEPT !.do = "connect", !.pc = "open",
                                            !.text = Patched(op[a].data, op[a].set)]]
    /\ UNCHANGED <<file, router, saved, begun, hazard>>

\* write_text, first half.
Open(a) ==
    /\ At(a, "open")
    /\ file' = Torn
    /\ Go(a, "write")
    /\ UNCHANGED <<backup, router, saved, begun, hazard>>

\* write_text, second half.  The operation is over when it writes back what it
\* had before (restore), and else looks at the result.
Write(a) ==
    /\ At(a, "write")
    /\ file' = op[a].text
    /\ IF op[a].do = "restore" THEN Finish(a, saved) ELSE Go(a, "reload") /\ UNCHANGED saved
    /\ UNCHANGED <<backup, router, begun, hazard>>

\* Faulty: the configuration that failed stays.
Reload_Keep(a) ==
    /\ At(a, "reload")
    /\ Finish(a, IF Loads(file) \/ op[a].do = "init" THEN op[a].text ELSE saved)
    /\ UNCHANGED <<file, backup, router, begun, hazard>>

\* save_proxy_config_patch and connect load what they have written; only connect
\* writes the backup back when that fails.
Reload(a) ==
    /\ At(a, "reload")
    /\ IF Loads(file) \/ op[a].do = "init" THEN Finish(a, op[a].text)
       ELSE IF op[a].do = "connect"
       THEN op' = [op EXCEPT ![a].do = "restore", ![a].text = backup, ![a].pc = "open"] /\ UNCHANGED saved
       ELSE Finish(a, saved)
    /\ UNCHANGED <<file, backup, router, begun, hazard>>

\* model_router.yaml: init and setup keep a file that is there unless they are
\* forced, catalog apply (diff first) one that is packaged already.
KeepRouter(a) ==
    /\ At(a, "router")
    /\ IF op[a].do = "catalog" THEN router = "packaged" ELSE router # Missing /\ ~op[a].force
    /\ IF op[a].do \in {"preset", "init"} THEN Go(a, "proxy") /\ UNCHANGED saved ELSE Finish(a, saved)
    /\ UNCHANGED <<file, backup, router, begun, hazard>>

OpenRouter(a) ==
    /\ At(a, "router")
    /\ IF op[a].do = "catalog" THEN router # "packaged" ELSE router = Missing \/ op[a].force
    /\ router' = Torn
    /\ Go(a, "write router")
    /\ UNCHANGED <<file, backup, saved, begun, hazard>>

WriteRouter(a) ==
    /\ At(a, "write router")
    /\ router' = IF op[a].do = "setup" THEN "edited" ELSE "packaged"
    /\ IF op[a].do \in {"preset", "init"} THEN Go(a, "proxy") /\ UNCHANGED saved ELSE Finish(a, saved)
    /\ UNCHANGED <<file, backup, begun, hazard>>

\* initialize_product_config goes on to routing_proxy.yaml with the preset.
SecondFile(a) ==
    /\ At(a, "proxy")
    /\ IF file = Missing \/ op[a].force
       THEN /\ \E text \in Presets : op' = [op EXCEPT ![a].text = text, ![a].pc = "open"]
            /\ UNCHANGED saved
       ELSE Finish(a, saved)
    /\ UNCHANGED <<file, backup, router, begun, hazard>>

\* The process of a ends.
EndOp(a) ==
    /\ op' = [op EXCEPT ![a] = Idle]
    /\ hazard' = IF At(a, "idle") THEN hazard ELSE "exposed"
    /\ UNCHANGED <<file, backup, router, begun, saved>>

\* The disk is full, or the file may not be written.
WriteFails(a) ==
    /\ op[a].pc \in {"open", "write", "write bak", "write router"}
    /\ EndOp(a)

StoreStep(a) ==
    \/ Load(a) \/ Read(a) \/ GiveUp(a) \/ Copy(a) \/ OpenBackup(a) \/ WriteBackup(a)
    \/ Open(a) \/ Write(a) \/ Reload(a)
    \/ KeepRouter(a) \/ OpenRouter(a) \/ WriteRouter(a) \/ SecondFile(a) \/ WriteFails(a)
=============================================================================
