---------------------------- MODULE ProductSetup ----------------------------
(***************************************************************************)
(* First setup of the proxy (product.py): init chooses a preset, fills its *)
(* template with models found on the disk and writes two files; doctor     *)
(* probes the backends of a configuration and says whether they will       *)
(* serve.                                                                  *)
(*   model    [repo, source, roles, suits, mlx, gguf, file]: suits are the *)
(*            routes whose size or purpose the name mentions, mlx and gguf *)
(*            whether it promises the format, file whether a .gguf file is *)
(*            in its directory                                             *)
(*   backend  [preset, port, model, runtime]: runtime is None or the       *)
(*            command (program, the model it serves, port) and the port    *)
(*            whose readiness is probed                                    *)
(*   machine  [commands, ports]: the programs on the PATH and what answers *)
(*            at a port                                                    *)
(***************************************************************************)
EXTENDS Naturals, Sequences, SequencesExt, FiniteSetsExt

CONSTANTS None  \* no value

Presets == {"lmstudio", "ollama", "llamacpp", "mlx-lm", "localai", "hosted"}
Managed == {"mlx-lm", "llamacpp"}   \* the presets whose models can be chosen

Route == [fast |-> "fast_local", balanced |-> "balanced_local", reasoning |-> "reasoning_local", code |-> "code_agent"]
Backends == DOMAIN Route
-----------------------------------------------------------------------------
(* Templates.                                                              *)

Offset == [fast |-> 0, balanced |-> 1, code |-> 3, reasoning |-> 4]
Port(preset, b) ==
    CASE preset = "lmstudio" -> 1234 [] preset = "ollama" -> 11434
      [] preset = "localai" -> 8080  [] preset = "hosted" -> 443
      [] preset = "llamacpp" -> 8080 + Offset[b]
      [] preset = "mlx-lm" -> 8090 + Offset[b]

Placeholder(b) == <<"REPLACE_WITH", b>>
IsPlaceholder(word) == word[1] = "REPLACE_WITH"

Runtime(program, word, port) == [program |-> program, model |-> word, port |-> port, readiness |-> port]

Template(preset) ==
    [b \in Backends |->
       LET word == IF preset = "mlx-lm" THEN Placeholder(b) ELSE <<preset, b>>
           port == Port(preset, b)
       IN [preset |-> preset, port |-> port, model |-> word,
           runtime |-> IF preset = "mlx-lm" THEN Runtime("mlx_lm.server", word, port) ELSE None]]
-----------------------------------------------------------------------------
(* init.                                                                   *)

\* A running server first, then an installed one, then what could be started.
Recommended(s) ==
    IF s.ollama = "running" THEN "ollama"
    ELSE IF s.lmstudio THEN "lmstudio"
    ELSE IF s.ollama = "installed" THEN "ollama"
    ELSE IF s.apple /\ ("mlx_lm.server" \in s.commands \/ \E i \in DOMAIN s.models : s.models[i].mlx) THEN "mlx-lm"
    ELSE IF "llama-server" \in s.commands \/ \E i \in DOMAIN s.models : s.models[i].gguf \/ s.models[i].file THEN "llamacpp"
    ELSE "lmstudio"

\* An explicit preset and --auto exclude each other, which raises.
SelectPreset(args, signals) ==
    IF args.preset # None THEN args.preset
    ELSE IF args.auto THEN Recommended(signals)
    ELSE IF args.asked # None THEN args.asked
    ELSE "lmstudio"

Compatible(preset, m) == IF preset = "mlx-lm" THEN m.mlx ELSE m.gguf \/ m.file

\* A name that suits the route, then a model that lies on this disk, then the name.
ModelRank(m, route) ==
    <<IF route \in m.suits THEN 0 ELSE 3,
      IF m.source \in {"huggingface_cache", "local_directory"} THEN 0 ELSE 1, m.repo>>
Before(r, s) == r[1] < s[1] \/ (r[1] = s[1] /\ (r[2] < s[2] \/ (r[2] = s[2] /\ r[3] < s[3])))

SelectProxyModel(models, route, preset) ==
    LET fit == {i \in DOMAIN models : Compatible(preset, models[i]) /\ route \in models[i].roles}
    IN IF fit = {} THEN None
       ELSE models[CHOOSE i \in fit : \A j \in fit \ {i} : ~Before(ModelRank(models[j], route), ModelRank(models[i], route))]

\* mlx-lm takes a repository by name or by directory, llama-server a file, whose
\* stem names the model.
MlxReference(m) == <<IF m.source = "huggingface_cache" THEN "repo" ELSE "path", m.repo>>
GgufFile(m) == <<"file", m.repo>>
Stem(m) == <<"stem", m.repo>>

\* Words of the command that are the former model or a placeholder.
ReplaceModel(backend, word) ==
    LET new == [backend EXCEPT !.model = word]
    IN IF backend.runtime # None /\ (backend.runtime.model = backend.model \/ IsPlaceholder(backend.runtime.model))
       THEN [new EXCEPT !.runtime.model = word] ELSE new

\* Without a file nothing changes, although the model was "auto-selected".
ApplyModel(backend, preset, m) ==
    IF preset = "mlx-lm" THEN ReplaceModel(backend, MlxReference(m))
    ELSE IF ~m.file THEN backend
    ELSE [backend EXCEPT !.model = Stem(m), !.runtime = Runtime("llama-server", GgufFile(m), backend.port)]

AutoModels(proxy, preset, models) ==
    IF preset \notin Managed THEN proxy
    ELSE [b \in Backends |->
            LET m == SelectProxyModel(models, Route[b], preset)
            IN IF m = None THEN proxy[b] ELSE ApplyModel(proxy[b], preset, m)]

\* The questions of an interactive init, after the models were chosen: a new model
\* leaves the command as it is.
Customized(proxy, edits) ==
    [b \in Backends |-> IF b \in DOMAIN edits THEN [proxy[b] EXCEPT !.model = edits[b]] ELSE proxy[b]]

ProxyData(args, signals, models) ==
    LET preset == SelectPreset(args, signals)
        data == IF args.autoModels THEN AutoModels(Template(preset), preset, models) ELSE Template(preset)
    IN Customized(data, args.edits)

\* _write_or_skip for model_router.yaml and routing_proxy.yaml, one after the other.  A
\* write that fails leaves the file torn and ends init.
WriteOrSkip(disk, file, content, args) ==
    IF disk[file] # "absent" /\ ~args.force THEN disk
    ELSE [disk EXCEPT ![file] = IF args.fails = file THEN "torn" ELSE content]

Skipped(disk, args) == {file \in DOMAIN disk : disk[file] # "absent" /\ ~args.force}
Fails(disk, args) == args.fails # None /\ args.fails \notin Skipped(disk, args)

InitializeConfig(disk, args) ==
    LET first == WriteOrSkip(disk, "router", "new", args)
        both == WriteOrSkip(first, "proxy", "new", args)
    IN IF args.preset # None /\ args.auto THEN [disk |-> disk, ok |-> FALSE]
       ELSE IF Fails(disk, args) /\ args.fails = "router" THEN [disk |-> first, ok |-> FALSE]
       ELSE [disk |-> both, ok |-> ~Fails(disk, args) /\ Skipped(disk, args) = {}]
-----------------------------------------------------------------------------
(* doctor.  An endpoint is closed, accepts connections without answering   *)
(* HTTP, refuses with a status from 400 on, answers something else than a  *)
(* list of models, or lists some.                                          *)

Endpoint(machine, port) ==
    IF port \in DOMAIN machine.ports THEN machine.ports[port] ELSE [answer |-> "closed", models |-> {}]
PortOpen(machine, port) == Endpoint(machine, port).answer # "closed"

BackendHealth(backend, machine) ==
    LET e == Endpoint(machine, backend.port)
        listed == e.answer = "list" /\ backend.model \notin e.models
    IN [reachable |-> e.answer \in {"error", "other", "list"},
        ok |-> e.answer \in {"other", "list"} /\ ~listed,
        unlisted |-> listed]

HasPlaceholder(backend) == IsPlaceholder(backend.model) \/ IsPlaceholder(backend.runtime.model)
CommandAvailable(backend, machine) == backend.runtime.program \in machine.commands

\* Faulty: a port that is taken by something silent counts as free.
BackendOk_TakenPort(backend, machine) ==
    \/ BackendHealth(backend, machine).ok
    \/ /\ backend.runtime # None
       /\ ~HasPlaceholder(backend)
       /\ CommandAvailable(backend, machine)

BackendOk(backend, machine) ==
    \/ BackendHealth(backend, machine).ok
    \/ /\ backend.runtime # None
       /\ ~HasPlaceholder(backend)
       /\ CommandAvailable(backend, machine)
       /\ ~PortOpen(machine, backend.runtime.readiness)

Remediation(proxy, machine) ==
    LET health(b) == BackendHealth(proxy[b], machine)
        managed == {b \in DOMAIN proxy : proxy[b].runtime # None}
        down == {b \in DOMAIN proxy : ~health(b).reachable}
        names == {"ollama", "lmstudio"}
    IN {<<"start_server", p>> : p \in {q \in names : \E b \in down : proxy[b].port = Port(q, b)}}
       \cup {<<"start_separately", b>> : b \in DOMAIN proxy \ managed}
       \cup {<<"starts_on_request", b>> : b \in managed}
       \cup {<<"placeholder", b>> : b \in {x \in managed : HasPlaceholder(proxy[x])}}
       \cup {<<"command_missing", b>> : b \in {x \in managed : ~CommandAvailable(proxy[x], machine)}}
       \cup {<<"port_in_use", b>> : b \in {x \in managed \cap down : PortOpen(machine, proxy[x].runtime.readiness)}}
       \cup {<<"will_start", b>> : b \in managed \cap down}
       \cup {<<"model_missing", b>> : b \in {x \in DOMAIN proxy \ (managed \cap down) : health(x).unlisted}}

\* Without a proxy configuration that loads, no backend is probed.
Doctor(config, machine) ==
    IF ~config.loads THEN [ok |-> FALSE, remediation |-> {<<"fix_proxy_config">>}]
    ELSE [ok |-> config.router /\ \A b \in DOMAIN config.proxy : BackendOk(config.proxy[b], machine),
          remediation |-> Remediation(config.proxy, machine)
                            \cup (IF config.router THEN {} ELSE {<<"fix_router_config">>})]
-----------------------------------------------------------------------------
(* Properties.                                                             *)

\* What the first request for a backend meets: a server that serves its model (or says
\* nothing about models), or a command that can be started and then serves that model.
FirstRequestServed(backend, machine) ==
    LET e == Endpoint(machine, backend.port)
        word == backend.runtime.model
    IN \/ e.answer = "other" \/ (e.answer = "list" /\ backend.model \in e.models)
       \/ /\ backend.runtime # None
          /\ e.answer = "closed"
          /\ backend.runtime.program \in machine.commands /\ ~IsPlaceholder(word)
          /\ backend.runtime.port = backend.port
          /\ backend.model = IF word[1] = "file" THEN <<"stem", word[2]>> ELSE word

\* After an init that was not edited, doctor is ok exactly when the first request of
\* every backend will be served: a model chosen from the disk reached the backend and its
\* command, on one port, and a placeholder nowhere is forgotten.
InitThenDoctor(args, signals, models, machine) ==
    LET proxy == ProxyData(args, signals, models)
        report == Doctor([loads |-> TRUE, router |-> TRUE, proxy |-> proxy], machine)
    IN args.edits = <<>> => (report.ok <=> \A b \in Backends : FirstRequestServed(proxy[b], machine))

\* Backends that init gave a command of their own do not share a port, so that all of them
\* can run at once; and a backend whose role some usable model has is not left without one.
ModelsChosen(args, signals, models) ==
    LET proxy == ProxyData(args, signals, models)
        preset == SelectPreset(args, signals)
        run == {b \in Backends : proxy[b].runtime # None}
    IN /\ \A a, b \in run : a # b => proxy[a].runtime.port # proxy[b].runtime.port
       /\ (args.autoModels /\ preset \in Managed) =>
            \A b \in Backends \ DOMAIN args.edits :
              (/\ \A i \in DOMAIN models : preset = "llamacpp" /\ models[i].gguf => models[i].file
               /\ \E i \in DOMAIN models : Compatible(preset, models[i]) /\ Route[b] \in models[i].roles) =>
              /\ ~HasPlaceholder(proxy[b])
              /\ \E i \in DOMAIN models :
                   /\ Route[b] \in models[i].roles /\ Compatible(preset, models[i])
                   /\ proxy[b].model \in {MlxReference(models[i]), Stem(models[i])}

\* A doctor that is not ok names what is wrong with each backend, but for one that
\* answers with an error.
DoctorExplains(config, machine) ==
    LET report == Doctor(config, machine) IN
    ~report.ok /\ config.loads =>
      \/ <<"fix_router_config">> \in report.remediation
      \/ \E b \in DOMAIN config.proxy : Endpoint(machine, config.proxy[b].port).answer = "error"
      \/ \A b \in DOMAIN config.proxy :
           ~BackendOk(config.proxy[b], machine) =>
             \E r \in report.remediation :
                r \in {<<"placeholder", b>>, <<"command_missing", b>>, <<"port_in_use", b>>, <<"model_missing", b>>, <<"start_separately", b>>}

\* Init overwrites a file only when told to, and is ok exactly when both files are its own.
InitKeeps(disk, args) ==
    LET r == InitializeConfig(disk, args) IN
    /\ \A file \in DOMAIN disk : disk[file] # "absent" /\ ~args.force => r.disk[file] = disk[file]
    /\ r.ok <=> \A file \in DOMAIN disk : r.disk[file] = "new"

\* --auto prefers what runs: it proposes no server that is down while another one runs.
PresetRuns(signals) ==
    LET p == Recommended(signals) IN
    /\ (signals.ollama = "running" \/ signals.lmstudio) =>
         (p = "ollama" /\ signals.ollama = "running") \/ (p = "lmstudio" /\ signals.lmstudio)
    /\ p = "mlx-lm" => signals.apple
=============================================================================
