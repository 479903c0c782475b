---------------------------- MODULE InstallPlans ----------------------------
(***************************************************************************)
(* Plans that tell a person what to run next: the install plan             *)
(* (installer.py), its guided run (cli.py), and the plan that connects a   *)
(* backend to a local runtime (runtime_install.py).                        *)
(*   options  [flags, developer]: the presets asked for by flag            *)
(*   machine  what init and doctor see (ProductSetup), and: files, modules *)
(*            that can be imported, install: how the program was           *)
(*            installed, whether pip and uv are there                      *)
(***************************************************************************)
EXTENDS ProductSetup, FiniteSets

Setup == INSTANCE SetupPlans

Flags == {"lmstudio", "ollama", "mlx-lm", "llamacpp"}
-----------------------------------------------------------------------------
(* What the machine has.                                                   *)

DetectMethod(install) ==
    IF install = None THEN "unknown"
    ELSE IF install.editable THEN "editable" ELSE install.by

Present(machine, file) == machine.files[file] # "absent"
Existing(machine) == Present(machine, "router") \/ Present(machine, "proxy")
Partial(machine) == Present(machine, "router") # Present(machine, "proxy")

\* More than one flag is refused before anything is planned.
Refused(o) == Cardinality(o.flags) > 1
SelectedPreset(o, machine) == IF o.flags = {} THEN Recommended(machine) ELSE CHOOSE p \in o.flags : TRUE

PrereqPreset(o, machine) ==
    LET preset == SelectedPreset(o, machine) IN
    IF o.developer THEN "all" ELSE IF preset \in Managed THEN preset ELSE "proxy"

PrereqPlan(o, machine) ==
    Setup!PrereqSteps(Setup!PrereqPackages(PrereqPreset(o, machine)), DetectMethod(machine.install), machine.pip, machine.uv)

StepReady(step, machine) ==
    IF step.package = "huggingface_hub" THEN "hf" \in machine.commands ELSE step.package \in machine.modules

PrereqsNeeded(o, machine) ==
    LET steps == PrereqPlan(o, machine) IN \E i \in DOMAIN steps : ~StepReady(steps[i], machine)

ProxyModules == {"fastapi", "httpx", "uvicorn"}

Warnings(machine) ==
    {w \in {"modules", "proxy_command", "proxy_config", "ollama_down", "hf"} :
       \/ w = "modules" /\ ~ProxyModules \subseteq machine.modules
       \/ w = "proxy_command" /\ "model-router-proxy" \notin machine.commands
       \/ w = "proxy_config" /\ ~Present(machine, "proxy")
       \/ w = "ollama_down" /\ machine.ollama = "installed"
       \/ w = "hf" /\ "hf" \notin machine.commands}

NextLabels(machine) ==
    (IF ProxyModules \subseteq machine.modules THEN <<>> ELSE <<"install_prereqs">>)
    \o (IF Present(machine, "proxy") THEN <<>> ELSE <<"create_config">>)
    \o <<"doctor", "settings", "proxy">>
-----------------------------------------------------------------------------
(* The plan: the commands in their order.                                  *)

ConfigCommands(machine) ==
    IF Present(machine, "proxy") THEN <<"doctor">>
    ELSE IF Present(machine, "router") THEN <<"validate_config", "init_force">>
    ELSE <<"init", "doctor">>

NextCommands(o, machine) ==
    (IF PrereqsNeeded(o, machine) THEN <<"install_prereqs">> ELSE <<>>)
    \o ConfigCommands(machine) \o <<"settings", "proxy", "download_plan", "telemetry">>
    \o (IF o.developer THEN <<"developer_editable_install", "developer_tests">> ELSE <<>>)
    \o <<"tui">>

Offered(command, machine) ==
    /\ command = "proxy" => Present(machine, "proxy") \/ ~Existing(machine)
    /\ command = "tui" => "textual" \in machine.modules

\* The commands that change something; each of them asks for a confirmation.
Mutating == {"install_prereqs", "init", "init_force", "proxy", "developer_editable_install"}

\* Only the first init looks for models.
InitArgs(o, machine, force) ==
    LET preset == SelectedPreset(o, machine) IN
    [preset |-> preset, auto |-> FALSE, asked |-> None, edits |-> <<>>, force |-> force, fails |-> None,
     autoModels |-> ~force /\ preset \in Managed]
-----------------------------------------------------------------------------
(* What the commands do.  A package that is installed can be imported, and *)
(* its programs are on the PATH.                                           *)

Programs(package) ==
    CASE package = "huggingface_hub" -> {"hf"} [] package = "mlx-lm" -> {"mlx_lm.server"} [] OTHER -> {}

Installed(machine, steps) ==
    LET got == {steps[i].package : i \in {j \in DOMAIN steps : steps[j].executable}} IN
    [machine EXCEPT !.modules = @ \cup got, !.commands = @ \cup UNION {Programs(p) : p \in got}]

\* What was planned for one machine is run on another one, the later.
Ran(command, o, planned, machine) ==
    CASE command = "install_prereqs" -> Installed(machine, PrereqPlan(o, planned))
      [] command \in {"init", "init_force"} ->
           [machine EXCEPT !.files = InitializeConfig(@, InitArgs(o, planned, command = "init_force")).disk]
      [] OTHER -> machine

Followed(o, machine) == FoldLeft(LAMBDA m, command : Ran(command, o, machine, m), machine, NextCommands(o, machine))

\* doctor, of files of which an older one may be right or wrong.
DoctorOk(o, planned, machine, oldServes) ==
    /\ \A file \in DOMAIN machine.files : machine.files[file] \notin {"absent", "torn"}
    /\ IF machine.files["proxy"] = "old" THEN oldServes
       ELSE Doctor([loads |-> TRUE, router |-> TRUE,
                    proxy |-> ProxyData(InitArgs(o, planned, FALSE), planned, planned.models)], machine).ok

\* _run_guided_install: yes are the commands the person confirms.  Without a doctor
\* command (a proxy configuration is missing) there is nothing to run.
Guided(o, planned, machine, yes, oldServes) ==
    LET plan == ToSet(NextCommands(o, planned))
        ask(c) == c \in plan /\ c \in yes
        init == InitializeConfig(machine.files, InitArgs(o, planned, FALSE))
        made == [machine EXCEPT !.files = init.disk]
        doctor(m) == IF DoctorOk(o, planned, m, oldServes) THEN 0 ELSE 1
        result(ran, exit, m) == [ran |-> ran, exit |-> exit, files |-> m.files]
    IN IF Existing(planned)
       THEN IF ask("doctor") THEN result(<<"doctor">>, doctor(machine), machine) ELSE result(<<>>, 0, machine)
       ELSE IF ~ask("init") THEN result(<<>>, 0, machine)
       ELSE IF ~init.ok THEN result(<<"init">>, 1, made)
       ELSE IF ask("doctor") THEN result(<<"init", "doctor">>, doctor(made), made)
       ELSE result(<<"init">>, 0, made)
-----------------------------------------------------------------------------
(* Connecting a backend to a runtime.  A request [runtime, backend,        *)
(* endpoint, model, write, confirmed]; endpoint and model may be None.     *)

Runtimes == {"lmstudio", "ollama", "llamacpp"}

\* Anything that is not an http(s) URL is refused, and so is another runtime.
DefaultEndpoint(runtime) == <<"127.0.0.1", IF runtime = "llamacpp" THEN 8080 ELSE Port(runtime, "fast")>>
EndpointFor(r) == IF r.endpoint = None THEN DefaultEndpoint(r.runtime) ELSE r.endpoint
PlaceholderModel(runtime) == <<"placeholder", runtime>>

ExistingModel(config, r) == IF r.backend \in DOMAIN config THEN config[r.backend].model ELSE None
EffectiveModel(config, r) ==
    IF r.model # None THEN r.model
    ELSE IF ExistingModel(config, r) # None THEN ExistingModel(config, r) ELSE PlaceholderModel(r.runtime)

\* LM Studio's patch says nothing about tools.
BackendPatch(r, endpoint, model) ==
    IF r.runtime = "lmstudio" THEN [url |-> endpoint, model |-> model, timeout |-> 300]
    ELSE [url |-> endpoint, model |-> model, timeout |-> 300, strip |-> r.runtime = "ollama"]

ConnectWarnings(config, r) ==
    {w \in {"remote", "no_backend", "not_confirmed", "no_model"} :
       \/ w = "remote" /\ EndpointFor(r)[1] # "127.0.0.1"
       \/ w = "no_backend" /\ r.backend \notin DOMAIN config
       \/ w = "not_confirmed" /\ r.write /\ ~r.confirmed
       \/ w = "no_model" /\ r.write /\ r.confirmed /\ r.model = None}

\* The command the plan prints to be run instead.
PrintedRequest(r, patch) ==
    [r EXCEPT !.endpoint = None, !.model = patch.model, !.write = TRUE, !.confirmed = TRUE]

ConnectPlan(config, r) ==
    LET patch == BackendPatch(r, EndpointFor(r), EffectiveModel(config, r))
        written == /\ r.write /\ r.confirmed
                   /\ r.backend \in DOMAIN config
                   /\ r.model # None \/ ExistingModel(config, r) # None
    IN [ok |-> r.write => written,
        patch |-> patch,
        printed |-> PrintedRequest(r, patch),
        warnings |-> ConnectWarnings(config, r),
        written |-> written,
        config |-> IF written THEN [config EXCEPT ![r.backend] = Setup!Patched(@, patch)] ELSE config]

\* runtimes connect --write asks, unless --yes or --json was given.
ConnectCommand(config, r, json, answer) ==
    ConnectPlan(config, [r EXCEPT !.confirmed = @ \/ (r.write /\ ~json /\ answer)])
-----------------------------------------------------------------------------
(* Properties.                                                             *)

\* Who follows the plan is not asked for the same again: the next plan neither installs nor
\* creates, it offers the proxy, and no file that was there is replaced except by a command
\* that was to be confirmed and is only there for a proxy configuration that is missing.
PlanConverges(o, machine) ==
    LET plan == ToSet(NextCommands(o, machine))
        later == Followed(o, machine)
        next == ToSet(NextCommands(o, later))
    IN ~Refused(o) =>
       /\ Setup!Strategy(DetectMethod(machine.install), machine.pip, machine.uv) # "pip_missing" => "install_prereqs" \notin next
       /\ next \cap {"init", "init_force", "validate_config"} = {}
       /\ Offered("proxy", later)
       /\ \A file \in DOMAIN machine.files :
            Present(machine, file) /\ later.files[file] # machine.files[file] => "init_force" \in plan /\ ~Present(machine, "proxy")
       /\ plan \cap {"init", "init_force"} # {} => ~Partial(later)

\* The labels, the warnings and the commands, decided in three places, tell the same: a
\* label has its command, and a machine nothing is warned of has nothing to make up for
\* (but MLX-LM, of which no warning speaks).
PlanAgrees(o, machine) ==
    LET plan == ToSet(NextCommands(o, machine))
        labels == ToSet(NextLabels(machine))
    IN ~Refused(o) =>
       /\ "install_prereqs" \in labels => "install_prereqs" \in plan
       /\ "create_config" \in labels <=> plan \cap {"init", "init_force"} # {}
       /\ plan \cap {"install_prereqs", "init", "init_force"} # {}
            => \/ Warnings(machine) # {}
               \/ PrereqPreset(o, machine) \in {"mlx-lm", "all"} /\ "mlx-lm" \notin machine.modules

\* Guided mode overwrites nothing, whatever has appeared since the plan was made, runs
\* what was confirmed, and is successful only when everything it ran was: then files it
\* created are complete, and a doctor that ran found them good.
GuidedIsSafe(o, planned, machine, yes, oldServes) ==
    LET run == Guided(o, planned, machine, yes, oldServes) IN
    ~Refused(o) =>
      /\ \A file \in DOMAIN machine.files : Present(machine, file) => run.files[file] = machine.files[file]
      /\ ToSet(run.ran) \subseteq yes
      /\ run.exit = 0 /\ "init" \in ToSet(run.ran) => \A file \in DOMAIN run.files : run.files[file] = "new"
      /\ "doctor" \in ToSet(run.ran)
           => (run.exit = 0 <=> DoctorOk(o, planned, [machine EXCEPT !.files = run.files], oldServes))
      /\ run.files # machine.files => run.ran # <<>> /\ run.ran[1] = "init"

\* Connect writes only with --write, a confirmation, a backend that exists and a model; it
\* changes what it has shown, of that backend; the command it prints does the same when the
\* endpoint is the default one and a model is known; and what an earlier connect has set
\* does not show through a later one (but under LM Studio, which keeps strip_tools).
ConnectAsShown(config, r, s, json, answer) ==
    LET plan == ConnectCommand(config, r, json, answer)
        again == ConnectPlan(config, plan.printed)
        after(c) == ConnectPlan(c, [s EXCEPT !.write = TRUE, !.confirmed = TRUE]).config
    IN /\ plan.config # config => /\ r.write /\ (r.confirmed \/ answer) /\ plan.ok
                                  /\ r.model # None \/ plan.patch.model # PlaceholderModel(r.runtime)
       /\ plan.written => /\ \A k \in DOMAIN plan.patch : plan.config[r.backend][k] = plan.patch[k]
                          /\ \A k \in DOMAIN config[r.backend] \ DOMAIN plan.patch : plan.config[r.backend][k] = config[r.backend][k]
                          /\ \A b \in DOMAIN config \ {r.backend} : plan.config[b] = config[b]
       /\ r.backend \in DOMAIN config /\ EndpointFor(r) = DefaultEndpoint(r.runtime)
            => again.written /\ again.patch = plan.patch
       /\ s.backend = r.backend /\ s.model # None /\ s.runtime # "lmstudio" => after(plan.config) = after(config)
=============================================================================
