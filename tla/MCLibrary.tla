----------------------------- MODULE MCLibrary -----------------------------
(***************************************************************************)
(* Bounded inputs of the parts without a state of their own: a case is     *)
(* chosen, and the properties are evaluated on it.                         *)
(***************************************************************************)
EXTENDS Naturals, Sequences, FiniteSets, SequencesExt

CONSTANTS None  \* no path, no model
ASSUME NoneAssumption == None \notin {"apply", "book", "message", "router", "proxy"} /\ None \notin Nat

Panel == INSTANCE RuntimePanel
Models == INSTANCE ModelRegistry
Records == INSTANCE RoutingRecords
Setup == INSTANCE SetupPlans
Product == INSTANCE ProductSetup
Advisor == INSTANCE ModelAdvice
Install == INSTANCE InstallPlans
Prompt == INSTANCE EvalReports  \* which EXTENDS PromptScoring

VARIABLE case
-----------------------------------------------------------------------------
(* Runtimes of the panel.  Only ollama's command line lists models, and    *)
(* only a managed runtime runs or is refused by the operating system.      *)

Relevant(b, e) ==
    /\ Panel!Provider(b) # "ollama" => e.listing = {} /\ e.ps = {} /\ "ollama" \notin e.installed
    /\ Panel!Provider(b) # "lmstudio" => "lms" \notin e.installed
    /\ ~b.managed => ~e.running /\ e.does # "blocked"

PanelCase ==
    \E b \in {x \in Panel!Backends : ~Panel!Raises(x)}, e \in Panel!Machines :
        Relevant(b, e) /\ case' = [kind |-> "panel", b |-> b, e |-> e]
-----------------------------------------------------------------------------
(* Sources of the registry: two backends that may run the same file or the *)
(* same model, and what is known of them.                                  *)

RegistryBackends ==
    [{"b1"} -> [origin : {"local", "hosted"}, path : {None, "f"}, model : {"m1", "m2"}, allowed : BOOLEAN]]
RegistryBackends2 ==
    [{"b2"} -> [origin : {"local"}, path : {None, "f"}, model : {"m1"}, allowed : BOOLEAN]]

RuntimeAnswers ==
    {[health |-> h, models |-> s[1], loaded |-> s[2], stale |-> s[3], unloaded |-> u] :
       h \in {"ready", "unreachable"}, u \in {"unknown", "unloaded"},
       s \in {<<{"m1"}, {}, {}>>, <<{"m1", "m2"}, {"m1"}, {}>>, <<{}, {"m1"}, {"m1"}>>, <<{"m2"}, {}, {"m1"}>>}}

RegistryCase ==
    \E b1 \in RegistryBackends, b2 \in RegistryBackends2, r2 \in {"b1", "b2"},
       d \in {{}, {"b1"}, {"b1", "b2"}}, a \in RuntimeAnswers,
       f \in {{}, {[path |-> "f", model |-> "m1", roles |-> {"code"}]}},
       u \in {{}, {[origin |-> "local", backend |-> "b1", path |-> None, model |-> "m2",
                    eligible |-> TRUE, routes |-> {"light"}]}} :
        case' = [kind |-> "registry", in |->
            [router |-> [engines |-> [x \in {"e"} |-> [origin |-> "local", model |-> "m1", enabled |-> u = {}]],
                         targets |-> [x \in {"code"} |-> "e"]],
             proxy |-> [backends |-> b1 @@ b2,
                        engines |-> [x \in {"code", "light"} |-> IF x = "code" THEN "b1" ELSE r2]],
             found |-> f, states |-> [x \in d |-> a], user |-> u]]
-----------------------------------------------------------------------------
(* Logs with up to three backups, some of them missing, and writes that    *)
(* stop anywhere; reports of two requests; usage of two requests, which    *)
(* name up to two models, priced by catalogs of up to four entries.        *)

LogCase ==
    \E n \in 0..3, full \in 0..2 :
        \E files \in [0..n -> {"gone", "empty", "one", "two"}], done \in 0..(n + 1) :
            case' = [kind |-> "log", full |-> full, done |-> done, row |-> <<"new">>,
                     files |-> [i \in 0..n |-> CASE files[i] = "gone" -> Records!Gone
                                                 [] files[i] = "empty" -> <<>>
                                                 [] files[i] = "one" -> <<<<i, 1>>>>
                                                 [] files[i] = "two" -> <<<<i, 1>>, <<i, 2>>>>]]

ReportCase ==
    \E n \in 0..2, max \in {1, 5} :
        \E events \in [1..n -> [prompt : BOOLEAN, engine : {"code", "light"}, now : {"code", "light"}]],
           rows \in SeqOf([id : {1, 2, 9}, engine : {"code", "light"}], 2) :
            case' = [kind |-> "report", max |-> max, rows |-> rows,
                     events |-> [i \in 1..n |-> [id |-> i] @@ events[i]]]

CatalogEntries ==
    {[provider |-> "p1", model |-> "m1", currency |-> "USD", placeholder |-> FALSE],
     [provider |-> "p2", model |-> "m1", currency |-> "EUR", placeholder |-> FALSE],
     [provider |-> "p1", model |-> "m2", currency |-> "EUR", placeholder |-> TRUE],
     [provider |-> "unknown", model |-> "m2", currency |-> "USD", placeholder |-> FALSE]}

PriceCase ==
    \E n \in 0..2, catalog \in SUBSET CatalogEntries :
        \E events \in [1..n -> [engine : {"code", "light"}, charged : 0..1, total : 0..1,
                                upstream : {None, "m1", "m2"}, model : {None, "m1"}]] :
            case' = [kind |-> "prices", catalog |-> catalog, events |-> events]
-----------------------------------------------------------------------------
(* Setup: one repository is in two directories; a base may lack an agent's *)
(* engine, have one of the user's or one that requires more.               *)

Model(repo, path, roles) == [repo |-> repo, path |-> <<"cache", path>>, roles |-> roles]
Roots ==
    {<<>>, <<<<Model("m1", "p1", {"fast_local", "code_agent"})>>, <<Model("m2", "p2", {"fast_local"}), Model("m1", "p3", {})>>>>,
     <<<<Model("m2", "p2", {"fast_local"})>>, <<Model("m3", "p4", {"multimodal_vision"}), Model("m1", "p1", {"fast_local"})>>>>}
PathsOf(roots) == {Setup!Scan(roots)[i].path : i \in DOMAIN Setup!Scan(roots)}
Advice ==
    [{"fast_local"} -> {<<"a1">>, <<"a1", "a2">>}] \cup [{"fast_local", "code_agent"} -> {<<"a1">>, <<>>}]
NoNeeds == [enabled |-> FALSE, model |-> "default", env |-> {}, commands |-> {}, paths |-> {}]
Entries(names) == [e \in names |-> NoNeeds]
Bases ==
    {[targets |-> Setup!Patched(Setup!LocalEngine, [confirmation |-> "human_confirm"]), engines |-> e] :
       e \in {Entries(Setup!Known), Entries(Setup!Required \cup {"openai_api"}),
              Entries(Setup!Known \cup {"mine"}),
              [Entries(Setup!Known) EXCEPT !["fast_local"].env = {"HF_TOKEN"}, !["claude_code"].paths = {<<"user", "repo">>}]}}

SetupCase ==
    \E roots \in Roots, base \in Bases, advice \in Advice, score \in [{"m1", "m2", "m3"} -> 1..2],
       commands \in SUBSET {"claude", "codex"}, keys \in SUBSET {"OPENAI_API_KEY"}, same \in BOOLEAN :
        LET machine == [commands |-> commands, keys |-> keys, disk |-> PathsOf(roots)]
            found == Setup!Discovery(machine, roots)
            file == IF same THEN base ELSE Setup!NoFile
        IN case' = [kind |-> "setup", machine |-> machine, found |-> found, score |-> score, base |-> base, file |-> file,
                    best |-> TRUE, rec |-> Setup!Recommend(found, score, advice)]

WizardCase ==
    \E roots \in Roots \ {<<>>}, base \in Bases, commands \in {{}, {"claude"}}, keys \in SUBSET {"OPENAI_API_KEY"},
       same \in BOOLEAN, mode \in {"api", "mixed"} :
        LET machine == [commands |-> commands, keys |-> keys, disk |-> PathsOf(roots)]
            found == Setup!Discovery(machine, roots)
            file == IF same THEN base ELSE Setup!NoFile
            advice == [x \in {"fast_local"} |-> <<"a1">>]
            score == [x \in {"m1", "m2", "m3"} |-> 1]
            rec == Setup!Recommend(found, score, advice)
            listed(r) == {c \in Setup!WizardChoices(r, found, advice) :
                            c[1] \in {"keep", "download"} \/ c \in {<<"model", 1>>, <<"engine", "claude_code">>, <<"engine", "openai_api">>}}
            pictures == Setup!WizardChoices("vision", found, advice) \cap {<<"keep">>, <<"model", 2>>}
        IN \E a \in listed("simple"), b \in listed("coding"), c \in pictures :
             case' = [kind |-> "setup", machine |-> machine, found |-> found, score |-> score, base |-> base, file |-> file,
                      best |-> FALSE, rec |-> Setup!Wizard([simple |-> a, coding |-> b, vision |-> c], mode, file, found, rec, advice)]

RunCase ==
    \E preset \in {"proxy", "all"}, method \in {"pipx", "unknown"}, pip \in BOOLEAN, uv \in BOOLEAN, execute \in BOOLEAN, confirmed \in BOOLEAN :
        LET steps == Setup!PrereqSteps(Setup!PrereqPackages(preset), method, pip, uv) IN
        \E exit \in [DOMAIN steps -> {"completed", "failed", "missing_command"}] :
            case' = [kind |-> "run", steps |-> steps, execute |-> execute, confirmed |-> confirmed, exit |-> exit]
-----------------------------------------------------------------------------
(* First setup: models of both formats, one of them without the file its   *)
(* name promises; machines where one port is taken or served; files that   *)
(* exist, may be overwritten or cannot be written.                         *)

DiskModel(n, source, roles, suits, mlx, gguf, file) ==
    [repo |-> n, source |-> source, roles |-> roles, suits |-> suits, mlx |-> mlx, gguf |-> gguf, file |-> file]
DiskModels ==
    {DiskModel(1, "huggingface_cache", {"fast_local", "code_agent"}, {"fast_local"}, TRUE, FALSE, FALSE),
     DiskModel(2, "local_directory", {"balanced_local", "reasoning_local", "code_agent"}, {"code_agent"}, FALSE, TRUE, TRUE),
     DiskModel(3, "lm_studio", {"fast_local", "balanced_local", "reasoning_local"}, {}, TRUE, FALSE, TRUE),
     DiskModel(4, "local_directory", {"fast_local"}, {"fast_local"}, FALSE, TRUE, FALSE)}
DiskScans == {s \in SeqOf(DiskModels, 3) : \A i, j \in DOMAIN s : i < j => s[i].repo < s[j].repo}

Answers(models) == [answer : {"silent", "error", "other", "list"}, models : {{}}] \cup [answer : {"list"}, models : models]
PortMaps ==
    {<<>>} \cup [{8080} -> Answers({{<<"stem", 2>>}, {<<"stem", 3>>, <<"localai", "fast">>}})]
           \cup [{8090} -> Answers({{<<"repo", 1>>, <<"path", 3>>}})]
           \cup [{1234} -> Answers({{<<"lmstudio", b>> : b \in Product!Backends}})]

InitArgs ==
    [preset : {"llamacpp", "mlx-lm", "lmstudio", "hosted"}, auto : {FALSE}, asked : {None}, autoModels : BOOLEAN,
     edits : {<<>>, [b \in {"fast"} |-> <<"mine", 1>>]}]
    \cup [preset : {None}, auto : BOOLEAN, asked : {None, "llamacpp"}, autoModels : {TRUE}, edits : {<<>>}]

ProductCase ==
    \E args \in InitArgs, models \in DiskScans, commands \in SUBSET {"mlx_lm.server", "llama-server"}, ports \in PortMaps :
        \E ollama \in IF args.auto THEN {"no", "installed", "running"} ELSE {"no"},
           apple \in IF args.auto THEN BOOLEAN ELSE {FALSE} :
            case' = [kind |-> "product", args |-> args, models |-> models,
                     machine |-> [commands |-> commands, ports |-> ports],
                     signals |-> [ollama |-> ollama, apple |-> apple, commands |-> commands, models |-> models,
                                  lmstudio |-> 1234 \in DOMAIN ports /\ ports[1234].answer \in {"list", "other"}]]

FilesCase ==
    \E disk \in [{"router", "proxy"} -> {"absent", "old", "torn"}], force \in BOOLEAN, auto \in BOOLEAN,
       preset \in {None, "ollama"}, fails \in {None, "router", "proxy"} :
        case' = [kind |-> "files", disk |-> disk,
                 args |-> [force |-> force, auto |-> auto, preset |-> preset, fails |-> fails]]
-----------------------------------------------------------------------------
(* Advice: pairs of machines with 4 to 48 GB and 2 to 12 cores, up to two  *)
(* benchmarks, models found on the disk; benchmark runs of two backends.   *)

Hosts == [memory : {None, 40, 80, 120, 160, 240, 480}, apple : BOOLEAN, cpus : {None, 2, 4, 8, 12}, tools : {{}, {"cuda"}}]
Benchmarks ==
    {<<>>} \cup [1..1 -> [model : {"m"}, status : {"completed", "failed"}, tps : {None, 3, 4, 25}, slow : BOOLEAN]]
    \cup {<<[model |-> "m", status |-> "failed", tps |-> None, slow |-> FALSE], [model |-> n, status |-> "completed", tps |-> t, slow |-> TRUE]>> :
            n \in {"m", "other"}, t \in {None, 12}}
DiskFinds ==
    [repo : {"m"}, source : {"huggingface", "ollama"}, says : {{}, {"mlx"}, {"gguf", "code"}}, roles : {{}, {"code_agent", "fast_local"}},
     size : {None, 6, 15, 70, 130}, quant : {None, 4, 8}]

\* A host with more of everything that is known of it.
Bigger(h, memory, cpus) ==
    [h EXCEPT !.memory = IF @ = None THEN None ELSE @ + memory, !.cpus = IF @ = None THEN None ELSE @ + cpus,
              !.tools = {"cuda"}]

AdviceCase ==
    \/ \E h \in Hosts, p \in {"lightweight", "balanced", "quality", "other"} :
         case' = [kind |-> "catalog", models |-> Advisor!CatalogModels, host |-> Advisor!DetectHardware(h), profile |-> p]
    \/ \E h \in {x \in Hosts : x.memory \in {None, 80, 160}}, m \in DiskFinds, route \in {"fast_local", "code_agent"},
          memory \in {0, 160}, cpus \in {0, 1, 8}, rows \in {<<>>} :
         case' = [kind |-> "fit", c |-> Advisor!LocalCandidate(route, m), model |-> m, rows |-> rows,
                  g |-> Advisor!DetectHardware(h),
                  h |-> Advisor!DetectHardware(Bigger(h, memory, cpus))]
    \/ \E rows \in Benchmarks, m \in {x \in DiskFinds : x.source = "ollama" /\ x.size = 70}, h \in {x \in Hosts : x.cpus = 4} :
         case' = [kind |-> "fit", c |-> Advisor!LocalCandidate("code_agent", m), model |-> m, rows |-> rows,
                  g |-> Advisor!DetectHardware(h), h |-> Advisor!DetectHardware(h)]

BenchCase ==
    \E l \in [{"a", "b"} -> BOOLEAN], selected \in SUBSET {"a", "b"}, execute \in BOOLEAN, confirmed \in BOOLEAN,
       store \in {[state |-> "absent"], [state |-> "torn"], [state |-> "ok", rows |-> <<[model |-> "ma", status |-> "failed"]>>]},
       answer \in [{"a", "b"} -> {"completed", "failed", "raises"}] :
        case' = [kind |-> "bench", selected |-> selected, execute |-> execute, confirmed |-> confirmed, store |-> store, answer |-> answer,
                 backends |-> <<[name |-> "a", model |-> "ma", local |-> l["a"]], [name |-> "b", model |-> "mb", local |-> l["b"]]>>]
-----------------------------------------------------------------------------
(* Prompts: up to two patterns beside a base of none, or of four that      *)
(* together are risky; and sequences of words.                             *)

Patterns == Prompt!ActionPatterns \cup
    {"legal", "production", "pii", "security", "file", "shell", "vague", "simple", "coding",
     "current", "research", "fresh_object", "image", "vision", "steps", "structured",
     "mechanical", "judgment", "repo_wide", "verification"}
RiskyBases == {{}, {"legal", "production", "pii", "file"}}
FewPatterns == {{}} \cup {{x, y} : x \in Patterns, y \in Patterns}

Safeties == {[required |-> r, allow |-> a] : r \in BOOLEAN,
                a \in {{}, {"send"}, {"ambiguous"}, Prompt!ActionPatterns \ {"impact"}}}
EngineScores == [capability : {35, 90}, trust : {20, 85}, cost : {0, 60}, latency : {15, 100}]
Flat == [Prompt!DefaultScoring EXCEPT !.risk = [w \in DOMAIN @ |-> 0], !.confidence = [w \in DOMAIN @ |-> 100]]

PromptCase ==
    \E base \in RiskyBases, few \in FewPatterns, size \in {<<12, 3>>, <<3300, 500>>, <<8000, 1200>>} :
        case' = [kind |-> "prompt", p |-> [found |-> base \cup few, chars |-> size[1], words |-> size[2]]]

WordsCase ==
    \E n \in 0 .. 2, first \in {<<>>} \cup {<<w>> : w \in Prompt!WordKinds} \cup {<<"book", "article">>} :
       \E rest \in [1 .. n -> Prompt!WordKinds] : case' = [kind |-> "words", s |-> first \o rest]
-----------------------------------------------------------------------------
(* Install plans: every state of the two files, of the packages and of the *)
(* way to install them; requests to connect one of two backends, followed  *)
(* by another one.                                                         *)

Packages ==
    {[modules |-> {}, commands |-> {}], [modules |-> Install!ProxyModules, commands |-> {"llama-server", "hf"}],
     [modules |-> Install!ProxyModules, commands |-> {"hf", "model-router-proxy"}],
     [modules |-> Install!ProxyModules \cup {"mlx-lm", "textual"}, commands |-> {"hf", "mlx_lm.server", "model-router-proxy"}]}
Installs == {None, [editable |-> FALSE, by |-> "pipx"], [editable |-> TRUE, by |-> "pipx"]}

InstallCase ==
    \E files \in [{"router", "proxy"} -> {"absent", "old", "torn"}], packages \in Packages,
       install \in Installs, pip \in BOOLEAN, ollama \in {"no", "installed"},
       flags \in {{}, {"mlx-lm"}, {"llamacpp"}, {"ollama"}, {"ollama", "mlx-lm"}},
       models \in {s \in DiskScans : Len(s) \in {0, 3}}, developer \in BOOLEAN :
        case' = [kind |-> "install", o |-> [flags |-> flags, developer |-> developer],
                 machine |-> [files |-> files, modules |-> packages.modules, commands |-> packages.commands, install |-> install,
                              pip |-> pip, uv |-> ~pip /\ install = None, ollama |-> ollama, apple |-> TRUE, lmstudio |-> FALSE,
                              models |-> models, ports |-> <<>>]]

Requests ==
    [runtime : Install!Runtimes, backend : {"fast", "none"}, endpoint : {None, <<"127.0.0.1", 9>>, <<"10.0.0.1", 9>>},
     model : {None, <<"m1">>}, write : BOOLEAN, confirmed : BOOLEAN]
ConnectCase ==
    \E r \in Requests, strip \in BOOLEAN, model \in {None, <<"m0">>}, json \in BOOLEAN, answer \in BOOLEAN :
        LET backend == [url |-> <<"127.0.0.1", 1234>>, model |-> model, timeout |-> 60, strip |-> strip, runtime |-> "command"] IN
        case' = [kind |-> "connect", config |-> [b \in {"fast", "code"} |-> backend], r |-> r, json |-> json, answer |-> answer]

\* Nothing that is there is taken for its absence.
ASSUME AbsenceAssumption ==
    /\ None \notin DiskModels
    /\ \A b \in Product!Backends : Product!Template("mlx-lm")[b].runtime # None
    /\ \A runtime \in Install!Runtimes : Install!PlaceholderModel(runtime) # None
-----------------------------------------------------------------------------
(* Evaluation results: two rows of two runs, the fields of which are       *)
(* missing, odd or contradict each other; three rows that were measured;   *)
(* and the packaged benchmark with an action added to its prompts.         *)

RowIds == {[run |-> x[1], at |-> x[2], compare |-> x[3]] :
              x \in {<<1, 1, FALSE>>, <<1, None, FALSE>>, <<2, 1, FALSE>>, <<2, 2, TRUE>>, <<1, 2, TRUE>>}}
RowOutcomes == {[exit |-> x[1], status |-> x[2], timeout |-> x[3], score |-> x[4], reasons |-> x[5], error |-> None] :
    x \in {<<"passed", "completed", FALSE, 100, None>>, <<"failed", "completed", FALSE, 50, <<"wrong">>>>,
          <<None, "timeout", TRUE, None, None>>, <<None, "timeout", FALSE, None, <<>>>>,
          <<"passed", "error", FALSE, 0, None>>, <<None, None, TRUE, 100, None>>}}
RowRests == {[category |-> x[1], model |-> "m", upstream |-> x[2], latency |-> x[3], tokens |-> x[3],
              fixtures |-> x[4], scorer |-> x[5], raw |-> x[6]] :
    x \in {<<"c", None, 5, 1, 1, {}>>, <<None, "m", None, None, 1, {}>>, <<"c", "n", 0, 2, 1, {"prompt"}>>, <<"d", "m", 7, 1, None, {}>>}}
EvalRows == {a @@ b @@ c : a \in RowIds, b \in RowOutcomes, c \in RowRests}
Measured == {r \in EvalRows : r.run = 1 /\ r.at = 1 /\ r.latency # None /\ r.exit \in {"passed", "failed"} /\ r.status = "completed"}

EvalCase ==
    \/ \E rows \in SeqOf(EvalRows, 2) \cup SeqOf(Measured, 3) : case' = [kind |-> "rows", rows |-> rows]
    \/ \E safety \in Safeties, action \in Prompt!ActionPatterns :
         case' = [kind |-> "workflow", cases |-> Prompt!DefaultCases, safety |-> safety, action |-> action]
-----------------------------------------------------------------------------
Init == case = [kind |-> "none"]
Next ==
    \/ case.kind = "none" /\ (PanelCase \/ RegistryCase \/ LogCase \/ ReportCase \/ PriceCase
                              \/ SetupCase \/ WizardCase \/ RunCase \/ ProductCase \/ FilesCase
                              \/ AdviceCase \/ BenchCase \/ PromptCase \/ WordsCase
                              \/ InstallCase \/ ConnectCase \/ EvalCase)
    \/ case.kind # "none" /\ case' = [kind |-> "none"]
Spec == Init /\ [][Next]_case

-----------------------------------------------------------------------------
(* Properties, by theme; their parts are stated in the modules.            *)

Of(kind) == case.kind = kind

\* Runtimes (runtime_adapters.py, admin/actions.py, settings_ui.py, runtime_install.py): the
\* panels, the doctor and the buttons, which decide each for itself, tell the same of a
\* runtime, and no action is offered or done on one that is not the router's own.
PanelsTrue ==
    Of("panel") =>
      /\ Panel!PanelsAgree(case.b, case.e) /\ Panel!ActionsAgree(case.b, case.e)
      /\ Panel!DoctorTellsDown(case.b, case.e) /\ Panel!HostedIsSilent(case.b, case.e)
      /\ Panel!GuidanceFitsHealth(case.b, case.e) /\ Panel!ExternalIsLeftAlone(case.b, case.e)

\* Models (model_registry.py, model_advisor.py, model_benchmark.py): merging the sources in
\* another order, or twice, changes nothing that decides, and loses no denial; advice keeps
\* to the memory gate, is no worse on a better machine and loses no benchmark.
ModelsTrue ==
    /\ Of("registry") => /\ Models!DeniedNotEligible(case.in) /\ Models!LoadedIsLoaded(case.in)
                         /\ Models!OrderInsensitive(case.in) /\ Models!KeysStay(case.in)
    /\ Of("catalog") => Advisor!GateHolds(case.models, case.profile, case.host)
    /\ Of("fit") => /\ Advisor!MoreIsNoWorse(case.c, case.h, case.g, case.rows)
                    /\ Advisor!EvidenceCounts(case.c, case.h, case.rows)
                    /\ \A size \in {15, 70, 300} : Advisor!NeedsGrow(case.model, size)
    /\ Of("bench") => Advisor!StoreKept(case.backends, case.selected, case.store, case.execute, case.confirmed, case.answer)

\* What was recorded (routing_log.py, telemetry.py, pricing_catalog.py, eval_runner.py): a
\* rotation cut short anywhere loses the oldest rows only; reports that count the same rows
\* in several places agree, and none calls complete, priced, current or free of texts what
\* is not.
RecordsHold ==
    /\ Of("log") => Records!LosesOnlyOldest(case.files, case.row, case.full, case.done)
    /\ Of("report") => Records!ReportsAgree(case.events, case.rows, case.max)
    /\ Of("prices") => Records!CoverageAddsUp(case.events, case.catalog) /\ Records!SkeletonClosesGaps(case.events, case.catalog)
    /\ Of("rows") => /\ \A run \in {None, 1, 2} : Prompt!ReportAddsUp(case.rows, run)
                     /\ \A m \in {"m", "n"} : Prompt!EvidenceIsReport(case.rows, m)

\* First steps (setup_assistant.py, product.py, installer.py, runtime_install.py, cli.py):
\* what a setup, an init, an install plan or a connect has written loads, serves the routes
\* and passes the doctor; it keeps what it was not told to change; the commands a plan
\* prints lead where it says.
SetupHolds ==
    /\ Of("setup") => /\ Setup!WrittenLoads(case.base, case.rec) /\ Setup!KeepsTheRest(case.file, case.base, case.rec)
                      /\ Setup!RoutesServed(case.base, case.rec, case.found, case.machine)
                      /\ case.best => Setup!BestIsChosen(case.found, case.rec, case.score)
    /\ Of("run") => Setup!RunIsHonest(case.steps, case.execute, case.confirmed, case.exit)
    /\ Of("product") =>
         /\ Product!InitThenDoctor(case.args, case.signals, case.models, case.machine)
         /\ Product!ModelsChosen(case.args, case.signals, case.models) /\ Product!PresetRuns(case.signals)
         /\ Product!DoctorExplains([loads |-> TRUE, router |-> case.models # <<>>,
                                    proxy |-> Product!ProxyData(case.args, case.signals, case.models)], case.machine)
    /\ Of("files") => Product!InitKeeps(case.disk, case.args)
    /\ Of("install") =>
         LET files == case.machine.files
             later(appeared) == [case.machine EXCEPT !.files =
                 [f \in DOMAIN files |-> IF f \in appeared /\ files[f] = "absent" THEN "old" ELSE files[f]]]
         IN /\ Install!PlanConverges(case.o, case.machine) /\ Install!PlanAgrees(case.o, case.machine)
            /\ \A yes \in SUBSET {"init", "doctor"}, serves \in BOOLEAN, appeared \in SUBSET {"router", "proxy"} :
                 Install!GuidedIsSafe(case.o, case.machine, later(appeared), yes, serves)
    /\ Of("connect") => \A s \in {q \in Requests : q.backend = "fast" /\ q.endpoint = None} :
         Install!ConnectAsShown(case.config, case.r, s, case.json, case.answer)

\* Prompts (scorer.py, policy.py, receipts.py, workflow_benchmark.py): one more pattern never
\* makes a prompt less risky, an action that is not allowed needs a human under any weights,
\* the two scanners of the fast path agree on it, no receipt suggests to delegate it, a
\* better engine is not ranked below a worse one, and the benchmark notices all that.
PromptsHold ==
    /\ Of("prompt") =>
         /\ \A x \in Patterns : Prompt!MoreIsNoLess(case.p, [case.p EXCEPT !.found = @ \cup {x}])
         /\ \A safety \in Safeties, scoring \in {Prompt!DefaultScoring, Flat} :
              Prompt!ActionsConfirmed(case.p, safety, scoring) /\ Prompt!DelegationIsSafe(case.p, safety, scoring)
         /\ Cardinality(case.p.found) \in {0, 1, 4} => \A quick \in BOOLEAN, d \in EngineScores, e \in EngineScores :
              Prompt!RankingDominates(case.p, quick, d, e)
    /\ Of("words") => \A safety \in Safeties : Prompt!ScannersAgree(case.s, safety)
    /\ Of("workflow") => Prompt!WorkflowsHold(case.cases, case.safety, case.action)
=============================================================================
