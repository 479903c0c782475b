---------------------------- MODULE RuntimePanel ----------------------------
(***************************************************************************)
(* What the settings page, the admin actions and the command line say of a *)
(* backend's runtime and let the user do with it: the adapters of          *)
(* runtime_adapters.py apart from the managed one's processes (which       *)
(* RuntimeAdapter models), their capabilities, and the rows made of them   *)
(* (settings_ui.py, runtime_install.py, admin/actions.py).                 *)
(*                                                                         *)
(* A backend b has                                                         *)
(*   managed, kind   runtime.enabled and runtime.kind                      *)
(*   local           its base_url's host is this machine                   *)
(*   port            "1234", "11434", another one, or not a port number    *)
(*   named           what its name, model or host contain                  *)
(* and the machine e has                                                   *)
(*   installed       the commands on the PATH; "server" is runtime.command *)
(*   answer          what /v1/models answers: a listing with the configured*)
(*                   model ("own"), without ("another", "empty"), an HTTP  *)
(*                   error, no connection, or no JSON ("garbage")          *)
(*   listing, ps     the models ollama list and ollama ps name, or "fails" *)
(*   running         the managed process runs                              *)
(*   does            what starting, stopping or ollama stop come to        *)
(***************************************************************************)
EXTENDS Naturals, FiniteSets

Kinds == {"llama-server", "mlx-lm", "generic"}
Commands == {"lms", "ollama", "server"}
Answers == {"own", "another", "empty", "http error", "refused", "garbage"}
Outcomes == {"done", "already", "blocked", "error"}
Actions == {"start_server", "stop_server", "load_model", "unload_model"}

Backends ==
    [managed : {TRUE}, kind : Kinds, local : BOOLEAN, port : {"other"}, named : {"plain"}]
    \cup [managed : {FALSE}, kind : {"generic"}, local : BOOLEAN,
          port : {"1234", "11434", "other", "malformed"}, named : {"localai", "vllm", "plain"}]

Machines ==
    [installed : SUBSET Commands, answer : Answers, listing : {{}, {"own"}, {"another"}, {"fails"}},
     ps : {{}, {"own"}, {"fails"}}, running : BOOLEAN, does : Outcomes]
-----------------------------------------------------------------------------
(* Adapters.                                                               *)

\* urlparse(...).port raises, and provider_for_backend with it; the state of an
\* adapter that failed asks for the provider again.
Raises(b) == ~b.managed /\ b.port = "malformed"

Provider(b) ==
    CASE b.managed -> [k \in Kinds |-> CASE k = "llama-server" -> "llamacpp" [] k = "mlx-lm" -> "mlx_lm"
                                         [] k = "generic" -> "managed_openai_compatible"][b.kind]
      [] ~b.managed /\ b.local /\ b.port = "1234" -> "lmstudio"
      [] ~b.managed /\ b.local /\ b.port = "11434" -> "ollama"
      [] OTHER -> IF b.named # "plain" THEN b.named
                  ELSE IF b.local THEN "openai_compatible_local" ELSE "openai_compatible_hosted"

OllamaCli(b, e) == Provider(b) = "ollama" /\ "ollama" \in e.installed

\* What an OpenAI-compatible endpoint can be asked, if it is on this machine.
Endpoint(b) == IF b.local THEN {"health", "discover_models"} ELSE {}

\* Faulty: a command suffices.
OwnProcess_Anyones(b, e) ==
    (IF b.managed THEN {"list_loaded_models", "stop_server", "logs"} ELSE {})
    \cup (IF "server" \in e.installed THEN {"start_server", "load_model", "unload_model"} ELSE {})

\* What ManagedRuntimeAdapter adds.  A managed runtime has a command and a log
\* path, or the configuration does not load.
OwnProcess(b, e) ==
    (IF b.managed THEN {"list_loaded_models", "stop_server", "logs"} ELSE {})
    \cup (IF b.managed /\ "server" \in e.installed THEN {"start_server", "load_model", "unload_model"} ELSE {})

\* capabilities() of the adapter that adapter_for_backend chooses.
Supported(b, e) ==
    Endpoint(b) \cup OwnProcess(b, e)
    \cup (IF OllamaCli(b, e) THEN {"discover_models", "list_loaded_models", "unload_model"} ELSE {})

\* detect(): whether the runtime's command is installed, if one is looked for.
Installed(b, e) ==
    IF b.managed THEN {"server"} \cap e.installed
    ELSE CASE Provider(b) = "lmstudio" -> {"lms"} \cap e.installed
           [] Provider(b) = "ollama" -> {"ollama"} \cap e.installed
           [] OTHER -> {"not looked for"}

\* health(): its status; an endpoint that answers at all is reachable.
Health(b, e) ==
    IF "health" \notin Supported(b, e) THEN "unsupported"
    ELSE CASE e.answer = "own" -> "ready"
           [] e.answer \in {"another", "empty", "http error"} -> "degraded"
           [] e.answer = "refused" -> "unreachable"
           [] e.answer = "garbage" -> "error"
Reachable(b, e) == Health(b, e) \in {"ready", "degraded"}

\* GenericOpenAICompatibleAdapter.discover_models: whatever fails lists nothing.
Listed(b, e) ==
    IF "discover_models" \in Endpoint(b) /\ e.answer \in {"own", "another"} THEN {e.answer} ELSE {}

\* discover_models(); OllamaAdapter believes its command line first.
Discover(b, e) ==
    IF OllamaCli(b, e) /\ e.listing \notin {{}, {"fails"}} THEN e.listing ELSE Listed(b, e)

\* list_loaded_models()
Loaded(b, e) ==
    IF b.managed THEN IF e.running THEN {"own"} ELSE {}
    ELSE IF OllamaCli(b, e) THEN e.ps \ {"fails"} ELSE {}
-----------------------------------------------------------------------------
(* The state of a runtime, made of the answers above in two places.        *)

Missing(b, e) ==
    CASE b.managed /\ Installed(b, e) = {} -> "command"
      [] Provider(b) = "ollama" /\ ~({"list_loaded_models", "unload_model"} \subseteq Supported(b, e)) -> "ollama"
      [] Provider(b) = "lmstudio" /\ Installed(b, e) = {} -> "lms"
      [] OTHER -> "none"

\* _install_hint: what the user is told to do first.
Hint(b, e) ==
    IF Provider(b) = "openai_compatible_hosted" THEN "hosted"
    ELSE IF Provider(b) \in {"lmstudio", "ollama"} /\ ~Reachable(b, e) THEN "start"
    ELSE IF Missing(b, e) # "none" THEN "install"
    ELSE IF ~Reachable(b, e) /\ (Provider(b) # "managed_openai_compatible" \/ b.local) THEN "start"
    ELSE "none"

\* runtime_state_for_backend asks for everything.
RuntimeState(b, e) ==
    [provider |-> Provider(b), supported |-> Supported(b, e), installed |-> Installed(b, e),
     health |-> Health(b, e), models |-> Discover(b, e), loaded |-> Loaded(b, e),
     missing |-> Missing(b, e), hint |-> Hint(b, e)]

\* _runtime_state_from_adapter asks for what is supported.
StateFromAdapter(b, e) ==
    [RuntimeState(b, e) EXCEPT
        !.models = IF "discover_models" \in Supported(b, e) THEN @ ELSE {},
        !.loaded = IF "list_loaded_models" \in Supported(b, e) THEN @ ELSE {}]
-----------------------------------------------------------------------------
(* What is made of it.  "detected" is true of every backend with a URL.    *)

\* _next_action_for_status of the command line's doctor.
DoctorAction(s) ==
    CASE s.hint # "none" \/ s.missing # "none" -> "install guide"
      [] s.hint = "none" /\ s.missing = "none" /\ s.health \in {"unreachable", "error"} -> "connect"
      [] s.hint = "none" /\ s.missing = "none" /\ s.health = "unsupported" -> "configure"
      [] OTHER -> "view details"

\* _runtime_next_action of the settings page.
PanelAction(s) ==
    IF /\ s.hint = "none" /\ s.missing = "none"
       /\ "start_server" \in s.supported /\ s.health \in {"unreachable", "error"}
    THEN "start" ELSE DoctorAction(s)

DoctorOk(states) == \A s \in states : DoctorAction(s) = "view details"

\* _runtime_model_guidance
Guidance(s) ==
    CASE "own" \in s.models -> "visible"
      [] s.models # {} /\ "own" \notin s.models -> "replace"
      [] OTHER -> "none detected"

\* _adapter_dot
Dot(b, s, active) ==
    CASE s.health = "ready" -> "green"
      [] s.health \in {"degraded", "error"} -> "red"
      [] OTHER -> IF active \/ b.managed THEN "yellow" ELSE "green"

\* _runtime_mutating_action: the status an action on the model comes to.  The empty
\* model is refused before the adapter is asked.
Act(b, e, action, model) ==
    LET own == model = "own"
        Of(done, already) == CASE e.does = "done" -> done [] e.does = "already" -> already [] OTHER -> e.does
    IN CASE action \notin Supported(b, e) -> "unsupported"
         [] action \in Supported(b, e) /\ action \in {"load_model", "unload_model"} /\ model = "" -> "bad request"
         [] action \in Supported(b, e) /\ b.managed /\ action \in {"load_model", "unload_model"}
                /\ model \notin {"", "own"} -> "invalid_request"
         [] action \in Supported(b, e) /\ action = "start_server" -> Of("started", "already_running")
         [] action \in Supported(b, e) /\ action = "stop_server" -> Of("stopped", "not_running")
         [] action \in Supported(b, e) /\ action = "load_model" /\ own -> Of("loaded", "already_loaded")
         [] OTHER -> IF b.managed THEN Of("unloaded", "not_loaded")
                     ELSE IF e.does \in {"done", "already"} THEN "unloaded" ELSE "error"
Did(status) == status \notin {"unsupported", "bad request", "invalid_request", "blocked", "error"}
-----------------------------------------------------------------------------
(* Properties of a backend b on a machine e.                               *)

\* The settings page and the admin action runtime.status assemble the state of a
\* runtime separately, the one asking for everything and the other for what is
\* supported: they say the same.
PanelsAgree(b, e) == RuntimeState(b, e) = StateFromAdapter(b, e)

\* The page and the command line's doctor recommend the same step.  (So the page
\* never recommends to start a runtime, which docs/runtime-install-flow.md lists
\* among its steps: whoever could be started has a hint, and the hint goes first.)
ActionsAgree(b, e) == PanelAction(RuntimeState(b, e)) = DoctorAction(RuntimeState(b, e))

\* A doctor without guidance means runtimes that answer, and nothing to install.
DoctorTellsDown(b, e) ==
    DoctorOk({RuntimeState(b, e)}) => Reachable(b, e) /\ Missing(b, e) = "none"

\* The endpoint of a hosted backend is not asked unless a route goes there: what
\* it would answer makes no difference to what the page says.
HostedIsSilent(b, e) ==
    ~b.local => \A a \in Answers : RuntimeState(b, [e EXCEPT !.answer = a]) = RuntimeState(b, e)

\* Health and model guidance come from two questions, and for ollama of two
\* sources: a healthy runtime's models are listed, and without a command line that
\* is believed first the configured one is visible just when the runtime is ready.
GuidanceFitsHealth(b, e) ==
    LET s == RuntimeState(b, e)
    IN /\ s.health = "ready" => s.models # {}
       /\ OllamaCli(b, e) \/ (s.health = "ready" <=> Guidance(s) = "visible")

\* No action starts, stops or changes a runtime that is not ModelRouter's own,
\* but for the unloading of a model that ollama's command line is asked for.
ExternalIsLeftAlone(b, e) ==
    \A action \in Actions, model \in {"", "own", "another"} :
        ~b.managed /\ Did(Act(b, e, action, model)) => action = "unload_model" /\ OllamaCli(b, e)
=============================================================================
