----------------------------- MODULE SetupPlans -----------------------------
(***************************************************************************)
(* The setup assistant (setup_assistant.py) and the wizard (cli.py): a     *)
(* scan of the machine, the configuration recommended from it, the file    *)
(* written from a recommendation or from the wizard's answers, and the     *)
(* downloads that follow.                                                  *)
(*   machine   [commands, keys, disk]: what is installed, set and there    *)
(*   model     [repo, roles, path]                                         *)
(*   found     [commands, keys, models]: a scan; models is a sequence      *)
(*   engine    [enabled, model, env, commands, paths]: what it runs and    *)
(*             what its availability requires; a patch has some of the     *)
(*             fields                                                      *)
(*   config    [targets, engines], as the file has it                      *)
(*   advice    [route |-> repositories to download, the best first]        *)
(* The seven routes, whose local engines are their roles, are three here:  *)
(* the one with agents, the one with a hosted API and one with neither.    *)
(***************************************************************************)
EXTENDS Naturals, Sequences, FiniteSets, SequencesExt, FiniteSetsExt

LocalEngine == [simple |-> "fast_local", coding |-> "code_agent", vision |-> "multimodal_vision"]
Routes == DOMAIN LocalEngine
Roles == {LocalEngine[r] : r \in Routes}
Required == Roles \cup {"human_confirm"}
Known == Required \cup {"claude_code", "codex", "openai_api"}

Command == [claude_code |-> "claude", codex |-> "codex"]
Key == [openai_api |-> "OPENAI_API_KEY"]
-----------------------------------------------------------------------------
(* The scan.  A root lists models or, when it is itself a model's          *)
(* directory, that one; a repository seen in an earlier root is skipped.   *)

Scan(roots) ==
    FoldLeft(LAMBDA seen, m : IF \E i \in DOMAIN seen : seen[i].repo = m.repo THEN seen ELSE Append(seen, m),
             <<>>, FlattenSeq(roots))

Discovery(machine, roots) ==
    [commands |-> machine.commands, keys |-> machine.keys, models |-> Scan(roots)]
-----------------------------------------------------------------------------
(* Recommendation.                                                         *)

\* The engine needs the model's directory, or the command, or the key.
LocalPatch(m) == [enabled |-> TRUE, model |-> m.repo, paths |-> {m.path}]
DownloadDir(route, repo) == <<"models", route, repo>>
DownloadPatch(role, repo) == [enabled |-> TRUE, model |-> repo, paths |-> {DownloadDir(role, repo)}]
CommandPatch(engine) == [enabled |-> TRUE, commands |-> {Command[engine]}]
KeyPatch(engine) == [enabled |-> TRUE, env |-> {Key[engine]}]

\* The best score, the first of equals.
BestLocal(models, role, score) ==
    LET fit == {i \in DOMAIN models : role \in models[i].roles}
        best == {i \in fit : \A j \in fit : score[models[j].repo] <= score[models[i].repo]}
    IN models[Min(best)]

Matched(models) == {role \in Roles : \E i \in DOMAIN models : role \in models[i].roles}

\* recommend_setup.  Downloads are suggested for every role with advice, also for
\* one that a local model serves; only the others' engines are patched with them.
Recommend(found, score, advice) ==
    LET agent == IF "claude" \in found.commands THEN {"claude_code"}
                 ELSE IF "codex" \in found.commands THEN {"codex"} ELSE {}
        hosted == {e \in DOMAIN Key : Key[e] \in found.keys}
        local == Matched(found.models)
        missing == {role \in DOMAIN advice : advice[role] # <<>>} \ local
    IN [targets     |-> [r \in Routes |-> IF r = "coding" /\ agent # {} THEN CHOOSE e \in agent : TRUE
                                          ELSE LocalEngine[r]],
        overrides   |-> [e \in agent \cup hosted \cup local \cup missing |->
                           IF e \in agent THEN CommandPatch(e) ELSE IF e \in hosted THEN KeyPatch(e)
                           ELSE IF e \in local THEN LocalPatch(BestLocal(found.models, e, score))
                           ELSE DownloadPatch(e, advice[e][1])],
        suggestions |-> UNION {{<<role, repo>> : repo \in Range(advice[role])} : role \in DOMAIN advice}]
-----------------------------------------------------------------------------
(* Writing.                                                                *)

Loads(config) ==
    /\ Required \subseteq DOMAIN config.engines
    /\ \A r \in DOMAIN config.targets : config.targets[r] \in DOMAIN config.engines

\* _deep_update: what the patch has goes first, the rest of the entry stays.
Patched(entry, patch) ==
    [k \in DOMAIN patch \cup DOMAIN entry |-> IF k \in DOMAIN patch THEN patch[k] ELSE entry[k]]

\* write_config_from_recommendation: patches of engines the base does not have are
\* dropped, the targets are not.
Written(base, rec) ==
    [targets |-> Patched(base.targets, rec.targets),
     engines |-> [e \in DOMAIN base.engines |->
        IF e \in DOMAIN rec.overrides THEN Patched(base.engines[e], rec.overrides[e]) ELSE base.engines[e]]]

NoFile == [targets |-> <<>>, engines |-> <<>>]

\* file is the file there is, base the one the new file is made from.
SetupWrite(file, base, rec, force) ==
    IF file # NoFile /\ ~force THEN [written |-> FALSE, file |-> file]
    ELSE [written |-> TRUE, file |-> Written(base, rec)]
-----------------------------------------------------------------------------
(* The wizard.  For every route the user keeps the default or picks one of *)
(* the choices: <<"keep">>, <<"model", i>>, <<"download">> or              *)
(* <<"engine", e>>, e being listed or typed.                               *)

WizardChoices(route, found, advice) ==
    {<<"keep">>} \cup {<<"model", i>> : i \in DOMAIN found.models}
    \cup (IF LocalEngine[route] \in DOMAIN advice /\ advice[LocalEngine[route]] # <<>> THEN {<<"download">>} ELSE {})
    \cup {<<"engine", e>> : e \in Known}

\* The current target is the default of a wizard that starts with a file that
\* loads.  (The file is the base of what is written then.)
Default(route, mode, file, found, rec) ==
    IF file # NoFile /\ Loads(file) THEN file.targets[route]
    ELSE CASE mode = "local" -> LocalEngine[route]
           [] mode = "api" -> IF route = "coding" /\ "claude" \in found.commands THEN "claude_code"
                              ELSE IF route = "coding" /\ "codex" \in found.commands THEN "codex"
                              ELSE IF route = "simple" /\ "OPENAI_API_KEY" \in found.keys THEN "openai_api"
                              ELSE LocalEngine[route]
           [] mode = "mixed" -> rec.targets[route]

Wizard(answers, mode, file, found, rec, advice) ==
    LET picked(kind) == {r \in Routes : answers[r][1] = kind}
        own == picked("model") \cup picked("download")
        targets == [r \in Routes |-> CASE answers[r][1] = "keep" -> Default(r, mode, file, found, rec)
                                       [] answers[r][1] = "engine" -> answers[r][2]
                                       [] OTHER -> LocalEngine[r]]
        used == {targets[r] : r \in Routes}
        route(e) == CHOOSE r \in Routes : LocalEngine[r] = e
        patch(r) == IF answers[r][1] = "model" THEN LocalPatch(found.models[answers[r][2]])
                    ELSE DownloadPatch(LocalEngine[r], advice[LocalEngine[r]][1])
        agents == used \cap DOMAIN Command
        hosted == used \cap DOMAIN Key
    IN [targets     |-> Patched(targets, [confirmation |-> "human_confirm"]),
        overrides   |-> [e \in agents \cup hosted \cup {LocalEngine[r] : r \in own} |->
                           IF e \in agents THEN CommandPatch(e) ELSE IF e \in hosted THEN KeyPatch(e)
                           ELSE patch(route(e))],
        suggestions |-> {<<LocalEngine[r], advice[LocalEngine[r]][1]>> : r \in picked("download")}]

\* The file is asked about twice; a yes overwrites it.
WizardWrite(file, default, rec, yes) ==
    SetupWrite(file, IF file # NoFile /\ Loads(file) THEN file ELSE default, rec, yes)
-----------------------------------------------------------------------------
(* Downloads and prerequisites: one command per step, none run without     *)
(* execute and a confirmation; exit[i] is the i-th command's end.          *)

Execute(steps, execute, confirmed, exit) ==
    LET status(i) ==
            IF ~execute THEN "planned" ELSE IF ~confirmed THEN "confirmation_required"
            ELSE IF ~steps[i].executable THEN "blocked" ELSE exit[i]
    IN [executed |-> execute /\ confirmed /\ (steps # <<>> => \E i \in DOMAIN steps : steps[i].executable),
        results  |-> [i \in DOMAIN steps |-> status(i)]]

Succeeded(run) == \A i \in DOMAIN run.results : run.results[i] \in {"planned", "completed"}

\* _prereq_install_strategy: what installs packages into this interpreter.
Strategy(method, pip, uv) ==
    IF method = "pipx" THEN "pipx" ELSE IF pip THEN "pip" ELSE IF uv THEN "uv" ELSE "pip_missing"

PrereqSteps(packages, method, pip, uv) ==
    [i \in DOMAIN packages |-> [package |-> packages[i], executable |-> Strategy(method, pip, uv) # "pip_missing"]]

PrereqPackages(preset) ==
    <<"fastapi", "httpx", "uvicorn", "huggingface_hub">> \o (IF preset \in {"mlx-lm", "all"} THEN <<"mlx-lm">> ELSE <<>>)
-----------------------------------------------------------------------------
(* Availability (availability.py).                                         *)

Available(engine, machine) ==
    engine.env \subseteq machine.keys /\ engine.commands \subseteq machine.commands
    /\ engine.paths \subseteq machine.disk

AfterDownloads(machine, suggestions) ==
    [machine EXCEPT !.disk = @ \cup {DownloadDir(s[1], s[2]) : s \in suggestions}]
-----------------------------------------------------------------------------
(* Properties.                                                             *)

\* What setup writes loads, if the base does and has the engines the assistant
\* knows.  (A base without an agent's or an API's engine may be written with a
\* target that names it: the patch is dropped, the target is not, and the file
\* that is written no longer loads.)
WrittenLoads(base, rec) == Loads(base) /\ Known \subseteq DOMAIN base.engines => Loads(Written(base, rec))

\* Setup keeps what it was not asked about: the user's engines, and of the others
\* whatever the machine's findings do not decide; and it never writes a file that
\* is there without a yes.
KeepsTheRest(file, base, rec) ==
    LET out == Written(base, rec) IN
    /\ SetupWrite(file, base, rec, FALSE).file \in {file} \cup (IF file = NoFile THEN {out} ELSE {})
    /\ DOMAIN out.engines = DOMAIN base.engines
    /\ \A e \in DOMAIN base.engines \ Known : out.engines[e] = base.engines[e]
    /\ \A e \in DOMAIN base.engines \cap {"claude_code", "codex", "openai_api"} :
           /\ out.engines[e].model = base.engines[e].model
           /\ out.engines[e].paths = base.engines[e].paths
    /\ \A r \in DOMAIN base.targets \ DOMAIN rec.targets : out.targets[r] = base.targets[r]

\* Once the suggested downloads are complete, every engine that setup decided about
\* and that a route uses finds what it requires, unless the base required more.
RoutesServed(base, rec, found, machine) ==
    LET out == Written(base, rec)
        later == AfterDownloads(machine, rec.suggestions)
        ready(e) == LET p == rec.overrides[e] IN
            /\ "env" \notin DOMAIN p => base.engines[e].env \subseteq machine.keys
            /\ "commands" \notin DOMAIN p => base.engines[e].commands \subseteq machine.commands
            /\ "paths" \notin DOMAIN p => base.engines[e].paths \subseteq machine.disk
        seen(e) == e \in DOMAIN Command => Command[e] \in found.commands
        set(e) == e \in DOMAIN Key => Key[e] \in found.keys
    IN \A r \in Routes :
         LET e == out.targets[r] IN
         e \in DOMAIN rec.overrides \cap DOMAIN base.engines /\ ready(e) /\ seen(e) /\ set(e)
         => out.engines[e].enabled /\ Available(out.engines[e], later)

\* A local role gets a model that has the role, and none with it scores better.
BestIsChosen(found, rec, score) ==
    \A role \in Matched(found.models) :
        LET fit == {i \in DOMAIN found.models : role \in found.models[i].roles}
        IN \E i \in fit : /\ rec.overrides[role] = LocalPatch(found.models[i])
                          /\ \A j \in fit : score[found.models[j].repo] <= score[found.models[i].repo]

\* A run reports every step once and in order, whatever became of the ones before;
\* it succeeded just when every command that had to run did, and nothing runs
\* without both execute and a confirmation.
RunIsHonest(steps, execute, confirmed, exit) ==
    LET run == Execute(steps, execute, confirmed, exit) IN
    /\ Len(run.results) = Len(steps)
    /\ run.executed => execute /\ confirmed
    /\ execute /\ Succeeded(run) => \A i \in DOMAIN steps : steps[i].executable /\ confirmed /\ exit[i] = "completed"
    /\ ~execute => Succeeded(run)
=============================================================================
