---------------------------- MODULE SetupProofs -----------------------------
(***************************************************************************)
(* What setup, init, doctor, the installer and connect promise, of every   *)
(* scan, base, set of decisions, request and machine.                      *)
(*                                                                         *)
(* What is built row by row (settings, suggestions, plans, commands and    *)
(* pages) is a fold, and is known by the set of its rows.  Choices by rank *)
(* or score have a minimal candidate (MinimalIn).  The plan of an install  *)
(* is followed in any order: After says what a machine has once a set of   *)
(* the plan's commands was run.                                            *)
(***************************************************************************)
EXTENDS LibraryProofs

-----------------------------------------------------------------------------
(* First setup (product.py): preset, doctor and files.                     *)

\* What an endpoint may answer.
Heard == {"closed", "silent", "error", "other", "list"}
MachineAnswers(machine) == \A q \in DOMAIN machine.ports : machine.ports[q].answer \in Heard

\* A port that nothing listens at answers too: it is closed.
LEMMA EndpointAnswers ==
    ASSUME NEW machine, MachineAnswers(machine), NEW q
    PROVE  Product!Endpoint(machine, q).answer \in Heard
BY DEF MachineAnswers, Heard, Product!Endpoint

\* Recommended ...
LEMMA PresetAlwaysRuns == \A signals : Product!PresetRuns(signals)
BY DEF Product!PresetRuns, Product!Recommended

\* What the remediation may say of a backend.
Faults(b) ==
    {<<"placeholder", b>>, <<"command_missing", b>>, <<"port_in_use", b>>, <<"model_missing", b>>, <<"start_separately", b>>}

\* doctor (product.py): whatever it finds, a backend that is not fine is named.
THEOREM DoctorAlwaysExplains ==
    ASSUME NEW config, NEW machine, MachineAnswers(machine)
    PROVE  Product!DoctorExplains(config, machine)
<1> DEFINE report == Product!Doctor(config, machine)
           proxy == config.proxy
           health(b) == Product!BackendHealth(proxy[b], machine)
           managed == {b \in DOMAIN proxy : proxy[b].runtime # None}
           down == {b \in DOMAIN proxy : ~health(b).reachable}
           words == Product!Remediation(proxy, machine)
           Named(b) == \E r \in words : r \in Faults(b)
<1>1. SUFFICES ASSUME ~report.ok, config.loads,
                      \A b \in DOMAIN proxy : Product!Endpoint(machine, proxy[b].port).answer # "error"
               PROVE  \/ <<"fix_router_config">> \in report.remediation
                      \/ \A b \in DOMAIN proxy : ~Product!BackendOk(proxy[b], machine)
                              => \E r \in report.remediation : r \in Faults(b)
  BY DEF Product!DoctorExplains, Faults
<1>2. /\ ~config.router => <<"fix_router_config">> \in report.remediation
      /\ words \subseteq report.remediation
  BY <1>1 DEF Product!Doctor
<1>3. ASSUME NEW b \in DOMAIN proxy, ~Product!BackendOk(proxy[b], machine) PROVE Named(b)
  <2> DEFINE e == Product!Endpoint(machine, proxy[b].port)
  <2>1. e.answer \in Heard /\ e.answer # "error"
    BY <1>1, EndpointAnswers
  <2>2. /\ health(b).reachable <=> e.answer \in {"error", "other", "list"}
        /\ health(b).ok <=> e.answer \in {"other", "list"} /\ ~(e.answer = "list" /\ proxy[b].model \notin e.models)
        /\ health(b).unlisted <=> (e.answer = "list" /\ proxy[b].model \notin e.models)
    BY DEF Product!BackendHealth
  <2>3. ~health(b).ok
    BY <1>3 DEF Product!BackendOk
  <2>4. CASE b \notin managed
    <3>1. <<"start_separately", b>> \in words
      BY <2>4 DEF Product!Remediation
    <3> QED
      BY <3>1 DEF Faults
  <2>5. CASE b \in managed /\ Product!HasPlaceholder(proxy[b])
    <3>1. <<"placeholder", b>> \in words
      BY <2>5 DEF Product!Remediation
    <3> QED
      BY <3>1 DEF Faults
  <2>6. CASE b \in managed /\ ~Product!CommandAvailable(proxy[b], machine)
    <3>1. <<"command_missing", b>> \in words
      BY <2>6 DEF Product!Remediation
    <3> QED
      BY <3>1 DEF Faults
  <2>7. CASE b \in managed \cap down /\ Product!PortOpen(machine, proxy[b].runtime.readiness)
    <3>1. <<"port_in_use", b>> \in words
      BY <2>7 DEF Product!Remediation
    <3> QED
      BY <3>1 DEF Faults
  <2>8. CASE b \notin managed \cap down /\ health(b).unlisted
    <3>1. <<"model_missing", b>> \in words
      BY <2>8 DEF Product!Remediation
    <3> QED
      BY <3>1 DEF Faults
  <2>9. health(b).unlisted \/ ~health(b).reachable
    <3> HIDE DEF health, e
    <3> QED
      BY <2>1, <2>2, <2>3 DEF Heard
  <2>10. b \in managed /\ ~Product!HasPlaceholder(proxy[b]) /\ Product!CommandAvailable(proxy[b], machine)
            => Product!PortOpen(machine, proxy[b].runtime.readiness)
    BY <1>3 DEF Product!BackendOk
  <2>11. health(b).unlisted => b \notin down
    <3>1. health(b).unlisted => health(b).reachable
      BY <2>2
    <3> QED
      BY <3>1 DEF Faults
  <2> QED
    BY <2>4, <2>5, <2>6, <2>7, <2>8, <2>9, <2>10, <2>11
<1> HIDE DEF report, words
<1> QED
  BY <1>2, <1>3

\* The files init writes.
ConfigFiles == [{"router", "proxy"} -> {"absent", "old", "torn"}]

\* initialize_product_config (product.py): two writes, each of which may be refused or fail.
LEMMA InitAlwaysKeeps ==
    ASSUME NEW disk \in ConfigFiles, NEW args, args.fails \in {None, "router", "proxy"}
    PROVE  Product!InitKeeps(disk, args)
<1> DEFINE first == Product!WriteOrSkip(disk, "router", "new", args)
           both == Product!WriteOrSkip(first, "proxy", "new", args)
           Kept(file) == disk[file] # "absent" /\ ~args.force
           Made(file) == IF Kept(file) THEN disk[file] ELSE IF args.fails = file THEN "torn" ELSE "new"
<1>1. DOMAIN disk = {"router", "proxy"} /\ disk["router"] \in {"absent", "old", "torn"}
        /\ disk["proxy"] \in {"absent", "old", "torn"}
  BY DEF ConfigFiles
<1>2. /\ DOMAIN first = {"router", "proxy"}
      /\ first["router"] = Made("router") /\ first["proxy"] = disk["proxy"]
  BY <1>1 DEF Product!WriteOrSkip
<1>3. /\ DOMAIN both = {"router", "proxy"}
      /\ both["router"] = Made("router") /\ both["proxy"] = Made("proxy")
  <2> HIDE DEF first
  <2> QED
    BY <1>1, <1>2 DEF Product!WriteOrSkip
<1>4. /\ Product!Fails(disk, args) <=> args.fails \in {"router", "proxy"} /\ ~Kept(args.fails)
      /\ Product!Skipped(disk, args) = {} <=> ~Kept("router") /\ ~Kept("proxy")
  BY <1>1, NoneAssumption DEF Product!Fails, Product!Skipped
<1> DEFINE made == Product!InitializeConfig(disk, args)
<1> HIDE DEF first, both
<1>5. ASSUME NEW a, NEW b, made = [disk |-> a, ok |-> b],
             \A file \in DOMAIN disk : Kept(file) => a[file] = disk[file],
             b <=> \A file \in DOMAIN disk : a[file] = "new"
      PROVE  Product!InitKeeps(disk, args)
  BY <1>5 DEF Product!InitKeeps
<1>6. CASE args.preset # None /\ args.auto
  <2>1. made = [disk |-> disk, ok |-> FALSE]
    BY <1>6 DEF Product!InitializeConfig
  <2> QED
    BY <1>1, <1>5, <2>1
<1>7. CASE ~(args.preset # None /\ args.auto) /\ Product!Fails(disk, args) /\ args.fails = "router"
  <2>1. made = [disk |-> first, ok |-> FALSE]
    BY <1>7 DEF Product!InitializeConfig, first
  <2>2. first["router"] = "torn"
    BY <1>2, <1>4, <1>7
  <2> QED
    BY <1>1, <1>2, <1>5, <2>1, <2>2
<1>8. CASE ~(args.preset # None /\ args.auto) /\ ~(Product!Fails(disk, args) /\ args.fails = "router")
  <2>1. made = [disk |-> both, ok |-> ~Product!Fails(disk, args) /\ Product!Skipped(disk, args) = {}]
    BY <1>8 DEF Product!InitializeConfig, first, both
  <2>2. (~Product!Fails(disk, args) /\ Product!Skipped(disk, args) = {}) <=> \A file \in DOMAIN disk : both[file] = "new"
    BY <1>1, <1>3, <1>4, <1>8, NoneAssumption
  <2> QED
    BY <1>1, <1>3, <1>5, <2>1, <2>2
<1> QED
  BY <1>6, <1>7, <1>8

-----------------------------------------------------------------------------
(* First setup: what init fills in.                                        *)

\* The command of a backend serves at its port the model that it is asked for.
Fits(backend) ==
    LET word == backend.runtime.model IN
    backend.runtime # None =>
      /\ backend.runtime.port = backend.port /\ backend.runtime.readiness = backend.port
      /\ Product!IsPlaceholder(backend.model) => Product!IsPlaceholder(word)
      /\ backend.model = IF word[1] = "file" THEN <<"stem", word[2]>> ELSE word

\* doctor is content with such a backend just when its first request will be served.
LEMMA FitIsOk ==
    ASSUME NEW backend, NEW machine, Fits(backend)
    PROVE  Product!BackendOk(backend, machine) <=> Product!FirstRequestServed(backend, machine)
<1> DEFINE e == Product!Endpoint(machine, backend.port)
<1>1. Product!BackendHealth(backend, machine).ok
        <=> e.answer = "other" \/ (e.answer = "list" /\ backend.model \in e.models)
  BY DEF Product!BackendHealth
<1>2. CASE backend.runtime = None
  BY <1>1, <1>2 DEF Product!BackendOk, Product!FirstRequestServed
<1>3. CASE backend.runtime # None
  <2>1. Product!HasPlaceholder(backend) <=> Product!IsPlaceholder(backend.runtime.model)
    BY <1>3 DEF Fits, Product!HasPlaceholder
  <2>2. Product!PortOpen(machine, backend.runtime.readiness) <=> e.answer # "closed"
    BY <1>3 DEF Fits, Product!PortOpen
  <2> QED
    BY <1>1, <1>3, <2>1, <2>2 DEF Product!BackendOk, Product!FirstRequestServed, Fits, Product!CommandAvailable
<1> QED
  BY <1>2, <1>3

\* At the port of its preset; only a managed preset has commands.
AtPort(backend, preset, b) ==
    /\ DOMAIN backend = {"preset", "port", "model", "runtime"}
    /\ backend.port = Product!Port(preset, b)
    /\ backend.runtime # None => preset \in Product!Managed /\ backend.runtime.port = Product!Port(preset, b)

\* What the templates (product.py) promise of a backend.
LEMMA TemplateFits ==
    ASSUME NEW preset, NEW b \in Product!Backends
    PROVE  /\ Fits(Product!Template(preset)[b]) /\ AtPort(Product!Template(preset)[b], preset, b)
           /\ preset = "mlx-lm" => /\ Product!Template(preset)[b].runtime =
                                         Product!Runtime("mlx_lm.server", Product!Placeholder(b), Product!Port(preset, b))
                                   /\ Product!Template(preset)[b].model = Product!Placeholder(b)
<1> DEFINE word == IF preset = "mlx-lm" THEN Product!Placeholder(b) ELSE <<preset, b>>
           port == Product!Port(preset, b)
           t == [preset |-> preset, port |-> port, model |-> word,
                 runtime |-> IF preset = "mlx-lm" THEN Product!Runtime("mlx_lm.server", word, port) ELSE None]
<1>1. Product!Template(preset)[b] = t
  BY DEF Product!Template
<1>2. Product!Placeholder(b)[1] = "REPLACE_WITH"
  BY DEF Product!Placeholder
<1> QED
  BY <1>1, <1>2 DEF Fits, AtPort, Product!Managed, Product!Runtime, Product!IsPlaceholder

\* What a model m makes of a backend.
LEMMA ReplacedIs ==
    ASSUME NEW t, DOMAIN t = {"preset", "port", "model", "runtime"}, t.runtime # None,
           t.runtime = Product!Runtime("mlx_lm.server", t.model, t.port), NEW word
    PROVE  LET r == Product!ReplaceModel(t, word) IN
           /\ DOMAIN r = {"preset", "port", "model", "runtime"}
           /\ r.port = t.port /\ r.model = word /\ r.runtime = Product!Runtime("mlx_lm.server", word, t.port)
BY DEF Product!ReplaceModel, Product!Runtime

\* _apply_selected_proxy_model (product.py) keeps command and backend together.
LEMMA AppliedFits ==
    ASSUME NEW preset \in Product!Managed, NEW b \in Product!Backends, NEW m
    PROVE  LET r == Product!ApplyModel(Product!Template(preset)[b], preset, m) IN
           /\ Fits(r) /\ AtPort(r, preset, b)
           /\ preset = "llamacpp" /\ m.file => r.model = Product!Stem(m) /\ r.runtime.model = Product!GgufFile(m)
           /\ preset = "mlx-lm" /\ Product!Template(preset)[b].runtime # None
                   => r.model = Product!MlxReference(m) /\ r.runtime.model = r.model
<1> DEFINE t == Product!Template(preset)[b]
           r == Product!ApplyModel(t, preset, m)
<1>1. Fits(t) /\ AtPort(t, preset, b)
  BY TemplateFits
<1>2. CASE preset = "mlx-lm"
  <2> DEFINE word == Product!MlxReference(m)
  <2>1. word[1] \in {"repo", "path"}
    BY DEF Product!MlxReference
  <2>2. r = Product!ReplaceModel(t, word)
    BY <1>2 DEF Product!ApplyModel
  <2>3. t.runtime = Product!Runtime("mlx_lm.server", t.model, t.port) /\ DOMAIN t = {"preset", "port", "model", "runtime"}
    BY <1>1, <1>2, TemplateFits DEF AtPort
  <2>4. CASE t.runtime = None
    <3>1. r.runtime = None /\ r.port = t.port /\ DOMAIN r = DOMAIN t
      BY <2>2, <2>3, <2>4 DEF Product!ReplaceModel
    <3> QED
      BY <1>1, <1>2, <2>4, <3>1 DEF Fits, AtPort
  <2>5. CASE t.runtime # None
    <3>1. /\ DOMAIN r = {"preset", "port", "model", "runtime"}
          /\ r.port = t.port /\ r.model = word /\ r.runtime = Product!Runtime("mlx_lm.server", word, t.port)
      BY <2>2, <2>3, <2>5, ReplacedIs
    <3>2. r.runtime.model = word /\ r.runtime.port = t.port /\ r.runtime.readiness = t.port
      BY <3>1 DEF Product!Runtime
    <3> HIDE DEF r, t, word
    <3>3. Fits(r)
      BY <2>1, <3>1, <3>2 DEF Fits
    <3>4. AtPort(r, preset, b)
      BY <1>1, <1>2, <3>1, <3>2 DEF AtPort
    <3> QED
      BY <3>1, <3>2, <3>3, <3>4, <1>2 DEF r, t, word
  <2> QED
    BY <2>4, <2>5
<1>3. CASE preset = "llamacpp" /\ ~m.file
  <2>1. r = t
    BY <1>3 DEF Product!ApplyModel
  <2> QED
    BY <1>1, <1>3, <2>1
<1>4. CASE preset = "llamacpp" /\ m.file
  <2>1. r = [t EXCEPT !.model = Product!Stem(m), !.runtime = Product!Runtime("llama-server", Product!GgufFile(m), t.port)]
    BY <1>4 DEF Product!ApplyModel
  <2>2. DOMAIN t = {"preset", "port", "model", "runtime"}
    BY <1>1 DEF AtPort
  <2> HIDE DEF r, t
  <2>3. /\ DOMAIN r = {"preset", "port", "model", "runtime"} /\ r.port = t.port /\ r.model = Product!Stem(m)
        /\ r.runtime = Product!Runtime("llama-server", Product!GgufFile(m), t.port)
    BY <2>1, <2>2
  <2>4. r.runtime.model = Product!GgufFile(m) /\ r.runtime.port = t.port /\ r.runtime.readiness = t.port
    BY <2>3 DEF Product!Runtime
  <2>5. Fits(r)
    BY <2>3, <2>4 DEF Fits, Product!GgufFile, Product!Stem, Product!IsPlaceholder
  <2>6. AtPort(r, preset, b)
    BY <1>1, <1>4, <2>3, <2>4 DEF AtPort, Product!Managed
  <2> QED
    BY <2>3, <2>4, <2>5, <2>6, <1>4 DEF r, t
<1> QED
  BY <1>2, <1>3, <1>4 DEF Product!Managed

\* The backends of an init, before its questions.
Filled(args, signals, models) ==
    LET preset == Product!SelectPreset(args, signals)
    IN IF args.autoModels THEN Product!AutoModels(Product!Template(preset), preset, models) ELSE Product!Template(preset)

\* So init does, with models that were found and without.
LEMMA FilledFits ==
    ASSUME NEW args, NEW signals, NEW models, NEW b \in Product!Backends
    PROVE  /\ Fits(Filled(args, signals, models)[b])
           /\ AtPort(Filled(args, signals, models)[b], Product!SelectPreset(args, signals), b)
<1> DEFINE preset == Product!SelectPreset(args, signals)
           t == Product!Template(preset)
           m == Product!SelectProxyModel(models, Product!Route[b], preset)
<1> HIDE DEF preset
<1>1. Fits(t[b]) /\ AtPort(t[b], preset, b)
  BY TemplateFits
<1>2. CASE args.autoModels /\ preset \in Product!Managed
  <2>1. Filled(args, signals, models)[b] = IF m = None THEN t[b] ELSE Product!ApplyModel(t[b], preset, m)
    BY <1>2 DEF Filled, Product!AutoModels, preset
  <2>2. Fits(Product!ApplyModel(t[b], preset, m)) /\ AtPort(Product!ApplyModel(t[b], preset, m), preset, b)
    BY <1>2, AppliedFits
  <2> QED
    BY <1>1, <2>1, <2>2 DEF preset
<1>3. CASE ~(args.autoModels /\ preset \in Product!Managed)
  <2>1. Filled(args, signals, models)[b] = t[b]
    BY <1>3 DEF Filled, Product!AutoModels, preset
  <2> QED
    BY <1>1, <2>1 DEF preset
<1> QED
  BY <1>2, <1>3

\* An answer to a question changes the model of its backend, and nothing else.
LEMMA CustomizedIs ==
    ASSUME NEW args, NEW signals, NEW models
    PROVE  LET proxy == Product!ProxyData(args, signals, models) IN
           /\ DOMAIN proxy = Product!Backends
           /\ \A b \in Product!Backends :
                LET f == Filled(args, signals, models)[b] IN
                /\ b \notin DOMAIN args.edits => proxy[b] = f
                /\ b \in DOMAIN args.edits => proxy[b] = [f EXCEPT !.model = args.edits[b]]
BY DEF Product!ProxyData, Product!Customized, Filled

\* A proxy configuration that init has filled in, and that nobody has edited, is what doctor
\* takes it for.
THEOREM InitAlwaysThenDoctor ==
    ASSUME NEW args, NEW signals, NEW models, NEW machine
    PROVE  Product!InitThenDoctor(args, signals, models, machine)
<1> DEFINE proxy == Product!ProxyData(args, signals, models)
           filled == Filled(args, signals, models)
           config == [loads |-> TRUE, router |-> TRUE, proxy |-> proxy]
<1>1. SUFFICES ASSUME args.edits = <<>>
               PROVE  Product!Doctor(config, machine).ok <=> \A b \in Product!Backends : Product!FirstRequestServed(proxy[b], machine)
  BY DEF Product!InitThenDoctor
<1>2. DOMAIN args.edits = {}
  BY <1>1
<1>3. DOMAIN proxy = Product!Backends /\ \A b \in Product!Backends : proxy[b] = Filled(args, signals, models)[b]
  <2>1. \A b \in Product!Backends : b \notin DOMAIN args.edits
    BY <1>2
  <2>2. DOMAIN proxy = Product!Backends
    BY CustomizedIs
  <2>3. ASSUME NEW b \in Product!Backends PROVE b \notin DOMAIN args.edits => proxy[b] = filled[b]
    <3>1. /\ b \notin DOMAIN args.edits => proxy[b] = filled[b]
          /\ b \in DOMAIN args.edits => proxy[b] = [filled[b] EXCEPT !.model = args.edits[b]]
      BY CustomizedIs
    <3> QED
      BY <3>1
  <2> HIDE DEF proxy
  <2> QED
    BY <2>1, <2>2, <2>3
<1>4. \A b \in Product!Backends : Product!BackendOk(proxy[b], machine) <=> Product!FirstRequestServed(proxy[b], machine)
  <2> HIDE DEF proxy
  <2> QED
    BY <1>3, FilledFits, FitIsOk
<1>5. Product!Doctor(config, machine).ok <=> \A b \in DOMAIN proxy : Product!BackendOk(proxy[b], machine)
  <2> HIDE DEF proxy
  <2> QED
    BY DEF Product!Doctor
<1> HIDE DEF proxy, config
<1> QED
  BY <1>3, <1>4, <1>5

\* A model can be told from the absence of one, and has a number for its name.
ScannedModels(models) ==
    /\ models \in Seq({m \in {models[i] : i \in DOMAIN models} : m # None /\ m.repo \in Nat})
    /\ \A b \in Product!Backends : Product!Template("mlx-lm")[b].runtime # None

\* _select_proxy_model (product.py) finds a model when one fits: a rank is least, for ranks are
\* ordered.
LEMMA SelectedFits ==
    ASSUME NEW models, ScannedModels(models), NEW route, NEW preset,
           \E i \in DOMAIN models : Product!Compatible(preset, models[i]) /\ route \in models[i].roles
    PROVE  \E i \in DOMAIN models : /\ Product!SelectProxyModel(models, route, preset) = models[i]
                                    /\ Product!Compatible(preset, models[i]) /\ route \in models[i].roles
<1> DEFINE U == DOMAIN models
           fit == {i \in U : Product!Compatible(preset, models[i]) /\ route \in models[i].roles}
           rank(i) == Product!ModelRank(models[i], route)
           R == {p \in U \X U : Product!Before(rank(p[1]), rank(p[2]))}
<1>1. IsFiniteSet(U)
  <2>1. U = 1..Len(models) /\ Len(models) \in Nat
    BY DEF ScannedModels
  <2>2. 1 \in Int /\ Len(models) \in Int
    BY <2>1
  <2> QED
    BY <2>1, <2>2, FS_Interval
<1>2. \A i \in U : rank(i)[1] \in Nat /\ rank(i)[2] \in Nat /\ rank(i)[3] \in Nat
  <2>1. \A i \in U : models[i].repo \in Nat
    BY DEF ScannedModels
  <2> QED
    BY <2>1 DEF Product!ModelRank
<1> HIDE DEF U, rank
<1>3. \A i, j \in U : <<i, j>> \in R <=> Product!Before(rank(i), rank(j))
  OBVIOUS
<1>4. IsOrder(R, U)
  <2> HIDE DEF R
  <2>1. \A i \in U : <<i, i>> \notin R
    BY <1>2, <1>3 DEF Product!Before
  <2>2. \A x, y, z \in U : <<x, y>> \in R /\ <<y, z>> \in R => <<x, z>> \in R
    BY <1>2, <1>3 DEF Product!Before
  <2> QED
    BY <2>1, <2>2 DEF IsOrder
<1>6. fit \in SUBSET U /\ fit # {}
  BY DEF U
<1>7. \E i \in fit : \A j \in fit : <<j, i>> \notin R
  <2> HIDE DEF R, fit
  <2> QED
    BY <1>1, <1>4, <1>6, MinimalIn
<1> DEFINE chosen == CHOOSE i \in fit : \A j \in fit \ {i} : ~Product!Before(rank(j), rank(i))
<1>8. chosen \in fit
  BY <1>3, <1>6, <1>7
<1>9. Product!SelectProxyModel(models, route, preset) = models[chosen]
  BY <1>6 DEF Product!SelectProxyModel, U, rank
<1> HIDE DEF chosen
<1> QED
  BY <1>8, <1>9 DEF U

\* Every managed backend of init has a port of its own, and the model it could have.
THEOREM ModelsAlwaysChosen ==
    ASSUME NEW args, NEW signals, NEW models, ScannedModels(models)
    PROVE  Product!ModelsChosen(args, signals, models)
<1> DEFINE proxy == Product!ProxyData(args, signals, models)
           preset == Product!SelectPreset(args, signals)
           filled == Filled(args, signals, models)
<1>1. ASSUME NEW b \in Product!Backends
      PROVE  proxy[b].runtime = filled[b].runtime /\ (b \notin DOMAIN args.edits => proxy[b] = filled[b])
  <2>1. AtPort(filled[b], preset, b)
    BY FilledFits
  <2>2. /\ b \notin DOMAIN args.edits => proxy[b] = filled[b]
        /\ b \in DOMAIN args.edits => proxy[b] = [filled[b] EXCEPT !.model = args.edits[b]]
    BY CustomizedIs
  <2> HIDE DEF proxy, filled, preset
  <2> QED
    BY <2>1, <2>2 DEF AtPort
<1>2. \A b \in Product!Backends : proxy[b].runtime # None => preset \in Product!Managed
        /\ proxy[b].runtime.port = Product!Port(preset, b)
  <2>1. \A b \in Product!Backends : AtPort(filled[b], preset, b)
    BY FilledFits
  <2> HIDE DEF proxy, filled, preset
  <2> QED
    BY <1>1, <2>1 DEF AtPort
<1>3. \A a, b \in {b \in Product!Backends : proxy[b].runtime # None} : a # b => proxy[a].runtime.port # proxy[b].runtime.port
  <2> HIDE DEF proxy, preset
  <2>1. \A a, b \in Product!Backends : preset \in Product!Managed /\ a # b => Product!Port(preset, a) # Product!Port(preset, b)
    <3>1. Product!Backends = {"fast", "balanced", "reasoning", "code"}
      BY DEF Product!Backends, Product!Route
    <3>2. \A b \in Product!Backends : /\ Product!Port("llamacpp", b) = 8080 + Product!Offset[b]
                                      /\ Product!Port("mlx-lm", b) = 8090 + Product!Offset[b]
      BY DEF Product!Port
    <3>3. \A a, b \in Product!Backends : a # b => Product!Offset[a] # Product!Offset[b]
      BY <3>1 DEF Product!Offset
    <3>4. \A b \in Product!Backends : Product!Offset[b] \in Nat
      BY <3>1 DEF Product!Offset
    <3> QED
      BY <3>2, <3>3, <3>4 DEF Product!Managed
  <2> QED
    BY <1>2, <2>1
<1>4. ASSUME args.autoModels, preset \in Product!Managed, NEW b \in Product!Backends \ DOMAIN args.edits,
             \A i \in DOMAIN models : preset = "llamacpp" /\ models[i].gguf => models[i].file,
             \E i \in DOMAIN models : Product!Compatible(preset, models[i]) /\ Product!Route[b] \in models[i].roles
      PROVE  /\ ~Product!HasPlaceholder(proxy[b])
             /\ \E i \in DOMAIN models :
                   /\ Product!Route[b] \in models[i].roles /\ Product!Compatible(preset, models[i])
                   /\ proxy[b].model \in {Product!MlxReference(models[i]), Product!Stem(models[i])}
  <2> DEFINE t == Product!Template(preset)[b]
             m == Product!SelectProxyModel(models, Product!Route[b], preset)
             r == Product!ApplyModel(t, preset, m)
  <2>1. PICK i \in DOMAIN models : m = models[i] /\ Product!Compatible(preset, models[i]) /\ Product!Route[b] \in models[i].roles
    <3> HIDE DEF preset
    <3> QED
      BY <1>4, SelectedFits
  <2>2. models[i] # None
    BY DEF ScannedModels
  <2>3. proxy[b] = r
    <3>1. proxy[b] = filled[b]
      BY <1>1, <1>4
    <3>2. filled[b] = IF m = None THEN t ELSE r
      BY <1>4 DEF Filled, Product!AutoModels
    <3> HIDE DEF proxy, filled, r, t, m
    <3> QED
      BY <3>1, <3>2, <2>1, <2>2
  <2>4. preset = "mlx-lm" => t.runtime # None
    BY DEF ScannedModels
  <2>5. /\ preset = "llamacpp" /\ m.file => r.model = Product!Stem(m) /\ r.runtime.model = Product!GgufFile(m)
        /\ preset = "mlx-lm" => r.model = Product!MlxReference(m) /\ r.runtime.model = r.model
    <3> HIDE DEF preset
    <3> QED
      BY <1>4, <2>4, AppliedFits
  <2>6. preset = "llamacpp" => m.file
    BY <1>4, <2>1 DEF Product!Compatible
  <2>7. preset \in {"llamacpp", "mlx-lm"}
    BY <1>4 DEF Product!Managed
  <2> HIDE DEF proxy, r, t, m, preset
  <2>8. ~Product!HasPlaceholder(proxy[b])
    BY <2>3, <2>5, <2>6, <2>7
       DEF Product!HasPlaceholder, Product!IsPlaceholder, Product!Stem, Product!GgufFile, Product!MlxReference
  <2>9. proxy[b].model \in {Product!MlxReference(models[i]), Product!Stem(models[i])}
    BY <2>1, <2>3, <2>5, <2>6, <2>7
  <2> QED
    BY <2>1, <2>8, <2>9
<1>5. DOMAIN proxy = Product!Backends
  BY CustomizedIs
<1> HIDE DEF proxy, preset
<1> QED
  BY <1>3, <1>4 DEF Product!ModelsChosen, proxy, preset

-----------------------------------------------------------------------------
(* Setup (setup_assistant.py): what is written, of what was decided.       *)

\* The fields of an engine.
Needs == {"enabled", "model", "env", "commands", "paths"}

\* A file of a base: its entries have every field.
IsBase(base) == \A e \in DOMAIN base.engines : DOMAIN base.engines[e] = Needs

\* What a recommendation is, or the answers of the wizard.
Decides(rec, e, found) ==
    \/ e \in DOMAIN Setup!Command /\ rec.overrides[e] = Setup!CommandPatch(e)
    \/ e \in DOMAIN Setup!Key /\ rec.overrides[e] = Setup!KeyPatch(e)
    \/ e \in Setup!Roles /\ \E i \in DOMAIN found.models : rec.overrides[e] = Setup!LocalPatch(found.models[i])
    \/ e \in Setup!Roles /\ \E repo : rec.overrides[e] = Setup!DownloadPatch(e, repo) /\ <<e, repo>> \in rec.suggestions

\* What setup has decided: each engine as its kind is, each route to an engine there is.
Recommended(rec, base, found) ==
    /\ \A e \in DOMAIN rec.overrides : Decides(rec, e, found)
    /\ \A r \in DOMAIN rec.targets : rec.targets[r] \in Setup!Known
            \/ \E q \in DOMAIN base.targets : rec.targets[r] = base.targets[q]

\* The names of the assistant (setup_assistant.py).
LEMMA NamesAre ==
    /\ Setup!Routes = {"simple", "coding", "vision"}
    /\ Setup!Roles = {"fast_local", "code_agent", "multimodal_vision"}
    /\ DOMAIN Setup!Command = {"claude_code", "codex"} /\ DOMAIN Setup!Key = {"openai_api"}
    /\ Setup!Known = Setup!Roles \cup {"human_confirm", "claude_code", "codex", "openai_api"}
BY DEF Setup!Routes, Setup!Roles, Setup!LocalEngine, Setup!Command, Setup!Key, Setup!Known, Setup!Required

\* write_config_from_recommendation (setup_assistant.py), engine by engine.
LEMMA WrittenIs ==
    ASSUME NEW base, NEW rec
    PROVE  LET out == Setup!Written(base, rec) IN
           /\ DOMAIN out.engines = DOMAIN base.engines
           /\ \A e \in DOMAIN base.engines : out.engines[e] =
                IF e \in DOMAIN rec.overrides THEN Setup!Patched(base.engines[e], rec.overrides[e]) ELSE base.engines[e]
           /\ out.targets = Setup!Patched(base.targets, rec.targets)
BY DEF Setup!Written

\* What setup writes loads: a route leads to an engine that is known, or that it led to before.
LEMMA WrittenAlwaysLoads ==
    ASSUME NEW base, NEW rec, NEW found, Recommended(rec, base, found)
    PROVE  Setup!WrittenLoads(base, rec)
<1> DEFINE out == Setup!Written(base, rec)
<1>1. SUFFICES ASSUME Setup!Loads(base), Setup!Known \subseteq DOMAIN base.engines PROVE Setup!Loads(out)
  BY DEF Setup!WrittenLoads
<1>2. DOMAIN out.engines = DOMAIN base.engines /\ out.targets = Setup!Patched(base.targets, rec.targets)
  BY WrittenIs
<1>3. \A r \in DOMAIN out.targets : out.targets[r] \in DOMAIN base.engines
  <2> HIDE DEF out
  <2>1. TAKE r \in DOMAIN out.targets
  <2>2. CASE r \in DOMAIN rec.targets
    <3>1. out.targets[r] = rec.targets[r]
      BY <1>2, <2>2 DEF Setup!Patched
    <3> QED
      BY <1>1, <2>2, <3>1 DEF Recommended, Setup!Loads
  <2>3. CASE r \in DOMAIN base.targets \ DOMAIN rec.targets
    <3>1. out.targets[r] = base.targets[r]
      BY <1>2, <2>3 DEF Setup!Patched
    <3> QED
      BY <1>1, <2>3, <3>1 DEF Setup!Loads
  <2> QED
    BY <1>2, <2>1, <2>2, <2>3 DEF Setup!Patched
<1> QED
  BY <1>1, <1>2, <1>3 DEF Setup!Loads

\* Of the engines that are agents or hosted, setup decides about commands and keys only.
LEMMA AgentsAre ==
    ASSUME NEW rec, NEW base, NEW found, Recommended(rec, base, found), NEW e \in DOMAIN rec.overrides
    PROVE  /\ e \in Setup!Known
           /\ e \in {"claude_code", "codex", "openai_api"} => "model" \notin DOMAIN rec.overrides[e]
                   /\ "paths" \notin DOMAIN rec.overrides[e]
<1>1. Decides(rec, e, found)
  BY DEF Recommended
<1>2. /\ DOMAIN Setup!CommandPatch(e) = {"enabled", "commands"}
      /\ DOMAIN Setup!KeyPatch(e) = {"enabled", "env"}
  BY DEF Setup!CommandPatch, Setup!KeyPatch
<1> QED
  BY <1>1, <1>2, NamesAre DEF Decides

\* Setup leaves alone what it was not asked about.
LEMMA AlwaysKeepsTheRest ==
    ASSUME NEW file, NEW base, IsBase(base), NEW rec, NEW found, Recommended(rec, base, found)
    PROVE  Setup!KeepsTheRest(file, base, rec)
<1> DEFINE out == Setup!Written(base, rec)
<1>1. Setup!SetupWrite(file, base, rec, FALSE).file \in {file} \cup (IF file = Setup!NoFile THEN {out} ELSE {})
  BY DEF Setup!SetupWrite
<1>2. /\ DOMAIN out.engines = DOMAIN base.engines
      /\ \A e \in DOMAIN base.engines : out.engines[e] =
            IF e \in DOMAIN rec.overrides THEN Setup!Patched(base.engines[e], rec.overrides[e]) ELSE base.engines[e]
      /\ out.targets = Setup!Patched(base.targets, rec.targets)
  BY WrittenIs
<1>3. \A e \in DOMAIN base.engines \ Setup!Known : out.engines[e] = base.engines[e]
  <2> HIDE DEF out
  <2> QED
    BY <1>2, AgentsAre
<1>4. ASSUME NEW e \in DOMAIN base.engines \cap {"claude_code", "codex", "openai_api"}
      PROVE  out.engines[e].model = base.engines[e].model /\ out.engines[e].paths = base.engines[e].paths
  <2> HIDE DEF out
  <2>1. CASE e \in DOMAIN rec.overrides
    <3>1. "model" \notin DOMAIN rec.overrides[e] /\ "paths" \notin DOMAIN rec.overrides[e]
      BY <2>1, AgentsAre
    <3>2. "model" \in DOMAIN base.engines[e] /\ "paths" \in DOMAIN base.engines[e]
      BY DEF IsBase, Needs
    <3>3. out.engines[e] = Setup!Patched(base.engines[e], rec.overrides[e])
      BY <1>2, <2>1
    <3>4. /\ out.engines[e]["model"] = base.engines[e]["model"]
          /\ out.engines[e]["paths"] = base.engines[e]["paths"]
      BY <3>1, <3>2, <3>3 DEF Setup!Patched
    <3> QED
      BY <3>4
  <2>2. CASE e \notin DOMAIN rec.overrides
    BY <1>2, <2>2
  <2> QED
    BY <2>1, <2>2
<1>5. \A r \in DOMAIN base.targets \ DOMAIN rec.targets : out.targets[r] = base.targets[r]
  <2> HIDE DEF out
  <2> QED
    BY <1>2 DEF Setup!Patched
<1> QED
  BY <1>1, <1>2, <1>3, <1>4, <1>5 DEF Setup!KeepsTheRest

\* A machine that was scanned has what was found.
IsScanned(machine, found) ==
    /\ found.commands = machine.commands /\ found.keys = machine.keys
    /\ \A i \in DOMAIN found.models : found.models[i].path \in machine.disk

\* Setup enables what it has seen, and what it asks to be downloaded.
THEOREM RoutesAlwaysServed ==
    ASSUME NEW base, IsBase(base), NEW rec, NEW found, Recommended(rec, base, found),
           NEW machine, IsScanned(machine, found)
    PROVE  Setup!RoutesServed(base, rec, found, machine)
<1> DEFINE out == Setup!Written(base, rec)
           later == Setup!AfterDownloads(machine, rec.suggestions)
           ready(e) ==
            /\ "env" \notin DOMAIN rec.overrides[e] => base.engines[e].env \subseteq machine.keys
            /\ "commands" \notin DOMAIN rec.overrides[e] => base.engines[e].commands \subseteq machine.commands
            /\ "paths" \notin DOMAIN rec.overrides[e] => base.engines[e].paths \subseteq machine.disk
           seen(e) == e \in DOMAIN Setup!Command => Setup!Command[e] \in found.commands
           set(e) == e \in DOMAIN Setup!Key => Setup!Key[e] \in found.keys
<1>1. ASSUME NEW e \in DOMAIN rec.overrides \cap DOMAIN base.engines, ready(e), seen(e), set(e)
      PROVE  out.engines[e].enabled /\ Setup!Available(out.engines[e], later)
  <2> DEFINE p == rec.overrides[e]
             b == base.engines[e]
             o == out.engines[e]
  <2>1. o = Setup!Patched(b, p)
    BY WrittenIs
  <2>2. DOMAIN b = Needs
    BY DEF IsBase
  <2>3. /\ "enabled" \in DOMAIN p => o.enabled = p.enabled
        /\ o.env = IF "env" \in DOMAIN p THEN p.env ELSE b.env
        /\ o.commands = IF "commands" \in DOMAIN p THEN p.commands ELSE b.commands
        /\ o.paths = IF "paths" \in DOMAIN p THEN p.paths ELSE b.paths
    <3> HIDE DEF o, p, b
    <3>1. {"env", "commands", "paths"} \subseteq DOMAIN b
      BY <2>2 DEF Needs
    <3>2. \A k \in {"env", "commands", "paths"} : o[k] = IF k \in DOMAIN p THEN p[k] ELSE b[k]
      BY <2>1, <3>1 DEF Setup!Patched
    <3>3. "enabled" \in DOMAIN p => o["enabled"] = p["enabled"]
      BY <2>1 DEF Setup!Patched
    <3> QED
      BY <3>2, <3>3
  <2>4. /\ later.keys = machine.keys /\ later.commands = machine.commands
        /\ later.disk = machine.disk \cup {Setup!DownloadDir(s[1], s[2]) : s \in rec.suggestions}
    BY DEF Setup!AfterDownloads
  <2>5. /\ "enabled" \in DOMAIN p /\ p.enabled
        /\ "env" \in DOMAIN p => p.env \subseteq machine.keys
        /\ "commands" \in DOMAIN p => p.commands \subseteq machine.commands
        /\ "paths" \in DOMAIN p => p.paths \subseteq later.disk
    <3>1. Decides(rec, e, found)
      BY DEF Recommended
    <3>2. CASE e \in DOMAIN Setup!Command /\ p = Setup!CommandPatch(e)
      <4>1. DOMAIN p = {"enabled", "commands"} /\ p.enabled /\ p.commands = {Setup!Command[e]}
        BY <3>2 DEF Setup!CommandPatch
      <4> QED
        BY <1>1, <3>2, <4>1 DEF IsScanned
    <3>3. CASE e \in DOMAIN Setup!Key /\ p = Setup!KeyPatch(e)
      <4>1. DOMAIN p = {"enabled", "env"} /\ p.enabled /\ p.env = {Setup!Key[e]}
        BY <3>3 DEF Setup!KeyPatch
      <4> QED
        BY <1>1, <3>3, <4>1 DEF IsScanned
    <3>4. ASSUME NEW i \in DOMAIN found.models, p = Setup!LocalPatch(found.models[i])
          PROVE  /\ "enabled" \in DOMAIN p /\ p.enabled
                 /\ "env" \notin DOMAIN p /\ "commands" \notin DOMAIN p /\ p.paths \subseteq later.disk
      <4>1. DOMAIN p = {"enabled", "model", "paths"} /\ p.enabled /\ p.paths = {found.models[i].path}
        BY <3>4 DEF Setup!LocalPatch
      <4> HIDE DEF p, later
      <4> QED
        BY <2>4, <4>1 DEF IsScanned
    <3>5. ASSUME NEW repo, p = Setup!DownloadPatch(e, repo), <<e, repo>> \in rec.suggestions
          PROVE  /\ "enabled" \in DOMAIN p /\ p.enabled
                 /\ "env" \notin DOMAIN p /\ "commands" \notin DOMAIN p /\ p.paths \subseteq later.disk
      <4>1. DOMAIN p = {"enabled", "model", "paths"} /\ p.enabled /\ p.paths = {Setup!DownloadDir(e, repo)}
        BY <3>5 DEF Setup!DownloadPatch
      <4>2. Setup!DownloadDir(e, repo) \in later.disk
        BY <2>4, <3>5
      <4> HIDE DEF p, later
      <4> QED
        BY <4>1, <4>2
    <3> HIDE DEF later
    <3> QED
      BY <3>1, <3>2, <3>3, <3>4, <3>5 DEF Decides
  <2> HIDE DEF o, p, b, later
  <2>6. /\ "env" \notin DOMAIN p => b.env \subseteq machine.keys
        /\ "commands" \notin DOMAIN p => b.commands \subseteq machine.commands
        /\ "paths" \notin DOMAIN p => b.paths \subseteq machine.disk
    BY <1>1 DEF p, b
  <2>7. o.enabled /\ Setup!Available(o, later)
    BY <2>3, <2>4, <2>5, <2>6 DEF Setup!Available
  <2> QED
    BY <2>7 DEF o, p, b, later
<1> HIDE DEF out, later
<1> QED
  BY <1>1 DEF Setup!RoutesServed, out, later

\* A run of install steps tells of each step what became of it.
LEMMA RunAlwaysHonest ==
    ASSUME NEW steps, steps \in Seq({steps[i] : i \in DOMAIN steps}), NEW execute \in BOOLEAN, NEW confirmed \in BOOLEAN,
           \A i \in DOMAIN steps : steps[i].executable \in BOOLEAN,
           NEW exit, \A i \in DOMAIN steps : exit[i] # "planned"
    PROVE  Setup!RunIsHonest(steps, execute, confirmed, exit)
<1> DEFINE run == Setup!Execute(steps, execute, confirmed, exit)
           status(i) == IF ~execute THEN "planned" ELSE IF ~confirmed THEN "confirmation_required"
                        ELSE IF ~steps[i].executable THEN "blocked" ELSE exit[i]
<1>1. /\ run.results = [i \in DOMAIN steps |-> status(i)]
      /\ run.executed => execute /\ confirmed
  BY DEF Setup!Execute
<1>2. Len(run.results) = Len(steps)
  <2>1. DOMAIN steps = 1..Len(steps) /\ Len(steps) \in Nat
    OBVIOUS
  <2>2. DOMAIN run.results = 1..Len(steps)
    BY <1>1, <2>1
  <2>3. run.results \in Seq({status(i) : i \in DOMAIN steps})
    BY <1>1, <2>1
  <2> HIDE DEF run
  <2> QED
    BY <2>1, <2>2, <2>3
<1>3. DOMAIN run.results = DOMAIN steps /\ \A i \in DOMAIN steps : run.results[i] = status(i)
  BY <1>1
<1>4. execute /\ Setup!Succeeded(run) => \A i \in DOMAIN steps : steps[i].executable /\ confirmed /\ exit[i] = "completed"
  <2> HIDE DEF run
  <2>1. SUFFICES ASSUME execute, Setup!Succeeded(run), NEW i \in DOMAIN steps
                 PROVE  steps[i].executable /\ confirmed /\ exit[i] = "completed"
    OBVIOUS
  <2>2. status(i) \in {"planned", "completed"}
    BY <1>3, <2>1 DEF Setup!Succeeded
  <2> QED
    BY <2>1, <2>2
<1>5. ~execute => Setup!Succeeded(run)
  <2> HIDE DEF run
  <2> QED
    BY <1>3 DEF Setup!Succeeded
<1> HIDE DEF run
<1> QED
  BY <1>1, <1>2, <1>4, <1>5 DEF Setup!RunIsHonest, run

-----------------------------------------------------------------------------
(* Setup: what is recommended.                                             *)

\* What a scan may list: models with scores.
Scored(models, score) ==
    /\ DOMAIN models = 1..Len(models) /\ Len(models) \in Nat
    /\ \A i \in DOMAIN models : score[models[i].repo] \in Nat

\* The model of a role is the first of those with the best score: both minima exist.
LEMMA BestLocalIs ==
    ASSUME NEW models, NEW score, Scored(models, score), NEW role, role \in Setup!Matched(models)
    PROVE  LET fit == {i \in DOMAIN models : role \in models[i].roles} IN
           \E i \in fit : /\ Setup!BestLocal(models, role, score) = models[i]
                          /\ \A j \in fit : score[models[j].repo] <= score[models[i].repo]
<1> DEFINE U == 1..Len(models)
           fit == {i \in DOMAIN models : role \in models[i].roles}
           points(i) == score[models[i].repo]
           best == {i \in fit : \A j \in fit : points(j) <= points(i)}
           R == {p \in U \X U : points(p[1]) > points(p[2])}
           L == {p \in U \X U : p[1] < p[2]}
<1>1. IsFiniteSet(U) /\ U = DOMAIN models /\ U \subseteq Nat
  <2>1. 1 \in Int /\ Len(models) \in Int
    BY DEF Scored
  <2> QED
    BY <2>1, FS_Interval DEF Scored
<1>2. \A i \in U : points(i) \in Nat
  BY <1>1 DEF Scored
<1>3. fit # {} /\ fit \in SUBSET U
  BY <1>1 DEF Setup!Matched
<1> HIDE DEF points, U
<1>4. \A i, j \in U : <<i, j>> \in R <=> points(i) > points(j)
  OBVIOUS
<1>5. \A i, j \in U : <<i, j>> \in L <=> i < j
  OBVIOUS
<1> HIDE DEF R, L, fit
<1>6. IsOrder(R, U)
  BY <1>2, <1>4 DEF IsOrder
<1>7. IsOrder(L, U)
  BY <1>1, <1>5 DEF IsOrder
<1>8. best # {} /\ best \in SUBSET U
  <2>1. PICK x \in fit : \A y \in fit : <<y, x>> \notin R
    BY <1>1, <1>3, <1>6, MinimalIn
  <2>2. \A y \in fit : points(y) <= points(x)
    <3>1. ASSUME NEW y \in fit PROVE points(y) <= points(x)
      <4>1. x \in U /\ y \in U /\ <<y, x>> \notin R
        BY <1>3, <2>1
      <4>2. points(x) \in Nat /\ points(y) \in Nat
        BY <1>2, <4>1
      <4>3. ~(points(y) > points(x))
        BY <1>4, <4>1
      <4> QED
        BY <4>2, <4>3
    <3> QED
      BY <3>1
  <2> QED
    BY <1>3, <2>1, <2>2
<1>9. \E x \in best : \A y \in best : x <= y
  <2> HIDE DEF best
  <2>1. PICK x \in best : \A y \in best : <<y, x>> \notin L
    BY <1>1, <1>7, <1>8, MinimalIn
  <2>2. \A y \in best : x <= y
    <3>1. ASSUME NEW y \in best PROVE x <= y
      <4>1. x \in U /\ y \in U /\ <<y, x>> \notin L
        BY <1>8, <2>1
      <4>2. x \in Nat /\ y \in Nat /\ ~(y < x)
        BY <1>1, <1>5, <4>1
      <4> QED
        BY <4>2
    <3> QED
      BY <3>1
  <2> QED
    BY <2>2
<1> DEFINE first == Setup!Min(best)
<1>10. first \in best
  BY <1>9 DEF Setup!Min
<1>11. Setup!BestLocal(models, role, score) = models[first]
  BY DEF Setup!BestLocal, points, fit
<1> HIDE DEF first
<1> QED
  BY <1>10, <1>11 DEF fit, points

\* What may be downloaded: for local roles, in an order.
Advises(advice) ==
    /\ DOMAIN advice \subseteq Setup!Roles
    /\ \A role \in DOMAIN advice : DOMAIN advice[role] = 1..Len(advice[role]) /\ Len(advice[role]) \in Nat
                                   /\ (advice[role] # <<>> => Len(advice[role]) > 0)

\* recommend_setup (setup_assistant.py) decides so, and takes the best models.
LEMMA RecommendIs ==
    ASSUME NEW found, NEW score, Scored(found.models, score), NEW advice, Advises(advice), NEW base
    PROVE  /\ Recommended(Setup!Recommend(found, score, advice), base, found)
           /\ Setup!BestIsChosen(found, Setup!Recommend(found, score, advice), score)
           /\ DOMAIN Setup!Recommend(found, score, advice).targets = Setup!Routes
           /\ \A r \in Setup!Routes : Setup!Recommend(found, score, advice).targets[r] \in Setup!Known
<1> DEFINE rec == Setup!Recommend(found, score, advice)
           agent == IF "claude" \in found.commands THEN {"claude_code"}
                    ELSE IF "codex" \in found.commands THEN {"codex"} ELSE {}
           hosted == {e \in DOMAIN Setup!Key : Setup!Key[e] \in found.keys}
           local == Setup!Matched(found.models)
           missing == {role \in DOMAIN advice : advice[role] # <<>>} \ local
           value(e) == IF e \in agent THEN Setup!CommandPatch(e) ELSE IF e \in hosted THEN Setup!KeyPatch(e)
                       ELSE IF e \in local THEN Setup!LocalPatch(Setup!BestLocal(found.models, e, score))
                       ELSE Setup!DownloadPatch(e, advice[e][1])
<1>1. /\ rec.overrides = [e \in agent \cup hosted \cup local \cup missing |-> value(e)]
      /\ rec.targets = [r \in Setup!Routes |-> IF r = "coding" /\ agent # {} THEN CHOOSE e \in agent : TRUE
                                               ELSE Setup!LocalEngine[r]]
      /\ rec.suggestions = UNION {{<<role, repo>> : repo \in Setup!Range(advice[role])} : role \in DOMAIN advice}
  BY DEF Setup!Recommend
<1>2. /\ agent \subseteq DOMAIN Setup!Command /\ hosted \subseteq DOMAIN Setup!Key
      /\ local \subseteq Setup!Roles /\ missing \subseteq Setup!Roles
  BY NamesAre DEF Setup!Matched, Advises
<1>3. \A r \in Setup!Routes : Setup!LocalEngine[r] \in Setup!Roles
  BY DEF Setup!Roles
<1> HIDE DEF rec
<1>4. ASSUME NEW r \in DOMAIN rec.targets PROVE rec.targets[r] \in Setup!Known
  <2>1. rec.targets[r] \in agent \cup Setup!Roles
    <3> HIDE DEF agent
    <3> QED
      BY <1>1, <1>3
  <2> HIDE DEF agent
  <2> QED
    BY <1>2, <2>1, NamesAre
<1> HIDE DEF agent, hosted, local, missing
<1>5. ASSUME NEW e \in DOMAIN rec.overrides PROVE Decides(rec, e, found)
  <2>1. rec.overrides[e] = value(e) /\ e \in agent \cup hosted \cup local \cup missing
    BY <1>1
  <2>2. CASE e \in agent
    BY <1>2, <2>1, <2>2 DEF Decides
  <2>3. CASE e \in hosted
    <3>1. e \notin agent
      BY <1>2, <2>3, NamesAre
    <3> QED
      BY <1>2, <2>1, <2>3, <3>1 DEF Decides
  <2>4. CASE e \in local
    <3>1. e \notin agent /\ e \notin hosted
      BY <1>2, <2>4, NamesAre
    <3>2. \E i \in DOMAIN found.models : Setup!BestLocal(found.models, e, score) = found.models[i]
      BY <2>4, BestLocalIs DEF local
    <3> QED
      BY <1>2, <2>1, <2>4, <3>1, <3>2 DEF Decides
  <2>5. CASE e \in missing /\ e \notin local
    <3>1. e \notin agent /\ e \notin hosted
      BY <1>2, <2>5, NamesAre
    <3>2. e \in DOMAIN advice /\ 1 \in DOMAIN advice[e]
      BY <2>5 DEF missing, Advises
    <3>3. <<e, advice[e][1]>> \in rec.suggestions
      BY <1>1, <3>2 DEF Setup!Range
    <3> QED
      BY <1>2, <2>1, <2>5, <3>1, <3>3 DEF Decides
  <2> QED
    BY <2>1, <2>2, <2>3, <2>4, <2>5
<1>6. Setup!BestIsChosen(found, rec, score)
  <2>1. SUFFICES ASSUME NEW role \in local
                 PROVE  LET fit == {i \in DOMAIN found.models : role \in found.models[i].roles}
                        IN \E i \in fit : /\ rec.overrides[role] = Setup!LocalPatch(found.models[i])
                                          /\ \A j \in fit : score[found.models[j].repo] <= score[found.models[i].repo]
    BY DEF Setup!BestIsChosen, local
  <2>2. role \notin agent /\ role \notin hosted
    BY <1>2, <2>1, NamesAre
  <2>3. rec.overrides[role] = Setup!LocalPatch(Setup!BestLocal(found.models, role, score))
    BY <1>1, <2>1, <2>2
  <2> QED
    BY <2>1, <2>3, BestLocalIs DEF local
<1>7. DOMAIN rec.targets = Setup!Routes
  BY <1>1
<1> QED
  BY <1>4, <1>5, <1>6, <1>7 DEF Recommended, rec

-----------------------------------------------------------------------------
(* Setup: what the wizard is answered.                                     *)

\* An answer of the wizard, route by route.
IsAnswer(a, route, found, advice) ==
    \/ a = <<"keep">>
    \/ \E i \in DOMAIN found.models : a = <<"model", i>>
    \/ a = <<"download">> /\ Setup!LocalEngine[route] \in DOMAIN advice /\ 1 \in DOMAIN advice[Setup!LocalEngine[route]]
    \/ \E e \in Setup!Known : a = <<"engine", e>>

\* What the wizard offers is an answer it understands.
LEMMA ChoiceIsAnswer ==
    ASSUME NEW route \in Setup!Routes, NEW found, NEW advice, Advises(advice), NEW a \in Setup!WizardChoices(route, found, advice)
    PROVE  IsAnswer(a, route, found, advice)
<1>1. ASSUME Setup!LocalEngine[route] \in DOMAIN advice, advice[Setup!LocalEngine[route]] # <<>>
      PROVE  1 \in DOMAIN advice[Setup!LocalEngine[route]]
  BY <1>1 DEF Advises
<1> QED
  BY <1>1 DEF Setup!WizardChoices, IsAnswer

\* _ask_route_targets (cli.py) decides so too, whatever is answered.
LEMMA WizardIs ==
    ASSUME NEW found, NEW advice, Advises(advice), NEW base, Setup!Routes \subseteq DOMAIN base.targets,
           NEW file \in {Setup!NoFile, base}, NEW mode \in {"local", "api", "mixed"},
           NEW rec, \A r \in Setup!Routes : rec.targets[r] \in Setup!Known,
           NEW answers, \A r \in Setup!Routes : IsAnswer(answers[r], r, found, advice)
    PROVE  Recommended(Setup!Wizard(answers, mode, file, found, rec, advice), base, found)
<1> DEFINE out == Setup!Wizard(answers, mode, file, found, rec, advice)
           LE == Setup!LocalEngine
           Routes == Setup!Routes
           picked(kind) == {r \in Routes : answers[r][1] = kind}
           own == picked("model") \cup picked("download")
           targets == [r \in Routes |-> CASE answers[r][1] = "keep" -> Setup!Default(r, mode, file, found, rec)
                                          [] answers[r][1] = "engine" -> answers[r][2]
                                          [] OTHER -> LE[r]]
           used == {targets[r] : r \in Routes}
           route(e) == CHOOSE r \in Routes : LE[r] = e
           patch(r) == IF answers[r][1] = "model" THEN Setup!LocalPatch(found.models[answers[r][2]])
                       ELSE Setup!DownloadPatch(LE[r], advice[LE[r]][1])
           agents == used \cap DOMAIN Setup!Command
           hosted == used \cap DOMAIN Setup!Key
           mine == {LE[r] : r \in own}
<1>1. /\ out.targets = Setup!Patched(targets, [confirmation |-> "human_confirm"])
      /\ out.overrides = [e \in agents \cup hosted \cup mine |->
                           IF e \in agents THEN Setup!CommandPatch(e) ELSE IF e \in hosted THEN Setup!KeyPatch(e)
                           ELSE patch(route(e))]
      /\ out.suggestions = {<<LE[r], advice[LE[r]][1]>> : r \in picked("download")}
  BY DEF Setup!Wizard
<1>2. Routes = {"simple", "coding", "vision"} /\ LE["simple"] = "fast_local" /\ LE["coding"] = "code_agent"
        /\ LE["vision"] = "multimodal_vision"
  BY NamesAre DEF Setup!LocalEngine
<1>3. \A r \in Routes : LE[r] \in Setup!Roles /\ route(LE[r]) = r
  <2> HIDE DEF LE
  <2>1. \A r, q \in Routes : LE[r] = LE[q] => r = q
    BY <1>2
  <2>2. \A r \in Routes : route(LE[r]) = r
    BY <2>1
  <2> QED
    BY <1>2, <2>2, NamesAre
<1>4. ASSUME NEW r \in Routes
      PROVE  \/ Setup!Default(r, mode, file, found, rec) \in Setup!Known
             \/ Setup!Default(r, mode, file, found, rec) = base.targets[r]
  <2>1. CASE file # Setup!NoFile /\ Setup!Loads(file)
    BY <2>1 DEF Setup!Default
  <2>2. LE[r] \in Setup!Known /\ {"claude_code", "codex", "openai_api"} \subseteq Setup!Known
    BY <1>3, NamesAre
  <2>3. CASE mode = "local" /\ ~(file # Setup!NoFile /\ Setup!Loads(file))
    BY <2>2, <2>3 DEF Setup!Default
  <2>4. CASE mode = "api" /\ ~(file # Setup!NoFile /\ Setup!Loads(file))
    BY <2>2, <2>4 DEF Setup!Default
  <2>5. CASE mode = "mixed" /\ ~(file # Setup!NoFile /\ Setup!Loads(file))
    BY <2>5 DEF Setup!Default
  <2> QED
    BY <2>1, <2>3, <2>4, <2>5
<1>5. ASSUME NEW r \in Routes PROVE targets[r] \in Setup!Known \/ targets[r] = base.targets[r]
  <2>1. IsAnswer(answers[r], r, found, advice)
    OBVIOUS
  <2>2. CASE answers[r][1] = "keep"
    BY <1>4, <2>2
  <2>3. CASE answers[r][1] = "engine"
    <3>1. answers[r][2] \in Setup!Known
      BY <2>1, <2>3 DEF IsAnswer
    <3> QED
      BY <2>3, <3>1
  <2>4. CASE answers[r][1] \notin {"keep", "engine"}
    <3>1. LE[r] \in Setup!Known
      BY <1>3, NamesAre
    <3> QED
      BY <2>4, <3>1
  <2> QED
    BY <2>2, <2>3, <2>4
<1> HIDE DEF out
<1>6. ASSUME NEW r \in DOMAIN out.targets
      PROVE  out.targets[r] \in Setup!Known \/ \E q \in DOMAIN base.targets : out.targets[r] = base.targets[q]
  <2> DEFINE last == [confirmation |-> "human_confirm"]
  <2>1. DOMAIN last = {"confirmation"} /\ last["confirmation"] = "human_confirm" /\ DOMAIN targets = Routes
    OBVIOUS
  <2> HIDE DEF targets, last
  <2>2. \/ r = "confirmation" /\ out.targets[r] = "human_confirm"
        \/ r \in Routes /\ out.targets[r] = targets[r]
    <3>1. r \in DOMAIN last \cup Routes /\ out.targets[r] = IF r \in DOMAIN last THEN last[r] ELSE targets[r]
      BY <1>1, <2>1 DEF Setup!Patched, last
    <3> HIDE DEF Routes
    <3>2. CASE r \in DOMAIN last
      BY <2>1, <3>1, <3>2
    <3>3. CASE r \notin DOMAIN last
      BY <3>1, <3>3
    <3> QED
      BY <3>2, <3>3
  <2> QED
    BY <1>5, <2>2, NamesAre
<1>7. ASSUME NEW e \in DOMAIN out.overrides PROVE Decides(out, e, found)
  <2> HIDE DEF agents, hosted
  <2>1. /\ e \in agents \cup hosted \cup mine
        /\ out.overrides[e] = IF e \in agents THEN Setup!CommandPatch(e) ELSE IF e \in hosted THEN Setup!KeyPatch(e) ELSE patch(route(e))
    <3> HIDE DEF mine, patch, route
    <3> QED
      BY <1>1
  <2>2. agents \subseteq DOMAIN Setup!Command /\ hosted \subseteq DOMAIN Setup!Key
    BY DEF agents, hosted
  <2>3. CASE e \in agents
    BY <2>1, <2>2, <2>3 DEF Decides
  <2>4. CASE e \in hosted
    BY <2>1, <2>2, <2>4, NamesAre DEF Decides
  <2>5. CASE e \in mine /\ e \notin agents /\ e \notin hosted
    <3>1. PICK r \in own : e = LE[r]
      BY <2>5
    <3>2. r \in Routes /\ e \in Setup!Roles /\ route(e) = r
      BY <1>3, <3>1
    <3>3. out.overrides[e] = patch(r)
      <4> HIDE DEF patch, route
      <4> QED
        BY <2>1, <2>5, <3>2
    <3>4. IsAnswer(answers[r], r, found, advice)
      BY <3>2
    <3>5. CASE answers[r][1] = "model"
      <4>1. answers[r][2] \in DOMAIN found.models
        BY <3>4, <3>5 DEF IsAnswer
      <4> QED
        BY <3>2, <3>3, <3>5, <4>1 DEF Decides
    <3>6. CASE answers[r][1] = "download"
      <4>1. <<LE[r], advice[LE[r]][1]>> \in out.suggestions
        BY <1>1, <3>2, <3>6
      <4>2. out.overrides[e] = Setup!DownloadPatch(e, advice[e][1])
        BY <3>1, <3>3, <3>6
      <4> QED
        BY <3>1, <3>2, <4>1, <4>2 DEF Decides
    <3> QED
      BY <3>1, <3>5, <3>6
  <2> QED
    BY <2>1, <2>3, <2>4, <2>5
<1> QED
  BY <1>6, <1>7 DEF Recommended, out

-----------------------------------------------------------------------------
(* Setup: what is scanned.                                                 *)

\* The models of all directories, one list after the other.
LEMMA FlattenType ==
    ASSUME NEW M, NEW seqs \in Seq(Seq(M))
    PROVE  Setup!FlattenSeq(seqs) \in Seq(M)
<1> DEFINE n == Len(seqs)
           V == Seq(M)
           Def(g) == [i \in 1..Len(seqs) |-> IF i = 1 THEN seqs[i] ELSE g[i - 1] \o seqs[i]]
           flat == CHOOSE g : g = Def(g)
           F == [p \in (1..n) \X V |-> p[2] \o seqs[p[1]]]
<1>1. n \in Nat /\ <<>> \in V /\ \A i \in 1..n : seqs[i] \in V
  OBVIOUS
<1>2. F \in [(1..n) \X V -> V]
  <2>1. \A s, t \in V : s \o t \in V
    OBVIOUS
  <2> QED
    BY <1>1, <2>1
<1>3. PICK g \in [SUBSET (1..n) -> V], h \in [0..n -> V] : FoldsAlong(g, h, n, <<>>, F)
  <2> HIDE DEF F, n, V
  <2> QED
    BY <1>1, <1>2, FoldRun
<1> DEFINE f == [i \in 1..n |-> h[i]]
<1>4. f = Def(f)
  <2>1. ASSUME NEW i \in 1..n PROVE h[i] = IF i = 1 THEN seqs[i] ELSE f[i - 1] \o seqs[i]
    <3>1. i - 1 \in 0..n /\ (i # 1 => i - 1 \in 1..n)
      BY <1>1
    <3>2. h[i] = F[<<i, h[i - 1]>>] /\ h[0] = <<>> /\ h[i - 1] \in V
      <4> HIDE DEF F, V, n
      <4> QED
        BY <1>3, <3>1 DEF FoldsAlong
    <3>3. h[i] = h[i - 1] \o seqs[i]
      BY <3>2
    <3>4. <<>> \o seqs[i] = seqs[i]
      BY <1>1
    <3>5. i # 1 => f[i - 1] = h[i - 1]
      BY <3>1
    <3>6. i = 1 => h[i - 1] = <<>>
      BY <3>2
    <3> HIDE DEF f
    <3> QED
      BY <3>3, <3>4, <3>5, <3>6
  <2> QED
    BY <2>1
<1>5. flat = Def(flat)
  <2> HIDE DEF Def
  <2> QED
    BY <1>4
<1>6. \A i \in 1..n : flat[i] = IF i = 1 THEN seqs[i] ELSE flat[i - 1] \o seqs[i]
  <2> HIDE DEF flat
  <2> QED
    BY <1>5
<1> DEFINE S == {i \in Nat : i + 1 \in 1..n => flat[i + 1] \in V}
<1>7. Nat \subseteq S
  <2> HIDE DEF flat
  <2>1. 0 \in S
    <3>1. 1 \in 1..n => flat[1] = seqs[1]
      <4> SUFFICES ASSUME 1 \in 1..n PROVE flat[1] = seqs[1]
        OBVIOUS
      <4>1. flat[1] = IF 1 = 1 THEN seqs[1] ELSE flat[1 - 1] \o seqs[1]
        BY <1>6
      <4> QED
        BY <4>1
    <3>2. 1 \in 1..n => seqs[1] \in V
      BY <1>1
    <3>3. 0 + 1 = 1
      OBVIOUS
    <3> HIDE DEF V, n
    <3> QED
      BY <3>1, <3>2, <3>3
  <2>2. ASSUME NEW i \in Nat, i \in S PROVE i + 1 \in S
    <3>1. SUFFICES ASSUME (i + 1) + 1 \in 1..n PROVE flat[(i + 1) + 1] \in V
      OBVIOUS
    <3>2. flat[i + 1] \in V
      BY <2>2, <3>1
    <3>3. flat[(i + 1) + 1] = flat[i + 1] \o seqs[(i + 1) + 1]
      <4>1. ((i + 1) + 1) - 1 = i + 1 /\ (i + 1) + 1 # 1
        OBVIOUS
      <4> QED
        BY <1>6, <3>1, <4>1
    <3>4. seqs[(i + 1) + 1] \in V
      BY <1>1, <3>1
    <3> QED
      BY <3>2, <3>3, <3>4
  <2> HIDE DEF S
  <2> QED
    BY <2>1, <2>2, NatInduct
<1>8. n > 0 => flat[n] \in V
  <2> HIDE DEF flat, n
  <2>1. n > 0 => n - 1 \in Nat /\ (n - 1) + 1 = n /\ n \in 1..n
    BY <1>1
  <2>2. \A i \in Nat : i + 1 \in 1..n => flat[i + 1] \in V
    BY <1>7
  <2> HIDE DEF S, V
  <2> QED
    BY <2>1, <2>2
<1>9. Setup!FlattenSeq(seqs) = IF n = 0 THEN seqs ELSE flat[n]
  BY DEF Setup!FlattenSeq
<1>10. n = 0 => seqs = <<>>
  OBVIOUS
<1> HIDE DEF flat
<1> QED
  BY <1>1, <1>8, <1>9, <1>10

\* The scan of one more model.
Seen(s, m) == IF \E i \in DOMAIN s : s[i].repo = m.repo THEN s ELSE Append(s, m)

\* _scan_model_dirs (setup_assistant.py), a fold over that list, finds models that are in it.
LEMMA ScanType ==
    ASSUME NEW M, NEW roots \in Seq(Seq(M))
    PROVE  Setup!Scan(roots) \in Seq(M)
<1> DEFINE s == Setup!FlattenSeq(roots)
           n == Len(s)
           U == 1..n
           V == Seq(M)
           F == [p \in (1..n) \X V |-> Seen(p[2], s[p[1]])]
           Def(g) == [T \in SUBSET DOMAIN s |-> IF T = {} THEN <<>>
                        ELSE Seen(g[T \ {Greatest(T)}], s[Greatest(T)])]
           iter == CHOOSE g : g = Def(g)
<1>1. s \in V
  BY FlattenType
<1> HIDE DEF s
<1>2. n \in Nat /\ DOMAIN s = U /\ <<>> \in V
  BY <1>1
<1>3. F \in [(1..n) \X V -> V]
  <2>1. \A t \in V, m \in M : Seen(t, m) \in V
    BY DEF Seen
  <2>2. \A k \in 1..n : s[k] \in M
    BY <1>1
  <2> QED
    BY <2>1, <2>2
<1>4. PICK g \in [SUBSET (1..n) -> V], h \in [0..n -> V] : FoldsAlong(g, h, n, <<>>, F)
  <2> HIDE DEF F, n, V
  <2> QED
    BY <1>2, <1>3, FoldRun
<1>5. \A T \in SUBSET U : T # {} => Greatest(T) \in T
  BY <1>2, GreatestIn
<1>6. g = Def(g)
  <2>1. ASSUME NEW T \in SUBSET U
        PROVE  g[T] = IF T = {} THEN <<>> ELSE Seen(g[T \ {Greatest(T)}], s[Greatest(T)])
    <3>1. g[T] = IF T = {} THEN <<>> ELSE F[<<Greatest(T), g[T \ {Greatest(T)}]>>]
      BY <1>4 DEF FoldsAlong
    <3>2. T # {} => <<Greatest(T), g[T \ {Greatest(T)}]>> \in (1..n) \X V
      BY <1>5
    <3> HIDE DEF V
    <3> QED
      BY <3>1, <3>2
  <2> QED
    BY <1>2, <2>1
<1>7. iter = Def(iter)
  <2> HIDE DEF Def
  <2> QED
    BY <1>6
<1>8. iter[1..n] = g[1..n]
  <2>1. g[{}] = <<>> /\ iter[{}] = <<>>
    <3> HIDE DEF iter
    <3> QED
      BY <1>2, <1>6, <1>7
  <2>2. ASSUME NEW T \in SUBSET (1..n), T # {}, iter[T \ {Greatest(T)}] = g[T \ {Greatest(T)}]
        PROVE  iter[T] = g[T]
    <3> HIDE DEF iter
    <3>1. iter[T] = Seen(iter[T \ {Greatest(T)}], s[Greatest(T)])
      BY <1>2, <1>7, <2>2
    <3>2. g[T] = Seen(g[T \ {Greatest(T)}], s[Greatest(T)])
      BY <1>2, <1>6, <2>2
    <3> QED
      BY <3>1, <3>2, <2>2
  <2>3. Agree(iter, g, n)
    <3> HIDE DEF iter, n
    <3> QED
      BY <2>2 DEF Agree
  <2> HIDE DEF iter, n
  <2> QED
    BY <1>2, <2>1, <2>3, FoldsAgree
<1>9. Setup!Scan(roots) = iter[DOMAIN s]
  BY DEF Setup!Scan, Setup!FoldLeft, Setup!MapThenFoldSet, Setup!Max, Greatest, Seen, s
<1>10. g[1..n] \in V
  OBVIOUS
<1> HIDE DEF iter
<1> QED
  BY <1>2, <1>8, <1>9, <1>10

-----------------------------------------------------------------------------
(* The cases of setup.                                                     *)

\* The models that are on some machine's disk.
CachedModels ==
    {Model(repo, path, roles) : repo \in {"m1", "m2", "m3"}, path \in {"p1", "p2", "p3", "p4"}, roles \in SUBSET Setup!Roles}

\* The directories of the cases hold models whose repositories have scores.
LEMMA RootsAre ==
    ASSUME NEW roots \in Roots, NEW score \in [{"m1", "m2", "m3"} -> 1..2]
    PROVE  Scored(Setup!Scan(roots), score)
<1>1. /\ Model("m1", "p1", {"fast_local", "code_agent"}) \in CachedModels /\ Model("m2", "p2", {"fast_local"}) \in CachedModels
      /\ Model("m1", "p3", {}) \in CachedModels /\ Model("m3", "p4", {"multimodal_vision"}) \in CachedModels
      /\ Model("m1", "p1", {"fast_local"}) \in CachedModels
  BY NamesAre DEF CachedModels
<1>2. roots \in Seq(Seq(CachedModels))
  <2> HIDE DEF CachedModels
  <2>1. /\ <<Model("m1", "p1", {"fast_local", "code_agent"})>> \in Seq(CachedModels)
        /\ <<Model("m2", "p2", {"fast_local"}), Model("m1", "p3", {})>> \in Seq(CachedModels)
        /\ <<Model("m2", "p2", {"fast_local"})>> \in Seq(CachedModels)
        /\ <<Model("m3", "p4", {"multimodal_vision"}), Model("m1", "p1", {"fast_local"})>> \in Seq(CachedModels)
    BY <1>1
  <2> DEFINE C == Seq(CachedModels)
             a == <<Model("m1", "p1", {"fast_local", "code_agent"})>>
             b == <<Model("m2", "p2", {"fast_local"}), Model("m1", "p3", {})>>
             c == <<Model("m2", "p2", {"fast_local"})>>
             d == <<Model("m3", "p4", {"multimodal_vision"}), Model("m1", "p1", {"fast_local"})>>
  <2>2. roots \in {<<>>, <<a, b>>, <<c, d>>}
    BY DEF Roots
  <2>3. a \in C /\ b \in C /\ c \in C /\ d \in C
    BY <2>1
  <2> HIDE DEF C, a, b, c, d
  <2>4. <<>> \in Seq(C) /\ <<a, b>> \in Seq(C) /\ <<c, d>> \in Seq(C)
    BY <2>3
  <2>5. roots \in Seq(C)
    <3> DEFINE x == <<a, b>>
               y == <<c, d>>
    <3>1. roots \in {<<>>, x, y} /\ <<>> \in Seq(C) /\ x \in Seq(C) /\ y \in Seq(C)
      BY <2>2, <2>4
    <3> HIDE DEF x, y
    <3> QED
      BY <3>1
  <2> QED
    BY <2>5 DEF C
<1> DEFINE models == Setup!Scan(roots)
<1>3. models \in Seq(CachedModels)
  BY <1>2, ScanType
<1>4. \A m \in CachedModels : m.repo \in {"m1", "m2", "m3"}
  BY DEF CachedModels, Model
<1> HIDE DEF models
<1>5. DOMAIN models = 1..Len(models) /\ Len(models) \in Nat /\ \A i \in DOMAIN models : models[i] \in CachedModels
  BY <1>3
<1>6. \A i \in DOMAIN models : score[models[i].repo] \in Nat
  BY <1>4, <1>5
<1> QED
  BY <1>5, <1>6 DEF Scored, models

\* The configurations of the cases have engines with all their fields.
LEMMA BasesAre ==
    ASSUME NEW base \in Bases
    PROVE  IsBase(base) /\ Setup!Routes \subseteq DOMAIN base.targets
<1>1. DOMAIN NoNeeds = Needs
  BY DEF NoNeeds, Needs
<1> DEFINE odd == [Entries(Setup!Known) EXCEPT !["fast_local"].env = {"HF_TOKEN"}, !["claude_code"].paths = {<<"user", "repo">>}]
           T == Setup!Patched(Setup!LocalEngine, [confirmation |-> "human_confirm"])
<1>2. PICK chosen \in {Entries(Setup!Known), Entries(Setup!Required \cup {"openai_api"}), Entries(Setup!Known \cup {"mine"}), odd} :
        base = [targets |-> T, engines |-> chosen]
  <2> HIDE DEF T
  <2> QED
    BY DEF Bases, T
<1>3. base.targets = T
  BY <1>2
<1>4. base.engines = odd \/ \E names : base.engines = Entries(names)
  <2> HIDE DEF T, odd
  <2>1. base.engines = chosen
    BY <1>2
  <2> QED
    BY <1>2, <2>1
<1>5. Setup!Routes \subseteq DOMAIN base.targets
  BY <1>3 DEF Setup!Patched, Setup!Routes
<1>6. \A names : \A e \in DOMAIN Entries(names) : DOMAIN Entries(names)[e] = Needs
  BY <1>1 DEF Entries
<1>7. \A e \in DOMAIN odd : DOMAIN odd[e] = Needs
  <2>1. DOMAIN odd = Setup!Known /\ \A e \in Setup!Known : DOMAIN odd[e] = DOMAIN NoNeeds
    BY DEF Entries
  <2> QED
    BY <1>1, <2>1
<1> HIDE DEF odd
<1> QED
  BY <1>4, <1>5, <1>6, <1>7 DEF IsBase

\* The advice of the cases is for local engines, in lists.
LEMMA AdviceAdvises ==
    ASSUME NEW advice \in Advice
    PROVE  Advises(advice)
<1>1. /\ DOMAIN advice \subseteq {"fast_local", "code_agent"}
      /\ \A role \in DOMAIN advice : advice[role] \in {<<>>, <<"a1">>, <<"a1", "a2">>}
  BY DEF Advice
<1>2. \A s \in {<<>>, <<"a1">>, <<"a1", "a2">>} : DOMAIN s = 1..Len(s) /\ Len(s) \in Nat /\ (s # <<>> => Len(s) > 0)
  OBVIOUS
<1> QED
  BY <1>1, <1>2, NamesAre DEF Advises

\* The machines of the cases are the ones their findings come from.
LEMMA DiscoveryScans ==
    ASSUME NEW roots, NEW commands, NEW keys
    PROVE  LET machine == [commands |-> commands, keys |-> keys, disk |-> PathsOf(roots)]
           IN IsScanned(machine, Setup!Discovery(machine, roots))
BY DEF IsScanned, Setup!Discovery, PathsOf

\* What SetupHolds says of a case, piece by piece.
SetupCaseHolds(c) ==
    /\ Setup!WrittenLoads(c.base, c.rec) /\ Setup!KeepsTheRest(c.file, c.base, c.rec)
    /\ Setup!RoutesServed(c.base, c.rec, c.found, c.machine)
    /\ c.best => Setup!BestIsChosen(c.found, c.rec, c.score)

\* Every recommendation.
LEMMA SetupCaseSafe ==
    ASSUME SetupCase
    PROVE  SetupCaseHolds(case')
<1>1. PICK roots \in Roots, base \in Bases, advice \in Advice, score \in [{"m1", "m2", "m3"} -> 1..2],
       commands \in SUBSET {"claude", "codex"}, keys \in SUBSET {"OPENAI_API_KEY"}, same \in BOOLEAN :
        LET machine == [commands |-> commands, keys |-> keys, disk |-> PathsOf(roots)]
            found == Setup!Discovery(machine, roots)
            file == IF same THEN base ELSE Setup!NoFile
        IN case' = [kind |-> "setup", machine |-> machine, found |-> found, score |-> score, base |-> base, file |-> file,
                    best |-> TRUE, rec |-> Setup!Recommend(found, score, advice)]
  BY DEF SetupCase
<1> DEFINE machine == [commands |-> commands, keys |-> keys, disk |-> PathsOf(roots)]
           found == Setup!Discovery(machine, roots)
           rec == Setup!Recommend(found, score, advice)
<1>2. IsScanned(machine, found)
  BY DiscoveryScans
<1>3. Scored(found.models, score)
  <2>1. found.models = Setup!Scan(roots)
    BY DEF Setup!Discovery
  <2> QED
    BY <2>1, RootsAre
<1>4. /\ case'.machine = machine /\ case'.found = found /\ case'.score = score /\ case'.base = base /\ case'.rec = rec
  BY <1>1
<1> HIDE DEF machine, found
<1>5. Recommended(rec, base, found) /\ Setup!BestIsChosen(found, rec, score)
  BY <1>3, AdviceAdvises, RecommendIs
<1>6. IsBase(base)
  BY BasesAre
<1> HIDE DEF rec
<1> QED
  BY <1>2, <1>4, <1>5, <1>6, WrittenAlwaysLoads, AlwaysKeepsTheRest, RoutesAlwaysServed DEF SetupCaseHolds

\* Every run of the wizard.
LEMMA WizardCaseSafe ==
    ASSUME WizardCase
    PROVE  SetupCaseHolds(case')
<1> DEFINE advice == [x \in {"fast_local"} |-> <<"a1">>]
           score == [x \in {"m1", "m2", "m3"} |-> 1]
<1>1. PICK roots \in Roots \ {<<>>}, base \in Bases, commands \in {{}, {"claude"}}, keys \in SUBSET {"OPENAI_API_KEY"},
           same \in BOOLEAN, mode \in {"api", "mixed"} :
        LET machine == [commands |-> commands, keys |-> keys, disk |-> PathsOf(roots)]
            found == Setup!Discovery(machine, roots)
            file == IF same THEN base ELSE Setup!NoFile
            plain == Setup!Recommend(found, score, advice)
            listed(r) == {c \in Setup!WizardChoices(r, found, advice) :
                            c[1] \in {"keep", "download"} \/ c \in {<<"model", 1>>, <<"engine", "claude_code">>, <<"engine", "openai_api">>}}
            pictures == Setup!WizardChoices("vision", found, advice) \cap {<<"keep">>, <<"model", 2>>}
        IN \E a \in listed("simple"), b \in listed("coding"), c \in pictures :
             case' = [kind |-> "setup", machine |-> machine, found |-> found, score |-> score, base |-> base, file |-> file,
                      best |-> FALSE, rec |-> Setup!Wizard([simple |-> a, coding |-> b, vision |-> c], mode, file, found, plain, advice)]
  BY DEF WizardCase
<1> DEFINE machine == [commands |-> commands, keys |-> keys, disk |-> PathsOf(roots)]
           found == Setup!Discovery(machine, roots)
           file == IF same THEN base ELSE Setup!NoFile
           plain == Setup!Recommend(found, score, advice)
           listed(r) == {c \in Setup!WizardChoices(r, found, advice) :
                            c[1] \in {"keep", "download"} \/ c \in {<<"model", 1>>, <<"engine", "claude_code">>, <<"engine", "openai_api">>}}
           pictures == Setup!WizardChoices("vision", found, advice) \cap {<<"keep">>, <<"model", 2>>}
<1>2. PICK a \in listed("simple"), b \in listed("coding"), c \in pictures :
             case' = [kind |-> "setup", machine |-> machine, found |-> found, score |-> score, base |-> base, file |-> file,
                      best |-> FALSE, rec |-> Setup!Wizard([simple |-> a, coding |-> b, vision |-> c], mode, file, found, plain, advice)]
  BY <1>1
<1>12. /\ a \in Setup!WizardChoices("simple", found, advice) /\ b \in Setup!WizardChoices("coding", found, advice)
       /\ c \in Setup!WizardChoices("vision", found, advice)
  <2> HIDE DEF found, advice
  <2> QED
    OBVIOUS
<1> DEFINE answers == [simple |-> a, coding |-> b, vision |-> c]
           rec == Setup!Wizard(answers, mode, file, found, plain, advice)
<1>3. /\ case'.machine = machine /\ case'.found = found /\ case'.base = base /\ case'.rec = rec /\ ~case'.best
  <2> HIDE DEF machine, found, advice, score, plain, file
  <2> QED
    BY <1>2
<1>4. IsScanned(machine, found)
  BY DiscoveryScans
<1>5. Scored(found.models, score)
  <2>1. found.models = Setup!Scan(roots)
    BY DEF Setup!Discovery
  <2>2. score \in [{"m1", "m2", "m3"} -> 1..2]
    OBVIOUS
  <2> QED
    BY <2>1, <2>2, RootsAre
<1>6. Advises(advice)
  <2>1. advice \in Advice
    BY DEF Advice
  <2> QED
    BY <2>1, AdviceAdvises
<1> HIDE DEF machine, found, advice, score, listed, pictures
<1>7. IsBase(base) /\ Setup!Routes \subseteq DOMAIN base.targets
  BY BasesAre
<1>8. \A r \in Setup!Routes : plain.targets[r] \in Setup!Known
  BY <1>5, <1>6, RecommendIs
<1>9. \A r \in Setup!Routes : IsAnswer(answers[r], r, found, advice)
  <2>1. "simple" \in Setup!Routes /\ "coding" \in Setup!Routes /\ "vision" \in Setup!Routes
    BY NamesAre
  <2>2. IsAnswer(a, "simple", found, advice) /\ IsAnswer(b, "coding", found, advice) /\ IsAnswer(c, "vision", found, advice)
    BY <1>6, <1>12, <2>1, ChoiceIsAnswer
  <2>3. answers["simple"] = a /\ answers["coding"] = b /\ answers["vision"] = c
    OBVIOUS
  <2> HIDE DEF answers
  <2> QED
    BY <2>2, <2>3, NamesAre
<1>10. file \in {Setup!NoFile, base}
  OBVIOUS
<1> HIDE DEF plain, answers, file
<1>11. Recommended(rec, base, found)
  BY <1>6, <1>7, <1>8, <1>9, <1>10, WizardIs
<1> HIDE DEF rec
<1> QED
  BY <1>3, <1>4, <1>7, <1>11, WrittenAlwaysLoads, AlwaysKeepsTheRest, RoutesAlwaysServed DEF SetupCaseHolds

\* Every run of install steps.
LEMMA RunCaseSafe ==
    ASSUME RunCase
    PROVE  Setup!RunIsHonest(case'.steps, case'.execute, case'.confirmed, case'.exit)
<1>1. PICK preset \in {"proxy", "all"}, method \in {"pipx", "unknown"}, pip \in BOOLEAN, uv \in BOOLEAN,
        execute \in BOOLEAN, confirmed \in BOOLEAN :
        LET steps == Setup!PrereqSteps(Setup!PrereqPackages(preset), method, pip, uv) IN
        \E exit \in [DOMAIN steps -> {"completed", "failed", "missing_command"}] :
            case' = [kind |-> "run", steps |-> steps, execute |-> execute, confirmed |-> confirmed, exit |-> exit]
  BY DEF RunCase
<1> DEFINE packages == Setup!PrereqPackages(preset)
           steps == Setup!PrereqSteps(packages, method, pip, uv)
<1>2. PICK exit \in [DOMAIN steps -> {"completed", "failed", "missing_command"}] :
            case' = [kind |-> "run", steps |-> steps, execute |-> execute, confirmed |-> confirmed, exit |-> exit]
  BY <1>1
<1>3. packages \in Seq({"fastapi", "httpx", "uvicorn", "huggingface_hub", "mlx-lm"})
  <2> DEFINE P == {"fastapi", "httpx", "uvicorn", "huggingface_hub", "mlx-lm"}
             base == <<"fastapi", "httpx", "uvicorn", "huggingface_hub">>
             more == IF preset \in {"mlx-lm", "all"} THEN <<"mlx-lm">> ELSE <<>>
  <2>1. base \in Seq(P) /\ more \in Seq(P)
    <3>1. "fastapi" \in P /\ "httpx" \in P /\ "uvicorn" \in P /\ "huggingface_hub" \in P /\ "mlx-lm" \in P
      OBVIOUS
    <3> HIDE DEF P
    <3>2. base \in Seq(P)
      BY <3>1
    <3>3. <<"mlx-lm">> \in Seq(P) /\ <<>> \in Seq(P)
      BY <3>1
    <3> QED
      BY <3>2, <3>3
  <2>2. packages = base \o more
    BY DEF Setup!PrereqPackages
  <2> HIDE DEF base, more, P, packages
  <2>3. packages \in Seq(P)
    BY <2>1, <2>2
  <2> QED
    BY <2>3 DEF P
<1>4. /\ steps \in Seq({steps[i] : i \in DOMAIN steps})
      /\ \A i \in DOMAIN steps : steps[i].executable \in BOOLEAN
  <2> HIDE DEF packages
  <2>1. DOMAIN packages = 1..Len(packages) /\ Len(packages) \in Nat
    BY <1>3
  <2>2. steps = [i \in DOMAIN packages |->
                   [package |-> packages[i], executable |-> Setup!Strategy(method, pip, uv) # "pip_missing"]]
    BY DEF Setup!PrereqSteps
  <2>3. DOMAIN steps = 1..Len(packages)
    BY <2>1, <2>2
  <2>4. \A i \in DOMAIN steps : steps[i].executable = (Setup!Strategy(method, pip, uv) # "pip_missing")
    BY <2>2
  <2>5. (Setup!Strategy(method, pip, uv) # "pip_missing") \in BOOLEAN
    <3>1. \A x, y : (x # y) \in BOOLEAN
      OBVIOUS
    <3> QED
      BY <3>1
  <2>6. steps = [i \in 1..Len(packages) |-> steps[i]]
    BY <2>1, <2>2
  <2> HIDE DEF steps
  <2>7. steps \in [1..Len(packages) -> {steps[i] : i \in DOMAIN steps}]
    BY <2>3, <2>6
  <2>8. steps \in Seq({steps[i] : i \in DOMAIN steps})
    BY <2>1, <2>7
  <2>9. \A i \in DOMAIN steps : steps[i].executable \in BOOLEAN
    BY <2>4, <2>5
  <2> QED
    BY <2>8, <2>9
<1> HIDE DEF steps
<1>5. \A i \in DOMAIN steps : exit[i] # "planned"
  <2>1. \A i \in DOMAIN steps : exit[i] \in {"completed", "failed", "missing_command"}
    OBVIOUS
  <2> QED
    BY <2>1
<1> QED
  BY <1>2, <1>4, <1>5, RunAlwaysHonest

-----------------------------------------------------------------------------
(* Install plans (installer.py): what is needed.                           *)

\* A machine that is planned for, whose files may be there or be made.
IsMachine(machine) ==
    /\ {"files", "modules", "commands", "install", "pip", "uv", "ollama", "apple", "lmstudio", "models"} \subseteq DOMAIN machine
    /\ machine = [x \in DOMAIN machine |-> machine[x]]
    /\ machine.files \in ConfigFiles

\* What init makes of the files.
MadeOf(files, force) ==
    [f \in {"router", "proxy"} |-> IF files[f] # "absent" /\ ~force THEN files[f] ELSE "new"]

\* An init that nothing fails for: its files are new, or were there and are kept.
LEMMA InitMakes ==
    ASSUME NEW files, DOMAIN files = {"router", "proxy"}, files = [f \in DOMAIN files |-> files[f]],
           NEW o, NEW planned, NEW force \in BOOLEAN
    PROVE  LET made == Product!InitializeConfig(files, Install!InitArgs(o, planned, force)) IN
           /\ Install!InitializeConfig(files, Install!InitArgs(o, planned, force)) = made
           /\ made.disk = MadeOf(files, force)
           /\ made.ok <=> \A f \in {"router", "proxy"} : force \/ files[f] = "absent"
<1> DEFINE args == Install!InitArgs(o, planned, force)
           made == Product!InitializeConfig(files, args)
           first == Product!WriteOrSkip(files, "router", "new", args)
           both == Product!WriteOrSkip(first, "proxy", "new", args)
           Kept(f) == files[f] # "absent" /\ ~force
<1>1. args.fails = None /\ args.force = force /\ args.auto = FALSE
  BY DEF Install!InitArgs
<1> HIDE DEF args
<1>2. /\ DOMAIN first = {"router", "proxy"}
      /\ first["router"] = (IF Kept("router") THEN files["router"] ELSE "new") /\ first["proxy"] = files["proxy"]
      /\ first = [f \in DOMAIN first |-> first[f]]
  BY <1>1, NoneAssumption DEF Product!WriteOrSkip
<1>3. /\ DOMAIN both = {"router", "proxy"}
      /\ both["router"] = first["router"]
      /\ both["proxy"] = (IF Kept("proxy") THEN files["proxy"] ELSE "new")
      /\ both = [f \in DOMAIN both |-> both[f]]
  <2> HIDE DEF first
  <2> QED
    BY <1>1, <1>2, NoneAssumption DEF Product!WriteOrSkip
<1>4. both = MadeOf(files, force)
  <2>1. \A f \in {"router", "proxy"} : both[f] = MadeOf(files, force)[f]
    BY <1>2, <1>3 DEF MadeOf
  <2>2. DOMAIN MadeOf(files, force) = {"router", "proxy"}
    BY DEF MadeOf
  <2> HIDE DEF both
  <2> QED
    BY <1>3, <2>1, <2>2 DEF MadeOf
<1>5. made = [disk |-> both, ok |-> ~Product!Fails(files, args) /\ Product!Skipped(files, args) = {}]
  <2>1. ~Product!Fails(files, args)
    BY <1>1 DEF Product!Fails
  <2> HIDE DEF first
  <2> QED
    BY <1>1, <2>1 DEF Product!InitializeConfig, first
<1>6. made.ok <=> \A f \in {"router", "proxy"} : force \/ files[f] = "absent"
  <2>1. ~Product!Fails(files, args)
    BY <1>1 DEF Product!Fails
  <2>2. Product!Skipped(files, args) = {} <=> \A f \in {"router", "proxy"} : force \/ files[f] = "absent"
    BY <1>1 DEF Product!Skipped
  <2>3. made.ok = (~Product!Fails(files, args) /\ Product!Skipped(files, args) = {})
    <3> HIDE DEF made, both
    <3> QED
      BY <1>5
  <2> HIDE DEF made
  <2> QED
    BY <2>1, <2>2, <2>3
<1>7. Install!InitializeConfig(files, args) = made
  BY DEF Install!InitializeConfig, Product!InitializeConfig, Install!WriteOrSkip, Product!WriteOrSkip,
         Install!Fails, Product!Fails, Install!Skipped, Product!Skipped
<1> HIDE DEF made, both
<1> QED
  BY <1>4, <1>5, <1>6, <1>7 DEF args, made

\* The packages of a preset, and whether they can be installed.
Packs(preset) ==
    {"fastapi", "httpx", "uvicorn", "huggingface_hub"} \cup (IF preset \in {"mlx-lm", "all"} THEN {"mlx-lm"} ELSE {})
CanInstall(machine) == Setup!Strategy(Install!DetectMethod(machine.install), machine.pip, machine.uv) # "pip_missing"

\* plan_prereq_installs (setup_assistant.py), as a set.
LEMMA PacksAre ==
    ASSUME NEW preset
    PROVE  LET s == Setup!PrereqPackages(preset) IN Elements(s) = Packs(preset)
<1> DEFINE P == {"fastapi", "httpx", "uvicorn", "huggingface_hub", "mlx-lm"}
           base == <<"fastapi", "httpx", "uvicorn", "huggingface_hub">>
           more == IF preset \in {"mlx-lm", "all"} THEN <<"mlx-lm">> ELSE <<>>
<1>1. "fastapi" \in P /\ "httpx" \in P /\ "uvicorn" \in P /\ "huggingface_hub" \in P /\ "mlx-lm" \in P
  OBVIOUS
<1> HIDE DEF P
<1>2. base \in Seq(P) /\ Elements(base) = {"fastapi", "httpx", "uvicorn", "huggingface_hub"}
  BY <1>1, ElementsOfFour
<1>3. more \in Seq(P) /\ Elements(more) = IF preset \in {"mlx-lm", "all"} THEN {"mlx-lm"} ELSE {}
  BY <1>1, ElementsOfNone, ElementsOfOne
<1>4. Setup!PrereqPackages(preset) = base \o more
  BY DEF Setup!PrereqPackages
<1> HIDE DEF base, more
<1>5. base \o more \in Seq(P) /\ Elements(base \o more) = Elements(base) \cup Elements(more)
  BY <1>2, <1>3, ElementsOfBoth
<1> QED
  BY <1>2, <1>3, <1>4, <1>5 DEF Packs

\* The steps of a prerequisite plan: each of these packages, and all can be installed or none.
LEMMA PrereqPlanIs ==
    ASSUME NEW o, NEW machine
    PROVE  LET s == Install!PrereqPlan(o, machine) IN
           /\ \A i \in DOMAIN s : s[i].executable <=> CanInstall(machine)
           /\ {s[i].package : i \in DOMAIN s} = Packs(Install!PrereqPreset(o, machine))
<1> DEFINE s == Install!PrereqPlan(o, machine)
           p == Setup!PrereqPackages(Install!PrereqPreset(o, machine))
<1>1. s = [i \in DOMAIN p |-> [package |-> p[i], executable |-> CanInstall(machine)]]
  BY DEF Install!PrereqPlan, Install!Setup!PrereqSteps, Install!Setup!PrereqPackages,
          Setup!PrereqPackages, Install!Setup!Strategy, Setup!Strategy, CanInstall
<1>2. {p[i] : i \in DOMAIN p} = Packs(Install!PrereqPreset(o, machine))
  BY PacksAre DEF Elements
<1> HIDE DEF s, p
<1>3. DOMAIN s = DOMAIN p /\ \A i \in DOMAIN p : s[i].package = p[i] /\ (s[i].executable <=> CanInstall(machine))
  BY <1>1
<1> QED
  BY <1>2, <1>3 DEF s

-----------------------------------------------------------------------------
(* Install plans: their commands, and the machine after some of them.      *)

\* The names of the commands, and those of a plan.
Commands ==
    {"install_prereqs", "doctor", "validate_config", "init_force", "init", "settings", "proxy", "download_plan",
     "telemetry", "developer_editable_install", "developer_tests", "tui"}
\* The commands of a plan that make files, and all of its commands.
Makes == {"init", "init_force"}
Planned(o, machine) == Elements(Install!NextCommands(o, machine))

\* _next_commands (installer.py): which of the commands that change something are there, and
\* when.
LEMMA PlanIs ==
    ASSUME NEW o, NEW machine
    PROVE  LET s == Install!NextCommands(o, machine)
               P == Planned(o, machine)
           IN /\ DOMAIN s = 1..Len(s) /\ Len(s) \in Nat
              /\ "install_prereqs" \in P <=> Install!PrereqsNeeded(o, machine)
              /\ "init_force" \in P <=> ~Install!Present(machine, "proxy") /\ Install!Present(machine, "router")
              /\ "validate_config" \in P <=> ~Install!Present(machine, "proxy") /\ Install!Present(machine, "router")
              /\ "init" \in P <=> ~Install!Present(machine, "proxy") /\ ~Install!Present(machine, "router")
<1> DEFINE C == Commands
           pre == IF Install!PrereqsNeeded(o, machine) THEN <<"install_prereqs">> ELSE <<>>
           conf == Install!ConfigCommands(machine)
           rest == <<"settings", "proxy", "download_plan", "telemetry">>
           dev == IF o.developer THEN <<"developer_editable_install", "developer_tests">> ELSE <<>>
           tui == <<"tui">>
           s == Install!NextCommands(o, machine)
<1>1. /\ "install_prereqs" \in C /\ "doctor" \in C /\ "validate_config" \in C /\ "init_force" \in C /\ "init" \in C /\ "settings" \in C
      /\ "proxy" \in C /\ "download_plan" \in C /\ "telemetry" \in C /\ "developer_editable_install" \in C
      /\ "developer_tests" \in C /\ "tui" \in C
  BY DEF Commands
<1> HIDE DEF C
<1>2. pre \in Seq(C) /\ Elements(pre) = IF Install!PrereqsNeeded(o, machine) THEN {"install_prereqs"} ELSE {}
  BY <1>1, ElementsOfNone, ElementsOfOne
<1>3. /\ conf \in Seq(C)
      /\ Elements(conf) = IF Install!Present(machine, "proxy") THEN {"doctor"}
                          ELSE IF Install!Present(machine, "router") THEN {"validate_config", "init_force"} ELSE {"init", "doctor"}
  BY <1>1, ElementsOfOne, ElementsOfTwo DEF Install!ConfigCommands
<1>4. rest \in Seq(C) /\ Elements(rest) = {"settings", "proxy", "download_plan", "telemetry"}
  BY <1>1, ElementsOfFour
<1>5. dev \in Seq(C) /\ Elements(dev) \subseteq {"developer_editable_install", "developer_tests"}
  BY <1>1, ElementsOfNone, ElementsOfTwo
<1>6. tui \in Seq(C) /\ Elements(tui) = {"tui"}
  BY <1>1, ElementsOfOne
<1>7. s = pre \o conf \o rest \o dev \o tui
  BY DEF Install!NextCommands
<1> HIDE DEF pre, conf, rest, dev, tui, s
<1> DEFINE two == pre \o conf
           three == two \o rest
           four == three \o dev
<1>8. two \in Seq(C) /\ Elements(two) = Elements(pre) \cup Elements(conf)
  BY <1>2, <1>3, ElementsOfBoth
<1>9. three \in Seq(C) /\ Elements(three) = Elements(two) \cup Elements(rest)
  <2> HIDE DEF two
  <2> QED
    BY <1>4, <1>8, ElementsOfBoth
<1>10. four \in Seq(C) /\ Elements(four) = Elements(three) \cup Elements(dev)
  <2> HIDE DEF three
  <2> QED
    BY <1>5, <1>9, ElementsOfBoth
<1>11. s \in Seq(C) /\ Elements(s) = Elements(four) \cup Elements(tui)
  <2>1. s = four \o tui
    BY <1>7
  <2> HIDE DEF four
  <2> QED
    BY <1>6, <1>10, <2>1, ElementsOfBoth
<1> HIDE DEF two, three, four
<1>12. DOMAIN s = 1..Len(s) /\ Len(s) \in Nat
  BY <1>11
<1>13. Elements(s) = Elements(pre) \cup Elements(conf) \cup Elements(rest) \cup Elements(dev) \cup Elements(tui)
  BY <1>8, <1>9, <1>10, <1>11
<1>14. "install_prereqs" \in Elements(s) <=> Install!PrereqsNeeded(o, machine)
  BY <1>2, <1>3, <1>4, <1>5, <1>6, <1>13
<1>15. "init_force" \in Elements(s) <=> ~Install!Present(machine, "proxy") /\ Install!Present(machine, "router")
  BY <1>2, <1>3, <1>4, <1>5, <1>6, <1>13
<1>16. "validate_config" \in Elements(s) <=> ~Install!Present(machine, "proxy") /\ Install!Present(machine, "router")
  BY <1>2, <1>3, <1>4, <1>5, <1>6, <1>13
<1>17. "init" \in Elements(s) <=> ~Install!Present(machine, "proxy") /\ ~Install!Present(machine, "router")
  BY <1>2, <1>3, <1>4, <1>5, <1>6, <1>13
<1> QED
  BY <1>12, <1>14, <1>15, <1>16, <1>17 DEF Planned, s

\* The packages that an install brings, and their programs.
Got(o, machine) == IF CanInstall(machine) THEN Packs(Install!PrereqPreset(o, machine)) ELSE {}
Brought(o, machine) == UNION {Install!Programs(p) : p \in Got(o, machine)}

\* The machine once the commands of done have run.
After(o, machine, done) ==
    LET installs == "install_prereqs" \in done
        makes == done \cap Makes # {}
    IN [machine EXCEPT !.files = IF makes THEN [f \in {"router", "proxy"} |-> "new"] ELSE @,
                       !.modules = IF installs THEN @ \cup Got(o, machine) ELSE @,
                       !.commands = IF installs THEN @ \cup Brought(o, machine) ELSE @]

\* The same, field by field.
IsAfter(m, o, machine, done) ==
    /\ DOMAIN m = DOMAIN machine /\ m = [x \in DOMAIN m |-> m[x]]
    /\ done \cap Makes # {} => m.files = [f \in {"router", "proxy"} |-> "new"]
    /\ done \cap Makes = {} => m.files = machine.files
    /\ "install_prereqs" \in done
         => m.modules = machine.modules \cup Got(o, machine) /\ m.commands = machine.commands \cup Brought(o, machine)
    /\ "install_prereqs" \notin done => m.modules = machine.modules /\ m.commands = machine.commands
    /\ \A x \in DOMAIN machine \ {"files", "modules", "commands"} : m[x] = machine[x]

\* One install brings all of them.
LEMMA InstalledIs ==
    ASSUME NEW o, NEW machine, NEW m
    PROVE  Install!Installed(m, Install!PrereqPlan(o, machine))
             = [m EXCEPT !.modules = @ \cup Got(o, machine), !.commands = @ \cup Brought(o, machine)]
<1> DEFINE s == Install!PrereqPlan(o, machine)
           got == {s[i].package : i \in {j \in DOMAIN s : s[j].executable}}
<1>1. got = Got(o, machine)
  <2>1. /\ \A i \in DOMAIN s : s[i].executable <=> CanInstall(machine)
        /\ {s[i].package : i \in DOMAIN s} = Packs(Install!PrereqPreset(o, machine))
    BY PrereqPlanIs
  <2> HIDE DEF s
  <2>2. CASE CanInstall(machine)
    <3>1. {j \in DOMAIN s : s[j].executable} = DOMAIN s
      BY <2>1, <2>2
    <3> QED
      BY <2>1, <2>2, <3>1 DEF Got
  <2>3. CASE ~CanInstall(machine)
    <3>1. {j \in DOMAIN s : s[j].executable} = {}
      BY <2>1, <2>3
    <3> QED
      BY <2>3, <3>1 DEF Got
  <2> QED
    BY <2>2, <2>3
<1>2. Install!Installed(m, s) = [m EXCEPT !.modules = @ \cup got, !.commands = @ \cup UNION {Install!Programs(p) : p \in got}]
  BY DEF Install!Installed
<1> HIDE DEF got, s
<1> QED
  BY <1>1, <1>2 DEF s, Brought

\* After is what IsAfter says.
LEMMA AfterIs ==
    ASSUME NEW o, NEW machine, IsMachine(machine), NEW done
    PROVE  IsAfter(After(o, machine, done), o, machine, done)
BY DEF IsMachine, After, IsAfter

\* Two machines are the same after the same commands.
LEMMA AfterOnce ==
    ASSUME NEW o, NEW machine, NEW done, NEW m, NEW n, IsAfter(m, o, machine, done), IsAfter(n, o, machine, done)
    PROVE  m = n
<1>1. m.files = n.files /\ m.modules = n.modules /\ m.commands = n.commands
  BY DEF IsAfter
<1>2. \A x \in DOMAIN machine : m[x] = n[x]
  BY <1>1 DEF IsAfter
<1> QED
  BY <1>2 DEF IsAfter

-----------------------------------------------------------------------------
(* Install plans: who follows them.                                        *)

\* One more command of the plan, one more member of done: init finds no files or its own.
LEMMA RanIs ==
    ASSUME NEW o, NEW machine, IsMachine(machine), NEW done, NEW c \in Planned(o, machine)
    PROVE  Install!Ran(c, o, machine, After(o, machine, done)) = After(o, machine, done \cup {c})
<1> DEFINE m == After(o, machine, done)
           n == After(o, machine, done \cup {c})
           r == Install!Ran(c, o, machine, m)
           New == [f \in {"router", "proxy"} |-> "new"]
<1>1. IsAfter(m, o, machine, done) /\ IsAfter(n, o, machine, done \cup {c})
  BY AfterIs
<1>2. {"files", "modules", "commands"} \subseteq DOMAIN machine
  BY DEF IsMachine
<1> HIDE DEF m, n
<1>3. CASE c = "install_prereqs"
  <2>1. r = [m EXCEPT !.modules = @ \cup Got(o, machine), !.commands = @ \cup Brought(o, machine)]
    BY <1>3, InstalledIs DEF Install!Ran
  <2>2. /\ DOMAIN r = DOMAIN machine /\ r = [x \in DOMAIN r |-> r[x]]
        /\ r.files = m.files /\ r.modules = m.modules \cup Got(o, machine) /\ r.commands = m.commands \cup Brought(o, machine)
        /\ \A x \in DOMAIN machine \ {"files", "modules", "commands"} : r[x] = m[x]
    <3>1. DOMAIN m = DOMAIN machine
      BY <1>1 DEF IsAfter
    <3> QED
      BY <1>2, <2>1, <3>1
  <2>3. "install_prereqs" \notin Makes
    BY DEF Makes
  <2>4. ((done \cup {c}) \cap Makes = {}) <=> (done \cap Makes = {})
    BY <1>3, <2>3
  <2> HIDE DEF r
  <2>5. IsAfter(r, o, machine, done \cup {c})
    BY <1>1, <1>3, <2>2, <2>4 DEF IsAfter
  <2>6. r = n
    BY <1>1, <2>5, AfterOnce
  <2> QED
    BY <2>6 DEF r, m, n
<1>4. CASE c \in Makes
  <2> DEFINE force == c = "init_force"
             made == Install!InitializeConfig(m.files, Install!InitArgs(o, machine, force))
  <2>1. r = [m EXCEPT !.files = Install!InitializeConfig(@, Install!InitArgs(o, machine, force)).disk]
    BY <1>4 DEF Install!Ran, Makes
  <2>2. m.files = New \/ (m.files = machine.files /\ m.files \in ConfigFiles)
    BY <1>1 DEF IsAfter, IsMachine
  <2>3. DOMAIN m.files = {"router", "proxy"} /\ m.files = [f \in DOMAIN m.files |-> m.files[f]]
    BY <2>2 DEF ConfigFiles
  <2>4. made.disk = MadeOf(m.files, force)
    <3>1. force \in BOOLEAN
      OBVIOUS
    <3> DEFINE files == m.files
    <3>2. DOMAIN files = {"router", "proxy"} /\ files = [f \in DOMAIN files |-> files[f]]
      BY <2>3
    <3> HIDE DEF files, force
    <3>3. Install!InitializeConfig(files, Install!InitArgs(o, machine, force)).disk = MadeOf(files, force)
      BY <3>1, <3>2, InitMakes
    <3> QED
      BY <3>3 DEF files
  <2>5. MadeOf(m.files, force) = New
    <3>1. CASE force
      BY <3>1 DEF MadeOf
    <3>2. CASE ~force
      <4>1. c = "init"
        BY <1>4, <3>2 DEF Makes
      <4>2. machine.files["proxy"] = "absent" /\ machine.files["router"] = "absent"
        BY <4>1, PlanIs DEF Install!Present
      <4>3. \A f \in {"router", "proxy"} : m.files[f] \in {"absent", "new"}
        BY <2>2, <4>2
      <4> QED
        BY <3>2, <4>3 DEF MadeOf
    <3> QED
      BY <3>1, <3>2
  <2> HIDE DEF force
  <2>6. /\ DOMAIN r = DOMAIN machine /\ r = [x \in DOMAIN r |-> r[x]]
        /\ r.files = New /\ r.modules = m.modules /\ r.commands = m.commands
        /\ \A x \in DOMAIN machine \ {"files", "modules", "commands"} : r[x] = m[x]
    <3>1. DOMAIN m = DOMAIN machine
      BY <1>1 DEF IsAfter
    <3> HIDE DEF New
    <3> QED
      BY <1>2, <2>1, <2>4, <2>5, <3>1
  <2>7. c # "install_prereqs"
    BY <1>4 DEF Makes
  <2>8. (done \cup {c}) \cap Makes # {} /\ ("install_prereqs" \in done \cup {c} <=> "install_prereqs" \in done)
    BY <1>4, <2>7
  <2> HIDE DEF r
  <2>9. IsAfter(r, o, machine, done \cup {c})
    BY <1>1, <2>6, <2>8 DEF IsAfter
  <2>10. r = n
    BY <1>1, <2>9, AfterOnce
  <2> QED
    BY <2>10 DEF r, m, n
<1>5. CASE c # "install_prereqs" /\ c \notin Makes
  <2>1. r = m
    BY <1>5 DEF Install!Ran, Makes
  <2>2. ((done \cup {c}) \cap Makes = {} <=> done \cap Makes = {})
        /\ ("install_prereqs" \in done \cup {c} <=> "install_prereqs" \in done)
    BY <1>5
  <2> HIDE DEF r
  <2>3. IsAfter(r, o, machine, done \cup {c})
    BY <1>1, <2>1, <2>2 DEF IsAfter
  <2>4. r = n
    BY <1>1, <2>3, AfterOnce
  <2> QED
    BY <2>4 DEF r, m, n
<1> QED
  BY <1>3, <1>4, <1>5

\* So a plan that is followed to its end, a fold over its commands, leads where all of them
\* lead.
LEMMA FollowedIs ==
    ASSUME NEW o, NEW machine, IsMachine(machine)
    PROVE  Install!Followed(o, machine) = After(o, machine, Planned(o, machine))
<1> DEFINE s == Install!NextCommands(o, machine)
           n == Len(s)
           U == 1..n
           A(done) == After(o, machine, done)
           V == {A(done) : done \in SUBSET Planned(o, machine)}
           F == [p \in (1..n) \X V |-> Install!Ran(s[p[1]], o, machine, p[2])]
           Def(g) == [T \in SUBSET DOMAIN s |-> IF T = {} THEN machine
                        ELSE Install!Ran(s[Greatest(T)], o, machine, g[T \ {Greatest(T)}])]
           iter == CHOOSE g : g = Def(g)
<1>1. n \in Nat /\ DOMAIN s = U
  BY PlanIs
<1>2. \A i \in 1..n : s[i] \in Planned(o, machine)
  BY <1>1 DEF Planned, Elements
<1>3. \A x \in Planned(o, machine) : \E i \in 1..n : s[i] = x
  BY <1>1 DEF Planned, Elements
<1>4. machine = A({})
  <2> DEFINE m == A({})
  <2>1. IsAfter(m, o, machine, {})
    BY AfterIs
  <2>2. IsAfter(machine, o, machine, {})
    BY DEF IsMachine, IsAfter
  <2> HIDE DEF m
  <2>3. m = machine
    BY <2>1, <2>2, AfterOnce
  <2> QED
    BY <2>3 DEF m
<1>5. \A i \in 1..n : \A done \in SUBSET Planned(o, machine) : Install!Ran(s[i], o, machine, A(done)) = A(done \cup {s[i]})
  BY <1>2, RanIs
<1> HIDE DEF s, A
<1>6. machine \in V
  BY <1>4
<1>7. F \in [(1..n) \X V -> V]
  <2>1. ASSUME NEW i \in 1..n, NEW v \in V PROVE Install!Ran(s[i], o, machine, v) \in V
    <3>1. PICK done \in SUBSET Planned(o, machine) : v = A(done)
      OBVIOUS
    <3>2. done \cup {s[i]} \in SUBSET Planned(o, machine)
      BY <1>2
    <3> QED
      BY <1>5, <3>1, <3>2
  <2> HIDE DEF V
  <2> QED
    BY <2>1
<1>8. PICK g \in [SUBSET (1..n) -> V], h \in [0..n -> V] : FoldsAlong(g, h, n, machine, F)
  <2> HIDE DEF F, n, V
  <2> QED
    BY <1>1, <1>6, <1>7, FoldRun
<1>9. \A T \in SUBSET U : T # {} => Greatest(T) \in T
  BY <1>1, GreatestIn
<1>10. g = Def(g)
  <2>1. ASSUME NEW T \in SUBSET U
        PROVE  g[T] = IF T = {} THEN machine ELSE Install!Ran(s[Greatest(T)], o, machine, g[T \ {Greatest(T)}])
    <3>1. g[T] = IF T = {} THEN machine ELSE F[<<Greatest(T), g[T \ {Greatest(T)}]>>]
      <4> HIDE DEF F, V, n
      <4> QED
        BY <1>8 DEF FoldsAlong
    <3>2. T # {} => <<Greatest(T), g[T \ {Greatest(T)}]>> \in (1..n) \X V
      <4> HIDE DEF V, n
      <4> QED
        BY <1>9
    <3> HIDE DEF V
    <3> QED
      BY <3>1, <3>2
  <2> QED
    BY <1>1, <2>1
<1>11. iter = Def(iter)
  <2> HIDE DEF Def
  <2> QED
    BY <1>10
<1>12. iter[1..n] = g[1..n]
  <2>1. g[{}] = machine /\ iter[{}] = machine
    <3> HIDE DEF iter
    <3> QED
      BY <1>1, <1>10, <1>11
  <2>2. ASSUME NEW T \in SUBSET (1..n), T # {}, iter[T \ {Greatest(T)}] = g[T \ {Greatest(T)}]
        PROVE  iter[T] = g[T]
    <3> HIDE DEF iter
    <3>1. T \in SUBSET DOMAIN s
      BY <1>1
    <3>2. iter[T] = Install!Ran(s[Greatest(T)], o, machine, iter[T \ {Greatest(T)}])
      BY <1>11, <2>2, <3>1
    <3>3. g[T] = Install!Ran(s[Greatest(T)], o, machine, g[T \ {Greatest(T)}])
      BY <1>10, <2>2, <3>1
    <3> QED
      BY <3>2, <3>3, <2>2
  <2>3. Agree(iter, g, n)
    <3> HIDE DEF iter, n
    <3> QED
      BY <2>2 DEF Agree
  <2> HIDE DEF iter, n
  <2> QED
    BY <1>1, <2>1, <2>3, FoldsAgree
<1>13. Install!Followed(o, machine) = iter[DOMAIN s]
  BY DEF Install!Followed, Install!FoldLeft, Install!MapThenFoldSet, Install!Max, Greatest, s
<1> DEFINE ran(i) == {s[j] : j \in 1..i}
           S == {i \in Nat : i \in 0..n => h[i] = A(ran(i))}
<1>14. h[0] = machine /\ g[1..n] = h[n] /\ \A i \in 1..n : h[i] = Install!Ran(s[i], o, machine, h[i - 1])
  <2>1. h[0] = machine /\ g[1..n] = h[n] /\ \A i \in 1..n : h[i] = F[<<i, h[i - 1]>>]
    <3> HIDE DEF F, V, n
    <3> QED
      BY <1>8 DEF FoldsAlong
  <2>2. \A i \in 1..n : <<i, h[i - 1]>> \in (1..n) \X V
    <3> HIDE DEF V
    <3> QED
      BY <1>1
  <2> HIDE DEF V
  <2> QED
    BY <2>1, <2>2
<1> HIDE DEF iter, n, F, V
<1>15. Nat \subseteq S
  <2>1. 0 \in S
    <3>1. ran(0) = {}
      OBVIOUS
    <3> QED
      BY <1>4, <1>14, <3>1
  <2>2. ASSUME NEW i \in Nat, i \in S PROVE i + 1 \in S
    <3>1. SUFFICES ASSUME i + 1 \in 0..n PROVE h[i + 1] = A(ran(i + 1))
      OBVIOUS
    <3>2. i \in 0..n /\ i + 1 \in 1..n /\ (i + 1) - 1 = i /\ 1..(i + 1) = (1..i) \cup {i + 1} /\ 1..i \subseteq 1..n
      BY <1>1, <3>1
    <3>3. h[i] = A(ran(i))
      BY <2>2, <3>2
    <3>4. ran(i + 1) = ran(i) \cup {s[i + 1]}
      BY <3>2
    <3>5. ran(i) \in SUBSET Planned(o, machine)
      BY <1>2, <3>2
    <3>6. h[i + 1] = Install!Ran(s[i + 1], o, machine, h[i])
      BY <1>14, <3>2
    <3> HIDE DEF ran
    <3> QED
      BY <1>5, <3>2, <3>3, <3>4, <3>5, <3>6
  <2> HIDE DEF S
  <2> QED
    BY <2>1, <2>2, NatInduct
<1>16. h[n] = A(ran(n))
  <2>1. n \in Nat /\ n \in 0..n
    BY <1>1
  <2> HIDE DEF ran
  <2> QED
    BY <1>15, <2>1
<1>17. ran(n) = Planned(o, machine)
  BY <1>2, <1>3
<1> HIDE DEF ran
<1> QED
  BY <1>1, <1>12, <1>13, <1>14, <1>16, <1>17 DEF A

-----------------------------------------------------------------------------
(* Install plans: their promises.                                          *)

\* The programs that come with the packages.
LEMMA BroughtIs ==
    ASSUME NEW o, NEW machine
    PROVE  /\ \A x \in Brought(o, machine) : x = "hf" \/ (x = "mlx_lm.server" /\ "mlx-lm" \in Got(o, machine))
           /\ "huggingface_hub" \in Got(o, machine) => "hf" \in Brought(o, machine)
<1>1. Install!Programs("huggingface_hub") = {"hf"} /\ Install!Programs("mlx-lm") = {"mlx_lm.server"}
  BY DEF Install!Programs
<1>2. \A p \in {"fastapi", "httpx", "uvicorn"} : Install!Programs(p) = {}
  BY DEF Install!Programs
<1>3. Got(o, machine) \subseteq {"fastapi", "httpx", "uvicorn", "huggingface_hub", "mlx-lm"}
  BY DEF Got, Packs
<1>4. ASSUME NEW x \in Brought(o, machine) PROVE x = "hf" \/ (x = "mlx_lm.server" /\ "mlx-lm" \in Got(o, machine))
  <2>1. PICK p \in Got(o, machine) : x \in Install!Programs(p)
    BY DEF Brought
  <2> QED
    BY <1>1, <1>2, <1>3, <2>1
<1>5. "huggingface_hub" \in Got(o, machine) => "hf" \in Brought(o, machine)
  BY <1>1 DEF Brought
<1> QED
  BY <1>4, <1>5

\* A plan does not change its own preset: mlx-lm brings its server only where it was chosen
\* already.
LEMMA PresetStays ==
    ASSUME NEW o, NEW machine, IsMachine(machine), NEW m, IsAfter(m, o, machine, Planned(o, machine))
    PROVE  Install!PrereqPreset(o, m) = Install!PrereqPreset(o, machine)
<1>1. CASE o.developer \/ o.flags # {}
  BY <1>1 DEF Install!PrereqPreset, Install!SelectedPreset
<1>2. CASE ~o.developer /\ o.flags = {}
  <2> DEFINE p == Install!Recommended(machine)
             q == Install!Recommended(m)
  <2>1. /\ m.ollama = machine.ollama /\ m.lmstudio = machine.lmstudio /\ m.apple = machine.apple /\ m.models = machine.models
        /\ machine.commands \subseteq m.commands /\ m.commands \subseteq machine.commands \cup Brought(o, machine)
    BY DEF IsAfter, IsMachine
  <2>2. Install!PrereqPreset(o, machine) = (IF p \in Install!Managed THEN p ELSE "proxy")
        /\ Install!PrereqPreset(o, m) = (IF q \in Install!Managed THEN q ELSE "proxy")
    BY <1>2 DEF Install!PrereqPreset, Install!SelectedPreset
  <2>3. p = q
    <3>1. CASE p = "mlx-lm"
      BY <2>1, <3>1 DEF Install!Recommended
    <3>2. CASE p # "mlx-lm"
      <4>1. "mlx-lm" \notin Got(o, machine)
        BY <2>2, <3>2 DEF Got, Packs, Install!Managed
      <4>2. \A x \in Brought(o, machine) : x = "hf"
        BY <4>1, BroughtIs
      <4>3. ("mlx_lm.server" \in m.commands <=> "mlx_lm.server" \in machine.commands)
            /\ ("llama-server" \in m.commands <=> "llama-server" \in machine.commands)
        BY <2>1, <4>2
      <4> QED
        BY <2>1, <4>3 DEF Install!Recommended
    <3> QED
      BY <3>1, <3>2
  <2> HIDE DEF p, q
  <2> QED
    BY <2>2, <2>3
<1> QED
  BY <1>1, <1>2

\* What the packages of a plan lack.
LEMMA NeededIs ==
    ASSUME NEW o, NEW m
    PROVE  Install!PrereqsNeeded(o, m)
             <=> \E p \in Packs(Install!PrereqPreset(o, m)) :
                   IF p = "huggingface_hub" THEN "hf" \notin m.commands ELSE p \notin m.modules
<1> DEFINE s == Install!PrereqPlan(o, m)
           Lacks(p) == IF p = "huggingface_hub" THEN "hf" \notin m.commands ELSE p \notin m.modules
<1>1. {s[i].package : i \in DOMAIN s} = Packs(Install!PrereqPreset(o, m))
  BY PrereqPlanIs
<1>2. Install!PrereqsNeeded(o, m) <=> \E i \in DOMAIN s : Lacks(s[i].package)
  BY DEF Install!PrereqsNeeded, Install!StepReady
<1> HIDE DEF s, Lacks
<1>3. Install!PrereqsNeeded(o, m) <=> \E p \in Packs(Install!PrereqPreset(o, m)) : Lacks(p)
  BY <1>1, <1>2
<1> QED
  BY <1>3 DEF Lacks

\* installer.py: the plan after the plan has nothing left to install or to create.
THEOREM PlanAlwaysConverges ==
    ASSUME NEW o, NEW machine, IsMachine(machine)
    PROVE  Install!PlanConverges(o, machine)
<1> DEFINE plan == Planned(o, machine)
           later == Install!Followed(o, machine)
           next == Planned(o, later)
           New == [f \in {"router", "proxy"} |-> "new"]
<1>1. IsAfter(later, o, machine, plan)
  BY FollowedIs, AfterIs
<1>2. /\ Install!ToSet(Install!NextCommands(o, machine)) = plan
      /\ Install!ToSet(Install!NextCommands(o, later)) = next
  BY DEF Install!ToSet, Planned, Elements
<1>3. Install!PrereqPreset(o, later) = Install!PrereqPreset(o, machine)
  BY <1>1, PresetStays
<1> HIDE DEF later
<1>4. ASSUME CanInstall(machine) PROVE "install_prereqs" \notin next
  <2>1. SUFFICES ~Install!PrereqsNeeded(o, later)
    BY PlanIs
  <2> DEFINE packs == Packs(Install!PrereqPreset(o, machine))
  <2>2. Got(o, machine) = packs /\ "huggingface_hub" \in packs
    BY <1>4 DEF Got, Packs
  <2>3. CASE "install_prereqs" \in plan
    <3>1. packs \subseteq later.modules /\ "hf" \in later.commands
      BY <1>1, <2>2, <2>3, BroughtIs DEF IsAfter
    <3> QED
      BY <1>3, <3>1, NeededIs
  <2>4. CASE "install_prereqs" \notin plan
    <3>1. ~Install!PrereqsNeeded(o, machine)
      BY <2>4, PlanIs
    <3>2. later.modules = machine.modules /\ later.commands = machine.commands
      BY <1>1, <2>4 DEF IsAfter
    <3> QED
      BY <1>3, <3>1, <3>2, NeededIs
  <2> QED
    BY <2>3, <2>4
<1>5. plan \cap Makes = {} <=> Install!Present(machine, "proxy")
  BY PlanIs DEF Makes
<1>6. Install!Present(later, "proxy") /\ (plan \cap Makes # {} => Install!Present(later, "router"))
  <2>1. CASE plan \cap Makes = {}
    BY <1>1, <1>5, <2>1 DEF IsAfter, Install!Present
  <2>2. CASE plan \cap Makes # {}
    BY <1>1, <2>2 DEF IsAfter, Install!Present
  <2> QED
    BY <2>1, <2>2
<1>7. next \cap {"init", "init_force", "validate_config"} = {}
  BY <1>6, PlanIs
<1>8. Install!Offered("proxy", later)
  BY <1>6 DEF Install!Offered
<1>9. ASSUME NEW file \in DOMAIN machine.files, Install!Present(machine, file), later.files[file] # machine.files[file]
      PROVE  "init_force" \in plan /\ ~Install!Present(machine, "proxy")
  <2>1. plan \cap Makes # {}
    BY <1>1, <1>9 DEF IsAfter
  <2>2. ~Install!Present(machine, "proxy")
    BY <1>5, <2>1
  <2>3. file = "router"
    BY <1>9, <2>2 DEF IsMachine, ConfigFiles
  <2> QED
    BY <1>9, <2>2, <2>3, PlanIs
<1>10. plan \cap {"init", "init_force"} # {} => ~Install!Partial(later)
  BY <1>6 DEF Install!Partial, Makes
<1>11. CanInstall(machine) <=> Install!Setup!Strategy(Install!DetectMethod(machine.install), machine.pip, machine.uv) # "pip_missing"
  BY DEF CanInstall, Setup!Strategy, Install!Setup!Strategy
<1> HIDE DEF plan, next
<1> QED
  BY <1>2, <1>4, <1>7, <1>8, <1>9, <1>10, <1>11 DEF Install!PlanConverges, later

\* installer.py: labels, warnings and commands come from the same facts.
LEMMA PlanAlwaysAgrees ==
    ASSUME NEW o, NEW machine, IsMachine(machine)
    PROVE  Install!PlanAgrees(o, machine)
<1> DEFINE plan == Planned(o, machine)
           labels == Elements(Install!NextLabels(machine))
           ready == Install!ProxyModules \subseteq machine.modules
           proxy == Install!Present(machine, "proxy")
           preset == Install!PrereqPreset(o, machine)
<1>1. /\ "install_prereqs" \in labels <=> ~ready
      /\ "create_config" \in labels <=> ~proxy
  <2> DEFINE C == {"install_prereqs", "create_config", "doctor", "settings", "proxy"}
             first == IF ready THEN <<>> ELSE <<"install_prereqs">>
             second == IF proxy THEN <<>> ELSE <<"create_config">>
             third == <<"doctor", "settings", "proxy">>
             both == first \o second
  <2>1. "install_prereqs" \in C /\ "create_config" \in C /\ "doctor" \in C /\ "settings" \in C /\ "proxy" \in C
    OBVIOUS
  <2> HIDE DEF C, ready, proxy
  <2>2. first \in Seq(C) /\ Elements(first) = IF ready THEN {} ELSE {"install_prereqs"}
    BY <2>1, ElementsOfNone, ElementsOfOne
  <2>3. second \in Seq(C) /\ Elements(second) = IF proxy THEN {} ELSE {"create_config"}
    BY <2>1, ElementsOfNone, ElementsOfOne
  <2>4. third \in Seq(C) /\ Elements(third) = {"doctor", "settings", "proxy"}
    BY <2>1, ElementsOfThree
  <2>5. Install!NextLabels(machine) = both \o third
    BY DEF Install!NextLabels, ready, proxy
  <2> HIDE DEF first, second, third
  <2>6. both \in Seq(C) /\ Elements(both) = Elements(first) \cup Elements(second)
    BY <2>2, <2>3, ElementsOfBoth
  <2> HIDE DEF both
  <2>7. Elements(both \o third) = Elements(both) \cup Elements(third)
    BY <2>4, <2>6, ElementsOfBoth
  <2>8. labels = Elements(first) \cup Elements(second) \cup Elements(third)
    BY <2>5, <2>6, <2>7
  <2> HIDE DEF labels
  <2>9. "install_prereqs" \in labels <=> ~ready
    BY <2>2, <2>3, <2>4, <2>8
  <2>10. "create_config" \in labels <=> ~proxy
    BY <2>2, <2>3, <2>4, <2>8
  <2> QED
    BY <2>9, <2>10
<1>2. /\ Install!ToSet(Install!NextCommands(o, machine)) = plan
      /\ Install!ToSet(Install!NextLabels(machine)) = labels
  BY DEF Install!ToSet, Planned, Elements
<1>3. ~ready => "install_prereqs" \in plan
  <2>1. \A p \in Install!ProxyModules : p \in Packs(preset) /\ p # "huggingface_hub"
    BY DEF Install!ProxyModules, Packs
  <2> QED
    BY <2>1, NeededIs, PlanIs
<1>4. plan \cap {"init", "init_force"} # {} <=> ~proxy
  BY PlanIs
<1>5. "install_prereqs" \in plan => ~ready \/ "hf" \notin machine.commands
        \/ (preset \in {"mlx-lm", "all"} /\ "mlx-lm" \notin machine.modules)
  <2>1. SUFFICES ASSUME "install_prereqs" \in plan
                 PROVE  ~ready \/ "hf" \notin machine.commands \/ (preset \in {"mlx-lm", "all"} /\ "mlx-lm" \notin machine.modules)
    OBVIOUS
  <2>2. PICK p \in Packs(preset) : IF p = "huggingface_hub" THEN "hf" \notin machine.commands ELSE p \notin machine.modules
    BY <2>1, PlanIs, NeededIs
  <2>3. p \in Install!ProxyModules \/ p = "huggingface_hub" \/ (p = "mlx-lm" /\ preset \in {"mlx-lm", "all"})
    BY DEF Install!ProxyModules, Packs
  <2> QED
    BY <2>2, <2>3
<1>6. /\ ~ready => "modules" \in Install!Warnings(machine)
      /\ ~proxy => "proxy_config" \in Install!Warnings(machine)
      /\ "hf" \notin machine.commands => "hf" \in Install!Warnings(machine)
  BY DEF Install!Warnings
<1> HIDE DEF plan, labels, ready, proxy
<1>7. plan \cap {"install_prereqs", "init", "init_force"} # {}
        => Install!Warnings(machine) # {} \/ (preset \in {"mlx-lm", "all"} /\ "mlx-lm" \notin machine.modules)
  BY <1>4, <1>5, <1>6
<1> QED
  BY <1>1, <1>2, <1>3, <1>4, <1>7 DEF Install!PlanAgrees

-----------------------------------------------------------------------------
(* Guided runs (cli.py).                                                   *)

\* _run_guided_install (cli.py): each way through it, on the machine as it is by then.
THEOREM GuidedAlwaysSafe ==
    ASSUME NEW o, NEW planned, NEW m, IsMachine(m), NEW yes, NEW oldServes
    PROVE  Install!GuidedIsSafe(o, planned, m, yes, oldServes)
<1> DEFINE args == Install!InitArgs(o, planned, FALSE)
           plan == Install!ToSet(Install!NextCommands(o, planned))
           init == Install!InitializeConfig(m.files, args)
           made == [m EXCEPT !.files = init.disk]
           run == Install!Guided(o, planned, m, yes, oldServes)
           doctor(x) == IF Install!DoctorOk(o, planned, x, oldServes) THEN 0 ELSE 1
           of(ran, exit, x) == [ran |-> ran, exit |-> exit, files |-> x.files]
           keeps == \A file \in DOMAIN m.files : Install!Present(m, file) => run.files[file] = m.files[file]
           asked == Elements(run.ran) \subseteq yes
           creates == run.exit = 0 /\ "init" \in Elements(run.ran) => \A file \in DOMAIN run.files : run.files[file] = "new"
           checks == "doctor" \in Elements(run.ran)
                       => (run.exit = 0 <=> Install!DoctorOk(o, planned, [m EXCEPT !.files = run.files], oldServes))
           changes == run.files # m.files => run.ran # <<>> /\ run.ran[1] = "init"
<1>1. /\ DOMAIN m.files = {"router", "proxy"} /\ m.files = [f \in DOMAIN m.files |-> m.files[f]]
      /\ m = [x \in DOMAIN m |-> m[x]] /\ "files" \in DOMAIN m
  BY DEF IsMachine, ConfigFiles
<1>2. init.disk = MadeOf(m.files, FALSE) /\ (init.ok <=> \A f \in {"router", "proxy"} : m.files[f] = "absent")
  <2> DEFINE files == m.files
  <2>1. DOMAIN files = {"router", "proxy"} /\ files = [f \in DOMAIN files |-> files[f]]
    BY <1>1
  <2> DEFINE force == FALSE
  <2>2. force \in BOOLEAN /\ ~force
    OBVIOUS
  <2> HIDE DEF files, force
  <2>3. /\ Install!InitializeConfig(files, Install!InitArgs(o, planned, force)).disk = MadeOf(files, force)
        /\ Install!InitializeConfig(files, Install!InitArgs(o, planned, force)).ok
                <=> \A f \in {"router", "proxy"} : force \/ files[f] = "absent"
    BY <2>1, <2>2, InitMakes
  <2>4. Install!InitializeConfig(files, args) = Install!InitializeConfig(files, Install!InitArgs(o, planned, force))
    BY DEF force
  <2>5. MadeOf(files, FALSE) = MadeOf(files, force)
    BY DEF force
  <2> HIDE DEF args
  <2> QED
    BY <2>2, <2>3, <2>4, <2>5 DEF files
<1>3. [m EXCEPT !.files = m.files] = m
  BY <1>1
<1>4. made.files = init.disk /\ [m EXCEPT !.files = made.files] = made
  BY <1>1
<1>5. Elements(<<>>) = {} /\ Elements(<<"doctor">>) = {"doctor"} /\ Elements(<<"init">>) = {"init"}
      /\ Elements(<<"init", "doctor">>) = {"init", "doctor"}
  BY ElementsOfNone, ElementsOfOne, ElementsOfTwo
<1>6. \/ run = of(<<"doctor">>, doctor(m), m) /\ "doctor" \in yes
      \/ run = of(<<>>, 0, m)
      \/ run = of(<<"init">>, 1, made) /\ "init" \in yes
      \/ run = of(<<"init", "doctor">>, doctor(made), made) /\ {"init", "doctor"} \subseteq yes /\ init.ok
      \/ run = of(<<"init">>, 0, made) /\ "init" \in yes /\ init.ok
  <2> HIDE DEF args, plan
  <2> QED
    BY DEF Install!Guided, args, plan
<1>7. \A file \in {"router", "proxy"} : m.files[file] # "absent" => init.disk[file] = m.files[file]
  BY <1>2 DEF MadeOf
<1>8. init.ok => DOMAIN init.disk = {"router", "proxy"} /\ \A file \in {"router", "proxy"} : init.disk[file] = "new"
  BY <1>2 DEF MadeOf
<1> HIDE DEF run, init, made
<1>9. \A x : doctor(x) = 0 <=> Install!DoctorOk(o, planned, x, oldServes)
  OBVIOUS
<1> HIDE DEF doctor
<1>10. keeps /\ asked /\ creates /\ checks /\ changes
  <2>1. CASE run = of(<<"doctor">>, doctor(m), m) /\ "doctor" \in yes
    BY <1>3, <1>5, <1>9, <2>1
  <2>2. CASE run = of(<<>>, 0, m)
    BY <1>5, <2>2
  <2>3. CASE run = of(<<"init">>, 1, made) /\ "init" \in yes
    BY <1>1, <1>4, <1>5, <1>7, <2>3 DEF Install!Present
  <2>4. CASE run = of(<<"init", "doctor">>, doctor(made), made) /\ {"init", "doctor"} \subseteq yes /\ init.ok
    <3>1. keeps /\ asked /\ creates /\ changes
      BY <1>1, <1>4, <1>5, <1>7, <1>8, <2>4 DEF Install!Present
    <3>2. checks
      BY <1>4, <1>9, <2>4
    <3> QED
      BY <3>1, <3>2
  <2>5. CASE run = of(<<"init">>, 0, made) /\ "init" \in yes /\ init.ok
    BY <1>1, <1>4, <1>5, <1>7, <1>8, <2>5 DEF Install!Present
  <2> QED
    BY <1>6, <2>1, <2>2, <2>3, <2>4, <2>5
<1>11. Install!ToSet(run.ran) = Elements(run.ran)
  BY DEF Install!ToSet, Elements
<1> QED
  BY <1>10, <1>11 DEF Install!GuidedIsSafe, run

\* Every install plan, and every guided run on a machine that has changed since.
LEMMA InstallCaseSafe ==
    ASSUME InstallCase
    PROVE  LET files == case'.machine.files
               later(appeared) == [case'.machine EXCEPT !.files =
                   [f \in DOMAIN files |-> IF f \in appeared /\ files[f] = "absent" THEN "old" ELSE files[f]]]
           IN /\ Install!PlanConverges(case'.o, case'.machine) /\ Install!PlanAgrees(case'.o, case'.machine)
              /\ \A yes \in SUBSET {"init", "doctor"}, serves \in BOOLEAN, appeared \in SUBSET {"router", "proxy"} :
                   Install!GuidedIsSafe(case'.o, case'.machine, later(appeared), yes, serves)
<1>1. PICK files \in [{"router", "proxy"} -> {"absent", "old", "torn"}], packages \in Packages,
       install \in Installs, pip \in BOOLEAN, ollama \in {"no", "installed"},
       flags \in {{}, {"mlx-lm"}, {"llamacpp"}, {"ollama"}, {"ollama", "mlx-lm"}},
       models \in {s \in DiskScans : Len(s) \in {0, 3}}, developer \in BOOLEAN :
        case' = [kind |-> "install", o |-> [flags |-> flags, developer |-> developer],
                 machine |-> [files |-> files, modules |-> packages.modules, commands |-> packages.commands, install |-> install,
                              pip |-> pip, uv |-> ~pip /\ install = None, ollama |-> ollama, apple |-> TRUE, lmstudio |-> FALSE,
                              models |-> models, ports |-> <<>>]]
  BY DEF InstallCase
<1> DEFINE machine == [files |-> files, modules |-> packages.modules, commands |-> packages.commands, install |-> install,
                       pip |-> pip, uv |-> ~pip /\ install = None, ollama |-> ollama, apple |-> TRUE, lmstudio |-> FALSE,
                       models |-> models, ports |-> <<>>]
           later(appeared) == [machine EXCEPT !.files =
               [f \in DOMAIN files |-> IF f \in appeared /\ files[f] = "absent" THEN "old" ELSE files[f]]]
<1>2. case'.machine = machine /\ machine.files = files
  BY <1>1
<1>3. IsMachine(machine)
  BY DEF IsMachine, ConfigFiles
<1>4. ASSUME NEW appeared \in SUBSET {"router", "proxy"} PROVE IsMachine(later(appeared))
  BY DEF IsMachine, ConfigFiles
<1> HIDE DEF machine
<1>5. /\ Install!PlanConverges(case'.o, machine) /\ Install!PlanAgrees(case'.o, machine)
      /\ \A yes \in SUBSET {"init", "doctor"}, serves \in BOOLEAN, appeared \in SUBSET {"router", "proxy"} :
           Install!GuidedIsSafe(case'.o, machine, later(appeared), yes, serves)
  BY <1>3, <1>4, PlanAlwaysConverges, PlanAlwaysAgrees, GuidedAlwaysSafe
<1> QED
  BY <1>2, <1>5

-----------------------------------------------------------------------------
(* Connecting (runtime_install.py).                                        *)

\* A configuration, whose backends' models are known ones.
IsConnected(config, r) ==
    /\ config = [b \in DOMAIN config |-> config[b]]
    /\ r.runtime \in Install!Runtimes
    /\ {"runtime", "backend", "endpoint", "model", "write", "confirmed"} = DOMAIN r
    /\ r = [x \in DOMAIN r |-> r[x]]

\* What is written, when it is.
MayWrite(config, r) ==
    r.write /\ r.confirmed /\ r.backend \in DOMAIN config /\ (r.model # None \/ Install!ExistingModel(config, r) # None)
PatchOf(config, r) == Install!BackendPatch(r, Install!EndpointFor(r), Install!EffectiveModel(config, r))
\* An entry and a patch of it.
Merged(entry, patch) ==
    [k \in DOMAIN entry \cup DOMAIN patch |-> IF k \in DOMAIN patch THEN patch[k] ELSE entry[k]]

\* build_runtime_connect_plan (runtime_install.py): what it says and writes follows from MayWrite.
LEMMA ConnectPlanIs ==
    ASSUME NEW config, NEW r
    PROVE  LET plan == Install!ConnectPlan(config, r) IN
           /\ plan.ok <=> (r.write => MayWrite(config, r))
           /\ plan.patch = PatchOf(config, r)
           /\ plan.printed = Install!PrintedRequest(r, plan.patch)
           /\ plan.written <=> MayWrite(config, r)
           /\ MayWrite(config, r) => plan.config = [config EXCEPT ![r.backend] = Merged(@, PatchOf(config, r))]
           /\ ~MayWrite(config, r) => plan.config = config
BY DEF Install!ConnectPlan, MayWrite, PatchOf, Merged, Install!Setup!Patched

\* What is patched.
LEMMA PatchOfIs ==
    ASSUME NEW config, NEW r
    PROVE  LET p == PatchOf(config, r) IN
           /\ p.url = Install!EndpointFor(r) /\ p.model = Install!EffectiveModel(config, r) /\ p.timeout = 300
           /\ r.runtime = "lmstudio" => DOMAIN p = {"url", "model", "timeout"}
           /\ r.runtime # "lmstudio" => DOMAIN p = {"url", "model", "timeout", "strip"}
BY DEF PatchOf, Install!BackendPatch

\* A patch of all that connect sets hides an earlier one.
LEMMA LastPatchStays ==
    ASSUME NEW entry, NEW first, NEW last, DOMAIN first \subseteq DOMAIN last
    PROVE  Merged(Merged(entry, first), last) = Merged(entry, last)
BY DEF Merged

\* runtimes connect (cli.py, runtime_install.py): what is written is what was shown, and the
\* command that is printed does the same.
THEOREM ConnectAlwaysAsShown ==
    ASSUME NEW config, NEW r, NEW s, IsConnected(config, r), IsConnected(config, s), NEW json, NEW answer,
           r.confirmed \in BOOLEAN, r.write \in BOOLEAN, json \in BOOLEAN, answer \in BOOLEAN,
           \A b \in DOMAIN config : \A x \in Install!Runtimes : config[b].model # Install!PlaceholderModel(x)
    PROVE  Install!ConnectAsShown(config, r, s, json, answer)
<1> DEFINE yes == r.confirmed \/ (r.write /\ ~json /\ answer)
           q == [r EXCEPT !.confirmed = yes]
           plan == Install!ConnectPlan(config, q)
           printed == Install!PrintedRequest(q, PatchOf(config, q))
           again == Install!ConnectPlan(config, printed)
           t == [s EXCEPT !.write = TRUE, !.confirmed = TRUE]
           after(c) == Install!ConnectPlan(c, t).config
<1>1. Install!ConnectCommand(config, r, json, answer) = plan
  BY DEF Install!ConnectCommand
<1>2. /\ q.runtime = r.runtime /\ q.backend = r.backend /\ q.endpoint = r.endpoint /\ q.model = r.model
      /\ q.write = r.write /\ q.confirmed = yes
      /\ DOMAIN q = DOMAIN r
  BY DEF IsConnected
<1>3. /\ t.runtime = s.runtime /\ t.backend = s.backend /\ t.endpoint = s.endpoint /\ t.model = s.model
      /\ t.write /\ t.confirmed
  BY DEF IsConnected
<1>4. /\ printed.runtime = r.runtime /\ printed.backend = r.backend /\ printed.endpoint = None
      /\ printed.model = Install!EffectiveModel(config, q) /\ printed.write /\ printed.confirmed
  <2>1. PatchOf(config, q).model = Install!EffectiveModel(config, q)
    BY PatchOfIs
  <2> HIDE DEF q
  <2> QED
    BY <1>2, <2>1 DEF IsConnected, Install!PrintedRequest
<1> HIDE DEF q, t, printed
<1>5. /\ Install!EndpointFor(q) = Install!EndpointFor(r) /\ Install!ExistingModel(config, q) = Install!ExistingModel(config, r)
      /\ Install!EffectiveModel(config, q) = Install!EffectiveModel(config, r)
  BY <1>2 DEF Install!EndpointFor, Install!ExistingModel, Install!EffectiveModel
<1>6. /\ plan.ok <=> (q.write => MayWrite(config, q))
      /\ plan.patch = PatchOf(config, q)
      /\ plan.printed = printed
      /\ plan.written <=> MayWrite(config, q)
      /\ MayWrite(config, q) => plan.config = [config EXCEPT ![q.backend] = Merged(@, PatchOf(config, q))]
      /\ ~MayWrite(config, q) => plan.config = config
  BY ConnectPlanIs DEF printed
<1> HIDE DEF plan
<1>7. plan.config # config => /\ r.write /\ (r.confirmed \/ answer) /\ plan.ok
                              /\ r.model # None \/ plan.patch.model # Install!PlaceholderModel(r.runtime)
  <2>1. SUFFICES ASSUME MayWrite(config, q)
                 PROVE  /\ r.write /\ (r.confirmed \/ answer) /\ plan.ok
                        /\ r.model # None \/ plan.patch.model # Install!PlaceholderModel(r.runtime)
    BY <1>6
  <2>2. r.write /\ yes /\ r.backend \in DOMAIN config /\ (r.model # None \/ Install!ExistingModel(config, r) # None)
    BY <1>2, <1>5, <2>1 DEF MayWrite
  <2>3. plan.patch.model = Install!EffectiveModel(config, r)
    BY <1>5, <1>6, PatchOfIs
  <2>4. r.model = None => plan.patch.model = config[r.backend].model
    BY <2>2, <2>3 DEF Install!EffectiveModel, Install!ExistingModel
  <2>5. r.runtime \in Install!Runtimes
    BY DEF IsConnected
  <2> QED
    BY <1>6, <2>1, <2>2, <2>4, <2>5
<1>8. plan.written => /\ \A k \in DOMAIN plan.patch : plan.config[r.backend][k] = plan.patch[k]
                      /\ \A k \in DOMAIN config[r.backend] \ DOMAIN plan.patch : plan.config[r.backend][k] = config[r.backend][k]
                      /\ \A b \in DOMAIN config \ {r.backend} : plan.config[b] = config[b]
  <2>1. SUFFICES ASSUME MayWrite(config, q)
                 PROVE  /\ \A k \in DOMAIN plan.patch : plan.config[r.backend][k] = plan.patch[k]
                        /\ \A k \in DOMAIN config[r.backend] \ DOMAIN plan.patch : plan.config[r.backend][k] = config[r.backend][k]
                        /\ \A b \in DOMAIN config \ {r.backend} : plan.config[b] = config[b]
    BY <1>6
  <2>2. r.backend \in DOMAIN config
    BY <1>2, <2>1 DEF MayWrite
  <2>3. plan.config = [config EXCEPT ![r.backend] = Merged(@, plan.patch)]
    BY <1>2, <1>6, <2>1
  <2>4. plan.config[r.backend] = Merged(config[r.backend], plan.patch)
    BY <2>2, <2>3
  <2> QED
    BY <2>3, <2>4 DEF Merged
<1>9. r.backend \in DOMAIN config /\ Install!EndpointFor(r) = Install!DefaultEndpoint(r.runtime)
        => again.written /\ again.patch = plan.patch
  <2>1. SUFFICES ASSUME r.backend \in DOMAIN config, Install!EndpointFor(r) = Install!DefaultEndpoint(r.runtime)
                 PROVE  again.written /\ again.patch = plan.patch
    OBVIOUS
  <2>2. Install!EffectiveModel(config, q) # None
    BY <1>5, AbsenceAssumption DEF Install!EffectiveModel, IsConnected
  <2>3. MayWrite(config, printed)
    BY <1>4, <2>1, <2>2 DEF MayWrite
  <2>4. again.written /\ again.patch = PatchOf(config, printed)
    BY <2>3, ConnectPlanIs
  <2>5. Install!EffectiveModel(config, printed) = Install!EffectiveModel(config, q)
    BY <1>4, <2>2 DEF Install!EffectiveModel
  <2>6. Install!EndpointFor(printed) = Install!EndpointFor(q)
    BY <1>4, <1>5, <2>1 DEF Install!EndpointFor
  <2>7. PatchOf(config, printed) = PatchOf(config, q)
    BY <1>2, <1>4, <2>5, <2>6 DEF PatchOf, Install!BackendPatch
  <2> QED
    BY <1>6, <2>4, <2>7
<1>10. s.backend = r.backend /\ s.model # None /\ s.runtime # "lmstudio" => after(plan.config) = after(config)
  <2>1. SUFFICES ASSUME s.backend = r.backend, s.model # None, s.runtime # "lmstudio", MayWrite(config, q)
                 PROVE  after(plan.config) = after(config)
    BY <1>6
  <2> DEFINE b == r.backend
             first == PatchOf(config, q)
             last == PatchOf(config, t)
  <2>2. b \in DOMAIN config
    BY <1>2, <2>1 DEF MayWrite
  <2>3. plan.config = [config EXCEPT ![b] = Merged(@, first)]
    BY <1>2, <1>6, <2>1
  <2>4. PatchOf(plan.config, t) = last
    BY <1>3, <2>1 DEF PatchOf, Install!EffectiveModel
  <2>5. DOMAIN first \subseteq DOMAIN last
    BY <1>3, <2>1, PatchOfIs
  <2> HIDE DEF first, last
  <2>6. DOMAIN plan.config = DOMAIN config /\ plan.config[b] = Merged(config[b], first)
    BY <2>2, <2>3
  <2>7. MayWrite(config, t) /\ MayWrite(plan.config, t)
    BY <1>3, <2>1, <2>2, <2>6 DEF MayWrite
  <2>8. after(config) = [config EXCEPT ![b] = Merged(@, last)]
    BY <1>3, <2>1, <2>7, ConnectPlanIs DEF last
  <2>9. after(plan.config) = [plan.config EXCEPT ![b] = Merged(@, last)]
    BY <1>3, <2>1, <2>4, <2>7, ConnectPlanIs
  <2>10. Merged(plan.config[b], last) = Merged(config[b], last)
    BY <2>5, <2>6, LastPatchStays
  <2>11. [plan.config EXCEPT ![b] = Merged(plan.config[b], last)] = [config EXCEPT ![b] = Merged(config[b], last)]
    BY <2>3, <2>6, <2>10
  <2> HIDE DEF after
  <2> QED
    BY <2>8, <2>9, <2>11
<1> QED
  BY <1>1, <1>6, <1>7, <1>8, <1>9, <1>10 DEF Install!ConnectAsShown, t

\* Every request to connect, followed by every other.
LEMMA ConnectCaseSafe ==
    ASSUME ConnectCase
    PROVE  \A s \in {x \in Requests : x.backend = "fast" /\ x.endpoint = None} :
             Install!ConnectAsShown(case'.config, case'.r, s, case'.json, case'.answer)
<1>1. PICK r \in Requests, strip \in BOOLEAN, model \in {None, <<"m0">>}, json \in BOOLEAN, answer \in BOOLEAN :
        LET backend == [url |-> <<"127.0.0.1", 1234>>, model |-> model, timeout |-> 60, strip |-> strip, runtime |-> "command"] IN
        case' = [kind |-> "connect", config |-> [b \in {"fast", "code"} |-> backend], r |-> r, json |-> json, answer |-> answer]
  BY DEF ConnectCase
<1> DEFINE backend == [url |-> <<"127.0.0.1", 1234>>, model |-> model, timeout |-> 60, strip |-> strip, runtime |-> "command"]
           config == [b \in {"fast", "code"} |-> backend]
<1>2. case'.config = config /\ case'.r = r /\ case'.json = json /\ case'.answer = answer
  BY <1>1
<1>3. \A b \in DOMAIN config : \A x \in Install!Runtimes : config[b].model # Install!PlaceholderModel(x)
  <2>1. \A x \in Install!Runtimes : <<"m0">> # Install!PlaceholderModel(x)
    BY DEF Install!PlaceholderModel
  <2>2. \A x \in Install!Runtimes : model # Install!PlaceholderModel(x)
    BY <2>1, AbsenceAssumption
  <2> QED
    BY <2>2
<1>4. \A x \in Requests : IsConnected(config, x) /\ x.confirmed \in BOOLEAN /\ x.write \in BOOLEAN
  BY DEF Requests, IsConnected
<1> HIDE DEF config, Requests
<1> QED
  BY <1>2, <1>3, <1>4, ConnectAlwaysAsShown

-----------------------------------------------------------------------------
(* The cases of first setup, and all of it.                                *)

\* The disks of the cases hold models that are told by a number.
LEMMA ScansAreScanned ==
    ASSUME NEW models \in DiskScans
    PROVE  ScannedModels(models)
<1>1. PICK n \in 0..3 : models \in [1..n -> DiskModels]
  BY DEF DiskScans, SeqOf
<1>2. \A m \in DiskModels : m # None /\ m.repo \in Nat
  <2>1. \A m \in DiskModels : m.repo \in {1, 2, 3, 4}
    BY DEF DiskModels, DiskModel
  <2> QED
    BY <2>1, AbsenceAssumption
<1> HIDE DEF DiskModels
<1> DEFINE M == {m \in {models[i] : i \in DOMAIN models} : m # None /\ m.repo \in Nat}
<1>3. \A i \in 1..n : models[i] \in M
  BY <1>1, <1>2
<1>4. models \in [1..n -> M]
  <2> HIDE DEF M
  <2> QED
    BY <1>1, <1>3
<1>5. models \in Seq(M)
  <2> HIDE DEF M
  <2> QED
    BY <1>4
<1>6. \A b \in Product!Backends : Product!Template("mlx-lm")[b].runtime # None
  BY AbsenceAssumption
<1> HIDE DEF M
<1> QED
  BY <1>5, <1>6 DEF ScannedModels, M

\* The ports of the cases answer as ports do.
LEMMA PortsAnswer ==
    ASSUME NEW ports \in PortMaps, NEW q \in DOMAIN ports
    PROVE  ports[q].answer \in Heard
<1>1. \A models : \A a \in Answers(models) : a.answer \in Heard
  BY DEF Answers, Heard
<1>2. ports = <<>> \/ \E S, models : ports \in [S -> Answers(models)]
  <2>1. ports \in {<<>>} \cup [{8080} -> Answers({{<<"stem", 2>>}, {<<"stem", 3>>, <<"localai", "fast">>}})]
                  \cup [{8090} -> Answers({{<<"repo", 1>>, <<"path", 3>>}})]
                  \cup [{1234} -> Answers({{<<"lmstudio", b>> : b \in Product!Backends}})]
    BY DEF PortMaps
  <2> HIDE DEF Answers
  <2> QED
    BY <2>1
<1>3. ports # <<>>
  OBVIOUS
<1>4. PICK S, models : ports \in [S -> Answers(models)]
  BY <1>2, <1>3
<1>5. ports[q] \in Answers(models)
  BY <1>4
<1> QED
  BY <1>1, <1>5

\* What SetupHolds says of a product's case.
ProductCaseHolds(c) ==
    /\ Product!InitThenDoctor(c.args, c.signals, c.models, c.machine)
    /\ Product!ModelsChosen(c.args, c.signals, c.models) /\ Product!PresetRuns(c.signals)
    /\ Product!DoctorExplains([loads |-> TRUE, router |-> c.models # <<>>,
                               proxy |-> Product!ProxyData(c.args, c.signals, c.models)], c.machine)

\* Every first init and its doctor.
LEMMA ProductCaseSafe ==
    ASSUME ProductCase
    PROVE  ProductCaseHolds(case')
<1>1. PICK args \in InitArgs, models \in DiskScans, commands \in SUBSET {"mlx_lm.server", "llama-server"}, ports \in PortMaps :
        \E ollama \in IF args.auto THEN {"no", "installed", "running"} ELSE {"no"},
           apple \in IF args.auto THEN BOOLEAN ELSE {FALSE} :
            case' = [kind |-> "product", args |-> args, models |-> models,
                     machine |-> [commands |-> commands, ports |-> ports],
                     signals |-> [ollama |-> ollama, apple |-> apple, commands |-> commands, models |-> models,
                                  lmstudio |-> 1234 \in DOMAIN ports /\ ports[1234].answer \in {"list", "other"}]]
  BY DEF ProductCase
<1>2. case'.models = models /\ case'.machine.ports = ports
  BY <1>1
<1>3. MachineAnswers(case'.machine)
  BY <1>2, PortsAnswer DEF MachineAnswers
<1>4. ScannedModels(case'.models)
  BY <1>2, ScansAreScanned
<1> QED
  BY <1>3, <1>4, InitAlwaysThenDoctor, ModelsAlwaysChosen, PresetAlwaysRuns, DoctorAlwaysExplains DEF ProductCaseHolds

\* Every init of files that are there or not.
LEMMA FilesCaseSafe ==
    ASSUME FilesCase
    PROVE  Product!InitKeeps(case'.disk, case'.args)
<1>1. PICK disk \in [{"router", "proxy"} -> {"absent", "old", "torn"}], force \in BOOLEAN, auto \in BOOLEAN,
           preset \in {None, "ollama"}, fails \in {None, "router", "proxy"} :
        case' = [kind |-> "files", disk |-> disk,
                 args |-> [force |-> force, auto |-> auto, preset |-> preset, fails |-> fails]]
  BY DEF FilesCase
<1>2. case'.disk = disk /\ case'.args.fails = fails
  BY <1>1
<1> QED
  BY <1>2, InitAlwaysKeeps DEF ConfigFiles

\* SetupHolds always (setup_assistant.py, product.py, installer.py, runtime_install.py,
\* cli.py), from what is proved of every recommendation, answer, init, plan and request.
THEOREM SetupAlwaysHolds == Spec => []SetupHolds
<1>1. Init => SetupHolds
  BY DEF Init, SetupHolds, Of
<1>2. SetupHolds /\ [Next]_case => SetupHolds'
  <2> SUFFICES ASSUME SetupHolds, [Next]_case PROVE SetupHolds'
    OBVIOUS
  <2>1. CASE SetupCase \/ WizardCase
    <3>1. SetupCaseHolds(case')
      BY <2>1, SetupCaseSafe, WizardCaseSafe
    <3>2. case'.kind = "setup"
      BY <2>1, CaseKindsHold DEF CaseKinds
    <3> QED
      BY <3>1, <3>2 DEF SetupCaseHolds, SetupHolds, Of
  <2>2. CASE RunCase
    <3>1. case'.kind = "run"
      BY <2>2, CaseKindsHold DEF CaseKinds
    <3> QED
      BY <2>2, <3>1, RunCaseSafe DEF SetupHolds, Of
  <2>3. CASE ProductCase
    <3>1. case'.kind = "product"
      BY <2>3, CaseKindsHold DEF CaseKinds
    <3> QED
      BY <2>3, <3>1, ProductCaseSafe DEF ProductCaseHolds, SetupHolds, Of
  <2>4. CASE FilesCase
    <3>1. case'.kind = "files"
      BY <2>4, CaseKindsHold DEF CaseKinds
    <3> QED
      BY <2>4, <3>1, FilesCaseSafe DEF SetupHolds, Of
  <2>5. CASE InstallCase
    <3>1. case'.kind = "install"
      BY <2>5, CaseKindsHold DEF CaseKinds
    <3> QED
      BY <2>5, <3>1, InstallCaseSafe DEF SetupHolds, Of
  <2>6. CASE ConnectCase
    <3>1. case'.kind = "connect"
      BY <2>6, CaseKindsHold DEF CaseKinds
    <3> QED
      BY <2>6, <3>1, ConnectCaseSafe DEF SetupHolds, Of
  <2>7. CASE case'.kind \notin {"setup", "run", "product", "files", "install", "connect"}
    BY <2>7 DEF SetupHolds, Of
  <2>8. CASE case' = case
    BY <2>8 DEF SetupHolds, Of
  <2>9. \/ SetupCase \/ WizardCase \/ RunCase \/ ProductCase \/ FilesCase \/ InstallCase \/ ConnectCase
        \/ case'.kind \notin {"setup", "run", "product", "files", "install", "connect"} \/ case' = case
    BY StepKinds, CaseKindsHold DEF CaseKinds
  <2> QED
    BY <2>1, <2>2, <2>3, <2>4, <2>5, <2>6, <2>7, <2>8, <2>9
<1> QED
  BY <1>1, <1>2, PTL DEF Spec
=============================================================================
