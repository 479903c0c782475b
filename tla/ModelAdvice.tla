---------------------------- MODULE ModelAdvice -----------------------------
(***************************************************************************)
(* Advice on local models (model_advisor.py) and the benchmarks it takes   *)
(* as evidence (model_benchmark.py).  Scores are whole numbers from 0 to   *)
(* 100; the weights of the overall score are hundredths, memory is in      *)
(* tenths of a GB and model sizes in tenths of a billion parameters.       *)
(*   candidate [repo, route, provider, runtime, min, rec, quality, speed,  *)
(*             profiles, size, quant]: quant is the digit of the           *)
(*             quantization; size and quant may be None                    *)
(*   hardware  [memory, apple, cpus, accelerators]: memory, cpus or None   *)
(*   row       [model, status, tps, slow]: tokens per second, None when    *)
(*             not measured; slow when the answer took more than 10 s      *)
(***************************************************************************)
EXTENDS Integers, Sequences, SequencesExt, FiniteSetsExt

CONSTANTS None  \* not known

Clamp(x) == Max({0, Min({100, x})})

\* round(): to the nearest, and halves to the even one.
RoundDiv(x, d) ==
    LET q == x \div d
        r == 2 * (x % d)
    IN IF r > d \/ (r = d /\ q % 2 = 1) THEN q + 1 ELSE q
-----------------------------------------------------------------------------
(* The machine.                                                            *)

\* Without a graphics processor the list of accelerators is not empty: it names the CPU.
DetectHardware(host) ==
    LET found == (IF host.apple THEN {"metal"} ELSE {}) \cup (host.tools \cap {"cuda", "rocm"})
    IN [memory |-> host.memory, apple |-> host.apple, cpus |-> host.cpus,
        accelerators |-> IF found = {} THEN {"cpu"} ELSE found]
-----------------------------------------------------------------------------
(* Benchmarks of a model: the best of its rows counts.                     *)

Speed(row) == IF row.tps = None THEN 0 ELSE row.tps
Better(r, s) ==
    LET done(x) == x.status = "completed"
    IN (done(r) /\ ~done(s)) \/ ((done(r) <=> done(s)) /\ Speed(r) > Speed(s))

BenchmarkRecord(repo, rows) ==
    LET mine == SelectSeq(rows, LAMBDA r : r.model = repo)
    IN IF mine = <<>> THEN None
       ELSE mine[Min({i \in DOMAIN mine : \A j \in DOMAIN mine : ~Better(mine[j], mine[i])})]
-----------------------------------------------------------------------------
(* Scores: each is a number and the warnings given with it.                *)

FitScore(c, h) ==
    IF h.memory = None THEN [score |-> 55, warnings |-> {}]
    ELSE IF h.memory < c.min
         THEN [score |-> Max({0, RoundDiv(35 * h.memory, Max({c.min, 10}))}), warnings |-> {"too_large_for_memory_gate"}]
    ELSE IF h.memory < c.rec THEN [score |-> 65, warnings |-> {"memory_pressure_expected"}]
    ELSE [score |-> 95, warnings |-> {}]

RuntimeMatchScore(c, h) ==
    IF c.runtime = "mlx-lm"
    THEN IF h.apple THEN [score |-> IF "metal" \in h.accelerators THEN 96 ELSE 84, warnings |-> {}]
         ELSE [score |-> 18, warnings |-> {"needs_apple_silicon"}]
    ELSE [score |-> IF c.runtime = "llama.cpp" THEN IF h.accelerators \cap {"metal", "cuda", "rocm"} # {} THEN 86 ELSE 66
                    ELSE IF c.runtime \in {"ollama", "lmstudio"} THEN 78 ELSE 58,
          warnings |-> {}]

ExpectedSpeedScore(c, h) ==
    LET known == h.cpus # None
        few == known /\ h.cpus <= 4
        size == IF c.size = None THEN "unknown"
                ELSE IF c.size <= 15 THEN "small"
                ELSE IF c.size >= 70 /\ few THEN "large_on_few"
                ELSE IF c.size >= 130 THEN "large" ELSE "medium"
        points == Min({100, Max({5, c.speed * 16})})
                  + (IF c.quant = 4 THEN 12 ELSE IF c.quant = 8 THEN -4 ELSE 0)
                  + (CASE size = "small" -> 10 [] size = "large_on_few" -> -24 [] size = "large" -> -18
                       [] size \in {"unknown", "medium"} -> 0)
                  + (IF few THEN -12 ELSE IF known /\ h.cpus >= 10 THEN 8 ELSE 0)
                  + (IF h.accelerators # {} THEN 8 ELSE 0)
    IN [score |-> Clamp(points),
        warnings |-> (IF size = "large_on_few" THEN {"large_model_on_low_core_cpu"} ELSE {})
                     \cup (IF size = "large" THEN {"large_model_expected_slow"} ELSE {})
                     \cup (IF few THEN {"low_cpu_core_count"} ELSE {})]

QualityRoleScore(c) == Clamp(c.quality * 18)

SetupFrictionScore(c, h) ==
    LET mismatch == c.runtime = "mlx-lm" /\ ~h.apple
    IN [score |-> Clamp(70 - (IF c.provider = "huggingface" THEN 8 ELSE 0) - (IF mismatch THEN 45 ELSE 0)),
        warnings |-> IF mismatch THEN {"mlx_lm_runtime_mismatch"} ELSE {}]

BenchmarkScore(c, rows) ==
    LET row == BenchmarkRecord(c.repo, rows)
        speed == IF row.tps = None THEN 68 ELSE IF row.tps >= 25 THEN 96 ELSE IF row.tps >= 10 THEN 82
                 ELSE IF row.tps >= 4 THEN 62 ELSE 38
        score == Clamp(speed - (IF row.slow THEN 12 ELSE 0))
    IN IF row = None THEN [score |-> 50, warnings |-> {}]
       ELSE IF row.status # "completed" THEN [score |-> 10, warnings |-> {"benchmark_failed_or_missing"}]
       ELSE [score |-> score, warnings |-> IF score < 50 THEN {"benchmark_slow"} ELSE {}]

Label(fit, runtime, speed, bench, warnings) ==
    IF fit < 45 \/ "too_large_for_memory_gate" \in warnings THEN "too_large"
    ELSE IF runtime < 45 THEN "needs_runtime"
    ELSE IF bench >= 82 THEN "benchmark_recommended"
    ELSE IF speed < 48 \/ "large_model_expected_slow" \in warnings THEN "fits_but_likely_slow"
    ELSE "recommended"

ScoreModel(c, h, rows) ==
    LET fit == FitScore(c, h)
        runtime == RuntimeMatchScore(c, h)
        speed == ExpectedSpeedScore(c, h)
        friction == SetupFrictionScore(c, h)
        bench == BenchmarkScore(c, rows)
        warnings == fit.warnings \cup runtime.warnings \cup speed.warnings \cup friction.warnings \cup bench.warnings
    IN [overall |-> Clamp(RoundDiv(22 * fit.score + 20 * runtime.score + 20 * speed.score + 16 * QualityRoleScore(c)
                                   + 10 * friction.score + 12 * bench.score, 100)),
        bench |-> bench.score, warnings |-> warnings,
        label |-> Label(fit.score, runtime.score, speed.score, bench.score, warnings)]

\* In tenths.
CandidateScore(c, profile, h, rows) ==
    LET s == ScoreModel(c, h, rows)
    IN 10 * s.overall
       + (CASE profile = "lightweight" -> 10 * c.speed [] profile = "quality" -> 10 * c.quality
            [] profile \notin {"lightweight", "quality"} -> 5 * (c.quality + c.speed))
       + Max({0, s.bench - 50})

\* The candidates of the profile, or all of them when it has none, best first; equals
\* keep their order.
RankCandidates(candidates, profile, h, rows) ==
    LET fit == SelectSeq(candidates, LAMBDA c : profile \in c.profiles)
        list == IF fit = <<>> THEN candidates ELSE fit
        key == [i \in DOMAIN list |-> CandidateScore(list[i], profile, h, rows) * Len(list) - i]
        place(i) == Cardinality({j \in DOMAIN list : key[j] >= key[i]})
    IN [k \in DOMAIN list |-> list[CHOOSE i \in DOMAIN list : place(i) = k]]

Recommend(catalog, route, profile, h, rows, limit) ==
    LET ranked == RankCandidates(SelectSeq(catalog, LAMBDA c : c.route = route), profile, h, rows)
    IN SubSeq(ranked, 1, Min({limit, Len(ranked)}))
-----------------------------------------------------------------------------
(* A model found on the disk is scored as a candidate made up from its     *)
(* name.  `says' is what the name mentions.                                *)

InferRuntime(m) ==
    IF "mlx" \in m.says THEN "mlx-lm"
    ELSE IF m.source \in {"ollama", "lmstudio"} THEN m.source
    ELSE IF "gguf" \in m.says THEN "llama.cpp" ELSE "generic"

\* Bytes per parameter, in thousandths.
BytesPerParameter(quant, runtime) ==
    CASE quant = 4 -> 650 [] quant = 5 -> 780 [] quant = 8 -> 1150
      [] quant \notin {4, 5, 8} -> IF runtime = "mlx-lm" THEN 1350 ELSE 1000

MemoryRequirements(size, quant, runtime) ==
    LET weights == size * BytesPerParameter(quant, runtime)  \* in 1/10000 GB
    IN IF size = None THEN [min |-> 80, rec |-> 160]
       ELSE [min |-> Max({40, RoundDiv(weights + 20000, 1000)}),
             rec |-> Max({80, RoundDiv(7 * weights + 160000, 4000)})]

LocalQuality(route, m) ==
    Max({1, Min({5, 3 + (IF route \in m.roles THEN 1 ELSE 0)
                      + (IF route = "code_agent" /\ "code" \in m.says THEN 1 ELSE 0)
                      + (IF route = "reasoning_local" /\ ("reason" \in m.says \/ (m.size # None /\ m.size >= 70)) THEN 1 ELSE 0)
                      + (IF route = "fast_local" /\ m.size # None /\ m.size <= 15 THEN 1 ELSE 0)})})

LocalSpeed(m) ==
    LET bySize == IF m.size = None THEN 3 ELSE IF m.size <= 15 THEN 5 ELSE IF m.size <= 40 THEN 4 ELSE IF m.size <= 80 THEN 3 ELSE 2
    IN Max({1, Min({5, bySize + (IF m.quant = 4 THEN 1 ELSE 0)})})

LocalCandidate(route, m) ==
    LET runtime == InferRuntime(m)
        needs == MemoryRequirements(m.size, m.quant, runtime)
    IN [repo |-> m.repo, route |-> route, provider |-> m.source, runtime |-> runtime, min |-> needs.min, rec |-> needs.rec,
        quality |-> LocalQuality(route, m), speed |-> LocalSpeed(m), profiles |-> {"balanced"}, size |-> m.size, quant |-> m.quant]
-----------------------------------------------------------------------------
(* The packaged catalog (data/model_catalog.yaml): the chat routes.        *)

Gguf(route, repo, min, rec, quality, speed, profiles, size) ==
    [repo |-> repo, route |-> route, provider |-> "huggingface", runtime |-> "llama.cpp", min |-> min * 10, rec |-> rec * 10,
     quality |-> quality, speed |-> speed, profiles |-> profiles, size |-> size, quant |-> 4]
Mlx(route, repo, min, rec, quality, speed, profiles, size) ==
    [Gguf(route, repo, min, rec, quality, speed, profiles, size) EXCEPT !.runtime = "mlx-lm"]

CatalogModels ==
    LET all == {"lightweight", "balanced", "quality"} IN
    <<Mlx("fast_local", "q3-0.6b-mlx", 4, 8, 2, 5, all, 6),
      Gguf("fast_local", "q3-0.6b", 4, 8, 2, 5, all, 6),
      Gguf("fast_local", "q3-4b", 8, 16, 4, 3, {"quality"}, 40),
      Mlx("balanced_local", "q3-4b-mlx", 8, 16, 4, 4, all, 40),
      Gguf("balanced_local", "q2.5-3b", 8, 16, 3, 4, {"lightweight", "balanced"}, 30),
      Gguf("balanced_local", "q3-8b", 16, 24, 5, 2, {"quality"}, 80),
      Mlx("reasoning_local", "r1-8b-mlx", 12, 24, 5, 3, {"balanced", "quality"}, 80),
      Gguf("reasoning_local", "q3-8b-r", 16, 24, 4, 2, {"lightweight", "balanced"}, 80),
      Gguf("reasoning_local", "r1-8b", 16, 24, 5, 2, {"quality"}, 80),
      Mlx("code_agent", "coder-7b-mlx", 12, 24, 5, 3, {"balanced", "quality"}, 70),
      Gguf("code_agent", "coder-3b", 8, 16, 3, 4, {"lightweight"}, 30),
      Gguf("code_agent", "coder-7b", 16, 24, 5, 2, {"balanced", "quality"}, 70)>>
-----------------------------------------------------------------------------
(* Benchmarks: only backends on this machine or its network are called,    *)
(* and only when asked to and confirmed; the results are appended to a     *)
(* file.  A store is "absent", "torn" or a sequence of rows.               *)

PlanBenchmarks(backends, selected) ==
    SelectSeq(backends, LAMBDA b : b.local /\ (selected = {} \/ b.name \in selected))

LoadResults(store) == IF store.state = "ok" THEN store.rows ELSE <<>>

WriteStore(store, results) == [state |-> "ok", rows |-> LoadResults(store) \o results]

\* An answer is completed, failed (a status, a connection, the time), or raises something
\* else and ends the run.
ExecutePlan(targets, store, execute, confirmed, answer) ==
    LET rows(status) == [i \in DOMAIN targets |-> [model |-> targets[i].model, status |-> status]]
        called == [i \in DOMAIN targets |-> [model |-> targets[i].model, status |-> answer[targets[i].name]]]
        raised == {i \in DOMAIN targets : answer[targets[i].name] = "raises"}
    IN IF ~execute THEN [store |-> store, results |-> rows("planned"), called |-> 0, ok |-> TRUE]
       ELSE IF ~confirmed THEN [store |-> store, results |-> rows("confirmation_required"), called |-> 0, ok |-> targets = <<>>]
       ELSE IF raised # {} THEN [store |-> store, results |-> <<>>, called |-> Min(raised), ok |-> FALSE]
       ELSE [store |-> WriteStore(store, called), results |-> called, called |-> Len(targets),
             ok |-> \A i \in DOMAIN called : called[i].status = "completed"]
-----------------------------------------------------------------------------
(* Properties.                                                             *)

\* Memory is the gate the README promises: with the packaged catalog no model that is too
\* large is advised while the profile has one for the route that would run.
GateHolds(models, profile, h) ==
    LET label(c) == ScoreModel(c, h, <<>>).label
    IN \A route \in {c.route : c \in Range(models)} :
         \A first \in Range(Recommend(models, route, profile, h, <<>>, 1)) :
           label(first) = "too_large" =>
             \A c \in Range(models) : c.route = route /\ profile \in c.profiles => label(c) \in {"too_large", "needs_runtime"}

\* A machine with more memory, more cores or more accelerators never gets a lower score
\* for a model, nor does it become too large for it.
AtLeast(h, g) ==
    /\ (h.memory = None /\ g.memory = None) \/ (h.memory # None /\ g.memory # None /\ h.memory >= g.memory)
    /\ (h.cpus = None /\ g.cpus = None) \/ (h.cpus # None /\ g.cpus # None /\ h.cpus >= g.cpus)
    /\ h.apple = g.apple /\ g.accelerators \ {"cpu"} \subseteq h.accelerators

MoreIsNoWorse(c, h, g, rows) ==
    AtLeast(h, g) =>
      /\ ScoreModel(c, g, rows).overall <= ScoreModel(c, h, rows).overall
      /\ ScoreModel(c, h, rows).label = "too_large" => ScoreModel(c, g, rows).label = "too_large"

\* Failed benchmarks count against a model, but only while none of its has completed;
\* rows of other models do not count at all.
EvidenceCounts(c, h, rows) ==
    LET mine == SelectSeq(rows, LAMBDA r : r.model = c.repo)
        done == SelectSeq(mine, LAMBDA r : r.status = "completed")
        score(list) == ScoreModel(c, h, list).overall
    IN /\ score(rows) = score(IF done = <<>> THEN mine ELSE done)
       /\ done = <<>> /\ mine # <<>> => score(rows) < score(<<>>)

\* What a model found on the disk is estimated to need grows with its size.
NeedsGrow(m, size) ==
    m.size # None /\ size >= m.size =>
      LET less == LocalCandidate("fast_local", m)
          more == LocalCandidate("fast_local", [m EXCEPT !.size = size])
      IN less.min <= less.rec /\ less.min <= more.min /\ less.rec <= more.rec /\ more.speed <= less.speed

\* A benchmark run calls only backends of this network, only when confirmed, and adds to
\* a store that can be read without losing a row of it; a run that is not ok says so.
StoreKept(backends, selected, store, execute, confirmed, answer) ==
    LET targets == PlanBenchmarks(backends, selected)
        run == ExecutePlan(targets, store, execute, confirmed, answer)
    IN /\ run.called > 0 => execute /\ confirmed
       /\ IsPrefix(LoadResults(store), LoadResults(run.store))
       /\ (run.ok /\ execute /\ targets # <<>>) => run.store.state = "ok" /\ Len(LoadResults(run.store)) = Len(LoadResults(store)) + Len(targets)
       /\ \A i \in DOMAIN run.results : \E b \in Range(backends) : b.local /\ b.model = run.results[i].model
=============================================================================
