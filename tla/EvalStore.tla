----------------------------- MODULE EvalStore -----------------------------
(***************************************************************************)
(* Evaluations (eval_runner.py): commands run fixtures against a model or  *)
(* compare candidates, report what they found, and append one row per      *)
(* fixture to a JSONL file of results; the settings page, the registry and *)
(* the reports are computed from that file, and comparisons a second time. *)
(*                                                                         *)
(* Commands run in processes of their own, without a lock.  A batch is     *)
(* written through a buffer: what reaches the file in one write ends       *)
(* anywhere, also within a row, and the process or the disk may end there. *)
(* A line that is no JSON hides the whole file from its readers.           *)
(*                                                                         *)
(* A candidate is [backend, model], a row the result of a fixture.  Checks *)
(* all weigh 1.0, so weighted_score and score_percent rank alike: one is   *)
(* kept, in units, with the latency.  Usage, hashes, categories and the    *)
(* redaction of messages are left out.                                     *)
(***************************************************************************)
EXTENDS Integers, Sequences, FiniteSets, SequencesExt

CONSTANTS Users,        \* command line processes
          Candidates,   \* a set of [backend, model]
          Selections,   \* the sequences of fixtures that selectors name
          Outcomes,     \* of a fixture: a subset of DOMAIN Score
          MaxBegun,     \* commands begun,
          MaxCompared,  \* of them comparisons
          MaxWrites,    \* writes that a batch takes
          None

\* A selector that names no fixture is an error.
ASSUME SelectionsAssumption == \A fs \in Selections : fs \in Seq(ToSet(fs)) \ {<<>>}

VARIABLES
    file,       \* a sequence of [row, part]; a line is the parts text1, text2 and end of a row
    batch,      \* batch[u]: the parts u has not written yet
    writes,     \* writes[u]: how often u has written of its batch
    begun,      \* the commands begun: [id, compare, candidates, fixtures]
    summary,    \* summary[u]: what u tells when it has written everything
    told        \* what commands have told
vars == <<file, batch, writes, begun, summary, told>>

Parts == <<"text1", "text2", "end">>
Mean(rows, figure) ==
    IF rows = {} THEN -1
    ELSE (100 * FoldSet(LAMBDA r, n : n + figure[r.outcome], 0, rows)) \div Cardinality(rows)
-----------------------------------------------------------------------------
(* Rows.                                                                   *)

\* A check that says nothing of the output passes without one.
Score == [passed |-> 3, slow |-> 3, failed |-> 2, timeout |-> 1]
Latency == [passed |-> 1, slow |-> 2, failed |-> 1, timeout |-> 2]

Passed(r) == r.outcome \in {"passed", "slow"}
RowFailed(r) == r.outcome \in {"failed", "timeout"}

RunId(id, i) == <<id, i>>

\* The rows of candidates cs in their order, each over the fixtures fs in theirs.
\* A command's time of creation is its identity: ids are made of it.
RowAt(id, compare, c, i, f, outcome) ==
    [id |-> id, compare |-> compare, run |-> RunId(id, i), cand |-> c, fixture |-> f,
     outcome |-> outcome[c, f]]
BatchRows(id, compare, cs, fs, outcome) ==
    [n \in 1..Len(cs) * Len(fs) |->
        LET i == (n - 1) \div Len(fs) + 1  j == ((n - 1) % Len(fs)) + 1
        IN RowAt(id, compare, cs[i], i, fs[j], outcome)]

LinesOf(rows) ==
    [n \in 1..3 * Len(rows) |-> [row |-> rows[(n - 1) \div 3 + 1], part |-> Parts[((n - 1) % 3) + 1]]]

\* load_eval_results: no line may be torn or hold two rows; the last may lack its end.
Readable(f) ==
    \A i \in DOMAIN f :
        /\ f[i].part = "text1" =>
               /\ i < Len(f) /\ f[i + 1] = [f[i] EXCEPT !.part = "text2"]
               /\ i > 1 => f[i - 1].part = "end"
        /\ f[i].part = "text2" =>
               /\ i > 1 /\ f[i - 1] = [f[i] EXCEPT !.part = "text1"]
               /\ i < Len(f) => f[i + 1].part = "end"

RowsIn(f) == IF Readable(f) THEN {f[i].row : i \in DOMAIN f} ELSE {}
-----------------------------------------------------------------------------
(* Summaries.                                                              *)

\* _candidate_summary and _candidate_summary_from_rows.
CandidateSummary(c, rows) ==
    [candidate |-> c, total |-> Cardinality(rows),
     passed |-> Cardinality({r \in rows : Passed(r)}), failed |-> Cardinality({r \in rows : RowFailed(r)}),
     timeouts |-> Cardinality({r \in rows : r.outcome = "timeout"}),
     mean |-> Mean(rows, Score), latency |-> Mean(rows, Latency)]

RankKey(s) == <<s.mean, s.passed, -s.failed, -s.timeouts, -s.latency>>
Above(s, t) ==
    \E i \in 1..5 : RankKey(s)[i] > RankKey(t)[i] /\ \A j \in 1..(i - 1) : RankKey(s)[j] = RankKey(t)[j]

\* _comparison_winner: someone passed something, and nobody equals the best.
Winner(summaries) ==
    LET ranked == {s \in summaries : s.passed > 0}
        best == {s \in ranked : ~\E t \in ranked : Above(t, s)}
    IN IF Cardinality(best) = 1 THEN (CHOOSE s \in best : TRUE).candidate ELSE None

Comparison(id, summaries, winner) == [id |-> id, summaries |-> summaries, winner |-> winner]

\* What a comparison finds, of its results in memory.
Found(id, rows) ==
    LET summaries == {CandidateSummary(c, {r \in rows : r.cand = c}) : c \in {r.cand : r \in rows}}
    IN Comparison(id, summaries, Winner(summaries))

\* _comparison_coverage_stale_reasons: two candidates at least, and over the same fixtures.
Stale(groups) ==
    Cardinality(groups) < 2 \/ \E g, h \in groups : {r.fixture : r \in g} # {r.fixture : r \in h}

\* Faulty: a candidate is its model.
Cached_ByModel(f, id) ==
    LET rows == {r \in RowsIn(f) : r.compare /\ r.id = id}
        groups == {{r \in rows : r.cand.model = c.model} : c \in {r.cand : r \in rows}}
        summaries == {CandidateSummary((CHOOSE r \in g : TRUE).cand, g) : g \in groups}
    IN Comparison(id, summaries, IF Stale(groups) THEN None ELSE Winner(summaries))

\* _comparison_summary_from_rows, of the rows found in the file.
Cached(f, id) ==
    LET rows == {r \in RowsIn(f) : r.compare /\ r.id = id}
        groups == {{r \in rows : r.cand = c} : c \in {r.cand : r \in rows}}
        summaries == {CandidateSummary((CHOOSE r \in g : TRUE).cand, g) : g \in groups}
    IN Comparison(id, summaries, IF Stale(groups) THEN None ELSE Winner(summaries))

\* Faulty: the newest evidence is what was appended last.
Latest_Appended(f, rows) ==
    LET last == CHOOSE i \in DOMAIN f : f[i].row \in rows /\ \A j \in DOMAIN f : f[j].row \in rows => j <= i
    IN f[last].row.run

\* _latest_run_id: the newest command's, and of those of one comparison the last.
Latest(f, rows) ==
    (CHOOSE r \in rows : \A s \in rows : s.run[1] < r.run[1] \/ (s.run[1] = r.run[1] /\ s.run[2] <= r.run[2])).run

\* eval_evidence_from_rows: the rows of the newest run of a model.
Evidence(f, model) ==
    LET rows == {r \in RowsIn(f) : r.cand.model = model}
    IN IF rows = {} THEN {} ELSE {r \in rows : r.run = Latest(f, rows)}
-----------------------------------------------------------------------------
(* Commands.                                                               *)

Init ==
    /\ file = <<>> /\ begun = {} /\ told = {}
    /\ batch = [u \in Users |-> <<>>] /\ writes = [u \in Users |-> 0] /\ summary = [u \in Users |-> None]

Idle(u) == batch[u] = <<>>

\* The backends are asked, one fixture after the other; nothing is written before
\* the last has answered, and a failure that is no answer loses everything.
Begin(u, compare, cs, fs, outcome) ==
    LET id == Cardinality(begun) + 1
        rows == BatchRows(id, compare, cs, fs, outcome)
    IN /\ Idle(u) /\ Cardinality(begun) < MaxBegun
       /\ compare => Cardinality({b \in begun : Cardinality(b.candidates) > 1}) < MaxCompared
       /\ begun' = begun \cup {[id |-> id, candidates |-> ToSet(cs), fixtures |-> ToSet(fs)]}
       /\ batch' = [batch EXCEPT ![u] = LinesOf(rows)]
       /\ summary' = [summary EXCEPT ![u] = IF compare THEN Found(id, ToSet(rows)) ELSE None]
       /\ UNCHANGED <<file, writes, told>>

Ordered(n) == {q \in [1..n -> Candidates] : IsInjective(q)}

\* execute_eval_run: one model, the fixtures the selector names.
Run(u) ==
    \E c \in Candidates, fs \in Selections : \E outcome \in [{c} \X ToSet(fs) -> Outcomes] :
        Begin(u, FALSE, <<c>>, fs, outcome)

\* execute_eval_comparison: candidates given explicitly, two at least and no duplicates.
Compare(u) ==
    \E n \in 2..Cardinality(Candidates) : \E cs \in Ordered(n), fs \in Selections :
        \E outcome \in [ToSet(cs) \X ToSet(fs) -> Outcomes] : Begin(u, TRUE, cs, fs, outcome)

\* A write of the buffer: all that is left of the batch, or less.
Write(u, n) ==
    /\ writes[u] + 1 = MaxWrites => n = Len(batch[u])
    /\ file' = file \o SubSeq(batch[u], 1, n)
    /\ batch' = [batch EXCEPT ![u] = SubSeq(@, n + 1, Len(@))]
    /\ IF n < Len(batch[u]) THEN writes' = [writes EXCEPT ![u] = @ + 1] /\ UNCHANGED <<told, summary>>
       ELSE /\ told' = told \cup ({summary[u]} \ {None})
            /\ writes' = [writes EXCEPT ![u] = 0] /\ summary' = [summary EXCEPT ![u] = None]
    /\ UNCHANGED begun

\* The process or the disk ends before the rest is written.
Stop(u) ==
    /\ ~Idle(u)
    /\ batch' = [batch EXCEPT ![u] = <<>>]
    /\ writes' = [writes EXCEPT ![u] = 0] /\ summary' = [summary EXCEPT ![u] = None]
    /\ UNCHANGED <<file, begun, told>>

Next == \E u \in Users : Run(u) \/ Compare(u) \/ Stop(u) \/ \E n \in DOMAIN batch[u] : Write(u, n)

Spec == Init /\ [][Next]_vars
-----------------------------------------------------------------------------
(* Properties.                                                             *)

\* What the settings page shows of a comparison is what the command told of it,
\* winner and all, whatever other processes have appended between its rows.
CachedAsTold == Readable(file) => \A t \in told : Cached(file, t.id) = t

\* A comparison that was cut short is never judged by its rest: the page names a
\* winner only over candidates that have all answered all the fixtures asked for.
\* (A candidate none of whose rows was written is not missed.)
WinnerSawAll ==
    \A b \in begun :
        LET shown == Cached(file, b.id) IN
        shown.winner # None => \A s \in shown.summaries : s.total = Cardinality(b.fixtures)

\* What the page shows of a comparison is what was told of it, or is not judged.
PageIsTrue == CachedAsTold /\ WinnerSawAll

\* The evidence shown of a model is that of one candidate, and it never goes back
\* to an older run, though an older run may be appended after a newer one.
EvidenceMovesOn ==
    [][\A model \in {c.model : c \in Candidates} :
          LET old == Evidence(file, model)  new == Evidence(file', model) IN
          /\ Cardinality({r.cand : r \in new}) <= 1
          /\ \A r \in old, s \in new : r.id <= s.id]_vars
=============================================================================
