---------------------------- MODULE EvalReports ----------------------------
(***************************************************************************)
(* What is told of evaluation results (eval_runner.py) and of the offline  *)
(* routing benchmark (workflow_benchmark.py).                              *)
(*                                                                         *)
(* Result rows come from a file that older versions and other programs may *)
(* have written: a field that is missing or has another type is None, but  *)
(* for exit, status and timeout, which then say nothing.  A row is         *)
(*   [run, at, compare, model, upstream, category, exit, status, timeout,  *)
(*    score, latency, tokens, reasons, error, fixtures, scorer, raw]       *)
(* where reasons is a sequence, fixtures and scorer are versions, and raw  *)
(* are the fields that hold texts.  Several rows may be equal: a result is *)
(* a sequence of them.                                                     *)
(***************************************************************************)
EXTENDS PromptScoring

Current == 1      \* EVAL_FIXTURE_SCHEMA_VERSION and EVAL_SCORER_VERSION

PromptFields == {"prompt"}
OutputFields == {"output"}
LegacyFields == PromptFields \cup OutputFields
-----------------------------------------------------------------------------
(* Results.                                                                *)

RowPassed(r) == r.exit = "passed"

RowFailed(r) == r.exit = "failed" \/ r.status \in {"failed", "timeout", "error"}
RowTimedOut(r) == r.timeout \/ r.status = "timeout"

Count(rows, P(_)) == Len(SelectSeq(rows, P))
Total(rows, value(_)) == FoldLeft(LAMBDA n, r : n + value(r), 0, rows)
Values(rows, field) ==
    SortSeq(SelectSeq([i \in DOMAIN rows |-> rows[i][field]], LAMBDA v : v # None /\ v >= 0), <)

Mean(values) == IF values = <<>> THEN None ELSE (100 * FoldLeft(+, 0, values)) \div Len(values)

\* Twice the median.
Median(values) ==
    LET mid == Len(values) \div 2 IN
    IF Len(values) % 2 = 1 THEN 2 * values[mid + 1] ELSE values[mid] + values[mid + 1]

LatencySummary(rows) ==
    LET values == Values(rows, "latency") IN
    IF values = <<>> THEN [count |-> 0, missing |-> Len(rows), min |-> None, max |-> None, median |-> None]
    ELSE [count |-> Len(values), missing |-> Len(rows) - Len(values),
          min |-> values[1], max |-> Last(values), median |-> Median(values)]

Tokens0(r) == IF r.tokens = None \/ r.tokens < 0 THEN 0 ELSE r.tokens
UsageOf(rows) ==
    LET with == Count(rows, LAMBDA r : Tokens0(r) > 0) IN
    [with |-> with, missing |-> Len(rows) - with, tokens |-> Total(rows, Tokens0),
     upstream |-> [m \in {rows[i].upstream : i \in DOMAIN rows} \ {None} |-> Count(rows, LAMBDA r : r.upstream = m)]]

CategoryOf(r) == IF r.category = None THEN "unknown" ELSE r.category

\* A category's mean does not see the rows without one, and sees scores below zero.
CategorySummary(rows) ==
    [c \in {CategoryOf(rows[i]) : i \in DOMAIN rows} |->
       LET group == SelectSeq(rows, LAMBDA r : CategoryOf(r) = c) IN
       [total |-> Len(group), passed |-> Count(group, RowPassed),
        failed |-> Count(group, LAMBDA r : ~RowPassed(r) /\ RowFailed(r)),
        timeouts |-> Count(group, RowTimedOut),
        mean |-> Mean(Values(SelectSeq(group, LAMBDA r : r.category = c), "score"))]]

\* What a row adds to the counts of reasons: a list says nothing when it is empty.
ReasonsOf(r) ==
    IF r.reasons # None THEN r.reasons
    ELSE IF ~RowFailed(r) THEN <<>> ELSE <<IF r.error = None THEN "did not pass" ELSE r.error>>
FailureReasons(rows) == FlattenSeq([i \in DOMAIN rows |-> ReasonsOf(rows[i])])

SuitabilityNotes(rows) ==
    IF rows = <<>> THEN {"no results"}
    ELSE (IF Count(rows, RowPassed) = Len(rows) THEN {"all passed"} ELSE {})
         \cup (IF Count(rows, RowFailed) > 0 THEN {"failed"} ELSE {})
         \cup (IF Count(rows, RowTimedOut) > 0 THEN {"timeouts"} ELSE {})
         \cup (IF Values(rows, "score") = <<>> THEN {"no scores"} ELSE {})

\* _latest_run_id, by time of creation and then by name; None without any.
LatestRun(rows, comparisons) ==
    LET dated == {rows[i] : i \in {j \in DOMAIN rows : rows[j].at # None /\ (comparisons \/ ~rows[j].compare)}} IN
    IF dated = {} THEN None
    ELSE (CHOOSE r \in dated : \A s \in dated : s.at < r.at \/ (s.at = r.at /\ s.run <= r.run)).run

Counts(rows) ==
    [total |-> Len(rows), passed |-> Count(rows, RowPassed), failed |-> Count(rows, RowFailed),
     timeouts |-> Count(rows, RowTimedOut), mean |-> Mean(Values(rows, "score")),
     categories |-> CategorySummary(rows), usage |-> UsageOf(rows), latency |-> LatencySummary(rows),
     reasons |-> FailureReasons(rows)]

OfRun(rows, run) == SelectSeq(rows, LAMBDA r : run # None /\ r.run = run)

\* None asks for the latest run.
Selected(rows, run) == OfRun(rows, IF run = None THEN LatestRun(rows, FALSE) ELSE run)

EvalReport(rows, run) ==
    LET selected == Selected(rows, run)
        counts == Counts(selected)
        rest == counts.total - counts.passed - counts.failed
    IN [unknown |-> IF rest < 0 THEN 0 ELSE rest, notes |-> SuitabilityNotes(selected)] @@ counts

\* A row without a version does not make the others stale.
StaleReasons(rows) ==
    LET said(version(_)) == {version(rows[i]) : i \in DOMAIN rows} \ {None} IN
    (IF \A i \in DOMAIN rows : rows[i].at = None THEN {"timestamp"} ELSE {})
    \cup (IF said(LAMBDA r : r.fixtures) # {Current} THEN {"fixtures"} ELSE {})
    \cup (IF said(LAMBDA r : r.scorer) # {Current} THEN {"scorer"} ELSE {})

\* eval_evidence_from_rows: the newest run of a model, under either of its names.
ModelEvidence(rows, model) ==
    LET matching == SelectSeq(rows, LAMBDA r : model \in {r.model, r.upstream})
        run == LatestRun(matching, TRUE)
        selected == OfRun(matching, run)
    IN [run |-> run, counts |-> Counts(selected),
        status |-> IF selected = <<>> THEN "not_evaluated"
                   ELSE IF StaleReasons(selected) # {} THEN "stale" ELSE "evaluated"]

\* _comparison_privacy_summary
PrivacySummary(rows) ==
    LET raw == UNION {rows[i].raw : i \in DOMAIN rows} \cap LegacyFields IN
    [detected |-> raw # {}, prompts |-> raw \cap PromptFields # {}, outputs |-> raw \cap OutputFields # {},
     secrets |-> IF raw = {} THEN "no" ELSE "unknown"]
-----------------------------------------------------------------------------
(* The routing benchmark.                                                  *)

\* routing_targets of the packaged configuration, all of whose engines are local.
Engine == [simple |-> "fast_local", balanced |-> "balanced_local", reasoning |-> "reasoning_local",
           coding |-> "code_agent", research |-> "web_research", vision |-> "multimodal_vision",
           image_generation |-> "image_generation", confirmation |-> "human_confirm"]

\* What the patterns find in the prompts.
Case(name, found, chars, words, engine, signals) ==
    [name |-> name, p |-> [found |-> found, chars |-> chars, words |-> words], image |-> name = "screenshot_ocr",
     engine |-> engine, confirm |-> engine = "human_confirm", signals |-> signals]

DefaultCases == {
    Case("simple_rewrite", {"simple", "vague"}, 70, 11, "fast_local", <<>>),
    Case("ordinary_summary", {"fresh_object", "structured", "clear"}, 57, 8, "balanced_local", <<>>),
    Case("repo_test_work", {"coding", "shell", "tool", "verification", "repo_wide", "vague"}, 62, 11, "code_agent", <<>>),
    Case("current_information", {"research", "current"}, 69, 11, "web_research", <<>>),
    Case("screenshot_ocr", {"simple", "vision", "vague", "clear"}, 62, 10, "multimodal_vision", <<>>),
    Case("image_generation", {"image", "vision"}, 59, 9, "image_generation", <<>>),
    Case("risky_external_action", {"github", "production", "impact", "vague"}, 53, 9, "human_confirm",
         [risky |-> TRUE, mechanical |-> FALSE]),
    Case("private_current_information", {"research", "current"}, 48, 7, "web_research", <<>>),
    Case("quality_reasoning", {"steps", "architecture", "mechanical", "judgment"}, 80, 11, "reasoning_local", <<>>),
    Case("mechanical_bulk_edit", {"coding", "tool", "mechanical", "repo_wide"}, 118, 15, "code_agent",
         [mechanical |-> TRUE, repo_wide |-> TRUE, risky |-> FALSE]),
    Case("slow_test_suite", {"coding", "shell", "tool", "verification", "repo_wide", "vague"}, 114, 21, "code_agent",
         [verification |-> TRUE, repo_wide |-> TRUE, risky |-> FALSE]),
    Case("judgment_heavy_ui_product_change", {"coding", "steps", "judgment"}, 128, 21, "code_agent",
         [judgment |-> TRUE, mechanical |-> FALSE, risky |-> FALSE]),
    Case("hard_mechanical_integration", {"coding", "mechanical", "judgment", "repo_wide"}, 204, 32, "code_agent",
         [mechanical |-> TRUE, judgment |-> TRUE, repo_wide |-> TRUE, risky |-> FALSE])}

\* The delegation signals of the receipt.
Signals(p, confirmed) ==
    [risky |-> Risky(p, confirmed), judgment |-> Judgment(p, DefaultScoring),
     mechanical |-> Mechanical(p, confirmed, DefaultScoring), verification |-> Verification(p),
     repo_wide |-> Found(p, {"repo_wide"})]

FailuresOf(c, safety) ==
    LET target == TargetRoute(c.p, c.image, safety, DefaultScoring)
        confirmed == target = "confirmation"
        signals == Signals(c.p, confirmed)
    IN (IF Engine[target] # c.engine THEN {"engine"} ELSE {})
       \cup (IF confirmed # c.confirm THEN {"confirmation", "provider"} ELSE {})
       \cup {s \in DOMAIN c.signals : signals[s] # c.signals[s]}

WorkflowReport(cases, safety) ==
    LET failed == {c \in cases : FailuresOf(c, safety) # {}} IN
    [total |-> Cardinality(cases), failed |-> Cardinality(failed),
     passed |-> Cardinality(cases \ failed), ok |-> failed = {},
     changes |-> Cardinality({c \in cases : "engine" \in FailuresOf(c, safety)})]
-----------------------------------------------------------------------------
(* Properties.                                                             *)

\* The runner's rows never say both that a result passed and that it failed.
Consistent(r) == ~(RowPassed(r) /\ RowFailed(r))

\* A report's numbers agree, though they are counted in five places: the categories with the
\* whole, passed, failed and unknown with the total, the notes with the counts, and the
\* latencies and usage with the rows.  Of rows that contradict themselves the whole counts
\* as failed what a category counts as passed.
ReportAddsUp(rows, run) == \A report \in {EvalReport(rows, run)} :
    LET own == Selected(rows, run)
        sum(field(_)) == FoldSet(LAMBDA c, n : n + field(report.categories[c]), 0, DOMAIN report.categories)
        consistent == \A i \in DOMAIN own : Consistent(own[i])
    IN /\ sum(LAMBDA c : c.total) = report.total /\ sum(LAMBDA c : c.passed) = report.passed
       /\ sum(LAMBDA c : c.timeouts) = report.timeouts /\ sum(LAMBDA c : c.failed) <= report.failed
       /\ consistent =>
            /\ sum(LAMBDA c : c.failed) = report.failed
            /\ report.passed + report.failed + report.unknown = report.total
            /\ "all passed" \in report.notes => report.failed = 0 /\ report.unknown = 0
            /\ report.timeouts > report.failed => \E i \in DOMAIN own : own[i].timeout
       /\ report.usage.with + report.usage.missing = report.total
       /\ report.latency.count + report.latency.missing = report.total
       /\ report.latency.count > 0 => /\ 2 * report.latency.min <= report.latency.median
                                      /\ report.latency.median <= 2 * report.latency.max
       /\ (\A i \in DOMAIN own : own[i].reasons # <<>>) => Len(report.reasons) >= report.failed

\* What a model's evidence says is what the report of the run it names says, if the run is
\* of that model alone; evidence that is not stale has no row of another version; and what
\* the page calls free of texts is.
EvidenceIsReport(rows, model) ==
    LET e == ModelEvidence(rows, model)
        own == OfRun(rows, e.run)
        report == EvalReport(rows, e.run)
    IN /\ (e.run # None /\ \A i \in DOMAIN own : model \in {own[i].model, own[i].upstream})
            => \A field \in DOMAIN e.counts : report[field] = e.counts[field]
       /\ e.status = "evaluated" =>
            \A i \in DOMAIN own : own[i].model = model => own[i].fixtures \in {None, Current} /\ own[i].scorer \in {None, Current}
       /\ e.status # "not_evaluated" => \A i \in DOMAIN rows : rows[i].model = model /\ rows[i].at # None =>
            \E j \in DOMAIN own : own[j].at # None /\ own[j].at >= rows[i].at
       /\ ~PrivacySummary(rows).detected => \A i \in DOMAIN rows : rows[i].raw \cap LegacyFields = {}

\* The packaged configuration routes the packaged cases as they expect.  The benchmark
\* notices an action that is added to any prompt, and settings that let one pass; a report
\* that is ok has no route that changed.
WorkflowsHold(cases, safety, action) == \A report \in {WorkflowReport(cases, safety)} :
    LET with(c) == [c EXCEPT !.p.found = @ \cup {action}]
    IN /\ safety = [required |-> TRUE, allow |-> {}] => report.ok
       /\ report.passed + report.failed = report.total /\ report.ok => report.changes = 0
       /\ safety = [required |-> TRUE, allow |-> {}] =>
            \A c \in cases : ~c.confirm => "engine" \in FailuresOf(with(c), safety)
       /\ ~safety.required => \A c \in cases : c.confirm => {"engine", "confirmation"} \subseteq FailuresOf(c, safety)
=============================================================================
