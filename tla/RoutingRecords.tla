--------------------------- MODULE RoutingRecords ---------------------------
(***************************************************************************)
(* The routing log on disk and the reports made from it: the rotation of   *)
(* the log (routing_log.py), the replay of routed prompts, the summary of  *)
(* feedback, the review queue and the usage summary (telemetry.py) with    *)
(* the prices of the catalog (pricing_catalog.py).                         *)
(*   event     [id, prompt, engine, now, upstream, model, charged, total]: *)
(*             prompt says whether the prompt was recorded, now is the     *)
(*             engine today's configuration picks for it, charged and      *)
(*             total are tokens (charged: prompt, completion and cached)   *)
(*   feedback  [id, engine]                                                *)
(*   catalog   a set of [provider, model, currency, placeholder], with one *)
(*             entry per provider and model                                *)
(* Routing rows never carry a provider.  Times, latencies, labels of the   *)
(* outcome, notes and the costs' amounts are left out.                     *)
(***************************************************************************)
EXTENDS Naturals, Sequences, FiniteSets, SequencesExt, FiniteSetsExt

CONSTANTS None  \* no upstream model, no model, no currency

Count(events, Test(_)) == Len(SelectSeq(events, Test))
Total(events, Of(_)) == FoldSeq(LAMBDA e, n : n + Of(e), 0, events)
-----------------------------------------------------------------------------
(* Rotation.  files[0] is the log, files[i] its i-th backup; each is Gone  *)
(* or the rows of it, the oldest first.                                    *)

Gone == <<"gone">>

Backups(files) == CHOOSE n \in DOMAIN files : \A i \in DOMAIN files : i <= n

Unlink(files) == [files EXCEPT ![Backups(files)] = Gone]
Replace(i, files) ==
    IF files[i] = Gone THEN files ELSE [files EXCEPT ![i] = Gone, ![i + 1] = files[i]]

\* Faulty: the backups move up from the newest.
Rotate_Ascending(files, done) ==
    IF done = 0 THEN files
    ELSE FoldLeft(LAMBDA f, i : Replace(i - 1, f), Unlink(files), [i \in 1..(done - 1) |-> i])

\* The first `done` steps of a rotation: the oldest backup goes, the others move up
\* from the oldest down, the log itself moves last.
Rotate(files, done) ==
    LET n == Backups(files)
    IN IF done = 0 THEN files
       ELSE FoldLeft(LAMBDA f, i : Replace(n - i, f), Unlink(files), [i \in 1..(done - 1) |-> i])

RotationSteps(files) == Backups(files) + 1

\* A write that stops after `done` steps (a crash, or an error of the file system that
\* the writer drops); the row is written when all steps are done.
Write(files, row, full, done) ==
    LET due == full > 0 /\ Backups(files) > 0 /\ files[0] # Gone /\ Len(files[0]) >= full
        f == IF due THEN Rotate(files, done) ELSE files
    IN IF due /\ done < RotationSteps(files) THEN f
       ELSE [f EXCEPT ![0] = IF f[0] = Gone THEN <<row>> ELSE Append(f[0], row)]

Content(files) ==
    FlattenSeq([i \in 1..(Backups(files) + 1) |->
        LET rows == files[Backups(files) + 1 - i] IN IF rows = Gone THEN <<>> ELSE rows])

\* Wherever a write stops, the rows that are left are the ones there were, in their
\* order, but for the rows of the oldest backup; and a write that ends kept its row.
LosesOnlyOldest(files, row, full, done) ==
    LET after == Content(Write(files, row, full, done))
        oldest == files[Backups(files)]
        before == Content(files)
    IN \E old \in {<<>>, IF oldest = Gone \/ Backups(files) = 0 THEN <<>> ELSE oldest},
          new \in {<<>>, <<row>>} :
          /\ old \o after = before \o new
          /\ done = RotationSteps(files) => new = <<row>>
-----------------------------------------------------------------------------
(* Feedback, replay and review.                                            *)

\* The last feedback of a request counts.
FeedbackByRequest(rows) ==
    [id \in {rows[i].id : i \in DOMAIN rows} |->
        rows[Max({i \in DOMAIN rows : rows[i].id = id})].engine]

Ids(events) == {events[i].id : i \in DOMAIN events}
Replayable(events, id) == \E i \in DOMAIN events : events[i].id = id /\ events[i].prompt

Replay(events, rows) ==
    LET fb == FeedbackByRequest(rows)
        labeled(e) == e.prompt /\ e.id \in DOMAIN fb
    IN [replayed    |-> Count(events, LAMBDA e : e.prompt),
        noPrompt    |-> Count(events, LAMBDA e : ~e.prompt),
        changed     |-> Count(events, LAMBDA e : e.prompt /\ e.now # e.engine),
        labeled     |-> Count(events, labeled),
        unlabeled   |-> Count(events, LAMBDA e : e.prompt /\ e.id \notin DOMAIN fb),
        mismatched  |-> Count(events, LAMBDA e : labeled(e) /\ fb[e.id] # e.now),
        confusion   |-> [p \in {<<fb[events[i].id], events[i].now>> : i \in {j \in DOMAIN events : labeled(events[j])}} |->
                           Count(events, LAMBDA e : labeled(e) /\ <<fb[e.id], e.now>> = p)],
        eventless   |-> DOMAIN fb \ Ids(events),
        private     |-> {id \in DOMAIN fb \cap Ids(events) : ~Replayable(events, id)}]

FeedbackLabels(events, rows) ==
    {[id |-> id, found |-> id \in Ids(events), replayable |-> Replayable(events, id)] :
       id \in DOMAIN FeedbackByRequest(rows)}

\* Newest first, until the queue has `max` items; what is skipped is counted on the way.
ReviewQueue(events, rows, max) ==
    LET labeled(e) == e.id \in DOMAIN FeedbackByRequest(rows)
    IN FoldLeft(LAMBDA q, e : IF Len(q.items) >= max THEN q
                              ELSE IF labeled(e) THEN [q EXCEPT !.skipped = @ + 1]
                              ELSE [q EXCEPT !.items = Append(@, e.id)],
                [items |-> <<>>, skipped |-> 0], Reverse(events))

\* The three reports of one log tell the same: who is labeled, who can be replayed and
\* who waits for a review.
ReportsAgree(events, rows, max) ==
    LET r == Replay(events, rows)
        labels == FeedbackLabels(events, rows)
        q == ReviewQueue(events, rows, max)
    IN /\ r.eventless = {l.id : l \in {x \in labels : ~x.found}}
       /\ r.private = {l.id : l \in {x \in labels : x.found /\ ~x.replayable}}
       /\ r.labeled = Cardinality({x \in labels : x.replayable})
       /\ r.replayed = r.labeled + r.unlabeled /\ r.replayed + r.noPrompt = Len(events)
       /\ r.mismatched = MapThenSumSet(LAMBDA p : r.confusion[p], {p \in DOMAIN r.confusion : p[1] # p[2]})
       /\ Range(q.items) \cap {l.id : l \in labels} = {}
       /\ Len(q.items) < max => /\ Ids(events) = Range(q.items) \cup {l.id : l \in {x \in labels : x.found}}
                                /\ q.skipped = Cardinality({x \in labels : x.found})
                                /\ r.unlabeled = Cardinality({id \in Range(q.items) : Replayable(events, id)})
-----------------------------------------------------------------------------
(* Usage and prices.                                                       *)

HasUsage(e) == e.charged > 0 \/ e.total > 0
Candidates(e) == SelectSeq(<<e.upstream, e.model>>, LAMBDA x : x # None)

\* PricingCatalog.lookup without a provider.
Lookup(catalog, model) ==
    LET matches == {p \in catalog : p.model = model}
    IN CASE Cardinality(matches) = 1 -> "matched"
         [] Cardinality(matches) > 1 -> "ambiguous_model"
         [] matches = {} -> "missing_price"

\* The first candidate that is priced or ambiguous decides; a gap names the first one.
Cost(catalog, e) ==
    LET models == Candidates(e)
        known == SelectSeq(models, LAMBDA x : Lookup(catalog, x) # "missing_price")
        unpriced(status, model) == [status |-> status, model |-> model, currency |-> None, placeholder |-> FALSE]
    IN IF e.charged = 0 THEN unpriced("no_usage", None)
       ELSE IF models = <<>> THEN unpriced("missing_model", None)
       ELSE IF known = <<>> THEN unpriced("missing_price", models[1])
       ELSE IF Lookup(catalog, known[1]) = "ambiguous_model" THEN unpriced("ambiguous_model", known[1])
       ELSE LET p == CHOOSE x \in catalog : x.model = known[1]
            IN [status |-> "matched", model |-> known[1], currency |-> p.currency, placeholder |-> p.placeholder]

GapStatus == {"missing_price", "missing_model", "ambiguous_model"}

MergedCurrency(current, incoming) ==
    IF current \in {None, incoming} THEN incoming ELSE "mixed"

GroupKey(catalog, e) == <<Cost(catalog, e).status, Cost(catalog, e).model, e.engine>>

UsageSummary(events, catalog) ==
    LET used == SelectSeq(events, HasUsage)
        priced == SelectSeq(used, LAMBDA e : Cost(catalog, e).status = "matched")
        gaps == SelectSeq(used, LAMBDA e : Cost(catalog, e).status \in GapStatus)
        keys == {GroupKey(catalog, gaps[i]) : i \in DOMAIN gaps}
        engines == {used[i].engine : i \in DOMAIN used}
    IN [rows         |-> Len(events),
        usage        |-> Len(used),
        insufficient |-> Len(events) - Len(used),
        tokens       |-> Total(used, LAMBDA e : e.total),
        byEngine     |-> [g \in engines |-> Total(SelectSeq(used, LAMBDA e : e.engine = g), LAMBDA e : e.total)],
        matched      |-> Len(priced),
        missing      |-> Len(gaps),
        placeholder  |-> Count(priced, LAMBDA e : Cost(catalog, e).placeholder),
        currency     |-> FoldLeft(LAMBDA c, e : MergedCurrency(c, Cost(catalog, e).currency), None, priced),
        gaps         |-> [k \in keys |-> Count(gaps, LAMBDA e : GroupKey(catalog, e) = k)]]

CostConfidence(s) ==
    IF s.usage = 0 THEN "no_usage"
    ELSE IF s.matched = 0 THEN "no_catalog_match"
    ELSE IF s.missing > 0 THEN "partial_catalog_match"
    ELSE IF s.placeholder > 0 THEN "placeholder_pricing"
    ELSE "catalog_matched"

\* No row is counted twice or dropped between the parts of a summary, amounts of two
\* currencies are never shown as one, and a summary that calls its costs matched has
\* an authoritative price for every row with charged tokens.
CoverageAddsUp(events, catalog) ==
    LET s == UsageSummary(events, catalog)
        costs == {Cost(catalog, events[i]) : i \in {j \in DOMAIN events : HasUsage(events[j])}}
        currencies == {c.currency : c \in costs} \ {None}
    IN /\ s.tokens = MapThenSumSet(LAMBDA g : s.byEngine[g], DOMAIN s.byEngine)
       /\ s.tokens = Total(events, LAMBDA e : e.total)
       /\ s.missing = MapThenSumSet(LAMBDA k : s.gaps[k], DOMAIN s.gaps)
       /\ s.matched + s.missing + Count(events, LAMBDA e : HasUsage(e) /\ e.charged = 0) = s.usage
       /\ s.currency = "mixed" <=> Cardinality(currencies) > 1
       /\ CostConfidence(s) = "catalog_matched" =>
            \A c \in costs : c.status # "no_usage" => c.status = "matched" /\ ~c.placeholder

\* pricing_override_skeleton_from_gaps: an entry per provider and model of a gap.
Skeleton(gaps) ==
    {[provider |-> "unknown", model |-> IF k[2] = None THEN "unknown-model" ELSE k[2],
      currency |-> "USD", placeholder |-> TRUE] : k \in gaps}

\* _merge_catalogs: an override replaces the packaged entry of its provider and model.
MergeCatalogs(packaged, override) ==
    override \cup {p \in packaged : ~\E o \in override : o.provider = p.provider /\ o.model = p.model}

\* An override filled in from the gaps prices every row whose model had no price, and
\* takes the price from no row that had one; it never passes for a verified price.
SkeletonClosesGaps(events, catalog) ==
    LET s == UsageSummary(events, catalog)
        t == UsageSummary(events, MergeCatalogs(catalog, Skeleton({k \in DOMAIN s.gaps : k[1] = "missing_price"})))
    IN /\ {k \in DOMAIN t.gaps : k[1] = "missing_price"} = {}
       /\ t.matched >= s.matched /\ t.missing <= s.missing
       /\ t.matched > s.matched => CostConfidence(t) # "catalog_matched"
=============================================================================
