--------------------------- MODULE PromptScoring ---------------------------
(***************************************************************************)
(* What the router makes of a prompt.  scorer.py: features, complexity,    *)
(* risk and confidence, from the patterns the prompt matches; policy.py:   *)
(* whether a person must confirm it and the target it is sent to; and the  *)
(* two scanners of route_fast, which look for the same actions word by     *)
(* word.                                                                   *)
(*                                                                         *)
(* A prompt is the set of patterns that match it, its length in characters *)
(* and its number of words.  For the scanners it is a sequence of words,   *)
(* of which only the kind counts; words are taken to be separated by       *)
(* blanks and by the punctuation the scanners strip.                       *)
(***************************************************************************)
EXTENDS Naturals, Sequences, FiniteSets, SequencesExt, FiniteSetsExt

CONSTANTS None

RiskWeights == [
    destructive_action |-> 70, send_action |-> 60, purchase_action |-> 60, external_action |-> 40,
    file_shell_github |-> 25, sensitive_domain |-> 25, legal |-> 5, medical |-> 5, financial |-> 5,
    ambiguous_high_impact |-> 15, production |-> 20, security |-> 15, pii |-> 20]
ComplexityWeights == [
    medium_prompt |-> 10, long_prompt |-> 15, very_long_prompt |-> 15, coding |-> 25,
    research |-> 20, current |-> 20, steps |-> 25, architecture |-> 25,
    tool_intent |-> 10, structured |-> 8, ambiguous |-> 12, long_context |-> 20,
    sensitive_domain |-> 8, vision_intent |-> 15, image |-> 18]
ConfidenceWeights == [ambiguous |-> 25, short_high_risk |-> 15, weak_feature_match |-> 10, empty_prompt |-> 40]

DefaultScoring == [risk |-> RiskWeights, complexity |-> ComplexityWeights,
                   confidence |-> ConfidenceWeights, k |-> 50]

ActionPatterns == {"destructive", "send", "purchase", "impact"}
Domains == {"legal", "medical", "financial"}
-----------------------------------------------------------------------------
(* Features.                                                               *)

Tokens(p) == (p.chars + 3) \div 4
Found(p, patterns) == p.found \cap patterns # {}

Actions(p) == p.found \cap ActionPatterns
Sensitive(p) == Found(p, Domains)
Ambiguous(p) == ~Found(p, {"simple", "clear"}) /\ p.words <= 4 /\ Found(p, {"vague"})
LongContext(p) == Tokens(p) >= 1000 \/ p.chars >= 4000
Freshness(p) == Found(p, {"current"}) /\ Found(p, {"research", "fresh_object"})
CodeExecution(p) == Found(p, {"coding"}) /\ Found(p, {"shell", "file"})
Vision(p) == Found(p, {"vision"}) /\ ~Found(p, {"image"})
Image(p) == Found(p, {"image"})
ToolsNeeded(p) ==
    \/ Found(p, {"tool", "file", "email", "calendar", "shell", "github", "send", "purchase"})
    \/ Freshness(p) \/ CodeExecution(p) \/ Vision(p) \/ Image(p)
-----------------------------------------------------------------------------
(* Scores.                                                                 *)

If(condition, signal) == IF condition THEN {signal} ELSE {}

ComplexitySignals(p) ==
    (p.found \cap {"coding", "steps", "architecture", "structured"})
    \cup If(Tokens(p) > 200, "medium_prompt") \cup If(Tokens(p) > 800, "long_prompt")
    \cup If(Tokens(p) > 1600, "very_long_prompt")
    \cup (IF Found(p, {"current"}) THEN {"current"} ELSE p.found \cap {"research"})
    \cup If(ToolsNeeded(p), "tool_intent") \cup If(Ambiguous(p), "ambiguous")
    \cup If(LongContext(p), "long_context") \cup If(Sensitive(p), "sensitive_domain")
    \cup If(Vision(p), "vision_intent") \cup If(Image(p), "image")

RiskSignals(p) ==
    If(Found(p, {"destructive"}), "destructive_action") \cup If(Found(p, {"send"}), "send_action")
    \cup If(Found(p, {"purchase"}), "purchase_action") \cup If(Actions(p) = {"impact"}, "external_action")
    \cup (p.found \cap Domains) \cup (p.found \cap {"production", "security", "pii"})
    \cup If(Found(p, {"file", "shell", "github"}), "file_shell_github")
    \cup If(Sensitive(p), "sensitive_domain")
    \cup If(Ambiguous(p) /\ (Sensitive(p) \/ Actions(p) # {}), "ambiguous_high_impact")

\* round(total / (total + k) * 100), a half to the even number.
Saturate(total, k) ==
    LET d == total + k
        q == (100 * total) \div d
        r == 2 * ((100 * total) % d)
    IN IF total = 0 THEN 0 ELSE IF r > d \/ (r = d /\ q % 2 = 1) THEN q + 1 ELSE q

Sum(signals, weights) == FoldSet(LAMBDA s, total : total + weights[s], 0, signals)

Complexity(p, scoring) ==
    Min({100, 10 + Saturate(Sum(ComplexitySignals(p), scoring.complexity), scoring.k)})

\* Weights may be configured down to nothing: an action has a floor.
Risk(p, scoring) ==
    Max({Saturate(Sum(RiskSignals(p), scoring.risk), scoring.k)}
        \cup If(Found(p, {"destructive", "impact"}), 70) \cup If(Found(p, {"send", "purchase"}), 60))

RequiresConfirmation(p, scoring) == Risk(p, scoring) >= 70 \/ Actions(p) # {}

ClearSignal(p) ==
    \/ Found(p, {"simple", "coding", "research", "steps", "structured"}) \/ Actions(p) # {}
    \/ ToolsNeeded(p) \/ Vision(p) \/ Image(p) \/ Sensitive(p)

Confidence(p, scoring) ==
    LET w == scoring.confidence
        lost == (IF Ambiguous(p) THEN w.ambiguous ELSE 0)
                + (IF RequiresConfirmation(p, scoring) /\ p.chars < 80 THEN w.short_high_risk ELSE 0)
                + (IF ~ClearSignal(p) THEN w.weak_feature_match ELSE 0)
                + (IF p.chars = 0 THEN w.empty_prompt ELSE 0)
    IN IF lost > 90 THEN 0 ELSE 90 - lost
-----------------------------------------------------------------------------
(* Confirmation and target.  safety.allow: the actions its overrides       *)
(* allow without confirmation.                                             *)

\* _requires_human_confirmation
NeedsHuman(p, safety, scoring) ==
    /\ safety.required
    /\ Actions(p) \ safety.allow # {} \/ (RequiresConfirmation(p, scoring) /\ Actions(p) = {})

NeedsClarity(p, safety) ==
    safety.required /\ "ambiguous" \notin safety.allow /\ Ambiguous(p) /\ Sensitive(p)

SafeProfileConfirms(p, safety, scoring) ==
    /\ safety.required
    /\ Ambiguous(p) \/ Sensitive(p) \/ RequiresConfirmation(p, scoring) \/ Risk(p, scoring) >= 50

TargetRoute(p, attached, safety, scoring) ==
    IF NeedsHuman(p, safety, scoring) \/ NeedsClarity(p, safety) THEN "confirmation"
    ELSE IF Image(p) THEN "image_generation"
    ELSE IF attached \/ (Vision(p) /\ ~CodeExecution(p)) THEN "vision"
    ELSE IF Freshness(p) THEN "research"
    ELSE IF Found(p, {"coding"}) THEN "coding"
    ELSE IF Complexity(p, scoring) >= 60 \/ Found(p, {"steps"}) \/ LongContext(p) THEN "reasoning"
    ELSE IF Confidence(p, scoring) < 60 THEN "reasoning"
    ELSE IF Found(p, {"simple"}) /\ Complexity(p, scoring) < 35 /\ Risk(p, scoring) < 20 THEN "simple"
    ELSE "balanced"
-----------------------------------------------------------------------------
(* Ranking of the engines that could have served the prompt, and whether   *)
(* it is work to be delegated.                                             *)

\* In hundredths.
RankWeights(p, quick, scoring) ==
    IF quick THEN [capability |-> 20, trust |-> 20, cost |-> 10, latency |-> 50]
    ELSE IF Risk(p, scoring) >= 50 \/ Sensitive(p)
    THEN [capability |-> 25, trust |-> 50, cost |-> 15, latency |-> 10]
    ELSE IF Complexity(p, scoring) >= 60 \/ LongContext(p)
    THEN [capability |-> 55, trust |-> 25, cost |-> 15, latency |-> 5]
    ELSE [capability |-> 45, trust |-> 30, cost |-> 20, latency |-> 5]

Rank(e, w) ==
    LET x == e.capability * w.capability + e.trust * w.trust
             + (100 - e.cost) * w.cost + (100 - e.latency) * w.latency
        q == x \div 100
        r == 2 * (x % 100)
    IN IF r > 100 \/ (r = 100 /\ q % 2 = 1) THEN q + 1 ELSE q

\* The sort's key, but for the name.
SortKey(e, w) == <<Rank(e, w), e.capability, 100 - e.cost, 100 - e.latency>>
Above(k, l) == \E i \in DOMAIN k : k[i] > l[i] /\ \A j \in 1 .. i - 1 : k[j] = l[j]

\* _delegation_suitability, of a decision that is confirmed or not.
Risky(p, confirmed) == confirmed \/ Actions(p) # {}
Unclear(p, scoring) ==
    \/ Ambiguous(p) \/ Confidence(p, scoring) < 60
    \/ Sensitive(p) /\ Confidence(p, scoring) < 75
Judgment(p, scoring) ==
    \/ Found(p, {"judgment", "steps"}) \/ LongContext(p)
    \/ Complexity(p, scoring) >= 60 /\ ~Found(p, {"mechanical"})
Mechanical(p, confirmed, scoring) ==
    /\ ~Risky(p, confirmed)
    /\ \/ Found(p, {"mechanical"})
       \/ {"coding", "repo_wide"} \subseteq p.found /\ ~Judgment(p, scoring)
Verification(p) == Found(p, {"verification"}) \/ {"coding", "shell"} \subseteq p.found

Guidance(p, confirmed, scoring) ==
    IF Risky(p, confirmed) THEN "confirm first"
    ELSE IF Judgment(p, scoring) \/ Unclear(p, scoring) THEN "stronger route"
    ELSE IF Mechanical(p, confirmed, scoring) \/ Verification(p) THEN "sidekick" ELSE "no signal"
-----------------------------------------------------------------------------
(* Words.  "order" is a purchase for the scanners, and for the scorer      *)
(* unless a word next to it says that it is an arrangement ("in order").   *)

ActionWords == ActionPatterns \cup {"order"}
WordKinds == ActionWords \cup {"apply", "for", "message", "benign", "book", "article", "object", "arranged", "plain"}

Has(s, kind) == kind \in ToSet(s)
Follows(s, first, second) == \E i \in 1 .. Len(s) - 1 : s[i] = first /\ s[i + 1] \in second

\* The scorer's patterns on these words.
Matches(s) ==
    (ToSet(s) \cap ActionPatterns)
    \cup If(Follows(s, "message", WordKinds \ {"benign"}), "send")
    \cup If(\/ Follows(s, "book", {"object"})
            \/ \E i \in 1 .. Len(s) - 2 : SubSeq(s, i, i + 2) = <<"book", "article", "object">>
            \/ /\ Has(s, "order")
               /\ ~Follows(s, "order", {"arranged"}) /\ ~Follows(s, "arranged", {"order"}), "purchase")
    \cup If(Follows(s, "apply", {"for"}), "impact")

ActionOf(word) == IF word = "order" THEN "purchase" ELSE word

\* What the word before it makes of a word.
Completed(pending, word) ==
    If(pending = "apply" /\ word = "for", "impact")
    \cup If(pending = "message" /\ word # "benign", "send")
    \cup If(pending = "book" /\ word = "object", "purchase")

\* Faulty: the article between book and its object ends the wait for it.
Waits_NoArticle(state, word) == FALSE

Waits(state, word) == state.pending = "book" /\ word = "article"

\* One word of _fast_confirmation_action_mask.
Scanned(state, word) ==
    IF Waits(state, word) THEN state
    ELSE [found |-> state.found \cup Completed(state.pending, word)
                    \cup (IF word \in ActionWords THEN {ActionOf(word)} ELSE {}),
          pending |-> IF word \in {"apply", "message", "book"} THEN word ELSE None]

ActionMask(s) == FoldLeft(Scanned, [found |-> {}, pending |-> None], s).found

\* One word of _fast_has_confirmation_word, which returns at the first it finds.
Noticed(state, word) ==
    IF state.hit \/ Waits(state, word) THEN state
    ELSE [hit |-> Completed(state.pending, word) # {} \/ word \in ActionWords,
          pending |-> IF word \in {"apply", "message", "book"} THEN word ELSE None]

HasConfirmationWord(s) == FoldLeft(Noticed, [hit |-> FALSE, pending |-> None], s).hit

ConfirmationMask(safety) == IF safety.required THEN ActionPatterns \ safety.allow ELSE {}

\* The first test of _fast_target_route_index and of its variant with safety.
FastConfirms(s, safety) ==
    IF ConfirmationMask(safety) = ActionPatterns THEN HasConfirmationWord(s)
    ELSE ActionMask(s) \cap ConfirmationMask(safety) # {}
-----------------------------------------------------------------------------
(* Properties.                                                             *)

\* A prompt that matches more, of the same length, is neither simpler nor less risky, and
\* does not lose its confirmation: no pattern outweighs another.  (Simple and clear make a
\* prompt less ambiguous, on purpose.)
MoreIsNoLess(p, q) ==
    p.found \subseteq q.found /\ (q.found \ p.found) \cap {"simple", "clear"} = {}
        /\ p.chars = q.chars /\ p.words = q.words
    => /\ Complexity(q, DefaultScoring) >= Complexity(p, DefaultScoring)
       /\ Risk(q, DefaultScoring) >= Risk(p, DefaultScoring)
       /\ LET safety == [required |-> TRUE, allow |-> {}] IN
          TargetRoute(p, FALSE, safety, DefaultScoring) = "confirmation"
              => TargetRoute(q, FALSE, safety, DefaultScoring) = "confirmation"

\* An action is confirmed whatever the weights, unless the overrides allow it and every
\* other action of the prompt; and the safe profile confirms whatever another one does.
ActionsConfirmed(p, safety, scoring) ==
    /\ safety.required /\ Actions(p) \ safety.allow # {}
        => TargetRoute(p, TRUE, safety, scoring) = "confirmation"
    /\ TargetRoute(p, FALSE, safety, scoring) = "confirmation" => SafeProfileConfirms(p, safety, scoring)
    /\ Actions(p) # {} => Risk(p, scoring) >= 60 /\ ClearSignal(p)

\* What may be given to a sidekick is work that, under any safety settings and any profile,
\* nothing wants confirmed, and that is not sent upward for being unclear.
DelegationIsSafe(p, safety, scoring) ==
    LET target == TargetRoute(p, FALSE, safety, scoring)
        confirmed == target = "confirmation"
    IN Guidance(p, confirmed, scoring) = "sidekick"
        => /\ Actions(p) = {} /\ ~confirmed
           /\ target = "reasoning" => Found(p, {"mechanical"}) /\ Complexity(p, scoring) >= 60

\* An engine that is no worse in anything is ranked no lower whatever the weights, and above
\* when it is more capable, cheaper or faster; a rank needs no clamping.
RankingDominates(p, quick, d, e) ==
    LET w == RankWeights(p, quick, DefaultScoring) IN
    /\ Rank(e, w) \in 0 .. 100
    /\ d.capability >= e.capability /\ d.trust >= e.trust /\ d.cost <= e.cost /\ d.latency <= e.latency
       => /\ ~Above(SortKey(e, w), SortKey(d, w))
          /\ d.capability # e.capability \/ d.cost # e.cost \/ d.latency # e.latency
             => Above(SortKey(d, w), SortKey(e, w))

\* policy.py:600: the fast path sends lexical high-risk actions to human_confirm, matching
\* route: both scanners agree, and find every action the scorer's patterns find, under any
\* overrides; what they find beyond these is a purchase ("in order", "book a the table").
ScannersAgree(s, safety) ==
    /\ HasConfirmationWord(s) <=> ActionMask(s) # {}
    /\ Matches(s) \subseteq ActionMask(s) /\ ActionMask(s) \subseteq Matches(s) \cup {"purchase"}
    /\ safety.required /\ Matches(s) \ safety.allow # {} => FastConfirms(s, safety)
=============================================================================
