--------------------------- MODULE RoutingPolicy ---------------------------
(***************************************************************************)
(* How the router picks an engine (policy.py): route, whose decision is    *)
(* explained, and route_fast, which the proxy uses to choose.  Each finds  *)
(* a start from the prompt and the hints, derives what the engine must     *)
(* meet, and walks along the engines' fallbacks to the first that does;    *)
(* human_confirm is the answer when there is none.  A step of a walk is    *)
(* one round of the loop in _resolve_enabled_engine or                     *)
(* _resolve_engine_fast.  Both are asked about the same prompt, route      *)
(* first: they share nothing that changes, so the order does not matter.   *)
(*                                                                         *)
(* route reads the prompt's scores and route_fast scans its words.  What   *)
(* each makes of it is chosen by the environment:                          *)
(*   action      an action that safety wants confirmed                     *)
(*   vague       risky as a whole, or ambiguous and high impact (scored)   *)
(*   sensitive   the safe profile wants it confirmed                       *)
(*   kind        the target it has without actions and attachments         *)
(* Hints that do not validate go to human_confirm in both, and             *)
(* route_fast without hints answers from a table that                      *)
(* _resolve_enabled_route filled: neither is modelled.                     *)
(***************************************************************************)
EXTENDS Naturals, Sequences, FiniteSets

CONSTANTS
    Human,              \* FAIL_CLOSED_ENGINE, the engine human_confirm
    NoEngine,           \* an optional engine name that is missing
    Local, Person,      \* the providers "local" and "human"
    Catalogs,           \* the files the router may be configured with
    Prompts, Hints      \* what it may be asked

ASSUME CatalogsAssumption ==
    \A c \in Catalogs : IsFiniteSet(DOMAIN c.engines) /\ NoEngine \notin DOMAIN c.engines

\* Tiers are numbers.
ASSUME TiersAssumption ==
    /\ \A c \in Catalogs :
        /\ \A e \in DOMAIN c.engines : c.engines[e].cost \in Nat /\ c.engines[e].latency \in Nat
        /\ c.policy.cost \in Nat /\ c.policy.latency \in Nat
        /\ \A t \in DOMAIN c.pools : c.pools[t].cost \in Nat /\ c.pools[t].latency \in Nat
    /\ \A h \in Hints : h.cost \in Nat /\ h.latency \in Nat

VARIABLES
    catalog,    \* the RouterConfig
    available,  \* the engines found available when the router was made
    prompt,     \* what the scorer and the scanner make of it
    hints,
    pc,         \* in the loop of "route", "explained", in the loop of "fast", "done"
    current,    \* the engine either loop looks at
    visited,    \* the engines route has looked at, in order
    selected,   \* selected_engine of route's decision
    rounds,     \* the rounds of route_fast's loop that are over
    fast        \* what route_fast returned

vars == <<catalog, available, prompt, hints, pc, current, visited, selected, rounds, fast>>

(***************************************************************************)
(* A tier is its rank in COST_TIER_ORDER or LATENCY_TIER_ORDER (medium and *)
(* paid are one rank), 999 when it is not there; no maximum is above all.  *)
(***************************************************************************)
NoMaximum == 1000
LocalProviders == {Local, Person}
Targets == {"simple", "balanced", "reasoning", "coding", "research", "vision",
            "image_generation", "confirmation"}
ToolTargets == {"coding", "research", "vision", "image_generation"}

\* Only an action makes confirmation the target of a prompt.
ASSUME PromptsAssumption ==
    \A p \in Prompts : {p.scored.kind, p.scanned.kind} \subseteq Targets \ {"confirmation"}

\* load_router_config's cross-references.
LoadRouterConfig(c) ==
    /\ Human \in DOMAIN c.engines
    /\ \A e \in DOMAIN c.engines : c.engines[e].fallback \in DOMAIN c.engines \cup {NoEngine}
    /\ DOMAIN c.targets = Targets
    /\ \A t \in Targets : c.targets[t] \in DOMAIN c.engines
-----------------------------------------------------------------------------
(* What an engine must meet.                                               *)

\* Python's `or` for a tier and for a tuple: the first that is given.
TierOr(a, b) == IF a # NoMaximum THEN a ELSE b
ListOr(a, b) == IF a # {} THEN a ELSE b

\* _apply_profile_constraints with profile_constraints.
ApplyProfile(h) ==
    [force |-> h.force, profile |-> h.profile,
     quick |-> h.quick \/ h.profile = "fast",
     cost |-> IF h.profile = "fast" THEN TierOr(h.cost, 1) ELSE h.cost,
     latency |-> IF h.profile = "fast" THEN TierOr(h.latency, 2) ELSE h.latency,
     attachments |-> h.attachments,
     allow |-> IF h.profile = "private" THEN ListOr(h.allow, LocalProviders) ELSE h.allow,
     deny |-> h.deny, local |-> h.local]

RequiredModalities(h) == h.attachments \ {"code"}

IntersectOrRouteAllowlist(base, route) ==
    IF base # {} /\ route # {} THEN base \cap route ELSE ListOr(route, base)

EffectivePolicy(c, t) ==
    LET base == c.policy IN
    IF t \notin DOMAIN c.pools THEN base
    ELSE LET pool == c.pools[t] IN
         [allow |-> IntersectOrRouteAllowlist(base.allow, pool.allow),
          deny |-> base.deny \cup pool.deny,
          local |-> base.local \/ pool.local,
          hosted |-> base.hosted /\ pool.hosted,
          cost |-> TierOr(pool.cost, base.cost),
          latency |-> TierOr(pool.latency, base.latency)]

\* Faulty: a hint comes before the policy.
StricterTier_HintFirst(hint, policy) == TierOr(hint, policy)

StricterTier(hint, policy) == IF hint <= policy THEN hint ELSE policy

CombinedAllowlist(policy, hint, local) ==
    LET both == IntersectOrRouteAllowlist(policy, hint)
        here == IF ~local THEN both
                ELSE ListOr(IntersectOrRouteAllowlist(both, LocalProviders), LocalProviders)
    IN IF here = {} THEN {} ELSE here \cup {Person}

\* _derive_requirements of hints to which the profile has been applied.
Requirements(c, h, t) ==
    LET p == EffectivePolicy(c, t) IN
    [tools |-> t \in ToolTargets \/ RequiredModalities(h) # {},
     modalities |-> RequiredModalities(h),
     cost |-> StricterTier(h.cost, p.cost),
     latency |-> StricterTier(TierOr(h.latency, IF h.quick THEN 2 ELSE NoMaximum), p.latency),
     allow |-> CombinedAllowlist(p.allow, h.allow, p.local \/ ~p.hosted \/ h.local),
     deny |-> (p.deny \cup h.deny) \ {Person}]

TierExceeds(value, maximum) == value > maximum

\* _engine_constraint_reason finds none.
NoConstraintReason(engine, need) ==
    /\ engine.provider \notin need.deny
    /\ need.allow = {} \/ engine.provider \in need.allow
    /\ need.tools => engine.tools
    /\ need.modalities \subseteq engine.modalities
    /\ ~TierExceeds(engine.cost, need.cost) /\ ~TierExceeds(engine.latency, need.latency)

Usable(e, need) ==
    /\ catalog.engines[e].enabled /\ e \in available
    /\ NoConstraintReason(catalog.engines[e], need)

\* Faulty: the precompiled tuple has no availability.
FastAccepts_Stale(e, need) ==
    catalog.engines[e].enabled /\ NoConstraintReason(catalog.engines[e], need)

\* The condition in _resolve_engine_fast, on the engine's precompiled tuple.
FastAccepts(e, need) ==
    LET engine == catalog.engines[e] IN
    /\ engine.enabled /\ e \in available
    /\ ~(need.tools /\ ~engine.tools)
    /\ ~ \E m \in need.modalities : m \notin engine.modalities
    /\ ~(need.allow # {} /\ engine.provider \notin need.allow)
    /\ engine.provider \notin need.deny
    /\ ~TierExceeds(engine.cost, need.cost) /\ ~TierExceeds(engine.latency, need.latency)
-----------------------------------------------------------------------------
(* Where the walks start.                                                  *)

Coerced == ApplyProfile(hints)
PromptConfirms == catalog.confirm /\ (prompt.scored.action \/ prompt.scored.vague)
SafeConfirms   == catalog.confirm /\ hints.profile = "safe" /\ prompt.scored.sensitive
ActionConfirms == catalog.confirm /\ prompt.scanned.action
\* For route_fast whether confirmation is required or not.
SafeScan       == hints.profile = "safe" /\ prompt.scanned.sensitive

\* _target_route
Classified ==
    IF PromptConfirms THEN "confirmation"
    ELSE IF prompt.scored.kind # "image_generation" /\ RequiredModalities(hints) # {} THEN "vision"
    ELSE prompt.scored.kind

\* Faulty: a forced engine is not subject to confirmation.
Forced_Always == hints.force # NoEngine

\* force_engine is ignored for a request that needs confirmation.
Forced ==
    hints.force # NoEngine /\ ~((PromptConfirms \/ SafeConfirms) /\ hints.force # Human)

RouteTarget ==
    IF ~Forced /\ (hints.force # NoEngine \/ SafeConfirms) THEN "confirmation" ELSE Classified
RouteStart == IF Forced THEN hints.force ELSE catalog.targets[RouteTarget]
RouteNeeds == Requirements(catalog, Coerced, RouteTarget)

FastScanned == IF ActionConfirms THEN "confirmation" ELSE prompt.scanned.kind
FastTarget ==
    IF FastScanned # "confirmation" /\ RequiredModalities(hints) # {} THEN "vision" ELSE FastScanned

\* Faulty: a forced engine is taken for any target.
FastFailsClosed_NotForced == SafeScan /\ FastScanned # "confirmation"

\* route_fast returns human_confirm before any walk.
FastFailsClosed ==
    \/ SafeScan /\ FastScanned # "confirmation"
    \/ FastTarget = "confirmation" /\ hints.force \notin {NoEngine, Human}
FastStart == IF hints.force # NoEngine THEN hints.force ELSE catalog.targets[FastTarget]
FastNeeds == Requirements(catalog, Coerced, FastTarget)
-----------------------------------------------------------------------------
Fallback(e) == catalog.engines[e].fallback
Visited == {visited[i] : i \in DOMAIN visited}

\* Faulty: an engine seen before is looked at again.
Look_Again(e) == pc = "route" /\ current = e /\ e \in DOMAIN catalog.engines

\* _resolve_enabled_engine looks at an engine it has not seen before.
Look(e) == pc = "route" /\ current = e /\ e \notin Visited /\ e \in DOMAIN catalog.engines

\* It is disabled, unavailable or rejected, and has a fallback.
PassOver(e) ==
    /\ Look(e) /\ ~Usable(e, RouteNeeds) /\ Fallback(e) # NoEngine
    /\ visited' = Append(visited, e)
    /\ current' = Fallback(e)
    /\ UNCHANGED <<catalog, available, prompt, hints, pc, selected, rounds, fast>>

Explain(answer) ==
    /\ pc' = "explained" /\ selected' = answer
    /\ UNCHANGED <<catalog, available, prompt, hints, current, rounds, fast>>

Select(e) == Look(e) /\ Usable(e, RouteNeeds) /\ Explain(e) /\ visited' = Append(visited, e)

LastRejected(e) ==
    /\ Look(e) /\ ~Usable(e, RouteNeeds) /\ Fallback(e) = NoEngine
    /\ Explain(Human)
    /\ visited' = Append(visited, e)

\* Only a forced engine can be undefined.
Undefined ==
    /\ pc = "route" /\ current \notin DOMAIN catalog.engines
    /\ Explain(Human)
    /\ visited' = Append(visited, current)

CycleDetected ==
    /\ pc = "route" /\ current \in Visited
    /\ Explain(Human)
    /\ UNCHANGED visited

AskFast ==
    /\ pc = "explained"
    /\ IF FastFailsClosed
       THEN pc' = "done" /\ fast' = Human /\ UNCHANGED current
       ELSE pc' = "fast" /\ current' = FastStart /\ UNCHANGED fast
    /\ UNCHANGED <<catalog, available, prompt, hints, visited, selected, rounds>>

\* Faulty: one round less than there are engines.
RoundsLeft_Short == rounds + 1 < Cardinality(DOMAIN catalog.engines)

\* range(self._fast_engine_count + 1)
RoundsLeft == rounds < Cardinality(DOMAIN catalog.engines) + 1

FastLook(e) == pc = "fast" /\ RoundsLeft /\ current = e /\ e \in DOMAIN catalog.engines

FastPassOver(e) ==
    /\ FastLook(e) /\ ~FastAccepts(e, FastNeeds) /\ Fallback(e) # NoEngine
    /\ current' = Fallback(e) /\ rounds' = rounds + 1
    /\ UNCHANGED <<catalog, available, prompt, hints, pc, visited, selected, fast>>

Return(answer) ==
    /\ pc' = "done" /\ fast' = answer
    /\ UNCHANGED <<catalog, available, prompt, hints, current, visited, selected, rounds>>

FastSelect(e) == FastLook(e) /\ FastAccepts(e, FastNeeds) /\ Return(e)

\* data is None, fallback is None, or the rounds are over.
FastGivesUp ==
    /\ pc = "fast"
    /\ \/ ~RoundsLeft
       \/ current \notin DOMAIN catalog.engines
       \/ /\ current \in DOMAIN catalog.engines
          /\ ~FastAccepts(current, FastNeeds) /\ Fallback(current) = NoEngine
    /\ Return(Human)
-----------------------------------------------------------------------------
Init ==
    /\ catalog \in {c \in Catalogs : LoadRouterConfig(c)}
    /\ available \in SUBSET {e \in DOMAIN catalog.engines : catalog.engines[e].enabled}
    /\ prompt \in Prompts /\ hints \in Hints
    /\ pc = "route" /\ current = RouteStart
    /\ visited = <<>> /\ selected = NoEngine
    /\ rounds = 0 /\ fast = NoEngine

RouteStep ==
    \/ \E e \in DOMAIN catalog.engines : PassOver(e) \/ Select(e) \/ LastRejected(e)
    \/ Undefined \/ CycleDetected
FastStep ==
    \/ AskFast
    \/ \E e \in DOMAIN catalog.engines : FastPassOver(e) \/ FastSelect(e)
    \/ FastGivesUp

\* Both have returned.
Returned == pc = "done" /\ UNCHANGED vars

Next == RouteStep \/ FastStep \/ Returned

Spec == Init /\ [][Next]_vars
-----------------------------------------------------------------------------
\* The engines the catalog names, the one a request may force, and none.
Engines == DOMAIN catalog.engines \cup {hints.force, NoEngine}

\* Both loops are bounded, whatever the fallbacks: route looks at no more engines
\* than there are, and route_fast at one more.  As every state before the return
\* has a step, which one of the two counts, every call returns.
TypeOK ==
    /\ catalog \in Catalogs /\ LoadRouterConfig(catalog)
    /\ available \subseteq DOMAIN catalog.engines
    /\ pc \in {"route", "explained", "fast", "done"}
    /\ current \in Engines /\ selected \in Engines /\ fast \in Engines
    /\ visited \in Seq(Engines) /\ Len(visited) <= Cardinality(DOMAIN catalog.engines)
    /\ rounds \in 0 .. Cardinality(DOMAIN catalog.engines) + 1

\* The two walks stop at the same engine.  One ends at a fallback it has seen
\* and the other after a number of rounds, one looks for reasons and the other at
\* a precompiled tuple: from one start, with one set of needs, they agree
\* whatever the fallbacks, cycles included.
WalksAgree ==
    pc = "done" /\ ~FastFailsClosed /\ FastStart = RouteStart /\ FastNeeds = RouteNeeds
        => fast = selected

\* What the configured policy and the pool of target t say of e's provider and
\* tiers; the pool's maximum tiers stand for the policy's where it has them.
PolicyPermits(e, t) ==
    LET p == EffectivePolicy(catalog, t)
        engine == catalog.engines[e]
    IN /\ engine.provider \notin p.deny \ {Person}
       /\ p.local \/ ~p.hosted => engine.provider \in LocalProviders
       /\ engine.cost <= p.cost /\ engine.latency <= p.latency

\* README.md:503: hints cannot loosen denylists, local-only mode or maximum
\* tiers, nor do profiles, forced engines and fallbacks: an engine that is
\* chosen is one the configured policy permits, or the fail-closed one.
PolicyKept ==
    /\ selected \notin {NoEngine, Human} => PolicyPermits(selected, RouteTarget)
    /\ fast \notin {NoEngine, Human} => PolicyPermits(fast, FastTarget)

\* The confirmation target leads to human_confirm and nowhere else.
ConfirmationIsHuman ==
    catalog.targets["confirmation"] = Human /\ catalog.engines[Human].fallback = NoEngine

\* README.md:1521: force_engine cannot bypass human confirmation.  Neither can a
\* profile, an attachment, a policy that excludes human_confirm's own provider
\* or tiers, or its being disabled or unavailable.
ConfirmationWins ==
    ConfirmationIsHuman =>
        /\ selected # NoEngine /\ (PromptConfirms \/ SafeConfirms) => selected = Human
        /\ fast # NoEngine /\ (ActionConfirms \/ SafeScan) => fast = Human

\* tests/test_model_router_parity.py:98: on a prompt in which both find a high-risk
\* action route_fast is never weaker than route, however confirmation is routed.
FastNeverWeaker ==
    pc = "done" /\ ActionConfirms /\ prompt.scored.action /\ selected = Human => fast = Human

\* What the scorer and the scanner make of the prompt is the same.
Alike ==
    /\ ~prompt.scored.vague
    /\ prompt.scored.action = prompt.scanned.action
    /\ prompt.scored.sensitive = prompt.scanned.sensitive
    /\ prompt.scored.kind = prompt.scanned.kind

\* On such a prompt the engine the proxy uses is the one its log explains, but for
\* an image to be made from an attachment, which route_fast takes for vision.
FastIsExplained ==
    /\ pc = "done" /\ ConfirmationIsHuman
    /\ Alike /\ (prompt.scanned.sensitive => catalog.confirm)
    /\ prompt.scanned.kind = "image_generation" => RequiredModalities(hints) = {}
    => fast = selected

\* README.md:503: hints cannot loosen configured allowlists.
AllowlistKept ==
    selected \notin {NoEngine, Human} /\ catalog.policy.allow # {}
        => catalog.engines[selected].provider \in catalog.policy.allow \cup {Person}
=============================================================================
