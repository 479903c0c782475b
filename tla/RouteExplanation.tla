-------------------------- MODULE RouteExplanation --------------------------
(***************************************************************************)
(* What route tells of its decision, once its walk is over: the fallback,  *)
(* the rejections, the alternatives (policy.py), the receipt's codes and   *)
(* explanations (receipts.py), and the plan of a dispatch (dispatch.py).   *)
(*                                                                         *)
(* A reason is a word for the sentence it stands for; codes are found by   *)
(* looking for words in the sentences, which ReasonCodes and RejectionCode *)
(* say for each sentence.  Sentences that quote names of engines and       *)
(* providers are taken to say nothing by these names.  The codes of        *)
(* features (route, requirement, delegation) are in PromptScoring's terms  *)
(* and left out here.                                                      *)
(***************************************************************************)
EXTENDS RoutingPolicy

LastVisited == visited[Len(visited)]

\* The walk ended at an engine that meets the needs, and not in a dead end.
Resolved ==
    /\ LastVisited = selected
    /\ selected \in DOMAIN catalog.engines /\ Usable(selected, RouteNeeds)

FallbackUsed == ~(Resolved /\ Len(visited) = 1)
FallbackEngine == IF FallbackUsed THEN selected ELSE Fallback(selected)

\* _engine_constraint_reason, of an engine that some constraint excludes.
ConstraintReason(engine, need) ==
    IF engine.provider \in need.deny THEN "provider denied"
    ELSE IF need.allow # {} /\ engine.provider \notin need.allow
    THEN IF hints.profile = "private" THEN "provider excluded by profile" ELSE "provider not allowed"
    ELSE IF need.tools /\ ~engine.tools THEN "tools required"
    ELSE IF ~(need.modalities \subseteq engine.modalities) THEN "modality missing"
    ELSE IF TierExceeds(engine.cost, need.cost) THEN "cost_tier" ELSE "latency_tier"

WhyRejected(e, need) ==
    IF e \notin DOMAIN catalog.engines THEN "undefined"
    ELSE IF ~catalog.engines[e].enabled THEN "disabled"
    ELSE IF e \notin available THEN "unavailable"
    ELSE ConstraintReason(catalog.engines[e], need)

PassedOver == IF Resolved THEN Visited \ {selected} ELSE Visited
CycleFound == ~Resolved /\ LastVisited \in DOMAIN catalog.engines /\ Fallback(LastVisited) \in Visited

WalkRejections ==
    LET need == RouteNeeds IN
    {<<e, WhyRejected(e, need)>> : e \in PassedOver}
    \cup (IF CycleFound THEN {<<Fallback(LastVisited), "cycle">>} ELSE {})

\* _rank_alternatives looks at every other engine that is enabled.
Others == {e \in DOMAIN catalog.engines \ {selected, Human} : catalog.engines[e].enabled}

Alternatives ==
    LET need == RouteNeeds IN
    IF selected = Human THEN {} ELSE {e \in Others : Usable(e, need)}

Rejections ==
    LET need == RouteNeeds IN
    WalkRejections \cup {<<e, WhyRejected(e, need)>> : e \in {x \in Others : ~Usable(x, need)}}
-----------------------------------------------------------------------------
(* The receipt.                                                            *)

DecisionConfirms == PromptConfirms \/ SafeConfirms \/ selected = Human

LocalOnlyPolicy(p) == p.local \/ ~p.hosted

PolicyReasons ==
    LET p == EffectivePolicy(catalog, RouteTarget) IN
    (IF RouteTarget \in DOMAIN catalog.pools THEN {"route pool"} ELSE {})
    \cup (IF LocalOnlyPolicy(p) THEN {"policy local-only"} ELSE {})
    \cup (IF p.allow # {} THEN {"policy allowlist"} ELSE {})
    \cup (IF p.deny # {} THEN {"policy denylist"} ELSE {})
    \cup (IF p.cost # NoMaximum THEN {"policy cost"} ELSE {})
    \cup (IF p.latency # NoMaximum THEN {"policy latency"} ELSE {})

TargetReason ==
    IF Forced THEN "forced engine"
    ELSE IF hints.force # NoEngine THEN "force_engine ignored"
    ELSE IF SafeConfirms THEN "profile safe requires confirmation"
    ELSE IF PromptConfirms /\ prompt.scored.action THEN "requires human confirmation"
    ELSE IF PromptConfirms THEN "ambiguous high-impact request"
    ELSE RouteTarget

Reasons == {<<"profile", hints.profile>>} \cup PolicyReasons \cup {TargetReason}

ReasonCodes ==
    (IF TargetReason = "forced engine" THEN {"force_engine.requested"} ELSE {})
    \cup (IF TargetReason = "force_engine ignored" THEN {"force_engine.ignored"} ELSE {})
    \cup (IF TargetReason \in {"profile safe requires confirmation", "requires human confirmation"}
          THEN {"safety.confirmation_required"} ELSE {})
    \cup (IF hints.profile = "private" THEN {"policy.local_only"} ELSE {})
    \cup (IF hints.profile = "safe" THEN {"profile.safe_confirmation"} ELSE {})

\* Exclusion by the private profile has no code.
RejectionCodes == {r[2] : r \in Rejections} \ {"provider excluded by profile"}

PolicyCodes ==
    LET need == RouteNeeds IN
    (IF need.allow # {} THEN {"policy.provider_allowlist"} ELSE {})
    \cup (IF need.allow # {} /\ need.allow \subseteq LocalProviders THEN {"policy.local_only"} ELSE {})
    \cup (IF need.deny # {} THEN {"policy.provider_denylist"} ELSE {})
    \cup (IF need.cost # NoMaximum THEN {"policy.max_cost_tier"} ELSE {})
    \cup (IF need.latency # NoMaximum THEN {"policy.max_latency_tier"} ELSE {})
    \cup {"policy.profile"}
    \cup (IF PolicyReasons # {} THEN {"policy.provider"} ELSE {})

ReceiptCodes ==
    (IF Resolved THEN {} ELSE {"availability.issue"})
    \cup PolicyCodes \cup ReasonCodes \cup RejectionCodes
    \cup (IF FallbackUsed THEN {"fallback.used"}
          ELSE IF FallbackEngine # NoEngine THEN {"fallback.configured"} ELSE {})
    \cup {IF DecisionConfirms THEN "safety.confirmation_required" ELSE "safety.no_confirmation_required"}

FallbackExplanation ==
    IF FallbackUsed THEN <<"selected", FallbackEngine>>
    ELSE IF FallbackEngine # NoEngine THEN <<"remains", FallbackEngine>> ELSE <<"none">>

PrivacyExplanation ==
    IF RouteNeeds.allow # {} /\ RouteNeeds.allow \subseteq LocalProviders THEN "local-only, hosted excluded"
    ELSE IF RouteNeeds.deny # {} THEN "denylist active"
    ELSE IF hints.profile = "private" THEN "private, hosted excluded"
    ELSE "configured policy"

\* Faulty: only a request that needs confirmation is blocked.
CanDispatch_Confirmed == ~(PromptConfirms \/ SafeConfirms)

\* build_dispatch_plan
CanDispatch == ~(DecisionConfirms \/ selected = Human \/ ~Resolved)
-----------------------------------------------------------------------------
(* Properties, of a decision that is made.                                 *)

\* The receipt's codes do not contradict each other nor the decision: confirmation is
\* either required or not; the fallback is used exactly when the first engine was
\* rejected; a receipt that says hosted providers are excluded is not one that selected
\* a hosted provider, unless under the private profile the hint allowed it or a configured
\* allowlist without local providers lifted the profile's, which the code lets pass.
ReceiptAgrees == \A codes \in {ReceiptCodes}, told \in {FallbackExplanation} :
    /\ "safety.confirmation_required" \in codes <=> DecisionConfirms
    /\ "safety.no_confirmation_required" \in codes => "safety.confirmation_required" \notin codes
    /\ "fallback.used" \in codes <=> RouteStart \in {r[1] : r \in WalkRejections}
    /\ told[1] = "selected" => told[2] = selected
    /\ selected # Human /\ catalog.engines[selected].provider \notin LocalProviders
       => \/ hints.profile = "private" /\ (~(hints.allow \subseteq LocalProviders) \/ RouteNeeds.allow = {})
          \/ /\ "policy.local_only" \notin codes
             /\ PrivacyExplanation \notin {"local-only, hosted excluded", "private, hosted excluded"}

\* Every enabled engine that is not selected is offered as an alternative or rejected with a
\* reason, never both, though the walk and the ranking decide it apart; and the selected
\* one is not among the rejected.
AlternativesUsable ==
    LET offered == Alternatives
        rejected == {r[1] : r \in Rejections}
    IN /\ offered \cap rejected = {}
       /\ selected # Human => Others \subseteq offered \cup rejected /\ selected \notin rejected

\* A plan that may be dispatched is for an engine that is enabled, available and within the
\* policy, and for a request that nothing wants confirmed; any other is blocked for cause.
DispatchIsSafe ==
    CanDispatch <=> /\ selected # Human /\ Usable(selected, RouteNeeds) /\ PolicyPermits(selected, RouteTarget)
                    /\ ~PromptConfirms /\ ~SafeConfirms

DecisionExplained ==
    pc = "explained" => ReceiptAgrees /\ AlternativesUsable /\ DispatchIsSafe
=============================================================================
