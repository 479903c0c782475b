-------------------------- MODULE MCRoutingPolicy --------------------------
(***************************************************************************)
(* RoutingPolicy on small catalogs: three engines and human_confirm, with  *)
(* fallback chains that end, that are cyclic, or that pass human_confirm,  *)
(* under each kind of provider policy.                                     *)
(***************************************************************************)
EXTENDS RouteExplanation

CONSTANTS small, coder, cloud, unknown, Hosted

NoPrompt == [action |-> FALSE, vague |-> FALSE, sensitive |-> FALSE, kind |-> "balanced"]
Seen(scored, scanned) == [scored |-> scored, scanned |-> scanned]
NoHints  == [force |-> NoEngine, profile |-> "balanced", quick |-> FALSE, cost |-> NoMaximum,
             latency |-> NoMaximum, attachments |-> {}, allow |-> {}, deny |-> {},
             local |-> FALSE]

Engine(provider, tools, modalities, cost, latency, fallback) ==
    [enabled |-> TRUE, provider |-> provider, tools |-> tools, modalities |-> modalities,
     cost |-> cost, latency |-> latency, fallback |-> fallback]

Open == [allow |-> {}, deny |-> {}, local |-> FALSE, hosted |-> TRUE,
         cost |-> NoMaximum, latency |-> NoMaximum]

\* small -> coder -> cloud -> human_confirm
Chain == [e \in {small, coder, cloud, Human} |->
            CASE e = small -> Engine(Local, FALSE, {}, 0, 1, coder)
              [] e = coder -> Engine(Local, TRUE, {"image"}, 0, 3, cloud)
              [] e = cloud -> Engine(Hosted, TRUE, {"image"}, 3, 2, Human)
              [] OTHER     -> Engine(Person, TRUE, {}, 0, 4, NoEngine)]

Targeted(confirmation) ==
    [t \in Targets |-> IF t = "confirmation" THEN confirmation
                       ELSE IF t = "balanced" THEN small
                       ELSE IF t = "vision" THEN coder ELSE cloud]

Plain == [engines |-> Chain, targets |-> Targeted(Human), policy |-> Open, pools |-> <<>>,
          confirm |-> TRUE]
Pool(t, policy) == [x \in {t} |-> policy]

BadFallback == [Plain EXCEPT !.engines[small].fallback = unknown]   \* refused

ChainCatalogs == {
    Plain, BadFallback,
    [Plain EXCEPT !.confirm = FALSE],
    [Plain EXCEPT !.targets = Targeted(small)],
    \* cycles: coder and cloud fall back to each other, or small to itself
    [Plain EXCEPT !.engines[cloud].fallback = coder],
    [Plain EXCEPT !.engines[small].fallback = small, !.engines[coder].enabled = FALSE],
    [Plain EXCEPT !.engines[cloud].fallback = small, !.engines[Human].enabled = FALSE],
    \* human_confirm is itself in the middle of a chain
    [Plain EXCEPT !.engines[Human].fallback = small, !.engines[cloud].latency = 999]}

PolicyCatalogs == {
    [Plain EXCEPT !.policy.allow = {Hosted}],
    [Plain EXCEPT !.policy.deny = {Hosted, Person}],
    [Plain EXCEPT !.policy.local = TRUE],
    [Plain EXCEPT !.policy.cost = 1, !.policy.latency = 2],
    [Plain EXCEPT !.policy.allow = {Local}, !.pools = Pool("coding", [Open EXCEPT !.hosted = FALSE])],
    [Plain EXCEPT !.policy.cost = 1, !.pools = Pool("coding", [Open EXCEPT !.cost = 3])],
    [Plain EXCEPT !.pools = Pool("vision", [Open EXCEPT !.deny = {Local}, !.latency = 2])]}

AllCatalogs == ChainCatalogs \cup PolicyCatalogs

Sights == [action : {FALSE}, vague : BOOLEAN, sensitive : BOOLEAN,
           kind : {"balanced", "coding"}]
          \cup {[NoPrompt EXCEPT !.action = TRUE, !.sensitive = s] : s \in BOOLEAN}
          \cup {[NoPrompt EXCEPT !.kind = "image_generation"]}

\* Seen alike, or an action, something sensitive or the kind by one of them only.
AllPrompts ==
    {Seen(s, s) : s \in Sights}
    \cup {Seen([NoPrompt EXCEPT !.action = TRUE], NoPrompt),
          Seen(NoPrompt, [NoPrompt EXCEPT !.action = TRUE]),
          Seen([NoPrompt EXCEPT !.sensitive = TRUE], [NoPrompt EXCEPT !.kind = "coding"]),
          Seen([NoPrompt EXCEPT !.kind = "coding"], [NoPrompt EXCEPT !.sensitive = TRUE])}

AllHints == {[NoHints EXCEPT !.force = f, !.profile = p, !.attachments = a] :
                f \in {NoEngine, cloud, Human},
                p \in {"balanced", "fast", "private", "safe"},
                a \in {{}, {"image", "code"}}}
            \cup {[NoHints EXCEPT !.force = f, !.profile = p, !.allow = a, !.local = l, !.cost = c] :
                f \in {NoEngine, small}, p \in {"fast", "private"},
                a \in {{}, {Local}, {Hosted}}, l \in BOOLEAN, c \in {NoMaximum, 3}}
            \cup {[NoHints EXCEPT !.deny = {Local}], [NoHints EXCEPT !.force = unknown]}
=============================================================================
