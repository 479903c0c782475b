--------------------------- MODULE MCProxyRequest ---------------------------
(***************************************************************************)
(* ProxyRequest on small instances: the files below are the configurations *)
(* a proxy may be started with, some of which it refuses to load.          *)
(***************************************************************************)
EXTENDS ProxyRequest, TLC

CONSTANTS alpha, beta, delta, fast, deep, odd

\* fast's backend alpha falls back to delta, which the policy denies, and to beta.
Plain == [backends |-> {alpha, beta, delta}, managed |-> {alpha}, mlx |-> {},
          mode |-> "decision", gate |-> "decision_only",
          default |-> NoBackend, model |-> "none", clientModel |-> FALSE,
          unknown |-> "fallback_to_default",
          engines |-> [e \in {fast, deep} |-> IF e = fast THEN alpha ELSE delta],
          fallback |-> [x \in {alpha} |-> <<delta, beta>>], allow |-> {}, deny |-> {delta},
          verifier |-> "off", checker |-> NoBackend, closed |-> FALSE, routes |-> FALSE,
          observed |-> TRUE]

Verified == [Plain EXCEPT !.verifier = "always-for-risky-output", !.checker = beta,
                          !.closed = TRUE, !.managed = {beta}]

Manually == [Plain EXCEPT !.mode = "manual", !.default = alpha, !.model = "other"]

PlainFiles == {
    Plain,
    [Plain EXCEPT !.allow = {alpha, delta}, !.observed = FALSE],
    [Plain EXCEPT !.mlx = {beta}, !.managed = {alpha, beta}],
    [Plain EXCEPT !.deny = {}, !.fallback = [x \in {alpha, beta} |-> IF x = alpha THEN <<beta, delta>> ELSE <<delta>>]],
    [Plain EXCEPT !.fallback = [x \in {alpha} |-> <<beta, beta>>]],
    \* refused: an undefined backend, a cycle, and an unknown fallback
    [Plain EXCEPT !.backends = {alpha, beta}],
    [Plain EXCEPT !.fallback = [x \in {alpha, beta} |-> IF x = alpha THEN <<beta, alpha>> ELSE <<alpha>>]],
    [Plain EXCEPT !.deny = {}, !.engines = [e \in {fast} |-> alpha], !.backends = {alpha, beta}]}

VerifiedFiles == {
    Verified,
    [Verified EXCEPT !.closed = FALSE, !.routes = TRUE],
    [Verified EXCEPT !.verifier = "sampled", !.checker = alpha, !.managed = {}],
    [Verified EXCEPT !.verifier = "receipt-only"],
    [Verified EXCEPT !.checker = delta],
    \* refused: no backend to verify with
    [Verified EXCEPT !.checker = NoBackend]}

ManualFiles == {
    Manually,
    [Manually EXCEPT !.gate = "always_static", !.clientModel = TRUE, !.unknown = "reject_404"],
    [Manually EXCEPT !.clientModel = TRUE, !.model = "own", !.verifier = "receipt-only"],
    [Manually EXCEPT !.default = delta],
    \* refused: no default model, and a fallback to itself
    [Manually EXCEPT !.model = "none"],
    [Manually EXCEPT !.fallback = [x \in {alpha} |-> <<beta, alpha>>]]}

AllFiles == PlainFiles \cup VerifiedFiles \cup ManualFiles
AnyOrder == Permutations(Requests)
=============================================================================
