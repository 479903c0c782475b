---------------------------- MODULE ProxyConfig ----------------------------
(***************************************************************************)
(* The routing proxy's configuration (proxy_config.py): what               *)
(* load_proxy_config accepts, and the questions the request handlers ask   *)
(* of an accepted one.  A configuration is a record; the fields kept are   *)
(* those that decide where a request may go:                               *)
(*                                                                         *)
(*   backends, managed, mlx   names defined under backends; those with a   *)
(*                            runtime; those whose runtime is mlx-lm       *)
(*   mode, gate               proxy.routing_mode, proxy.safety_gate_mode   *)
(*   default, model           proxy.default_backend, and whether           *)
(*                            proxy.default_model is the default backend's *)
(*                            own model, another one, or missing           *)
(*   clientModel, unknown     proxy.respect_client_model and               *)
(*                            proxy.unknown_model_behavior                 *)
(*   engines                  engine_backends                              *)
(*   fallback                 fallback_backends                            *)
(*   allow, deny              backend_policy                               *)
(*   verifier, checker        verifier.mode and verifier.backend           *)
(*   closed, routes           verifier.failure_behavior is fail_closed;    *)
(*                            verifier.route_codes is not empty            *)
(*   observed                 observability.enabled                        *)
(***************************************************************************)
EXTENDS Naturals, Sequences, FiniteSets

CONSTANTS
    Names,          \* backend names a configuration may use
    Engines,        \* engines the router may select
    NoBackend       \* an optional backend name that is missing

RoutingModes == {"decision", "manual"}
GateModes == {"decision_only", "always_static", "off"}
VerifierModes == {"off", "receipt-only", "sampled", "always-for-risky-output"}
\* Models are told apart by what they are for the backend that gets them.
Models == {"own", "other"}
-----------------------------------------------------------------------------
(* The configuration's questions.                                          *)

PolicyRejects(c, b) == (c.allow # {} /\ b \notin c.allow) \/ b \in c.deny

Configured(c, b) == IF b \in DOMAIN c.fallback THEN c.fallback[b] ELSE <<>>

\* Faulty: the backend policy does not apply to fallbacks.
FallbackChain_Unfiltered(c, b) == DOMAIN Configured(c, b)

\* The positions of b's configured chain that are kept, in their order.
FallbackChain(c, b) ==
    {i \in DOMAIN Configured(c, b) :
        Configured(c, b)[i] \in c.backends /\ ~PolicyRejects(c, Configured(c, b)[i])}

\* The backend at a place of b's attempts: b itself, then its chain.
Target(c, b, i) == IF i = 0 THEN b ELSE Configured(c, b)[i]

EngineBackend(c, e) == IF e \in DOMAIN c.engines THEN c.engines[e] ELSE NoBackend

Supports(c, b, path) ==
    b \in c.managed /\ b \in c.mlx => path \notin {"responses", "embeddings", "completions"}
-----------------------------------------------------------------------------
(* Loading: the checks in the order they are made.                         *)

ModeConfigOK(c) ==
    /\ c.mode \in RoutingModes /\ c.gate \in GateModes
    /\ c.mode = "manual" => c.default \in c.backends /\ c.model \in Models

BackendPolicyOK(c) == c.allow \cup c.deny \subseteq c.backends

VerifierOK(c) ==
    /\ c.verifier \in VerifierModes
    /\ c.checker \in c.backends \cup {NoBackend}
    /\ c.verifier \in {"sampled", "always-for-risky-output"} => c.checker # NoBackend

EngineBackendsOK(c) ==
    DOMAIN c.engines # {} /\ \A e \in DOMAIN c.engines : c.engines[e] \in c.backends

FallbackBackendsOK(c) ==
    /\ DOMAIN c.fallback \subseteq c.backends
    /\ \A b \in DOMAIN c.fallback : \A i \in DOMAIN c.fallback[b] : c.fallback[b][i] \in c.backends

\* visit: depth first, with the names on the way in trail.
NoFallbackCycles(c) ==
    LET visit[trail \in SUBSET Names] ==
            [n \in Names |-> n \notin trail /\ \A i \in DOMAIN Configured(c, n) :
                                                visit[trail \cup {n}][Configured(c, n)[i]]]
    IN \A b \in DOMAIN c.fallback : visit[{}][b]

LoadProxyConfig(c) ==
    /\ c.backends # {}
    /\ ModeConfigOK(c)
    /\ BackendPolicyOK(c)
    /\ VerifierOK(c)
    /\ EngineBackendsOK(c)
    /\ FallbackBackendsOK(c)
    /\ NoFallbackCycles(c)
=============================================================================
