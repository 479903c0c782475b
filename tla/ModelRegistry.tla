--------------------------- MODULE ModelRegistry ---------------------------
(***************************************************************************)
(* The registry of known models (model_registry.py): rows from the router's*)
(* configuration, the proxy's, a scan of the disk, the runtimes' answers   *)
(* and the user's declarations, merged into one row per key.  A row keeps  *)
(* what the merge tells apart:                                             *)
(*   origin, backend, path, model   the key is made of these               *)
(*   install, health, load          states, the stronger of two is kept    *)
(*   eligible                       routing_eligible                       *)
(*   source, routes                 what is collected from all rows (tags  *)
(*                                  and capabilities are, too)             *)
(* origin stands for provider and runtime.  Formats, quantizations, sizes  *)
(* and licences, where the first row that has one wins, are left out.      *)
(***************************************************************************)
EXTENDS Naturals, Sequences, FiniteSets, SequencesExt

CONSTANTS None  \* no backend, no path

Row(origin, backend, path, model, source) ==
    [origin |-> origin, backend |-> backend, path |-> path, model |-> model, source |-> {source},
     install |-> "configured", health |-> "unknown", load |-> "unknown", eligible |-> TRUE, routes |-> {}]

Rows(S) == SetToSeq(S)
-----------------------------------------------------------------------------
(* The sources.                                                            *)

RoutesOf(targets, name) == {r \in DOMAIN targets : targets[r] = name}

\* engines[e] = [origin, model, enabled]; engines without a model are skipped.
RouterRows(rc) ==
    Rows({[Row(rc.engines[e].origin, None, None, rc.engines[e].model, "router_config")
           EXCEPT !.eligible = rc.engines[e].enabled, !.routes = RoutesOf(rc.targets, e)] :
          e \in {x \in DOMAIN rc.engines : rc.engines[x].model # None}})

\* backends[b] = [origin, path, model, allowed]: path is the one in the model's name
\* or in the runtime's command.
ProxyRows(c) ==
    Rows({[Row(c.backends[b].origin, b, c.backends[b].path, c.backends[b].model, "proxy_config")
           EXCEPT !.load = "configured", !.eligible = c.backends[b].allowed, !.routes = RoutesOf(c.engines, b),
                  !.install = IF c.backends[b].origin = "hosted" THEN "remote" ELSE "configured"] :
          b \in DOMAIN c.backends})

DiscoveredRows(models) ==
    Rows({[Row("local", None, m.path, m.model, "scan")
           EXCEPT !.install = "installed", !.routes = m.roles] : m \in models})

\* One item of a runtime's answer.
RuntimeRow(c, b, state, model, load) ==
    [Row(c.backends[b].origin, b, None, model, "runtime_import")
     EXCEPT !.install = IF load = "stale" THEN "stale" ELSE "available",
            !.health = state.health, !.load = load,
            !.eligible = c.backends[b].allowed /\ state.health = "ready" /\ load # "stale",
            !.routes = RoutesOf(c.engines, b)]

\* states[b] = [health, models, loaded, stale]: the three lists in this order, an
\* entry of models being what the adapter knows of its load (ollama: unloaded).
RuntimeRows(c, states) ==
    FlattenSeq([i \in 1..Cardinality(DOMAIN states) |->
        LET b == Rows(DOMAIN states)[i]
            s == states[b]
        IN Rows({RuntimeRow(c, b, s, m, s.unloaded) : m \in s.models})
           \o Rows({RuntimeRow(c, b, s, m, "loaded") : m \in s.loaded})
           \o Rows({RuntimeRow(c, b, s, m, "stale") : m \in s.stale})])

\* What the user declares is taken as it is.
UserRows(models) ==
    Rows({[Row(m.origin, m.backend, m.path, m.model, "user_declared")
           EXCEPT !.install = IF m.path # None THEN "installed" ELSE "remote",
                  !.eligible = m.eligible, !.routes = m.routes] : m \in models})

\* build_model_registry: the rows in the order of their sources.
AllRows(in) ==
    RouterRows(in.router) \o ProxyRows(in.proxy) \o DiscoveredRows(in.found)
    \o RuntimeRows(in.proxy, in.states) \o UserRows(in.user)
-----------------------------------------------------------------------------
(* The merge.                                                              *)

\* _state_preference: a state without a rank, as "ready" and the other answers of
\* health checks, has the lowest.
Rank(s) ==
    CASE s = "installed" -> 6 [] s \in {"available", "loaded"} -> 5 [] s = "configured" -> 4
      [] s = "remote" -> 3 [] s = "unloaded" -> 2 [] s = "unknown" -> 1 [] OTHER -> 0

Preferred(l, r) == IF Rank(l) >= Rank(r) THEN l ELSE r

First(l, r) == IF l # None THEN l ELSE r

\* Faulty: the row seen first keeps its routes.
MergeModel_FirstRoutes(l, r) ==
    [l EXCEPT !.source = @ \cup r.source, !.backend = First(@, r.backend), !.path = First(@, r.path),
              !.install = Preferred(@, r.install), !.health = Preferred(@, r.health),
              !.load = Preferred(@, r.load), !.eligible = @ \/ r.eligible]

MergeModel(l, r) ==
    [l EXCEPT !.source = @ \cup r.source, !.backend = First(@, r.backend), !.path = First(@, r.path),
              !.install = Preferred(@, r.install), !.health = Preferred(@, r.health),
              !.load = Preferred(@, r.load), !.eligible = @ \/ r.eligible, !.routes = @ \cup r.routes]

MergeKey(r) ==
    IF r.path # None THEN <<"path", r.path, r.model>>
    ELSE IF r.backend # None THEN <<"backend", r.origin, r.backend, r.model>>
    ELSE <<"model", r.origin, r.model>>

\* _merge_models: the merged row of every key.
MergeModels(rows) ==
    LET keys == {MergeKey(r) : r \in ToSet(rows)}
        of(k) == SelectSeq(rows, LAMBDA r : MergeKey(r) = k)
    IN [k \in keys |-> FoldLeft(MergeModel, Head(of(k)), Tail(of(k)))]

Registry(in) == MergeModels(AllRows(in))
-----------------------------------------------------------------------------
(* Properties of an input.                                                 *)

\* No row lets a backend that the backend policy rejects take part in routing: the
\* row of its configuration and those of its runtime agree, and the merge, which
\* keeps the permission of either, adds none.  (Two backends that run the same
\* model file do share a row, and what the user declares counts for itself.)
DeniedNotEligible(in) ==
    LET reg == Registry(in) IN
    \A k \in {x \in DOMAIN reg : reg[x].eligible /\ reg[x].backend # None} :
        \/ reg[k].source \cap {"user_declared", "scan"} # {}
        \/ \E b \in DOMAIN in.proxy.backends :
               /\ in.proxy.backends[b].allowed
               /\ \/ b = reg[k].backend
                  \/ reg[k].path # None /\ in.proxy.backends[b].path = reg[k].path

\* A model that its runtime reports as loaded is loaded in the registry, though
\* the same answer lists it as not loaded or the configuration only as configured.
LoadedIsLoaded(in) ==
    LET reg == Registry(in) IN
    \A b \in DOMAIN in.states : \A m \in in.states[b].loaded :
        \E k \in DOMAIN reg : reg[k].backend = b /\ reg[k].model = m /\ reg[k].load = "loaded"

\* The merge depends on the order of the sources only where it says so: backwards,
\* the same keys have the same sources, routes, permission and equally strong
\* states, and merging everything twice changes nothing.
OrderInsensitive(in) ==
    LET rows == AllRows(in)
        reg == MergeModels(rows)
        back == MergeModels(Reverse(rows))
    IN /\ DOMAIN back = DOMAIN reg
       /\ \A k \in DOMAIN reg :
            /\ <<back[k].source, back[k].routes, back[k].eligible>> = <<reg[k].source, reg[k].routes, reg[k].eligible>>
            /\ \A f \in {"install", "health", "load"} : Rank(back[k][f]) = Rank(reg[k][f])
       /\ MergeModels(rows \o rows) = reg

\* Nothing two sources know apart is mixed up: a row's key is the key of every row
\* it was made of, and no runtime's answer reaches a row of another backend that
\* has no file in common with it.
KeysStay(in) ==
    LET reg == Registry(in)
        rows == ToSet(AllRows(in))
    IN \A k \in DOMAIN reg :
         /\ MergeKey(reg[k]) = k
         /\ \A r \in rows :
              "runtime_import" \in r.source /\ MergeKey(r) = k
              => /\ r.backend = reg[k].backend
                 /\ RoutesOf(in.proxy.engines, r.backend) \subseteq reg[k].routes
=============================================================================
