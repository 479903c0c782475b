---------------------------- MODULE ProxyRequest ----------------------------
(***************************************************************************)
(* What the routing proxy does with a request (proxy.py): it turns it      *)
(* away, asks for confirmation, or forwards it to a backend, to the        *)
(* backend's fallbacks when that fails, and to a verifier afterwards; it   *)
(* writes one row to the routing log and counts it in the session's        *)
(* statistics.  A step is the code between two suspension points, for one  *)
(* of several requests on the event loop.                                  *)
(*                                                                         *)
(* What the managed runtimes make of ensure_running, begin_request and     *)
(* end_request is in ManagedRuntime; here ensure_running succeeds or       *)
(* raises RuntimeStartError, and uses[b] counts begins that have not been  *)
(* ended.  The router's answers (engine, confirmation, risk, route codes)  *)
(* and the upstreams' are chosen by the environment.                       *)
(***************************************************************************)
EXTENDS ProxyConfig

CONSTANTS
    Requests,
    Files       \* the configuration files the proxy may be started with

ASSUME RequestsAssumption == IsFiniteSet(Requests)
ASSUME FilesAssumption ==
    \A c \in Files :
        /\ c.managed \subseteq c.backends /\ c.backends \subseteq Names
        /\ \A b \in DOMAIN c.fallback : c.fallback[b] \in Seq(Names)

VARIABLES
    cfg,        \* the RoutingProxyConfig of this process
    req,        \* what the handler of each request knows, see NewRequest
    uses,       \* uses[b]: begin_request calls without their end_request
    log,        \* log[r]: the rows request r has written to the routing log
    stats       \* ProxySessionStats

vars == <<cfg, req, uses, log, stats>>

Paths == {"chat/completions", "responses", "embeddings", "completions"}
ErrorStatuses == {"backend_policy_rejected", "routing_backend_missing", "runtime_start_failed",
                  "upstream_api_unsupported", "upstream_request_failed", "verification_failed"}

NewRequest(path, stream) ==
    [pc |-> "new", path |-> path, stream |-> stream,
     primary |-> NoBackend,     \* backend: the first one attempted
     model |-> "none",          \* selected_model, which the primary backend is sent
     at |-> 0,                  \* the attempt: 0, or a position of the fallback chain
     attempts |-> <<>>,         \* history: where the request was sent, and what came
     bound |-> {},              \* history: backends started or called for the request
     verdict |-> "none",        \* verification.status
     end |-> "none",            \* how a stream came to its end
     reply |-> [by |-> "nobody", code |-> "none"]]
-----------------------------------------------------------------------------
BackendAt(q) == Target(cfg, q.primary, q.at)

\* Faulty: a fallback is sent the primary backend's payload.
ModelAt_Sticky(q) == q.model

ModelAt(q) == IF q.at = 0 THEN q.model ELSE "own"
\* _model_for_used_backend compares names.
UsedModel(q) == IF BackendAt(q) = q.primary THEN q.model ELSE "own"
Later(q) == {i \in FallbackChain(cfg, q.primary) : i > q.at}
Last(q) == q.attempts[Len(q.attempts)].came
Streams(q) == q.stream /\ q.path # "embeddings"

\* Faulty: a use is not begun.
Begin_Forgotten(b, u) == u

\* Unmanaged backends have no _RuntimeState and are not counted.
Begin(b, u) == IF b \in cfg.managed THEN [u EXCEPT ![b] = @ + 1] ELSE u

\* Faulty: a use is not ended.
End_Forgotten(b, u) == u

End(b, u)   == IF b \in cfg.managed THEN [u EXCEPT ![b] = @ - 1] ELSE u

Become(r, q, u) == req' = [req EXCEPT ![r] = q] /\ uses' = u
Quietly == UNCHANGED <<cfg, log, stats>>

StatsRecord(status, fallback) ==
    [stats EXCEPT !.total = @ + 1,
                  !.fallbacks = @ + (IF fallback THEN 1 ELSE 0),
                  !.interruptions = @ + (IF status = "stream_interrupted" THEN 1 ELSE 0),
                  !.errors = @ + (IF status \in ErrorStatuses THEN 1 ELSE 0)]

\* _write_proxy_event: the session's counters, then the log if there is one.
WriteProxyEvent(r, row) ==
    /\ stats' = StatsRecord(row.status, row.fallback)
    /\ log' = IF cfg.observed THEN [log EXCEPT ![r] = Append(@, row)] ELSE log
    /\ UNCHANGED cfg

\* The handler answers for itself; nothing was forwarded, or nothing came of it.
Refuse(r, q, u, status, code) ==
    /\ Become(r, [q EXCEPT !.pc = "done", !.reply = [by |-> "proxy", code |-> code]], u)
    /\ WriteProxyEvent(r, [status |-> status, backend |-> q.primary, model |-> q.model,
                           fallback |-> FALSE, code |-> code])

\* What a backend answered is recorded, with the backend that was used.
Record(r, q, u, status, code) ==
    /\ Become(r, q, u)
    /\ WriteProxyEvent(r, [status |-> status, backend |-> BackendAt(q), model |-> UsedModel(q),
                           fallback |-> q.at > 0, code |-> code])
-----------------------------------------------------------------------------
(* _post_with_fallbacks, _open_stream_with_fallbacks                       *)

\* One round of their loop up to its await; u is uses after the round before.
Attempt(r, q, u) ==
    LET b == BackendAt(q) IN
    \/ /\ ~Supports(cfg, b, q.path)
       /\ Refuse(r, q, u, "upstream_api_unsupported", "502")
    \/ /\ Supports(cfg, b, q.path) /\ b \in cfg.managed
       /\ Become(r, [q EXCEPT !.pc = "starting", !.bound = @ \cup {b}], u)
       /\ Quietly
    \/ /\ Supports(cfg, b, q.path) /\ b \notin cfg.managed
       /\ Become(r, [q EXCEPT !.pc = "posting", !.bound = @ \cup {b}], u)
       /\ Quietly

\* Faulty: the chain is begun anew.
Advance_Stuck(r, q, u) == Attempt(r, [q EXCEPT !.at = 0, !.attempts = <<>>], u)

\* The next round, if there are backends left.
Advance(r, q, u) ==
    \E i \in Later(q) : (\A j \in Later(q) : i <= j) /\ Attempt(r, [q EXCEPT !.at = i], u)

Came(q, answer) ==
    [q EXCEPT !.attempts = Append(@, [to |-> BackendAt(q), model |-> ModelAt(q), came |-> answer])]

\* ensure_running returned, and begin_request is called before the next await.
StartOK(r) ==
    /\ req[r].pc = "starting"
    /\ Become(r, [req[r] EXCEPT !.pc = "posting"], Begin(BackendAt(req[r]), uses))
    /\ Quietly

\* ensure_running raised RuntimeStartError, which the loop does not catch.
StartFails(r) ==
    /\ req[r].pc = "starting"
    /\ Refuse(r, req[r], uses, "runtime_start_failed", "502")

\* The call raised: the next backend, or UpstreamRequestError after the last.
CallFails(r) ==
    LET q == Came(req[r], "error")
        u == End(BackendAt(q), uses)
    IN /\ req[r].pc = "posting"
       /\ \/ Advance(r, q, u)
          \/ Later(q) = {} /\ Refuse(r, q, u, "upstream_request_failed", "502")

\* A server error is passed over while there are backends left.
ServerError(r) ==
    LET q == Came(req[r], "5xx")
    IN /\ req[r].pc = "posting" /\ Later(q) # {}
       /\ \/ ~Streams(q) /\ Advance(r, q, End(BackendAt(q), uses))
          \/ Streams(q) /\ Become(r, [q EXCEPT !.pc = "closing"], uses) /\ Quietly

\* await stream_context.__aexit__ of the stream passed over.
Closed(r) ==
    /\ req[r].pc = "closing"
    /\ Advance(r, req[r], End(BackendAt(req[r]), uses))

\* It raised: no handler catches that, and the framework answers.
CloseFails(r) ==
    /\ req[r].pc = "closing"
    /\ Become(r, [req[r] EXCEPT !.pc = "done", !.reply = [by |-> "framework", code |-> "500"]],
              End(BackendAt(req[r]), uses))
    /\ Quietly
-----------------------------------------------------------------------------
(* The verifier: _verify_response_if_configured                            *)

\* The outcomes that need no call to the verifier, in the order they are looked
\* for, and "ask".  There is a decision only with a routing log, see Decide.
Qualification(q) ==
    LET ask == IF PolicyRejects(cfg, cfg.checker) THEN "skipped_backend_policy" ELSE "ask"
        onRoute == IF cfg.verifier = "receipt-only" THEN {"qualified"}
                   ELSE {ask} \cup (IF cfg.verifier = "sampled"
                                    THEN {"skipped_risk", "skipped_sample"} ELSE {})
    IN IF cfg.verifier = "off" THEN {"none"}
       ELSE IF Last(q) = "5xx" THEN {"skipped_upstream_status"}
       ELSE IF cfg.mode = "manual" \/ ~cfg.observed THEN {"skipped_no_diagnostic_receipt"}
       ELSE {"skipped_human_confirm"} \cup onRoute
            \cup (IF cfg.routes THEN {"skipped_route"} ELSE {})

\* Faulty: only a verifier that answers can hold a response back.
Withheld_AnsweredOnly(q) == q.verdict = "failed" /\ cfg.closed

Withheld(q) == q.verdict \in {"failed", "error"} /\ cfg.closed

Conclude(r, q, u) ==
    \/ /\ Withheld(q)
       /\ Record(r, [q EXCEPT !.pc = "done", !.reply = [by |-> "proxy", code |-> "502"]],
                 u, "verification_failed", "502")
    \/ /\ ~Withheld(q)
       /\ Record(r, [q EXCEPT !.pc = "done", !.reply = [by |-> "backend", code |-> Last(q)]],
                 u, "forwarded", Last(q))

Verify(r, q, u) ==
    \/ \E v \in Qualification(q) \ {"ask"} : Conclude(r, [q EXCEPT !.verdict = v], u)
    \/ /\ "ask" \in Qualification(q)
       /\ Become(r, [q EXCEPT !.bound = @ \cup {cfg.checker},
                              !.pc = IF cfg.checker \in cfg.managed THEN "waking" ELSE "verifying"], u)
       /\ Quietly

\* The attempt's answer is the request's: it is below 500, or there is no
\* backend left.  A stream's use goes on until the stream has ended.
Answered(r) ==
    \E answer \in {"ok", "5xx"} :
        LET q == Came(req[r], answer)
        IN /\ req[r].pc = "posting"
           /\ answer = "5xx" => Later(q) = {}
           /\ \/ ~Streams(q) /\ Verify(r, q, End(BackendAt(q), uses))
              \/ Streams(q) /\ Become(r, [q EXCEPT !.pc = "opened"], uses) /\ Quietly

VerifierStarts(r) ==
    /\ req[r].pc = "waking"
    /\ \/ Become(r, [req[r] EXCEPT !.pc = "verifying"], Begin(cfg.checker, uses)) /\ Quietly
       \/ Conclude(r, [req[r] EXCEPT !.verdict = "error"], uses)

VerifierAnswers(r) ==
    /\ req[r].pc = "verifying"
    /\ \E v \in {"passed", "failed", "error"} :
            Conclude(r, [req[r] EXCEPT !.verdict = v], End(cfg.checker, uses))
-----------------------------------------------------------------------------
(* _stream_response_bytes                                                  *)

StreamBegins(r) ==
    /\ req[r].pc = "opened"
    /\ Become(r, [req[r] EXCEPT !.pc = "streaming",
                                !.reply = [by |-> "backend", code |-> Last(req[r])]], uses)
    /\ Quietly

\* The client left before the first chunk was asked for: the generator never
\* runs, and neither does its finally.
Abandon(r) ==
    /\ req[r].pc = "opened"
    /\ Become(r, [req[r] EXCEPT !.pc = "abandoned"], uses)
    /\ Quietly

\* The upstream ends it, or fails; the client leaves while the generator waits
\* for a chunk ("cancelled") or for its consumer ("closed": GeneratorExit).
StreamEnds(r) ==
    /\ req[r].pc = "streaming"
    /\ \E end \in {"complete", "upstream_error", "cancelled", "closed"} :
            Become(r, [req[r] EXCEPT !.pc = "finishing", !.end = end], uses)
    /\ Quietly

\* After __aexit__, whose exceptions are logged and dropped.
StreamFinishes(r) ==
    LET q == req[r] IN
    /\ q.pc = "finishing"
    /\ Record(r, [q EXCEPT !.pc = "done"], End(BackendAt(q), uses),
              IF q.end \in {"upstream_error", "cancelled"} THEN "stream_interrupted"
                                                           ELSE "forwarded",
              Last(q))
-----------------------------------------------------------------------------
(* _forward_routed_request up to its first attempt                         *)

\* _authorize_request, a body that is not a JSON object, or another endpoint.
TurnAway(r, q) ==
    /\ Become(r, [q EXCEPT !.pc = "done", !.reply = [by |-> "gate", code |-> "4xx"]], uses)
    /\ Quietly

AskHuman(r, q) == Refuse(r, q, uses, "human_confirm", "409")

\* _manual_routing_selection.  A loaded configuration has the default backend and
\* model, so manual_config_invalid and manual_backend_missing do not occur.
Manual(r, q) ==
    LET chosen == [q EXCEPT !.primary = cfg.default, !.model = cfg.model] IN
    \/ cfg.gate = "always_static" /\ AskHuman(r, q)
    \/ /\ PolicyRejects(cfg, cfg.default)
       /\ Refuse(r, chosen, uses, "backend_policy_rejected", "502")
    \/ /\ ~PolicyRejects(cfg, cfg.default)
       /\ \/ \E model \in {cfg.model} \cup (IF cfg.clientModel THEN {"own"} ELSE {}) :
                Attempt(r, [chosen EXCEPT !.model = model], uses)
          \/ /\ cfg.clientModel /\ cfg.unknown = "reject_404"
             /\ Refuse(r, chosen, uses, "unknown_model", "404")

\* route_fast's engine; an empty prompt asks for confirmation too.  With a
\* routing log the router is asked again for the decision the log will show.
Decide(r, q) ==
    \/ AskHuman(r, q)
    \/ \E e \in Engines :
        LET b == EngineBackend(cfg, e) IN
        \/ /\ b = NoBackend
           /\ Refuse(r, q, uses, "routing_backend_missing", "502")
        \/ /\ b # NoBackend /\ PolicyRejects(cfg, b)
           /\ Refuse(r, [q EXCEPT !.primary = b], uses, "backend_policy_rejected", "502")
        \/ /\ b # NoBackend /\ ~PolicyRejects(cfg, b)
           /\ Attempt(r, [q EXCEPT !.primary = b, !.model = "own"], uses)

Receive(r) ==
    /\ req[r].pc = "new"
    /\ \E path \in Paths, stream \in BOOLEAN :
        LET q == NewRequest(path, stream) IN
        \/ TurnAway(r, q)
        \/ cfg.mode = "manual" /\ Manual(r, q)
        \/ cfg.mode = "decision" /\ Decide(r, q)
-----------------------------------------------------------------------------
Init ==
    /\ cfg \in {c \in Files : LoadProxyConfig(c)}
    /\ req = [r \in Requests |-> NewRequest("chat/completions", FALSE)]
    /\ uses = [b \in Names |-> 0]
    /\ log = [r \in Requests |-> <<>>]
    /\ stats = [total |-> 0, fallbacks |-> 0, interruptions |-> 0, errors |-> 0]

\* What the handler does by itself or with an answer that always comes: a
\* runtime starts or does not within its timeouts, and a call has one too.
Handle(r) ==
    \/ StartOK(r) \/ StartFails(r)
    \/ CallFails(r) \/ ServerError(r) \/ Answered(r)
    \/ Closed(r) \/ CloseFails(r)
    \/ VerifierStarts(r) \/ VerifierAnswers(r)
    \/ StreamBegins(r) \/ Abandon(r)
    \/ StreamFinishes(r)

Next == \E r \in Requests : Receive(r) \/ Handle(r) \/ StreamEnds(r)

Spec == Init /\ [][Next]_vars
\* Nothing makes a stream end.
FairSpec == Spec /\ \A r \in Requests : WF_vars(Handle(r))
-----------------------------------------------------------------------------
Settled == {"done", "abandoned"}
\* pc while the backend of the attempt is in use.
UsingPC == {"posting", "closing", "opened", "streaming", "finishing", "abandoned"}
Answers == {"ok", "5xx", "error"}

\* Every variable keeps its type; uses never go below zero.
TypeOK ==
    /\ LoadProxyConfig(cfg)
    /\ uses \in [Names -> Nat]
    /\ stats \in [{"total", "fallbacks", "interruptions", "errors"} -> Nat]
    /\ \A r \in Requests :
        /\ req[r].primary \in Names \cup {NoBackend}
        /\ req[r].at \in {0} \cup DOMAIN Configured(cfg, req[r].primary)
        /\ req[r].bound \subseteq Names
        /\ req[r].attempts \in Seq([to : Names, model : Models, came : Answers])
        /\ log[r] \in Seq([status : ErrorStatuses \cup {"human_confirm", "unknown_model", "forwarded",
                                                        "stream_interrupted"},
                           backend : Names \cup {NoBackend}, model : Models \cup {"none"},
                           fallback : BOOLEAN, code : {"ok", "5xx", "404", "409", "502"}])

\* A request starts, calls or asks for verification only backends the policy
\* permits, whether they were chosen by engine, by hand or as a fallback.
PolicyRespected ==
    \A r \in Requests : \A b \in req[r].bound : b \in cfg.backends /\ ~PolicyRejects(cfg, b)

\* The counter that keeps a runtime from the reaper is the number of requests
\* that really use it: one per call or stream under way, whichever way the
\* earlier attempts ended, and one for good per stream that was abandoned.
UsesBalanced ==
    \A b \in cfg.managed :
        uses[b] = Cardinality({r \in Requests : req[r].pc \in UsingPC /\ BackendAt(req[r]) = b})
                  + Cardinality({r \in Requests : req[r].pc = "verifying" /\ cfg.checker = b})

\* Where a request for b may go: to b itself, and to what is permitted of its chain;
\* and how many of these places there are up to one of them.
Places(c, b) ==
    {0} \cup {i \in DOMAIN Configured(c, b) :
                /\ Configured(c, b)[i] \in c.backends
                /\ ~PolicyRejects(c, Configured(c, b)[i])}
Rank(c, b, i) == Cardinality({j \in Places(c, b) : j <= i})

\* The backends are tried in the configured order and none is passed over, each
\* only after all before it failed; a backend's server error is the answer, and
\* an upstream failure is reported, only when every one has been tried.
FirstGoodAnswer ==
    \A r \in Requests :
        LET q == req[r]
            places == Places(cfg, q.primary)
            tried == Len(q.attempts)
        IN /\ tried <= Cardinality(places)
           /\ \A i \in places : \A n \in 1..tried :
                n = Rank(cfg, q.primary, i) => q.attempts[n].to = Target(cfg, q.primary, i)
           /\ \A n \in 1..tried - 1 : q.attempts[n].came \in {"error", "5xx"}
           /\ q.reply = [by |-> "backend", code |-> "5xx"] => tried = Cardinality(places)
           /\ \A n \in DOMAIN log[r] :
                log[r][n].status = "upstream_request_failed"
                    => tried = Cardinality(places) /\ Last(q) = "error"

\* With a routing log every request that was taken on leaves one row when it
\* ends, and none before; one turned away, broken off by the framework or
\* abandoned leaves none.
OneRow ==
    \A r \in Requests :
        Len(log[r]) = IF /\ cfg.observed /\ req[r].pc = "done"
                         /\ req[r].reply.by \in {"proxy", "backend"}
                      THEN 1 ELSE 0

\* A row for an answer names the backend that gave it, the model that backend
\* was sent and whether it was a fallback; a row's code is the one the client got.
RowTellsTruth ==
    \A r \in Requests : \A n \in DOMAIN log[r] :
        LET row == log[r][n]
            answer == req[r].attempts[Len(req[r].attempts)]
        IN /\ row.code = req[r].reply.code
           /\ row.status \in {"forwarded", "stream_interrupted", "verification_failed"} =>
                /\ row.backend = answer.to
                /\ row.model = answer.model
                /\ row.fallback = (Len(req[r].attempts) > 1)

\* The summary printed at shutdown agrees with what the clients got: an error
\* is a 502 of the proxy's own, an interruption a stream that was cut off.
StatsAddUp ==
    /\ stats.errors = Cardinality({r \in Requests : req[r].reply = [by |-> "proxy", code |-> "502"]})
    /\ stats.interruptions = Cardinality({r \in Requests : /\ req[r].pc = "done"
                                             /\ req[r].end \in {"upstream_error", "cancelled"}})
    /\ stats.total = Cardinality({r \in Requests : req[r].pc = "done"
                                             /\ req[r].reply.by \in {"proxy", "backend"}})

\* What the proxy records of a request is what happened to it: one row, about the answer
\* that went out, and a summary that agrees with all of them.
RecordsTrue == OneRow /\ RowTellsTruth /\ StatsAddUp

\* Under fail_closed an answer below 500 goes out only if the verifier passed it
\* or was not asked: one that cannot be started or reached holds it back too.
VerifiedOrExcused ==
    \A r \in Requests :
        /\ cfg.closed /\ cfg.verifier # "off" /\ ~Streams(req[r])
        /\ req[r].reply = [by |-> "backend", code |-> "ok"]
        => req[r].verdict \notin {"none", "failed", "error"}

\* An answer goes out because it is the first good one, or the last, and not without the
\* verification that was asked for.
AnswerEarned == FirstGoodAnswer /\ VerifiedOrExcused

\* Every request that was received is answered, or its stream abandoned, and the
\* use of its backend does not outlast it: only a stream that goes on keeps it.
RequestAnswered ==
    \A r \in Requests :
        req[r].pc # "new" ~> req[r].pc \in Settled \cup {"streaming"}
=============================================================================
