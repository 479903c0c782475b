------------------------- MODULE ProxyRequestProofs -------------------------
(***************************************************************************)
(* What a request of the proxy may rely on, for every set of requests,     *)
(* names, engines and configuration files.                                 *)
(*                                                                         *)
(* The backend policy is respected.  PolicyInv says of a request what the  *)
(* loops and the verifier rely on: its primary backend was permitted when  *)
(* it was chosen, its place in the chain is one of those that were kept, a *)
(* verifier being asked is permitted, and so is every backend the request  *)
(* ever started or called.                                                 *)
(*                                                                         *)
(* Answers are earned, uses balance and records are true.  RecordInv       *)
(* follows a request on its walk down the chain: the attempts so far went  *)
(* to the first places in their order, as many as the rank of the place it *)
(* has reached says, and all but the last one failed (Walked, Trying,      *)
(* Tried, Answering); what its reply, its rows and the counters may say of *)
(* that follows from where it stopped (Fit, LogFits).  A step that changes *)
(* uses is compared with what the request holds before and after it        *)
(* (Share, Settles).  That a row names the right model needs a fact about  *)
(* the configuration as well: _model_for_used_backend compares names, so   *)
(* no backend may be among its own fallbacks, which is what the loader's   *)
(* search for cycles ensures.                                              *)
(***************************************************************************)
EXTENDS ProxyRequest, SequenceTheorems, FiniteSetTheorems, TLAPS

-----------------------------------------------------------------------------
(* The backend policy.                                                     *)

\* A backend of the configuration that the policy permits.
Permitted(b) == b \in cfg.backends /\ ~PolicyRejects(cfg, b)

\* pc once a backend has been chosen and until the request ends.
Underway == {"starting", "posting", "closing", "opened", "streaming", "finishing",
             "waking", "verifying", "abandoned"}

\* The fields the argument follows; the others may hold anything.
Fielded(q) == {"pc", "primary", "at", "bound"} \subseteq DOMAIN q

\* The request has a place among the backends it may be sent to.
Ready(q) ==
    /\ Fielded(q)
    /\ Permitted(q.primary)
    /\ q.at \in {0} \cup FallbackChain(cfg, q.primary)
    /\ \A b \in q.bound : Permitted(b)

\* What holds of a request between steps.
Sound(q) ==
    /\ Fielded(q)
    /\ q.pc \in Underway => Ready(q)
    /\ q.pc \in {"waking", "verifying"} => Permitted(cfg.checker)
    /\ \A b \in q.bound : Permitted(b)

PolicyInv ==
    /\ LoadProxyConfig(cfg)
    /\ DOMAIN req = Requests
    /\ \A r \in Requests : Sound(req[r])
-----------------------------------------------------------------------------
\* Nothing but req changes what PolicyInv says while the configuration stays.
LEMMA BecomeKeeps ==
    ASSUME PolicyInv, NEW r \in Requests, NEW q, NEW u, Sound(q), Become(r, q, u), cfg' = cfg
    PROVE  PolicyInv'
  <1>1. DOMAIN req' = Requests
    BY DEF PolicyInv, Become
  <1>2. ASSUME NEW s \in Requests PROVE Sound(req[s])'
    <2>1. req'[s] = IF s = r THEN q ELSE req[s]
      BY DEF PolicyInv, Become
    <2>2. Sound(req'[s])
      BY <2>1 DEF PolicyInv
    <2>3. QED
      BY <2>2, cfg' = cfg DEF Sound, Ready, Permitted
  <1>3. QED
    BY <1>1, <1>2, cfg' = cfg DEF PolicyInv

\* A request that has come to its end, with whatever reply.
LEMMA EndKeeps ==
    ASSUME PolicyInv, NEW r \in Requests, NEW q, NEW u, NEW reply, cfg' = cfg,
           Fielded(q), \A b \in q.bound : Permitted(b),
           Become(r, [q EXCEPT !.pc = "done", !.reply = reply], u)
    PROVE  PolicyInv'
  <1> DEFINE p == [q EXCEPT !.pc = "done", !.reply = reply]
  <1>1. Fielded(p) /\ p.pc = "done" /\ p.bound = q.bound
    BY Zenon DEF Fielded
  <1>2. Become(r, p, u)
    BY Zenon
  <1> HIDE DEF p
  <1>3. Sound(p)
    BY <1>1 DEF Sound, Underway
  <1>4. QED
    BY <1>2, <1>3, BecomeKeeps

\* A request that goes on, where its backends have been chosen already.
LEMMA GoesOn ==
    ASSUME PolicyInv, NEW r \in Requests, NEW q, NEW p, NEW u, cfg' = cfg, Ready(q),
           Fielded(p), p.primary = q.primary, p.at = q.at, p.bound = q.bound,
           p.pc \in {"waking", "verifying"} => Permitted(cfg.checker), Become(r, p, u)
    PROVE  PolicyInv'
  <1>1. Sound(p)
    BY DEF Ready, Sound
  <1>2. QED
    BY <1>1, BecomeKeeps

\* The same for a step that moves nothing but pc.
LEMMA MovesOn ==
    ASSUME PolicyInv, NEW r \in Requests, NEW q, NEW pc, NEW u, cfg' = cfg, Ready(q),
           pc \in {"waking", "verifying"} => Permitted(cfg.checker),
           Become(r, [q EXCEPT !.pc = pc], u)
    PROVE  PolicyInv'
  <1> DEFINE p == [q EXCEPT !.pc = pc]
  <1>1. /\ Fielded(p) /\ p.pc = pc /\ p.primary = q.primary
        /\ p.at = q.at /\ p.bound = q.bound
    BY Zenon DEF Ready, Fielded
  <1>2. Become(r, p, u)
    BY Zenon
  <1> HIDE DEF p
  <1>3. QED
    BY <1>1, <1>2, GoesOn

\* A handler that answers for itself ends.
LEMMA RefuseKeeps ==
    ASSUME PolicyInv, NEW r \in Requests, NEW q, NEW u, NEW status, NEW code,
           Fielded(q), \A b \in q.bound : Permitted(b), Refuse(r, q, u, status, code)
    PROVE  PolicyInv'
  <1>1. /\ cfg' = cfg
        /\ Become(r, [q EXCEPT !.pc = "done", !.reply = [by |-> "proxy", code |-> code]], u)
    BY Zenon DEF Refuse, WriteProxyEvent
  <1>2. QED
    BY <1>1, EndKeeps, Zenon

\* A backend is attempted only if it is the primary or a kept fallback.
LEMMA AttemptKeeps ==
    ASSUME PolicyInv, NEW r \in Requests, NEW q, NEW u, Ready(q), Attempt(r, q, u)
    PROVE  PolicyInv'
  <1> DEFINE b == BackendAt(q)
             start(pc) == [q EXCEPT !.pc = pc, !.bound = @ \cup {b}]
  <1>1. Permitted(b)
    BY DEF Ready, BackendAt, Target, FallbackChain, Permitted
  <1>2. ASSUME NEW pc \in {"starting", "posting"}, Become(r, start(pc), u), cfg' = cfg
        PROVE  PolicyInv'
    <2> DEFINE p == start(pc)
    <2>1. /\ Fielded(p) /\ p.pc = pc /\ p.primary = q.primary
          /\ p.at = q.at /\ p.bound = q.bound \cup {b}
      BY Zenon DEF Fielded, Ready
    <2>2. Become(r, p, u)
      BY <1>2, Zenon
    <2> HIDE DEF p
    <2>3. Sound(p)
      BY <2>1, <1>1, <1>2 DEF Ready, Sound
    <2>4. QED
      BY <1>2, <2>2, <2>3, BecomeKeeps
  <1>3. CASE Refuse(r, q, u, "upstream_api_unsupported", "502")
    BY <1>3, RefuseKeeps DEF Ready
  <1>4. CASE Become(r, start("starting"), u) /\ Quietly
    <2>1. cfg' = cfg
      BY <1>4, Zenon DEF Quietly
    <2>2. QED
      BY <1>2, <1>4, <2>1, Zenon
  <1>5. CASE Become(r, start("posting"), u) /\ Quietly
    <2>1. cfg' = cfg
      BY <1>5, Zenon DEF Quietly
    <2>2. QED
      BY <1>2, <1>5, <2>1, Zenon
  <1>6. QED
    BY <1>3, <1>4, <1>5, Zenon DEF Attempt

\* The next place in the chain is a kept one.
LEMMA AdvanceKeeps ==
    ASSUME PolicyInv, NEW r \in Requests, NEW q, NEW u, Ready(q), Advance(r, q, u)
    PROVE  PolicyInv'
  <1>1. PICK i \in Later(q) : Attempt(r, [q EXCEPT !.at = i], u)
    BY Zenon DEF Advance
  <1> DEFINE p == [q EXCEPT !.at = i]
  <1>2. Fielded(p) /\ p.primary = q.primary /\ p.at = i /\ p.bound = q.bound
    BY Zenon DEF Ready, Fielded
  <1>3. Attempt(r, p, u)
    BY <1>1, Zenon
  <1> HIDE DEF p
  <1>4. Ready(p)
    BY <1>2 DEF Ready, Later
  <1>5. QED
    BY <1>3, <1>4, AttemptKeeps

\* An answer that came in is a note; the request is where it was.
LEMMA CameReady ==
    ASSUME NEW q, NEW answer, Ready(q)
    PROVE  Ready(Came(q, answer))
  <1> DEFINE p == Came(q, answer)
  <1>1. Fielded(p) /\ p.primary = q.primary /\ p.at = q.at /\ p.bound = q.bound
    BY Zenon DEF Came, Ready, Fielded
  <1> HIDE DEF p
  <1>2. Ready(p)
    BY <1>1 DEF Ready
  <1>3. QED
    BY <1>2, Zenon DEF p

\* A request that has its answer ends.
LEMMA ConcludeKeeps ==
    ASSUME PolicyInv, NEW r \in Requests, NEW q, NEW v, NEW u, Ready(q),
           Conclude(r, [q EXCEPT !.verdict = v], u)
    PROVE  PolicyInv'
  <1> DEFINE p == [q EXCEPT !.verdict = v]
  <1>1. Fielded(p) /\ p.bound = q.bound
    BY Zenon DEF Ready, Fielded
  <1>2. Conclude(r, p, u)
    BY Zenon
  <1> HIDE DEF p
  <1>3. cfg' = cfg /\ \E reply : Become(r, [p EXCEPT !.pc = "done", !.reply = reply], u)
    BY <1>2, Zenon DEF Conclude, Record, WriteProxyEvent
  <1>4. \A b \in p.bound : Permitted(b)
    BY <1>1 DEF Ready
  <1>5. QED
    BY <1>1, <1>3, <1>4, EndKeeps, Zenon

\* The verifier is asked only if the policy permits it; in the modes that ask,
\* the configuration names one of its backends.
LEMMA VerifyKeeps ==
    ASSUME PolicyInv, NEW r \in Requests, NEW q, NEW u, Ready(q), Verify(r, q, u)
    PROVE  PolicyInv'
  <1>1. CASE \E v \in Qualification(q) \ {"ask"} : Conclude(r, [q EXCEPT !.verdict = v], u)
    BY <1>1, ConcludeKeeps, Zenon
  <1>2. CASE /\ "ask" \in Qualification(q) /\ Quietly
             /\ \E pc \in {"waking", "verifying"} :
                    Become(r, [q EXCEPT !.bound = @ \cup {cfg.checker}, !.pc = pc], u)
    <2>1. PICK pc \in {"waking", "verifying"} :
              Become(r, [q EXCEPT !.bound = @ \cup {cfg.checker}, !.pc = pc], u)
      BY <1>2, Zenon
    <2> DEFINE p == [q EXCEPT !.bound = @ \cup {cfg.checker}, !.pc = pc]
    <2>2. /\ Fielded(p) /\ p.pc = pc /\ p.primary = q.primary
          /\ p.at = q.at /\ p.bound = q.bound \cup {cfg.checker}
      BY Zenon DEF Ready, Fielded
    <2>3. Become(r, p, u) /\ cfg' = cfg
      BY <1>2, <2>1, Zenon DEF Quietly
    <2> HIDE DEF p
    <2>4. ~PolicyRejects(cfg, cfg.checker) /\ cfg.verifier \notin {"off", "receipt-only"}
      BY <1>2 DEF Qualification
    <2>5. cfg.checker \in cfg.backends
      BY <2>4 DEF PolicyInv, LoadProxyConfig, VerifierOK, VerifierModes
    <2>6. Sound(p)
      BY <2>2, <2>4, <2>5 DEF Ready, Sound, Permitted
    <2>7. QED
      BY <2>3, <2>6, BecomeKeeps
  <1>3. QED
    BY <1>1, <1>2, Zenon DEF Verify

\* The handler's first step: a backend is attempted only if it is permitted.
LEMMA ReceiveKeeps ==
    ASSUME PolicyInv, NEW r \in Requests, Receive(r)
    PROVE  PolicyInv'
  <1>1. PICK path \in Paths, stream \in BOOLEAN :
            \/ TurnAway(r, NewRequest(path, stream))
            \/ cfg.mode = "manual" /\ Manual(r, NewRequest(path, stream))
            \/ cfg.mode = "decision" /\ Decide(r, NewRequest(path, stream))
    BY Zenon DEF Receive
  <1> DEFINE q == NewRequest(path, stream)
  <1>2. Fielded(q) /\ q.at = 0 /\ q.bound = {}
    BY DEF NewRequest, Fielded
  <1> HIDE DEF q
  <1>3. ASSUME NEW p, p.bound = q.bound, Fielded(p), NEW u, NEW status, NEW code,
               Refuse(r, p, u, status, code)
        PROVE  PolicyInv'
    <2>1. \A b \in p.bound : Permitted(b)
      BY <1>2, <1>3
    <2>2. QED
      BY <1>3, <2>1, RefuseKeeps
  <1>4. ASSUME NEW p, p.bound = q.bound, p.at = q.at, Fielded(p), Permitted(p.primary), NEW u,
               Attempt(r, p, u)
        PROVE  PolicyInv'
    <2>1. Ready(p)
      BY <1>2, <1>4 DEF Ready
    <2>2. QED
      BY <1>4, <2>1, AttemptKeeps
  <1>5. CASE TurnAway(r, q)
    <2>1. \A b \in q.bound : Permitted(b)
      BY <1>2
    <2>2. cfg' = cfg
      BY <1>5, Zenon DEF TurnAway, Quietly
    <2>3. QED
      BY <1>2, <1>5, <2>1, <2>2, EndKeeps, Zenon DEF TurnAway
  <1>6. CASE cfg.mode = "manual" /\ Manual(r, q)
    <2> DEFINE chosen == [q EXCEPT !.primary = cfg.default, !.model = cfg.model]
    <2>1. /\ Fielded(chosen) /\ chosen.primary = cfg.default
          /\ chosen.at = q.at /\ chosen.bound = q.bound
      BY <1>2, Zenon DEF Fielded
    <2>2. CASE AskHuman(r, q)
      BY <1>2, <1>3, <2>2, Zenon DEF AskHuman
    <2>3. CASE \E u, status, code : Refuse(r, chosen, u, status, code)
      BY <1>3, <2>1, <2>3, Zenon
    <2>4. ASSUME ~PolicyRejects(cfg, cfg.default), NEW model,
                 Attempt(r, [chosen EXCEPT !.model = model], uses)
          PROVE  PolicyInv'
      <3> DEFINE p == [chosen EXCEPT !.model = model]
      <3>1. Attempt(r, p, uses)
        BY <2>4, Zenon
      <3> HIDE DEF chosen
      <3>2. Fielded(p) /\ p.primary = chosen.primary /\ p.at = chosen.at /\ p.bound = chosen.bound
        BY <2>1, Zenon DEF Fielded
      <3> HIDE DEF p
      <3>3. cfg.default \in cfg.backends
        BY <1>6 DEF PolicyInv, LoadProxyConfig, ModeConfigOK
      <3>4. Permitted(p.primary)
        BY <2>1, <2>4, <3>2, <3>3 DEF Permitted
      <3>5. QED
        BY <1>4, <2>1, <3>1, <3>2, <3>4, Zenon
    <2>5. QED
      BY <1>6, <2>2, <2>3, <2>4, Zenon DEF Manual
  <1>7. CASE cfg.mode = "decision" /\ Decide(r, q)
    <2>1. CASE AskHuman(r, q)
      BY <1>2, <1>3, <2>1, Zenon DEF AskHuman
    <2>2. CASE \E u, status, code : Refuse(r, q, u, status, code)
      BY <1>2, <1>3, <2>2, Zenon
    <2>3. ASSUME NEW e \in Engines,
                 \E u, status, code :
                    Refuse(r, [q EXCEPT !.primary = EngineBackend(cfg, e)], u, status, code)
          PROVE  PolicyInv'
      <3> DEFINE p == [q EXCEPT !.primary = EngineBackend(cfg, e)]
      <3>1. Fielded(p) /\ p.bound = q.bound
        BY <1>2, Zenon DEF Fielded
      <3>2. QED
        BY <1>3, <2>3, <3>1, Zenon
    <2>4. ASSUME NEW e \in Engines, EngineBackend(cfg, e) # NoBackend,
                 ~PolicyRejects(cfg, EngineBackend(cfg, e)),
                 Attempt(r, [q EXCEPT !.primary = EngineBackend(cfg, e), !.model = "own"], uses)
          PROVE  PolicyInv'
      <3> DEFINE b == EngineBackend(cfg, e)
                 p == [q EXCEPT !.primary = b, !.model = "own"]
      <3>1. Fielded(p) /\ p.primary = b /\ p.at = q.at /\ p.bound = q.bound
        BY <1>2, Zenon DEF Fielded
      <3>2. Attempt(r, p, uses)
        BY <2>4, Zenon
      <3> HIDE DEF p
      <3>3. Permitted(b)
        BY <2>4 DEF EngineBackend, PolicyInv, LoadProxyConfig, EngineBackendsOK, Permitted
      <3>4. QED
        BY <1>4, <3>1, <3>2, <3>3, Zenon
    <2>5. QED
      BY <1>7, <2>1, <2>2, <2>3, <2>4, Zenon DEF Decide
  <1>8. QED
    BY <1>1, <1>5, <1>6, <1>7, Zenon DEF q

\* Every later step of a handler.
LEMMA HandleKeeps ==
    ASSUME PolicyInv, NEW r \in Requests, Handle(r) \/ StreamEnds(r)
    PROVE  PolicyInv'
  <1> DEFINE q == req[r]
  <1>1. Sound(q)
    BY DEF PolicyInv
  <1>2. Quietly => cfg' = cfg
    BY Zenon DEF Quietly
  <1>3. q.pc \in Underway => Ready(q)
    BY <1>1 DEF Sound
  <1>4. ASSUME Ready(q), NEW answer PROVE Ready(Came(q, answer))
    BY <1>4, CameReady
  <1>5. ASSUME NEW p, Ready(p) PROVE Fielded(p) /\ \A b \in p.bound : Permitted(b)
    BY <1>5 DEF Ready
  <1>6. CASE StartOK(r)
    <2>1. Ready(q)
      BY <1>3, <1>6 DEF StartOK, Underway
    <2>2. cfg' = cfg /\ \E u : Become(r, [q EXCEPT !.pc = "posting"], u)
      BY <1>2, <1>6, Zenon DEF StartOK
    <2>3. QED
      BY <2>1, <2>2, MovesOn
  <1>7. CASE StartFails(r)
    <2>1. Ready(q)
      BY <1>3, <1>7 DEF StartFails, Underway
    <2>2. QED
      BY <1>5, <1>7, <2>1, RefuseKeeps, Zenon DEF StartFails
  <1>8. CASE CallFails(r)
    <2>1. Ready(Came(q, "error"))
      BY <1>3, <1>4, <1>8 DEF CallFails, Underway
    <2>2. \E u : \/ Advance(r, Came(q, "error"), u)
                 \/ Refuse(r, Came(q, "error"), u, "upstream_request_failed", "502")
      BY <1>8, Zenon DEF CallFails
    <2>3. QED
      BY <1>5, <2>1, <2>2, AdvanceKeeps, RefuseKeeps, Zenon
  <1>9. CASE ServerError(r)
    <2>1. Ready(Came(q, "5xx"))
      BY <1>3, <1>4, <1>9 DEF ServerError, Underway
    <2>2. QED
      BY <1>2, <1>9, <2>1, AdvanceKeeps, MovesOn, Zenon DEF ServerError
  <1>10. CASE Closed(r)
    <2>1. Ready(q)
      BY <1>3, <1>10 DEF Closed, Underway
    <2>2. QED
      BY <1>10, <2>1, AdvanceKeeps, Zenon DEF Closed
  <1>11. CASE CloseFails(r)
    <2>1. Ready(q)
      BY <1>3, <1>11 DEF CloseFails, Underway
    <2>2. QED
      BY <1>2, <1>5, <1>11, <2>1, EndKeeps, Zenon DEF CloseFails
  <1>12. CASE Answered(r)
    <2>1. PICK answer \in {"ok", "5xx"} :
            LET p == Came(q, answer) IN
            \/ Verify(r, p, End(BackendAt(p), uses))
            \/ Become(r, [p EXCEPT !.pc = "opened"], uses) /\ Quietly
      BY <1>12, Zenon DEF Answered
    <2>2. Ready(Came(q, answer))
      BY <1>3, <1>4, <1>12 DEF Answered, Underway
    <2>3. QED
      BY <1>2, <2>1, <2>2, VerifyKeeps, MovesOn, Zenon
  <1>13. CASE VerifierStarts(r)
    <2>1. Ready(q) /\ Permitted(cfg.checker)
      BY <1>1, <1>3, <1>13 DEF VerifierStarts, Underway, Sound
    <2>2. QED
      BY <1>2, <1>13, <2>1, MovesOn, ConcludeKeeps, Zenon DEF VerifierStarts
  <1>14. CASE VerifierAnswers(r)
    <2>1. Ready(q)
      BY <1>3, <1>14 DEF VerifierAnswers, Underway
    <2>2. QED
      BY <1>14, <2>1, ConcludeKeeps, Zenon DEF VerifierAnswers
  <1>15. CASE StreamBegins(r)
    <2>1. PICK reply : Become(r, [q EXCEPT !.pc = "streaming", !.reply = reply], uses)
      BY <1>15, Zenon DEF StreamBegins
    <2> DEFINE p == [q EXCEPT !.pc = "streaming", !.reply = reply]
    <2>2. Ready(q) /\ cfg' = cfg
      BY <1>2, <1>3, <1>15, Zenon DEF StreamBegins, Underway
    <2>3. Fielded(p) /\ p.primary = q.primary /\ p.at = q.at /\ p.bound = q.bound
          /\ p.pc = "streaming"
      BY <2>2, Zenon DEF Ready, Fielded
    <2>4. Become(r, p, uses)
      BY <2>1, Zenon
    <2> HIDE DEF p
    <2>5. QED
      BY <2>2, <2>3, <2>4, GoesOn
  <1>16. CASE Abandon(r)
    <2>1. Ready(q)
      BY <1>3, <1>16 DEF Abandon, Underway
    <2>2. QED
      BY <1>2, <1>16, <2>1, MovesOn, Zenon DEF Abandon
  <1>17. CASE StreamFinishes(r)
    <2>1. Ready(q)
      BY <1>3, <1>17 DEF StreamFinishes, Underway
    <2>2. \E u, status, code : Record(r, [q EXCEPT !.pc = "done"], u, status, code)
      BY <1>17, Zenon DEF StreamFinishes
    <2>3. cfg' = cfg /\ \E u : Become(r, [q EXCEPT !.pc = "done"], u)
      BY <2>2, Zenon DEF Record, WriteProxyEvent
    <2>4. QED
      BY <2>1, <2>3, MovesOn
  <1>18. CASE StreamEnds(r)
    <2>1. PICK end : Become(r, [q EXCEPT !.pc = "finishing", !.end = end], uses)
      BY <1>18, Zenon DEF StreamEnds
    <2> DEFINE p == [q EXCEPT !.pc = "finishing", !.end = end]
    <2>2. Ready(q) /\ cfg' = cfg
      BY <1>2, <1>3, <1>18, Zenon DEF StreamEnds, Underway
    <2>3. Fielded(p) /\ p.primary = q.primary /\ p.at = q.at /\ p.bound = q.bound
          /\ p.pc = "finishing"
      BY <2>2, Zenon DEF Ready, Fielded
    <2>4. Become(r, p, uses)
      BY <2>1, Zenon
    <2> HIDE DEF p
    <2>5. QED
      BY <2>2, <2>3, <2>4, GoesOn
  <1>19. QED
    BY <1>6, <1>7, <1>8, <1>9, <1>10, <1>11, <1>12, <1>13, <1>14, <1>15, <1>16, <1>17, <1>18,
       Zenon DEF Handle
-----------------------------------------------------------------------------
\* The invariant holds of every behaviour.
LEMMA AlwaysPolicy == Spec => []PolicyInv
  <1>1. Init => PolicyInv
    <2>1. ASSUME NEW q, q = NewRequest("chat/completions", FALSE) PROVE Sound(q)
      BY <2>1 DEF NewRequest, Sound, Fielded, Underway
    <2>2. QED
      BY <2>1 DEF Init, PolicyInv
  <1>2. PolicyInv /\ [Next]_vars => PolicyInv'
    <2>1. ASSUME PolicyInv, Next PROVE PolicyInv'
      BY <2>1, ReceiveKeeps, HandleKeeps DEF Next
    <2>2. ASSUME PolicyInv, UNCHANGED vars PROVE PolicyInv'
      BY <2>2 DEF PolicyInv, Sound, Ready, Permitted, vars
    <2>3. QED
      BY <2>1, <2>2
  <1>3. QED
    BY <1>1, <1>2, PTL DEF Spec

\* A request starts, calls or asks for verification only backends of the loaded
\* configuration that its policy permits, however they came to be chosen.
THEOREM PolicyHolds == Spec => []PolicyRespected
  <1>1. PolicyInv => PolicyRespected
    BY DEF PolicyInv, Sound, Permitted, PolicyRespected
  <1>2. QED
    BY <1>1, AlwaysPolicy, PTL

-----------------------------------------------------------------------------
(* The places a request may be sent to, in their order.                    *)

\* A configuration this process may have loaded.
Loaded(c) == c \in Files /\ LoadProxyConfig(c)

\* A chain is a sequence of names.
LEMMA ChainTyped ==
    ASSUME NEW c, Loaded(c), NEW b
    PROVE  Configured(c, b) \in Seq(Names)
  <1>1. CASE b \in DOMAIN c.fallback
    BY <1>1, FilesAssumption DEF Loaded, Configured
  <1>2. CASE b \notin DOMAIN c.fallback
    BY <1>2 DEF Configured
  <1>3. QED
    BY <1>1, <1>2

\* There are finitely many places, and each has a rank.
LEMMA PlacesFinite ==
    ASSUME NEW c, Loaded(c), NEW b
    PROVE  /\ IsFiniteSet(Places(c, b)) /\ Places(c, b) \subseteq Nat /\ 0 \in Places(c, b)
           /\ Cardinality(Places(c, b)) \in Nat
           /\ \A i : IsFiniteSet({j \in Places(c, b) : j <= i}) /\ Rank(c, b, i) \in Nat
  <1>1. DOMAIN Configured(c, b) = 1 .. Len(Configured(c, b)) /\ Len(Configured(c, b)) \in Nat
    BY ChainTyped
  <1>2. IsFiniteSet(0 .. Len(Configured(c, b)))
    BY <1>1, FS_Interval
  <1>3. Places(c, b) \subseteq 0 .. Len(Configured(c, b))
    BY <1>1 DEF Places
  <1>4. IsFiniteSet(Places(c, b))
    BY <1>2, <1>3, FS_Subset
  <1>5. ASSUME NEW i PROVE IsFiniteSet({j \in Places(c, b) : j <= i})
    BY <1>4, FS_Subset
  <1>6. ASSUME NEW i PROVE Rank(c, b, i) \in Nat
    BY <1>5, FS_CardinalityType DEF Rank
  <1>7. 0 \in Places(c, b)
    BY DEF Places
  <1>8. Places(c, b) \subseteq Nat
    BY <1>1, <1>3
  <1>9. Cardinality(Places(c, b)) \in Nat
    BY <1>4, FS_CardinalityType
  <1>10. QED
    BY <1>4, <1>5, <1>6, <1>7, <1>8, <1>9

\* A place comes right after another one when there is none between them.
LEMMA RankNext ==
    ASSUME NEW c, Loaded(c), NEW b, NEW i \in Places(c, b), NEW j \in Places(c, b),
           i < j, \A k \in Places(c, b) : k <= i \/ j <= k
    PROVE  Rank(c, b, j) = Rank(c, b, i) + 1
  <1> DEFINE S == {k \in Places(c, b) : k <= i}
             T == {k \in Places(c, b) : k <= j}
  <1>1. i \in Nat /\ j \in Nat /\ Places(c, b) \subseteq Nat
    BY PlacesFinite
  <1>2. T = S \cup {j} /\ j \notin S
    BY <1>1
  <1>3. IsFiniteSet(S)
    BY PlacesFinite
  <1> HIDE DEF S, T
  <1>4. Cardinality(T) = Cardinality(S) + 1
    BY <1>2, <1>3, FS_AddElement
  <1>5. QED
    BY <1>4 DEF S, T, Rank

\* Of two places the later one has the greater rank.
LEMMA RankGrows ==
    ASSUME NEW c, Loaded(c), NEW b, NEW i \in Places(c, b), NEW j \in Places(c, b), i < j
    PROVE  Rank(c, b, i) + 1 <= Rank(c, b, j)
  <1> DEFINE S == {k \in Places(c, b) : k <= i}
             T == {k \in Places(c, b) : k <= j}
  <1>1. i \in Nat /\ j \in Nat /\ Places(c, b) \subseteq Nat
    BY PlacesFinite
  <1>2. S \cup {j} \subseteq T /\ j \notin S
    BY <1>1
  <1>3. IsFiniteSet(S) /\ IsFiniteSet(T)
    BY PlacesFinite
  <1> HIDE DEF S, T
  <1>4. Cardinality(S \cup {j}) = Cardinality(S) + 1 /\ Cardinality(S \cup {j}) <= Cardinality(T)
    BY <1>2, <1>3, FS_AddElement, FS_Subset
  <1>5. QED
    BY <1>4 DEF S, T, Rank

\* Ranks count from 1 to the number of places.
LEMMA RankBounds ==
    ASSUME NEW c, Loaded(c), NEW b, NEW i \in Places(c, b)
    PROVE  /\ Rank(c, b, i) \in 1 .. Cardinality(Places(c, b))
           /\ Rank(c, b, 0) = 1
           /\ (\A j \in Places(c, b) : j <= i) => Rank(c, b, i) = Cardinality(Places(c, b))
  <1> DEFINE S == {k \in Places(c, b) : k <= i}
  <1>1. i \in Nat /\ Places(c, b) \subseteq Nat /\ 0 \in Places(c, b)
    BY PlacesFinite
  <1>2. IsFiniteSet(S) /\ IsFiniteSet(Places(c, b))
    BY PlacesFinite
  <1>3. S \subseteq Places(c, b) /\ S # {}
    BY <1>1
  <1>4. {k \in Places(c, b) : k <= 0} = {0}
    BY <1>1
  <1>5. Rank(c, b, 0) = 1
    BY <1>4, FS_Singleton DEF Rank
  <1>6. (\A j \in Places(c, b) : j <= i) => S = Places(c, b)
    OBVIOUS
  <1> HIDE DEF S
  <1>7. Cardinality(S) \in Nat \ {0} /\ Cardinality(Places(c, b)) \in Nat
    BY <1>2, <1>3, FS_EmptySet, FS_CardinalityType
  <1>8. Cardinality(S) <= Cardinality(Places(c, b))
    BY <1>2, <1>3, FS_Subset
  <1>9. Rank(c, b, i) = Cardinality(S)
    BY DEF S, Rank
  <1>10. QED
    BY <1>5, <1>6, <1>7, <1>8, <1>9

\* No two places have the same rank.
LEMMA RankTells ==
    ASSUME NEW c, Loaded(c), NEW b, NEW i \in Places(c, b), NEW j \in Places(c, b),
           Rank(c, b, i) = Rank(c, b, j)
    PROVE  i = j
  <1>1. i \in Nat /\ j \in Nat /\ Rank(c, b, i) \in Nat /\ Rank(c, b, j) \in Nat
    BY PlacesFinite
  <1>2. QED
    BY <1>1, RankGrows
-----------------------------------------------------------------------------
(* A loaded configuration has no backend that falls back to itself.        *)

\* A way down the chains: each name but the first is a fallback of the one before.
Way(c, w, k) ==
    /\ w \in [Nat -> Names]
    /\ \A j \in 0 .. k - 1 : \E i \in DOMAIN Configured(c, w[j]) : Configured(c, w[j])[i] = w[j + 1]

\* No way from n comes back to where it has been, or to the trail.
Clear(c, n, trail) ==
    \A k \in Nat : \A w \in [Nat -> Names] : Way(c, w, k) /\ w[0] = n =>
        /\ \A j \in 0 .. k : w[j] \notin trail
        /\ \A i, j \in 0 .. k : w[i] = w[j] => i = j

\* visit, which follows the chains from a name, finds out just that.
LEMMA ClearVisits ==
    ASSUME NEW c, \A n \in Names : \A i \in DOMAIN Configured(c, n) : Configured(c, n)[i] \in Names,
           NEW n \in Names, NEW trail \in SUBSET Names
    PROVE  Clear(c, n, trail) <=>
              /\ n \notin trail
              /\ \A i \in DOMAIN Configured(c, n) : Clear(c, Configured(c, n)[i], trail \cup {n})
  <1>1. ASSUME Clear(c, n, trail) PROVE n \notin trail
    <2> DEFINE w == [j \in Nat |-> n]
    <2>1. Way(c, w, 0) /\ w[0] = n /\ w \in [Nat -> Names]
      BY DEF Way
    <2> HIDE DEF w
    <2>2. \A j \in 0 .. 0 : w[j] \notin trail
      BY <1>1, <2>1 DEF Clear
    <2> QED BY <2>1, <2>2
  <1>2. ASSUME Clear(c, n, trail), NEW i \in DOMAIN Configured(c, n)
        PROVE  Clear(c, Configured(c, n)[i], trail \cup {n})
    <2> SUFFICES ASSUME NEW k \in Nat, NEW w \in [Nat -> Names], Way(c, w, k), w[0] = Configured(c, n)[i]
                  PROVE  /\ \A j \in 0 .. k : w[j] \notin trail \cup {n}
                         /\ \A l, j \in 0 .. k : w[l] = w[j] => l = j
      BY DEF Clear
    <2> DEFINE v == [j \in Nat |-> IF j = 0 THEN n ELSE w[j - 1]]
    <2>1. v \in [Nat -> Names] /\ v[0] = n /\ \A j \in Nat : v[j + 1] = w[j]
      OBVIOUS
    <2> HIDE DEF v
    <2>2. ASSUME NEW j \in 0 .. k
          PROVE  \E l \in DOMAIN Configured(c, v[j]) : Configured(c, v[j])[l] = v[j + 1]
      <3>1. CASE j = 0
        BY <2>1, <3>1
      <3>2. CASE j # 0
        <4>1. j - 1 \in 0 .. k - 1 /\ v[j] = w[j - 1] /\ v[j + 1] = w[j] /\ (j - 1) + 1 = j
          BY <2>1, <3>2
        <4> QED BY <4>1 DEF Way
      <3> QED BY <3>1, <3>2
    <2>3. Way(c, v, k + 1)
      BY <2>1, <2>2 DEF Way
    <2>4. /\ \A j \in 0 .. k + 1 : v[j] \notin trail
          /\ \A l, j \in 0 .. k + 1 : v[l] = v[j] => l = j
      BY <1>2, <2>1, <2>3 DEF Clear
    <2>5. \A j \in 0 .. k : j + 1 \in 0 .. k + 1 /\ v[j + 1] = w[j] /\ v[j + 1] # v[0]
      BY <2>1, <2>4
    <2>6. \A j \in 0 .. k : w[j] \notin trail \cup {n}
      BY <2>1, <2>4, <2>5
    <2>7. \A l, j \in 0 .. k : w[l] = w[j] => l = j
      BY <2>4, <2>5
    <2> QED BY <2>6, <2>7
  <1>3. ASSUME n \notin trail,
               \A i \in DOMAIN Configured(c, n) : Clear(c, Configured(c, n)[i], trail \cup {n})
        PROVE  Clear(c, n, trail)
    <2> SUFFICES ASSUME NEW k \in Nat, NEW w \in [Nat -> Names], Way(c, w, k), w[0] = n
                  PROVE  /\ \A j \in 0 .. k : w[j] \notin trail
                         /\ \A l, j \in 0 .. k : w[l] = w[j] => l = j
      BY DEF Clear
    <2>1. CASE k = 0
      BY <1>3, <2>1
    <2>2. CASE k # 0
      <3> DEFINE v == [j \in Nat |-> w[j + 1]]
      <3>1. v \in [Nat -> Names] /\ \A j \in Nat : v[j] = w[j + 1]
        OBVIOUS
      <3> HIDE DEF v
      <3>2. PICK i \in DOMAIN Configured(c, n) : Configured(c, n)[i] = v[0]
        BY <2>2, <3>1 DEF Way
      <3>3. Way(c, v, k - 1)
        <4>1. ASSUME NEW j \in 0 .. (k - 1) - 1
              PROVE  \E l \in DOMAIN Configured(c, v[j]) : Configured(c, v[j])[l] = v[j + 1]
          <5>1. j + 1 \in 0 .. k - 1 /\ v[j] = w[j + 1] /\ v[j + 1] = w[(j + 1) + 1]
            BY <3>1
          <5> QED BY <5>1 DEF Way
        <4> QED BY <3>1, <4>1 DEF Way
      <3>4. k - 1 \in Nat
        BY <2>2
      <3>5. /\ \A j \in 0 .. k - 1 : v[j] \notin trail \cup {n}
            /\ \A l, j \in 0 .. k - 1 : v[l] = v[j] => l = j
        BY <1>3, <3>1, <3>2, <3>3, <3>4 DEF Clear
      <3>6. \A j \in 1 .. k : j - 1 \in 0 .. k - 1 /\ w[j] = v[j - 1]
        BY <3>1
      <3>7. \A j \in 0 .. k : j = 0 \/ j \in 1 .. k
        OBVIOUS
      <3>8. \A j \in 0 .. k : w[j] \notin trail
        BY <1>3, <3>5, <3>6, <3>7
      <3>9. \A l, j \in 1 .. k : w[l] = w[j] => l = j
        <4> TAKE l, j \in 1 .. k
        <4> HAVE w[l] = w[j]
        <4>1. l - 1 = j - 1
          BY <3>5, <3>6
        <4> QED BY <4>1
      <3>10. \A j \in 1 .. k : w[j] # w[0]
        BY <3>5, <3>6
      <3> QED BY <3>7, <3>8, <3>9, <3>10
    <2> QED BY <2>1, <2>2
  <1> QED BY <1>1, <1>2, <1>3

\* So a configuration that passed _validate_no_fallback_cycles has no backend that is a
\* fallback of its own.
LEMMA NotItsOwnFallback ==
    ASSUME NEW c, Loaded(c), NEW b \in DOMAIN c.fallback, NEW i \in DOMAIN c.fallback[b]
    PROVE  c.fallback[b][i] # b
  <1> DEFINE E(f) == f = [trail \in SUBSET Names |->
                            [n \in Names |-> n \notin trail /\ \A j \in DOMAIN Configured(c, n) :
                                                 f[trail \cup {n}][Configured(c, n)[j]]]]
              F == [trail \in SUBSET Names |-> [n \in Names |-> Clear(c, n, trail)]]
              v == CHOOSE f : E(f)
  <1>1. \A n \in Names : \A j \in DOMAIN Configured(c, n) : Configured(c, n)[j] \in Names
    BY ChainTyped
  <1>2. E(F)
    <2>1. ASSUME NEW n \in Names, NEW trail \in SUBSET Names
          PROVE  Clear(c, n, trail) <=> (n \notin trail /\ \A j \in DOMAIN Configured(c, n) :
                                                 F[trail \cup {n}][Configured(c, n)[j]])
      <3>1. trail \cup {n} \in SUBSET Names
        OBVIOUS
      <3>2. F[trail \cup {n}] = [m \in Names |-> Clear(c, m, trail \cup {n})]
        BY <3>1, Zenon
      <3>3. \A m \in Names : F[trail \cup {n}][m] = Clear(c, m, trail \cup {n})
        BY <3>2, Zenon
      <3>4. \A j \in DOMAIN Configured(c, n) : 
             F[trail \cup {n}][Configured(c, n)[j]] = Clear(c, Configured(c, n)[j], trail \cup {n})
        BY <1>1, <3>3, Zenon
      <3> HIDE DEF F
      <3> QED BY <1>1, <3>4, ClearVisits, Zenon
    <2> DEFINE G(trail, n) == (n \notin trail /\ \A j \in DOMAIN Configured(c, n) :
                                                 F[trail \cup {n}][Configured(c, n)[j]])
    <2>2. \A trail \in SUBSET Names : \A n \in Names : Clear(c, n, trail) = G(trail, n)
      <3>1. \A trail, n : Clear(c, n, trail) \in BOOLEAN /\ G(trail, n) \in BOOLEAN
         BY DEF Clear
      <3>2. \A trail \in SUBSET Names : \A n \in Names : Clear(c, n, trail) <=> G(trail, n)
         BY <2>1, Zenon
      <3> HIDE DEF G
      <3>3. QED BY <3>1, <3>2, Zenon
    <2>3. F = [trail \in SUBSET Names |-> [n \in Names |-> G(trail, n)]]
      <3> HIDE DEF G
      <3>1. \A trail \in SUBSET Names : [n \in Names |-> Clear(c, n, trail)] = [n \in Names |-> G(trail, n)]
        BY <2>2, Zenon
      <3> QED BY <3>1, Zenon
    <2> QED BY <2>3, Zenon
  <1>3. E(v)
    <2> HIDE DEF E, F
    <2> QED BY <1>2, Zenon
  <1>4. v[{}][b]
    BY Zenon DEF Loaded, LoadProxyConfig, NoFallbackCycles
  <1>5. /\ b \in Names /\ {} \in SUBSET Names /\ {b} \in SUBSET Names
        /\ {} \cup {b} = {b} /\ Configured(c, b) = c.fallback[b]
    BY FilesAssumption DEF Loaded, LoadProxyConfig, FallbackBackendsOK, Configured
  <1> HIDE DEF v
  <1>6. v[{}] = [n \in Names |-> n \notin {} /\ \A j \in DOMAIN Configured(c, n) :
                                                 v[{} \cup {n}][Configured(c, n)[j]]]
    BY <1>3, <1>5, Zenon
  <1>7. v[{b}] = [n \in Names |-> n \notin {b} /\ \A j \in DOMAIN Configured(c, n) :
                                                 v[{b} \cup {n}][Configured(c, n)[j]]]
    BY <1>3, <1>5, Zenon
  <1>8. v[{b}][Configured(c, b)[i]]
    <2>1. v[{}][b] = (b \notin {} /\ \A j \in DOMAIN Configured(c, b) : v[{} \cup {b}][Configured(c, b)[j]])
      BY <1>5, <1>6, Zenon
    <2> QED BY <1>4, <1>5, <2>1, Zenon
  <1>9. Configured(c, b)[i] = b => FALSE
    <2> SUFFICES ASSUME Configured(c, b)[i] = b PROVE FALSE
      OBVIOUS
    <2>1. v[{b}][b]
      BY <1>8, Zenon
    <2>2. v[{b}][b] = (b \notin {b} /\ \A j \in DOMAIN Configured(c, b) : v[{b} \cup {b}][Configured(c, b)[j]])
      BY <1>5, <1>7, Zenon
    <2>3. b \notin {b}
      BY <2>1, <2>2, Zenon
    <2> QED BY <2>3
  <1> QED BY <1>9, <1>5, <1>1, Zenon
-----------------------------------------------------------------------------
(* What holds of a request, as far as its answer and its records go.       *)

Fields == {"pc", "path", "stream", "primary", "model", "at", "attempts", "bound",
           "verdict", "end", "reply"}
Sent == [to : Names, model : Models, came : Answers]

Typed(c, q) ==
    /\ DOMAIN q = Fields
    /\ q.primary \in Names \cup {NoBackend}
    /\ q.model \in Models \cup {"none"}
    /\ q.at \in Places(c, q.primary)
    /\ q.attempts \in Seq(Sent)

\* The request was sent to the first places of the chain in their order, and all
\* but the last one failed.
Walked(c, q) ==
    /\ Len(q.attempts) <= Cardinality(Places(c, q.primary))
    /\ \A i \in Places(c, q.primary) :
            Rank(c, q.primary, i) <= Len(q.attempts)
                => q.attempts[Rank(c, q.primary, i)].to = Target(c, q.primary, i)
    /\ \A n \in 1 .. Len(q.attempts) - 1 : q.attempts[n].came \in {"error", "5xx"}

\* A backend has been chosen for it.
Chosen(c, q) == Typed(c, q) /\ Walked(c, q) /\ q.primary \in c.backends /\ q.model \in Models

Unanswered(q) == q.reply.by = "nobody" /\ q.end = "none"

\* Its place is the next to be tried; it has been tried in vain.
Trying(c, q) ==
    /\ Chosen(c, q) /\ Unanswered(q)
    /\ Len(q.attempts) + 1 = Rank(c, q.primary, q.at)
    /\ \A n \in 1 .. Len(q.attempts) : q.attempts[n].came \in {"error", "5xx"}
Tried(c, q) ==
    /\ Chosen(c, q) /\ Unanswered(q)
    /\ Len(q.attempts) = Rank(c, q.primary, q.at)
    /\ \A n \in 1 .. Len(q.attempts) : q.attempts[n].came \in {"error", "5xx"}

\* The backend at its place gave the answer: a good one, or the last.
Answering(c, q) ==
    /\ Chosen(c, q)
    /\ Len(q.attempts) = Rank(c, q.primary, q.at)
    /\ q.attempts[Len(q.attempts)].model = ModelAt(q)
    /\ Last(q) \in {"ok", "5xx"}
    /\ Last(q) = "5xx" => \A j \in Places(c, q.primary) : j <= q.at

\* The verifier passed the answer or was not asked, or the answer need not pass.
Excused(c, q) ==
    /\ c.closed /\ c.verifier # "off" /\ ~Streams(q)
    /\ q.reply = [by |-> "backend", code |-> "ok"]
    => q.verdict \notin {"none", "failed", "error"}

Fit(c, q) ==
    /\ Typed(c, q) /\ Walked(c, q) /\ Excused(c, q)
    /\ q.pc \notin {"streaming", "finishing", "done"} => q.reply.by = "nobody"
    /\ q.pc \notin {"finishing", "done"} => q.end = "none"
    /\ q.pc \in {"starting", "posting"} => Trying(c, q)
    /\ q.pc = "closing" => Tried(c, q)
    /\ q.pc \in {"opened", "streaming", "finishing", "waking", "verifying"} => Answering(c, q)
    /\ q.pc \in {"opened", "streaming", "finishing"} => Streams(q)
    /\ q.pc \in {"streaming", "finishing"} => q.reply = [by |-> "backend", code |-> Last(q)]
    /\ q.reply = [by |-> "backend", code |-> "5xx"]
            => Len(q.attempts) = Cardinality(Places(c, q.primary))

Row == [status : ErrorStatuses \cup {"human_confirm", "unknown_model", "forwarded",
                                     "stream_interrupted"},
        backend : Names \cup {NoBackend}, model : Models \cup {"none"},
        fallback : BOOLEAN, code : {"ok", "5xx", "404", "409", "502"}]

\* What a row says of a request that is done.
Tells(c, q, row) ==
    /\ row \in Row
    /\ row.code = q.reply.code
    /\ row.status \in {"forwarded", "stream_interrupted", "verification_failed"} =>
        /\ row.backend = q.attempts[Len(q.attempts)].to
        /\ row.model = q.attempts[Len(q.attempts)].model
        /\ row.fallback = (Len(q.attempts) > 1)
    /\ row.status = "upstream_request_failed" =>
        Len(q.attempts) = Cardinality(Places(c, q.primary)) /\ Last(q) = "error"

\* The proxy or a backend has replied: such a request leaves a row and is counted.
Replied(q) == q.pc = "done" /\ q.reply.by \in {"proxy", "backend"}

LogFits(c, q, rows) ==
    /\ rows \in Seq(Row)
    /\ Len(rows) = IF c.observed /\ Replied(q) THEN 1 ELSE 0
    /\ \A n \in DOMAIN rows : Tells(c, q, rows[n])

Erred(q) == q.reply = [by |-> "proxy", code |-> "502"]
Interrupted(q) == q.pc = "done" /\ q.end \in {"upstream_error", "cancelled"}

\* What the request adds to the uses of b: its attempt, and its verification.
Holds(c, q, b) == q.pc \in UsingPC /\ Target(c, q.primary, q.at) = b
Checks(c, q, b) == q.pc = "verifying" /\ c.checker = b
Share(c, q, b) == (IF Holds(c, q, b) THEN 1 ELSE 0) + (IF Checks(c, q, b) THEN 1 ELSE 0)

Stats == [{"total", "fallbacks", "interruptions", "errors"} -> Nat]

RecordInv ==
    /\ Loaded(cfg)
    /\ DOMAIN req = Requests /\ DOMAIN log = Requests
    /\ \A r \in Requests : Fit(cfg, req[r])
    /\ \A r \in Requests : LogFits(cfg, req[r], log[r])
    /\ uses \in [Names -> Nat] /\ UsesBalanced
    /\ stats \in Stats /\ StatsAddUp

\* u is uses once r, which goes on as p, has given back and taken what it must;
\* Freed: once it has given back what it had.
Settles(r, p, u) ==
    /\ u \in [Names -> Int]
    /\ \A b \in cfg.managed : u[b] + Share(cfg, req[r], b) = uses[b] + Share(cfg, p, b)
    /\ \A b \in Names \ cfg.managed : u[b] = uses[b]
Freed(r, u) ==
    /\ u \in [Names -> Int]
    /\ \A b \in cfg.managed : u[b] + Share(cfg, req[r], b) = uses[b]
    /\ \A b \in Names \ cfg.managed : u[b] = uses[b]
-----------------------------------------------------------------------------
\* Two sets of requests that differ by r at most differ by one in number.
LEMMA CountOne ==
    ASSUME NEW r \in Requests, NEW S \in SUBSET Requests, NEW T \in SUBSET Requests,
           S \ {r} = T \ {r}
    PROVE  /\ Cardinality(S) \in Nat /\ Cardinality(T) \in Nat
           /\ Cardinality(T) + (IF r \in S THEN 1 ELSE 0)
                = Cardinality(S) + (IF r \in T THEN 1 ELSE 0)
  <1>1. IsFiniteSet(S) /\ IsFiniteSet(T)
    BY RequestsAssumption, FS_Subset
  <1>2. Cardinality(S) \in Nat /\ Cardinality(T) \in Nat
    BY <1>1, FS_CardinalityType
  <1>3. /\ Cardinality(S \ {r}) = IF r \in S THEN Cardinality(S) - 1 ELSE Cardinality(S)
        /\ Cardinality(T \ {r}) = IF r \in T THEN Cardinality(T) - 1 ELSE Cardinality(T)
    BY <1>1, FS_RemoveElement
  <1>4. Cardinality(S \ {r}) = Cardinality(T \ {r})
    OBVIOUS
  <1> HIDE <1>1
  <1>5. QED
    BY <1>2, <1>3, <1>4

\* The uses stay what the requests have of them.
LEMMA UsesKeep ==
    ASSUME RecordInv, NEW r \in Requests, NEW p, NEW u, Settles(r, p, u), Become(r, p, u),
           cfg' = cfg
    PROVE  uses' \in [Names -> Nat] /\ UsesBalanced'
  <1> DEFINE A(f, b) == {s \in Requests : Holds(cfg, f[s], b)}
             B(f, b) == {s \in Requests : Checks(cfg, f[s], b)}
  <1>1. /\ \A s \in Requests : req'[s] = IF s = r THEN p ELSE req[s]
        /\ uses' = u
    BY DEF RecordInv, Become
  <1>2. ASSUME NEW b \in cfg.managed
        PROVE  u[b] \in Nat /\ u[b] = Cardinality(A(req', b)) + Cardinality(B(req', b))
    <2>1. uses[b] = Cardinality(A(req, b)) + Cardinality(B(req, b))
      BY DEF RecordInv, UsesBalanced, Holds, Checks, BackendAt
    <2>2. /\ A(req, b) \ {r} = A(req', b) \ {r}
          /\ B(req, b) \ {r} = B(req', b) \ {r}
      BY <1>1
    <2>3. /\ r \in A(req, b) <=> Holds(cfg, req[r], b)
          /\ r \in A(req', b) <=> Holds(cfg, p, b)
          /\ r \in B(req, b) <=> Checks(cfg, req[r], b)
          /\ r \in B(req', b) <=> Checks(cfg, p, b)
      BY <1>1
    <2>4. /\ A(req, b) \in SUBSET Requests /\ A(req', b) \in SUBSET Requests
          /\ B(req, b) \in SUBSET Requests /\ B(req', b) \in SUBSET Requests
      OBVIOUS
    <2> HIDE DEF A, B
    <2>5. /\ Cardinality(A(req, b)) \in Nat /\ Cardinality(A(req', b)) \in Nat
          /\ Cardinality(A(req', b)) + (IF Holds(cfg, req[r], b) THEN 1 ELSE 0)
               = Cardinality(A(req, b)) + (IF Holds(cfg, p, b) THEN 1 ELSE 0)
      BY <2>2, <2>3, <2>4, CountOne
    <2>6. /\ Cardinality(B(req, b)) \in Nat /\ Cardinality(B(req', b)) \in Nat
          /\ Cardinality(B(req', b)) + (IF Checks(cfg, req[r], b) THEN 1 ELSE 0)
               = Cardinality(B(req, b)) + (IF Checks(cfg, p, b) THEN 1 ELSE 0)
      BY <2>2, <2>3, <2>4, CountOne
    <2>7. u[b] + Share(cfg, req[r], b) = uses[b] + Share(cfg, p, b)
      BY DEF Settles
    <2>8. b \in Names /\ u[b] \in Int
      BY FilesAssumption DEF RecordInv, Loaded, Settles
    <2>9. QED
      BY <2>1, <2>5, <2>6, <2>7, <2>8 DEF Share
  <1>3. UsesBalanced'
    BY <1>1, <1>2, cfg' = cfg DEF UsesBalanced, Holds, Checks, BackendAt
  <1>4. ASSUME NEW b \in Names PROVE u[b] \in Nat
    BY <1>2 DEF Settles, RecordInv
  <1>5. QED
    BY <1>1, <1>3, <1>4 DEF Settles

\* Before it is done a request is no error, no interruption and in no row.
LEMMA NotYet ==
    ASSUME NEW c, NEW q, Fit(c, q), q.pc # "done"
    PROVE  ~Replied(q) /\ ~Erred(q) /\ ~Interrupted(q)
  BY DEF Fit, Replied, Erred, Interrupted

\* A step that writes no row.
LEMMA QuietKeeps ==
    ASSUME RecordInv, NEW r \in Requests, NEW p, NEW u, req[r].pc # "done",
           Fit(cfg, p), ~Replied(p), ~Erred(p), ~Interrupted(p),
           Settles(r, p, u), Become(r, p, u), Quietly
    PROVE  RecordInv'
  <1>1. /\ cfg' = cfg /\ log' = log /\ stats' = stats
        /\ DOMAIN req' = Requests
        /\ \A s \in Requests : req'[s] = IF s = r THEN p ELSE req[s]
    BY DEF RecordInv, Become, Quietly
  <1>2. ~Replied(req[r]) /\ ~Erred(req[r]) /\ ~Interrupted(req[r])
    BY NotYet DEF RecordInv
  <1>3. \A s \in Requests : Fit(cfg, req'[s])
    BY <1>1 DEF RecordInv
  <1>4. ASSUME NEW s \in Requests PROVE LogFits(cfg, req'[s], log[s])
    <2>1. CASE s = r
      <3>1. log[r] \in Seq(Row) /\ Len(log[r]) = 0
        BY <1>2 DEF RecordInv, LogFits
      <3>2. DOMAIN log[r] = {}
        BY <3>1
      <3>3. QED
        BY <1>1, <2>1, <3>1, <3>2 DEF LogFits
    <2>2. CASE s # r
      BY <1>1, <2>2 DEF RecordInv
    <2>3. QED
      BY <2>1, <2>2
  <1>5. /\ {s \in Requests : Erred(req'[s])} = {s \in Requests : Erred(req[s])}
        /\ {s \in Requests : Interrupted(req'[s])} = {s \in Requests : Interrupted(req[s])}
        /\ {s \in Requests : Replied(req'[s])} = {s \in Requests : Replied(req[s])}
    BY <1>1, <1>2
  <1>6. StatsAddUp'
    BY <1>1, <1>5 DEF RecordInv, StatsAddUp, Erred, Interrupted, Replied
  <1>7. QED
    BY <1>1, <1>3, <1>4, <1>6, UsesKeep DEF RecordInv

\* A step that writes one.
LEMMA RowKeeps ==
    ASSUME RecordInv, NEW r \in Requests, NEW p, NEW u, NEW row, req[r].pc # "done",
           Fit(cfg, p), Replied(p), Tells(cfg, p, row),
           row.status \in ErrorStatuses <=> Erred(p),
           row.status = "stream_interrupted" <=> Interrupted(p),
           Settles(r, p, u), Become(r, p, u), WriteProxyEvent(r, row)
    PROVE  RecordInv'
  <1>1. /\ cfg' = cfg
        /\ DOMAIN req' = Requests
        /\ \A s \in Requests : req'[s] = IF s = r THEN p ELSE req[s]
    BY DEF RecordInv, Become, WriteProxyEvent
  <1>2. ~Replied(req[r]) /\ ~Erred(req[r]) /\ ~Interrupted(req[r])
    BY NotYet DEF RecordInv
  <1>3. \A s \in Requests : Fit(cfg, req'[s])
    BY <1>1 DEF RecordInv
  <1>4. /\ DOMAIN log' = Requests
        /\ \A s \in Requests : log'[s] = IF s = r /\ cfg.observed THEN Append(log[s], row) ELSE log[s]
    BY DEF RecordInv, WriteProxyEvent
  <1>5. ASSUME NEW s \in Requests PROVE LogFits(cfg, req'[s], log'[s])
    <2>1. CASE s = r
      <3>1. log[r] \in Seq(Row) /\ Len(log[r]) = 0 /\ row \in Row
        BY <1>2 DEF RecordInv, LogFits, Tells
      <3>2. CASE cfg.observed
        <4> DEFINE rows == Append(log[r], row)
        <4>1. rows \in Seq(Row) /\ Len(rows) = 1 /\ rows[1] = row
          BY <3>1, AppendProperties
        <4>2. DOMAIN rows = {1}
          BY <4>1
        <4>3. log'[s] = rows
          BY <1>4, <2>1, <3>2
        <4> HIDE DEF rows
        <4>4. QED
          BY <1>1, <2>1, <3>2, <4>1, <4>2, <4>3 DEF LogFits
      <3>3. CASE ~cfg.observed
        <4>1. DOMAIN log[r] = {}
          BY <3>1
        <4>2. QED
          BY <1>1, <1>4, <2>1, <3>1, <3>3, <4>1 DEF LogFits
      <3>4. QED
        BY <3>2, <3>3
    <2>2. CASE s # r
      BY <1>1, <1>4, <2>2 DEF RecordInv
    <2>3. QED
      BY <2>1, <2>2
  <1> DEFINE E(f) == {s \in Requests : Erred(f[s])}
             I(f) == {s \in Requests : Interrupted(f[s])}
             A(f) == {s \in Requests : Replied(f[s])}
  <1>6. /\ E(req) \ {r} = E(req') \ {r} /\ r \notin E(req) /\ (r \in E(req') <=> Erred(p))
        /\ I(req) \ {r} = I(req') \ {r} /\ r \notin I(req) /\ (r \in I(req') <=> Interrupted(p))
        /\ A(req) \ {r} = A(req') \ {r} /\ r \notin A(req) /\ r \in A(req')
    BY <1>1, <1>2
  <1>7. \A f : E(f) \in SUBSET Requests /\ I(f) \in SUBSET Requests /\ A(f) \in SUBSET Requests
    OBVIOUS
  <1>8. /\ stats.errors = Cardinality(E(req)) /\ stats.total = Cardinality(A(req))
        /\ stats.interruptions = Cardinality(I(req))
    BY DEF RecordInv, StatsAddUp, Erred, Interrupted, Replied
  <1>9. StatsAddUp' <=>
            /\ stats'.errors = Cardinality(E(req')) /\ stats'.total = Cardinality(A(req'))
            /\ stats'.interruptions = Cardinality(I(req'))
    BY DEF StatsAddUp, Erred, Interrupted, Replied
  <1> HIDE DEF E, I, A
  <1>10. Cardinality(E(req')) = Cardinality(E(req)) + (IF Erred(p) THEN 1 ELSE 0)
    BY <1>6, <1>7, CountOne
  <1>11. Cardinality(I(req')) = Cardinality(I(req)) + (IF Interrupted(p) THEN 1 ELSE 0)
    BY <1>6, <1>7, CountOne
  <1>12. Cardinality(A(req')) = Cardinality(A(req)) + 1
    BY <1>6, <1>7, CountOne
  <1>13. stats \in Stats /\ stats' = StatsRecord(row.status, row.fallback)
    BY DEF RecordInv, WriteProxyEvent
  <1>14. /\ stats' \in Stats
         /\ stats'.total = stats.total + 1
         /\ stats'.errors = stats.errors + (IF row.status \in ErrorStatuses THEN 1 ELSE 0)
         /\ stats'.interruptions = stats.interruptions
                                    + (IF row.status = "stream_interrupted" THEN 1 ELSE 0)
    <2>1. /\ stats.total \in Nat /\ stats.fallbacks \in Nat
          /\ stats.interruptions \in Nat /\ stats.errors \in Nat
          /\ DOMAIN stats = {"total", "fallbacks", "interruptions", "errors"}
      BY <1>13 DEF Stats
    <2>2. /\ stats'.total = stats.total + 1
          /\ stats'.fallbacks = stats.fallbacks + (IF row.fallback THEN 1 ELSE 0)
          /\ stats'.errors = stats.errors + (IF row.status \in ErrorStatuses THEN 1 ELSE 0)
          /\ stats'.interruptions = stats.interruptions
                                     + (IF row.status = "stream_interrupted" THEN 1 ELSE 0)
      BY <1>13, <2>1 DEF StatsRecord
    <2>3. stats' = [f \in {"total", "fallbacks", "interruptions", "errors"} |-> stats'[f]]
      BY <1>13, <2>1 DEF StatsRecord
    <2>4. \A f \in {"total", "fallbacks", "interruptions", "errors"} : stats'[f] \in Nat
      BY <2>1, <2>2
    <2> HIDE <1>13
    <2>5. QED
      BY <2>2, <2>3, <2>4 DEF Stats
  <1>15. StatsAddUp'
    BY <1>8, <1>9, <1>10, <1>11, <1>12, <1>14
  <1>16. QED
    BY <1>1, <1>3, <1>4, <1>5, <1>14, <1>15, UsesKeep DEF RecordInv
-----------------------------------------------------------------------------
\* What is said of a request's way holds of any other that went the same way.
LEMMA SameWay ==
    ASSUME NEW c, NEW q, NEW p, DOMAIN p = Fields, p.primary = q.primary, p.model = q.model,
           p.at = q.at, p.attempts = q.attempts
    PROVE  /\ Typed(c, q) => Typed(c, p)
           /\ Walked(c, q) => Walked(c, p)
           /\ Chosen(c, q) => Chosen(c, p)
           /\ Answering(c, q) => Answering(c, p)
           /\ Unanswered(p) /\ Trying(c, q) => Trying(c, p)
           /\ Unanswered(p) /\ Tried(c, q) => Tried(c, p)
           /\ Last(p) = Last(q)
           /\ BackendAt(p) = BackendAt(q) /\ ModelAt(p) = ModelAt(q)
  BY DEF Typed, Walked, Chosen, Answering, Trying, Tried, Last, ModelAt, BackendAt

\* A backend at a place of a chosen request is one of the configuration's.
LEMMA TargetNamed ==
    ASSUME NEW c, Loaded(c), NEW q, Chosen(c, q)
    PROVE  Target(c, q.primary, q.at) \in c.backends /\ c.backends \subseteq Names
  BY FilesAssumption DEF Loaded, Chosen, Typed, Places, Target

\* An answer to the attempt is what comes last, and the walk has got one place further.
LEMMA CameRec ==
    ASSUME NEW q, NEW answer \in Answers, Loaded(cfg), Trying(cfg, q)
    PROVE  LET p == Came(q, answer) IN
           /\ p = [q EXCEPT !.attempts = p.attempts]
           /\ DOMAIN p = Fields /\ Chosen(cfg, p) /\ Unanswered(p) /\ Last(p) = answer
           /\ p.primary = q.primary /\ p.at = q.at /\ p.model = q.model
           /\ p.pc = q.pc /\ p.verdict = q.verdict /\ p.stream = q.stream /\ p.path = q.path
           /\ answer \in {"error", "5xx"} => Tried(cfg, p)
           /\ answer = "ok" => Answering(cfg, p)
           /\ answer = "5xx" /\ (\A j \in Places(cfg, p.primary) : j <= p.at) => Answering(cfg, p)
           /\ (\A j \in Places(cfg, p.primary) : j <= p.at)
                => Len(p.attempts) = Cardinality(Places(cfg, p.primary))
  <1> DEFINE new == [to |-> BackendAt(q), model |-> ModelAt(q), came |-> answer]
             p == Came(q, answer)
             P == Places(cfg, q.primary)
             n == Len(q.attempts)
  <1>1. DOMAIN q = Fields /\ q.attempts \in Seq(Sent) /\ n \in Nat /\ q.at \in P /\ Unanswered(q)
    BY DEF Trying, Chosen, Typed
  <1>2. new \in Sent /\ new.to = Target(cfg, q.primary, q.at) /\ new.came = answer
        /\ new.model = ModelAt(q)
    BY TargetNamed DEF Trying, Chosen, Sent, BackendAt, ModelAt, Models
  <1>3. p = [q EXCEPT !.attempts = Append(q.attempts, new)]
    BY DEF Came
  <1> HIDE DEF new, p
  <1>4. /\ DOMAIN p = Fields /\ p.attempts = Append(q.attempts, new)
        /\ p.primary = q.primary /\ p.at = q.at /\ p.model = q.model
        /\ p.pc = q.pc /\ p.verdict = q.verdict /\ p.stream = q.stream /\ p.path = q.path
        /\ p.reply = q.reply /\ p.end = q.end
    BY <1>1, <1>3 DEF Fields
  <1>5. /\ p.attempts \in Seq(Sent) /\ Len(p.attempts) = n + 1
        /\ p.attempts[n + 1] = new /\ \A i \in 1 .. n : p.attempts[i] = q.attempts[i]
    BY <1>1, <1>2, <1>4, AppendProperties
  <1>6. n + 1 = Rank(cfg, q.primary, q.at) /\ \A i \in 1 .. n : q.attempts[i].came \in {"error", "5xx"}
    BY DEF Trying
  <1>7. Last(p) = answer /\ p.attempts[Len(p.attempts)].model = ModelAt(p)
    BY <1>2, <1>4, <1>5 DEF Last, ModelAt
  <1>8. Len(p.attempts) <= Cardinality(P)
    BY <1>1, <1>5, <1>6, RankBounds, PlacesFinite
  <1>9. ASSUME NEW i \in P, Rank(cfg, q.primary, i) <= n + 1
        PROVE  p.attempts[Rank(cfg, q.primary, i)].to = Target(cfg, q.primary, i)
    <2>1. Rank(cfg, q.primary, i) \in 1 .. n + 1
      BY <1>1, <1>9, RankBounds
    <2>2. CASE Rank(cfg, q.primary, i) = n + 1
      <3>1. i = q.at
        BY <1>1, <1>6, <2>2, RankTells
      <3>2. QED
        BY <1>2, <1>5, <2>2, <3>1
    <2>3. CASE Rank(cfg, q.primary, i) \in 1 .. n
      <3>1. q.attempts[Rank(cfg, q.primary, i)].to = Target(cfg, q.primary, i)
        BY <1>1, <2>3 DEF Trying, Chosen, Walked
      <3>2. QED
        BY <1>5, <2>3, <3>1
    <2>4. QED
      BY <1>1, <2>1, <2>2, <2>3
  <1>10. Walked(cfg, p)
    <2>1. \A i \in 1 .. Len(p.attempts) - 1 : p.attempts[i].came \in {"error", "5xx"}
      BY <1>1, <1>5, <1>6
    <2>2. QED
      BY <1>4, <1>5, <1>8, <1>9, <2>1 DEF Walked
  <1>11. Typed(cfg, p) /\ Chosen(cfg, p)
    BY <1>4, <1>5, <1>10 DEF Trying, Chosen, Typed
  <1>12. Unanswered(p) /\ Len(p.attempts) = Rank(cfg, p.primary, p.at)
    BY <1>1, <1>4, <1>5, <1>6 DEF Unanswered
  <1>13. answer \in {"error", "5xx"}
            => \A i \in 1 .. Len(p.attempts) : p.attempts[i].came \in {"error", "5xx"}
    <2>1. \A i \in 1 .. Len(p.attempts) : i = n + 1 \/ i \in 1 .. n
      BY <1>1, <1>5
    <2>2. QED
      BY <1>2, <1>5, <1>6, <2>1
  <1>14. (\A j \in P : j <= q.at) => Rank(cfg, q.primary, q.at) = Cardinality(P)
    BY <1>1, RankBounds
  <1>15. p = [q EXCEPT !.attempts = p.attempts]
    BY <1>3, <1>4
  <1>16. answer \in {"error", "5xx"} => Tried(cfg, p)
    BY <1>11, <1>12, <1>13 DEF Tried
  <1>17. answer \in {"ok", "5xx"} /\ (answer = "5xx" => \A j \in Places(cfg, p.primary) : j <= p.at)
            => Answering(cfg, p)
    BY <1>7, <1>11, <1>12 DEF Answering
  <1>18. QED
    BY <1>4, <1>7, <1>11, <1>12, <1>14, <1>15, <1>16, <1>17 DEF p

\* The least later place is the next to be tried.
LEMMA NextTrying ==
    ASSUME NEW q, Loaded(cfg), Tried(cfg, q), NEW i \in Later(q), \A j \in Later(q) : i <= j
    PROVE  Trying(cfg, [q EXCEPT !.at = i])
  <1> DEFINE p == [q EXCEPT !.at = i]
  <1>1. DOMAIN q = Fields
    BY DEF Tried, Chosen, Typed
  <1>2. /\ DOMAIN p = Fields /\ p.primary = q.primary /\ p.model = q.model /\ p.at = i
        /\ p.attempts = q.attempts /\ p.reply = q.reply /\ p.end = q.end
    BY <1>1 DEF Fields
  <1> HIDE DEF p
  <1>3. /\ q.at \in Places(cfg, q.primary) /\ i \in Places(cfg, q.primary) /\ q.at < i
        /\ \A k \in Places(cfg, q.primary) : k > q.at => k \in Later(q)
    <2>1. q.at \in Places(cfg, q.primary) /\ Places(cfg, q.primary) \subseteq Nat
      BY PlacesFinite DEF Tried, Chosen, Typed
    <2>2. QED
      BY <2>1 DEF Later, FallbackChain, Places
  <1>4. \A k \in Places(cfg, q.primary) : k <= q.at \/ i <= k
    BY <1>3, PlacesFinite
  <1>5. Rank(cfg, q.primary, i) = Rank(cfg, q.primary, q.at) + 1
    BY <1>3, <1>4, RankNext
  <1>6. Typed(cfg, p) /\ Walked(cfg, p)
    BY <1>2, <1>3 DEF Tried, Chosen, Typed, Walked
  <1>7. Trying(cfg, p)
    BY <1>2, <1>5, <1>6 DEF Tried, Trying, Chosen, Unanswered
  <1>8. QED
    BY <1>7 DEF p

\* No place is left when none is later.
LEMMA WalkOver ==
    ASSUME NEW q, Loaded(cfg), Typed(cfg, q)
    PROVE  Later(q) = {} <=> \A j \in Places(cfg, q.primary) : j <= q.at
  <1>1. q.at \in Nat /\ Places(cfg, q.primary) \subseteq Nat
    BY PlacesFinite DEF Typed
  <1>2. Places(cfg, q.primary) = {0} \cup FallbackChain(cfg, q.primary)
    BY DEF Places, FallbackChain
  <1>3. Later(q) = {j \in Places(cfg, q.primary) : j > q.at}
    BY <1>1, <1>2 DEF Later
  <1> HIDE <1>2
  <1>4. QED
    BY <1>1, <1>3
-----------------------------------------------------------------------------
(* The steps.                                                              *)

\* A request that holds nothing more than r had given back settles.
LEMMA FreedSettles ==
    ASSUME RecordInv, NEW r \in Requests, NEW u, Freed(r, u), NEW p,
           \A b \in cfg.managed : ~Holds(cfg, p, b) /\ ~Checks(cfg, p, b)
    PROVE  Settles(r, p, u)
  <1>1. \A b \in cfg.managed : Share(cfg, p, b) = 0
    BY DEF Share
  <1>2. \A b \in cfg.managed : uses[b] \in Nat
    BY FilesAssumption DEF RecordInv, Loaded
  <1>3. QED
    BY <1>1, <1>2 DEF Freed, Settles

\* Neither do the uses change when the request holds what it held.
LEMMA KeptSettles ==
    ASSUME RecordInv, NEW r \in Requests, NEW p,
           \A b \in cfg.managed : Share(cfg, p, b) = Share(cfg, req[r], b)
    PROVE  Settles(r, p, uses)
  BY DEF RecordInv, Settles

\* A request that has nothing has given everything back.
LEMMA IdleFreed ==
    ASSUME RecordInv, NEW r \in Requests, req[r].pc \in {"new", "starting", "waking"}
    PROVE  Freed(r, uses)
  <1>1. \A b \in cfg.managed : Share(cfg, req[r], b) = 0
    BY DEF Share, Holds, Checks, UsingPC
  <1>2. uses \in [Names -> Int] /\ \A b \in cfg.managed : uses[b] \in Nat
    BY FilesAssumption DEF RecordInv, Loaded
  <1>3. QED
    BY <1>1, <1>2 DEF Freed

\* end_request gives back what the attempt, or the verification, had.
LEMMA EndFreed ==
    ASSUME RecordInv, NEW r \in Requests, NEW b,
           \/ req[r].pc \in UsingPC /\ b = BackendAt(req[r])
           \/ req[r].pc = "verifying" /\ b = cfg.checker
    PROVE  Freed(r, End(b, uses))
  <1>1. \A d : Share(cfg, req[r], d) = IF d = b THEN 1 ELSE 0
    BY DEF Share, Holds, Checks, UsingPC, BackendAt
  <1>2. uses \in [Names -> Nat] /\ cfg.managed \subseteq Names
    BY FilesAssumption DEF RecordInv, Loaded
  <1>3. CASE b \in cfg.managed
    <2>1. End(b, uses) = [uses EXCEPT ![b] = @ - 1]
      BY <1>3 DEF End
    <2>2. QED
      BY <1>1, <1>2, <1>3, <2>1 DEF Freed
  <1>4. CASE b \notin cfg.managed
    <2>1. End(b, uses) = uses
      BY <1>4 DEF End
    <2>2. QED
      BY <1>1, <1>2, <1>4, <2>1 DEF Freed
  <1>5. QED
    BY <1>3, <1>4

\* begin_request takes it.
LEMMA BeginSettles ==
    ASSUME RecordInv, NEW r \in Requests, NEW b, NEW p, Freed(r, uses),
           \A d : Share(cfg, p, d) = IF d = b THEN 1 ELSE 0
    PROVE  Settles(r, p, Begin(b, uses))
  <1>1. uses \in [Names -> Nat] /\ cfg.managed \subseteq Names
    BY FilesAssumption DEF RecordInv, Loaded
  <1>2. \A d \in cfg.managed : Share(cfg, req[r], d) \in Nat
    BY DEF Share
  <1>3. \A d \in cfg.managed : Share(cfg, req[r], d) = 0
    BY <1>1, <1>2 DEF Freed
  <1>4. CASE b \in cfg.managed
    <2>1. Begin(b, uses) = [uses EXCEPT ![b] = @ + 1]
      BY <1>4 DEF Begin
    <2>2. QED
      BY <1>1, <1>3, <1>4, <2>1 DEF Settles
  <1>5. CASE b \notin cfg.managed
    <2>1. Begin(b, uses) = uses
      BY <1>5 DEF Begin
    <2>2. QED
      BY <1>1, <1>3, <1>5, <2>1 DEF Settles
  <1>6. QED
    BY <1>4, <1>5

\* A refusal's row and code.
Refusal(c, q, status, code) ==
    /\ \/ status \in ErrorStatuses \ {"verification_failed"} /\ code = "502"
       \/ status = "human_confirm" /\ code = "409"
       \/ status = "unknown_model" /\ code = "404"
    /\ status = "upstream_request_failed" =>
            Len(q.attempts) = Cardinality(Places(c, q.primary)) /\ Last(q) = "error"

\* A refusal leaves a row that says why.
LEMMA RefuseRec ==
    ASSUME RecordInv, NEW r \in Requests, req[r].pc # "done", NEW q, NEW u, NEW status, NEW code,
           Freed(r, u), Typed(cfg, q), Walked(cfg, q), Unanswered(q), Refusal(cfg, q, status, code),
           Refuse(r, q, u, status, code)
    PROVE  RecordInv'
  <1> DEFINE p == [q EXCEPT !.pc = "done", !.reply = [by |-> "proxy", code |-> code]]
             row == [status |-> status, backend |-> q.primary, model |-> q.model,
                     fallback |-> FALSE, code |-> code]
  <1>1. Become(r, p, u) /\ WriteProxyEvent(r, row)
    BY DEF Refuse
  <1>2. DOMAIN q = Fields
    BY DEF Typed
  <1>3. /\ DOMAIN p = Fields /\ p.primary = q.primary /\ p.model = q.model /\ p.at = q.at
        /\ p.attempts = q.attempts /\ p.pc = "done" /\ p.end = "none"
        /\ p.reply.by = "proxy" /\ p.reply.code = code /\ p.reply = [by |-> "proxy", code |-> code]
    BY <1>2 DEF Fields, Unanswered
  <1>4. row.status = status /\ row.code = code /\ row.backend = q.primary
        /\ row.model = q.model /\ row.fallback = FALSE
    OBVIOUS
  <1>5. row \in Row
    BY DEF Row, Refusal, Typed, ErrorStatuses
  <1> HIDE DEF p, row
  <1>6. Typed(cfg, p) /\ Walked(cfg, p) /\ Last(p) = Last(q)
    BY <1>3, SameWay
  <1>7. Fit(cfg, p)
    BY <1>3, <1>6 DEF Fit, Excused
  <1>8. Replied(p) /\ (row.status = "stream_interrupted" <=> Interrupted(p))
        /\ (row.status \in ErrorStatuses <=> Erred(p))
    BY <1>3, <1>4 DEF Replied, Interrupted, Erred, Refusal, ErrorStatuses
  <1>9. Tells(cfg, p, row)
    BY <1>3, <1>4, <1>5, <1>6 DEF Tells, Refusal, ErrorStatuses
  <1>10. Settles(r, p, u)
    BY <1>3, FreedSettles DEF Holds, Checks, UsingPC
  <1>11. QED
    BY <1>1, <1>7, <1>8, <1>9, <1>10, RowKeeps

\* A round of the loop, whatever comes of it.
LEMMA AttemptRec ==
    ASSUME RecordInv, NEW r \in Requests, req[r].pc # "done", NEW q, NEW u,
           Freed(r, u), Trying(cfg, q), Attempt(r, q, u)
    PROVE  RecordInv'
  <1> DEFINE b == BackendAt(q)
             start(pc) == [q EXCEPT !.pc = pc, !.bound = @ \cup {b}]
  <1>1. ASSUME NEW pc \in {"starting", "posting"}, pc = "posting" => b \notin cfg.managed,
               Become(r, start(pc), u), Quietly
        PROVE  RecordInv'
    <2> DEFINE p == start(pc)
    <2>1. DOMAIN q = Fields /\ Unanswered(q)
      BY DEF Trying, Chosen, Typed
    <2>2. /\ DOMAIN p = Fields /\ p.primary = q.primary /\ p.model = q.model /\ p.at = q.at
          /\ p.attempts = q.attempts /\ p.pc = pc /\ p.end = q.end /\ p.reply = q.reply
      BY <2>1 DEF Fields
    <2> HIDE DEF p
    <2>3. Unanswered(p)
      BY <2>1, <2>2 DEF Unanswered
    <2>4. Trying(cfg, p) /\ BackendAt(p) = b
      BY <2>2, <2>3, SameWay
    <2>5. Fit(cfg, p)
      BY <1>1, <2>2, <2>3, <2>4 DEF Fit, Excused, Unanswered, Trying, Chosen
    <2>6. ~Replied(p) /\ ~Erred(p) /\ ~Interrupted(p)
      BY <1>1, <2>2, <2>5, NotYet
    <2>7. Settles(r, p, u)
      BY <1>1, <2>2, <2>4, FreedSettles DEF Holds, Checks, UsingPC, BackendAt
    <2>8. QED
      BY <1>1, <2>5, <2>6, <2>7, QuietKeeps DEF p
  <1>2. CASE Refuse(r, q, u, "upstream_api_unsupported", "502")
    BY <1>2, RefuseRec DEF Trying, Chosen, Refusal, ErrorStatuses
  <1>3. CASE Become(r, start("starting"), u) /\ Quietly
    BY <1>1, <1>3, Zenon
  <1>4. CASE b \notin cfg.managed /\ Become(r, start("posting"), u) /\ Quietly
    BY <1>1, <1>4, Zenon
  <1>5. QED
    BY <1>2, <1>3, <1>4, Zenon DEF Attempt

\* The next round goes to the next place.
LEMMA AdvanceRec ==
    ASSUME RecordInv, NEW r \in Requests, req[r].pc # "done", NEW q, NEW u,
           Freed(r, u), Tried(cfg, q), Advance(r, q, u)
    PROVE  RecordInv'
  <1>1. PICK i \in Later(q) : (\A j \in Later(q) : i <= j) /\ Attempt(r, [q EXCEPT !.at = i], u)
    BY Zenon DEF Advance
  <1>2. Trying(cfg, [q EXCEPT !.at = i])
    BY <1>1, NextTrying DEF RecordInv
  <1>3. QED
    BY <1>1, <1>2, AttemptRec, Zenon
\* The model a row names is the one the answering backend was sent.
LEMMA ModelTold ==
    ASSUME NEW q, Loaded(cfg), Chosen(cfg, q)
    PROVE  UsedModel(q) = ModelAt(q)
  <1>1. CASE q.at = 0
    BY <1>1 DEF UsedModel, ModelAt, BackendAt, Target
  <1>2. CASE q.at # 0
    <2>1. q.at \in DOMAIN Configured(cfg, q.primary)
      BY <1>2 DEF Chosen, Typed, Places
    <2>2. q.primary \in DOMAIN cfg.fallback /\ Configured(cfg, q.primary) = cfg.fallback[q.primary]
      BY <2>1 DEF Configured
    <2>3. cfg.fallback[q.primary][q.at] # q.primary
      BY <2>1, <2>2, NotItsOwnFallback
    <2>4. QED
      BY <1>2, <2>2, <2>3 DEF UsedModel, ModelAt, BackendAt, Target
  <1>3. QED
    BY <1>1, <1>2

\* What a backend answered goes into a true row.
LEMMA AnswerRec ==
    ASSUME RecordInv, NEW r \in Requests, req[r].pc # "done", NEW p, NEW u, NEW status, NEW code,
           Settles(r, p, u), Answering(cfg, p), Excused(cfg, p), p.pc = "done",
           status \in {"forwarded", "stream_interrupted", "verification_failed"},
           code \in {"ok", "5xx", "502"}, p.reply.code = code, p.reply.by \in {"proxy", "backend"},
           p.reply = [by |-> "backend", code |-> "5xx"] => Last(p) = "5xx",
           status = "verification_failed" <=> Erred(p),
           status = "stream_interrupted" <=> Interrupted(p),
           Record(r, p, u, status, code)
    PROVE  RecordInv'
  <1> DEFINE row == [status |-> status, backend |-> BackendAt(p), model |-> UsedModel(p),
                     fallback |-> p.at > 0, code |-> code]
             n == Len(p.attempts)
  <1>1. Become(r, p, u) /\ WriteProxyEvent(r, row)
    BY DEF Record
  <1>2. row.status = status /\ row.code = code /\ row.backend = BackendAt(p)
        /\ row.model = UsedModel(p) /\ row.fallback = (p.at > 0)
    OBVIOUS
  <1>3. Loaded(cfg) /\ Chosen(cfg, p) /\ Typed(cfg, p) /\ Walked(cfg, p)
    BY DEF RecordInv, Answering, Chosen
  <1>4. BackendAt(p) \in Names /\ UsedModel(p) \in Models
    BY <1>3, TargetNamed DEF Chosen, Models, UsedModel, BackendAt
  <1>5. row \in Row
    BY <1>4 DEF Row, ErrorStatuses
  <1> HIDE DEF row
  <1>6. /\ p.at \in Places(cfg, p.primary) /\ p.at \in Nat /\ 0 \in Places(cfg, p.primary)
        /\ n = Rank(cfg, p.primary, p.at) /\ n \in 1 .. Cardinality(Places(cfg, p.primary))
        /\ Rank(cfg, p.primary, 0) = 1
    BY <1>3, PlacesFinite, RankBounds DEF Typed, Answering
  <1>7. p.attempts[n].to = BackendAt(p)
    BY <1>3, <1>6 DEF Walked, BackendAt
  <1>8. p.attempts[n].model = UsedModel(p)
    BY <1>3, ModelTold DEF Answering
  <1>9. (p.at > 0) = (n > 1)
    BY <1>3, <1>6, RankGrows
  <1>10. Tells(cfg, p, row)
    BY <1>2, <1>5, <1>7, <1>8, <1>9 DEF Tells
  <1>11. Last(p) = "5xx" => n = Cardinality(Places(cfg, p.primary))
    BY <1>3, <1>6, RankBounds DEF Answering
  <1>12. Fit(cfg, p)
    BY <1>3, <1>11 DEF Fit
  <1>13. Replied(p) /\ (row.status \in ErrorStatuses <=> Erred(p))
    BY <1>2 DEF Replied, ErrorStatuses
  <1>14. QED
    BY <1>1, <1>2, <1>10, <1>12, <1>13, RowKeeps

\* What the verifier made of it decides whether the answer goes out.
LEMMA ConcludeRec ==
    ASSUME RecordInv, NEW r \in Requests, req[r].pc # "done", NEW q, NEW v, NEW u,
           Freed(r, u), Answering(cfg, q), Unanswered(q), v = "none" => cfg.verifier = "off",
           Conclude(r, [q EXCEPT !.verdict = v], u)
    PROVE  RecordInv'
  <1> DEFINE p(reply) == [[q EXCEPT !.verdict = v] EXCEPT !.pc = "done", !.reply = reply]
             m == [q EXCEPT !.verdict = v]
  <1>1. DOMAIN q = Fields
    BY DEF Answering, Chosen, Typed
  <1>2. /\ DOMAIN m = Fields /\ m.primary = q.primary /\ m.model = q.model /\ m.at = q.at
        /\ m.attempts = q.attempts /\ m.end = q.end /\ m.verdict = v
    BY <1>1 DEF Fields
  <1>3. Last(m) = Last(q) /\ Answering(cfg, m)
    BY <1>2, SameWay
  <1>4. ASSUME NEW reply
        PROVE  /\ Answering(cfg, p(reply)) /\ Last(p(reply)) = Last(q)
               /\ p(reply).pc = "done" /\ p(reply).reply = reply /\ p(reply).end = "none"
               /\ p(reply).verdict = v
               /\ Settles(r, p(reply), u)
    <2> DEFINE x == p(reply)
    <2>1. /\ DOMAIN x = Fields /\ x.primary = q.primary /\ x.model = q.model /\ x.at = q.at
          /\ x.attempts = q.attempts /\ x.end = q.end /\ x.verdict = v /\ x.pc = "done"
          /\ x.reply = reply
      BY <1>1 DEF Fields
    <2> HIDE DEF x
    <2>2. Answering(cfg, x) /\ Last(x) = Last(q)
      BY <2>1, SameWay
    <2>3. Settles(r, x, u)
      BY <2>1, FreedSettles DEF Holds, Checks, UsingPC
    <2>4. QED
      BY <2>1, <2>2, <2>3 DEF x, Unanswered
  <1>5. Last(q) \in {"ok", "5xx"}
    BY DEF Answering
  <1>6. CASE Withheld(m)
    <2> DEFINE x == p([by |-> "proxy", code |-> "502"])
    <2>1. Record(r, x, u, "verification_failed", "502")
      BY <1>6 DEF Conclude
    <2>2. /\ Answering(cfg, x) /\ x.pc = "done" /\ x.reply = [by |-> "proxy", code |-> "502"]
          /\ x.end = "none" /\ Settles(r, x, u)
      BY <1>4
    <2> HIDE DEF x
    <2>3. Excused(cfg, x) /\ Erred(x) /\ ~Interrupted(x)
      BY <2>2 DEF Excused, Erred, Interrupted
    <2>4. QED
      BY <2>1, <2>2, <2>3, AnswerRec
  <1>7. CASE ~Withheld(m)
    <2> DEFINE x == p([by |-> "backend", code |-> Last(m)])
    <2>1. Record(r, x, u, "forwarded", Last(m))
      BY <1>7 DEF Conclude
    <2>2. /\ Answering(cfg, x) /\ x.pc = "done" /\ x.reply = [by |-> "backend", code |-> Last(q)]
          /\ x.end = "none" /\ x.verdict = v /\ Settles(r, x, u) /\ Last(x) = Last(q)
      <3> HIDE DEF p
      <3>1. [by |-> "backend", code |-> Last(m)] = [by |-> "backend", code |-> Last(q)]
        BY <1>3
      <3>2. /\ Answering(cfg, x) /\ x.pc = "done" /\ x.reply = [by |-> "backend", code |-> Last(m)]
            /\ x.end = "none" /\ x.verdict = v /\ Settles(r, x, u) /\ Last(x) = Last(q)
        BY <1>4, Zenon
      <3> HIDE DEF x
      <3> QED BY <3>1, <3>2, Zenon
    <2> HIDE DEF x
    <2>3. Excused(cfg, x)
      BY <1>2, <1>7, <2>2 DEF Excused, Withheld
    <2>4. ~Erred(x) /\ ~Interrupted(x)
      BY <2>2 DEF Erred, Interrupted
    <2>5. QED
      BY <1>3, <1>5, <2>1, <2>2, <2>3, <2>4, AnswerRec
  <1>8. QED
    BY <1>6, <1>7

\* An answer that is verified first, or need not be.
LEMMA VerifyRec ==
    ASSUME RecordInv, NEW r \in Requests, req[r].pc # "done", NEW q, NEW u,
           Freed(r, u), Answering(cfg, q), Unanswered(q), Verify(r, q, u)
    PROVE  RecordInv'
  <1>1. \A v \in Qualification(q) : v = "none" => cfg.verifier = "off"
    BY DEF Qualification
  <1>2. CASE \E v \in Qualification(q) \ {"ask"} : Conclude(r, [q EXCEPT !.verdict = v], u)
    BY <1>1, <1>2, ConcludeRec
  <1> DEFINE ask(pc) == [q EXCEPT !.bound = @ \cup {cfg.checker}, !.pc = pc]
  <1>3. ASSUME NEW pc \in {"waking", "verifying"},
               pc = "verifying" => cfg.checker \notin cfg.managed,
               Become(r, ask(pc), u), Quietly
        PROVE  RecordInv'
    <2> DEFINE p == ask(pc)
    <2>1. DOMAIN q = Fields
      BY DEF Answering, Chosen, Typed
    <2>2. /\ DOMAIN p = Fields /\ p.primary = q.primary /\ p.model = q.model /\ p.at = q.at
          /\ p.attempts = q.attempts /\ p.pc = pc /\ p.end = q.end /\ p.reply = q.reply
      BY <2>1 DEF Fields
    <2> HIDE DEF p
    <2>3. Unanswered(p)
      BY <2>2 DEF Unanswered
    <2>4. Answering(cfg, p)
      BY <2>2, SameWay
    <2>5. Fit(cfg, p)
      BY <1>3, <2>2, <2>3, <2>4 DEF Fit, Excused, Unanswered, Answering, Chosen
    <2>6. ~Replied(p) /\ ~Erred(p) /\ ~Interrupted(p)
      BY <1>3, <2>2, <2>5, NotYet
    <2>7. Settles(r, p, u)
      BY <1>3, <2>2, FreedSettles DEF Holds, Checks, UsingPC
    <2>8. QED
      BY <1>3, <2>5, <2>6, <2>7, QuietKeeps DEF p
  <1>4. CASE Become(r, ask(IF cfg.checker \in cfg.managed THEN "waking" ELSE "verifying"), u)
             /\ Quietly
    <2> DEFINE pc == IF cfg.checker \in cfg.managed THEN "waking" ELSE "verifying"
    <2>1. pc \in {"waking", "verifying"} /\ (pc = "verifying" => cfg.checker \notin cfg.managed)
      OBVIOUS
    <2>2. Become(r, ask(pc), u) /\ Quietly
      BY <1>4, Zenon
    <2> HIDE DEF pc
    <2>3. QED
      BY <1>3, <2>1, <2>2, Zenon
  <1>5. QED
    BY <1>2, <1>4, Zenon DEF Verify
\* A request that has just come in.
LEMMA FreshTyped ==
    ASSUME Loaded(cfg), NEW path, NEW stream, NEW primary \in Names \cup {NoBackend},
           NEW model \in Models \cup {"none"}, NEW q, DOMAIN q = Fields, q.primary = primary,
           q.model = model, q.at = 0, q.attempts = <<>>, q.reply.by = "nobody", q.end = "none"
    PROVE  /\ Typed(cfg, q) /\ Walked(cfg, q) /\ Unanswered(q)
           /\ primary \in cfg.backends /\ model \in Models => Trying(cfg, q)
  <1>1. /\ 0 \in Places(cfg, primary) /\ Cardinality(Places(cfg, primary)) \in Nat
        /\ \A i \in Places(cfg, primary) : Rank(cfg, primary, i) \in 1 .. Cardinality(Places(cfg, primary))
        /\ Rank(cfg, primary, 0) = 1
    BY PlacesFinite, RankBounds
  <1>2. q.attempts \in Seq(Sent) /\ Len(q.attempts) = 0
    OBVIOUS
  <1>3. Typed(cfg, q)
    BY <1>1, <1>2 DEF Typed
  <1>4. Walked(cfg, q)
    BY <1>1, <1>2 DEF Walked
  <1>5. QED
    BY <1>1, <1>2, <1>3, <1>4 DEF Unanswered, Trying, Chosen

\* The handler's first step.
LEMMA ReceiveRec ==
    ASSUME RecordInv, NEW r \in Requests, Receive(r)
    PROVE  RecordInv'
  <1>1. PICK path \in Paths, stream \in BOOLEAN :
            \/ TurnAway(r, NewRequest(path, stream))
            \/ cfg.mode = "manual" /\ Manual(r, NewRequest(path, stream))
            \/ cfg.mode = "decision" /\ Decide(r, NewRequest(path, stream))
    BY Zenon DEF Receive
  <1> DEFINE q == NewRequest(path, stream)
  <1>2. /\ DOMAIN q = Fields /\ q.primary = NoBackend /\ q.model = "none" /\ q.at = 0
        /\ q.attempts = <<>> /\ q.reply.by = "nobody" /\ q.end = "none"
    BY DEF NewRequest, Fields
  <1> HIDE DEF q
  <1>3. Typed(cfg, q) /\ Walked(cfg, q) /\ Unanswered(q)
    BY <1>2, FreshTyped DEF RecordInv
  <1>4. Loaded(cfg) /\ req[r].pc = "new"
    BY DEF RecordInv, Receive
  <1>5. Freed(r, uses)
    BY <1>4, IdleFreed
  <1>6. cfg.backends \subseteq Names
    BY <1>4, FilesAssumption DEF Loaded
  <1>7. CASE TurnAway(r, q)
    <2> DEFINE p == [q EXCEPT !.pc = "done", !.reply = [by |-> "gate", code |-> "4xx"]]
    <2>1. Become(r, p, uses) /\ Quietly
      BY <1>7 DEF TurnAway
    <2>2. /\ DOMAIN p = Fields /\ p.primary = q.primary /\ p.model = q.model /\ p.at = q.at
          /\ p.attempts = q.attempts /\ p.pc = "done" /\ p.end = "none" /\ p.reply.by = "gate"
      BY <1>2 DEF Fields
    <2> HIDE DEF p
    <2>3. Typed(cfg, p) /\ Walked(cfg, p)
      BY <1>3, <2>2, SameWay
    <2>4. p.reply # [by |-> "backend", code |-> "ok"] /\ p.reply # [by |-> "backend", code |-> "5xx"]
          /\ p.reply # [by |-> "proxy", code |-> "502"]
      BY <2>2
    <2>5. Fit(cfg, p)
      BY <2>2, <2>3, <2>4 DEF Fit, Excused
    <2>6. ~Replied(p) /\ ~Erred(p) /\ ~Interrupted(p)
      BY <2>2, <2>4 DEF Replied, Erred, Interrupted
    <2>7. Settles(r, p, uses)
      BY <1>5, <2>2, FreedSettles DEF Holds, Checks, UsingPC
    <2>8. QED
      BY <1>4, <2>1, <2>5, <2>6, <2>7, QuietKeeps
  <1>8. CASE AskHuman(r, q)
    BY <1>3, <1>4, <1>5, <1>8, RefuseRec DEF AskHuman, Refusal
  <1>9. CASE cfg.mode = "manual" /\ Manual(r, q)
    <2> DEFINE chosen == [q EXCEPT !.primary = cfg.default, !.model = cfg.model]
    <2>1. /\ DOMAIN chosen = Fields /\ chosen.primary = cfg.default /\ chosen.model = cfg.model
          /\ chosen.at = 0 /\ chosen.attempts = <<>> /\ chosen.reply.by = "nobody"
          /\ chosen.end = "none"
      BY <1>2 DEF Fields
    <2>2. cfg.default \in cfg.backends /\ cfg.model \in Models
      BY <1>4, <1>9 DEF Loaded, LoadProxyConfig, ModeConfigOK
    <2>3. ASSUME NEW model \in {cfg.model} \cup (IF cfg.clientModel THEN {"own"} ELSE {}),
                 Attempt(r, [chosen EXCEPT !.model = model], uses)
          PROVE  RecordInv'
      <3> DEFINE p == [chosen EXCEPT !.model = model]
      <3>1. Attempt(r, p, uses)
        BY <2>3
      <3> HIDE DEF chosen
      <3>2. /\ DOMAIN p = Fields /\ p.primary = cfg.default /\ p.model = model /\ p.at = 0
            /\ p.attempts = <<>> /\ p.reply.by = "nobody" /\ p.end = "none"
        BY <2>1 DEF Fields
      <3>3. model \in Models
        BY <2>2, <2>3 DEF Models
      <3> HIDE DEF p
      <3>4. Trying(cfg, p)
        BY <1>4, <1>6, <2>2, <3>2, <3>3, FreshTyped
      <3>5. QED
        BY <1>4, <1>5, <3>1, <3>4, AttemptRec
    <2> HIDE DEF chosen
    <2>4. Typed(cfg, chosen) /\ Walked(cfg, chosen) /\ Unanswered(chosen)
      BY <1>4, <1>6, <2>1, <2>2, FreshTyped
    <2>5. ASSUME NEW status, NEW code, Refusal(cfg, chosen, status, code),
                 Refuse(r, chosen, uses, status, code)
          PROVE  RecordInv'
      BY <1>4, <1>5, <2>4, <2>5, RefuseRec
    <2>6. /\ Refusal(cfg, chosen, "backend_policy_rejected", "502")
          /\ Refusal(cfg, chosen, "unknown_model", "404")
      BY DEF Refusal, ErrorStatuses
    <2>7. QED
      BY <1>8, <1>9, <2>3, <2>5, <2>6, Zenon DEF Manual, chosen
  <1>10. CASE cfg.mode = "decision" /\ Decide(r, q)
    <2>1. ASSUME Refuse(r, q, uses, "routing_backend_missing", "502") PROVE RecordInv'
      BY <1>3, <1>4, <1>5, <2>1, RefuseRec DEF Refusal, ErrorStatuses
    <2>2. ASSUME NEW b, b \in cfg.backends,
                 Refuse(r, [q EXCEPT !.primary = b], uses, "backend_policy_rejected", "502")
          PROVE  RecordInv'
      <3> DEFINE p == [q EXCEPT !.primary = b]
      <3>1. /\ DOMAIN p = Fields /\ p.primary = b /\ p.model = "none" /\ p.at = 0
            /\ p.attempts = <<>> /\ p.reply.by = "nobody" /\ p.end = "none"
        BY <1>2 DEF Fields
      <3>2. Refuse(r, p, uses, "backend_policy_rejected", "502")
        BY <2>2
      <3> HIDE DEF p
      <3>3. Typed(cfg, p) /\ Walked(cfg, p) /\ Unanswered(p)
        BY <1>4, <1>6, <2>2, <3>1, FreshTyped
      <3>4. QED
        BY <1>4, <1>5, <3>2, <3>3, RefuseRec DEF Refusal, ErrorStatuses
    <2>3. ASSUME NEW b, b \in cfg.backends,
                 Attempt(r, [q EXCEPT !.primary = b, !.model = "own"], uses)
          PROVE  RecordInv'
      <3> DEFINE p == [q EXCEPT !.primary = b, !.model = "own"]
      <3>1. /\ DOMAIN p = Fields /\ p.primary = b /\ p.model = "own" /\ p.at = 0
            /\ p.attempts = <<>> /\ p.reply.by = "nobody" /\ p.end = "none"
        BY <1>2 DEF Fields
      <3>2. Attempt(r, p, uses)
        BY <2>3
      <3> HIDE DEF p
      <3>3. "own" \in Models
        BY DEF Models
      <3>4. Trying(cfg, p)
        BY <1>4, <1>6, <2>3, <3>1, <3>3, FreshTyped
      <3>5. QED
        BY <1>4, <1>5, <3>2, <3>4, AttemptRec
    <2>4. \A e : EngineBackend(cfg, e) # NoBackend => EngineBackend(cfg, e) \in cfg.backends
      BY <1>4 DEF Loaded, LoadProxyConfig, EngineBackendsOK, EngineBackend
    <2>5. QED
      BY <1>8, <1>10, <2>1, <2>2, <2>3, <2>4, Zenon DEF Decide
  <1>11. QED
    BY <1>1, <1>7, <1>9, <1>10, Zenon DEF q
\* A stream or an attempt that goes on with what it holds.
LEMMA GoesOnRec ==
    ASSUME RecordInv, NEW r \in Requests, req[r].pc # "done", NEW p, Fit(cfg, p), p.pc # "done",
           \A b \in cfg.managed : Share(cfg, p, b) = Share(cfg, req[r], b),
           Become(r, p, uses), Quietly
    PROVE  RecordInv'
  BY KeptSettles, NotYet, QuietKeeps

\* Every later step of a handler.
LEMMA HandleRec ==
    ASSUME RecordInv, NEW r \in Requests, Handle(r) \/ StreamEnds(r)
    PROVE  RecordInv'
  <1> DEFINE q == req[r]
  <1>1. Fit(cfg, q) /\ Loaded(cfg) /\ DOMAIN q = Fields /\ Typed(cfg, q)
    BY DEF RecordInv, Fit, Typed
  <1>2. CASE StartOK(r)
    <2> DEFINE p == [q EXCEPT !.pc = "posting"]
    <2>1. q.pc = "starting" /\ Become(r, p, Begin(BackendAt(q), uses)) /\ Quietly
      BY <1>2 DEF StartOK
    <2>2. /\ DOMAIN p = Fields /\ p.primary = q.primary /\ p.model = q.model /\ p.at = q.at
          /\ p.attempts = q.attempts /\ p.pc = "posting" /\ p.end = q.end /\ p.reply = q.reply
      BY <1>1 DEF Fields
    <2>3. Trying(cfg, q) /\ Unanswered(q)
      BY <1>1, <2>1 DEF Fit, Trying
    <2> HIDE DEF p, q
    <2>4. Unanswered(p)
      BY <2>2, <2>3 DEF Unanswered
    <2>5. Trying(cfg, p) /\ BackendAt(p) = BackendAt(q)
      BY <2>2, <2>3, <2>4, SameWay
    <2>6. Fit(cfg, p)
      BY <2>2, <2>4, <2>5 DEF Fit, Excused, Unanswered, Trying, Chosen
    <2>7. \A d : Share(cfg, p, d) = IF d = BackendAt(q) THEN 1 ELSE 0
      BY <2>2, <2>5 DEF Share, Holds, Checks, UsingPC, BackendAt
    <2>8. Settles(r, p, Begin(BackendAt(q), uses))
      BY <2>1, <2>7, IdleFreed, BeginSettles DEF q
    <2>9. QED
      BY <2>1, <2>2, <2>6, <2>8, NotYet, QuietKeeps DEF q
  <1>3. CASE StartFails(r)
    <2>1. q.pc = "starting" /\ Trying(cfg, q)
      BY <1>1, <1>3 DEF StartFails, Fit
    <2>2. Freed(r, uses)
      BY <2>1, IdleFreed
    <2>3. Refusal(cfg, q, "runtime_start_failed", "502")
      BY DEF Refusal, ErrorStatuses
    <2>4. QED
      BY <1>3, <2>1, <2>2, <2>3, RefuseRec DEF StartFails, Trying, Chosen
  <1>4. ASSUME q.pc = "posting", NEW answer \in Answers
        PROVE  LET p == Came(q, answer) IN
               /\ p = [q EXCEPT !.attempts = p.attempts]
               /\ DOMAIN p = Fields /\ Chosen(cfg, p) /\ Unanswered(p) /\ Last(p) = answer
               /\ p.primary = q.primary /\ p.at = q.at /\ p.model = q.model
               /\ p.pc = "posting" /\ p.verdict = q.verdict
               /\ p.stream = q.stream /\ p.path = q.path
               /\ BackendAt(p) = BackendAt(q)
               /\ Freed(r, End(BackendAt(p), uses))
               /\ answer \in {"error", "5xx"} => Tried(cfg, p)
               /\ answer = "ok" => Answering(cfg, p)
               /\ Later(p) = {} =>
                    /\ answer = "5xx" => Answering(cfg, p)
                    /\ Len(p.attempts) = Cardinality(Places(cfg, p.primary))
    <2> DEFINE p == Came(q, answer)
    <2>1. Trying(cfg, q)
      BY <1>1, <1>4 DEF Fit
    <2>2. /\ p = [q EXCEPT !.attempts = p.attempts]
          /\ DOMAIN p = Fields /\ Chosen(cfg, p) /\ Unanswered(p) /\ Last(p) = answer
          /\ p.primary = q.primary /\ p.at = q.at /\ p.model = q.model
          /\ p.pc = q.pc /\ p.verdict = q.verdict /\ p.stream = q.stream /\ p.path = q.path
          /\ answer \in {"error", "5xx"} => Tried(cfg, p)
          /\ answer = "ok" => Answering(cfg, p)
          /\ answer = "5xx" /\ (\A j \in Places(cfg, p.primary) : j <= p.at) => Answering(cfg, p)
          /\ (\A j \in Places(cfg, p.primary) : j <= p.at)
               => Len(p.attempts) = Cardinality(Places(cfg, p.primary))
      BY <1>1, <2>1, CameRec
    <2> HIDE DEF p, q
    <2>3. BackendAt(p) = BackendAt(q)
      BY <2>2 DEF BackendAt
    <2>4. Freed(r, End(BackendAt(p), uses))
      BY <1>4, <2>3, EndFreed DEF q, UsingPC
    <2>5. Later(p) = {} => \A j \in Places(cfg, p.primary) : j <= p.at
      BY <1>1, <2>2, WalkOver DEF Chosen
    <2>6. QED
      BY <1>4, <2>2, <2>3, <2>4, <2>5 DEF p
  <1>5. CASE CallFails(r)
    <2> DEFINE p == Came(q, "error")
               u == End(BackendAt(p), uses)
    <2>1. q.pc = "posting" /\ "error" \in Answers
      BY <1>5 DEF CallFails, Answers
    <2>2. \/ Advance(r, p, u)
          \/ Later(p) = {} /\ Refuse(r, p, u, "upstream_request_failed", "502")
      BY <1>5 DEF CallFails
    <2>3. /\ Tried(cfg, p) /\ Freed(r, u) /\ Chosen(cfg, p) /\ Unanswered(p) /\ Last(p) = "error"
          /\ Later(p) = {} => Len(p.attempts) = Cardinality(Places(cfg, p.primary))
      BY <1>4, <2>1
    <2> HIDE DEF p, u
    <2>4. CASE Advance(r, p, u)
      BY <2>1, <2>3, <2>4, AdvanceRec
    <2>5. CASE Later(p) = {} /\ Refuse(r, p, u, "upstream_request_failed", "502")
      <3>1. Refusal(cfg, p, "upstream_request_failed", "502")
        BY <2>3, <2>5 DEF Refusal, ErrorStatuses
      <3>2. QED
        BY <2>1, <2>3, <2>5, <3>1, RefuseRec DEF Chosen
    <2>6. QED
      BY <2>2, <2>4, <2>5
  <1>6. CASE ServerError(r)
    <2> DEFINE p == Came(q, "5xx")
    <2>1. q.pc = "posting" /\ "5xx" \in Answers
      BY <1>6 DEF ServerError, Answers
    <2>2. \/ Advance(r, p, End(BackendAt(p), uses))
          \/ Streams(p) /\ Become(r, [p EXCEPT !.pc = "closing"], uses) /\ Quietly
      BY <1>6 DEF ServerError
    <2>3. /\ Tried(cfg, p) /\ Freed(r, End(BackendAt(p), uses)) /\ Unanswered(p)
          /\ DOMAIN p = Fields /\ BackendAt(p) = BackendAt(q) /\ p.pc = "posting"
          /\ p.primary = q.primary /\ p.at = q.at
      BY <1>4, <2>1
    <2> HIDE DEF p
    <2>4. CASE Advance(r, p, End(BackendAt(p), uses))
      BY <2>1, <2>3, <2>4, AdvanceRec
    <2>5. CASE Streams(p) /\ Become(r, [p EXCEPT !.pc = "closing"], uses) /\ Quietly
      <3> DEFINE x == [p EXCEPT !.pc = "closing"]
      <3>1. /\ DOMAIN x = Fields /\ x.primary = p.primary /\ x.model = p.model /\ x.at = p.at
            /\ x.attempts = p.attempts /\ x.pc = "closing" /\ x.end = p.end /\ x.reply = p.reply
        BY <2>3 DEF Fields
      <3> HIDE DEF x
      <3>2. Unanswered(x)
        BY <2>3, <3>1 DEF Unanswered
      <3>3. Tried(cfg, x)
        BY <2>3, <3>1, <3>2, SameWay
      <3>4. Fit(cfg, x)
        BY <3>1, <3>2, <3>3 DEF Fit, Excused, Unanswered, Tried, Chosen
      <3>5. \A b : Share(cfg, x, b) = Share(cfg, q, b)
        BY <2>1, <2>3, <3>1 DEF Share, Holds, Checks, UsingPC
      <3>6. QED
        BY <2>1, <2>5, <3>1, <3>4, <3>5, GoesOnRec DEF x
    <2>6. QED
      BY <2>2, <2>4, <2>5
  <1>7. CASE Closed(r)
    <2>1. q.pc = "closing" /\ Advance(r, q, End(BackendAt(q), uses))
      BY <1>7 DEF Closed
    <2>2. Tried(cfg, q) /\ Freed(r, End(BackendAt(q), uses))
      BY <1>1, <2>1, EndFreed DEF Fit, UsingPC
    <2>3. QED
      BY <2>1, <2>2, AdvanceRec
  <1>8. CASE CloseFails(r)
    <2> DEFINE p == [q EXCEPT !.pc = "done", !.reply = [by |-> "framework", code |-> "500"]]
    <2>1. q.pc = "closing" /\ Become(r, p, End(BackendAt(q), uses)) /\ Quietly
      BY <1>8 DEF CloseFails
    <2>2. /\ DOMAIN p = Fields /\ p.primary = q.primary /\ p.model = q.model /\ p.at = q.at
          /\ p.attempts = q.attempts /\ p.pc = "done" /\ p.end = q.end /\ p.reply.by = "framework"
      BY <1>1 DEF Fields
    <2>3. Freed(r, End(BackendAt(q), uses)) /\ q.end = "none" /\ Typed(cfg, q) /\ Walked(cfg, q)
      BY <1>1, <2>1, EndFreed DEF Fit, UsingPC
    <2> HIDE DEF p, q
    <2>4. Typed(cfg, p) /\ Walked(cfg, p)
      BY <2>2, <2>3, SameWay
    <2>5. p.reply # [by |-> "backend", code |-> "ok"] /\ p.reply # [by |-> "backend", code |-> "5xx"]
          /\ p.reply # [by |-> "proxy", code |-> "502"]
      BY <2>2
    <2>6. Fit(cfg, p)
      BY <2>2, <2>4, <2>5 DEF Fit, Excused
    <2>7. ~Replied(p) /\ ~Erred(p) /\ ~Interrupted(p)
      BY <2>2, <2>3, <2>5 DEF Replied, Erred, Interrupted
    <2>8. Settles(r, p, End(BackendAt(q), uses))
      BY <2>2, <2>3, FreedSettles DEF Holds, Checks, UsingPC
    <2>9. QED
      BY <2>1, <2>6, <2>7, <2>8, QuietKeeps DEF q
  <1>9. CASE Answered(r)
    <2>1. PICK answer \in {"ok", "5xx"} :
            LET p == Came(q, answer) IN
            /\ q.pc = "posting" /\ (answer = "5xx" => Later(p) = {})
            /\ \/ Verify(r, p, End(BackendAt(p), uses))
               \/ Streams(p) /\ Become(r, [p EXCEPT !.pc = "opened"], uses) /\ Quietly
      BY <1>9, Zenon DEF Answered
    <2> DEFINE p == Came(q, answer)
    <2>2. answer \in Answers
      BY DEF Answers
    <2>3. /\ Answering(cfg, p) /\ Freed(r, End(BackendAt(p), uses)) /\ Unanswered(p)
          /\ DOMAIN p = Fields /\ BackendAt(p) = BackendAt(q) /\ p.pc = "posting"
          /\ p.primary = q.primary /\ p.at = q.at
      BY <1>4, <2>1, <2>2
    <2>4. \/ Verify(r, p, End(BackendAt(p), uses))
          \/ Streams(p) /\ Become(r, [p EXCEPT !.pc = "opened"], uses) /\ Quietly
      BY <2>1
    <2> HIDE DEF p
    <2>5. CASE Verify(r, p, End(BackendAt(p), uses))
      BY <2>1, <2>3, <2>5, VerifyRec
    <2>6. CASE Streams(p) /\ Become(r, [p EXCEPT !.pc = "opened"], uses) /\ Quietly
      <3> DEFINE x == [p EXCEPT !.pc = "opened"]
      <3>1. /\ DOMAIN x = Fields /\ x.primary = p.primary /\ x.model = p.model /\ x.at = p.at
            /\ x.attempts = p.attempts /\ x.pc = "opened" /\ x.end = p.end /\ x.reply = p.reply
            /\ x.stream = p.stream /\ x.path = p.path
        BY <2>3 DEF Fields
      <3> HIDE DEF x
      <3>2. Unanswered(x) /\ Streams(x)
        BY <2>3, <2>6, <3>1 DEF Unanswered, Streams
      <3>3. Answering(cfg, x)
        BY <2>3, <3>1, SameWay
      <3>4. Fit(cfg, x)
        BY <3>1, <3>2, <3>3 DEF Fit, Excused, Unanswered, Answering, Chosen
      <3>5. \A b : Share(cfg, x, b) = Share(cfg, q, b)
        BY <2>1, <2>3, <3>1 DEF Share, Holds, Checks, UsingPC
      <3>6. QED
        BY <2>1, <2>6, <3>1, <3>4, <3>5, GoesOnRec DEF x
    <2>7. QED
      BY <2>4, <2>5, <2>6
  <1>10. CASE VerifierStarts(r)
    <2> DEFINE p == [q EXCEPT !.pc = "verifying"]
    <2>1. /\ q.pc = "waking"
          /\ \/ Become(r, p, Begin(cfg.checker, uses)) /\ Quietly
             \/ Conclude(r, [q EXCEPT !.verdict = "error"], uses)
      BY <1>10 DEF VerifierStarts
    <2>2. Answering(cfg, q) /\ Unanswered(q) /\ Freed(r, uses)
      BY <1>1, <2>1, IdleFreed DEF Fit, Unanswered
    <2>3. CASE Conclude(r, [q EXCEPT !.verdict = "error"], uses)
      BY <2>1, <2>2, <2>3, ConcludeRec
    <2>4. CASE Become(r, p, Begin(cfg.checker, uses)) /\ Quietly
      <3>1. /\ DOMAIN p = Fields /\ p.primary = q.primary /\ p.model = q.model /\ p.at = q.at
            /\ p.attempts = q.attempts /\ p.pc = "verifying" /\ p.end = q.end /\ p.reply = q.reply
        BY <1>1 DEF Fields
      <3> HIDE DEF p, q
      <3>2. Unanswered(p) /\ Answering(cfg, p)
        BY <2>2, <3>1, SameWay DEF Unanswered
      <3>3. Fit(cfg, p)
        BY <3>1, <3>2 DEF Fit, Excused, Unanswered, Answering, Chosen
      <3>4. \A d : Share(cfg, p, d) = IF d = cfg.checker THEN 1 ELSE 0
        BY <3>1 DEF Share, Holds, Checks, UsingPC
      <3>5. Settles(r, p, Begin(cfg.checker, uses))
        BY <2>2, <3>4, BeginSettles
      <3>6. QED
        BY <2>1, <2>4, <3>1, <3>3, <3>5, NotYet, QuietKeeps DEF q
    <2>5. QED
      BY <2>1, <2>3, <2>4
  <1>11. CASE VerifierAnswers(r)
    <2>1. q.pc = "verifying"
          /\ \E v \in {"passed", "failed", "error"} :
                Conclude(r, [q EXCEPT !.verdict = v], End(cfg.checker, uses))
      BY <1>11 DEF VerifierAnswers
    <2>2. Answering(cfg, q) /\ Unanswered(q)
      BY <1>1, <2>1 DEF Fit, Unanswered
    <2>3. Freed(r, End(cfg.checker, uses))
      BY <2>1, EndFreed
    <2>4. QED
      BY <2>1, <2>2, <2>3, ConcludeRec
  <1>12. CASE StreamBegins(r)
    <2> DEFINE p == [q EXCEPT !.pc = "streaming", !.reply = [by |-> "backend", code |-> Last(q)]]
    <2>1. q.pc = "opened" /\ Become(r, p, uses) /\ Quietly
      BY <1>12 DEF StreamBegins
    <2>2. /\ DOMAIN p = Fields /\ p.primary = q.primary /\ p.model = q.model /\ p.at = q.at
          /\ p.attempts = q.attempts /\ p.pc = "streaming" /\ p.end = q.end
          /\ p.reply = [by |-> "backend", code |-> Last(q)] /\ p.stream = q.stream /\ p.path = q.path
      BY <1>1 DEF Fields
    <2>3. Answering(cfg, q) /\ Streams(q) /\ q.end = "none"
      BY <1>1, <2>1 DEF Fit
    <2> HIDE DEF p, q
    <2>4. Answering(cfg, p) /\ Last(p) = Last(q) /\ Streams(p)
      BY <2>2, <2>3, SameWay DEF Streams
    <2>5. Fit(cfg, p)
      <3>1. Last(p) = "5xx" => Len(p.attempts) = Cardinality(Places(cfg, p.primary))
        BY <1>1, <2>4, RankBounds DEF Answering, Chosen, Typed
      <3>2. p.reply.code = Last(p) /\ p.reply.by = "backend"
        BY <2>2, <2>4
      <3>3. QED
        BY <2>2, <2>3, <2>4, <3>1, <3>2 DEF Fit, Excused, Answering, Chosen
    <2>6. \A b : Share(cfg, p, b) = Share(cfg, q, b)
      BY <2>1, <2>2 DEF Share, Holds, Checks, UsingPC
    <2>7. QED
      BY <2>1, <2>2, <2>5, <2>6, GoesOnRec DEF q
  <1>13. CASE Abandon(r)
    <2> DEFINE p == [q EXCEPT !.pc = "abandoned"]
    <2>1. q.pc = "opened" /\ Become(r, p, uses) /\ Quietly
      BY <1>13 DEF Abandon
    <2>2. /\ DOMAIN p = Fields /\ p.primary = q.primary /\ p.model = q.model /\ p.at = q.at
          /\ p.attempts = q.attempts /\ p.pc = "abandoned" /\ p.end = q.end /\ p.reply = q.reply
      BY <1>1 DEF Fields
    <2>3. Answering(cfg, q) /\ Unanswered(q)
      BY <1>1, <2>1 DEF Fit, Unanswered
    <2> HIDE DEF p, q
    <2>4. Answering(cfg, p) /\ Unanswered(p)
      BY <2>2, <2>3, SameWay DEF Unanswered
    <2>5. Fit(cfg, p)
      BY <2>2, <2>4 DEF Fit, Excused, Unanswered, Answering, Chosen
    <2>6. \A b : Share(cfg, p, b) = Share(cfg, q, b)
      BY <2>1, <2>2 DEF Share, Holds, Checks, UsingPC
    <2>7. QED
      BY <2>1, <2>2, <2>5, <2>6, GoesOnRec DEF q
  <1>14. CASE StreamEnds(r)
    <2>1. PICK end \in {"complete", "upstream_error", "cancelled", "closed"} :
            q.pc = "streaming" /\ Become(r, [q EXCEPT !.pc = "finishing", !.end = end], uses)
            /\ Quietly
      BY <1>14, Zenon DEF StreamEnds
    <2> DEFINE p == [q EXCEPT !.pc = "finishing", !.end = end]
    <2>2. /\ DOMAIN p = Fields /\ p.primary = q.primary /\ p.model = q.model /\ p.at = q.at
          /\ p.attempts = q.attempts /\ p.pc = "finishing" /\ p.end = end /\ p.reply = q.reply
          /\ p.stream = q.stream /\ p.path = q.path
      BY <1>1 DEF Fields
    <2>3. Answering(cfg, q) /\ Streams(q) /\ q.reply = [by |-> "backend", code |-> Last(q)]
          /\ (q.reply = [by |-> "backend", code |-> "5xx"]
                => Len(q.attempts) = Cardinality(Places(cfg, q.primary)))
      BY <1>1, <2>1 DEF Fit
    <2>4. Become(r, p, uses) /\ Quietly
      BY <2>1
    <2> HIDE DEF p, q
    <2>5. Answering(cfg, p) /\ Last(p) = Last(q) /\ Streams(p)
      BY <2>2, <2>3, SameWay DEF Streams
    <2>6. Fit(cfg, p)
      BY <2>2, <2>3, <2>5 DEF Fit, Excused, Answering, Chosen
    <2>7. \A b : Share(cfg, p, b) = Share(cfg, q, b)
      BY <2>1, <2>2 DEF Share, Holds, Checks, UsingPC
    <2>8. QED
      BY <2>1, <2>2, <2>4, <2>6, <2>7, GoesOnRec DEF q
  <1>15. CASE StreamFinishes(r)
    <2> DEFINE p == [q EXCEPT !.pc = "done"]
               status == IF q.end \in {"upstream_error", "cancelled"} THEN "stream_interrupted"
                                                                     ELSE "forwarded"
    <2>1. q.pc = "finishing" /\ Record(r, p, End(BackendAt(q), uses), status, Last(q))
      BY <1>15 DEF StreamFinishes
    <2>2. /\ DOMAIN p = Fields /\ p.primary = q.primary /\ p.model = q.model /\ p.at = q.at
          /\ p.attempts = q.attempts /\ p.pc = "done" /\ p.end = q.end /\ p.reply = q.reply
          /\ p.stream = q.stream /\ p.path = q.path
      BY <1>1 DEF Fields
    <2>3. Answering(cfg, q) /\ Streams(q) /\ q.reply = [by |-> "backend", code |-> Last(q)]
      BY <1>1, <2>1 DEF Fit
    <2>4. Freed(r, End(BackendAt(q), uses))
      BY <2>1, EndFreed DEF UsingPC
    <2>5. /\ status \in {"forwarded", "stream_interrupted"}
          /\ status = "stream_interrupted" <=> q.end \in {"upstream_error", "cancelled"}
      OBVIOUS
    <2> HIDE DEF p, q, status
    <2>6. Answering(cfg, p) /\ Last(p) = Last(q) /\ Streams(p)
      BY <2>2, <2>3, SameWay DEF Streams
    <2>7. Last(q) \in {"ok", "5xx"}
      BY <2>3 DEF Answering
    <2>8. p.reply.by = "backend" /\ p.reply.code = Last(q)
      BY <2>2, <2>3
    <2>9. ~Erred(p) /\ (status = "stream_interrupted" <=> Interrupted(p)) /\ Excused(cfg, p)
      BY <2>2, <2>5, <2>6, <2>8 DEF Erred, Interrupted, Excused
    <2>10. Settles(r, p, End(BackendAt(q), uses))
      BY <2>2, <2>4, FreedSettles DEF Holds, Checks, UsingPC
    <2>11. status # "verification_failed" /\ q.pc # "done"
           /\ (p.reply = [by |-> "backend", code |-> "5xx"] => Last(p) = "5xx")
      BY <2>1, <2>5, <2>6, <2>8
    <2>12. QED
      BY <2>1, <2>2, <2>5, <2>6, <2>7, <2>8, <2>9, <2>10, <2>11, AnswerRec DEF q
  <1>16. QED
    BY <1>2, <1>3, <1>5, <1>6, <1>7, <1>8, <1>9, <1>10, <1>11, <1>12, <1>13, <1>14, <1>15,
       Zenon DEF Handle
-----------------------------------------------------------------------------
\* The invariant holds of every behaviour.
LEMMA AlwaysRecorded == Spec => []RecordInv
  <1>1. Init => RecordInv
    <2> SUFFICES ASSUME Init PROVE RecordInv
      OBVIOUS
    <2> DEFINE q == NewRequest("chat/completions", FALSE)
    <2>1. Loaded(cfg)
      BY DEF Init, Loaded
    <2>2. /\ DOMAIN q = Fields /\ q.primary = NoBackend /\ q.model = "none" /\ q.at = 0
          /\ q.attempts = <<>> /\ q.reply.by = "nobody" /\ q.end = "none" /\ q.pc = "new"
      BY DEF NewRequest, Fields
    <2> HIDE DEF q
    <2>3. Typed(cfg, q) /\ Walked(cfg, q)
      BY <2>1, <2>2, FreshTyped
    <2>4. Fit(cfg, q) /\ ~Replied(q) /\ ~Erred(q) /\ ~Interrupted(q)
      BY <2>2, <2>3 DEF Fit, Excused, Replied, Erred, Interrupted
    <2>5. /\ req = [r \in Requests |-> q] /\ log = [r \in Requests |-> <<>>]
          /\ uses = [b \in Names |-> 0]
          /\ stats = [total |-> 0, fallbacks |-> 0, interruptions |-> 0, errors |-> 0]
      BY DEF Init, q
    <2>6. LogFits(cfg, q, <<>>)
      BY <2>4 DEF LogFits
    <2>7. cfg.managed \subseteq Names
      BY <2>1, FilesAssumption DEF Loaded
    <2>8. UsesBalanced
      <3>1. ASSUME NEW b \in cfg.managed
            PROVE  /\ {r \in Requests : req[r].pc \in UsingPC /\ BackendAt(req[r]) = b} = {}
                   /\ {r \in Requests : req[r].pc = "verifying" /\ cfg.checker = b} = {}
        BY <2>2, <2>5 DEF UsingPC
      <3>2. \A b \in cfg.managed : uses[b] = 0
        BY <2>5, <2>7
      <3>3. ASSUME NEW b \in cfg.managed
            PROVE  uses[b] = Cardinality({r \in Requests : req[r].pc \in UsingPC /\ BackendAt(req[r]) = b})
                             + Cardinality({r \in Requests : req[r].pc = "verifying" /\ cfg.checker = b})
        <4>1. Cardinality({r \in Requests : req[r].pc \in UsingPC /\ BackendAt(req[r]) = b}) = 0
          BY <3>1, FS_EmptySet
        <4>2. Cardinality({r \in Requests : req[r].pc = "verifying" /\ cfg.checker = b}) = 0
          BY <3>1, FS_EmptySet
        <4>3. QED
          BY <3>2, <4>1, <4>2
      <3>4. QED
        BY <3>3 DEF UsesBalanced
    <2>9. StatsAddUp
      <3>1. /\ {r \in Requests : req[r].reply = [by |-> "proxy", code |-> "502"]} = {}
            /\ {r \in Requests : req[r].pc = "done" /\ req[r].end \in {"upstream_error", "cancelled"}} = {}
            /\ {r \in Requests : req[r].pc = "done" /\ req[r].reply.by \in {"proxy", "backend"}} = {}
        BY <2>2, <2>4, <2>5 DEF Erred
      <3>2. QED
        BY <2>5, <3>1, FS_EmptySet DEF StatsAddUp
    <2>10. stats \in Stats
      <3>1. stats = [f \in {"total", "fallbacks", "interruptions", "errors"} |-> 0]
        BY <2>5
      <3>2. QED
        BY <3>1 DEF Stats
    <2>11. QED
      BY <2>1, <2>4, <2>5, <2>6, <2>8, <2>9, <2>10 DEF RecordInv
  <1>2. RecordInv /\ [Next]_vars => RecordInv'
    <2>1. ASSUME RecordInv, Next PROVE RecordInv'
      BY <2>1, ReceiveRec, HandleRec DEF Next
    <2>2. ASSUME RecordInv, UNCHANGED vars PROVE RecordInv'
      <3>1. cfg' = cfg /\ req' = req /\ log' = log /\ uses' = uses /\ stats' = stats
        BY <2>2 DEF vars
      <3>2. UsesBalanced' /\ StatsAddUp'
        BY <2>2, <3>1 DEF RecordInv, UsesBalanced, BackendAt, StatsAddUp
      <3>3. QED
        BY <2>2, <3>1, <3>2 DEF RecordInv
    <2>3. QED
      BY <2>1, <2>2
  <1>3. QED
    BY <1>1, <1>2, PTL DEF Spec

\* Every variable keeps its type, the uses of a backend's runtime among them: no end_request
\* comes without its begin_request.
THEOREM RequestsWellTyped == Spec => []TypeOK
  <1>1. RecordInv /\ PolicyInv => TypeOK
    <2> SUFFICES ASSUME RecordInv, PolicyInv PROVE TypeOK
      OBVIOUS
    <2>1. LoadProxyConfig(cfg) /\ uses \in [Names -> Nat] /\ stats \in Stats /\ cfg.backends \subseteq Names
      BY FilesAssumption DEF RecordInv, Loaded
    <2>2. ASSUME NEW r \in Requests
          PROVE  /\ req[r].primary \in Names \cup {NoBackend}
                 /\ req[r].at \in {0} \cup DOMAIN Configured(cfg, req[r].primary)
                 /\ req[r].bound \subseteq Names
                 /\ req[r].attempts \in Seq(Sent)
                 /\ log[r] \in Seq(Row)
      <3>1. Typed(cfg, req[r]) /\ LogFits(cfg, req[r], log[r])
        BY DEF RecordInv, Fit
      <3>2. req[r].bound \subseteq Names
        BY <2>1 DEF PolicyInv, Sound, Permitted
      <3>3. QED
        BY <3>1, <3>2 DEF Typed, LogFits, Places
    <2>3. QED
      BY <2>1, <2>2 DEF TypeOK, Stats, Sent, Row
  <1>2. QED
    BY <1>1, AlwaysRecorded, AlwaysPolicy, PTL

\* begin_request and end_request balance: a runtime's counter is the number of requests
\* that use it at that moment, on whatever path they came to it and will leave it.
THEOREM UsesNeverLeak == Spec => []UsesBalanced
  <1>1. RecordInv => UsesBalanced
    BY DEF RecordInv
  <1>2. QED
    BY <1>1, AlwaysRecorded, PTL

\* _post_with_fallbacks and _open_stream_with_fallbacks try the backends in order and pass
\* over none, whatever the chains of the configuration; and under fail_closed an answer goes
\* out only if it passed the verifier or the verifier was not asked.
THEOREM AnswersAreEarned == Spec => []AnswerEarned
  <1>1. RecordInv => AnswerEarned
    <2> SUFFICES ASSUME RecordInv PROVE AnswerEarned
      OBVIOUS
    <2>1. ASSUME NEW r \in Requests
          PROVE  /\ Fit(cfg, req[r]) /\ LogFits(cfg, req[r], log[r])
                 /\ Typed(cfg, req[r]) /\ Walked(cfg, req[r]) /\ Excused(cfg, req[r])
      BY DEF RecordInv, Fit
    <2>2. VerifiedOrExcused
      BY <2>1 DEF VerifiedOrExcused, Excused
    <2>3. FirstGoodAnswer
      <3> SUFFICES ASSUME NEW r \in Requests
                   PROVE  LET q == req[r]
                              places == Places(cfg, q.primary)
                              tried == Len(q.attempts)
                          IN /\ tried <= Cardinality(places)
                             /\ \A i \in places : \A n \in 1..tried :
                                  n = Rank(cfg, q.primary, i)
                                      => q.attempts[n].to = Target(cfg, q.primary, i)
                             /\ \A n \in 1..tried - 1 : q.attempts[n].came \in {"error", "5xx"}
                             /\ q.reply = [by |-> "backend", code |-> "5xx"]
                                  => tried = Cardinality(places)
                             /\ \A n \in DOMAIN log[r] :
                                  log[r][n].status = "upstream_request_failed"
                                      => tried = Cardinality(places) /\ Last(q) = "error"
        BY DEF FirstGoodAnswer
      <3> DEFINE q == req[r]
      <3>1. Len(q.attempts) \in Nat
        BY <2>1 DEF Typed
      <3>2. \A n \in DOMAIN log[r] : Tells(cfg, q, log[r][n])
        BY <2>1 DEF LogFits
      <3>3. Walked(cfg, q) /\ Fit(cfg, q)
        BY <2>1
      <3> HIDE DEF q
      <3>4. /\ Len(q.attempts) <= Cardinality(Places(cfg, q.primary))
            /\ \A i \in Places(cfg, q.primary) : \A n \in 1 .. Len(q.attempts) :
                 n = Rank(cfg, q.primary, i) => q.attempts[n].to = Target(cfg, q.primary, i)
            /\ \A n \in 1 .. Len(q.attempts) - 1 : q.attempts[n].came \in {"error", "5xx"}
        BY <3>1, <3>3 DEF Walked
      <3>5. q.reply = [by |-> "backend", code |-> "5xx"]
              => Len(q.attempts) = Cardinality(Places(cfg, q.primary))
        BY <3>3 DEF Fit
      <3>6. \A n \in DOMAIN log[r] : log[r][n].status = "upstream_request_failed"
              => Len(q.attempts) = Cardinality(Places(cfg, q.primary)) /\ Last(q) = "error"
        BY <3>2 DEF Tells
      <3>7. QED
        BY <3>4, <3>5, <3>6 DEF q
    <2>4. QED
      BY <2>2, <2>3 DEF AnswerEarned
  <1>2. QED
    BY <1>1, AlwaysRecorded, PTL

\* A request that was answered leaves one row, which names the backend that answered and the
\* model it was sent, and the session's counters are the sum of what the clients got.
THEOREM RecordsAreTrue == Spec => []RecordsTrue
  <1>1. RecordInv => RecordsTrue
    <2>1. RecordInv => OneRow
      BY DEF RecordInv, LogFits, Replied, OneRow
    <2>2. RecordInv => RowTellsTruth
      BY DEF RecordInv, LogFits, Tells, RowTellsTruth
    <2>3. RecordInv => StatsAddUp
      BY DEF RecordInv
    <2>4. QED
      BY <2>1, <2>2, <2>3 DEF RecordsTrue
  <1>2. QED
    BY <1>1, AlwaysRecorded, PTL
=============================================================================
