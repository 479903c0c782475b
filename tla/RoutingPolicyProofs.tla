------------------------ MODULE RoutingPolicyProofs ------------------------
(***************************************************************************)
(* What holds of route and route_fast for every catalog, every outcome of  *)
(* the availability checks, every prompt and all hints. First, they stop   *)
(* at the same engine when they start at the same one with the same needs. *)
(* The engines that route has visited tell route_fast's story in advance.  *)
(* Either they end with the first usable one: then the round and the       *)
(* engine of the second walk go hand in hand, and its bound is never met,  *)
(* as the visited engines are distinct. Or none of them is usable and      *)
(* every fallback leads back to one of them or nowhere: then the second    *)
(* walk never leaves them, and fails closed however many rounds it has.    *)
(* Then, what they choose the configured policy permits, and a request     *)
(* that needs confirmation gets it. Together: route_fast answers what      *)
(* route explains. Last, what receipt, alternatives and dispatch plan tell *)
(* of a decision is what the walk did: WalkTold says of the walk that all  *)
(* it has visited before the engine it stops at was rejected on the way.   *)
(***************************************************************************)
EXTENDS RouteExplanation, FunctionTheorems, FiniteSetTheorems, TLAPS

Known == DOMAIN catalog.engines
Takes(e) == e \in Known /\ Usable(e, RouteNeeds)

\* The two walks are one.
SameWalk == FastStart = RouteStart /\ FastNeeds = RouteNeeds

Distinct(s) == \A i, j \in DOMAIN s : s[i] = s[j] => i = j

\* visited is the chain of fallbacks from the start.
Linked ==
    /\ visited \in Seq(Known) /\ Distinct(visited)
    /\ visited # <<>> => visited[1] = RouteStart
    /\ \A i \in 1 .. Len(visited) - 1 :
        ~Takes(visited[i]) /\ Fallback(visited[i]) = visited[i + 1] /\ visited[i + 1] # NoEngine

\* The loop of route: everything visited has been passed over.
Walking ==
    /\ Linked
    /\ visited = <<>> => current = RouteStart
    /\ visited # <<>> =>
        /\ ~Takes(visited[Len(visited)])
        /\ Fallback(visited[Len(visited)]) = current /\ current # NoEngine

\* The chain ends with the selected engine.
Found ==
    /\ Linked /\ visited # <<>>
    /\ Takes(visited[Len(visited)]) /\ selected = visited[Len(visited)]

\* The chain leads nowhere.
Dead ==
    /\ selected = Human /\ RouteStart \in Visited
    /\ \A e \in Visited : ~Takes(e) /\ (e \in Known => Fallback(e) \in Visited \cup {NoEngine})

WalkInv ==
    /\ catalog \in Catalogs
    /\ rounds \in Nat
    /\ pc \in {"route", "explained", "fast", "done"}
    /\ pc = "route" => Walking /\ rounds = 0
    /\ pc = "explained" => (Found \/ Dead) /\ rounds = 0
    /\ pc = "fast" =>
        \/ ~SameWalk
        \/ Found /\ rounds < Len(visited) /\ current = visited[rounds + 1]
        \/ Dead /\ current \in Visited
    /\ pc = "done" => FastFailsClosed \/ ~SameWalk \/ fast = selected
-----------------------------------------------------------------------------
(* The prompt, the hints and the catalog stay, and so does what follows.   *)

Asked == <<catalog, available, prompt, hints>>

LEMMA Steady ==
    ASSUME UNCHANGED Asked
    PROVE  /\ Known' = Known
           /\ RouteStart' = RouteStart
           /\ RouteNeeds' = RouteNeeds
           /\ SameWalk' <=> SameWalk
           /\ FastFailsClosed' <=> FastFailsClosed
           /\ \A e : Takes(e)' <=> Takes(e)
           /\ \A e : Fallback(e)' = Fallback(e)
  <1> USE DEF Asked
  <1>1. Known' = Known
    BY DEF Known
  <1>2. PromptConfirms' = PromptConfirms /\ SafeConfirms' = SafeConfirms
        /\ ActionConfirms' = ActionConfirms /\ SafeScan' = SafeScan
    BY DEF PromptConfirms, SafeConfirms, ActionConfirms, SafeScan
  <1>3. Forced' = Forced
    BY <1>2 DEF Forced
  <1>4. RouteTarget' = RouteTarget
    BY <1>2, <1>3 DEF RouteTarget, Classified, RequiredModalities
  <1>5. RouteStart' = RouteStart
    BY <1>3, <1>4 DEF RouteStart
  <1>6. RouteNeeds' = RouteNeeds
    BY <1>4 DEF RouteNeeds, Coerced
  <1>7. FastScanned' = FastScanned /\ FastTarget' = FastTarget
    BY <1>2 DEF FastScanned, FastTarget, RequiredModalities
  <1>8. FastFailsClosed' = FastFailsClosed
    BY <1>2, <1>7 DEF FastFailsClosed
  <1>9. FastStart' = FastStart /\ FastNeeds' = FastNeeds
    BY <1>7 DEF FastStart, FastNeeds, Coerced
  <1>10. ASSUME NEW e PROVE Takes(e)' <=> Takes(e)
    BY <1>1, <1>6 DEF Takes, Usable
  <1>11. ASSUME NEW e PROVE Fallback(e)' = Fallback(e)
    BY DEF Fallback
  <1>12. QED
    BY <1>1, <1>5, <1>6, <1>8, <1>9, <1>10, <1>11 DEF SameWalk
-----------------------------------------------------------------------------
(* The chain of visited engines.                                           *)

LEMMA Appended ==
    ASSUME NEW S, NEW s \in Seq(S), NEW e \in S
    PROVE  /\ Append(s, e) \in Seq(S) /\ Len(s) \in Nat
           /\ Len(Append(s, e)) = Len(s) + 1
           /\ DOMAIN s = 1 .. Len(s) /\ DOMAIN Append(s, e) = 1 .. Len(s) + 1
           /\ \A i \in 1 .. Len(s) : Append(s, e)[i] = s[i]
           /\ Append(s, e)[Len(s) + 1] = e
           /\ Append(s, e) # <<>>
           /\ s = <<>> <=> Len(s) = 0
  OBVIOUS

LEMMA RangeAppended ==
    ASSUME NEW S, NEW s \in Seq(S), NEW e \in S
    PROVE  {Append(s, e)[i] : i \in DOMAIN Append(s, e)} = {s[i] : i \in DOMAIN s} \cup {e}
  <1> DEFINE t == Append(s, e)
  <1>1. /\ DOMAIN s = 1 .. Len(s) /\ DOMAIN t = 1 .. Len(s) + 1 /\ Len(s) \in Nat
        /\ \A i \in 1 .. Len(s) : t[i] = s[i]
        /\ t[Len(s) + 1] = e
    BY Appended
  <1> HIDE DEF t
  <1>2. ASSUME NEW i \in DOMAIN t PROVE t[i] \in {s[j] : j \in DOMAIN s} \cup {e}
    <2>1. i \in 1 .. Len(s) \/ i = Len(s) + 1
      BY <1>1
    <2>2. QED
      BY <1>1, <2>1
  <1>3. ASSUME NEW i \in DOMAIN s PROVE s[i] \in {t[j] : j \in DOMAIN t}
    <2>1. i \in DOMAIN t /\ t[i] = s[i]
      BY <1>1
    <2>2. QED
      BY <2>1
  <1>4. e \in {t[j] : j \in DOMAIN t}
    <2>1. Len(s) + 1 \in DOMAIN t
      BY <1>1
    <2>2. QED
      BY <1>1, <2>1
  <1>5. QED
    BY <1>2, <1>3, <1>4 DEF t

\* Distinct engines are not more than there are.
LEMMA ChainBound ==
    ASSUME NEW S, IsFiniteSet(S), NEW s \in Seq(S), Distinct(s)
    PROVE  Cardinality(S) \in Nat /\ Len(s) <= Cardinality(S)
  <1>1. Len(s) \in Nat /\ DOMAIN s = 1 .. Len(s)
    OBVIOUS
  <1>2. s \in Injection(1 .. Len(s), S)
    <2>1. s \in [1 .. Len(s) -> S]
      OBVIOUS
    <2>2. QED
      BY <1>1, <2>1 DEF Distinct, Injection, IsInjective
  <1>3. Cardinality(1 .. Len(s)) <= Cardinality(S)
    BY <1>2, FS_Injection
  <1>4. Cardinality(1 .. Len(s)) = Len(s)
    <2>1. Cardinality(1 .. Len(s)) = IF 1 > Len(s) THEN 0 ELSE Len(s) - 1 + 1
      BY <1>1, FS_Interval
    <2>2. QED
      BY <1>1, <2>1
  <1>5. Cardinality(S) \in Nat
    BY FS_CardinalityType
  <1>6. QED
    BY <1>3, <1>4, <1>5

\* The engine looked at continues the chain.
LEMMA ChainGrows ==
    ASSUME Walking, NEW e \in Known, current = e, e \notin Visited
    PROVE  LET t == Append(visited, e) IN
           /\ t \in Seq(Known) /\ Distinct(t) /\ t # <<>>
           /\ t[1] = RouteStart /\ t[Len(t)] = e
           /\ \A i \in 1 .. Len(t) - 1 :
                ~Takes(t[i]) /\ Fallback(t[i]) = t[i + 1] /\ t[i + 1] # NoEngine
  <1> DEFINE t == Append(visited, e)
             n == Len(visited)
  <1>1. /\ visited \in Seq(Known) /\ Distinct(visited)
        /\ visited # <<>> => visited[1] = RouteStart
        /\ \A i \in 1 .. n - 1 : ~Takes(visited[i]) /\ Fallback(visited[i]) = visited[i + 1]
                                 /\ visited[i + 1] # NoEngine
        /\ visited = <<>> => e = RouteStart
        /\ visited # <<>> => /\ ~Takes(visited[n]) /\ Fallback(visited[n]) = e
                             /\ e # NoEngine
    BY DEF Walking, Linked
  <1>2. /\ t \in Seq(Known) /\ n \in Nat /\ Len(t) = n + 1
        /\ DOMAIN visited = 1 .. n /\ DOMAIN t = 1 .. n + 1
        /\ \A i \in 1 .. n : t[i] = visited[i]
        /\ t[n + 1] = e /\ t # <<>>
        /\ visited = <<>> <=> n = 0
    BY <1>1, Appended
  <1>3. \A i \in 1 .. n : visited[i] # e
    BY <1>2 DEF Visited
  <1> HIDE DEF t, n
  <1>4. Distinct(t)
    <2>1. SUFFICES ASSUME NEW i \in 1 .. n + 1, NEW j \in 1 .. n + 1, t[i] = t[j]
                   PROVE  i = j
      BY <1>2 DEF Distinct
    <2>2. (i \in 1 .. n \/ i = n + 1) /\ (j \in 1 .. n \/ j = n + 1)
      BY <1>2
    <2>3. QED
      BY <2>1, <2>2, <1>1, <1>2, <1>3 DEF Distinct
  <1>5. t[1] = RouteStart
    BY <1>1, <1>2
  <1>6. ASSUME NEW i \in 1 .. Len(t) - 1
        PROVE ~Takes(t[i]) /\ Fallback(t[i]) = t[i + 1] /\ t[i + 1] # NoEngine
    <2>1. i \in 1 .. n /\ t[i] = visited[i]
      BY <1>2
    <2>2. CASE i = n
      BY <2>1, <2>2, <1>1, <1>2
    <2>3. CASE i # n
      <3>1. i \in 1 .. n - 1 /\ i + 1 \in 1 .. n
        BY <2>1, <2>3, <1>2
      <3>2. QED
        BY <2>1, <3>1, <1>1, <1>2
    <2>4. QED
      BY <2>2, <2>3
  <1>7. QED
    BY <1>2, <1>4, <1>5, <1>6 DEF t
-----------------------------------------------------------------------------
(* The steps of route.                                                     *)

LEMMA PassOverKeeps ==
    ASSUME WalkInv, NEW e \in Known, PassOver(e)
    PROVE  WalkInv'
  <1>1. /\ UNCHANGED Asked /\ rounds' = rounds /\ pc = "route" /\ pc' = "route"
        /\ current = e /\ e \notin Visited /\ ~Takes(e) /\ Fallback(e) # NoEngine
        /\ visited' = Append(visited, e) /\ current' = Fallback(e)
    BY DEF PassOver, Look, Asked, Takes, vars
  <1>2. Walking /\ rounds = 0
    BY <1>1 DEF WalkInv
  <1>3. /\ visited' \in Seq(Known) /\ Distinct(visited') /\ visited' # <<>>
        /\ visited'[1] = RouteStart /\ visited'[Len(visited')] = e
        /\ \A i \in 1 .. Len(visited') - 1 :
             /\ ~Takes(visited'[i]) /\ Fallback(visited'[i]) = visited'[i + 1]
             /\ visited'[i + 1] # NoEngine
    BY <1>1, <1>2, ChainGrows
  <1>4. Linked'
    BY <1>1, <1>3, Steady DEF Linked, Distinct
  <1>5. Walking'
    BY <1>1, <1>3, <1>4, Steady DEF Walking
  <1>6. QED
    BY <1>1, <1>2, <1>5 DEF WalkInv, Asked

LEMMA SelectKeeps ==
    ASSUME WalkInv, NEW e \in Known, Select(e)
    PROVE  WalkInv'
  <1>1. /\ UNCHANGED Asked /\ rounds' = rounds /\ pc = "route" /\ pc' = "explained"
        /\ current = e /\ e \notin Visited /\ Takes(e) /\ selected' = e
        /\ visited' = Append(visited, e)
    BY DEF Select, Look, Explain, Asked, Takes
  <1>2. Walking /\ rounds = 0
    BY <1>1 DEF WalkInv
  <1>3. /\ visited' \in Seq(Known) /\ Distinct(visited') /\ visited' # <<>>
        /\ visited'[1] = RouteStart /\ visited'[Len(visited')] = e
        /\ \A i \in 1 .. Len(visited') - 1 :
             /\ ~Takes(visited'[i]) /\ Fallback(visited'[i]) = visited'[i + 1]
             /\ visited'[i + 1] # NoEngine
    BY <1>1, <1>2, ChainGrows
  <1>4. Linked'
    BY <1>1, <1>3, Steady DEF Linked, Distinct
  <1>5. Found'
    BY <1>1, <1>3, <1>4, Steady DEF Found
  <1>6. QED
    BY <1>1, <1>2, <1>5 DEF WalkInv, Asked

\* The fallbacks of what has been passed over are in the chain, but the last.
LEMMA ChainClosed ==
    ASSUME Walking, NEW v \in Visited
    PROVE  v \in Known /\ ~Takes(v) /\ Fallback(v) \in Visited \cup {current}
  <1>1. /\ visited \in Seq(Known)
        /\ \A i \in 1 .. Len(visited) - 1 :
             ~Takes(visited[i]) /\ Fallback(visited[i]) = visited[i + 1]
        /\ visited # <<>> => /\ ~Takes(visited[Len(visited)])
                             /\ Fallback(visited[Len(visited)]) = current
    BY DEF Walking, Linked
  <1>2. PICK i \in DOMAIN visited : v = visited[i]
    BY DEF Visited
  <1>3. Len(visited) \in Nat /\ DOMAIN visited = 1 .. Len(visited) /\ visited # <<>>
    BY <1>1, <1>2
  <1>4. CASE i = Len(visited)
    BY <1>1, <1>2, <1>3, <1>4
  <1>5. CASE i # Len(visited)
    <2>1. i \in 1 .. Len(visited) - 1 /\ i + 1 \in DOMAIN visited
      BY <1>3, <1>5
    <2>2. visited[i + 1] \in Visited
      BY <2>1 DEF Visited
    <2>3. QED
      BY <1>1, <1>2, <1>3, <2>1, <2>2
  <1>6. QED
    BY <1>4, <1>5

LEMMA StartVisited ==
    ASSUME Walking
    PROVE  RouteStart \in Visited \cup {current}
  <1>1. CASE visited = <<>>
    BY <1>1 DEF Walking
  <1>2. CASE visited # <<>>
    <2>1. visited \in Seq(Known) /\ visited[1] = RouteStart
      BY <1>2 DEF Walking, Linked
    <2>2. 1 \in DOMAIN visited
      BY <1>2, <2>1
    <2>3. QED
      BY <2>1, <2>2 DEF Visited
  <1>3. QED
    BY <1>1, <1>2

\* route fails closed at the engine it looks at, which it had not seen, ...
LEMMA LastLookKeeps ==
    ASSUME WalkInv, pc = "route", ~Takes(current),
           current \in Known => Fallback(current) = NoEngine,
           Explain(Human), visited' = Append(visited, current)
    PROVE  WalkInv'
  <1>1. UNCHANGED Asked /\ pc' = "explained" /\ rounds' = rounds /\ selected' = Human
    BY DEF Explain, Asked
  <1>2. Walking /\ rounds = 0
    BY DEF WalkInv
  <1>3. Visited' = Visited \cup {current}
    <2>1. visited \in Seq(Known \cup {current})
      BY <1>2 DEF Walking, Linked
    <2>2. QED
      BY <2>1, RangeAppended DEF Visited
  <1>4. RouteStart \in Visited'
    BY <1>2, <1>3, StartVisited
  <1>5. ASSUME NEW v \in Visited'
        PROVE ~Takes(v) /\ (v \in Known => Fallback(v) \in Visited' \cup {NoEngine})
    BY <1>2, <1>3, <1>5, ChainClosed
  <1>6. Dead'
    BY <1>1, <1>4, <1>5, Steady DEF Dead
  <1>7. QED
    BY <1>1, <1>2, <1>6 DEF WalkInv, Asked

\* ... or at one it had seen.
LEMMA CycleKeeps ==
    ASSUME WalkInv, CycleDetected
    PROVE  WalkInv'
  <1>1. /\ UNCHANGED Asked /\ pc = "route" /\ pc' = "explained" /\ rounds' = rounds
        /\ selected' = Human /\ visited' = visited /\ current \in Visited
    BY DEF CycleDetected, Explain, Asked
  <1>2. Walking /\ rounds = 0
    BY <1>1 DEF WalkInv
  <1>3. RouteStart \in Visited
    BY <1>1, <1>2, StartVisited
  <1>4. Visited' = Visited
    BY <1>1 DEF Visited
  <1>5. ASSUME NEW v \in Visited PROVE ~Takes(v) /\ Fallback(v) \in Visited
    BY <1>1, <1>2, <1>5, ChainClosed
  <1>6. Dead'
    BY <1>1, <1>3, <1>4, <1>5, Steady DEF Dead
  <1>7. QED
    BY <1>1, <1>2, <1>6 DEF WalkInv, Asked
-----------------------------------------------------------------------------
(* The steps of route_fast.                                                *)

\* The condition in the loop of route_fast is the negation of the reasons.
LEMMA SameTest ==
    ASSUME SameWalk, NEW e \in Known
    PROVE  FastAccepts(e, FastNeeds) <=> Takes(e)
  <1>1. FastNeeds = RouteNeeds
    BY DEF SameWalk
  <1>2. ASSUME NEW needs PROVE FastAccepts(e, needs) <=> Usable(e, needs)
    BY DEF FastAccepts, Usable, NoConstraintReason
  <1>3. QED
    BY <1>1, <1>2 DEF Takes

LEMMA FastSteady ==
    ASSUME UNCHANGED <<Asked, visited, selected>>
    PROVE  (Found' <=> Found) /\ (Dead' <=> Dead) /\ Visited' = Visited
  <1>1. Visited' = Visited
    BY DEF Visited
  <1>2. Linked' <=> Linked
    BY Steady DEF Linked, Distinct
  <1>3. Found' <=> Found
    BY <1>2, Steady DEF Found
  <1>4. Dead' <=> Dead
    BY <1>1, Steady DEF Dead
  <1>5. QED
    BY <1>1, <1>3, <1>4

LEMMA AskFastKeeps ==
    ASSUME WalkInv, AskFast
    PROVE  WalkInv'
  <1>1. /\ UNCHANGED <<Asked, visited, selected>> /\ rounds' = rounds /\ pc = "explained"
        /\ FastFailsClosed => pc' = "done"
        /\ ~FastFailsClosed => pc' = "fast" /\ current' = FastStart
    BY DEF AskFast, Asked
  <1>2. (Found \/ Dead) /\ rounds = 0
    BY <1>1 DEF WalkInv
  <1>3. CASE FastFailsClosed
    BY <1>1, <1>3, Steady DEF WalkInv, Asked
  <1>4. CASE ~FastFailsClosed /\ ~SameWalk
    BY <1>1, <1>4, Steady DEF WalkInv, Asked
  <1>5. CASE ~FastFailsClosed /\ SameWalk /\ Found
    <2>1. Len(visited) > 0 /\ visited[1] = RouteStart
      BY <1>5 DEF Found, Linked
    <2>2. current' = visited'[rounds' + 1] /\ rounds' < Len(visited')
      BY <1>1, <1>2, <1>5, <2>1 DEF SameWalk
    <2>3. QED
      BY <1>1, <1>5, <2>2, FastSteady DEF WalkInv, Asked
  <1>6. CASE ~FastFailsClosed /\ SameWalk /\ Dead
    <2>1. current' \in Visited
      BY <1>1, <1>6 DEF Dead, SameWalk
    <2>2. QED
      BY <1>1, <1>6, <2>1, FastSteady DEF WalkInv, Asked
  <1>7. QED
    BY <1>2, <1>3, <1>4, <1>5, <1>6

\* Where the second walk is when there is an engine to find.
LEMMA Midway ==
    ASSUME Found, rounds \in Nat, rounds < Len(visited), current = visited[rounds + 1]
    PROVE  /\ current \in Known
           /\ Takes(current) => current = selected
           /\ ~Takes(current) => /\ rounds + 1 < Len(visited)
                                /\ Fallback(current) = visited[rounds + 2]
                                /\ Fallback(current) # NoEngine
  <1>1. visited \in Seq(Known) /\ Len(visited) \in Nat
    BY DEF Found, Linked
  <1>2. rounds + 1 \in DOMAIN visited
    BY <1>1
  <1>3. CASE rounds + 1 = Len(visited)
    BY <1>1, <1>2, <1>3 DEF Found
  <1>4. CASE rounds + 1 # Len(visited)
    <2>1. rounds + 1 \in 1 .. Len(visited) - 1 /\ rounds + 1 < Len(visited)
      BY <1>1, <1>4
    <2>2. (rounds + 1) + 1 = rounds + 2
      OBVIOUS
    <2>3. QED
      BY <1>1, <1>2, <2>1, <2>2 DEF Found, Linked
  <1>5. QED
    BY <1>3, <1>4

LEMMA FastPassOverKeeps ==
    ASSUME WalkInv, NEW e \in Known, FastPassOver(e)
    PROVE  WalkInv'
  <1>1. /\ UNCHANGED <<Asked, visited, selected>> /\ pc = "fast" /\ pc' = "fast"
        /\ current = e /\ ~FastAccepts(e, FastNeeds)
        /\ Fallback(e) # NoEngine /\ current' = Fallback(e) /\ rounds' = rounds + 1
    BY DEF FastPassOver, FastLook, Asked
  <1>2. rounds \in Nat /\ rounds' \in Nat /\ catalog \in Catalogs
    BY <1>1 DEF WalkInv
  <1>3. CASE ~SameWalk
    BY <1>1, <1>2, <1>3, Steady DEF WalkInv, Asked
  <1>4. CASE SameWalk /\ Found /\ rounds < Len(visited) /\ current = visited[rounds + 1]
    <2>1. ~Takes(current)
      BY <1>1, <1>4, SameTest
    <2>2. rounds' < Len(visited') /\ current' = visited'[rounds' + 1]
      <3>1. rounds + 1 < Len(visited) /\ Fallback(current) = visited[rounds + 2]
        BY <1>2, <1>4, <2>1, Midway
      <3>2. rounds' + 1 = rounds + 2
        BY <1>1, <1>2
      <3>3. QED
        BY <1>1, <3>1, <3>2
    <2>3. QED
      BY <1>1, <1>2, <1>4, <2>2, FastSteady DEF WalkInv, Asked
  <1>5. CASE SameWalk /\ Dead /\ current \in Visited
    <2>1. current' \in Visited
      BY <1>1, <1>5 DEF Dead
    <2>2. QED
      BY <1>1, <1>2, <1>5, <2>1, FastSteady DEF WalkInv, Asked
  <1>6. QED
    BY <1>1, <1>3, <1>4, <1>5 DEF WalkInv

LEMMA FastSelectKeeps ==
    ASSUME WalkInv, NEW e \in Known, FastSelect(e)
    PROVE  WalkInv'
  <1>1. /\ UNCHANGED <<Asked, visited, selected>> /\ rounds' = rounds /\ pc = "fast" /\ pc' = "done"
        /\ current = e /\ FastAccepts(e, FastNeeds) /\ fast' = e
    BY DEF FastSelect, FastLook, Return, Asked
  <1>2. rounds \in Nat /\ catalog \in Catalogs
    BY <1>1 DEF WalkInv
  <1>3. SameWalk => fast' = selected
    <2>1. SUFFICES ASSUME SameWalk PROVE e = selected
      BY <1>1
    <2>2. Takes(e)
      BY <1>1, <2>1, SameTest
    <2>3. CASE Found /\ rounds < Len(visited) /\ current = visited[rounds + 1]
      BY <1>1, <1>2, <2>2, <2>3, Midway
    <2>4. CASE Dead /\ current \in Visited
      BY <1>1, <2>2, <2>4 DEF Dead
    <2>5. QED
      BY <1>1, <2>1, <2>3, <2>4 DEF WalkInv
  <1>4. QED
    BY <1>1, <1>2, <1>3, Steady DEF WalkInv, Asked

LEMMA FastGivesUpKeeps ==
    ASSUME WalkInv, FastGivesUp
    PROVE  WalkInv'
  <1>1. /\ UNCHANGED <<Asked, visited, selected>> /\ rounds' = rounds /\ pc = "fast" /\ pc' = "done"
        /\ fast' = Human
        /\ \/ ~RoundsLeft
           \/ current \notin Known
           \/ ~FastAccepts(current, FastNeeds) /\ Fallback(current) = NoEngine
    BY DEF FastGivesUp, Return, Asked, Known
  <1>2. rounds \in Nat /\ catalog \in Catalogs
    BY <1>1 DEF WalkInv
  <1>3. SameWalk => fast' = selected
    <2>1. SUFFICES ASSUME SameWalk PROVE Human = selected
      BY <1>1
    <2>2. CASE Found /\ rounds < Len(visited) /\ current = visited[rounds + 1]
      <3>1. Len(visited) <= Cardinality(Known) /\ Cardinality(Known) \in Nat
        <4>1. IsFiniteSet(Known)
          BY <1>2, CatalogsAssumption DEF Known
        <4>2. visited \in Seq(Known) /\ Distinct(visited)
          BY <2>2 DEF Found, Linked
        <4>3. QED
          BY <4>1, <4>2, ChainBound
      <3>2. RoundsLeft
        <4>1. Len(visited) \in Nat
          BY <2>2 DEF Found, Linked
        <4>2. QED
          BY <1>2, <2>2, <3>1, <4>1 DEF RoundsLeft, Known
      <3>3. current \in Known /\ (~Takes(current) => Fallback(current) # NoEngine)
        BY <1>2, <2>2, Midway
      <3>4. QED
        BY <1>1, <2>1, <3>2, <3>3, SameTest
    <2>3. CASE Dead
      BY <2>3 DEF Dead
    <2>4. QED
      BY <1>1, <2>1, <2>2, <2>3 DEF WalkInv
  <1>4. QED
    BY <1>1, <1>2, <1>3, Steady DEF WalkInv, Asked
-----------------------------------------------------------------------------
LEMMA WalkStarts ==
    ASSUME Init
    PROVE  WalkInv
  <1>1. /\ catalog \in Catalogs /\ pc = "route" /\ rounds = 0
        /\ visited = <<>> /\ current = RouteStart
    BY DEF Init
  <1>2. Linked
    BY <1>1 DEF Linked, Distinct
  <1>3. QED
    BY <1>1, <1>2 DEF WalkInv, Walking

LEMMA WalkStutters ==
    ASSUME WalkInv, UNCHANGED vars
    PROVE  WalkInv'
  <1>1. UNCHANGED <<Asked, visited, selected>> /\ UNCHANGED <<pc, current, rounds, fast>>
    BY DEF vars, Asked
  <1>2. Linked' <=> Linked
    BY <1>1, Steady DEF Linked, Distinct
  <1>3. Walking' <=> Walking
    BY <1>1, <1>2, Steady DEF Walking
  <1>4. QED
    BY <1>1, <1>3, Steady, FastSteady DEF WalkInv, Asked

LEMMA WalkStep ==
    ASSUME WalkInv, Next
    PROVE  WalkInv'
  <1>1. ASSUME NEW e \in Known, LastRejected(e) PROVE WalkInv'
    BY <1>1, LastLookKeeps DEF LastRejected, Look, Takes
  <1>2. CASE Undefined
    BY <1>2, LastLookKeeps DEF Undefined, Takes, Known
  <1>3. QED
    BY <1>1, <1>2, PassOverKeeps, SelectKeeps, CycleKeeps,
       AskFastKeeps, FastPassOverKeeps, FastSelectKeeps, FastGivesUpKeeps, WalkStutters
    DEF Next, RouteStep, FastStep, Returned, Known

\* Whatever the catalog, its cycles and what is available, route and route_fast
\* answer alike when their starts and their needs are the same.
THEOREM TheWalksAgree == Spec => []WalksAgree
  <1>1. WalkInv /\ [Next]_vars => WalkInv'
    BY WalkStep, WalkStutters
  <1>2. WalkInv => WalksAgree
    BY DEF WalkInv, WalksAgree, SameWalk
  <1>3. QED
    BY <1>1, <1>2, WalkStarts, PTL DEF Spec
-----------------------------------------------------------------------------
(* Both loops are bounded.                                                 *)

TypeInv == TypeOK /\ prompt \in Prompts

LEMMA TargetsNamed ==
    ASSUME prompt \in Prompts
    PROVE  RouteTarget \in Targets /\ FastTarget \in Targets
  <1>1. prompt.scored.kind \in Targets /\ prompt.scanned.kind \in Targets
    BY PromptsAssumption
  <1>2. Classified \in Targets
    BY <1>1 DEF Classified, Targets
  <1>3. RouteTarget \in Targets
    BY <1>2 DEF RouteTarget, Targets
  <1>4. FastScanned \in Targets
    BY <1>1 DEF FastScanned, Targets
  <1>5. FastTarget \in Targets
    BY <1>4 DEF FastTarget, Targets
  <1>6. QED
    BY <1>3, <1>5

LEMMA StartsNamed ==
    ASSUME LoadRouterConfig(catalog), prompt \in Prompts
    PROVE  RouteStart \in Engines /\ FastStart \in Engines
  BY TargetsNamed DEF LoadRouterConfig, RouteStart, FastStart, Forced, Engines

LEMMA CatalogFinite ==
    ASSUME catalog \in Catalogs, LoadRouterConfig(catalog)
    PROVE  /\ IsFiniteSet(Known) /\ Cardinality(Known) \in Nat /\ 1 <= Cardinality(Known)
           /\ Human \in Known /\ NoEngine \notin Known
           /\ \A e \in Known : Fallback(e) \in Known \cup {NoEngine}
  <1>1. /\ IsFiniteSet(Known) /\ Human \in Known /\ NoEngine \notin Known
        /\ \A e \in Known : Fallback(e) \in Known \cup {NoEngine}
    BY CatalogsAssumption DEF LoadRouterConfig, Known, Fallback
  <1>2. Cardinality(Known) \in Nat /\ Cardinality(Known) # 0
    BY <1>1, FS_CardinalityType, FS_EmptySet
  <1>3. QED
    BY <1>1, <1>2

\* What route visits next fits among the engines there are.
LEMMA VisitsBounded ==
    ASSUME WalkInv, TypeInv, pc = "route", NEW e, current = e, e \notin Visited
    PROVE  Append(visited, e) \in Seq(Engines) /\ Len(Append(visited, e)) <= Cardinality(Known)
  <1>1. Walking /\ catalog \in Catalogs /\ LoadRouterConfig(catalog) /\ e \in Engines
        /\ visited \in Seq(Engines)
    BY DEF WalkInv, TypeInv, TypeOK
  <1>2. Append(visited, e) \in Seq(Engines)
    BY <1>1
  <1>3. CASE e \in Known
    <2>1. Append(visited, e) \in Seq(Known) /\ Distinct(Append(visited, e))
      BY <1>1, <1>3, ChainGrows
    <2>2. IsFiniteSet(Known)
      BY <1>1, CatalogFinite
    <2>3. QED
      BY <1>2, <2>1, <2>2, ChainBound
  <1>4. CASE e \notin Known
    <2>1. visited = <<>>
      <3>1. SUFFICES ASSUME visited # <<>> PROVE FALSE
        OBVIOUS
      <3>2. visited \in Seq(Known) /\ Len(visited) \in DOMAIN visited
            /\ Fallback(visited[Len(visited)]) = e /\ e # NoEngine
        BY <1>1, <3>1 DEF Walking, Linked
      <3>3. visited[Len(visited)] \in Known
        BY <3>2
      <3>4. QED
        BY <1>1, <1>4, <3>2, <3>3, CatalogFinite
    <2>2. Len(Append(visited, e)) = 1
      BY <2>1
    <2>3. QED
      BY <1>1, <1>2, <2>2, CatalogFinite
  <1>5. QED
    BY <1>3, <1>4

LEMMA TypeStep ==
    ASSUME WalkInv, TypeInv, [Next]_vars
    PROVE  TypeInv'
  <1>1. UNCHANGED Asked
    BY DEF Next, RouteStep, FastStep, PassOver, Select, LastRejected, Undefined, CycleDetected,
           AskFast, FastPassOver, FastSelect, FastGivesUp, Explain, Return,
           Returned, vars, Asked
  <1>2. /\ catalog' = catalog /\ available' = available /\ prompt' = prompt /\ hints' = hints
        /\ Engines' = Engines /\ Known' = Known
    BY <1>1 DEF Asked, Engines, Known
  <1>3. /\ catalog \in Catalogs /\ LoadRouterConfig(catalog) /\ prompt \in Prompts
        /\ available \subseteq Known
        /\ pc \in {"route", "explained", "fast", "done"}
        /\ current \in Engines /\ selected \in Engines /\ fast \in Engines
        /\ visited \in Seq(Engines) /\ Len(visited) <= Cardinality(Known)
        /\ rounds \in 0 .. Cardinality(Known) + 1
    BY DEF TypeInv, TypeOK, Known
  <1>4. /\ Human \in Engines /\ Known \subseteq Engines
        /\ \A e \in Known : Fallback(e) \in Engines
        /\ RouteStart \in Engines /\ FastStart \in Engines
        /\ Cardinality(Known) \in Nat
    BY <1>3, CatalogFinite, StartsNamed DEF Engines, Known
  <1>5. SUFFICES /\ pc' \in {"route", "explained", "fast", "done"}
                 /\ current' \in Engines /\ selected' \in Engines /\ fast' \in Engines
                 /\ visited' \in Seq(Engines) /\ Len(visited') <= Cardinality(Known)
                 /\ rounds' \in 0 .. Cardinality(Known) + 1
    BY <1>2, <1>3 DEF TypeInv, TypeOK, Known
  <1>6. ASSUME NEW e \in Known, PassOver(e) \/ Select(e) \/ LastRejected(e)
        PROVE  /\ pc = "route" /\ current = e /\ e \notin Visited /\ visited' = Append(visited, e)
               /\ pc' \in {"route", "explained"} /\ rounds' = rounds /\ fast' = fast
               /\ selected' \in {selected, e, Human} /\ current' \in {current, Fallback(e)}
    BY <1>6 DEF PassOver, Select, LastRejected, Look, Explain
  <1>7. CASE \E e \in Known : PassOver(e) \/ Select(e) \/ LastRejected(e)
    BY <1>3, <1>4, <1>6, <1>7, VisitsBounded
  <1>8. CASE Undefined
    <2>1. /\ pc = "route" /\ visited' = Append(visited, current)
          /\ pc' = "explained" /\ rounds' = rounds /\ fast' = fast
          /\ selected' = Human /\ current' = current /\ current \notin Known
      BY <1>8 DEF Undefined, Explain, Known
    <2>2. CASE current \notin Visited
      BY <1>3, <1>4, <2>1, <2>2, VisitsBounded
    <2>3. CASE current \in Visited
      BY <2>1, <2>3, ChainClosed DEF WalkInv
    <2>4. QED
      BY <2>2, <2>3
  <1>9. CASE CycleDetected
    BY <1>3, <1>4, <1>9 DEF CycleDetected, Explain
  <1>10. CASE AskFast
    BY <1>3, <1>4, <1>10 DEF AskFast
  <1>11. ASSUME NEW e \in Known, FastPassOver(e)
         PROVE  /\ pc' = pc /\ current' = Fallback(e) /\ rounds' = rounds + 1
                /\ rounds < Cardinality(Known) + 1
                /\ UNCHANGED <<visited, selected, fast>>
    BY <1>11 DEF FastPassOver, FastLook, RoundsLeft, Known
  <1>12. CASE \E e \in Known : FastPassOver(e)
    BY <1>3, <1>4, <1>11, <1>12
  <1>13. CASE (\E e \in Known : FastSelect(e)) \/ FastGivesUp
    BY <1>3, <1>4, <1>13 DEF FastSelect, FastGivesUp, Return
  <1>14. CASE UNCHANGED vars
    BY <1>3, <1>14 DEF vars
  <1>15. QED
    BY <1>7, <1>8, <1>9, <1>10, <1>12, <1>13, <1>14 DEF Next, RouteStep, FastStep, Returned, Known

LEMMA TypeStarts ==
    ASSUME Init
    PROVE  TypeInv
  <1>1. /\ catalog \in Catalogs /\ LoadRouterConfig(catalog) /\ prompt \in Prompts
        /\ available \subseteq DOMAIN catalog.engines
        /\ pc = "route" /\ current = RouteStart /\ visited = <<>> /\ selected = NoEngine
        /\ rounds = 0 /\ fast = NoEngine
    BY DEF Init
  <1>2. RouteStart \in Engines /\ NoEngine \in Engines /\ Cardinality(Known) \in Nat
    BY <1>1, StartsNamed, CatalogFinite DEF Engines
  <1>3. QED
    BY <1>1, <1>2 DEF TypeInv, TypeOK, Known

\* Whatever the fallbacks, route looks at no more engines than there are and route_fast at one
\* more at most, every engine either comes to is the catalog's, the forced one or none.
THEOREM WalksWellTyped == Spec => []TypeOK
  <1>1. Init => WalkInv /\ TypeInv
    BY WalkStarts, TypeStarts
  <1>2. WalkInv /\ TypeInv /\ [Next]_vars => WalkInv' /\ TypeInv'
    BY WalkStep, WalkStutters, TypeStep
  <1>3. TypeInv => TypeOK
    BY DEF TypeInv
  <1>4. QED
    BY <1>1, <1>2, <1>3, PTL DEF Spec
-----------------------------------------------------------------------------
(* What is chosen is permitted.                                            *)

\* An engine that is chosen has been tested against the needs of its target.
Permitted ==
    /\ catalog \in Catalogs /\ hints \in Hints
    /\ selected \notin {NoEngine, Human} =>
        selected \in Known /\ NoConstraintReason(catalog.engines[selected], RouteNeeds)
    /\ fast \notin {NoEngine, Human} =>
        fast \in Known /\ NoConstraintReason(catalog.engines[fast], FastNeeds)

LEMMA NeedsSteady ==
    ASSUME UNCHANGED Asked
    PROVE  FastNeeds' = FastNeeds /\ RouteNeeds' = RouteNeeds /\ Known' = Known
  <1> USE DEF Asked
  <1>1. ActionConfirms' = ActionConfirms
    BY DEF ActionConfirms
  <1>2. FastTarget' = FastTarget
    BY <1>1 DEF FastScanned, FastTarget, RequiredModalities
  <1>3. FastNeeds' = FastNeeds
    BY <1>2 DEF FastNeeds, Coerced
  <1>4. QED
    BY <1>3, Steady

LEMMA PermittedStep ==
    ASSUME Permitted, [Next]_vars
    PROVE  Permitted'
  <1>1. UNCHANGED Asked
    BY DEF Next, RouteStep, FastStep, PassOver, Select, LastRejected, Undefined, CycleDetected,
           AskFast, FastPassOver, FastSelect, FastGivesUp, Explain, Return,
           Returned, vars, Asked
  <1>2. \/ selected' = selected
        \/ selected' = Human
        \/ \E e \in Known : selected' = e /\ NoConstraintReason(catalog.engines[e], RouteNeeds)
    BY DEF Next, RouteStep, FastStep, PassOver, Select, LastRejected, Undefined, CycleDetected,
           AskFast, FastPassOver, FastSelect, FastGivesUp, Explain, Return,
           Returned, vars, Usable, Known
  <1>3. \/ fast' = fast
        \/ fast' = Human
        \/ \E e \in Known : fast' = e /\ NoConstraintReason(catalog.engines[e], FastNeeds)
    <2>1. ASSUME NEW e, FastAccepts(e, FastNeeds)
          PROVE  NoConstraintReason(catalog.engines[e], FastNeeds)
      <3>1. ASSUME NEW needs, FastAccepts(e, needs)
            PROVE  NoConstraintReason(catalog.engines[e], needs)
        BY <3>1 DEF FastAccepts, NoConstraintReason
      <3>2. QED
        BY <2>1, <3>1
    <2>2. QED
      BY <2>1 DEF Next, RouteStep, FastStep, PassOver, Select, LastRejected, Undefined,
         CycleDetected, AskFast, FastPassOver, FastSelect, FastGivesUp, Explain, Return, Returned,
         vars, Known
  <1>4. UNCHANGED catalog /\ UNCHANGED hints
    BY <1>1 DEF Asked
  <1>5. QED
    BY <1>1, <1>2, <1>3, <1>4, NeedsSteady DEF Permitted

\* In local-only mode the allowlist names local providers, and some.
LEMMA LocalAllowlist ==
    ASSUME NEW policy, NEW hint
    PROVE  /\ CombinedAllowlist(policy, hint, TRUE) # {}
           /\ CombinedAllowlist(policy, hint, TRUE) \subseteq LocalProviders
  <1> DEFINE both == IntersectOrRouteAllowlist(policy, hint)
             here == ListOr(IntersectOrRouteAllowlist(both, LocalProviders), LocalProviders)
  <1>1. CombinedAllowlist(policy, hint, TRUE) = IF here = {} THEN {} ELSE here \cup {Person}
    BY Zenon DEF CombinedAllowlist
  <1> HIDE DEF both
  <1>2. here # {} /\ here \subseteq LocalProviders
    BY DEF ListOr, IntersectOrRouteAllowlist, LocalProviders
  <1> HIDE DEF here
  <1>3. QED
    BY <1>1, <1>2 DEF LocalProviders

\* The maximum tiers of a policy and of a pool are tiers.
LEMMA PolicyTiers ==
    ASSUME catalog \in Catalogs, NEW t
    PROVE  EffectivePolicy(catalog, t).cost \in Nat /\ EffectivePolicy(catalog, t).latency \in Nat
  <1>1. /\ catalog.policy.cost \in Nat /\ catalog.policy.latency \in Nat
        /\ t \in DOMAIN catalog.pools =>
             catalog.pools[t].cost \in Nat /\ catalog.pools[t].latency \in Nat
    BY TiersAssumption
  <1>2. CASE t \notin DOMAIN catalog.pools
    BY <1>1, <1>2 DEF EffectivePolicy
  <1>3. CASE t \in DOMAIN catalog.pools
    <2>1. /\ EffectivePolicy(catalog, t).cost = TierOr(catalog.pools[t].cost, catalog.policy.cost)
          /\ EffectivePolicy(catalog, t).latency
               = TierOr(catalog.pools[t].latency, catalog.policy.latency)
      BY <1>3 DEF EffectivePolicy
    <2>2. QED
      BY <1>1, <1>3, <2>1 DEF TierOr
  <1>4. QED
    BY <1>2, <1>3

LEMMA HintTiers ==
    ASSUME hints \in Hints
    PROVE  Coerced.cost \in Nat /\ Coerced.latency \in Nat
  <1>1. hints.cost \in Nat /\ hints.latency \in Nat
    BY TiersAssumption
  <1>2. /\ Coerced.cost = IF hints.profile = "fast" THEN TierOr(hints.cost, 1) ELSE hints.cost
        /\ Coerced.latency
             = IF hints.profile = "fast" THEN TierOr(hints.latency, 2) ELSE hints.latency
    BY DEF Coerced, ApplyProfile
  <1>3. QED
    BY <1>1, <1>2 DEF TierOr

\* Needs derived from the policy and the hints are never weaker than the policy.
LEMMA NeedsKeepPolicy ==
    ASSUME catalog \in Catalogs, hints \in Hints, NEW t, NEW e \in Known,
           NoConstraintReason(catalog.engines[e], Requirements(catalog, Coerced, t))
    PROVE  PolicyPermits(e, t)
  <1> DEFINE p == EffectivePolicy(catalog, t)
             engine == catalog.engines[e]
             need == Requirements(catalog, Coerced, t)
             quick == TierOr(Coerced.latency, IF Coerced.quick THEN 2 ELSE NoMaximum)
  <1>1. /\ need.cost = StricterTier(Coerced.cost, p.cost)
        /\ need.latency = StricterTier(quick, p.latency)
        /\ need.allow = CombinedAllowlist(p.allow, Coerced.allow,
                                          p.local \/ ~p.hosted \/ Coerced.local)
        /\ need.deny = (p.deny \cup Coerced.deny) \ {Person}
    BY Zenon DEF Requirements
  <1>2. /\ engine.provider \notin need.deny
        /\ need.allow = {} \/ engine.provider \in need.allow
        /\ ~(engine.cost > need.cost) /\ ~(engine.latency > need.latency)
    BY Zenon DEF NoConstraintReason, TierExceeds
  <1>3. p.cost \in Nat /\ p.latency \in Nat
    BY PolicyTiers
  <1>4. Coerced.cost \in Nat /\ quick \in Nat
    BY HintTiers DEF TierOr, NoMaximum
  <1>5. engine.cost \in Nat /\ engine.latency \in Nat
    BY TiersAssumption DEF Known
  <1> HIDE DEF p, engine, need, quick
  <1>6. need.cost \in Nat /\ need.cost <= p.cost /\ need.latency \in Nat /\ need.latency <= p.latency
    BY <1>1, <1>3, <1>4 DEF StricterTier
  <1>7. engine.cost <= p.cost /\ engine.latency <= p.latency
    BY <1>2, <1>3, <1>5, <1>6
  <1>8. ASSUME p.local \/ ~p.hosted PROVE engine.provider \in LocalProviders
    <2>1. (p.local \/ ~p.hosted \/ Coerced.local) = TRUE
      BY <1>8
    <2>2. need.allow = CombinedAllowlist(p.allow, Coerced.allow, TRUE)
      BY <1>1, <2>1
    <2>3. QED
      BY <1>2, <2>2, LocalAllowlist
  <1>9. engine.provider \notin p.deny \ {Person}
    BY <1>1, <1>2
  <1>10. QED
    BY <1>7, <1>8, <1>9 DEF PolicyPermits, p, engine

\* No catalog, prompt, hint, profile, forced engine or chain of fallbacks gets an
\* engine chosen that the configured policy, as narrowed for the target, denies.
THEOREM PolicyIsKept == Spec => []PolicyKept
  <1>1. Init => Permitted
    BY DEF Init, Permitted
  <1>2. Permitted /\ [Next]_vars => Permitted'
    BY PermittedStep
  <1>3. ASSUME Permitted PROVE PolicyKept
    <2>1. RouteNeeds = Requirements(catalog, Coerced, RouteTarget)
          /\ FastNeeds = Requirements(catalog, Coerced, FastTarget)
      BY DEF RouteNeeds, FastNeeds
    <2>2. selected \notin {NoEngine, Human} => PolicyPermits(selected, RouteTarget)
      BY <1>3, <2>1, NeedsKeepPolicy DEF Permitted
    <2>3. fast \notin {NoEngine, Human} => PolicyPermits(fast, FastTarget)
      BY <1>3, <2>1, NeedsKeepPolicy DEF Permitted
    <2>4. QED
      BY <2>2, <2>3 DEF PolicyKept
  <1>4. QED
    BY <1>1, <1>2, <1>3, PTL DEF Spec
-----------------------------------------------------------------------------
(* Confirmation.                                                           *)

RouteConfirms == PromptConfirms \/ SafeConfirms
FastConfirms == ActionConfirms \/ SafeScan

\* A request that needs confirmation starts at human_confirm and stays there.
Stopped ==
    ConfirmationIsHuman =>
        /\ RouteConfirms => selected \in {NoEngine, Human} /\ (pc = "route" => current = Human)
        /\ FastConfirms => fast \in {NoEngine, Human} /\ (pc = "fast" => current = Human)

LEMMA ConfirmSteady ==
    ASSUME UNCHANGED Asked
    PROVE  /\ ConfirmationIsHuman' <=> ConfirmationIsHuman
           /\ RouteConfirms' <=> RouteConfirms
           /\ FastConfirms' <=> FastConfirms
  BY DEF Asked, ConfirmationIsHuman, RouteConfirms, FastConfirms,
         PromptConfirms, SafeConfirms, ActionConfirms, SafeScan

LEMMA RouteStartsStopped ==
    ASSUME ConfirmationIsHuman, RouteConfirms
    PROVE  RouteStart = Human
  <1>1. CASE Forced
    BY <1>1 DEF Forced, RouteConfirms, RouteStart
  <1>2. CASE ~Forced
    <2>1. RouteTarget = "confirmation"
      BY <1>2 DEF RouteTarget, RouteConfirms, Classified
    <2>2. QED
      BY <1>2, <2>1 DEF RouteStart, ConfirmationIsHuman
  <1>3. QED
    BY <1>1, <1>2

LEMMA FastStartsStopped ==
    ASSUME ConfirmationIsHuman, FastConfirms, ~FastFailsClosed
    PROVE  FastStart = Human
  <1>1. FastScanned = "confirmation"
    BY DEF FastConfirms, FastScanned, FastFailsClosed
  <1>2. FastTarget = "confirmation"
    BY <1>1 DEF FastTarget
  <1>3. hints.force \in {NoEngine, Human}
    BY <1>2 DEF FastFailsClosed
  <1>4. QED
    BY <1>2, <1>3 DEF FastStart, ConfirmationIsHuman

LEMMA StoppedStep ==
    ASSUME Stopped, [Next]_vars
    PROVE  Stopped'
  <1>1. UNCHANGED Asked
    BY DEF Next, RouteStep, FastStep, PassOver, Select, LastRejected, Undefined, CycleDetected,
           AskFast, FastPassOver, FastSelect, FastGivesUp, Explain, Return,
           Returned, vars, Asked
  <1>2. SUFFICES ASSUME ConfirmationIsHuman
                 PROVE  /\ RouteConfirms => /\ selected' \in {NoEngine, Human}
                                            /\ pc' = "route" => current' = Human
                        /\ FastConfirms => /\ fast' \in {NoEngine, Human}
                                           /\ pc' = "fast" => current' = Human
    BY <1>1, ConfirmSteady DEF Stopped
  <1>3. Fallback(Human) = NoEngine
    BY <1>2 DEF Fallback, ConfirmationIsHuman
  <1>4. ASSUME NEW e, PassOver(e) \/ Select(e)
        PROVE  /\ pc = "route" /\ current = e /\ fast' = fast
               /\ \/ e # Human /\ pc' = "route" /\ selected' = selected
                  \/ pc' = "explained" /\ selected' = e
    BY <1>3, <1>4 DEF PassOver, Select, Look, Explain
  <1>5. ASSUME (\E e \in Known : LastRejected(e)) \/ Undefined \/ CycleDetected
        PROVE  pc' = "explained" /\ selected' = Human /\ fast' = fast
    BY <1>5 DEF LastRejected, Undefined, CycleDetected, Explain
  <1>6. ASSUME AskFast
        PROVE  /\ selected' = selected
               /\ \/ pc' = "done" /\ fast' = Human
                  \/ ~FastFailsClosed /\ pc' = "fast" /\ current' = FastStart /\ fast' = fast
    BY <1>6 DEF AskFast
  <1>7. ASSUME NEW e, FastPassOver(e) \/ FastSelect(e)
        PROVE  /\ pc = "fast" /\ current = e /\ selected' = selected
               /\ \/ e # Human /\ pc' = "fast" /\ fast' = fast
                  \/ pc' = "done" /\ fast' = e
    BY <1>3, <1>7 DEF FastPassOver, FastSelect, FastLook, Return
  <1>8. ASSUME FastGivesUp
        PROVE  pc' = "done" /\ fast' = Human /\ selected' = selected
    BY <1>8 DEF FastGivesUp, Return
  <1>9. CASE \E e \in Known : PassOver(e) \/ Select(e)
    BY <1>2, <1>4, <1>9 DEF Stopped
  <1>10. CASE (\E e \in Known : LastRejected(e)) \/ Undefined \/ CycleDetected
    BY <1>2, <1>5, <1>10 DEF Stopped
  <1>11. CASE AskFast
    BY <1>2, <1>6, <1>11, FastStartsStopped DEF Stopped
  <1>12. CASE \E e \in Known : FastPassOver(e) \/ FastSelect(e)
    BY <1>2, <1>7, <1>12 DEF Stopped
  <1>13. CASE FastGivesUp
    BY <1>2, <1>8, <1>13 DEF Stopped
  <1>14. CASE UNCHANGED vars
    BY <1>2, <1>14 DEF Stopped, vars
  <1>15. QED
    BY <1>9, <1>10, <1>11, <1>12, <1>13, <1>14 DEF Next, RouteStep, FastStep,
       Returned, Known

\* Where the confirmation target leads to human_confirm alone, no forced engine,
\* profile, attachment, policy or outage gets a prompt that needs confirmation
\* to another engine, from route or from route_fast.
THEOREM ConfirmationHolds == Spec => []ConfirmationWins
  <1>1. Init => Stopped
    BY RouteStartsStopped DEF Init, Stopped
  <1>2. Stopped /\ [Next]_vars => Stopped'
    BY StoppedStep
  <1>3. Stopped => ConfirmationWins
    BY DEF Stopped, ConfirmationWins, RouteConfirms, FastConfirms
  <1>4. QED
    BY <1>1, <1>2, <1>3, PTL DEF Spec
-----------------------------------------------------------------------------
(* The engine the proxy uses is the one its log explains.                  *)

Settled ==
    /\ prompt \in Prompts /\ NoEngine # Human
    /\ pc \in {"route", "explained", "fast", "done"}
    /\ pc # "route" => selected # NoEngine
    /\ pc = "fast" => ~FastFailsClosed
    /\ pc = "done" /\ FastFailsClosed => fast = Human

LEMMA SettledStarts ==
    ASSUME Init
    PROVE  Settled
  <1>1. catalog \in Catalogs /\ Human \in DOMAIN catalog.engines
    BY DEF Init, LoadRouterConfig
  <1>2. NoEngine # Human
    BY <1>1, CatalogsAssumption
  <1>3. QED
    BY <1>2 DEF Init, Settled

LEMMA SettledStep ==
    ASSUME Settled, catalog \in Catalogs, [Next]_vars
    PROVE  Settled'
  <1>1. UNCHANGED Asked
    BY DEF Next, RouteStep, FastStep, PassOver, Select, LastRejected, Undefined, CycleDetected,
           AskFast, FastPassOver, FastSelect, FastGivesUp, Explain, Return,
           Returned, vars, Asked
  <1>2. NoEngine \notin Known
    BY CatalogsAssumption DEF Known
  <1>3. CASE RouteStep
    <2>1. \/ pc' = "route"
          \/ pc' = "explained" /\ (selected' = Human \/ selected' \in Known)
      BY <1>3 DEF RouteStep, PassOver, Select, LastRejected, Undefined, CycleDetected, Explain,
                  Known, Look
    <2>2. prompt' = prompt
      BY <1>1 DEF Asked
    <2>3. QED
      BY <1>2, <2>1, <2>2 DEF Settled
  <1>4. CASE FastStep
    <2>1. /\ selected' = selected /\ pc \in {"explained", "fast"}
          /\ \/ pc' = "fast" /\ (~FastFailsClosed \/ pc = "fast")
             \/ pc' = "done" /\ (pc = "fast" \/ fast' = Human)
      BY <1>4 DEF FastStep, AskFast, FastPassOver, FastSelect, FastGivesUp, FastLook, Return
    <2>2. prompt' = prompt
      BY <1>1 DEF Asked
    <2>3. FastFailsClosed' <=> FastFailsClosed
      BY <1>1, Steady
    <2>4. QED
      BY <2>1, <2>2, <2>3 DEF Settled
  <1>5. CASE UNCHANGED vars
    <2>1. FastFailsClosed' <=> FastFailsClosed
      BY <1>1, Steady
    <2>2. QED
      BY <1>5, <2>1 DEF Settled, vars
  <1>6. QED
    BY <1>3, <1>4, <1>5 DEF Next, Returned

\* A prompt with an action has one start and one set of needs.
LEMMA ActionWalk ==
    ASSUME ActionConfirms, prompt.scored.action, ~FastFailsClosed
    PROVE  SameWalk
  <1>1. PromptConfirms /\ Classified = "confirmation"
    BY DEF ActionConfirms, PromptConfirms, Classified
  <1>2. FastTarget = "confirmation"
    BY DEF FastScanned, FastTarget
  <1>3. hints.force \in {NoEngine, Human}
    BY <1>2 DEF FastFailsClosed
  <1>4. RouteTarget = "confirmation"
    BY <1>1 DEF RouteTarget
  <1>5. RouteStart = FastStart
    BY <1>1, <1>2, <1>3, <1>4 DEF Forced, RouteStart, FastStart
  <1>6. QED
    BY <1>2, <1>4, <1>5 DEF SameWalk, RouteNeeds, FastNeeds

\* So has one that the scorer and the scanner see alike.
LEMMA PlainWalk ==
    ASSUME ~ActionConfirms, ~FastFailsClosed, prompt \in Prompts, Alike,
           prompt.scanned.kind = "image_generation" => RequiredModalities(hints) = {}
    PROVE  SameWalk
  <1>1. prompt.scanned.kind # "confirmation" /\ prompt.scored.kind = prompt.scanned.kind
    BY PromptsAssumption DEF Alike
  <1>2. ~PromptConfirms
    BY DEF ActionConfirms, PromptConfirms, Alike
  <1>3. ~SafeConfirms
    BY <1>1 DEF FastFailsClosed, FastScanned, SafeConfirms, SafeScan, Alike
  <1>4. Forced <=> hints.force # NoEngine
    BY <1>2, <1>3 DEF Forced
  <1>5. RouteTarget = Classified
    BY <1>3, <1>4 DEF RouteTarget
  <1>6. Classified = FastTarget
    BY <1>1, <1>2 DEF Classified, FastTarget, FastScanned
  <1>7. QED
    BY <1>4, <1>5, <1>6 DEF SameWalk, RouteStart, FastStart, RouteNeeds, FastNeeds

\* For a prompt with an action that safety wants confirmed, route_fast ends at
\* human_confirm wherever route does.
THEOREM FastIsNeverWeaker == Spec => []FastNeverWeaker
  <1>1. Init => WalkInv /\ Settled
    BY WalkStarts, SettledStarts
  <1>2. WalkInv /\ Settled /\ [Next]_vars => WalkInv' /\ Settled'
    BY WalkStep, WalkStutters, SettledStep DEF WalkInv
  <1>3. WalkInv /\ Settled => FastNeverWeaker
    BY ActionWalk DEF WalkInv, Settled, FastNeverWeaker
  <1>4. QED
    BY <1>1, <1>2, <1>3, PTL DEF Spec

\* For a prompt the scorer and the scanner see alike, route_fast answers what
\* route does: by one walk, or because both have to ask for confirmation.
THEOREM FastAnswersAsExplained == Spec => []FastIsExplained
  <1> DEFINE Inv == WalkInv /\ Settled /\ Stopped
  <1>1. Init => Inv
    BY WalkStarts, SettledStarts, RouteStartsStopped DEF Init, Stopped
  <1>2. Inv /\ [Next]_vars => Inv'
    BY WalkStep, WalkStutters, SettledStep, StoppedStep DEF WalkInv
  <1>3. ASSUME Inv PROVE FastIsExplained
    <2>1. SUFFICES ASSUME pc = "done", ConfirmationIsHuman, Alike,
                          prompt.scanned.sensitive => catalog.confirm,
                          prompt.scanned.kind = "image_generation" => RequiredModalities(hints) = {}
                   PROVE  fast = selected
      BY DEF FastIsExplained
    <2>2. CASE FastFailsClosed
      <3>1. prompt.scanned.kind # "confirmation"
        BY <1>3, PromptsAssumption DEF Settled
      <3>2. RouteConfirms
        BY <2>1, <2>2, <3>1 DEF FastFailsClosed, FastTarget, FastScanned, RouteConfirms,
           SafeScan, SafeConfirms, ActionConfirms, PromptConfirms, Alike
      <3>3. selected = Human
        BY <1>3, <2>1, <3>2 DEF Stopped, Settled
      <3>4. QED
        BY <1>3, <2>1, <2>2, <3>3 DEF Settled
    <2>3. CASE ~FastFailsClosed
      <3>1. SameWalk
        BY <1>3, <2>1, <2>3, ActionWalk, PlainWalk DEF Settled, ActionConfirms, Alike
      <3>2. QED
        BY <1>3, <2>1, <2>3, <3>1 DEF WalkInv
    <2>4. QED
      BY <2>2, <2>3
  <1>4. QED
    BY <1>1, <1>2, <1>3, PTL DEF Spec
-----------------------------------------------------------------------------
(* What route tells of its decision.                                       *)

Explained == WalkInv /\ TypeInv /\ Permitted /\ PolicyKept /\ pc = "explained"

\* The walk ended at an engine that meets the needs, or it was a dead end.
LEMMA WalkTold ==
    ASSUME Explained
    PROVE  /\ visited \in Seq(Engines) /\ visited # <<>> /\ RouteStart \in Visited
           /\ NoEngine # Human /\ selected # NoEngine
           /\ Resolved <=> Found
           /\ Resolved \/ Dead
           /\ Resolved => /\ LastVisited = selected /\ Takes(selected)
                          /\ selected = RouteStart <=> Len(visited) = 1
                          /\ \A e \in Visited \ {selected} : e \in Known /\ ~Takes(e)
  <1>1. /\ Found \/ Dead
        /\ visited \in Seq(Engines) /\ catalog \in Catalogs /\ LoadRouterConfig(catalog)
    BY DEF Explained, WalkInv, TypeInv, TypeOK
  <1>2. Human \in Known /\ NoEngine \notin Known
    BY <1>1, CatalogFinite
  <1>3. Len(visited) \in Nat /\ DOMAIN visited = 1 .. Len(visited) /\ (visited # <<>> => Len(visited) # 0)
    BY <1>1
  <1>4. CASE Found
    <2>1. /\ visited \in Seq(Known) /\ Distinct(visited) /\ visited # <<>> /\ visited[1] = RouteStart
          /\ Takes(visited[Len(visited)]) /\ selected = visited[Len(visited)]
          /\ \A i \in 1 .. Len(visited) - 1 : ~Takes(visited[i])
      BY <1>4 DEF Found, Linked
    <2>2. RouteStart \in Visited /\ visited[Len(visited)] \in Visited
      BY <1>3, <2>1 DEF Visited
    <2>3. ASSUME NEW e \in Visited, e # selected PROVE e \in Known /\ ~Takes(e)
      <3>1. PICK i \in 1 .. Len(visited) : e = visited[i]
        BY <1>3 DEF Visited
      <3>2. i \in 1 .. Len(visited) - 1
        BY <1>3, <2>1, <2>3, <3>1
      <3>3. QED
        BY <2>1, <3>1, <3>2
    <2>4. Resolved /\ LastVisited = selected /\ selected # NoEngine
      BY <1>2, <2>1 DEF Resolved, LastVisited, Takes, Known
    <2>5. selected = RouteStart <=> Len(visited) = 1
      <3>1. 1 \in DOMAIN visited /\ Len(visited) \in DOMAIN visited
        BY <1>3, <2>1
      <3>2. QED
        BY <2>1, <3>1 DEF Distinct
    <2>6. QED
      BY <1>1, <1>2, <1>4, <2>1, <2>2, <2>3, <2>4, <2>5
  <1>5. CASE Dead /\ ~Found
    <2>1. RouteStart \in Visited /\ selected = Human /\ \A e \in Visited : ~Takes(e)
      BY <1>5 DEF Dead
    <2>2. visited # <<>>
      BY <1>3, <2>1 DEF Visited
    <2>3. LastVisited \in Visited
      BY <1>3, <2>2 DEF Visited, LastVisited
    <2>4. ~Resolved
      BY <2>1, <2>3 DEF Resolved, Takes, Known
    <2>5. QED
      BY <1>1, <1>2, <1>5, <2>1, <2>2, <2>4
  <1>6. QED
    BY <1>1, <1>4, <1>5

\* The engines that are rejected on the walk, and all of them.
LEMMA RejectedOnes ==
    ASSUME Explained
    PROVE  /\ Resolved => {r[1] : r \in WalkRejections} = Visited \ {selected}
           /\ ~Resolved => Visited \subseteq {r[1] : r \in WalkRejections}
           /\ {r[1] : r \in Rejections}
                = {r[1] : r \in WalkRejections} \cup {x \in Others : ~Usable(x, RouteNeeds)}
  <1> DEFINE W == {<<e, WhyRejected(e, RouteNeeds)>> : e \in PassedOver}
             C == IF CycleFound THEN {<<Fallback(LastVisited), "cycle">>} ELSE {}
             R == {<<e, WhyRejected(e, RouteNeeds)>> : e \in {x \in Others : ~Usable(x, RouteNeeds)}}
  <1>1. WalkRejections = W \cup C /\ Rejections = WalkRejections \cup R
    BY DEF WalkRejections, Rejections
  <1>2. {r[1] : r \in W} = PassedOver
    <2>1. \A e \in PassedOver : <<e, WhyRejected(e, RouteNeeds)>> \in W
      OBVIOUS
    <2>2. \A r \in W : r[1] \in PassedOver
      OBVIOUS
    <2> HIDE DEF W
    <2>3. \A e \in PassedOver : e \in {r[1] : r \in W}
      <3> TAKE e \in PassedOver
      <3>1. <<e, WhyRejected(e, RouteNeeds)>>[1] = e
        OBVIOUS
      <3>2. QED
        BY <2>1, <3>1
    <2>4. QED
      BY <2>2, <2>3
  <1>3. {r[1] : r \in R} = {x \in Others : ~Usable(x, RouteNeeds)}
    <2> DEFINE X == {x \in Others : ~Usable(x, RouteNeeds)}
    <2>1. \A e \in X : <<e, WhyRejected(e, RouteNeeds)>> \in R
      OBVIOUS
    <2>2. \A r \in R : r[1] \in X
      OBVIOUS
    <2> HIDE DEF R, X
    <2>3. \A e \in X : e \in {r[1] : r \in R}
      <3> TAKE e \in X
      <3>1. <<e, WhyRejected(e, RouteNeeds)>>[1] = e
        OBVIOUS
      <3>2. QED
        BY <2>1, <3>1
    <2>4. {r[1] : r \in R} = X
      BY <2>2, <2>3
    <2>5. QED
      BY <2>4 DEF X
  <1>4. Resolved => C = {} /\ PassedOver = Visited \ {selected}
    BY DEF CycleFound, PassedOver
  <1>5. ~Resolved => PassedOver = Visited
    BY DEF PassedOver
  <1> HIDE DEF W, C, R
  <1>6. QED
    BY <1>1, <1>2, <1>3, <1>4, <1>5

LEMMA ExplainedAlternatives ==
    ASSUME Explained
    PROVE  AlternativesUsable
  <1> DEFINE offered == Alternatives
             rejected == {r[1] : r \in Rejections}
  <1>1. Alternatives = IF selected = Human THEN {} ELSE {e \in Others : Usable(e, RouteNeeds)}
    BY DEF Alternatives
  <1>2. selected # Human => Resolved /\ rejected = (Visited \ {selected}) \cup {x \in Others : ~Usable(x, RouteNeeds)}
    BY WalkTold, RejectedOnes DEF Dead
  <1>3. selected # Human => offered \cap rejected = {}
    <2>1. ASSUME selected # Human, NEW e \in offered, e \in rejected PROVE FALSE
      <3>1. e \in Others /\ Usable(e, RouteNeeds) /\ e \in Visited \ {selected}
        BY <1>1, <1>2, <2>1
      <3>2. ~Takes(e) /\ e \in Known
        BY <1>2, <2>1, <3>1, WalkTold
      <3>3. QED
        BY <3>1, <3>2 DEF Takes
    <2>2. QED
      BY <2>1
  <1>4. selected # Human => Others \subseteq offered \cup rejected
    BY <1>1, <1>2
  <1>5. selected # Human => selected \notin rejected
    <2>1. selected \notin Others
      BY DEF Others
    <2>2. QED
      BY <1>2, <2>1
  <1>6. selected = Human => offered \cap rejected = {}
    BY <1>1
  <1>7. QED
    BY <1>3, <1>4, <1>5, <1>6 DEF AlternativesUsable

LEMMA ExplainedDispatch ==
    ASSUME Explained
    PROVE  DispatchIsSafe
  <1>1. selected # Human => Resolved /\ Usable(selected, RouteNeeds)
    BY WalkTold DEF Dead, Takes
  <1>2. selected # Human => PolicyPermits(selected, RouteTarget)
    BY WalkTold DEF Explained, PolicyKept
  <1>3. QED
    BY <1>1, <1>2 DEF DispatchIsSafe, CanDispatch, DecisionConfirms

\* Under the private profile the allowlist that is derived names local providers only, unless
\* the hint named others or nothing was left of it.
LEMMA PrivateAllowlist ==
    ASSUME hints.profile = "private", hints.allow \subseteq LocalProviders
    PROVE  RouteNeeds.allow \subseteq LocalProviders
  <1> DEFINE h == Coerced
             p == EffectivePolicy(catalog, RouteTarget)
             local == p.local \/ ~p.hosted \/ h.local
  <1>1. h.allow = ListOr(hints.allow, LocalProviders)
    BY DEF Coerced, ApplyProfile
  <1>2. h.allow \subseteq LocalProviders /\ h.allow # {}
    BY <1>1 DEF ListOr, LocalProviders
  <1>3. RouteNeeds.allow = CombinedAllowlist(p.allow, h.allow, local)
    BY DEF RouteNeeds, Requirements
  <1> HIDE DEF h, p, local
  <1>4. IntersectOrRouteAllowlist(p.allow, h.allow) \subseteq LocalProviders
    BY <1>2 DEF IntersectOrRouteAllowlist, ListOr
  <1>5. CombinedAllowlist(p.allow, h.allow, local) \subseteq LocalProviders
    <2> DEFINE both == IntersectOrRouteAllowlist(p.allow, h.allow)
               here == IF ~local THEN both
                       ELSE ListOr(IntersectOrRouteAllowlist(both, LocalProviders), LocalProviders)
    <2>1. CombinedAllowlist(p.allow, h.allow, local) = IF here = {} THEN {} ELSE here \cup {Person}
      BY Zenon DEF CombinedAllowlist
    <2> HIDE DEF both
    <2>2. both \subseteq LocalProviders
      BY <1>4 DEF both
    <2>3. here \subseteq LocalProviders
      BY <2>2 DEF IntersectOrRouteAllowlist, ListOr
    <2> HIDE DEF here
    <2>4. QED
      BY <2>1, <2>3 DEF LocalProviders
  <1>6. QED
    BY <1>3, <1>5

LEMMA ExplainedReceipt ==
    ASSUME Explained
    PROVE  ReceiptAgrees
  <1> DEFINE codes == ReceiptCodes
             told == FallbackExplanation
             hosted == selected # Human /\ catalog.engines[selected].provider \notin LocalProviders
  <1>1. TargetReason \in {"profile safe requires confirmation", "requires human confirmation"}
            => DecisionConfirms
    <2>1. prompt.scored.kind \in Targets
      BY PromptsAssumption DEF Explained, TypeInv
    <2>2. RouteTarget \in Targets
      BY TargetsNamed DEF Explained, TypeInv
    <2>3. QED
      BY <2>2 DEF TargetReason, DecisionConfirms, Targets
  <1>2. RejectionCodes \subseteq {"provider denied", "provider not allowed", "tools required",
                                  "modality missing", "cost_tier", "latency_tier", "undefined",
                                  "disabled", "unavailable", "cycle"}
    <2> DEFINE Whys == {"provider denied", "provider not allowed", "tools required",
                        "modality missing", "cost_tier", "latency_tier", "undefined",
                        "disabled", "unavailable", "cycle", "provider excluded by profile"}
    <2>1. \A e : WhyRejected(e, RouteNeeds) \in Whys
      BY DEF WhyRejected, ConstraintReason
    <2>2. ASSUME NEW r \in Rejections PROVE r[2] \in Whys
      <3>1. \/ \E e \in PassedOver \cup Others : r = <<e, WhyRejected(e, RouteNeeds)>>
            \/ r = <<Fallback(LastVisited), "cycle">>
        BY DEF Rejections, WalkRejections
      <3> HIDE DEF Whys
      <3>2. "cycle" \in Whys
        BY DEF Whys
      <3>3. QED
        BY <2>1, <3>1, <3>2
    <2>3. QED
      BY <2>2 DEF RejectionCodes
  <1>3. "safety.confirmation_required" \in codes <=> DecisionConfirms
    BY <1>1, <1>2 DEF ReceiptCodes, ReasonCodes, PolicyCodes
  <1>4. "safety.no_confirmation_required" \in codes => ~DecisionConfirms
    BY <1>2 DEF ReceiptCodes, ReasonCodes, PolicyCodes
  <1>5. "fallback.used" \in codes <=> FallbackUsed
    BY <1>2 DEF ReceiptCodes, ReasonCodes, PolicyCodes
  <1>6. FallbackUsed <=> RouteStart \in {r[1] : r \in WalkRejections}
    BY WalkTold, RejectedOnes DEF FallbackUsed
  <1>7. told[1] = "selected" => told[2] = selected
    BY DEF FallbackExplanation, FallbackEngine
  <1>8. hosted => RouteNeeds.allow = {} \/ ~(RouteNeeds.allow \subseteq LocalProviders)
    <2>1. hosted => NoConstraintReason(catalog.engines[selected], RouteNeeds)
      BY WalkTold DEF Explained, Permitted
    <2>2. QED
      BY <2>1 DEF NoConstraintReason
  <1>9. hosted /\ hints.profile = "private"
            => ~(hints.allow \subseteq LocalProviders) \/ RouteNeeds.allow = {}
    BY <1>8, PrivateAllowlist
  <1>10. hosted /\ hints.profile # "private"
            => /\ "policy.local_only" \notin codes
               /\ PrivacyExplanation \notin {"local-only, hosted excluded", "private, hosted excluded"}
    <2>1. SUFFICES ASSUME hosted, hints.profile # "private"
                   PROVE  /\ "policy.local_only" \notin codes
                          /\ PrivacyExplanation \notin {"local-only, hosted excluded",
                                                      "private, hosted excluded"}
      OBVIOUS
    <2>2. ~(RouteNeeds.allow # {} /\ RouteNeeds.allow \subseteq LocalProviders)
      BY <1>8, <2>1
    <2>3. "policy.local_only" \notin PolicyCodes
      BY <2>2 DEF PolicyCodes
    <2>4. "policy.local_only" \notin ReasonCodes
      BY <2>1 DEF ReasonCodes
    <2>5. "policy.local_only" \notin codes
      BY <1>2, <2>3, <2>4 DEF ReceiptCodes
    <2>6. PrivacyExplanation \notin {"local-only, hosted excluded", "private, hosted excluded"}
      BY <2>1, <2>2 DEF PrivacyExplanation
    <2>7. QED
      BY <2>5, <2>6
  <1>11. QED
    BY <1>3, <1>4, <1>5, <1>6, <1>7, <1>9, <1>10 DEF ReceiptAgrees

\* What a receipt, the list of alternatives and a dispatch plan say of a decision is what the
\* walk did and what the policy permits, whatever the catalog, the prompt and the hints.
THEOREM DecisionsExplained == Spec => []DecisionExplained
  <1>1. Init => Permitted /\ WalkInv /\ TypeInv
    BY WalkStarts, TypeStarts DEF Init, Permitted
  <1>2. Permitted /\ WalkInv /\ TypeInv /\ [Next]_vars => Permitted' /\ WalkInv' /\ TypeInv'
    BY PermittedStep, WalkStep, WalkStutters, TypeStep
  <1>3. WalkInv /\ TypeInv /\ Permitted /\ PolicyKept => DecisionExplained
    BY ExplainedReceipt, ExplainedAlternatives, ExplainedDispatch DEF Explained, DecisionExplained
  <1>4. QED
    BY <1>1, <1>2, <1>3, PolicyIsKept, PTL DEF Spec
=============================================================================
