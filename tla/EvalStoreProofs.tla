-------------------------- MODULE EvalStoreProofs --------------------------
(***************************************************************************)
(* What the readers of the results file are told, for any number of        *)
(* command line processes, commands, candidates, fixtures and writes.      *)
(*                                                                         *)
(* The results of a command are spread over the file, between those of     *)
(* others.  EvalInv says of each command what it was asked for (a plan)    *)
(* and that the file has the first k lines of the batch the plan leads to, *)
(* as a set; who still writes it has the rest, in order, and tells what    *)
(* the whole batch shows when nothing is left.                             *)
(*                                                                         *)
(* The page has the first rows of a batch, then.  If there are those of    *)
(* one candidate only, or the last candidate's do not cover the fixtures   *)
(* of the others, it does not judge; otherwise it judges as the command.   *)
(***************************************************************************)
EXTENDS EvalStore, FiniteSetTheorems, SequenceTheorems, TLAPS

Fixtures == UNION {ToSet(fs) : fs \in Selections}
Rows == [id : Nat, compare : BOOLEAN, run : Nat \X Nat, cand : Candidates, fixture : Fixtures,
         outcome : Outcomes]
Lines == [row : Rows, part : {"text1", "text2", "end"}]

\* What a command was asked for, and the batch it appends.
IsPlan(x) ==
    /\ x.compare \in BOOLEAN /\ x.cs \in Seq(Candidates) /\ x.cs # <<>> /\ IsInjective(x.cs)
    /\ x.compare => Len(x.cs) > 1
    /\ x.fs \in Selections /\ x.outcome \in [ToSet(x.cs) \X ToSet(x.fs) -> Outcomes]
PlanRows(id, x) == BatchRows(id, x.compare, x.cs, x.fs, x.outcome)
PlanLines(id, x) == LinesOf(PlanRows(id, x))
First(id, x, P) == {PlanRows(id, x)[p] : p \in 1..P}

\* Which candidate and which fixture the n-th row is of.
Cand(x, n) == (n - 1) \div Len(x.fs) + 1
Fix(x, n) == ((n - 1) % Len(x.fs)) + 1

-----------------------------------------------------------------------------
(* The batch of a command.                                                 *)

\* The rows of a batch, counted from 0, are the cells of a grid of m lines of n.
LEMMA Grid ==
    ASSUME NEW m \in Nat \ {0}, NEW n \in Nat \ {0}
    PROVE  /\ m * n \in Nat \ {0}
           /\ \A p \in 1..m * n : (p - 1) \div n + 1 \in 1..m /\ ((p - 1) % n) + 1 \in 1..n
           /\ \A p, q \in 1..m * n : p <= q => (p - 1) \div n <= (q - 1) \div n
           /\ \A j \in 1..n : /\ j \in 1..m * n
                             /\ (j - 1) \div n + 1 = 1 /\ ((j - 1) % n) + 1 = j
<1>1. m * n \in Nat \ {0}
  OBVIOUS
<1>2. ASSUME NEW p \in 1..m * n PROVE (p - 1) \div n + 1 \in 1..m /\ ((p - 1) % n) + 1 \in 1..n
  <2>. DEFINE k == p - 1
  <2>1. k \in Nat /\ k < m * n
    BY <1>1
  <2>2. k \div n \in Nat /\ k % n \in 0..(n - 1)
    BY <2>1
  <2>3. k \div n < m
    BY <2>1
  <2>. QED BY <2>2, <2>3
<1>3. ASSUME NEW p \in 1..m * n, NEW q \in 1..m * n, p <= q PROVE (p - 1) \div n <= (q - 1) \div n
  BY <1>1, <1>3
<1>5. ASSUME NEW j \in 1..n
      PROVE  j \in 1..m * n /\ (j - 1) \div n + 1 = 1 /\ ((j - 1) % n) + 1 = j
  <2>. DEFINE c == j - 1
  <2>1. c \in 0..(n - 1)
    OBVIOUS
  <2>2. c \div n = 0 /\ c % n = c
    BY <2>1
  <2>3. n <= m * n
    OBVIOUS
  <2>4. j \in 1..m * n
    BY <2>3, <1>1
  <2>. QED BY <2>2, <2>4
<1>. QED BY <1>1, <1>2, <1>3, <1>5

Hit(m, n, i, j) == \E p \in 1..m * n : (p - 1) \div n + 1 = i /\ ((p - 1) % n) + 1 = j

\* No cell is left out.
LEMMA GridHit ==
    ASSUME NEW m \in Nat \ {0}, NEW n \in Nat \ {0}, NEW i \in 1..m, NEW j \in 1..n
    PROVE  Hit(m, n, i, j)
<1>. DEFINE a == i - 1  c == j - 1  p == a * n + c + 1
<1>1. a \in Nat /\ c \in 0..(n - 1) /\ a < m
  OBVIOUS
<1>2. (a * n + c) \div n = a /\ (a * n + c) % n = c
  BY <1>1
<1>3. a * n + c \in Nat /\ a * n + c < m * n
  BY <1>1
<1>4. p \in 1..m * n /\ p - 1 = a * n + c
  BY <1>3, Grid
<1>5. (p - 1) \div n = a /\ (p - 1) % n = c
  BY <1>2, <1>4
<1>6. a + 1 = i /\ c + 1 = j
  OBVIOUS
<1>. HIDE DEF a, c, p
<1>. QED BY <1>4, <1>5, <1>6 DEF Hit

\* What a row says of itself.
LEMMA RowFields ==
    ASSUME NEW id, NEW compare, NEW c, NEW i, NEW f, NEW outcome
    PROVE  LET r == RowAt(id, compare, c, i, f, outcome) IN
           /\ r.id = id /\ r.compare = compare /\ r.run = <<id, i>> /\ r.cand = c /\ r.fixture = f
BY DEF RowAt, RunId

\* A batch has one row for each candidate and place in the selection.
LEMMA PlanRow ==
    ASSUME NEW id \in Nat, NEW x, IsPlan(x)
    PROVE  /\ Len(x.cs) \in Nat \ {0} /\ Len(x.fs) \in Nat \ {0}
           /\ PlanRows(id, x) \in Seq(Rows)
           /\ Len(PlanRows(id, x)) = Len(x.cs) * Len(x.fs)
           /\ \A n \in 1..Len(x.cs) * Len(x.fs) :
                 PlanRows(id, x)[n] = RowAt(id, x.compare, x.cs[Cand(x, n)], Cand(x, n),
                                            x.fs[Fix(x, n)], x.outcome)
<1>. DEFINE m == Len(x.cs)  n == Len(x.fs)  R == PlanRows(id, x)
<1>1. /\ x.cs \in Seq(Candidates) /\ x.cs # <<>> /\ x.compare \in BOOLEAN
      /\ x.fs \in Seq(ToSet(x.fs)) /\ x.fs # <<>> /\ x.fs \in Selections
      /\ x.outcome \in [ToSet(x.cs) \X ToSet(x.fs) -> Outcomes]
  BY SelectionsAssumption DEF IsPlan
<1>2. m \in Nat \ {0} /\ n \in Nat \ {0}
  BY <1>1
<1>3. m * n \in Nat \ {0} /\ \A p \in 1..m * n : Cand(x, p) \in 1..m /\ Fix(x, p) \in 1..n
  BY <1>2, Grid DEF Cand, Fix
<1>. DEFINE Row(p) == RowAt(id, x.compare, x.cs[Cand(x, p)], Cand(x, p), x.fs[Fix(x, p)], x.outcome)
<1>4. R = [p \in 1..m * n |-> Row(p)]
  BY DEF PlanRows, BatchRows, Cand, Fix
<1>5. ASSUME NEW p \in 1..m * n PROVE Row(p) \in Rows
  <2>. DEFINE i == Cand(x, p)  j == Fix(x, p)
  <2>1. i \in 1..m /\ j \in 1..n
    BY <1>3
  <2>2. x.cs[i] \in Candidates /\ x.cs[i] \in ToSet(x.cs) /\ x.fs[j] \in ToSet(x.fs)
    BY <1>1, <2>1 DEF ToSet
  <2>3. x.fs[j] \in Fixtures /\ x.outcome[x.cs[i], x.fs[j]] \in Outcomes
    <3>. HIDE DEF i, j
    <3>1. x.fs[j] \in Fixtures
      BY <1>1, <2>2 DEF Fixtures
    <3>2. <<x.cs[i], x.fs[j]>> \in ToSet(x.cs) \X ToSet(x.fs)
      BY <2>2
    <3>3. x.outcome[x.cs[i], x.fs[j]] \in Outcomes
      BY <1>1, <3>2
    <3>. QED BY <3>1, <3>3
  <2>4. <<id, i>> \in Nat \X Nat
    BY <2>1, <1>2
  <2>. HIDE DEF i, j
  <2>. QED BY <1>1, <2>2, <2>3, <2>4 DEF RowAt, RunId, Rows, i, j
<1>. HIDE DEF Row, m, n, R
<1>6. R \in Seq(Rows) /\ Len(R) = m * n
  BY <1>3, <1>4, <1>5
<1>7. \A p \in 1..m * n : R[p] = Row(p)
  BY <1>4
<1>. QED BY <1>2, <1>6, <1>7 DEF Row, m, n, R

\* Its rows are over all candidates and all fixtures.
LEMMA RowOf ==
    ASSUME NEW id \in Nat, NEW x, IsPlan(x), NEW p \in 1..Len(x.cs) * Len(x.fs)
    PROVE  /\ Cand(x, p) \in 1..Len(x.cs) /\ Fix(x, p) \in 1..Len(x.fs)
           /\ PlanRows(id, x)[p].cand = x.cs[Cand(x, p)]
           /\ PlanRows(id, x)[p].fixture = x.fs[Fix(x, p)]
<1>. DEFINE m == Len(x.cs)  n == Len(x.fs)  R == PlanRows(id, x)
<1>1. Cand(x, p) \in 1..m /\ Fix(x, p) \in 1..n
  BY PlanRow, Grid DEF Cand, Fix
<1>2. R[p] = RowAt(id, x.compare, x.cs[Cand(x, p)], Cand(x, p), x.fs[Fix(x, p)], x.outcome)
  BY PlanRow
<1>. HIDE DEF m, n, R
<1>3. R[p].cand = x.cs[Cand(x, p)] /\ R[p].fixture = x.fs[Fix(x, p)]
  BY <1>2, RowFields
<1>. QED BY <1>1, <1>3 DEF m, n, R

\* Each candidate has a row at each place of the selection.
LEMMA RowFor ==
    ASSUME NEW x, IsPlan(x), NEW i \in 1..Len(x.cs), NEW k \in 1..Len(x.fs)
    PROVE  \E p \in 1..Len(x.cs) * Len(x.fs) : Cand(x, p) = i /\ Fix(x, p) = k
<1>1. Len(x.cs) \in Nat \ {0} /\ Len(x.fs) \in Nat \ {0}
  BY PlanRow, 0 \in Nat
<1>2. Hit(Len(x.cs), Len(x.fs), i, k)
  BY <1>1, GridHit
<1>. QED BY <1>2, Zenon DEF Cand, Fix, Hit

\* The n-th line of a batch is a part of row LineRow(n).
LineRow(n) == (n - 1) \div 3 + 1

\* Its first k lines are of its first LineRow(k) rows.
LEMMA PlanLine ==
    ASSUME NEW id \in Nat, NEW x, IsPlan(x)
    PROVE  /\ PlanLines(id, x) \in Seq(Lines) /\ Len(PlanLines(id, x)) \in Nat \ {0}
           /\ Len(PlanLines(id, x)) = 3 * Len(PlanRows(id, x))
           /\ \A n \in 1..Len(PlanLines(id, x)) : PlanLines(id, x)[n].row.id = id
           /\ \A k \in 0..Len(PlanLines(id, x)) :
                 /\ LineRow(k) \in 0..Len(PlanRows(id, x))
                 /\ {PlanLines(id, x)[n].row : n \in 1..k} = First(id, x, LineRow(k))
           /\ LineRow(Len(PlanLines(id, x))) = Len(PlanRows(id, x))
<1>. DEFINE L == PlanLines(id, x)  R == PlanRows(id, x)
<1>1. R \in Seq(Rows) /\ Len(R) \in Nat \ {0} /\ \A p \in 1..Len(R) : R[p].id = id
  <2>1. Len(x.cs) * Len(x.fs) \in Nat \ {0}
    BY PlanRow, Grid
  <2>2. R \in Seq(Rows) /\ Len(R) = Len(x.cs) * Len(x.fs)
    BY PlanRow
  <2>3. ASSUME NEW p \in 1..Len(x.cs) * Len(x.fs) PROVE R[p].id = id
    <3>1. R[p] = RowAt(id, x.compare, x.cs[Cand(x, p)], Cand(x, p), x.fs[Fix(x, p)], x.outcome)
      BY PlanRow
    <3>. QED BY <3>1, RowFields
  <2>. QED BY <2>1, <2>2, <2>3
<1>2. L = [n \in 1..3 * Len(R) |-> [row |-> R[LineRow(n)], part |-> Parts[((n - 1) % 3) + 1]]]
  BY DEF PlanLines, LinesOf, LineRow
<1>. HIDE DEF L, R
<1>3. ASSUME NEW n \in 1..3 * Len(R) PROVE LineRow(n) \in 1..Len(R) /\ ((n - 1) % 3) + 1 \in 1..3
  <2>1. \A m \in Nat : n \in 1..3 * m => (n - 1) \div 3 + 1 \in 1..m /\ ((n - 1) % 3) + 1 \in 1..3
    OBVIOUS
  <2>. QED BY <1>1, <2>1 DEF LineRow
<1>4. ASSUME NEW n \in 1..3 * Len(R)
      PROVE  [row |-> R[LineRow(n)], part |-> Parts[((n - 1) % 3) + 1]] \in Lines
  <2>1. R[LineRow(n)] \in Rows
    BY <1>1, <1>3
  <2>2. \A i \in 1..3 : Parts[i] \in {"text1", "text2", "end"}
    BY DEF Parts
  <2>. QED BY <1>3, <2>1, <2>2 DEF Lines
<1>5. L \in Seq(Lines) /\ Len(L) = 3 * Len(R) /\ Len(L) \in Nat \ {0}
  <2>1. PICK l : l = 3 * Len(R)
    OBVIOUS
  <2>2. l \in Nat \ {0}
    BY <1>1, <2>1
  <2>3. L \in [1..l -> Lines]
    BY <1>2, <1>4, <2>1
  <2>4. L \in Seq(Lines) /\ Len(L) = l
    BY <2>2, <2>3
  <2>. QED BY <2>1, <2>2, <2>4
<1>6. \A n \in 1..Len(L) : LineRow(n) \in 1..Len(R) /\ L[n].row = R[LineRow(n)] /\ L[n].row.id = id
  BY <1>1, <1>2, <1>3, <1>5
<1>7. ASSUME NEW k \in 0..Len(L) PROVE {L[n].row : n \in 1..k} = {R[p] : p \in 1..LineRow(k)}
  <2>1. ASSUME NEW n \in 1..k PROVE LineRow(n) \in 1..LineRow(k) /\ L[n].row = R[LineRow(n)]
    <3>1. k \in Nat /\ n \in 1..k /\ n \in 1..Len(L)
      BY <1>5
    <3>2. LineRow(n) \in 1..LineRow(k)
      BY <3>1 DEF LineRow
    <3>. QED BY <1>6, <3>1, <3>2
  <2>2. ASSUME NEW p \in 1..LineRow(k) PROVE 3 * p - 2 \in 1..k /\ LineRow(3 * p - 2) = p
    BY <1>1, <1>5 DEF LineRow
  <2>3. \A p \in 1..LineRow(k) : R[p] = L[3 * p - 2].row
    BY <1>5, <1>6, <2>2
  <2>4. {L[n].row : n \in 1..k} \subseteq {R[p] : p \in 1..LineRow(k)}
    BY <2>1
  <2>5. {R[p] : p \in 1..LineRow(k)} \subseteq {L[n].row : n \in 1..k}
    BY <2>2, <2>3
  <2>. QED BY <2>4, <2>5
<1>8. \A k \in 0..Len(L) : LineRow(k) \in 0..Len(R)
  BY <1>1, <1>5 DEF LineRow
<1>9. LineRow(Len(L)) = Len(R)
  BY <1>1, <1>5 DEF LineRow
<1>. QED BY <1>1, <1>5, <1>6, <1>7, <1>8, <1>9 DEF L, R, First
-----------------------------------------------------------------------------
(* Summaries of some rows.                                                 *)

Groups(rows) == {{r \in rows : r.cand = c} : c \in {r.cand : r \in rows}}

\* What the page computes from some rows of a comparison.
Judged(id, rows) ==
    LET summaries == {CandidateSummary((CHOOSE r \in g : TRUE).cand, g) : g \in Groups(rows)}
    IN Comparison(id, summaries, IF Stale(Groups(rows)) THEN None ELSE Winner(summaries))

\* The page judges what it finds.
LEMMA CachedIsJudged ==
    ASSUME NEW f, NEW id
    PROVE  Cached(f, id) = Judged(id, {r \in RowsIn(f) : r.compare /\ r.id = id})
BY Zenon DEF Cached, Judged, Groups

\* It is what the command computes from them, if it judges at all.
LEMMA JudgedAsFound ==
    ASSUME NEW id, NEW rows, ~Stale(Groups(rows))
    PROVE  Judged(id, rows) = Found(id, rows)
<1>. DEFINE cands == {r.cand : r \in rows}
            Group(c) == {r \in rows : r.cand = c}
            paged == {CandidateSummary((CHOOSE r \in g : TRUE).cand, g) : g \in Groups(rows)}
            found == {CandidateSummary(c, Group(c)) : c \in cands}
<1>1. ASSUME NEW c \in cands PROVE (CHOOSE r \in Group(c) : TRUE).cand = c
  <2>1. \E r : r \in Group(c)
    OBVIOUS
  <2>2. (CHOOSE r \in Group(c) : TRUE) \in Group(c)
    BY <2>1
  <2>. QED BY <2>2
<1>2. paged = {CandidateSummary((CHOOSE r \in Group(c) : TRUE).cand, Group(c)) : c \in cands}
  <2>. DEFINE A(g) == CandidateSummary((CHOOSE r \in g : TRUE).cand, g)
  <2>1. Groups(rows) = {Group(c) : c \in cands} /\ paged = {A(g) : g \in Groups(rows)}
    BY DEF Groups
  <2>. HIDE DEF A, Group, cands, paged
  <2>2. paged = {A(Group(c)) : c \in cands}
    BY <2>1, Zenon
  <2>. QED BY <2>2 DEF A
<1>3. paged = found
  <2>. DEFINE A(c) == CandidateSummary((CHOOSE r \in Group(c) : TRUE).cand, Group(c))
              B(c) == CandidateSummary(c, Group(c))
  <2>1. \A c \in cands : A(c) = B(c)
    BY <1>1
  <2>2. paged = {A(c) : c \in cands} /\ found = {B(c) : c \in cands}
    BY <1>2
  <2>. HIDE DEF A, B, paged, found, cands
  <2>. QED BY <2>1, <2>2, Zenon
<1>4. Judged(id, rows) = Comparison(id, paged, Winner(paged))
  BY DEF Judged
<1>5. Found(id, rows) = Comparison(id, found, Winner(found))
  BY Zenon DEF Found
<1>. QED BY <1>3, <1>4, <1>5

\* The rows of one candidate, and what they are of.
Of(rows, c) == {r \in rows : r.cand = c}
Asked(rows) == {r.fixture : r \in rows}

\* What the first P rows of a batch have in common, and what tells them apart.
Fits(id, x, rows) ==
    /\ IsFiniteSet(rows) /\ rows \subseteq Rows
    /\ \A r \in rows : r.id = id /\ r.compare = x.compare /\ r.fixture \in ToSet(x.fs)
    /\ \A r, s \in rows : r.cand = s.cand /\ r.fixture = s.fixture => r = s
    /\ \A r, s \in rows : r.run = s.run => r.cand = s.cand
    /\ \A r \in rows : r.run[1] = id /\ r.run[2] \in Nat

LEMMA FirstRows ==
    ASSUME NEW id \in Nat, NEW x, IsPlan(x), NEW P \in 0..Len(x.cs) * Len(x.fs)
    PROVE  Fits(id, x, First(id, x, P))
<1>. DEFINE m == Len(x.cs)  n == Len(x.fs)  mn == m * n  R == PlanRows(id, x)  rows == First(id, x, P)
            i(p) == Cand(x, p)  j(p) == Fix(x, p)
<1>1. /\ m \in Nat \ {0} /\ n \in Nat \ {0} /\ mn \in Nat \ {0} /\ R \in Seq(Rows) /\ Len(R) = mn
      /\ P \in 0..mn
  BY PlanRow, Grid
<1>2. ASSUME NEW p \in 1..P
      PROVE  /\ p \in 1..mn /\ i(p) \in 1..m /\ j(p) \in 1..n
             /\ R[p] = RowAt(id, x.compare, x.cs[i(p)], i(p), x.fs[j(p)], x.outcome)
  <2>1. p \in 1..mn
    <3>. HIDE DEF mn
    <3>. QED BY <1>1
  <2>2. i(p) \in 1..m /\ j(p) \in 1..n
    BY <1>1, <2>1, Grid DEF Cand, Fix
  <2>. QED BY <2>1, <2>2, PlanRow
<1>3. ASSUME NEW p \in 1..P
      PROVE  /\ R[p].id = id /\ R[p].compare = x.compare /\ R[p].run = <<id, i(p)>>
             /\ R[p].cand = x.cs[i(p)] /\ R[p].fixture = x.fs[j(p)]
  <2>1. R[p] = RowAt(id, x.compare, x.cs[i(p)], i(p), x.fs[j(p)], x.outcome)
    BY <1>2
  <2>. HIDE DEF i, j, R
  <2>. QED BY <2>1, RowFields
<1>. HIDE DEF m, n, mn, R, i, j
<1>4. IsFiniteSet(rows)
  <2>. DEFINE f == [p \in 1..P |-> R[p]]
  <2>1. f \in Surjection(1..P, rows)
    BY DEF First, Surjection, R
  <2>2. IsFiniteSet(1..P)
    BY <1>1, FS_Interval
  <2>. QED BY <2>1, <2>2, FS_Surjection
<1>5. rows \subseteq Rows
  BY <1>1, <1>2 DEF First, R
<1>6. /\ x.fs \in Seq(ToSet(x.fs)) /\ DOMAIN x.fs = 1..n
      /\ IsInjective(x.cs) /\ x.cs \in Seq(Candidates) /\ DOMAIN x.cs = 1..m
  BY SelectionsAssumption DEF IsPlan, m, n
<1>7. \A p \in 1..P : R[p].fixture \in ToSet(x.fs)
  BY <1>2, <1>3, <1>6 DEF ToSet
<1>8. ASSUME NEW p \in 1..P, NEW q \in 1..P, R[p].cand = R[q].cand PROVE i(p) = i(q)
  <2>1. x.cs[i(p)] = x.cs[i(q)] /\ i(p) \in DOMAIN x.cs /\ i(q) \in DOMAIN x.cs
    BY <1>2, <1>3, <1>6, <1>8
  <2>. QED BY <1>6, <2>1 DEF IsInjective
<1>9. ASSUME NEW p \in 1..P, NEW q \in 1..P, R[p].cand = R[q].cand, R[p].fixture = R[q].fixture
      PROVE  R[p] = R[q]
  <2>1. i(p) = i(q) /\ x.fs[j(p)] = x.fs[j(q)]
    BY <1>3, <1>8, <1>9
  <2>. QED BY <1>2, <2>1
<1>10. ASSUME NEW p \in 1..P, NEW q \in 1..P, R[p].run = R[q].run PROVE R[p].cand = R[q].cand
  BY <1>3, <1>10
<1>11. ASSUME NEW p \in 1..P PROVE R[p].run[1] = id /\ R[p].run[2] \in Nat
  <2>1. R[p].run = <<id, i(p)>> /\ i(p) \in Nat
    BY <1>1, <1>2, <1>3
  <2>. QED BY <2>1
<1>. HIDE DEF rows
<1>12. \A r \in rows : \E p \in 1..P : r = R[p]
  BY DEF rows, First, R
<1>13. \A r \in rows : r.id = id /\ r.compare = x.compare /\ r.fixture \in ToSet(x.fs)
  BY <1>3, <1>7, <1>12
<1>14. \A r \in rows : r.run[1] = id /\ r.run[2] \in Nat
  BY <1>11, <1>12
<1>15. \A r, s \in rows : r.cand = s.cand /\ r.fixture = s.fixture => r = s
  BY <1>9, <1>12
<1>16. \A r, s \in rows : r.run = s.run => r.cand = s.cand
  BY <1>10, <1>12
<1>17. Fits(id, x, rows)
  BY <1>4, <1>5, <1>13, <1>14, <1>15, <1>16, Zenon DEF Fits
<1>. QED BY <1>17 DEF rows

\* As soon as a second candidate has a row, the first has all of its own.
LEMMA FirstGroupFull ==
    ASSUME NEW id \in Nat, NEW x, IsPlan(x), NEW P \in 0..Len(x.cs) * Len(x.fs), P > Len(x.fs)
    PROVE  Asked(Of(First(id, x, P), x.cs[1])) = ToSet(x.fs)
<1>. DEFINE m == Len(x.cs)  n == Len(x.fs)  R == PlanRows(id, x)
<1>1. m \in Nat \ {0} /\ n \in Nat \ {0} /\ m * n \in Nat \ {0}
  BY PlanRow, Grid
<1>0. P \in 0..m * n /\ P > n
  OBVIOUS
<1>2. \A k \in 1..n : /\ k \in 1..P /\ R[k].cand = x.cs[1] /\ R[k].fixture = x.fs[k]
  <2>1. ASSUME NEW k \in 1..n PROVE k \in 1..P /\ k \in 1..m * n /\ Cand(x, k) = 1 /\ Fix(x, k) = k
    <3>1. k \in 1..P
      BY <1>1, <1>0
    <3>. QED BY <3>1, <1>1, Grid DEF Cand, Fix
  <2>2. \A k \in 1..n : R[k] = RowAt(id, x.compare, x.cs[1], 1, x.fs[k], x.outcome)
    BY <2>1, PlanRow
  <2>. QED BY <2>1, <2>2, RowFields
<1>3. x.fs \in Seq(ToSet(x.fs))
  BY SelectionsAssumption DEF IsPlan
<1>4. ASSUME NEW f \in ToSet(x.fs) PROVE f \in Asked(Of(First(id, x, P), x.cs[1]))
  <2>1. PICK k \in 1..n : f = x.fs[k]
    BY <1>3 DEF ToSet
  <2>2. R[k] \in Of(First(id, x, P), x.cs[1]) /\ R[k].fixture = f
    BY <1>2, <2>1 DEF Of, First
  <2>. QED BY <2>2 DEF Asked
<1>5. Asked(Of(First(id, x, P), x.cs[1])) \subseteq ToSet(x.fs)
  <2>1. \A r \in First(id, x, P) : r.fixture \in ToSet(x.fs)
    BY FirstRows DEF Fits
  <2>. QED BY <2>1 DEF Asked, Of
<1>. QED BY <1>4, <1>5

\* Finitely many rows are of finitely many candidates.
LEMMA GroupsFinite ==
    ASSUME NEW rows, IsFiniteSet(rows)
    PROVE  IsFiniteSet(Groups(rows))
<1>. DEFINE f == [r \in rows |-> Of(rows, r.cand)]
<1>1. f \in Surjection(rows, Groups(rows))
  <2>1. \A r \in rows : Of(rows, r.cand) \in Groups(rows)
    BY DEF Groups, Of
  <2>2. ASSUME NEW g \in Groups(rows) PROVE \E r \in rows : f[r] = g
    <3>1. PICK r \in rows : g = {s \in rows : s.cand = r.cand}
      BY DEF Groups
    <3>. QED BY <3>1 DEF Of
  <2>. QED BY <2>1, <2>2 DEF Surjection
<1>. QED BY <1>1, FS_Surjection

\* A comparison whose rows are all there is judged.
LEMMA WholeIsJudged ==
    ASSUME NEW id \in Nat, NEW x, IsPlan(x), x.compare
    PROVE  ~Stale(Groups(First(id, x, Len(x.cs) * Len(x.fs))))
<1>. DEFINE m == Len(x.cs)  n == Len(x.fs)  mn == m * n  R == PlanRows(id, x)  rows == First(id, x, mn)
<1>1. m \in Nat \ {0} /\ n \in Nat \ {0} /\ mn \in Nat \ {0} /\ m > 1 /\ mn \in 0..mn
  <2>1. m \in Nat \ {0} /\ n \in Nat \ {0} /\ mn \in Nat \ {0}
    BY PlanRow, Grid
  <2>2. m > 1
    BY DEF IsPlan
  <2>. HIDE DEF mn, m, n
  <2>. QED BY <2>1, <2>2
<1>2. /\ x.fs \in Seq(ToSet(x.fs)) /\ DOMAIN x.fs = 1..n
      /\ IsInjective(x.cs) /\ x.cs \in Seq(Candidates) /\ DOMAIN x.cs = 1..m
  BY SelectionsAssumption DEF IsPlan
<1>3. ASSUME NEW i \in 1..m, NEW f \in ToSet(x.fs)
      PROVE  \E r \in rows : r.cand = x.cs[i] /\ r.fixture = f
  <2>1. PICK k \in 1..n : f = x.fs[k]
    BY <1>2 DEF ToSet
  <2>2. PICK p \in 1..mn : Cand(x, p) = i /\ Fix(x, p) = k
    BY RowFor
  <2>3. R[p].cand = x.cs[Cand(x, p)] /\ R[p].fixture = x.fs[Fix(x, p)]
    BY <2>2, RowOf
  <2>4. R[p].cand = x.cs[i] /\ R[p].fixture = f
    BY <2>1, <2>2, <2>3
  <2>. QED BY <2>4 DEF First
<1>4. \A r \in rows : r.fixture \in ToSet(x.fs) /\ \E i \in 1..m : r.cand = x.cs[i]
  <2>1. ASSUME NEW p \in 1..mn PROVE \E i \in 1..m : R[p].cand = x.cs[i]
    BY <2>1, RowOf
  <2>2. \A r \in rows : r.fixture \in ToSet(x.fs)
    BY <1>1, FirstRows DEF Fits
  <2>. QED BY <2>1, <2>2 DEF First
<1>. HIDE DEF rows, mn, m, n, R
<1>5. ASSUME NEW g \in Groups(rows) PROVE Asked(g) = ToSet(x.fs)
  <2>1. PICK c \in {r.cand : r \in rows} : g = {r \in rows : r.cand = c}
    BY DEF Groups
  <2>2. PICK i \in 1..m : c = x.cs[i]
    BY <1>4, <2>1
  <2>3. \A f \in ToSet(x.fs) : f \in Asked(g)
    BY <1>3, <2>1, <2>2 DEF Asked
  <2>4. Asked(g) \subseteq ToSet(x.fs)
    BY <1>4, <2>1 DEF Asked
  <2>. QED BY <2>3, <2>4
<1>6. ~(Cardinality(Groups(rows)) < 2)
  <2>. DEFINE g == Of(rows, x.cs[1])  h == Of(rows, x.cs[2])
  <2>1. x.cs[1] # x.cs[2] /\ 1 \in 1..m /\ 2 \in 1..m
    BY <1>1, <1>2 DEF IsInjective
  <2>2. \E f : f \in ToSet(x.fs)
    BY <1>1, <1>2 DEF ToSet
  <2>3. PICK r \in rows, s \in rows : r.cand = x.cs[1] /\ s.cand = x.cs[2]
    BY <1>3, <2>1, <2>2
  <2>4. g \in Groups(rows) /\ h \in Groups(rows)
    BY <2>3 DEF Groups, Of
  <2>5. g # h
    BY <2>1, <2>3 DEF Of
  <2>6. IsFiniteSet(Groups(rows))
    <3>1. IsFiniteSet(rows)
      BY <1>1, FirstRows DEF Fits, rows, mn, m, n
    <3>. QED BY <3>1, GroupsFinite
  <2>. HIDE DEF g, h
  <2>7. Cardinality(Groups(rows)) # 0 /\ Cardinality(Groups(rows)) # 1
    <3>1. Cardinality(Groups(rows)) # 0
      BY <2>4, <2>6, FS_EmptySet
    <3>2. Cardinality(Groups(rows)) # 1
      BY <2>4, <2>5, <2>6, FS_Singleton
    <3>. QED BY <3>1, <3>2
  <2>. QED BY <2>6, <2>7, FS_CardinalityType
<1>7. \A g \in Groups(rows) : {r.fixture : r \in g} = ToSet(x.fs)
  BY <1>5 DEF Asked
<1>. QED BY <1>6, <1>7 DEF Stale, rows, mn, m, n

\* A judgement is over candidates of which every one has a row for every fixture.
LEMMA JudgedIsWhole ==
    ASSUME NEW id \in Nat, NEW x, IsPlan(x), NEW P \in 0..Len(x.cs) * Len(x.fs),
           ~Stale(Groups(First(id, x, P))), NEW g \in Groups(First(id, x, P))
    PROVE  Cardinality(g) = Cardinality(ToSet(x.fs))
<1>. DEFINE m == Len(x.cs)  n == Len(x.fs)  mn == m * n  R == PlanRows(id, x)  rows == First(id, x, P)
            one == Of(rows, x.cs[1])
<1>1. /\ m \in Nat \ {0} /\ n \in Nat \ {0} /\ mn \in Nat \ {0} /\ P \in 0..mn
      /\ IsFiniteSet(rows)
  BY PlanRow, Grid, FirstRows DEF Fits
<1>2. P > n
  <2>. SUFFICES ASSUME ~(P > n) PROVE FALSE
    OBVIOUS
  <2>1. ASSUME NEW p \in 1..P PROVE R[p].cand = x.cs[1]
    <3>1. p \in 1..n
      BY <1>1, <2>1
    <3>2. p \in 1..m * n /\ Cand(x, p) = 1
      BY <1>1, <3>1, Grid DEF Cand
    <3>3. R[p].cand = x.cs[Cand(x, p)]
      BY <3>2, RowOf
    <3>. QED BY <3>2, <3>3
  <2>2. \A r \in rows : r.cand = x.cs[1]
    BY <2>1 DEF First
  <2>3. Groups(rows) \subseteq {one}
    BY <2>2 DEF Groups, Of
  <2>4. IsFiniteSet({one}) /\ Cardinality({one}) = 1
    BY FS_Singleton
  <2>5. IsFiniteSet(Groups(rows)) /\ Cardinality(Groups(rows)) <= 1
    BY <2>3, <2>4, FS_Subset, FS_CardinalityType
  <2>6. Cardinality(Groups(rows)) < 2
    BY <2>5, FS_CardinalityType
  <2>. QED BY <2>6 DEF Stale
<1>3. Asked(one) = ToSet(x.fs)
  BY <1>2, FirstGroupFull
<1>4. x.fs # <<>> /\ x.fs \in Seq(ToSet(x.fs))
  BY SelectionsAssumption DEF IsPlan
<1>5. one \in Groups(rows)
  <2>1. x.fs[1] \in Asked(one)
    BY <1>3, <1>4
  <2>2. PICK r \in one : r.fixture = x.fs[1]
    BY <2>1 DEF Asked
  <2>. QED BY <2>2 DEF Groups, Of
<1>6. Asked(g) = ToSet(x.fs)
  BY <1>3, <1>5, Zenon DEF Stale, Asked
<1>7. PICK c : g = {r \in rows : r.cand = c}
  BY DEF Groups
<1>8. IsFiniteSet(g)
  BY <1>1, <1>7, FS_Subset
<1>9. \A r, s \in g : r.fixture = s.fixture => r = s
  <2>1. \A r, s \in rows : r.cand = s.cand /\ r.fixture = s.fixture => r = s
    BY FirstRows DEF Fits
  <2>. HIDE DEF rows
  <2>. QED BY <1>7, <2>1
<1>. DEFINE f == [r \in g |-> r.fixture]
<1>10. f \in Bijection(g, Asked(g))
  BY <1>9 DEF Asked, Bijection, Injection, Surjection, IsInjective
<1>. QED BY <1>6, <1>8, <1>10, FS_Bijection DEF ExistsBijection
-----------------------------------------------------------------------------
(* The file and the batches.                                               *)

Ids == {b.id : b \in begun}
Stored(id) == {r \in {file[i].row : i \in DOMAIN file} : r.id = id}
Pending(u, id) == batch[u] # <<>> /\ batch[u][1].row.id = id

\* Every command has an id of its own, and every row and summary is some command's.
Typed ==
    /\ file \in Seq(Lines) /\ batch \in [Users -> Seq(Lines)]
    /\ summary \in [Users -> {summary[u] : u \in Users}]
    /\ IsFiniteSet(begun) /\ \A b \in begun : b.id \in 1..Cardinality(begun)
    /\ \A b, c \in begun : b.id = c.id => b = c
Named ==
    /\ \A i \in DOMAIN file : file[i].row.id \in Ids
    /\ \A t \in told : t.id \in Ids
    /\ \A u \in Users : batch[u] # <<>> => batch[u][1].row.id \in Ids
Apart == \A u, v \in Users : batch[u] # <<>> /\ Pending(v, batch[u][1].row.id) => u = v

\* The file has the first k lines of command b's batch; who still writes it has the
\* rest; and what was told of it was told after the last line.
Account(b, x) == Found(b.id, ToSet(PlanRows(b.id, x)))
Owed(b, x, k, u) ==
    /\ batch[u] = SubSeq(PlanLines(b.id, x), k + 1, Len(PlanLines(b.id, x)))
    /\ summary[u] # None => x.compare /\ summary[u] = Account(b, x)
Reached(b, x, k) ==
    /\ IsPlan(x) /\ b.fixtures = ToSet(x.fs) /\ k \in 0..Len(PlanLines(b.id, x))
    /\ Stored(b.id) = {PlanLines(b.id, x)[n].row : n \in 1..k}
    /\ \A u \in Users : Pending(u, b.id) => Owed(b, x, k, u)
    /\ \A t \in told :
          t.id = b.id => k = Len(PlanLines(b.id, x)) /\ x.compare /\ t = Account(b, x)
EvalInv == Typed /\ Named /\ Apart /\ \A b \in begun : \E x, k : Reached(b, x, k)

\* s is what L has after k lines: its first n go on where L stopped, and leave the rest.
GoesOn(S, L, k, s, n) ==
    /\ s \in Seq(S) /\ Len(s) = Len(L) - k /\ s[1] = L[k + 1] /\ k + n \in 1..Len(L)
    /\ SubSeq(s, n + 1, Len(s)) = SubSeq(L, k + n + 1, Len(L))
    /\ SubSeq(L, k + n + 1, Len(L)) \in Seq(S)
    /\ Len(SubSeq(L, k + n + 1, Len(L))) = Len(L) - k - n
    /\ \A i \in 1..Len(L) - k - n : SubSeq(L, k + n + 1, Len(L))[i] = L[k + n + i]
    /\ SubSeq(s, 1, n) \in Seq(S) /\ Len(SubSeq(s, 1, n)) = n
    /\ \A i \in 1..n : SubSeq(s, 1, n)[i] = L[k + i]

\* Part of a sequence.
LEMMA SubOf ==
    ASSUME NEW S, NEW s \in Seq(S), NEW m \in Nat \ {0}, NEW n \in 0..Len(s), m <= n + 1
    PROVE  /\ SubSeq(s, m, n) \in Seq(S) /\ Len(SubSeq(s, m, n)) = n - m + 1
           /\ \A i \in 1..n - m + 1 : SubSeq(s, m, n)[i] = s[m + i - 1]
<1>1. \A i \in m..n : s[i] \in S
  OBVIOUS
<1>2. m \in Int /\ n \in Int /\ (m <= n \/ n - m + 1 = 0)
  OBVIOUS
<1>3. /\ SubSeq(s, m, n) \in Seq(S)
      /\ Len(SubSeq(s, m, n)) = IF m <= n THEN n - m + 1 ELSE 0
      /\ \A i \in 1..n - m + 1 : SubSeq(s, m, n)[i] = s[m + i - 1]
  BY <1>1, <1>2, SubSeqProperties
<1>. QED BY <1>2, <1>3

\* A write that goes on where the last one stopped.
LEMMA Cut ==
    ASSUME NEW S, NEW L \in Seq(S), NEW k \in 0..Len(L), NEW s, s = SubSeq(L, k + 1, Len(L)),
           NEW n \in 1..Len(s)
    PROVE  GoesOn(S, L, k, s, n)
<1>1. /\ s \in Seq(S) /\ Len(s) = Len(L) - k
      /\ \A i \in 1..Len(s) : s[i] = L[k + i]
  <2>1. k + 1 \in Nat \ {0} /\ Len(L) \in 0..Len(L) /\ k + 1 <= Len(L) + 1
    OBVIOUS
  <2>2. /\ s \in Seq(S) /\ Len(s) = Len(L) - (k + 1) + 1
        /\ \A i \in 1..Len(L) - (k + 1) + 1 : s[i] = L[k + 1 + i - 1]
    BY <2>1, SubOf
  <2>. QED BY <2>2
<1>2. /\ Len(L) \in Nat /\ Len(s) \in Nat /\ n \in Nat /\ k \in Nat
      /\ 1 <= n /\ n <= Len(s) /\ k + n <= Len(L)
  BY <1>1
<1>3. /\ SubSeq(s, 1, n) \in Seq(S) /\ Len(SubSeq(s, 1, n)) = n
      /\ \A i \in 1..n : SubSeq(s, 1, n)[i] = L[k + i]
  <2>1. 1 \in Nat \ {0} /\ n \in 0..Len(s) /\ 1 <= n + 1
    BY <1>2
  <2>2. /\ SubSeq(s, 1, n) \in Seq(S) /\ Len(SubSeq(s, 1, n)) = n - 1 + 1
        /\ \A i \in 1..n - 1 + 1 : SubSeq(s, 1, n)[i] = s[1 + i - 1]
    BY <1>1, <2>1, SubOf
  <2>3. \A i \in 1..n : SubSeq(s, 1, n)[i] = s[i]
    BY <1>2, <2>2
  <2>4. \A i \in 1..n : i \in 1..Len(s)
    BY <1>2
  <2>. QED BY <1>1, <1>2, <2>2, <2>3, <2>4
<1>. DEFINE a == SubSeq(s, n + 1, Len(s))  b == SubSeq(L, k + n + 1, Len(L))
<1>4. a \in Seq(S) /\ Len(a) = Len(s) - n /\ \A i \in 1..Len(s) - n : a[i] = s[n + i]
  <2>1. n + 1 \in Nat \ {0} /\ Len(s) \in 0..Len(s) /\ n + 1 <= Len(s) + 1
    BY <1>2
  <2>2. /\ a \in Seq(S) /\ Len(a) = Len(s) - (n + 1) + 1
        /\ \A i \in 1..Len(s) - (n + 1) + 1 : a[i] = s[n + 1 + i - 1]
    BY <1>1, <2>1, SubOf
  <2>. HIDE DEF a
  <2>. QED BY <1>2, <2>2
<1>5. b \in Seq(S) /\ Len(b) = Len(L) - k - n /\ \A i \in 1..Len(L) - k - n : b[i] = L[k + n + i]
  <2>1. k + n + 1 \in Nat \ {0} /\ Len(L) \in 0..Len(L) /\ k + n + 1 <= Len(L) + 1
    BY <1>2
  <2>2. /\ b \in Seq(S) /\ Len(b) = Len(L) - (k + n + 1) + 1
        /\ \A i \in 1..Len(L) - (k + n + 1) + 1 : b[i] = L[k + n + 1 + i - 1]
    BY <2>1, SubOf
  <2>. HIDE DEF b
  <2>. QED BY <1>2, <2>2
<1>. HIDE DEF a, b
<1>6. a = b
  <2>1. Len(a) = Len(b)
    BY <1>1, <1>2, <1>4, <1>5
  <2>2. ASSUME NEW i \in 1..Len(a) PROVE a[i] = b[i]
    <3>1. i \in 1..Len(s) - n /\ n + i \in 1..Len(s) /\ i \in 1..Len(L) - k - n
      BY <1>1, <1>2, <1>4
    <3>2. a[i] = L[k + (n + i)] /\ b[i] = L[k + n + i]
      BY <1>1, <1>4, <1>5, <3>1
    <3>3. k + (n + i) = k + n + i
      BY <1>2
    <3>. QED BY <3>2, <3>3
  <2>. QED BY <1>4, <1>5, <2>1, <2>2, SeqEqual
<1>7. s[1] = L[k + 1] /\ k + n \in 1..Len(L)
  BY <1>1, <1>2
<1>. QED BY <1>1, <1>3, <1>5, <1>6, <1>7, Zenon DEF GoesOn, a, b

\* A new command with a number of its own.
LEMMA BeginKeeps ==
    ASSUME EvalInv, NEW u \in Users, NEW compare, NEW cs, NEW fs, NEW outcome,
           IsPlan([compare |-> compare, cs |-> cs, fs |-> fs, outcome |-> outcome]),
           Begin(u, compare, cs, fs, outcome)
    PROVE  EvalInv'
<1>. DEFINE x == [compare |-> compare, cs |-> cs, fs |-> fs, outcome |-> outcome]
<1>0. PICK id : id = Cardinality(begun) + 1
  OBVIOUS
<1>. DEFINE new == [id |-> id, candidates |-> ToSet(cs), fixtures |-> ToSet(fs)]
            L == PlanLines(id, x)
            found == Found(id, ToSet(PlanRows(id, x)))
<1>1. Typed /\ Named /\ Apart /\ \A b \in begun : \E y, k : Reached(b, y, k)
  BY DEF EvalInv
<1>2. /\ batch[u] = <<>> /\ IsPlan(x)
      /\ begun' = begun \cup {new} /\ file' = file /\ told' = told
      /\ batch' = [batch EXCEPT ![u] = L]
      /\ summary' = [summary EXCEPT ![u] = IF compare THEN found ELSE None]
  BY <1>0 DEF Begin, Idle, PlanLines, PlanRows
<1>3. /\ id \in Nat \ {0} /\ id \notin Ids /\ IsFiniteSet(begun') /\ Cardinality(begun') = id
      /\ new.id = id /\ new.fixtures = ToSet(fs) /\ x.fs = fs /\ x.compare = compare
  <2>1. Cardinality(begun) \in Nat /\ \A i \in Ids : i \in 1..Cardinality(begun)
    BY <1>1, FS_CardinalityType DEF Typed, Ids
  <2>2. id \notin Ids
    BY <1>0, <2>1
  <2>3. new \notin begun
    BY <2>2 DEF Ids
  <2>4. IsFiniteSet(begun') /\ Cardinality(begun') = id
    BY <1>0, <1>1, <1>2, <2>3, FS_AddElement DEF Typed
  <2>. QED BY <1>0, <2>1, <2>2, <2>4
<1>4. L \in Seq(Lines) /\ Len(L) \in Nat \ {0} /\ \A n \in 1..Len(L) : L[n].row.id = id
  BY <1>2, <1>3, PlanLine
<1>. HIDE DEF L, x, new, found
<1>5. Ids' = Ids \cup {id}
  BY <1>2, <1>3 DEF Ids
<1>6. /\ batch'[u] = L /\ L # <<>> /\ L[1].row.id = id
      /\ \A v \in Users : v # u => batch'[v] = batch[v] /\ summary'[v] = summary[v]
      /\ summary'[u] = IF compare THEN found ELSE None
      /\ batch' \in [Users -> Seq(Lines)] /\ summary' \in [Users -> {summary'[v] : v \in Users}]
  <2>1. L # <<>> /\ L[1].row.id = id
    BY <1>4
  <2>2. /\ batch'[u] = L /\ \A v \in Users : v # u => batch'[v] = batch[v]
        /\ batch' \in [Users -> Seq(Lines)]
    BY <1>1, <1>2, <1>4 DEF Typed
  <2>3. /\ \A v \in Users : v # u => summary'[v] = summary[v]
        /\ summary'[u] = IF compare THEN found ELSE None
        /\ summary' \in [Users -> {summary'[v] : v \in Users}]
    BY <1>1, <1>2 DEF Typed
  <2>. QED BY <2>1, <2>2, <2>3
<1>7. Typed'
  <2>1. \A b \in begun' : b.id \in 1..Cardinality(begun')
    BY <1>0, <1>1, <1>2, <1>3, FS_CardinalityType DEF Typed
  <2>2. \A b, c \in begun' : b.id = c.id => b = c
    BY <1>1, <1>2, <1>3 DEF Typed, Ids
  <2>. QED BY <1>1, <1>2, <1>3, <1>6, <2>1, <2>2 DEF Typed
<1>8. Named'
  BY <1>1, <1>2, <1>5, <1>6 DEF Named
<1>9. \A v \in Users : \A c : Pending(v, c)' => (v = u /\ c = id) \/ (v # u /\ Pending(v, c) /\ c \in Ids)
  BY <1>1, <1>6 DEF Named, Pending
<1>10. Apart'
  <2>. SUFFICES ASSUME NEW v \in Users, NEW w \in Users, batch'[v] # <<>>,
                       NEW c, c = batch'[v][1].row.id, Pending(w, c)'
                PROVE  v = w
    BY DEF Apart, Pending
  <2>1. Pending(v, c)'
    BY DEF Pending
  <2>2. CASE c = id
    BY <1>3, <1>9, <2>1, <2>2
  <2>3. CASE c # id
    <3>1. Pending(v, c) /\ Pending(w, c)
      BY <1>9, <2>1, <2>3
    <3>. QED BY <1>1, <3>1 DEF Apart, Pending
  <2>. QED BY <2>2, <2>3
<1>11. ASSUME NEW b \in begun PROVE \E y, k : Reached(b, y, k)'
  <2>1. PICK y, k : Reached(b, y, k)
    BY <1>1
  <2>2. b.id # id
    BY <1>3 DEF Ids
  <2>3. ASSUME NEW v \in Users, Pending(v, b.id)' PROVE Owed(b, y, k, v)'
    <3>1. v # u /\ Pending(v, b.id)
      BY <1>9, <2>2, <2>3
    <3>2. Owed(b, y, k, v)
      BY <2>1, <3>1 DEF Reached
    <3>. QED BY <1>6, <3>1, <3>2 DEF Owed
  <2>4. Stored(b.id)' = Stored(b.id)
    BY <1>2 DEF Stored
  <2>5. Reached(b, y, k)'
    BY <1>2, <2>1, <2>3, <2>4 DEF Reached
  <2>. QED BY <2>5
<1>12. Reached(new, x, 0)'
  <2>1. Stored(id)' = {L[n].row : n \in 1..0}
    <3>1. \A i \in DOMAIN file : file[i].row.id # id
      BY <1>1, <1>3 DEF Named
    <3>2. Stored(id) = {}
      BY <3>1 DEF Stored
    <3>3. Stored(id)' = Stored(id)
      BY <1>2 DEF Stored
    <3>4. 1..0 = {}
      OBVIOUS
    <3>. QED BY <3>2, <3>3, <3>4
  <2>2. \A t \in told' : t.id # id
    BY <1>1, <1>2, <1>3 DEF Named
  <2>3. ASSUME NEW v \in Users, Pending(v, id)' PROVE Owed(new, x, 0, v)'
    <3>1. v = u
      BY <1>3, <1>9, <2>3
    <3>2. SubSeq(L, 0 + 1, Len(L)) = L
      BY <1>4, SubSeqFull
    <3>. QED BY <1>3, <1>6, <3>1, <3>2 DEF Owed, Account, L, found
  <2>4. 0 \in 0..Len(L)
    BY <1>4
  <2>. QED BY <1>2, <1>3, <2>1, <2>2, <2>3, <2>4 DEF Reached, L
<1>13. \A b \in begun' : \E y, k : Reached(b, y, k)'
  BY <1>2, <1>11, <1>12
<1>. QED BY <1>7, <1>8, <1>10, <1>13 DEF EvalInv

\* A batch goes on where it has stopped; what is told is what was found.
LEMMA WriteKeeps ==
    ASSUME EvalInv, NEW u \in Users, NEW n \in DOMAIN batch[u], Write(u, n)
    PROVE  EvalInv'
<1>1. Typed /\ Named /\ Apart /\ \A b \in begun : \E y, k : Reached(b, y, k)
  BY DEF EvalInv
<1>2. PICK s : s = batch[u]
  OBVIOUS
<1>3. s \in Seq(Lines) /\ n \in 1..Len(s) /\ s # <<>> /\ Len(s) \in Nat
  BY <1>1, <1>2 DEF Typed
<1>4. PICK id : id = s[1].row.id
  OBVIOUS
<1>5. PICK c \in begun : c.id = id
  BY <1>1, <1>2, <1>3, <1>4 DEF Named, Ids
<1>6. PICK x, k : Reached(c, x, k)
  BY <1>1
<1>. DEFINE L == PlanLines(id, x)
<1>7. /\ id \in Nat /\ IsPlan(x) /\ k \in 0..Len(L)
      /\ L \in Seq(Lines) /\ Len(L) \in Nat /\ \A i \in 1..Len(L) : L[i].row.id = id
  <2>1. id \in Nat
    BY <1>1, <1>5, FS_CardinalityType DEF Typed
  <2>2. IsPlan(x) /\ k \in 0..Len(L)
    BY <1>5, <1>6 DEF Reached
  <2>. QED BY <2>1, <2>2, PlanLine
<1>8. Pending(u, id) /\ \A v \in Users : Pending(v, id) => v = u
  BY <1>1, <1>2, <1>3, <1>4 DEF Pending, Apart
<1>9. s = SubSeq(L, k + 1, Len(L)) /\ (summary[u] # None => x.compare /\ summary[u] = Account(c, x))
  BY <1>2, <1>5, <1>6, <1>8 DEF Reached, Owed
<1>. HIDE DEF L
<1>10. /\ Len(s) = Len(L) - k /\ k + n \in 1..Len(L) /\ Len(SubSeq(s, 1, n)) = n
       /\ SubSeq(s, n + 1, Len(s)) = SubSeq(L, k + n + 1, Len(L))
       /\ SubSeq(L, k + n + 1, Len(L)) \in Seq(Lines)
       /\ Len(SubSeq(L, k + n + 1, Len(L))) = Len(L) - k - n
       /\ \A i \in 1..Len(L) - k - n : SubSeq(L, k + n + 1, Len(L))[i] = L[k + n + i]
       /\ SubSeq(s, 1, n) \in Seq(Lines) /\ \A i \in 1..n : SubSeq(s, 1, n)[i] = L[k + i]
  <2>1. L \in Seq(Lines)
    BY <1>7
  <2>2. k \in 0..Len(L)
    BY <1>7
  <2>3. n \in 1..Len(s)
    BY <1>3
  <2>4. s = SubSeq(L, k + 1, Len(L))
    BY <1>9
  <2>5. GoesOn(Lines, L, k, s, n)
    BY <2>1, <2>2, <2>3, <2>4, Cut
  <2>. QED BY <2>5 DEF GoesOn
<1>11. PICK part : part = SubSeq(s, 1, n)
  OBVIOUS
<1>12. PICK rest : rest = SubSeq(L, k + n + 1, Len(L))
  OBVIOUS
<1>13. /\ rest \in Seq(Lines) /\ Len(rest) = Len(s) - n
       /\ rest # <<>> => k + n + 1 \in 1..Len(L) /\ rest[1] = L[k + n + 1] /\ rest[1].row.id = id
       /\ rest # <<>> <=> n < Len(s)
  <2>2. /\ rest \in Seq(Lines) /\ Len(rest) = Len(L) - k - n
        /\ \A i \in 1..Len(L) - k - n : rest[i] = L[k + n + i]
    BY <1>10, <1>12
  <2>3. Len(rest) = Len(s) - n
    BY <1>3, <1>7, <1>10, <2>2
  <2>4. rest # <<>> <=> n < Len(s)
    BY <1>3, <2>2, <2>3
  <2>5. ASSUME rest # <<>> PROVE k + n + 1 \in 1..Len(L) /\ rest[1] = L[k + n + 1]
    <3>1. k \in Nat /\ n \in Nat /\ Len(L) \in Nat /\ k + n < Len(L)
      <4>1. k \in Nat /\ Len(L) \in Nat
        BY <1>7
      <4>2. n \in Nat /\ Len(s) \in Nat /\ n < Len(s)
        BY <1>3, <2>4, <2>5
      <4>3. Len(s) = Len(L) - k
        BY <1>10
      <4>. QED BY <4>1, <4>2, <4>3
    <3>2. 1 \in 1..Len(L) - k - n /\ k + n + 1 \in 1..Len(L)
      BY <3>1
    <3>. QED BY <2>2, <3>2
  <2>. QED BY <1>7, <2>2, <2>3, <2>4, <2>5
<1>14. /\ batch' = [batch EXCEPT ![u] = rest] /\ file' = file \o part /\ begun' = begun
       /\ n < Len(s) => told' = told /\ summary' = summary
       /\ ~(n < Len(s)) => /\ told' = told \cup ({summary[u]} \ {None})
                           /\ summary' = [summary EXCEPT ![u] = None]
  BY <1>2, <1>10, <1>11, <1>12 DEF Write
<1>15. /\ batch'[u] = rest /\ \A v \in Users : v # u => batch'[v] = batch[v]
       /\ batch' \in [Users -> Seq(Lines)]
       /\ \A v \in Users : v # u => summary'[v] = summary[v]
       /\ summary' \in [Users -> {summary'[v] : v \in Users}]
  <2>1. batch'[u] = rest /\ \A v \in Users : v # u => batch'[v] = batch[v]
    BY <1>1, <1>14 DEF Typed
  <2>2. batch' \in [Users -> Seq(Lines)]
    BY <1>1, <1>13, <1>14 DEF Typed
  <2>3. \A v \in Users : v # u => summary'[v] = summary[v]
    BY <1>1, <1>14 DEF Typed
  <2>4. summary' \in [Users -> {summary'[v] : v \in Users}]
    BY <1>1, <1>14 DEF Typed
  <2>. QED BY <2>1, <2>2, <2>3, <2>4
<1>16. /\ file' \in Seq(Lines)
       /\ {file'[i].row : i \in DOMAIN file'} = {file[i].row : i \in DOMAIN file}
                                                  \cup {L[k + i].row : i \in 1..n}
  <2>1. /\ file \in Seq(Lines) /\ part \in Seq(Lines) /\ Len(part) = n /\ n \in Nat /\ Len(file) \in Nat
        /\ \A i \in 1..n : part[i] = L[k + i]
    <3>1. part \in Seq(Lines) /\ Len(part) = n /\ \A i \in 1..n : part[i] = L[k + i]
      BY <1>10, <1>11
    <3>2. file \in Seq(Lines) /\ Len(file) \in Nat
      BY <1>1 DEF Typed
    <3>. QED BY <1>3, <3>1, <3>2
  <2>2. file' \in Seq(Lines) /\ Len(file') = Len(file) + n
    <3>1. file' = file \o part
      BY <1>14
    <3>. QED BY <2>1, <3>1, ConcatProperties
  <2>3. /\ \A i \in 1..Len(file) : i \in DOMAIN file' /\ file'[i] = file[i]
        /\ \A i \in 1..n : Len(file) + i \in DOMAIN file' /\ file'[Len(file) + i] = L[k + i]
        /\ \A i \in DOMAIN file' : i \in 1..Len(file) \/ i - Len(file) \in 1..n
    BY <1>14, <2>1, <2>2
  <2>4. ASSUME NEW i \in DOMAIN file'
        PROVE  file'[i].row \in {file[j].row : j \in DOMAIN file} \cup {L[k + j].row : j \in 1..n}
    <3>1. CASE i \in 1..Len(file)
      BY <2>1, <2>3, <3>1
    <3>2. CASE i - Len(file) \in 1..n
      <4>1. PICK j \in 1..n : j = i - Len(file)
        BY <3>2
      <4>2. Len(file) + j = i
        BY <2>1, <2>2, <4>1
      <4>. QED BY <2>3, <4>2
    <3>. QED BY <2>3, <3>1, <3>2
  <2>5. \A j \in DOMAIN file : file[j].row \in {file'[i].row : i \in DOMAIN file'}
    BY <2>1, <2>3
  <2>6. \A j \in 1..n : L[k + j].row \in {file'[i].row : i \in DOMAIN file'}
    BY <2>3
  <2>. QED BY <2>2, <2>4, <2>5, <2>6
<1>17. \A i \in 1..n : k + i \in 1..Len(L) /\ L[k + i].row.id = id
  <2>1. \A i \in 1..n : k + i \in 1..Len(L)
    <3>1. k \in Nat /\ n \in Nat /\ Len(L) \in Nat /\ k + n <= Len(L)
      BY <1>3, <1>7, <1>10
    <3>. QED BY <3>1
  <2>. QED BY <1>7, <2>1
<1>18. Stored(id)' = {L[i].row : i \in 1..k + n}
  <2>1. Stored(id)' = Stored(id) \cup {L[k + i].row : i \in 1..n}
    BY <1>16, <1>17 DEF Stored
  <2>2. Stored(id) = {L[i].row : i \in 1..k}
    BY <1>5, <1>6 DEF Reached, L
  <2>3. \A i \in 1..k + n : i \in 1..k \/ \E j \in 1..n : i = k + j
    <3>1. ASSUME NEW i \in 1..k + n, i \notin 1..k PROVE i - k \in 1..n /\ i = k + (i - k)
      BY <1>3, <1>7, <3>1
    <3>. QED BY <3>1
  <2>4. (\A i \in 1..k : i \in 1..k + n) /\ \A i \in 1..n : k + i \in 1..k + n
    BY <1>3, <1>7
  <2>. QED BY <2>1, <2>2, <2>3, <2>4
<1>19. ASSUME NEW d, d # id PROVE Stored(d)' = Stored(d)
  BY <1>16, <1>17, <1>19 DEF Stored
<1>20. \A v \in Users : \A d : Pending(v, d)' => Pending(v, d) /\ (v = u => d = id /\ n < Len(s))
  <2>1. \A d : Pending(u, d)' => d = id /\ n < Len(s)
    BY <1>13, <1>15 DEF Pending
  <2>2. \A v \in Users : \A d : v # u /\ Pending(v, d)' => Pending(v, d)
    BY <1>15 DEF Pending
  <2>. QED BY <1>8, <2>1, <2>2
<1>21. Ids' = Ids /\ id \in Ids
  BY <1>5, <1>14 DEF Ids
<1>22. \A t \in told : t.id # id
  <2>1. k # Len(L)
    BY <1>3, <1>7, <1>10
  <2>. QED BY <1>5, <1>6, <2>1 DEF Reached, L
<1>23. ASSUME NEW t \in told', t \notin told
       PROVE  t.id = id /\ ~(n < Len(s)) /\ x.compare /\ t = Account(c, x)
  <2>1. ~(n < Len(s)) /\ t = summary[u] /\ summary[u] # None
    BY <1>14, <1>23
  <2>2. t = Account(c, x) /\ x.compare
    BY <1>9, <2>1
  <2>3. t.id = id
    BY <1>5, <2>2 DEF Account, Found, Comparison
  <2>. QED BY <2>1, <2>2, <2>3
<1>24. Typed'
  BY <1>1, <1>14, <1>15, <1>16 DEF Typed
<1>25. Named'
  <2>1. ASSUME NEW i \in DOMAIN file' PROVE file'[i].row.id \in Ids
    <3>1. file'[i].row \in {file[j].row : j \in DOMAIN file} \cup {L[k + j].row : j \in 1..n}
      BY <1>16
    <3>2. \A j \in DOMAIN file : file[j].row.id \in Ids
      BY <1>1 DEF Named
    <3>. QED BY <1>17, <1>21, <3>1, <3>2
  <2>2. \A t \in told' : t.id \in Ids
    BY <1>1, <1>21, <1>23 DEF Named
  <2>3. ASSUME NEW v \in Users, batch'[v] # <<>> PROVE batch'[v][1].row.id \in Ids
    BY <1>1, <1>13, <1>15, <1>21, <2>3 DEF Named
  <2>. QED BY <1>21, <2>1, <2>2, <2>3 DEF Named
<1>26. Apart'
  <2>. SUFFICES ASSUME NEW v \in Users, NEW w \in Users, batch'[v] # <<>>,
                       NEW d, d = batch'[v][1].row.id, Pending(w, d)'
                PROVE  v = w
    BY DEF Apart, Pending
  <2>1. Pending(v, d)'
    BY DEF Pending
  <2>2. Pending(v, d) /\ Pending(w, d)
    BY <1>20, <2>1
  <2>. QED BY <1>1, <2>2 DEF Apart, Pending
<1>27. Reached(c, x, k + n)'
  <2>1. ASSUME NEW v \in Users, Pending(v, id)' PROVE Owed(c, x, k + n, v)'
    <3>1. v = u /\ n < Len(s)
      BY <1>8, <1>20, <2>1
    <3>2. batch'[v] = SubSeq(L, (k + n) + 1, Len(L)) /\ summary'[v] = summary[u]
      BY <1>12, <1>14, <1>15, <3>1
    <3>. QED BY <1>5, <1>9, <3>2 DEF Owed, Account, L
  <2>2. ASSUME NEW t \in told', t.id = id PROVE k + n = Len(L) /\ x.compare /\ t = Account(c, x)
    <3>1. ~(n < Len(s)) /\ x.compare /\ t = Account(c, x)
      BY <1>22, <1>23, <2>2
    <3>2. k + n = Len(L)
      <4>1. Len(s) = Len(L) - k /\ n \in 1..Len(s) /\ k \in Nat /\ Len(L) \in Nat /\ Len(s) \in Nat
        BY <1>3, <1>7, <1>10
      <4>. QED BY <3>1, <4>1
    <3>. QED BY <3>1, <3>2
  <2>3. c.fixtures = ToSet(x.fs) /\ k + n \in 0..Len(L)
    BY <1>6, <1>7, <1>10 DEF Reached
  <2>. QED BY <1>5, <1>7, <1>18, <2>1, <2>2, <2>3 DEF Reached, L, Account
<1>28. ASSUME NEW b \in begun, b # c PROVE \E y, j : Reached(b, y, j)'
  <2>1. b.id # id
    BY <1>1, <1>5, <1>28 DEF Typed
  <2>2. PICK y, j : Reached(b, y, j)
    BY <1>1
  <2>3. Stored(b.id)' = Stored(b.id)
    BY <1>19, <2>1
  <2>4. ASSUME NEW v \in Users, Pending(v, b.id)' PROVE Owed(b, y, j, v)'
    <3>1. v # u /\ Pending(v, b.id)
      BY <1>20, <2>1, <2>4
    <3>2. Owed(b, y, j, v)
      BY <2>2, <3>1 DEF Reached
    <3>. QED BY <1>15, <3>1, <3>2 DEF Owed
  <2>5. \A t \in told' : t.id = b.id => t \in told
    BY <1>23, <2>1
  <2>6. Reached(b, y, j)'
    BY <2>2, <2>3, <2>4, <2>5 DEF Reached
  <2>. QED BY <2>6
<1>29. \A b \in begun' : \E y, j : Reached(b, y, j)'
  BY <1>14, <1>27, <1>28
<1>. QED BY <1>24, <1>25, <1>26, <1>29 DEF EvalInv

\* The rest of a batch is lost.
LEMMA StopKeeps ==
    ASSUME EvalInv, NEW u \in Users, Stop(u)
    PROVE  EvalInv'
<1>1. Typed /\ Named /\ Apart /\ \A b \in begun : \E y, k : Reached(b, y, k)
  BY DEF EvalInv
<1>2. /\ batch' = [batch EXCEPT ![u] = <<>>] /\ summary' = [summary EXCEPT ![u] = None]
      /\ file' = file /\ begun' = begun /\ told' = told
  BY DEF Stop
<1>3. /\ batch'[u] = <<>> /\ \A v \in Users : v # u => batch'[v] = batch[v] /\ summary'[v] = summary[v]
      /\ batch' \in [Users -> Seq(Lines)]
      /\ summary' \in [Users -> {summary'[v] : v \in Users}]
  <2>1. batch'[u] = <<>> /\ \A v \in Users : v # u => batch'[v] = batch[v] /\ summary'[v] = summary[v]
    BY <1>1, <1>2 DEF Typed
  <2>2. batch' \in [Users -> Seq(Lines)]
    BY <1>1, <1>2 DEF Typed
  <2>3. summary' \in [Users -> {summary'[v] : v \in Users}]
    BY <1>1, <1>2 DEF Typed
  <2>. QED BY <2>1, <2>2, <2>3
<1>4. \A v \in Users : \A d : Pending(v, d)' => v # u /\ Pending(v, d)
  BY <1>3 DEF Pending
<1>5. Typed'
  BY <1>1, <1>2, <1>3 DEF Typed
<1>6. Named'
  BY <1>1, <1>2, <1>3 DEF Named, Ids
<1>7. Apart'
  <2>. SUFFICES ASSUME NEW v \in Users, NEW w \in Users, batch'[v] # <<>>,
                       NEW d, d = batch'[v][1].row.id, Pending(w, d)'
                PROVE  v = w
    BY DEF Apart, Pending
  <2>1. Pending(v, d)'
    BY DEF Pending
  <2>2. Pending(v, d) /\ Pending(w, d)
    BY <1>4, <2>1
  <2>. QED BY <1>1, <2>2 DEF Apart, Pending
<1>8. ASSUME NEW b \in begun PROVE \E y, j : Reached(b, y, j)'
  <2>1. PICK y, j : Reached(b, y, j)
    BY <1>1
  <2>2. ASSUME NEW v \in Users, Pending(v, b.id)' PROVE Owed(b, y, j, v)'
    <3>1. v # u /\ Pending(v, b.id)
      BY <1>4, <2>2
    <3>2. Owed(b, y, j, v)
      BY <2>1, <3>1 DEF Reached
    <3>. QED BY <1>3, <3>1, <3>2 DEF Owed
  <2>3. Stored(b.id)' = Stored(b.id)
    BY <1>2 DEF Stored
  <2>4. Reached(b, y, j)'
    BY <1>2, <2>1, <2>2, <2>3 DEF Reached
  <2>. QED BY <2>4
<1>. QED BY <1>2, <1>5, <1>6, <1>7, <1>8 DEF EvalInv

\* Before the first command there is nothing to account for.
LEMMA EvalInit == Init => EvalInv
<1>. SUFFICES ASSUME Init PROVE EvalInv
  OBVIOUS
<1>1. /\ file = <<>> /\ begun = {} /\ told = {} /\ batch = [u \in Users |-> <<>>]
      /\ summary = [u \in Users |-> None]
  BY DEF Init
<1>2. Typed
  BY <1>1, FS_EmptySet DEF Typed
<1>3. Named /\ Apart
  BY <1>1 DEF Named, Apart
<1>. QED BY <1>1, <1>2, <1>3 DEF EvalInv

\* Every step keeps the account of every batch.
LEMMA EvalNext == EvalInv /\ [Next]_vars => EvalInv'
<1>. SUFFICES ASSUME EvalInv, [Next]_vars PROVE EvalInv'
  OBVIOUS
<1>1. ASSUME NEW u \in Users, Run(u) PROVE EvalInv'
  <2>1. PICK c \in Candidates, fs \in Selections : \E outcome \in [{c} \X ToSet(fs) -> Outcomes] :
            Begin(u, FALSE, <<c>>, fs, outcome)
    BY <1>1 DEF Run
  <2>2. PICK outcome \in [{c} \X ToSet(fs) -> Outcomes] : Begin(u, FALSE, <<c>>, fs, outcome)
    BY <2>1
  <2>3. /\ <<c>> \in Seq(Candidates) /\ <<c>> # <<>> /\ ToSet(<<c>>) = {c} /\ IsInjective(<<c>>)
    BY DEF ToSet, IsInjective
  <2>4. IsPlan([compare |-> FALSE, cs |-> <<c>>, fs |-> fs, outcome |-> outcome])
    BY <2>2, <2>3 DEF IsPlan
  <2>. QED BY <2>2, <2>4, BeginKeeps
<1>2. ASSUME NEW u \in Users, Compare(u) PROVE EvalInv'
  <2>1. PICK n \in 2..Cardinality(Candidates) : \E cs \in Ordered(n), fs \in Selections :
            \E outcome \in [ToSet(cs) \X ToSet(fs) -> Outcomes] : Begin(u, TRUE, cs, fs, outcome)
    BY <1>2 DEF Compare
  <2>2. PICK cs \in Ordered(n), fs \in Selections :
            \E outcome \in [ToSet(cs) \X ToSet(fs) -> Outcomes] : Begin(u, TRUE, cs, fs, outcome)
    BY <2>1
  <2>3. PICK outcome \in [ToSet(cs) \X ToSet(fs) -> Outcomes] : Begin(u, TRUE, cs, fs, outcome)
    BY <2>2
  <2>4. cs \in [1..n -> Candidates] /\ IsInjective(cs) /\ n \in Nat /\ n > 1
    BY <2>2 DEF Ordered
  <2>5. cs \in Seq(Candidates) /\ Len(cs) = n /\ cs # <<>>
    BY <2>4
  <2>6. IsPlan([compare |-> TRUE, cs |-> cs, fs |-> fs, outcome |-> outcome])
    BY <2>3, <2>4, <2>5 DEF IsPlan
  <2>. QED BY <2>3, <2>6, BeginKeeps
<1>3. CASE UNCHANGED vars
  <2>1. /\ file' = file /\ batch' = batch /\ begun' = begun /\ summary' = summary /\ told' = told
    BY <1>3 DEF vars
  <2>2. Typed' /\ Named' /\ Apart'
    BY <2>1 DEF EvalInv, Typed, Named, Apart, Ids, Pending
  <2>3. ASSUME NEW b \in begun PROVE \E y, j : Reached(b, y, j)'
    <3>1. PICK y, j : Reached(b, y, j)
      BY DEF EvalInv
    <3>2. Stored(b.id)' = Stored(b.id)
      BY <2>1 DEF Stored
    <3>3. \A v \in Users : (Pending(v, b.id)' <=> Pending(v, b.id)) /\ (Owed(b, y, j, v)' <=> Owed(b, y, j, v))
      BY <2>1 DEF Pending, Owed
    <3>4. Reached(b, y, j)'
      BY <2>1, <3>1, <3>2, <3>3 DEF Reached
    <3>. QED BY <3>4
  <2>. QED BY <2>1, <2>2, <2>3 DEF EvalInv
<1>. QED BY <1>1, <1>2, <1>3, WriteKeeps, StopKeeps DEF Next
-----------------------------------------------------------------------------
(* The page.                                                               *)

\* The rows that the page finds of a command: the first of its batch, or none.
Shown(id) == {r \in RowsIn(file) : r.compare /\ r.id = id}

\* Which of them it finds, if any.
LEMMA ShownRows ==
    ASSUME EvalInv, NEW b \in begun, NEW x, NEW k, Reached(b, x, k)
    PROVE  /\ b.id \in Nat /\ LineRow(k) \in 0..Len(x.cs) * Len(x.fs)
           /\ Readable(file) /\ x.compare => Shown(b.id) = First(b.id, x, LineRow(k))
           /\ ~(Readable(file) /\ x.compare) => Shown(b.id) = {}
<1>1. b.id \in Nat /\ IsPlan(x) /\ k \in 0..Len(PlanLines(b.id, x))
  BY FS_CardinalityType DEF EvalInv, Typed, Reached
<1>2. /\ LineRow(k) \in 0..Len(PlanRows(b.id, x))
      /\ {PlanLines(b.id, x)[n].row : n \in 1..k} = First(b.id, x, LineRow(k))
  BY <1>1, PlanLine
<1>3. LineRow(k) \in 0..Len(x.cs) * Len(x.fs)
  BY <1>1, <1>2, PlanRow
<1>4. Stored(b.id) = First(b.id, x, LineRow(k))
  BY <1>2 DEF Reached
<1>5. \A r \in First(b.id, x, LineRow(k)) : r.compare = x.compare
  <2>1. Fits(b.id, x, First(b.id, x, LineRow(k)))
    BY <1>1, <1>3, FirstRows
  <2>. QED BY <2>1 DEF Fits
<1>6. Readable(file) => Shown(b.id) = {r \in Stored(b.id) : r.compare}
  BY DEF Shown, Stored, RowsIn
<1>7. ~Readable(file) => Shown(b.id) = {}
  BY DEF Shown, RowsIn
<1>8. x.compare \in BOOLEAN
  BY <1>1 DEF IsPlan
<1>. QED BY <1>1, <1>3, <1>4, <1>5, <1>6, <1>7, <1>8

\* What was told is over the whole batch, and the page has the whole of it.
LEMMA PageCachedAsTold == EvalInv => CachedAsTold
<1>. SUFFICES ASSUME EvalInv, Readable(file), NEW t \in told PROVE Cached(file, t.id) = t
  BY DEF CachedAsTold
<1>1. PICK b \in begun : b.id = t.id
  BY DEF EvalInv, Named, Ids
<1>2. PICK x, k : Reached(b, x, k)
  BY DEF EvalInv
<1>. DEFINE L == PlanLines(b.id, x)  R == PlanRows(b.id, x)
<1>3. k = Len(L) /\ x.compare /\ t = Found(b.id, ToSet(R)) /\ IsPlan(x)
  BY <1>1, <1>2 DEF Reached, Account
<1>4. b.id \in Nat /\ Shown(b.id) = First(b.id, x, LineRow(k))
  BY <1>2, <1>3, ShownRows
<1>5. LineRow(k) = Len(R) /\ Len(R) = Len(x.cs) * Len(x.fs) /\ R \in Seq(Rows)
  BY <1>3, <1>4, PlanLine, PlanRow
<1>6. First(b.id, x, LineRow(k)) = ToSet(R)
  <2>0. R \in Seq(Rows)
    BY <1>5, Zenon
  <2>1. DOMAIN R = 1..Len(R)
    BY <2>0
  <2>2. First(b.id, x, LineRow(k)) = {R[p] : p \in 1..Len(R)}
    BY <1>5, Zenon DEF First
  <2>. QED BY <2>1, <2>2, Zenon DEF ToSet
<1>7. ~Stale(Groups(Shown(b.id)))
  BY <1>3, <1>4, <1>5, WholeIsJudged
<1>8. Judged(b.id, Shown(b.id)) = t
  BY <1>3, <1>4, <1>6, <1>7, JudgedAsFound
<1>. QED BY <1>1, <1>8, CachedIsJudged DEF Shown

\* Where the page names a winner, every candidate it compares has all its rows.
LEMMA PageWinnerSawAll == EvalInv => WinnerSawAll
<1>. SUFFICES ASSUME EvalInv, NEW b \in begun, Cached(file, b.id).winner # None,
                     NEW s \in Cached(file, b.id).summaries
              PROVE  s.total = Cardinality(b.fixtures)
  BY Zenon DEF WinnerSawAll
<1>1. PICK x, k : Reached(b, x, k)
  BY DEF EvalInv
<1>2. PICK rows : rows = Shown(b.id)
  OBVIOUS
<1>3. Cached(file, b.id) = Judged(b.id, rows)
  BY <1>2, CachedIsJudged DEF Shown
<1>4. ~Stale(Groups(rows))
  BY <1>3 DEF Judged, Comparison
<1>5. rows # {}
  <2>. SUFFICES ASSUME rows = {} PROVE FALSE
    OBVIOUS
  <2>1. Groups(rows) = {}
    BY DEF Groups
  <2>2. Cardinality({}) = 0
    BY FS_EmptySet
  <2>3. Cardinality(Groups(rows)) = 0
    BY <2>1, <2>2
  <2>4. Cardinality(Groups(rows)) < 2
    BY <2>3
  <2>. QED BY <1>4, <2>4, Zenon DEF Stale
<1>6. rows = First(b.id, x, LineRow(k)) /\ LineRow(k) \in 0..Len(x.cs) * Len(x.fs) /\ b.id \in Nat
  BY <1>1, <1>2, <1>5, ShownRows
<1>7. IsPlan(x) /\ b.fixtures = ToSet(x.fs)
  BY <1>1 DEF Reached
<1>8. PICK g \in Groups(rows) : s = CandidateSummary((CHOOSE r \in g : TRUE).cand, g)
  BY <1>3 DEF Judged, Comparison
<1>9. Cardinality(g) = Cardinality(ToSet(x.fs))
  BY <1>4, <1>6, <1>7, <1>8, JudgedIsWhole
<1>. QED BY <1>7, <1>8, <1>9 DEF CandidateSummary
-----------------------------------------------------------------------------
(* The newest evidence.                                                    *)

\* What Latest looks for.
NotBefore(r, s) == s.run[1] < r.run[1] \/ (s.run[1] = r.run[1] /\ s.run[2] <= r.run[2])

\* Some row has nothing after it: the one with the fewest rows at or above it.
LEMMA LatestExists ==
    ASSUME NEW rows, IsFiniteSet(rows), rows # {}, \A r \in rows : r.run \in Nat \X Nat
    PROVE  \E r \in rows : \A s \in rows : NotBefore(r, s)
<1>. DEFINE Up(r) == {s \in rows : NotBefore(s, r)}
            T == {Up(r) : r \in rows}
<1>1. IsWellFoundedOn(StrictSubsetOrdering(rows), SUBSET rows)
  BY FS_StrictSubsetOrderingWellFounded, FS_FiniteSubsetsOfFinite
<1>2. T \subseteq SUBSET rows /\ T # {}
  OBVIOUS
<1>3. PICK U \in T : \A V \in T : <<V, U>> \notin StrictSubsetOrdering(rows)
  <2>. HIDE DEF T
  <2>. QED BY <1>1, <1>2, WFMin
<1>4. PICK r \in rows : U = Up(r)
  OBVIOUS
<1>5. \A s \in rows : s.run[1] \in Nat /\ s.run[2] \in Nat
  OBVIOUS
<1>6. ASSUME NEW s \in rows PROVE NotBefore(r, s)
  <2>. SUFFICES ASSUME ~NotBefore(r, s) PROVE FALSE
    OBVIOUS
  <2>1. NotBefore(s, r)
    BY <1>5 DEF NotBefore
  <2>2. Up(s) \subseteq Up(r)
    BY <1>5, <2>1 DEF NotBefore
  <2>3. r \in Up(r) /\ r \notin Up(s)
    BY <1>5 DEF NotBefore
  <2>4. <<Up(s), Up(r)>> \in StrictSubsetOrdering(rows)
    BY <2>2, <2>3 DEF StrictSubsetOrdering
  <2>. QED BY <1>3, <1>4, <2>4
<1>. QED BY <1>6

\* A run is of one command and one candidate.
RunsNamed ==
    /\ \A i \in DOMAIN file : file[i].row.run[1] = file[i].row.id
    /\ \A i, j \in DOMAIN file :
          file[i].row.run = file[j].row.run => file[i].row.cand = file[j].row.cand

\* It follows from the batches, whose ids are of one command each.
LEMMA EvalRunsNamed == EvalInv => RunsNamed
<1>. SUFFICES ASSUME EvalInv PROVE RunsNamed
  OBVIOUS
<1>1. ASSUME NEW i \in DOMAIN file, NEW j \in DOMAIN file
      PROVE  /\ file[i].row.run[1] = file[i].row.id /\ file[j].row.run[1] = file[j].row.id
             /\ file[i].row.id = file[j].row.id /\ file[i].row.run = file[j].row.run
                   => file[i].row.cand = file[j].row.cand
  <2>1. \A l \in DOMAIN file : file[l].row \in Stored(file[l].row.id)
    BY DEF Stored
  <2>2. ASSUME NEW l \in DOMAIN file
        PROVE  LET S == Stored(file[l].row.id) IN
               /\ \A r \in S : r.run[1] = r.id
               /\ \A r, s \in S : r.run = s.run => r.cand = s.cand
    <3>1. PICK id : id = file[l].row.id
      OBVIOUS
    <3>2. PICK b \in begun : b.id = id
      BY <3>1 DEF EvalInv, Named, Ids
    <3>3. PICK x, k : Reached(b, x, k)
      BY DEF EvalInv
    <3>4. id \in Nat /\ IsPlan(x) /\ k \in 0..Len(PlanLines(id, x))
      BY <3>2, <3>3, FS_CardinalityType DEF EvalInv, Typed, Reached
    <3>5. /\ LineRow(k) \in 0..Len(PlanRows(id, x))
          /\ {PlanLines(id, x)[n].row : n \in 1..k} = First(id, x, LineRow(k))
      BY <3>4, PlanLine
    <3>6. Stored(id) = First(id, x, LineRow(k)) /\ LineRow(k) \in 0..Len(x.cs) * Len(x.fs)
      <4>1. Len(PlanRows(id, x)) = Len(x.cs) * Len(x.fs)
        BY <3>4, PlanRow
      <4>2. Stored(id) = {PlanLines(id, x)[n].row : n \in 1..k}
        BY <3>2, <3>3 DEF Reached
      <4>. QED BY <3>5, <4>1, <4>2
    <3>7. /\ \A r \in First(id, x, LineRow(k)) : r.run[1] = id /\ r.id = id
          /\ \A r, s \in First(id, x, LineRow(k)) : r.run = s.run => r.cand = s.cand
      <4>1. Fits(id, x, First(id, x, LineRow(k)))
        BY <3>4, <3>6, FirstRows
      <4>. QED BY <4>1 DEF Fits
    <3>. QED BY <3>1, <3>6, <3>7
  <2>. QED BY <2>1, <2>2
<1>. QED BY <1>1 DEF RunsNamed

\* Nothing that is in the file is ever changed or taken out.
LEMMA FileGrows ==
    ASSUME Typed, Next
    PROVE  \A i \in DOMAIN file : i \in DOMAIN file' /\ file'[i] = file[i]
<1>1. ASSUME NEW u \in Users, NEW n \in DOMAIN batch[u], Write(u, n)
      PROVE  \A i \in DOMAIN file : i \in DOMAIN file' /\ file'[i] = file[i]
  <2>1. file \in Seq(Lines) /\ batch[u] \in Seq(Lines) /\ n \in 1..Len(batch[u])
    BY DEF Typed
  <2>2. PICK part : part = SubSeq(batch[u], 1, n)
    OBVIOUS
  <2>3. part \in Seq(Lines)
    BY <2>1, <2>2, SubSeqProperties
  <2>4. file' = file \o part
    BY <1>1, <2>2 DEF Write
  <2>. QED BY <2>1, <2>3, <2>4
<1>2. ASSUME file' = file PROVE \A i \in DOMAIN file : i \in DOMAIN file' /\ file'[i] = file[i]
  BY <1>2
<1>3. \A u \in Users : Run(u) \/ Compare(u) \/ Stop(u) => file' = file
  BY DEF Run, Compare, Begin, Stop
<1>. QED BY <1>1, <1>2, <1>3 DEF Next

\* EvidenceMovesOn for one model.
EvidenceGoesOn(model) ==
    LET old == Evidence(file, model)  new == Evidence(file', model) IN
    /\ Cardinality({r.cand : r \in new}) <= 1
    /\ \A r \in old, s \in new : r.id <= s.id

\* The rows among which the newest is looked for only grow.
LEMMA EvidenceStep ==
    ASSUME Typed, Typed', RunsNamed, RunsNamed', Next, NEW model
    PROVE  EvidenceGoesOn(model)
<1>1. PICK f : f = file'
  OBVIOUS
<1>2. PICK e : e = file
  OBVIOUS
<1>. DEFINE Of2(g) == {r \in RowsIn(g) : r.cand.model = model}
            new == Evidence(f, model)  old == Evidence(e, model)
<1>3. /\ f \in Seq(Lines) /\ e \in Seq(Lines)
      /\ \A i \in DOMAIN e : i \in DOMAIN f /\ f[i] = e[i]
      /\ \A i \in DOMAIN f : f[i].row.run[1] = f[i].row.id
      /\ \A i, j \in DOMAIN f : f[i].row.run = f[j].row.run => f[i].row.cand = f[j].row.cand
  BY <1>1, <1>2, FileGrows DEF Typed, RunsNamed
<1>4. /\ \A r \in RowsIn(f) : r.run[1] = r.id /\ r.run \in Nat \X Nat /\ r.id \in Nat
      /\ \A r, s \in RowsIn(f) : r.run = s.run => r.cand = s.cand
  <2>1. \A i \in DOMAIN f : f[i].row \in Rows
    <3>1. \A i \in DOMAIN f : f[i] \in Lines
      BY <1>3
    <3>. QED BY <3>1 DEF Lines
  <2>2. \A r \in RowsIn(f) : \E i \in DOMAIN f : r = f[i].row
    BY DEF RowsIn
  <2>3. \A r \in RowsIn(f) : r \in Rows
    BY <2>1, <2>2
  <2>4. \A r \in RowsIn(f) : r.run[1] = r.id
    BY <1>3, <2>2
  <2>5. \A r, s \in RowsIn(f) : r.run = s.run => r.cand = s.cand
    BY <1>3, <2>2
  <2>6. \A r \in Rows : r.run \in Nat \X Nat /\ r.id \in Nat
    BY DEF Rows
  <2>. QED BY <2>3, <2>4, <2>5, <2>6
<1>5. IsFiniteSet(RowsIn(f))
  <2>1. IsFiniteSet({f[i].row : i \in DOMAIN f})
    <3>. DEFINE S == {f[i].row : i \in DOMAIN f}
                h == [i \in 1..Len(f) |-> f[i].row]
    <3>1. h \in Surjection(1..Len(f), S)
      <4>1. DOMAIN f = 1..Len(f)
        BY <1>3
      <4>2. h \in [1..Len(f) -> S]
        BY <4>1
      <4>3. \A y \in S : \E i \in 1..Len(f) : h[i] = y
        BY <4>1
      <4>. QED BY <4>2, <4>3 DEF Surjection
    <3>2. IsFiniteSet(1..Len(f))
      BY <1>3, FS_Interval
    <3>. HIDE DEF h, S
    <3>3. IsFiniteSet(S)
      BY <3>1, <3>2, FS_Surjection
    <3>. QED BY <3>3 DEF S
  <2>2. IsFiniteSet({})
    BY FS_EmptySet
  <2>. QED BY <2>1, <2>2 DEF RowsIn
<1>6. new \subseteq Of2(f) /\ old \subseteq Of2(e) /\ \A r, s \in new : r.run = s.run
  BY DEF Evidence
<1>7. Cardinality({r.cand : r \in new}) <= 1
  <2>1. \A r, s \in new : r.cand = s.cand
    BY <1>4, <1>6
  <2>2. CASE new = {}
    <3>1. {r.cand : r \in new} = {}
      BY <2>2
    <3>. QED BY <3>1, FS_EmptySet
  <2>3. CASE new # {}
    <3>1. PICK r : r \in new
      BY <2>3
    <3>. HIDE DEF new
    <3>2. {s.cand : s \in new} = {r.cand}
      BY <2>1, <3>1
    <3>3. Cardinality({r.cand}) = 1
      BY FS_Singleton
    <3>. QED BY <3>2, <3>3
  <2>. QED BY <2>2, <2>3
<1>8. ASSUME NEW r \in old, NEW s \in new PROVE r.id <= s.id
  <2>1. s \in Of2(f) /\ r \in Of2(e)
    BY <1>6
  <2>2. Readable(f) /\ Readable(e)
    BY <2>1 DEF RowsIn
  <2>3. RowsIn(e) \subseteq RowsIn(f)
    BY <1>3, <2>2 DEF RowsIn
  <2>4. r \in Of2(f)
    BY <2>1, <2>3
  <2>5. \E q \in Of2(f) : \A p \in Of2(f) : NotBefore(q, p)
    <3>1. IsFiniteSet(Of2(f))
      BY <1>5, FS_Subset
    <3>2. \A q \in Of2(f) : q.run \in Nat \X Nat
      BY <1>4
    <3>. HIDE DEF Of2
    <3>. QED BY <2>1, <3>1, <3>2, LatestExists
  <2>6. PICK q \in Of2(f) : /\ \A p \in Of2(f) : NotBefore(q, p)
                            /\ Latest(f, Of2(f)) = q.run
    <3>. DEFINE all == Of2(f)
                q == CHOOSE q \in all : \A p \in all : NotBefore(q, p)
    <3>. HIDE DEF all
    <3>1. \E p \in all : \A o \in all : NotBefore(p, o)
      BY <2>5 DEF all
    <3>2. q \in all /\ \A p \in all : NotBefore(q, p)
      BY <3>1
    <3>3. Latest(f, all) = q.run
      BY DEF Latest, NotBefore
    <3>. HIDE DEF q
    <3>. QED BY <3>2, <3>3 DEF all
  <2>7. s.run = q.run
    BY <2>1, <2>6 DEF Evidence
  <2>8. NotBefore(q, r)
    BY <2>4, <2>6
  <2>. QED BY <1>4, <2>1, <2>4, <2>7, <2>8 DEF NotBefore
<1>. HIDE DEF new, old
<1>. QED BY <1>1, <1>2, <1>7, <1>8 DEF EvidenceGoesOn, new, old
-----------------------------------------------------------------------------
(* Theorems.                                                               *)

\* The file has of each command the rows of the first lines of its batch and no others,
\* and what it told is what it found (_append_eval_results after the last answer).
THEOREM BatchesAccounted == Spec => []EvalInv
<1>. QED BY EvalInit, EvalNext, PTL DEF Spec

\* The page shows of a comparison what the command told of it, whatever other processes
\* write between its rows, and judges none of which rows are missing
\* (_comparison_summary_from_rows against execute_eval_comparison).
THEOREM PagesTrue == Spec => []PageIsTrue
<1>1. EvalInv => PageIsTrue
  BY PageCachedAsTold, PageWinnerSawAll DEF PageIsTrue
<1>. QED BY <1>1, BatchesAccounted, PTL

\* The evidence of a model is of one candidate, and no append puts an older run in the
\* place of a newer one (_latest_run_id).
THEOREM EvidenceNeverReturns == Spec => EvidenceMovesOn
<1>. DEFINE Grows == \A model \in {c.model : c \in Candidates} :
                        LET old == Evidence(file, model)  new == Evidence(file', model) IN
                        /\ Cardinality({r.cand : r \in new}) <= 1
                        /\ \A r \in old, s \in new : r.id <= s.id
<1>1. EvalInv => Typed /\ RunsNamed
  BY EvalRunsNamed DEF EvalInv
<1>2. Typed /\ Typed' /\ RunsNamed /\ RunsNamed' /\ [Next]_vars => [Grows]_vars
  <2>. SUFFICES ASSUME Typed, Typed', RunsNamed, RunsNamed', Next PROVE Grows
    OBVIOUS
  <2>. QED BY EvidenceStep DEF EvidenceGoesOn
<1>. HIDE DEF Grows
<1>3. Spec => [][Grows]_vars
  BY <1>1, <1>2, BatchesAccounted, PTL DEF Spec
<1>. QED BY <1>3, PTL DEF EvidenceMovesOn, Grows
=============================================================================
