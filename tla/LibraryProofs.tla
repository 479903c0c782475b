--------------------------- MODULE LibraryProofs ----------------------------
(***************************************************************************)
(* What the parts without a state of their own promise, of all inputs: the *)
(* action Next of MCLibrary chooses a case, and what a property says of    *)
(* cases of its kind is proved here of every prompt, every sequence of     *)
(* words, every backend and machine.  SetupProofs goes on with setup.      *)
(*                                                                         *)
(* Folds.  The induction theorems of the library take an operator for the  *)
(* predicate.  Here a predicate is the set of what satisfies it: a set of  *)
(* numbers without a least counterexample has all numbers (the order on    *)
(* Nat is well-founded), and induction on the cardinality does the same    *)
(* for finite sets.  A fold is a recursive function on the subsets of a    *)
(* finite set, which CHOOSE picks by its definition: there is one          *)
(* (FoldExists) and there are not two (FoldUnique), so what is known of    *)
(* any function that satisfies the definition is known of the fold.        *)
(*                                                                         *)
(* Prompts.  Their scores are sums of weights, rounded.  SumIs takes the   *)
(* sum out of the order in which it is folded, SaturateMonotone gets it    *)
(* through the rounding; what remains is which signals replace each other. *)
(* The scanners of the fast path are folds over the words: they are run    *)
(* side by side, word by word.                                             *)
(***************************************************************************)
EXTENDS MCLibrary, FiniteSetTheorems, WellFoundedInduction, TLAPS

-----------------------------------------------------------------------------
(* Induction over numbers and over finite sets.                            *)

\* A set of numbers that has 0 and the successor of each of its members has all of them.
LEMMA NatInduct ==
    ASSUME NEW S, 0 \in S, \A n \in Nat : n \in S => n + 1 \in S
    PROVE  Nat \subseteq S
<1> DEFINE T == Nat \ S
<1>1. T # {} => \E x \in T : \A y \in T : ~ (<<y, x>> \in OpToRel(<,Nat))
   BY NatLessThanWellFounded, WFMin
<1>2. ASSUME NEW x \in T, NEW y \in T, y < x PROVE <<y, x>> \in OpToRel(<,Nat)
   BY <1>2 DEF OpToRel
<1>3. SUFFICES ASSUME T # {} PROVE FALSE
  OBVIOUS
<1>4. PICK x \in T : \A y \in T : ~(y < x)
  BY <1>1, <1>2, <1>3
<1>5. x \in Nat /\ x # 0
  OBVIOUS
<1>6. x - 1 \in T
  BY <1>5
<1> QED
  BY <1>4, <1>5, <1>6

\* A family of finite sets that has the empty one, and every set of which it has those with
\* one element less, has all of them.
LEMMA FiniteInduct ==
    ASSUME NEW U, IsFiniteSet(U), NEW Q, {} \in Q,
           \A T \in SUBSET U : T # {} /\ (\A x \in T : T \ {x} \in Q) => T \in Q
    PROVE  SUBSET U \subseteq Q
<1> DEFINE S == {n \in Nat : \A T \in SUBSET U : Cardinality(T) = n => T \in Q}
<1>1. \A T \in SUBSET U : IsFiniteSet(T) /\ Cardinality(T) \in Nat
  BY FS_Subset, FS_CardinalityType
<1>2. 0 \in S
  BY <1>1, FS_EmptySet
<1>3. ASSUME NEW n \in Nat, n \in S PROVE n + 1 \in S
  <2>1. SUFFICES ASSUME NEW T \in SUBSET U, Cardinality(T) = n + 1 PROVE T \in Q
    OBVIOUS
  <2>2. T # {}
    BY <2>1, FS_EmptySet
  <2>3. ASSUME NEW x \in T PROVE T \ {x} \in Q
    <3>1. Cardinality(T \ {x}) = Cardinality(T) - 1
      BY <1>1, FS_RemoveElement
    <3> QED
      BY <3>1, <2>1, <1>3
  <2> QED
    BY <2>2, <2>3
<1>4. Nat \subseteq S
  <2> HIDE DEF S
  <2> QED
    BY <1>2, <1>3, NatInduct
<1> QED
  BY <1>1, <1>4

-----------------------------------------------------------------------------
(* Folds over a finite set, in any order that CHOOSE may pick.             *)

\* C chooses one element of every subset of U.
Chooses(C, U) == \A T \in SUBSET U : T # {} => C[T] \in T

\* g folds F over every subset of U, from base, in the order in which C chooses.
IsFold(g, U, base, C, F) ==
    \A T \in SUBSET U : g[T] = IF T = {} THEN base ELSE F[<<C[T], g[T \ {C[T]}]>>]

\* There is such a fold over the subsets of a finite set.
LEMMA FoldExists ==
    ASSUME NEW U, IsFiniteSet(U), NEW V, NEW base \in V,
           NEW C, Chooses(C, U), NEW F \in [U \X V -> V]
    PROVE  \E g \in [SUBSET U -> V] : IsFold(g, U, base, C, F)
<1> USE DEF Chooses, IsFold
<1> DEFINE Body(g, T) == IF T = {} THEN base ELSE F[<<C[T], g[T \ {C[T]}]>>]
           S == {n \in Nat : \E g \in [SUBSET U -> V] :
                    \A T \in SUBSET U : Cardinality(T) <= n => g[T] = Body(g, T)}
<1>1. \A T \in SUBSET U : IsFiniteSet(T) /\ Cardinality(T) \in Nat
  BY FS_Subset, FS_CardinalityType
<1>2. 0 \in S
  <2>1. [T \in SUBSET U |-> base] \in [SUBSET U -> V]
    OBVIOUS
  <2>2. \A T \in SUBSET U : Cardinality(T) <= 0 => T = {}
    BY <1>1, FS_EmptySet
  <2> QED
    BY <2>1, <2>2
<1>3. ASSUME NEW n \in Nat, n \in S PROVE n + 1 \in S
  <2>1. PICK g \in [SUBSET U -> V] : \A T \in SUBSET U : Cardinality(T) <= n => g[T] = Body(g, T)
    BY <1>3
  <2> DEFINE h == [T \in SUBSET U |-> Body(g, T)]
  <2>2. \A T \in SUBSET U : Body(g, T) \in V
    OBVIOUS
  <2>3. h \in [SUBSET U -> V] /\ \A T \in SUBSET U : h[T] = Body(g, T)
    BY <2>2
  <2>4. ASSUME NEW T \in SUBSET U, Cardinality(T) <= n + 1 PROVE h[T] = Body(h, T)
    <3>1. CASE T = {}
      BY <3>1
    <3>2. CASE T # {}
      <4> DEFINE R == T \ {C[T]}
      <4>1. C[T] \in T
        BY <3>2
      <4>2. Cardinality(R) = Cardinality(T) - 1
        BY <1>1, <4>1, FS_RemoveElement
      <4>3. R \in SUBSET U /\ Cardinality(R) <= n
        BY <1>1, <2>4, <4>2
      <4>4. g[R] = h[R]
        <5> HIDE DEF R, h, Body
        <5> QED
          BY <2>1, <2>3, <4>3
      <4>5. h[T] = Body(g, T)
        OBVIOUS
      <4> HIDE DEF h
      <4> QED
        BY <4>4, <4>5, <3>2
    <3> QED
      BY <3>1, <3>2
  <2>5. \E k \in [SUBSET U -> V] :
          \A T \in SUBSET U : Cardinality(T) <= n + 1 => k[T] = Body(k, T)
    <3> HIDE DEF h
    <3> QED
      BY <2>3, <2>4
  <2> HIDE DEF Body
  <2> QED
    BY <2>5
<1>4. Nat \subseteq S
  <2> HIDE DEF S
  <2> QED
    BY <1>2, <1>3, NatInduct
<1>5. Cardinality(U) \in S
  BY <1>1, <1>4
<1>6. PICK g \in [SUBSET U -> V] : \A T \in SUBSET U : Cardinality(T) <= Cardinality(U) => g[T] = Body(g, T)
  BY <1>5
<1>7. \A T \in SUBSET U : Cardinality(T) <= Cardinality(U)
  BY FS_Subset
<1> QED
  BY <1>6, <1>7

\* g and h agree on a set if they do without the element that C chooses.
SameStep(g, h, U, C) ==
    \A T \in SUBSET U : T # {} /\ g[T \ {C[T]}] = h[T \ {C[T]}] => g[T] = h[T]

\* Two folds that start the same and step the same are the same: what CHOOSE picks for a
\* recursive definition on finite sets is the function that satisfies it.
LEMMA FoldUnique ==
    ASSUME NEW U, IsFiniteSet(U), NEW g, NEW h, g[{}] = h[{}],
           NEW C, Chooses(C, U), SameStep(g, h, U, C)
    PROVE  \A T \in SUBSET U : g[T] = h[T]
<1> USE DEF Chooses, SameStep
<1> DEFINE Q == {T \in SUBSET U : g[T] = h[T]}
<1>1. {} \in Q
  OBVIOUS
<1>2. \A T \in SUBSET U : T # {} /\ (\A x \in T : T \ {x} \in Q) => T \in Q
  OBVIOUS
<1>3. SUBSET U \subseteq Q
  <2> HIDE DEF Q
  <2> QED
    BY <1>1, <1>2, FiniteInduct
<1> QED
  BY <1>3

-----------------------------------------------------------------------------
(* Folds along a sequence.                                                 *)

\* The element FoldLeft takes off next, a sequence's last place.
Greatest(T) == CHOOSE x \in T : \A y \in T : x >= y

\* Every set of places but the empty one has a greatest.
LEMMA GreatestIn ==
    ASSUME NEW n \in Nat, NEW T \in SUBSET (1..n), T # {}
    PROVE  Greatest(T) \in T /\ \A y \in T : Greatest(T) >= y
<1> DEFINE S == {m \in Nat : (\E x \in T : x <= m) => \E x \in T : \A y \in T : y <= m => x >= y}
<1>1. 0 \in S
  OBVIOUS
<1>2. ASSUME NEW m \in Nat, m \in S PROVE m + 1 \in S
  <2>1. CASE m + 1 \in T
    BY <2>1
  <2>2. CASE m + 1 \notin T
    <3>1. \A y \in T : y <= m + 1 => y <= m
      BY <2>2
    <3> QED
      BY <3>1, <1>2
  <2> QED
    BY <2>1, <2>2
<1>3. n \in S
  <2>1. Nat \subseteq S
    <3> HIDE DEF S
    <3> QED
      BY <1>1, <1>2, NatInduct
  <2> QED
    BY <2>1
<1>4. \A y \in T : y \in Nat /\ y <= n
  OBVIOUS
<1>5. \E x \in T : \A y \in T : x >= y
  BY <1>3, <1>4
<1> QED
  BY <1>5 DEF Greatest

\* The same of folds that run along a sequence's places.
Agree(g, h, n) ==
    \A T \in SUBSET (1..n) : T # {} /\ g[T \ {Greatest(T)}] = h[T \ {Greatest(T)}] => g[T] = h[T]

\* Two functions that start the same and take the same last step agree on a whole sequence.
LEMMA FoldsAgree ==
    ASSUME NEW n \in Nat, NEW g, NEW h, g[{}] = h[{}], Agree(g, h, n)
    PROVE  g[1..n] = h[1..n]
<1> DEFINE U == 1..n
           C == [T \in SUBSET U |-> Greatest(T)]
<1>1. IsFiniteSet(U)
  <2>1. 1 \in Int /\ n \in Int
    OBVIOUS
  <2> QED
    BY <2>1, FS_Interval
<1>2. Chooses(C, U)
  BY GreatestIn DEF Chooses
<1>3. SameStep(g, h, U, C)
  BY DEF Agree, SameStep
<1>4. \A T \in SUBSET U : g[T] = h[T]
  <2> HIDE DEF U, C
  <2> QED
    BY <1>1, <1>2, <1>3, FoldUnique
<1> QED
  BY <1>4

\* g is FoldLeft's fold over the places of a sequence, h its value after each of them.
FoldsAlong(g, h, n, base, F) ==
    /\ \A T \in SUBSET (1..n) :
         g[T] = IF T = {} THEN base ELSE F[<<Greatest(T), g[T \ {Greatest(T)}]>>]
    /\ h[0] = base
    /\ \A k \in 1..n : h[k] = F[<<k, h[k - 1]>>]
    /\ g[1..n] = h[n]

\* FoldLeft over a sequence is its last step: h is its value after each place, in order.
LEMMA FoldRun ==
    ASSUME NEW n \in Nat, NEW V, NEW base \in V, NEW F \in [(1..n) \X V -> V]
    PROVE  \E g \in [SUBSET (1..n) -> V], h \in [0..n -> V] : FoldsAlong(g, h, n, base, F)
<1> DEFINE U == 1..n
           C == [T \in SUBSET U |-> Greatest(T)]
<1>1. IsFiniteSet(U)
  <2>1. 1 \in Int /\ n \in Int
    OBVIOUS
  <2> QED
    BY <2>1, FS_Interval
<1>2. Chooses(C, U)
  BY GreatestIn DEF Chooses
<1>3. PICK g \in [SUBSET U -> V] : IsFold(g, U, base, C, F)
  <2> HIDE DEF C
  <2> QED
    BY <1>1, <1>2, FoldExists
<1> USE DEF IsFold
<1> DEFINE h == [k \in 0..n |-> g[1..k]]
<1>4. h \in [0..n -> V]
  <2>1. \A k \in 0..n : 1..k \in SUBSET U
    OBVIOUS
  <2> QED
    BY <2>1
<1>5. h[0] = base
  <2>1. 1..0 = {}
    OBVIOUS
  <2>2. g[{}] = base
    BY <1>3
  <2> QED
    BY <2>1, <2>2
<1>6. ASSUME NEW k \in 1..n PROVE h[k] = F[<<k, h[k - 1]>>]
  <2>1. 1..k \in SUBSET U /\ 1..k # {} /\ k \in 1..k
    OBVIOUS
  <2>2. Greatest(1..k) = k
    <3>1. Greatest(1..k) \in 1..k /\ Greatest(1..k) >= k
      BY <2>1, GreatestIn
    <3> QED
      BY <3>1
  <2>3. (1..k) \ {k} = 1..(k - 1)
    OBVIOUS
  <2>4. g[1..k] = F[<<k, g[1..(k - 1)]>>]
    <3>1. C[1..k] = k
      BY <2>1, <2>2
    <3> HIDE DEF C
    <3> QED
      BY <1>3, <2>1, <2>3, <3>1
  <2>5. k \in 0..n /\ k - 1 \in 0..n
    OBVIOUS
  <2> QED
    BY <2>4, <2>5
<1>7. \A T \in SUBSET U :
         g[T] = IF T = {} THEN base ELSE F[<<Greatest(T), g[T \ {Greatest(T)}]>>]
  BY <1>3
<1>8. g[1..n] = h[n]
  OBVIOUS
<1> HIDE DEF h
<1> QED
  BY <1>4, <1>5, <1>6, <1>7, <1>8 DEF FoldsAlong

-----------------------------------------------------------------------------
(* A small finite set.                                                     *)

\* A set of four is finite.
LEMMA FiniteFour ==
    ASSUME NEW a, NEW b, NEW c, NEW d
    PROVE  IsFiniteSet({a, b, c, d})
<1>1. IsFiniteSet({a}) /\ IsFiniteSet({b}) /\ IsFiniteSet({c}) /\ IsFiniteSet({d})
  BY FS_Singleton
<1>2. IsFiniteSet({a} \cup {b}) /\ IsFiniteSet({c} \cup {d})
  BY <1>1, FS_Union
<1>3. IsFiniteSet(({a} \cup {b}) \cup ({c} \cup {d}))
  BY <1>2, FS_Union
<1>4. ({a} \cup {b}) \cup ({c} \cup {d}) = {a, b, c, d}
  OBVIOUS
<1> QED
  BY <1>3, <1>4

-----------------------------------------------------------------------------
(* Least members.                                                          *)

\* A strict order of the members of U.
IsOrder(R, U) ==
    /\ \A x \in U : <<x, x>> \notin R
    /\ \A x, y, z \in U : <<x, y>> \in R /\ <<y, z>> \in R => <<x, z>> \in R

\* A nonempty part of a finite set has a least member, as ranks and scores do.
LEMMA MinimalIn ==
    ASSUME NEW U, IsFiniteSet(U), NEW R, IsOrder(R, U), NEW T \in SUBSET U, T # {}
    PROVE  \E x \in T : \A y \in T : <<y, x>> \notin R
<1> USE DEF IsOrder
<1> DEFINE Q == {S \in SUBSET U : S # {} => \E x \in S : \A y \in S : <<y, x>> \notin R}
<1>1. {} \in Q
  OBVIOUS
<1>2. ASSUME NEW S \in SUBSET U, S # {}, \A x \in S : S \ {x} \in Q PROVE S \in Q
  <2>1. PICK x \in S : TRUE
    BY <1>2
  <2>2. CASE S \ {x} = {}
    BY <2>1, <2>2
  <2>3. CASE S \ {x} # {}
    <3>1. PICK z \in S \ {x} : \A y \in S \ {x} : <<y, z>> \notin R
      BY <1>2, <2>1, <2>3
    <3>2. CASE <<x, z>> \notin R
      BY <3>1, <3>2
    <3>3. CASE <<x, z>> \in R
      <4>1. \A y \in S \ {x} : <<y, x>> \notin R
        BY <3>1, <3>3, <2>1
      <4> QED
        BY <4>1, <2>1
    <3> QED
      BY <3>2, <3>3
  <2> QED
    BY <2>2, <2>3
<1>3. SUBSET U \subseteq Q
  <2> HIDE DEF Q
  <2> QED
    BY <1>1, <1>2, FiniteInduct
<1> QED
  BY <1>3

-----------------------------------------------------------------------------
(* The members of sequences that are written down or concatenated.         *)

\* The members of a sequence.
Elements(s) == {s[i] : i \in DOMAIN s}

\* A concatenation has the members of both.
LEMMA ElementsOfBoth ==
    ASSUME NEW S, NEW s \in Seq(S), NEW t \in Seq(S)
    PROVE  s \o t \in Seq(S) /\ Elements(s \o t) = Elements(s) \cup Elements(t)
<1>1. /\ DOMAIN (s \o t) = 1..(Len(s) + Len(t)) /\ DOMAIN s = 1..Len(s) /\ DOMAIN t = 1..Len(t)
      /\ Len(s) \in Nat /\ Len(t) \in Nat
      /\ \A i \in 1..(Len(s) + Len(t)) : (s \o t)[i] = IF i <= Len(s) THEN s[i] ELSE t[i - Len(s)]
  OBVIOUS
<1>2. ASSUME NEW x \in Elements(s \o t) PROVE x \in Elements(s) \cup Elements(t)
  <2>1. PICK i \in 1..(Len(s) + Len(t)) : x = (s \o t)[i]
    BY <1>1, <1>2 DEF Elements
  <2>2. CASE i <= Len(s)
    BY <1>1, <2>1, <2>2 DEF Elements
  <2>3. CASE i > Len(s)
    <3>1. i - Len(s) \in 1..Len(t) /\ x = t[i - Len(s)]
      BY <1>1, <2>1, <2>3
    <3> QED
      BY <1>1, <3>1 DEF Elements
  <2> QED
    BY <1>1, <2>2, <2>3
<1>3. ASSUME NEW x \in Elements(s) PROVE x \in Elements(s \o t)
  <2>1. PICK i \in 1..Len(s) : x = s[i]
    BY <1>1, <1>3 DEF Elements
  <2>2. i \in 1..(Len(s) + Len(t)) /\ (s \o t)[i] = x
    BY <1>1, <2>1
  <2> QED
    BY <1>1, <2>2 DEF Elements
<1>4. ASSUME NEW x \in Elements(t) PROVE x \in Elements(s \o t)
  <2>1. PICK i \in 1..Len(t) : x = t[i]
    BY <1>1, <1>4 DEF Elements
  <2>2. i + Len(s) \in 1..(Len(s) + Len(t)) /\ (s \o t)[i + Len(s)] = x
    BY <1>1, <2>1
  <2> QED
    BY <1>1, <2>2 DEF Elements
<1>5. s \o t \in Seq(S)
  OBVIOUS
<1> QED
  BY <1>2, <1>3, <1>4, <1>5

\* The elements of a short sequence.
LEMMA ElementsOfNone ==
    ASSUME NEW P
    PROVE  Elements(<<>>) = {} /\ <<>> \in Seq(P)
BY DEF Elements

\* One member.
LEMMA ElementsOfOne ==
    ASSUME NEW P, NEW a \in P
    PROVE  Elements(<<a>>) = {a} /\ <<a>> \in Seq(P)
<1> DEFINE s == <<a>>
<1>1. DOMAIN s = {1} /\ s \in Seq(P) /\ s[1] = a
  OBVIOUS
<1> HIDE DEF s
<1>2. Elements(s) = {a}
  BY <1>1 DEF Elements
<1> QED
  BY <1>1, <1>2 DEF s

\* Two.
LEMMA ElementsOfTwo ==
    ASSUME NEW P, NEW a \in P, NEW b \in P
    PROVE  Elements(<<a, b>>) = {a, b} /\ <<a, b>> \in Seq(P)
<1> DEFINE s == <<a, b>>
<1>1. DOMAIN s = {1, 2} /\ s \in Seq(P) /\ s[1] = a /\ s[2] = b
  OBVIOUS
<1> HIDE DEF s
<1>2. Elements(s) = {a, b}
  BY <1>1 DEF Elements
<1> QED
  BY <1>1, <1>2 DEF s

\* Three.
LEMMA ElementsOfThree ==
    ASSUME NEW P, NEW a \in P, NEW b \in P, NEW c \in P
    PROVE  Elements(<<a, b, c>>) = {a, b, c} /\ <<a, b, c>> \in Seq(P)
<1> DEFINE s == <<a, b, c>>
<1>1. DOMAIN s = {1, 2, 3} /\ s \in Seq(P) /\ s[1] = a /\ s[2] = b /\ s[3] = c
  OBVIOUS
<1> HIDE DEF s
<1>2. Elements(s) = {a, b, c}
  BY <1>1 DEF Elements
<1> QED
  BY <1>1, <1>2 DEF s

\* Four.
LEMMA ElementsOfFour ==
    ASSUME NEW P, NEW a \in P, NEW b \in P, NEW c \in P, NEW d \in P
    PROVE  Elements(<<a, b, c, d>>) = {a, b, c, d} /\ <<a, b, c, d>> \in Seq(P)
<1> DEFINE s == <<a, b, c, d>>
<1>1. DOMAIN s = {1, 2, 3, 4} /\ s \in Seq(P) /\ s[1] = a /\ s[2] = b /\ s[3] = c /\ s[4] = d
  OBVIOUS
<1> HIDE DEF s
<1>2. Elements(s) = {a, b, c, d}
  BY <1>1 DEF Elements
<1> QED
  BY <1>1, <1>2 DEF s
-----------------------------------------------------------------------------
(* The scanners of the fast path (policy.py).                              *)

\* What _fast_confirmation_action_mask (policy.py) has after each word.
Masks == [found : SUBSET Prompt!ActionPatterns, pending : {"apply", "message", "book", None}]
NoMask == [found |-> {}, pending |-> None]

\* A word takes the scanner from one such state to another.
LEMMA MaskType ==
    ASSUME NEW t \in Masks, NEW w \in Prompt!WordKinds
    PROVE  Prompt!Scanned(t, w) \in Masks
BY DEF Masks, Prompt!Scanned, Prompt!Waits, Prompt!Completed, Prompt!If, Prompt!ActionOf,
       Prompt!ActionWords, Prompt!ActionPatterns, Prompt!WordKinds

\* h is the state of _fast_confirmation_action_mask after each word of s.
MaskRun(h, s) ==
    /\ h[0] = NoMask
    /\ \A k \in 1..Len(s) : h[k] = Prompt!Scanned(h[k - 1], s[k])
    /\ h[Len(s)].found = Prompt!ActionMask(s)

\* _fast_confirmation_action_mask, a fold over the words, is the last of such a run.
LEMMA MaskSteps ==
    ASSUME NEW s \in Seq(Prompt!WordKinds)
    PROVE  \E h \in [0..Len(s) -> Masks] : MaskRun(h, s)
<1> DEFINE n == Len(s)
           U == 1..n
           F == [p \in (1..n) \X Masks |-> Prompt!Scanned(p[2], s[p[1]])]
           Def(g) == [T \in SUBSET DOMAIN s |-> IF T = {} THEN NoMask
                        ELSE Prompt!Scanned(g[T \ {Greatest(T)}], s[Greatest(T)])]
           iter == CHOOSE g : g = Def(g)
<1>1. n \in Nat /\ DOMAIN s = U /\ NoMask \in Masks
  BY DEF NoMask, Masks
<1>2. F \in [(1..n) \X Masks -> Masks]
  BY MaskType
<1>3. PICK g \in [SUBSET (1..n) -> Masks], h \in [0..n -> Masks] : FoldsAlong(g, h, n, NoMask, F)
  <2> HIDE DEF F, n
  <2> QED
    BY <1>1, <1>2, FoldRun
<1>4. \A T \in SUBSET U : T # {} => Greatest(T) \in T
  BY <1>1, GreatestIn
<1>5. g = Def(g)
  <2>1. ASSUME NEW T \in SUBSET U
        PROVE  g[T] = IF T = {} THEN NoMask ELSE Prompt!Scanned(g[T \ {Greatest(T)}], s[Greatest(T)])
    <3>1. g[T] = IF T = {} THEN NoMask ELSE F[<<Greatest(T), g[T \ {Greatest(T)}]>>]
      BY <1>3 DEF FoldsAlong
    <3>2. T # {} => <<Greatest(T), g[T \ {Greatest(T)}]>> \in (1..n) \X Masks
      BY <1>4
    <3> QED
      BY <3>1, <3>2
  <2> QED
    BY <1>1, <2>1
<1>6. iter = Def(iter)
  <2> HIDE DEF Def
  <2> QED
    BY <1>5
<1>7. iter[1..n] = g[1..n]
  <2>1. g[{}] = NoMask /\ iter[{}] = NoMask
    <3> HIDE DEF iter
    <3> QED
      BY <1>1, <1>5, <1>6
  <2>2. ASSUME NEW T \in SUBSET (1..n), T # {}, iter[T \ {Greatest(T)}] = g[T \ {Greatest(T)}]
        PROVE  iter[T] = g[T]
    <3>1. iter[T] = Prompt!Scanned(iter[T \ {Greatest(T)}], s[Greatest(T)])
      <4> HIDE DEF iter
      <4> QED
        BY <1>1, <1>6, <2>2
    <3>2. g[T] = Prompt!Scanned(g[T \ {Greatest(T)}], s[Greatest(T)])
      <4> HIDE DEF iter
      <4> QED
        BY <1>1, <1>5, <2>2
    <3> QED
      BY <3>1, <3>2, <2>2
  <2>3. Agree(iter, g, n)
    <3> HIDE DEF iter, n
    <3> QED
      BY <2>2 DEF Agree
  <2> HIDE DEF iter, n
  <2> QED
    BY <1>1, <2>1, <2>3, FoldsAgree
<1>8. Prompt!ActionMask(s) = iter[DOMAIN s].found
  BY DEF Prompt!ActionMask, Prompt!FoldLeft, Prompt!MapThenFoldSet, Prompt!Max, Greatest, NoMask
<1>9. Prompt!ActionMask(s) = h[n].found
  <2> HIDE DEF iter
  <2> QED
    BY <1>1, <1>3, <1>7, <1>8 DEF FoldsAlong
<1>10. ASSUME NEW k \in 1..n PROVE h[k] = Prompt!Scanned(h[k - 1], s[k])
  <2>1. h[k] = F[<<k, h[k - 1]>>]
    BY <1>3 DEF FoldsAlong
  <2>2. <<k, h[k - 1]>> \in (1..n) \X Masks
    BY <1>1
  <2> QED
    BY <2>1, <2>2
<1> QED
  BY <1>3, <1>9, <1>10 DEF MaskRun, FoldsAlong

\* One word of a run: nothing found is lost.
LEMMA MaskStep ==
    ASSUME NEW s \in Seq(Prompt!WordKinds), NEW h \in [0..Len(s) -> Masks], MaskRun(h, s), NEW k \in 1..Len(s)
    PROVE  /\ h[k - 1] \in Masks /\ h[k] \in Masks /\ s[k] \in Prompt!WordKinds
           /\ h[k - 1].found \subseteq h[k].found
           /\ h[k] = Prompt!Scanned(h[k - 1], s[k])
  BY DEF MaskRun, Prompt!Scanned, Masks

\* What is found at a word is found in the end.
LEMMA MaskGrows ==
    ASSUME NEW s \in Seq(Prompt!WordKinds), NEW h \in [0..Len(s) -> Masks], MaskRun(h, s), NEW i \in 0..Len(s)
    PROVE  h[i].found \subseteq Prompt!ActionMask(s)
<1> DEFINE n == Len(s)
           S == {k \in Nat : k <= n - i => h[i].found \subseteq h[i + k].found}
<1>1. n \in Nat
  OBVIOUS
<1>2. 0 \in S
  BY <1>1
<1>3. ASSUME NEW k \in Nat, k \in S PROVE k + 1 \in S
  <2>1. SUFFICES ASSUME k + 1 <= n - i PROVE h[i].found \subseteq h[i + (k + 1)].found
    OBVIOUS
  <2>2. i + k + 1 \in 1..n
    BY <2>1, <1>1
  <2>3. h[i + k].found \subseteq h[i + k + 1].found
    BY <2>2, MaskStep
  <2> QED
    BY <1>3, <2>1, <2>3, <1>1
<1>4. n - i \in S
  <2>1. Nat \subseteq S
    <3> HIDE DEF S
    <3> QED
      BY <1>2, <1>3, NatInduct
  <2> QED
    BY <2>1, <1>1
<1>5. i + (n - i) = n /\ n - i <= n - i
  BY <1>1
<1> QED
  BY <1>4, <1>5 DEF MaskRun

\* Every action that a pattern matches is in the mask: a word that begins one waits for the
\* word that completes it.
LEMMA MaskComplete ==
    ASSUME NEW s \in Seq(Prompt!WordKinds) PROVE Prompt!Matches(s) \subseteq Prompt!ActionMask(s)
<1> DEFINE n == Len(s)
<1>1. n \in Nat /\ \A i \in 1..n : s[i] \in Prompt!WordKinds
  OBVIOUS
<1>2. PICK h \in [0..n -> Masks] : MaskRun(h, s)
  BY MaskSteps
<1>3. ASSUME NEW x, NEW k \in 1..n, x \in h[k].found PROVE x \in Prompt!ActionMask(s)
  BY <1>1, <1>2, <1>3, MaskGrows
<1>4. ASSUME NEW k \in 1..n, s[k] \in Prompt!ActionWords PROVE Prompt!ActionOf(s[k]) \in h[k].found
  <2>1. ~Prompt!Waits(h[k - 1], s[k])
    BY <1>4 DEF Prompt!Waits, Prompt!ActionWords, Prompt!ActionPatterns
  <2>2. h[k] = Prompt!Scanned(h[k - 1], s[k])
    BY <1>2, MaskStep
  <2> QED
    BY <1>4, <2>1, <2>2 DEF Prompt!Scanned
<1>5. ASSUME NEW k \in 1..n, s[k] \in {"apply", "message", "book"} PROVE h[k].pending = s[k]
  <2>1. ~Prompt!Waits(h[k - 1], s[k])
    BY <1>5 DEF Prompt!Waits
  <2>2. h[k] = Prompt!Scanned(h[k - 1], s[k])
    BY <1>2, MaskStep
  <2> QED
    BY <1>5, <2>1, <2>2 DEF Prompt!Scanned
<1>6. ASSUME NEW k \in 1..n, k + 1 \in 1..n, ~Prompt!Waits(h[k], s[k + 1])
      PROVE  Prompt!Completed(h[k].pending, s[k + 1]) \subseteq h[k + 1].found
  <2>1. h[k + 1] = Prompt!Scanned(h[k], s[k + 1])
    BY <1>2, <1>6, MaskStep
  <2> QED
    BY <1>6, <2>1 DEF Prompt!Scanned
<1>7. ASSUME NEW k \in 1..n, k + 1 \in 1..n, Prompt!Waits(h[k], s[k + 1]) PROVE h[k + 1] = h[k]
  <2>1. h[k + 1] = Prompt!Scanned(h[k], s[k + 1])
    BY <1>2, <1>7, MaskStep
  <2> QED
    BY <1>7, <2>1 DEF Prompt!Scanned
<1>8. ASSUME NEW x \in Prompt!ActionPatterns, NEW k \in 1..n, s[k] = x PROVE x \in Prompt!ActionMask(s)
  BY <1>3, <1>4, <1>8 DEF Prompt!ActionOf, Prompt!ActionWords, Prompt!ActionPatterns
<1>9. Prompt!Follows(s, "message", Prompt!WordKinds \ {"benign"}) => "send" \in Prompt!ActionMask(s)
  <2>1. SUFFICES ASSUME NEW k \in 1..(n - 1), s[k] = "message", s[k
       + 1] # "benign" PROVE "send" \in Prompt!ActionMask(s)
    BY <1>1 DEF Prompt!Follows
  <2>2. k \in 1..n /\ k + 1 \in 1..n /\ h[k].pending = "message"
    BY <1>1, <1>5, <2>1
  <2>3. "send" \in h[k + 1].found
    BY <2>1, <2>2, <1>6 DEF Prompt!Waits, Prompt!Completed, Prompt!If
  <2> QED
    BY <2>2, <2>3, <1>3
<1>10. Prompt!Follows(s, "apply", {"for"}) => "impact" \in Prompt!ActionMask(s)
  <2>1. SUFFICES ASSUME NEW k \in 1..(n - 1), s[k] = "apply", s[k + 1] = "for" PROVE "impact" \in Prompt!ActionMask(s)
    BY <1>1 DEF Prompt!Follows
  <2>2. k \in 1..n /\ k + 1 \in 1..n /\ h[k].pending = "apply"
    BY <1>1, <1>5, <2>1
  <2>3. "impact" \in h[k + 1].found
    BY <2>1, <2>2, <1>6 DEF Prompt!Waits, Prompt!Completed, Prompt!If
  <2> QED
    BY <2>2, <2>3, <1>3
<1>11. Prompt!Follows(s, "book", {"object"}) => "purchase" \in Prompt!ActionMask(s)
  <2>1. SUFFICES ASSUME NEW k \in 1..(n - 1), s[k] = "book", s[k
       + 1] = "object" PROVE "purchase" \in Prompt!ActionMask(s)
    BY <1>1 DEF Prompt!Follows
  <2>2. k \in 1..n /\ k + 1 \in 1..n /\ h[k].pending = "book"
    BY <1>1, <1>5, <2>1
  <2>3. "purchase" \in h[k + 1].found
    BY <2>1, <2>2, <1>6 DEF Prompt!Waits, Prompt!Completed, Prompt!If
  <2> QED
    BY <2>2, <2>3, <1>3
<1>12. (\E i \in 1 .. n - 2 : SubSeq(s, i, i + 2) = <<"book", "article", "object">>)
     => "purchase" \in Prompt!ActionMask(s)
  <2>1. SUFFICES ASSUME NEW i \in 1..(n - 2), SubSeq(s, i, i + 2) = <<"book", "article", "object">>
                 PROVE "purchase" \in Prompt!ActionMask(s)
    OBVIOUS
  <2>2. SubSeq(s, i, i + 2)[1] = s[i] /\ SubSeq(s, i, i + 2)[2] = s[i + 1] /\ SubSeq(s, i, i + 2)[3] = s[i + 2]
    BY <1>1
  <2>3. s[i] = "book" /\ s[i + 1] = "article" /\ s[i + 2] = "object"
    BY <2>1, <2>2
  <2>4. i \in 1..n /\ i + 1 \in 1..n /\ i + 2 \in 1..n /\ (i + 1) + 1 = i + 2
    BY <1>1
  <2>5. h[i + 1].pending = "book"
    BY <2>3, <2>4, <1>5, <1>7 DEF Prompt!Waits
  <2>6. "purchase" \in h[i + 2].found
    BY <2>3, <2>4, <2>5, <1>6 DEF Prompt!Waits, Prompt!Completed, Prompt!If
  <2> QED
    BY <2>4, <2>6, <1>3
<1>13. Prompt!Has(s, "order") => "purchase" \in Prompt!ActionMask(s)
  <2>1. SUFFICES ASSUME NEW k \in 1..n, s[k] = "order" PROVE "purchase" \in Prompt!ActionMask(s)
    BY <1>1 DEF Prompt!Has, Prompt!ToSet
  <2> QED
    BY <2>1, <1>3, <1>4 DEF Prompt!ActionOf, Prompt!ActionWords
<1>14. Prompt!ToSet(s) \cap Prompt!ActionPatterns \subseteq Prompt!ActionMask(s)
  BY <1>1, <1>8 DEF Prompt!ToSet
<1> QED
  BY <1>9, <1>10, <1>11, <1>12, <1>13, <1>14 DEF Prompt!Matches, Prompt!If

\* The mask has no other action, but for a purchase, whose patterns ask for an object.
LEMMA MaskSound ==
    ASSUME NEW s \in Seq(Prompt!WordKinds)
    PROVE  Prompt!ActionMask(s) \subseteq Prompt!Matches(s) \cup {"purchase"}
<1> DEFINE n == Len(s)
           ok == Prompt!Matches(s) \cup {"purchase"}
<1>1. n \in Nat /\ \A i \in 1..n : s[i] \in Prompt!WordKinds
  OBVIOUS
<1>2. PICK h \in [0..n -> Masks] : MaskRun(h, s)
  BY MaskSteps
<1> DEFINE Good(k) == /\ h[k].found \subseteq ok
                      /\ h[k].pending \in {"apply", "message"} => k > 0 /\ s[k] = h[k].pending
           T == {k \in Nat : k <= n => Good(k)}
<1>3. 0 \in T
  BY <1>2, NoneAssumption DEF MaskRun, NoMask
<1>4. ASSUME NEW j \in Nat, j \in T PROVE j + 1 \in T
  <2> DEFINE k == j + 1
             w == s[j + 1]
  <2>1. SUFFICES ASSUME k <= n PROVE Good(k)
    OBVIOUS
  <2>2. k \in 1..n /\ Good(j)
    BY <1>1, <1>4, <2>1
  <2>3. h[k] = Prompt!Scanned(h[j], w) /\ w \in Prompt!WordKinds
    BY <1>2, <2>2, MaskStep
  <2>4. CASE Prompt!Waits(h[j], w)
    BY <2>2, <2>3, <2>4 DEF Prompt!Scanned, Prompt!Waits
  <2>5. CASE ~Prompt!Waits(h[j], w)
    <3>1. h[k].pending = (IF w \in {"apply", "message", "book"} THEN w ELSE None)
      BY <2>3, <2>5 DEF Prompt!Scanned
    <3>2. h[k].found = h[j].found \cup Prompt!Completed(h[j].pending, w)
                        \cup (IF w \in Prompt!ActionWords THEN {Prompt!ActionOf(w)} ELSE {})
      BY <2>3, <2>5 DEF Prompt!Scanned
    <3>3. w \in Prompt!ActionWords => Prompt!ActionOf(w) \in ok
      <4>1. w = "order" => Prompt!ActionOf(w) = "purchase"
        BY DEF Prompt!ActionOf
      <4>2. w \in Prompt!ActionPatterns => Prompt!ActionOf(w) = w /\ w \in Prompt!ToSet(s)
        BY <1>1, <2>2 DEF Prompt!ActionOf, Prompt!ToSet, Prompt!ActionPatterns
      <4> QED
        BY <4>1, <4>2 DEF Prompt!Matches, Prompt!ActionWords
    <3>4. "impact" \in Prompt!Completed(h[j].pending, w) => "impact" \in ok
      <4>1. SUFFICES ASSUME h[j].pending = "apply", w = "for" PROVE "impact" \in ok
        BY DEF Prompt!Completed, Prompt!If
      <4>2. j \in 1 .. n - 1 /\ s[j] = "apply"
        BY <1>1, <2>1, <2>2, <4>1
      <4>3. Prompt!Follows(s, "apply", {"for"})
        BY <4>1, <4>2 DEF Prompt!Follows
      <4> QED
        BY <4>3 DEF Prompt!Matches, Prompt!If
    <3>5. "send" \in Prompt!Completed(h[j].pending, w) => "send" \in ok
      <4>1. SUFFICES ASSUME h[j].pending = "message", w # "benign" PROVE "send" \in ok
        BY DEF Prompt!Completed, Prompt!If
      <4>2. j \in 1 .. n - 1 /\ s[j] = "message"
        BY <1>1, <2>1, <2>2, <4>1
      <4>3. Prompt!Follows(s, "message", Prompt!WordKinds \ {"benign"})
        BY <2>3, <4>1, <4>2 DEF Prompt!Follows
      <4> QED
        BY <4>3 DEF Prompt!Matches, Prompt!If
    <3>6. Prompt!Completed(h[j].pending, w) \subseteq {"impact", "send", "purchase"}
      BY DEF Prompt!Completed, Prompt!If
    <3>7. h[k].found \subseteq ok
      <4> HIDE DEF w
      <4> QED
        BY <2>2, <3>2, <3>3, <3>4, <3>5, <3>6
    <3>8. h[k].pending \in {"apply", "message"} => k > 0 /\ s[k] = h[k].pending
      BY <3>1, NoneAssumption
    <3> QED
      BY <3>7, <3>8
  <2> QED
    BY <2>4, <2>5
<1>5. n \in T
  <2>1. Nat \subseteq T
    <3> HIDE DEF T
    <3> QED
      BY <1>3, <1>4, NatInduct
  <2> QED
    BY <2>1, <1>1
<1> QED
  BY <1>1, <1>2, <1>5 DEF MaskRun

\* What _fast_has_confirmation_word (policy.py) has after each word.
Notices == [hit : BOOLEAN, pending : {"apply", "message", "book", None}]
NoNotice == [hit |-> FALSE, pending |-> None]

\* h is the state of _fast_has_confirmation_word after each word of s.
NoticeRun(h, s) ==
    /\ h[0] = NoNotice
    /\ \A k \in 1..Len(s) : h[k] = Prompt!Noticed(h[k - 1], s[k])
    /\ h[Len(s)].hit = Prompt!HasConfirmationWord(s)

\* _fast_has_confirmation_word is the last of a run of such states.
LEMMA NoticeSteps ==
    ASSUME NEW s \in Seq(Prompt!WordKinds)
    PROVE  \E h \in [0..Len(s) -> Notices] : NoticeRun(h, s)
<1> DEFINE n == Len(s)
           U == 1..n
           F == [p \in (1..n) \X Notices |-> Prompt!Noticed(p[2], s[p[1]])]
           Def(g) == [T \in SUBSET DOMAIN s |-> IF T = {} THEN NoNotice
                        ELSE Prompt!Noticed(g[T \ {Greatest(T)}], s[Greatest(T)])]
           iter == CHOOSE g : g = Def(g)
<1>1. n \in Nat /\ DOMAIN s = U /\ NoNotice \in Notices
  BY DEF NoNotice, Notices
<1>2. F \in [(1..n) \X Notices -> Notices]
  <2>1. ASSUME NEW t \in Notices, NEW w \in Prompt!WordKinds PROVE Prompt!Noticed(t, w) \in Notices
    BY DEF Notices, Prompt!Noticed, Prompt!Waits
  <2> QED
    BY <2>1
<1>3. PICK g \in [SUBSET (1..n) -> Notices], h \in [0..n -> Notices] : FoldsAlong(g, h, n, NoNotice, F)
  <2> HIDE DEF F, n
  <2> QED
    BY <1>1, <1>2, FoldRun
<1>4. \A T \in SUBSET U : T # {} => Greatest(T) \in T
  BY <1>1, GreatestIn
<1>5. g = Def(g)
  <2>1. ASSUME NEW T \in SUBSET U
        PROVE  g[T] = IF T = {} THEN NoNotice ELSE Prompt!Noticed(g[T \ {Greatest(T)}], s[Greatest(T)])
    <3>1. g[T] = IF T = {} THEN NoNotice ELSE F[<<Greatest(T), g[T \ {Greatest(T)}]>>]
      BY <1>3 DEF FoldsAlong
    <3>2. T # {} => <<Greatest(T), g[T \ {Greatest(T)}]>> \in (1..n) \X Notices
      BY <1>4
    <3> QED
      BY <3>1, <3>2
  <2> QED
    BY <1>1, <2>1
<1>6. iter = Def(iter)
  <2> HIDE DEF Def
  <2> QED
    BY <1>5
<1>7. iter[1..n] = g[1..n]
  <2>1. g[{}] = NoNotice /\ iter[{}] = NoNotice
    <3> HIDE DEF iter
    <3> QED
      BY <1>1, <1>5, <1>6
  <2>2. ASSUME NEW T \in SUBSET (1..n), T # {}, iter[T \ {Greatest(T)}] = g[T \ {Greatest(T)}]
        PROVE  iter[T] = g[T]
    <3> HIDE DEF iter
    <3>1. iter[T] = Prompt!Noticed(iter[T \ {Greatest(T)}], s[Greatest(T)])
      BY <1>1, <1>6, <2>2
    <3>2. g[T] = Prompt!Noticed(g[T \ {Greatest(T)}], s[Greatest(T)])
      BY <1>1, <1>5, <2>2
    <3> QED
      BY <3>1, <3>2, <2>2
  <2>3. Agree(iter, g, n)
    <3> HIDE DEF iter, n
    <3> QED
      BY <2>2 DEF Agree
  <2> HIDE DEF iter, n
  <2> QED
    BY <1>1, <2>1, <2>3, FoldsAgree
<1>8. Prompt!HasConfirmationWord(s) = iter[DOMAIN s].hit
  BY DEF Prompt!HasConfirmationWord, Prompt!FoldLeft, Prompt!MapThenFoldSet, Prompt!Max, Greatest, NoNotice
<1>9. Prompt!HasConfirmationWord(s) = h[n].hit
  <2> HIDE DEF iter
  <2> QED
    BY <1>1, <1>3, <1>7, <1>8 DEF FoldsAlong
<1>10. ASSUME NEW k \in 1..n PROVE h[k] = Prompt!Noticed(h[k - 1], s[k])
  <2>1. h[k] = F[<<k, h[k - 1]>>]
    BY <1>3 DEF FoldsAlong
  <2>2. <<k, h[k - 1]>> \in (1..n) \X Notices
    BY <1>1
  <2> QED
    BY <2>1, <2>2
<1> QED
  BY <1>3, <1>9, <1>10 DEF NoticeRun, FoldsAlong

\* The two scanners run side by side: one hits exactly when the other finds something.
LEMMA BothNotice ==
    ASSUME NEW s \in Seq(Prompt!WordKinds)
    PROVE  Prompt!HasConfirmationWord(s) <=> Prompt!ActionMask(s) # {}
<1> DEFINE n == Len(s)
<1>1. n \in Nat /\ \A i \in 1..n : s[i] \in Prompt!WordKinds
  OBVIOUS
<1>2. PICK m \in [0..n -> Masks] : MaskRun(m, s)
  BY MaskSteps
<1>3. PICK h \in [0..n -> Notices] : NoticeRun(h, s)
  BY NoticeSteps
<1> DEFINE Same(k) == /\ h[k].hit <=> m[k].found # {}
                      /\ ~h[k].hit => h[k].pending = m[k].pending
           T == {k \in Nat : k <= n => Same(k)}
<1>4. 0 \in T
  BY <1>2, <1>3 DEF MaskRun, NoMask, NoticeRun, NoNotice
<1>5. ASSUME NEW j \in Nat, j \in T PROVE j + 1 \in T
  <2>1. SUFFICES ASSUME j + 1 <= n PROVE Same(j + 1)
    OBVIOUS
  <2>2. j + 1 \in 1..n /\ j \in 0..n /\ Same(j)
    BY <1>1, <1>5, <2>1
  <2>3. m[j + 1] = Prompt!Scanned(m[j], s[j + 1]) /\ h[j + 1] = Prompt!Noticed(h[j], s[j + 1])
    BY <1>2, <1>3, <2>2 DEF MaskRun, NoticeRun
  <2>4. m[j] \in Masks /\ h[j] \in Notices
    BY <2>2
  <2>5. CASE h[j].hit
    BY <2>2, <2>3, <2>5 DEF Prompt!Scanned, Prompt!Noticed
  <2>6. CASE ~h[j].hit /\ Prompt!Waits(h[j], s[j + 1])
    BY <2>2, <2>3, <2>6 DEF Prompt!Scanned, Prompt!Noticed, Prompt!Waits
  <2>7. CASE ~h[j].hit /\ ~Prompt!Waits(h[j], s[j + 1])
    <3>1. ~Prompt!Waits(m[j], s[j + 1]) /\ m[j].found = {}
      BY <2>2, <2>7 DEF Prompt!Waits
    <3>2. Prompt!Completed(m[j].pending, s[j + 1]) = Prompt!Completed(h[j].pending, s[j + 1])
      BY <2>2, <2>7
    <3> DEFINE c == Prompt!Completed(m[j].pending, s[j + 1])
    <3>3. /\ m[j + 1].found = c \cup (IF s[j + 1] \in Prompt!ActionWords THEN {Prompt!ActionOf(s[j + 1])} ELSE {})
          /\ m[j + 1].pending = (IF s[j + 1] \in {"apply", "message", "book"} THEN s[j + 1] ELSE None)
      BY <2>3, <3>1 DEF Prompt!Scanned
    <3>4. /\ h[j + 1].hit <=> c # {} \/ s[j + 1] \in Prompt!ActionWords
          /\ h[j + 1].pending = (IF s[j + 1] \in {"apply", "message", "book"} THEN s[j + 1] ELSE None)
      BY <2>3, <2>7, <3>2 DEF Prompt!Noticed
    <3> HIDE DEF c
    <3> QED
      BY <3>3, <3>4
  <2> QED
    BY <2>4, <2>5, <2>6, <2>7 DEF Notices
<1>6. n \in T
  <2>1. Nat \subseteq T
    <3> HIDE DEF T
    <3> QED
      BY <1>4, <1>5, NatInduct
  <2> QED
    BY <2>1, <1>1
<1> QED
  BY <1>1, <1>2, <1>3, <1>6 DEF MaskRun, NoticeRun

\* ScannersAgree of every sequence of words, however long, and whatever is allowed: the two
\* scanners of the fast path agree, and neither misses an action that a pattern matches.
THEOREM ScannersAlwaysAgree ==
    ASSUME NEW s \in Seq(Prompt!WordKinds), NEW safety
    PROVE  Prompt!ScannersAgree(s, safety)
<1>1. Prompt!Matches(s) \subseteq Prompt!ActionPatterns
  BY DEF Prompt!Matches, Prompt!If, Prompt!ActionPatterns
<1>2. ASSUME safety.required, Prompt!Matches(s) \ safety.allow # {} PROVE Prompt!FastConfirms(s, safety)
  <2>1. PICK x \in Prompt!Matches(s) : x \notin safety.allow
    BY <1>2
  <2>2. x \in Prompt!ActionMask(s) /\ x \in Prompt!ConfirmationMask(safety)
    BY <1>1, <1>2, <2>1, MaskComplete DEF Prompt!ConfirmationMask
  <2> QED
    BY <2>2, BothNotice DEF Prompt!FastConfirms
<1> QED
  BY <1>2, BothNotice, MaskComplete, MaskSound DEF Prompt!ScannersAgree

-----------------------------------------------------------------------------
(* Sums of weights.                                                        *)

\* m has the sums of the weights w over the subsets of U.
Adds(m, U, w) ==
    /\ m[{}] = 0
    /\ \A T \in SUBSET U : \A x \in T : m[T] = m[T \ {x}] + w[x]

\* Sum, a fold in an order that CHOOSE picks, is the sum in any order.
LEMMA SumIs ==
    ASSUME NEW U, IsFiniteSet(U), NEW w, NEW m, Adds(m, U, w), NEW S \in SUBSET U
    PROVE  Prompt!Sum(S, w) = m[S]
<1> DEFINE Some(T) == CHOOSE x \in T : TRUE
           C == [T \in SUBSET S |-> Some(T)]
           Def(g) == [T \in SUBSET S |-> IF T = {} THEN 0 ELSE g[T \ {Some(T)}] + w[Some(T)]]
           iter == CHOOSE g : g = Def(g)
           n == [T \in SUBSET S |-> m[T]]
<1>1. IsFiniteSet(S)
  BY FS_Subset
<1>2. \A T \in SUBSET S : T # {} => Some(T) \in T
  OBVIOUS
<1>3. n = Def(n)
  <2>1. ASSUME NEW T \in SUBSET S
        PROVE  n[T] = IF T = {} THEN 0 ELSE n[T \ {Some(T)}] + w[Some(T)]
    <3> HIDE DEF Some
    <3> QED
      BY <1>2 DEF Adds
  <2> QED
    BY <2>1
<1>4. iter = Def(iter)
  <2> HIDE DEF Def
  <2> QED
    BY <1>3
<1>5. \A T \in SUBSET S : iter[T] = n[T]
  <2>1. iter[{}] = n[{}]
    <3> HIDE DEF iter
    <3> QED
      BY <1>3, <1>4
  <2>2. Chooses(C, S)
    BY <1>2 DEF Chooses
  <2>3. ASSUME NEW T \in SUBSET S, T # {}, iter[T \ {C[T]}] = n[T \ {C[T]}]
        PROVE  iter[T] = n[T]
    <3>1. n[T] = n[T \ {C[T]}] + w[C[T]]
      <4> HIDE DEF n, iter, Some
      <4> QED
        BY <1>3, <2>3
    <3>2. iter[T] = iter[T \ {C[T]}] + w[C[T]]
      <4> HIDE DEF iter, n, Some
      <4> QED
        BY <1>4, <2>3
    <3> QED
      BY <3>1, <3>2, <2>3
  <2>4. SameStep(iter, n, S, C)
    <3> HIDE DEF iter, n, C
    <3> QED
      BY <2>3 DEF SameStep
  <2> HIDE DEF iter, n, C
  <2> QED
    BY <1>1, <2>1, <2>2, <2>4, FoldUnique
<1>6. Prompt!Sum(S, w) = iter[S]
  BY DEF Prompt!Sum, Prompt!FoldSet, Prompt!MapThenFoldSet
<1> QED
  BY <1>5, <1>6

\* The signals of risk, and those a set of them adds up to (_risk_signals in scorer.py).
Risks == {"destructive_action", "send_action", "purchase_action", "external_action", "file_shell_github",
     "sensitive_domain",
          "legal", "medical", "financial", "ambiguous_high_impact", "production", "security", "pii"}
\* What a signal adds to a sum.
Part(S, w, x) == IF x \in S THEN w[x] ELSE 0
RiskSum(S, w) ==
    Part(S, w, "destructive_action") + Part(S, w, "send_action") + Part(S, w, "purchase_action")
         + Part(S, w, "external_action")
    + Part(S, w, "file_shell_github") + Part(S, w, "sensitive_domain") + Part(S, w, "legal") + Part(S, w, "medical")
    + Part(S, w, "financial") + Part(S, w, "ambiguous_high_impact") + Part(S, w, "production")
         + Part(S, w, "security")
    + Part(S, w, "pii")

\* The sum of a set of risks, written out, whatever the weights are.
LEMMA SumOfRisks ==
    ASSUME NEW w \in [Risks -> Nat], NEW S \in SUBSET Risks
    PROVE  Prompt!Sum(S, w) = RiskSum(S, w)
<1> DEFINE m == [T \in SUBSET Risks |-> RiskSum(T, w)]
<1>1. IsFiniteSet(Risks)
  <2> DEFINE a == {"destructive_action", "send_action", "purchase_action", "external_action"}
             b == {"file_shell_github", "sensitive_domain", "legal", "medical"}
             c == {"financial", "ambiguous_high_impact", "production", "security"}
  <2>1. IsFiniteSet(a) /\ IsFiniteSet(b) /\ IsFiniteSet(c) /\ IsFiniteSet({"pii"})
    BY FiniteFour, FS_Singleton
  <2>2. IsFiniteSet((a \cup b) \cup (c \cup {"pii"}))
    <3> HIDE DEF a, b, c
    <3> QED
      BY <2>1, FS_Union
  <2>3. Risks = (a \cup b) \cup (c \cup {"pii"})
    BY DEF Risks
  <2> HIDE DEF a, b, c
  <2> QED
    BY <2>2, <2>3
<1>2. m[{}] = 0
  BY DEF RiskSum, Part
<1>3. ASSUME NEW T \in SUBSET Risks, NEW x \in T PROVE RiskSum(T, w) = RiskSum(T \ {x}, w) + w[x]
  <2> DEFINE Own(y) == IF y = x THEN w[x] ELSE 0
  <2>1. \A y : Part(T, w, y) = IF y = x THEN w[x] ELSE Part(T \ {x}, w, y)
    BY DEF Part
  <2>2. Part(T \ {x}, w, x) = 0 /\ w[x] \in Nat
    BY DEF Part
  <2>3. \A y \in Risks : Part(T \ {x}, w, y) \in Nat
    BY DEF Part
  <2>4. x \in Risks /\ Own("destructive_action") + Own("send_action") + Own("purchase_action")
       + Own("external_action")
          + Own("file_shell_github") + Own("sensitive_domain") + Own("legal") + Own("medical")
          + Own("financial") + Own("ambiguous_high_impact") + Own("production") + Own("security") + Own("pii") = w[x]
    <3> DEFINE v == w[x]
    <3>1. v \in Nat
      BY <2>2
    <3> HIDE DEF v
    <3> QED
      BY <3>1 DEF Risks, v
  <2>5. \A y \in Risks : Part(T, w, y) = Part(T \ {x}, w, y) + Own(y) /\ Part(T \ {x}, w, y) \in Nat /\ Own(y) \in Nat
    <3>1. ASSUME NEW y \in Risks, y = x PROVE Part(T, w, y) = Part(T \ {x}, w, y) + Own(y)
      BY <2>1, <2>2, <3>1
    <3>2. ASSUME NEW y \in Risks, y # x PROVE Part(T, w, y) = Part(T \ {x}, w, y) + Own(y)
      <4>1. Own(y) = 0
        BY <3>2
      <4>2. Part(T, w, y) = Part(T \ {x}, w, y) /\ Part(T \ {x}, w, y) \in Nat
        BY <2>1, <2>3, <3>2
      <4> HIDE DEF Own
      <4> QED
        BY <4>1, <4>2
    <3> QED
      BY <2>2, <2>3, <3>1, <3>2
  <2> HIDE DEF Own
  <2> QED
    BY <2>2, <2>4, <2>5 DEF RiskSum, Risks
<1>4. Adds(m, Risks, w)
  BY <1>2, <1>3 DEF Adds
<1> QED
  <2> HIDE DEF m
  <2>1. Prompt!Sum(S, w) = m[S]
    BY <1>1, <1>4, SumIs
  <2> QED
    BY <2>1 DEF m

\* The signals of complexity (_complexity_signals in scorer.py).
Complexities == {"coding", "steps", "architecture", "structured", "medium_prompt", "long_prompt", "very_long_prompt",
                  "current", "research", "tool_intent", "ambiguous", "long_context", "sensitive_domain",
                       "vision_intent", "image"}
ComplexitySum(S, w) ==
    Part(S, w, "coding") + Part(S, w, "steps") + Part(S, w, "architecture") + Part(S, w, "structured")
    + Part(S, w, "medium_prompt") + Part(S, w, "long_prompt") + Part(S, w, "very_long_prompt") + Part(S, w, "current")
    + Part(S, w, "research") + Part(S, w, "tool_intent") + Part(S, w, "ambiguous") + Part(S, w, "long_context")
    + Part(S, w, "sensitive_domain") + Part(S, w, "vision_intent") + Part(S, w, "image")

\* The sum of a set of complexities, written out, whatever the weights are.
LEMMA SumOfComplexities ==
    ASSUME NEW w \in [Complexities -> Nat], NEW S \in SUBSET Complexities
    PROVE  Prompt!Sum(S, w) = ComplexitySum(S, w)
<1> DEFINE m == [T \in SUBSET Complexities |-> ComplexitySum(T, w)]
<1>1. IsFiniteSet(Complexities)
  <2> DEFINE a == {"coding", "steps", "architecture", "structured"}
             b == {"medium_prompt", "long_prompt", "very_long_prompt", "current"}
             c == {"research", "tool_intent", "ambiguous", "long_context"}
             d == {"sensitive_domain", "vision_intent", "image", "image"}
  <2>1. IsFiniteSet(a) /\ IsFiniteSet(b) /\ IsFiniteSet(c) /\ IsFiniteSet(d)
    BY FiniteFour
  <2>2. IsFiniteSet((a \cup b) \cup (c \cup d))
    <3> HIDE DEF a, b, c, d
    <3> QED
      BY <2>1, FS_Union
  <2>3. Complexities = (a \cup b) \cup (c \cup d)
    BY DEF Complexities
  <2> HIDE DEF a, b, c, d
  <2> QED
    BY <2>2, <2>3
<1>2. m[{}] = 0
  BY DEF ComplexitySum, Part
<1>3. ASSUME NEW T \in SUBSET Complexities, NEW x \in T PROVE ComplexitySum(T, w) = ComplexitySum(T \ {x}, w) + w[x]
  <2> DEFINE Own(y) == IF y = x THEN w[x] ELSE 0
  <2>1. \A y : Part(T, w, y) = IF y = x THEN w[x] ELSE Part(T \ {x}, w, y)
    BY DEF Part
  <2>2. Part(T \ {x}, w, x) = 0 /\ w[x] \in Nat
    BY DEF Part
  <2>3. \A y \in Complexities : Part(T \ {x}, w, y) \in Nat
    BY DEF Part
  <2>4. x \in Complexities /\ Own("coding") + Own("steps") + Own("architecture") + Own("structured")
          + Own("medium_prompt") + Own("long_prompt") + Own("very_long_prompt") + Own("current")
          + Own("research") + Own("tool_intent") + Own("ambiguous") + Own("long_context")
          + Own("sensitive_domain") + Own("vision_intent") + Own("image") = w[x]
    <3> DEFINE v == w[x]
    <3>1. v \in Nat
      BY <2>2
    <3> HIDE DEF v
    <3> QED
      BY <3>1 DEF Complexities, v
  <2>5. \A y \in Complexities : Part(T, w, y) = Part(T \ {x}, w, y) + Own(y) /\ Part(T \ {x}, w, y) \in Nat
       /\ Own(y) \in Nat
    <3>1. ASSUME NEW y \in Complexities, y = x PROVE Part(T, w, y) = Part(T \ {x}, w, y) + Own(y)
      BY <2>1, <2>2, <3>1
    <3>2. ASSUME NEW y \in Complexities, y # x PROVE Part(T, w, y) = Part(T \ {x}, w, y) + Own(y)
      <4>1. Own(y) = 0
        BY <3>2
      <4>2. Part(T, w, y) = Part(T \ {x}, w, y) /\ Part(T \ {x}, w, y) \in Nat
        BY <2>1, <2>3, <3>2
      <4> HIDE DEF Own
      <4> QED
        BY <4>1, <4>2
    <3> QED
      BY <2>2, <2>3, <3>1, <3>2
  <2> DEFINE R == T \ {x}
             First(Z) == Part(Z, w, "coding") + Part(Z, w, "steps") + Part(Z, w, "architecture")
                  + Part(Z, w, "structured") + Part(Z, w, "medium_prompt") + Part(Z, w, "long_prompt")
                  + Part(Z, w, "very_long_prompt") + Part(Z, w, "current")
             Rest(Z) == Part(Z, w, "research") + Part(Z, w, "tool_intent") + Part(Z, w, "ambiguous")
                  + Part(Z, w, "long_context") + Part(Z, w, "sensitive_domain") + Part(Z, w, "vision_intent")
                  + Part(Z, w, "image")
             OwnFirst == Own("coding") + Own("steps") + Own("architecture") + Own("structured")
                  + Own("medium_prompt") + Own("long_prompt") + Own("very_long_prompt") + Own("current")
             OwnRest == Own("research") + Own("tool_intent") + Own("ambiguous") + Own("long_context")
                  + Own("sensitive_domain") + Own("vision_intent") + Own("image")
  <2>6. First(T) = First(R) + OwnFirst /\ First(T) \in Nat /\ First(R) \in Nat /\ OwnFirst \in Nat
    <3> HIDE DEF Own, R
    <3> QED
      BY <2>5 DEF Complexities, R
  <2>7. Rest(T) = Rest(R) + OwnRest /\ Rest(T) \in Nat /\ Rest(R) \in Nat /\ OwnRest \in Nat
    <3> HIDE DEF Own, R
    <3> QED
      BY <2>5 DEF Complexities, R
  <2>8. ComplexitySum(T, w) = First(T) + Rest(T) /\ ComplexitySum(R, w) = First(R) + Rest(R)
    <3> HIDE DEF Own
    <3> QED
      BY <2>5 DEF ComplexitySum, Complexities
  <2>9. OwnFirst + OwnRest = w[x]
    <3> HIDE DEF Own
    <3> QED
      BY <2>4, <2>5 DEF Complexities
  <2> HIDE DEF First, Rest, OwnFirst, OwnRest
  <2> QED
    BY <2>2, <2>6, <2>7, <2>8, <2>9
<1>4. Adds(m, Complexities, w)
  BY <1>2, <1>3 DEF Adds
<1> QED
  <2> HIDE DEF m
  <2>1. Prompt!Sum(S, w) = m[S]
    BY <1>1, <1>4, SumIs
  <2> QED
    BY <2>1 DEF m

-----------------------------------------------------------------------------
(* The rounding of a score (scorer.py).                                    *)

\* What div and mod are for the solver.
LEMMA DivMod ==
    ASSUME NEW a \in Nat, NEW d \in Nat, d > 0
    PROVE  /\ a \div d \in Nat /\ a % d \in Nat /\ a % d < d
           /\ a = d * (a \div d) + (a % d)
OBVIOUS

\* Products are monotone.
LEMMA TimesMonotone ==
    ASSUME NEW a \in Nat, NEW b \in Nat, a <= b, NEW c \in Nat
    PROVE  a * c <= b * c /\ c * a <= c * b
OBVIOUS

\* _saturate_weight_sum (scorer.py) is 100 * t / (t + k), rounded to a half: at most a half away, on
\* either side, ties to the even number included.
LEMMA Rounded ==
    ASSUME NEW t \in Nat, NEW k \in Nat, k > 0
    PROVE  LET s == Prompt!Saturate(t, k) IN
           /\ s \in Nat
           /\ 2 * (s * (t + k)) <= 200 * t + (t + k)
           /\ 200 * t <= 2 * (s * (t + k)) + (t + k)
<1> DEFINE d == t + k
           a == 100 * t
           q == a \div d
           r == a % d
           s == Prompt!Saturate(t, k)
<1>1. q \in Nat /\ r \in Nat /\ r < d /\ d \in Nat /\ d > 0 /\ a \in Nat /\ a = d * q + r
  <2>1. a \in Nat /\ d \in Nat /\ d > 0
    OBVIOUS
  <2> HIDE DEF a, d
  <2> QED
    BY <2>1, DivMod
<1>2. s = IF t = 0 THEN 0 ELSE IF 2 * r > d \/ (2 * r = d /\ q % 2 = 1) THEN q + 1 ELSE q
  BY DEF Prompt!Saturate
<1>3. (q + 1) * d = d * q + d /\ q * d = d * q /\ d * q \in Nat
  <2> HIDE DEF d, q
  <2> QED
    BY <1>1
<1>4. s \in Nat /\ 2 * (s * d) <= 2 * a + d /\ 2 * a <= 2 * (s * d) + d
  <2>1. CASE t = 0
    <3>1. s = 0 /\ a = 0
      BY <1>2, <2>1
    <3> HIDE DEF s, a, d
    <3> QED
      BY <1>1, <3>1
  <2>2. CASE t # 0 /\ s = q + 1 /\ 2 * r >= d
    <3>1. s * d = d * q + d
      <4> HIDE DEF s, q, d
      <4> QED
        BY <1>3, <2>2
    <3>2. s \in Nat
      <4> HIDE DEF s, q, d
      <4> QED
        BY <1>1, <2>2
    <3> DEFINE m == d * q
               n == s * d
    <3> HIDE DEF s, q, d, a, r, m, n
    <3>3. n = m + d /\ m \in Nat /\ a = m + r
      BY <3>1, <1>3, <1>1 DEF m, n
    <3>4. 2 * n <= 2 * a + d /\ 2 * a <= 2 * n + d
      BY <3>3, <1>1, <2>2
    <3> QED
      BY <3>2, <3>4 DEF n
  <2>3. CASE t # 0 /\ s = q /\ 2 * r <= d
    <3> DEFINE m == d * q
               n == s * d
    <3> HIDE DEF s, q, d, a, r, m, n
    <3>3. n = m /\ m \in Nat /\ a = m + r
      BY <2>3, <1>3, <1>1 DEF m, n
    <3>4. 2 * n <= 2 * a + d /\ 2 * a <= 2 * n + d
      BY <3>3, <1>1, <2>3
    <3> QED
      BY <2>3, <1>1, <3>4 DEF n
  <2>4. (t # 0 => (s = q + 1 /\ 2 * r >= d) \/ (s = q /\ 2 * r <= d))
    <3> HIDE DEF s, q, d, a, r
    <3> QED
      BY <1>1, <1>2
  <2> HIDE DEF s, q, d, a, r
  <2> QED
    BY <2>1, <2>2, <2>3, <2>4
<1>5. 2 * a = 200 * t
  OBVIOUS
<1> HIDE DEF a
<1> QED
  BY <1>4, <1>5

\* More to saturate is never less after it, in spite of the rounding; and at most 100.
LEMMA SaturateMonotone ==
    ASSUME NEW t \in Nat, NEW u \in Nat, t <= u, NEW k \in Nat, k > 0
    PROVE  /\ Prompt!Saturate(t, k) \in Nat /\ Prompt!Saturate(t, k) <= 100
           /\ Prompt!Saturate(t, k) <= Prompt!Saturate(u, k)
<1> DEFINE s == Prompt!Saturate(t, k)
           z == Prompt!Saturate(u, k)
<1>1. /\ s \in Nat /\ 2 * (s * (t + k)) <= 200 * t + (t + k)
      /\ z \in Nat /\ 200 * u <= 2 * (z * (u + k)) + (u + k)
  BY Rounded
<1> HIDE DEF s, z
<1>2. s <= 100
  <2>1. SUFFICES ASSUME s >= 101 PROVE FALSE
    BY <1>1
  <2>2. 101 * (t + k) <= s * (t + k)
    BY <2>1, <1>1, TimesMonotone
  <2> DEFINE n == s * (t + k)
  <2>3. n \in Nat
    BY <1>1
  <2> HIDE DEF n
  <2>4. 2 * n <= 200 * t + (t + k) /\ 101 * (t + k) <= n
    BY <1>1, <2>2 DEF n
  <2> QED
    BY <2>3, <2>4
<1>3. s <= z
  <2>1. SUFFICES ASSUME z + 1 <= s PROVE FALSE
    BY <1>1
  <2>2. PICK e \in Nat : u = t + e
    <3>1. u - t \in Nat /\ u = t + (u - t)
      OBVIOUS
    <3> QED
      BY <3>1
  <2>3. (z + 1) * (u + k) <= s * (u + k)
    BY <1>1, <2>1, TimesMonotone
  <2> DEFINE n == s * (t + k)
             m == s * e
             o == z * (u + k)
  <2>4. n \in Nat /\ m \in Nat /\ o \in Nat
    BY <1>1
  <2>5. s * (u + k) = n + m
    BY <1>1, <2>2
  <2>6. (z + 1) * (u + k) = o + (u + k)
    BY <1>1
  <2>7. m <= 100 * e
    BY <1>1, <1>2, TimesMonotone
  <2> HIDE DEF n, m, o
  <2>8. 2 * n <= 200 * t + (t + k) /\ 200 * u <= 2 * o + (u + k)
    BY <1>1 DEF n, o
  <2>9. o + (u + k) <= n + m
    BY <2>3, <2>5, <2>6
  <2>10. e = 0
    BY <2>2, <2>4, <2>7, <2>8, <2>9
  <2>11. u = t
    BY <2>2, <2>10
  <2>12. z = s
    BY <2>11 DEF z, s
  <2> QED
    BY <2>1, <2>12, <1>1
<1> QED
  BY <1>1, <1>2, <1>3 DEF s, z

-----------------------------------------------------------------------------
(* Prompts with more patterns.                                             *)

\* q has the patterns of p and others, but for those that call a prompt simple or clear.
More(p, q) ==
    /\ p.found \subseteq q.found /\ (q.found \ p.found) \cap {"simple", "clear"} = {}
    /\ p.chars = q.chars /\ p.words = q.words

\* The risks of a prompt are risks, and its actions are told by the patterns found.
LEMMA RiskSignalsAre ==
    ASSUME NEW p
    PROVE  /\ Prompt!RiskSignals(p) \in SUBSET Risks
           /\ "destructive_action" \in Prompt!RiskSignals(p) <=> "destructive" \in p.found
           /\ "send_action" \in Prompt!RiskSignals(p) <=> "send" \in p.found
           /\ "purchase_action" \in Prompt!RiskSignals(p) <=> "purchase" \in p.found
           /\ "external_action" \in Prompt!RiskSignals(p) <=> Prompt!Actions(p) = {"impact"}
BY DEF Prompt!RiskSignals, Prompt!If, Prompt!Found, Prompt!Domains, Risks

\* With more patterns a prompt has every feature it had.
LEMMA MoreFeatures ==
    ASSUME NEW p, NEW q, More(p, q)
    PROVE  /\ \A patterns : Prompt!Found(p, patterns) => Prompt!Found(q, patterns)
           /\ Prompt!Tokens(p) = Prompt!Tokens(q) /\ Prompt!LongContext(p) = Prompt!LongContext(q)
           /\ Prompt!Actions(p) \subseteq Prompt!Actions(q)
           /\ Prompt!Sensitive(p) => Prompt!Sensitive(q)
           /\ Prompt!Ambiguous(p) => Prompt!Ambiguous(q)
           /\ Prompt!Freshness(p) => Prompt!Freshness(q)
           /\ Prompt!CodeExecution(p) => Prompt!CodeExecution(q)
<1>1. \A patterns : Prompt!Found(p, patterns) => Prompt!Found(q, patterns)
  BY DEF More, Prompt!Found
<1>2. Prompt!Tokens(p) = Prompt!Tokens(q) /\ Prompt!LongContext(p) = Prompt!LongContext(q)
  BY DEF More, Prompt!Tokens, Prompt!LongContext
<1>3. Prompt!Actions(p) \subseteq Prompt!Actions(q)
  BY DEF More, Prompt!Actions
<1>4. Prompt!Found(p, {"simple", "clear"}) = Prompt!Found(q, {"simple", "clear"})
  BY DEF More, Prompt!Found
<1>5. Prompt!Ambiguous(p) => Prompt!Ambiguous(q)
  BY <1>1, <1>4 DEF More, Prompt!Ambiguous
<1> QED
  BY <1>1, <1>2, <1>3, <1>5 DEF Prompt!Sensitive, Prompt!Freshness, Prompt!CodeExecution

\* The default weights of the risks; an action of its own weighs more than the vague one.
LEMMA RiskWeighed ==
    /\ Prompt!RiskWeights \in [Risks -> Nat]
    /\ Prompt!RiskWeights["destructive_action"] = 70 /\ Prompt!RiskWeights["send_action"] = 60
    /\ Prompt!RiskWeights["purchase_action"] = 60 /\ Prompt!RiskWeights["external_action"] = 40
BY DEF Prompt!RiskWeights, Risks

\* The default weights of the complexities are numbers.
LEMMA ComplexityWeighed == Prompt!ComplexityWeights \in [Complexities -> Nat]
BY DEF Prompt!ComplexityWeights, Complexities

\* What a signal adds is a number.
LEMMA PartIsNat ==
    ASSUME NEW D, NEW w \in [D -> Nat], NEW x \in D, NEW S
    PROVE  Part(S, w, x) \in Nat
BY DEF Part

\* With more patterns the risks weigh no less: external_action alone goes away, and one that
\* weighs more has taken its place.
LEMMA MoreRiskSum ==
    ASSUME NEW p, NEW q, More(p, q)
    PROVE  RiskSum(Prompt!RiskSignals(p), Prompt!RiskWeights) <= RiskSum(Prompt!RiskSignals(q), Prompt!RiskWeights)
<1> DEFINE w == Prompt!RiskWeights
           P == Prompt!RiskSignals(p)
           Q == Prompt!RiskSignals(q)
           Acting == {"destructive_action", "send_action", "purchase_action", "external_action"}
           Doing(S) == Part(S, w, "destructive_action") + Part(S, w, "send_action") + Part(S, w, "purchase_action")
                       + Part(S, w, "external_action")
<1>1. ASSUME NEW x \in Risks \ Acting, x \in P PROVE x \in Q
  <2>1. (p.found \cap Prompt!Domains) \cup (p.found \cap {"production", "security", "pii"})
          \subseteq (q.found \cap Prompt!Domains) \cup (q.found \cap {"production", "security", "pii"})
    BY DEF More
  <2>2. Prompt!Actions(p) # {} => Prompt!Actions(q) # {}
    BY MoreFeatures
  <2> QED
    BY <1>1, <2>1, <2>2, MoreFeatures DEF Prompt!RiskSignals, Prompt!If
<1>2. \A x \in Risks \ Acting : Part(P, w, x) <= Part(Q, w, x)
  <2> HIDE DEF P, Q, w, Acting
  <2>1. w \in [Risks -> Nat]
    BY RiskWeighed DEF w
  <2> QED
    BY <1>1, <2>1 DEF Part
<1>3. Doing(P) <= Doing(Q) /\ Doing(P) \in Nat /\ Doing(Q) \in Nat
  <2>1. /\ "destructive_action" \in P => "destructive_action" \in Q
        /\ "send_action" \in P => "send_action" \in Q
        /\ "purchase_action" \in P => "purchase_action" \in Q
    BY RiskSignalsAre DEF More
  <2>2. "external_action" \in P /\ "external_action" \notin Q
          => /\ Acting \cap P = {"external_action"}
             /\ "destructive_action" \in Q \/ "send_action" \in Q \/ "purchase_action" \in Q
    BY RiskSignalsAre, MoreFeatures DEF Prompt!Actions, Prompt!ActionPatterns
  <2> HIDE DEF P, Q
  <2> QED
    BY <2>1, <2>2, RiskWeighed DEF Part
<1>4. \A x \in Risks : Part(P, w, x) \in Nat /\ Part(Q, w, x) \in Nat
  BY RiskWeighed, PartIsNat
<1> DEFINE Rest(S) ==
      Part(S, w, "file_shell_github") + Part(S, w, "sensitive_domain") + Part(S, w, "legal") + Part(S, w, "medical")
    + Part(S, w, "financial") + Part(S, w, "ambiguous_high_impact") + Part(S, w, "production")
         + Part(S, w, "security")
    + Part(S, w, "pii")
<1>5. Rest(P) <= Rest(Q) /\ Rest(P) \in Nat /\ Rest(Q) \in Nat
  <2> HIDE DEF P, Q, w
  <2> QED
    BY <1>2, <1>4 DEF Risks
<1>6. RiskSum(P, w) = Doing(P) + Rest(P) /\ RiskSum(Q, w) = Doing(Q) + Rest(Q)
  <2> HIDE DEF P, Q, w
  <2> QED
    BY <1>4 DEF RiskSum, Risks
<1> HIDE DEF Doing, Rest
<1> QED
  BY <1>3, <1>5, <1>6

\* The complexities of a prompt are complexities; what it asks for tells the ones that
\* replace each other.
LEMMA ComplexitySignalsAre ==
    ASSUME NEW p
    PROVE  /\ Prompt!ComplexitySignals(p) \in SUBSET Complexities
           /\ "current" \in Prompt!ComplexitySignals(p) <=> "current" \in p.found
           /\ "research" \in Prompt!ComplexitySignals(p) <=> "research" \in p.found /\ "current" \notin p.found
           /\ "vision_intent" \in Prompt!ComplexitySignals(p) <=> Prompt!Vision(p)
           /\ "image" \in Prompt!ComplexitySignals(p) <=> Prompt!Image(p)
<1>1. /\ Prompt!Found(p, {"current"}) <=> "current" \in p.found
      /\ p.found \cap {"research"} = IF "research" \in p.found THEN {"research"} ELSE {}
  BY DEF Prompt!Found
<1> QED
  BY <1>1 DEF Prompt!ComplexitySignals, Prompt!If, Complexities

\* Those that replace each other weigh no less.
LEMMA ComplexityWeighs ==
    /\ Prompt!ComplexityWeights["current"] = 20 /\ Prompt!ComplexityWeights["research"] = 20
    /\ Prompt!ComplexityWeights["vision_intent"] = 15 /\ Prompt!ComplexityWeights["image"] = 18
BY DEF Prompt!ComplexityWeights

\* With more patterns a prompt needs every tool it needed, an image in place of looking at one.
LEMMA MoreTools ==
    ASSUME NEW p, NEW q, More(p, q)
    PROVE  /\ Prompt!Image(p) => Prompt!Image(q)
           /\ Prompt!Vision(p) => Prompt!Vision(q) \/ Prompt!Image(q)
           /\ Prompt!ToolsNeeded(p) => Prompt!ToolsNeeded(q)
<1>1. Prompt!Image(p) => Prompt!Image(q)
  BY MoreFeatures DEF Prompt!Image
<1>2. Prompt!Vision(p) => Prompt!Vision(q) \/ Prompt!Image(q)
  BY MoreFeatures DEF Prompt!Vision, Prompt!Image
<1> QED
  BY <1>1, <1>2, MoreFeatures DEF Prompt!ToolsNeeded

\* With more patterns the complexities weigh no less, although two of them may go away.
LEMMA MoreComplexitySum ==
    ASSUME NEW p, NEW q, More(p, q)
    PROVE  ComplexitySum(Prompt!ComplexitySignals(p), Prompt!ComplexityWeights)
               <= ComplexitySum(Prompt!ComplexitySignals(q), Prompt!ComplexityWeights)
<1> DEFINE w == Prompt!ComplexityWeights
           P == Prompt!ComplexitySignals(p)
           Q == Prompt!ComplexitySignals(q)
           Either == {"current", "research", "vision_intent", "image"}
           Work(S) == Part(S, w, "current") + Part(S, w, "research")
           See(S) == Part(S, w, "vision_intent") + Part(S, w, "image")
<1>1. ASSUME NEW x \in Complexities \ Either, x \in P PROVE x \in Q
  <2>1. p.found \cap {"coding", "steps", "architecture", "structured"}
          \subseteq q.found \cap {"coding", "steps", "architecture", "structured"}
    BY DEF More
  <2> QED
    BY <1>1, <2>1, MoreFeatures, MoreTools DEF Prompt!ComplexitySignals, Prompt!If
<1>2. \A x \in Complexities \ Either : Part(P, w, x) <= Part(Q, w, x)
  <2> HIDE DEF P, Q, w, Either
  <2>1. w \in [Complexities -> Nat]
    BY ComplexityWeighed DEF w
  <2> QED
    BY <1>1, <2>1 DEF Part
<1>3. Work(P) <= Work(Q) /\ Work(P) \in Nat /\ Work(Q) \in Nat
  <2>1. /\ "current" \in P => "current" \in Q
        /\ "research" \in P => "research" \in Q \/ "current" \in Q
        /\ ~("research" \in P /\ "current" \in P)
    BY ComplexitySignalsAre DEF More
  <2> HIDE DEF P, Q
  <2> QED
    BY <2>1, ComplexityWeighs DEF Part
<1>4. See(P) <= See(Q) /\ See(P) \in Nat /\ See(Q) \in Nat
  <2>1. /\ "image" \in P => "image" \in Q
        /\ "vision_intent" \in P => "vision_intent" \in Q \/ "image" \in Q
        /\ ~("vision_intent" \in P /\ "image" \in P)
    BY ComplexitySignalsAre, MoreTools DEF Prompt!Vision, Prompt!Image
  <2> HIDE DEF P, Q
  <2> QED
    BY <2>1, ComplexityWeighs DEF Part
<1>5. \A x \in Complexities : Part(P, w, x) \in Nat /\ Part(Q, w, x) \in Nat
  BY ComplexityWeighed, PartIsNat
<1> DEFINE First(S) == Part(S, w, "coding") + Part(S, w, "steps") + Part(S, w, "architecture")
     + Part(S, w, "structured")
                       + Part(S, w, "medium_prompt") + Part(S, w, "long_prompt")
           Latter(S) == Part(S, w, "very_long_prompt") + Part(S, w, "tool_intent") + Part(S, w, "ambiguous")
                      + Part(S, w, "long_context") + Part(S, w, "sensitive_domain")
<1>6. First(P) <= First(Q) /\ First(P) \in Nat /\ First(Q) \in Nat
  <2> HIDE DEF P, Q, w
  <2> QED
    BY <1>2, <1>5 DEF Complexities
<1>7. Latter(P) <= Latter(Q) /\ Latter(P) \in Nat /\ Latter(Q) \in Nat
  <2> HIDE DEF P, Q, w
  <2> QED
    BY <1>2, <1>5 DEF Complexities
<1>8. \A S \in {P, Q} : ComplexitySum(S, w) = First(S) + Latter(S) + Work(S) + See(S)
  <2> TAKE S \in {P, Q}
  <2>1. \A x \in Complexities : Part(S, w, x) \in Nat
    BY <1>5
  <2> HIDE DEF P, Q, w
  <2> QED
    BY <2>1 DEF ComplexitySum, Complexities
<1> HIDE DEF First, Latter, Work, See
<1> QED
  BY <1>3, <1>4, <1>6, <1>7, <1>8

\* Under the default weights both sums are numbers, those written out.
LEMMA DefaultSums ==
    ASSUME NEW p
    PROVE  LET c == Prompt!Sum(Prompt!ComplexitySignals(p), Prompt!ComplexityWeights)
               r == Prompt!Sum(Prompt!RiskSignals(p), Prompt!RiskWeights)
           IN /\ c = ComplexitySum(Prompt!ComplexitySignals(p), Prompt!ComplexityWeights) /\ c \in Nat
              /\ r = RiskSum(Prompt!RiskSignals(p), Prompt!RiskWeights) /\ r \in Nat
<1> DEFINE c == Prompt!Sum(Prompt!ComplexitySignals(p), Prompt!ComplexityWeights)
           r == Prompt!Sum(Prompt!RiskSignals(p), Prompt!RiskWeights)
           v == Prompt!ComplexityWeights
           w == Prompt!RiskWeights
           P == Prompt!ComplexitySignals(p)
           Q == Prompt!RiskSignals(p)
<1>1. c = ComplexitySum(P, v)
  BY SumOfComplexities, ComplexityWeighed, ComplexitySignalsAre
<1>2. r = RiskSum(Q, w)
  BY SumOfRisks, RiskWeighed, RiskSignalsAre
<1>3. \A x \in Complexities : Part(P, v, x) \in Nat
  BY ComplexityWeighed, PartIsNat
<1>4. \A x \in Risks : Part(Q, w, x) \in Nat
  BY RiskWeighed, PartIsNat
<1>5. ComplexitySum(P, v) \in Nat
  <2> HIDE DEF P, v
  <2> QED
    BY <1>3 DEF ComplexitySum, Complexities
<1>6. RiskSum(Q, w) \in Nat
  <2> HIDE DEF Q, w
  <2> QED
    BY <1>4 DEF RiskSum, Risks
<1> QED
  BY <1>1, <1>2, <1>5, <1>6

-----------------------------------------------------------------------------
(* Scores under any weights, and what is confirmed or delegated.           *)

\* What a configuration may have for weights: numbers, and a k that is not zero.
IsScoring(scoring) ==
    /\ scoring.k \in Nat \ {0} /\ scoring.risk \in [Risks -> Nat] /\ scoring.complexity \in [Complexities -> Nat]
    /\ scoring.confidence \in [{"ambiguous", "short_high_risk", "weak_feature_match", "empty_prompt"} -> Nat]

\* The greatest of a number and of two floors, of which each may be missing.
LEMMA MaxOfFloors ==
    ASSUME NEW s \in Nat, NEW A \in SUBSET Nat, NEW B \in SUBSET Nat,
           A = {} \/ A = {70}, B = {} \/ B = {60}
    PROVE  /\ Prompt!Max({s} \cup A \cup B) \in {s} \cup A \cup B
           /\ \A y \in {s} \cup A \cup B : Prompt!Max({s} \cup A \cup B) >= y
<1> DEFINE S == {s} \cup A \cup B
<1>1. \E x \in S : \A y \in S : x >= y
  <2>1. CASE A = {70} /\ s <= 70
    BY <2>1
  <2>2. CASE A = {70} /\ s > 70
    BY <2>2
  <2>3. CASE A = {} /\ B = {60} /\ s <= 60
    BY <2>3
  <2>4. CASE A = {} /\ ~(B = {60} /\ s <= 60)
    BY <2>4
  <2> HIDE DEF S
  <2> QED
    BY <2>1, <2>2, <2>3, <2>4
<1> HIDE DEF S
<1>2. Prompt!Max(S) \in S /\ \A y \in S : Prompt!Max(S) >= y
  BY <1>1 DEF Prompt!Max
<1> QED
  BY <1>2 DEF S

\* The lesser of a number and 100.
LEMMA MinOfTwo ==
    ASSUME NEW s \in Nat
    PROVE  Prompt!Min({100, s}) = IF s <= 100 THEN s ELSE 100
<1> DEFINE S == {100, s}
<1>1. \E x \in S : \A y \in S : x <= y
  OBVIOUS
<1>2. Prompt!Min(S) \in S /\ \A y \in S : Prompt!Min(S) <= y
  <2> HIDE DEF S
  <2> QED
    BY <1>1 DEF Prompt!Min
<1> QED
  BY <1>2

\* What the signals alone make of risk and of complexity.
RiskTotal(p, scoring) == Prompt!Saturate(Prompt!Sum(Prompt!RiskSignals(p), scoring.risk), scoring.k)
ComplexityTotal(p, scoring) == Prompt!Saturate(Prompt!Sum(Prompt!ComplexitySignals(p), scoring.complexity), scoring.k)

\* Whatever the weights are, sums and totals are numbers.
LEMMA TotalsAreNat ==
    ASSUME NEW p, NEW scoring, IsScoring(scoring)
    PROVE  /\ Prompt!Sum(Prompt!RiskSignals(p), scoring.risk) \in Nat
           /\ Prompt!Sum(Prompt!ComplexitySignals(p), scoring.complexity) \in Nat
           /\ RiskTotal(p, scoring) \in Nat /\ ComplexityTotal(p, scoring) \in Nat
<1> DEFINE v == scoring.complexity
           w == scoring.risk
           P == Prompt!ComplexitySignals(p)
           Q == Prompt!RiskSignals(p)
<1>1. v \in [Complexities -> Nat] /\ w \in [Risks -> Nat] /\ scoring.k \in Nat \ {0}
  BY DEF IsScoring
<1>2. P \in SUBSET Complexities /\ Q \in SUBSET Risks
  BY ComplexitySignalsAre, RiskSignalsAre
<1> HIDE DEF v, w, P, Q
<1>3. ComplexitySum(P, v) \in Nat
  <2>1. \A x \in Complexities : Part(P, v, x) \in Nat
    BY <1>1, PartIsNat
  <2> QED
    BY <2>1 DEF ComplexitySum, Complexities
<1>4. RiskSum(Q, w) \in Nat
  <2>1. \A x \in Risks : Part(Q, w, x) \in Nat
    BY <1>1, PartIsNat
  <2> QED
    BY <2>1 DEF RiskSum, Risks
<1>5. Prompt!Sum(P, v) \in Nat
  BY <1>1, <1>2, <1>3, SumOfComplexities
<1>6. Prompt!Sum(Q, w) \in Nat
  BY <1>1, <1>2, <1>4, SumOfRisks
<1>7. Prompt!Saturate(Prompt!Sum(Q, w), scoring.k) \in Nat /\ Prompt!Saturate(Prompt!Sum(P, v), scoring.k) \in Nat
  <2> DEFINE t == Prompt!Sum(Q, w)
             u == Prompt!Sum(P, v)
  <2> HIDE DEF t, u
  <2>1. t \in Nat /\ u \in Nat
    BY <1>5, <1>6 DEF t, u
  <2>2. Prompt!Saturate(t, scoring.k) \in Nat /\ Prompt!Saturate(u, scoring.k) \in Nat
    BY <2>1, <1>1, SaturateMonotone
  <2> QED
    BY <2>2 DEF t, u
<1> QED
  BY <1>5, <1>6, <1>7 DEF RiskTotal, ComplexityTotal, v, w, P, Q

\* The risk of a prompt is that of its signals, or the floor of its actions.
LEMMA RiskIs ==
    ASSUME NEW p, NEW scoring, IsScoring(scoring)
    PROVE  /\ Prompt!Risk(p, scoring) \in Nat /\ Prompt!Risk(p, scoring) >= RiskTotal(p, scoring)
           /\ Prompt!Found(p, {"destructive", "impact"}) => Prompt!Risk(p, scoring) >= 70
           /\ Prompt!Found(p, {"send", "purchase"}) => Prompt!Risk(p, scoring) >= 60
           /\ \/ Prompt!Risk(p, scoring) = RiskTotal(p, scoring)
              \/ Prompt!Risk(p, scoring) = 70 /\ Prompt!Found(p, {"destructive", "impact"})
              \/ Prompt!Risk(p, scoring) = 60 /\ Prompt!Found(p, {"send", "purchase"})
<1> DEFINE s == RiskTotal(p, scoring)
           A == IF Prompt!Found(p, {"destructive", "impact"}) THEN {70} ELSE {}
           B == IF Prompt!Found(p, {"send", "purchase"}) THEN {60} ELSE {}
           m == Prompt!Max({s} \cup A \cup B)
<1>1. Prompt!Risk(p, scoring) = m
  BY DEF Prompt!Risk, Prompt!If, RiskTotal
<1>2. s \in Nat
  BY TotalsAreNat
<1>3. m \in {s} \cup A \cup B /\ \A y \in {s} \cup A \cup B : m >= y
  <2>1. A \in SUBSET Nat /\ B \in SUBSET Nat /\ (A = {} \/ A = {70}) /\ (B = {} \/ B = {60})
    OBVIOUS
  <2> HIDE DEF s, A, B
  <2> QED
    BY <1>2, <2>1, MaxOfFloors
<1> HIDE DEF m, s
<1> QED
  BY <1>1, <1>2, <1>3 DEF s

\* The complexity of a prompt is that of its signals and 10, at most 100.
LEMMA ComplexityIs ==
    ASSUME NEW p, NEW scoring, IsScoring(scoring)
    PROVE  Prompt!Complexity(p, scoring) = IF ComplexityTotal(p, scoring) <= 90 THEN 10
         + ComplexityTotal(p, scoring) ELSE 100
<1> DEFINE s == ComplexityTotal(p, scoring)
<1>1. s \in Nat
  BY TotalsAreNat
<1>2. Prompt!Complexity(p, scoring) = Prompt!Min({100, 10 + s})
  BY DEF Prompt!Complexity, ComplexityTotal
<1> HIDE DEF s
<1>3. Prompt!Min({100, 10 + s}) = IF 10 + s <= 100 THEN 10 + s ELSE 100
  BY <1>1, MinOfTwo
<1> QED
  BY <1>1, <1>2, <1>3 DEF s

\* The weights of a router without settings are such weights.
LEMMA DefaultIsScoring == IsScoring(Prompt!DefaultScoring)
<1>1. /\ Prompt!DefaultScoring.k = 50 /\ Prompt!DefaultScoring.risk = Prompt!RiskWeights
      /\ Prompt!DefaultScoring.complexity = Prompt!ComplexityWeights
      /\ Prompt!DefaultScoring.confidence = Prompt!ConfidenceWeights
  BY DEF Prompt!DefaultScoring
<1>2. Prompt!ConfidenceWeights \in [{"ambiguous", "short_high_risk", "weak_feature_match", "empty_prompt"} -> Nat]
  BY DEF Prompt!ConfidenceWeights
<1> QED
  BY <1>1, <1>2, RiskWeighed, ComplexityWeighed DEF IsScoring

\* So are weights that make nothing of risk.
LEMMA FlatIsScoring == IsScoring(Flat)
<1>1. /\ Flat.k = 50 /\ Flat.risk = [w \in DOMAIN Prompt!RiskWeights |-> 0]
      /\ Flat.complexity = Prompt!ComplexityWeights
      /\ Flat.confidence = [w \in DOMAIN Prompt!ConfidenceWeights |-> 100]
  BY DEF Flat, Prompt!DefaultScoring
<1>2. DOMAIN Prompt!ConfidenceWeights = {"ambiguous", "short_high_risk", "weak_feature_match", "empty_prompt"}
  BY DEF Prompt!ConfidenceWeights
<1>3. DOMAIN Prompt!RiskWeights = Risks
  BY RiskWeighed
<1> QED
  BY <1>1, <1>2, <1>3, ComplexityWeighed DEF IsScoring

\* MoreIsNoLess of every two prompts: one more pattern never makes a prompt less risky or
\* less complex, and takes no confirmation away.
THEOREM MoreIsNeverLess ==
    ASSUME NEW p, NEW q, More(p, q)
    PROVE  Prompt!MoreIsNoLess(p, q)
<1> DEFINE d == Prompt!DefaultScoring
           safety == [required |-> TRUE, allow |-> {}]
<1>1. d.k = 50 /\ d.risk = Prompt!RiskWeights /\ d.complexity = Prompt!ComplexityWeights
  BY DEF Prompt!DefaultScoring
<1>2. IsScoring(d)
  BY DefaultIsScoring
<1> HIDE DEF d
<1>3. Prompt!Sum(Prompt!RiskSignals(p), d.risk) <= Prompt!Sum(Prompt!RiskSignals(q), d.risk)
  BY <1>1, MoreRiskSum, DefaultSums
<1>4. Prompt!Sum(Prompt!ComplexitySignals(p), d.complexity) <= Prompt!Sum(Prompt!ComplexitySignals(q), d.complexity)
  BY <1>1, MoreComplexitySum, DefaultSums
<1>5. RiskTotal(p, d) <= RiskTotal(q, d) /\ ComplexityTotal(p, d) <= ComplexityTotal(q, d)
  <2> DEFINE a == Prompt!Sum(Prompt!RiskSignals(p), d.risk)
             b == Prompt!Sum(Prompt!RiskSignals(q), d.risk)
             e == Prompt!Sum(Prompt!ComplexitySignals(p), d.complexity)
             f == Prompt!Sum(Prompt!ComplexitySignals(q), d.complexity)
             k == d.k
  <2>1. a \in Nat /\ b \in Nat /\ e \in Nat /\ f \in Nat /\ k \in Nat /\ k > 0
    BY <1>1, <1>2, TotalsAreNat
  <2>2. RiskTotal(p, d) = Prompt!Saturate(a, k) /\ RiskTotal(q, d) = Prompt!Saturate(b, k)
    BY DEF RiskTotal
  <2>3. ComplexityTotal(p, d) = Prompt!Saturate(e, k) /\ ComplexityTotal(q, d) = Prompt!Saturate(f, k)
    BY DEF ComplexityTotal
  <2>4. a <= b /\ e <= f
    BY <1>3, <1>4
  <2> HIDE DEF a, b, e, f, k
  <2>5. Prompt!Saturate(a, k) <= Prompt!Saturate(b, k)
    BY <2>1, <2>4, SaturateMonotone
  <2>6. Prompt!Saturate(e, k) <= Prompt!Saturate(f, k)
    BY <2>1, <2>4, SaturateMonotone
  <2> QED
    BY <2>2, <2>3, <2>5, <2>6
<1>6. /\ RiskTotal(p, d) \in Nat /\ RiskTotal(q, d) \in Nat
      /\ ComplexityTotal(p, d) \in Nat /\ ComplexityTotal(q, d) \in Nat
  BY <1>2, TotalsAreNat
<1>7. Prompt!Complexity(q, d) >= Prompt!Complexity(p, d)
  BY <1>2, <1>5, <1>6, ComplexityIs
<1>8. Prompt!Risk(q, d) >= Prompt!Risk(p, d) /\ Prompt!Risk(q, d) \in Nat /\ Prompt!Risk(p, d) \in Nat
  <2>1. Prompt!Found(p, {"destructive", "impact"}) => Prompt!Risk(q, d) >= 70
    BY <1>2, RiskIs, MoreFeatures
  <2>2. Prompt!Found(p, {"send", "purchase"}) => Prompt!Risk(q, d) >= 60
    BY <1>2, RiskIs, MoreFeatures
  <2>3. /\ Prompt!Risk(q, d) >= RiskTotal(q, d) /\ Prompt!Risk(q, d) \in Nat /\ Prompt!Risk(p, d) \in Nat
        /\ \/ Prompt!Risk(p, d) = RiskTotal(p, d)
           \/ Prompt!Risk(p, d) = 70 /\ Prompt!Found(p, {"destructive", "impact"})
           \/ Prompt!Risk(p, d) = 60 /\ Prompt!Found(p, {"send", "purchase"})
    BY <1>2, RiskIs
  <2> QED
    BY <2>1, <2>2, <2>3, <1>5, <1>6
<1>9. Prompt!TargetRoute(p, FALSE, safety, d) = "confirmation" => Prompt!NeedsHuman(p, safety, d)
     \/ Prompt!NeedsClarity(p, safety)
  BY DEF Prompt!TargetRoute
<1>10. Prompt!NeedsHuman(p, safety, d) => Prompt!NeedsHuman(q, safety, d)
  <2>1. Prompt!RequiresConfirmation(p, d) => Prompt!RequiresConfirmation(q, d)
    BY <1>8, MoreFeatures DEF Prompt!RequiresConfirmation
  <2>2. Prompt!Actions(p) \subseteq Prompt!Actions(q)
    BY MoreFeatures
  <2> QED
    BY <2>1, <2>2 DEF Prompt!NeedsHuman
<1>11. Prompt!NeedsClarity(p, safety) => Prompt!NeedsClarity(q, safety)
  BY MoreFeatures DEF Prompt!NeedsClarity
<1>12. Prompt!TargetRoute(p, FALSE, safety, d) = "confirmation"
     => Prompt!TargetRoute(q, FALSE, safety, d) = "confirmation"
  BY <1>9, <1>10, <1>11 DEF Prompt!TargetRoute
<1> QED
  BY <1>7, <1>8, <1>12 DEF Prompt!MoreIsNoLess, d

\* ActionsConfirmed of every prompt, under any settings and any weights: what
\* the weights make of an action does not decide whether a person confirms it.
THEOREM ActionsAlwaysConfirmed ==
    ASSUME NEW p, NEW safety, NEW scoring, IsScoring(scoring)
    PROVE  Prompt!ActionsConfirmed(p, safety, scoring)
<1>1. Prompt!Actions(p) # {} => Prompt!RequiresConfirmation(p, scoring) /\ Prompt!ClearSignal(p)
  BY DEF Prompt!RequiresConfirmation, Prompt!ClearSignal
<1>2. Prompt!Actions(p) # {} => Prompt!Risk(p, scoring) >= 60
  <2>1. Prompt!Actions(p) # {} => Prompt!Found(p, {"destructive", "impact"}) \/ Prompt!Found(p, {"send", "purchase"})
    BY DEF Prompt!Actions, Prompt!ActionPatterns, Prompt!Found
  <2> QED
    BY <2>1, RiskIs
<1>3. \A attached \in BOOLEAN : Prompt!TargetRoute(p, attached, safety, scoring) = "confirmation"
           <=> Prompt!NeedsHuman(p, safety, scoring) \/ Prompt!NeedsClarity(p, safety)
  BY DEF Prompt!TargetRoute
<1>4. Prompt!NeedsHuman(p, safety, scoring) \/ Prompt!NeedsClarity(p, safety)
     => Prompt!SafeProfileConfirms(p, safety, scoring)
  BY <1>1 DEF Prompt!NeedsHuman, Prompt!NeedsClarity, Prompt!SafeProfileConfirms
<1>5. safety.required /\ Prompt!Actions(p) \ safety.allow # {} => Prompt!NeedsHuman(p, safety, scoring)
  BY DEF Prompt!NeedsHuman
<1> QED
  BY <1>1, <1>2, <1>3, <1>4, <1>5 DEF Prompt!ActionsConfirmed

\* DelegationIsSafe of every prompt, under any settings and any weights: no receipt suggests
\* to delegate an action or a prompt that was to be confirmed.
THEOREM DelegationIsAlwaysSafe ==
    ASSUME NEW p, NEW safety, NEW scoring, IsScoring(scoring)
    PROVE  Prompt!DelegationIsSafe(p, safety, scoring)
<1> DEFINE target == Prompt!TargetRoute(p, FALSE, safety, scoring)
           confirmed == target = "confirmation"
<1>1. SUFFICES ASSUME Prompt!Guidance(p, confirmed, scoring) = "sidekick"
               PROVE  /\ Prompt!Actions(p) = {} /\ ~confirmed
                      /\ target = "reasoning" => Prompt!Found(p, {"mechanical"})
                           /\ Prompt!Complexity(p, scoring) >= 60
  BY DEF Prompt!DelegationIsSafe
<1>2. ~Prompt!Risky(p, confirmed) /\ ~Prompt!Judgment(p, scoring) /\ ~Prompt!Unclear(p, scoring)
  <2> HIDE DEF confirmed
  <2> QED
    BY <1>1 DEF Prompt!Guidance
<1>3. Prompt!Actions(p) = {} /\ ~confirmed
  BY <1>2 DEF Prompt!Risky
<1>4. target = "reasoning" => \/ Prompt!Complexity(p, scoring) >= 60 \/ Prompt!Found(p, {"steps"})
     \/ Prompt!LongContext(p)
                              \/ Prompt!Confidence(p, scoring) < 60
  BY DEF Prompt!TargetRoute
<1>5. /\ ~Prompt!Found(p, {"steps"}) /\ ~Prompt!LongContext(p) /\ ~(Prompt!Confidence(p, scoring) < 60)
      /\ Prompt!Complexity(p, scoring) >= 60 => Prompt!Found(p, {"mechanical"})
  BY <1>2 DEF Prompt!Judgment, Prompt!Unclear, Prompt!Found
<1> HIDE DEF target
<1> QED
  BY <1>3, <1>4, <1>5

-----------------------------------------------------------------------------
(* The ranking of engines (policy.py).                                     *)

\* Scores of an engine, in percent.
Scores == [capability : 0 .. 100, trust : 0 .. 100, cost : 0 .. 100, latency : 0 .. 100]

\* The weighed sum that _rank_engine (policy.py) rounds.
RankTotal(e, w) ==
    e.capability * w.capability + e.trust * w.trust + (100 - e.cost) * w.cost + (100 - e.latency) * w.latency

\* The weights of a ranking are those of one of four profiles.
LEMMA RankWeightsAre ==
    ASSUME NEW p, NEW quick, NEW scoring
    PROVE  Prompt!RankWeights(p, quick, scoring) \in
              {[capability |-> 20, trust |-> 20, cost |-> 10, latency |-> 50],
               [capability |-> 25, trust |-> 50, cost |-> 15, latency |-> 10],
               [capability |-> 55, trust |-> 25, cost |-> 15, latency |-> 5],
               [capability |-> 45, trust |-> 30, cost |-> 20, latency |-> 5]}
BY DEF Prompt!RankWeights

\* Rounding to a hundredth, ties to the even number, is monotone up to 100.
LEMMA RoundedHundredth ==
    ASSUME NEW x \in Nat, NEW y \in Nat, x <= y, y <= 10000
    PROVE  LET f(z) == IF 2 * (z % 100) > 100 \/ (2 * (z % 100) = 100 /\ (z \div 100) % 2 = 1) THEN (z \div 100)
         + 1 ELSE z \div 100
           IN f(x) \in Nat /\ f(y) \in Nat /\ f(x) <= f(y) /\ f(y) <= 100
OBVIOUS

\* The same sum of numbers; the four profiles; scores that are percents.
Weighed(c, t, x, y, w1, w2, w3, w4) == c * w1 + t * w2 + (100 - x) * w3 + (100 - y) * w4

Weights(w1, w2, w3, w4) ==
    \/ w1 = 20 /\ w2 = 20 /\ w3 = 10 /\ w4 = 50
    \/ w1 = 25 /\ w2 = 50 /\ w3 = 15 /\ w4 = 10
    \/ w1 = 55 /\ w2 = 25 /\ w3 = 15 /\ w4 = 5
    \/ w1 = 45 /\ w2 = 30 /\ w3 = 20 /\ w4 = 5

InPercent(c, t, x, y) == c \in 0 .. 100 /\ t \in 0 .. 100 /\ x \in 0 .. 100 /\ y \in 0 .. 100

\* A weighed sum of percents is at most 10000.
LEMMA WeighedInRange ==
    ASSUME NEW c, NEW t, NEW x, NEW y, InPercent(c, t, x, y),
           NEW w1, NEW w2, NEW w3, NEW w4, Weights(w1, w2, w3, w4)
    PROVE  Weighed(c, t, x, y, w1, w2, w3, w4) \in Nat /\ Weighed(c, t, x, y, w1, w2, w3, w4) <= 10000
BY DEF Weighed, Weights, InPercent

\* A better engine weighs no less.
LEMMA WeighedMonotone ==
    ASSUME NEW c, NEW t, NEW x, NEW y, InPercent(c, t, x, y),
           NEW cc, NEW tt, NEW xx, NEW yy, InPercent(cc, tt, xx, yy),
           NEW w1, NEW w2, NEW w3, NEW w4, Weights(w1, w2, w3, w4),
           cc >= c, tt >= t, xx <= x, yy <= y
    PROVE  Weighed(c, t, x, y, w1, w2, w3, w4) <= Weighed(cc, tt, xx, yy, w1, w2, w3, w4)
BY DEF Weighed, Weights, InPercent

\* A better engine ranks no lower, in spite of the rounding.
LEMMA RankBetter ==
    ASSUME NEW p, NEW quick, NEW d \in Scores, NEW e \in Scores, NEW w,
           w = Prompt!RankWeights(p, quick, Prompt!DefaultScoring)
    PROVE  /\ Prompt!Rank(e, w) \in 0 .. 100 /\ Prompt!Rank(d, w) \in 0 .. 100
           /\ d.capability >= e.capability /\ d.trust >= e.trust /\ d.cost <= e.cost /\ d.latency <= e.latency
              => Prompt!Rank(e, w) <= Prompt!Rank(d, w)
<1> DEFINE a == RankTotal(e, w)
           b == RankTotal(d, w)
           f(z) == IF 2 * (z % 100) > 100 \/ (2 * (z % 100) = 100 /\ (z \div 100) % 2 = 1) THEN (z \div 100)
                + 1 ELSE z \div 100
<1>1. /\ e.capability \in 0 .. 100 /\ e.trust \in 0 .. 100 /\ e.cost \in 0 .. 100 /\ e.latency \in 0 .. 100
      /\ d.capability \in 0 .. 100 /\ d.trust \in 0 .. 100 /\ d.cost \in 0 .. 100 /\ d.latency \in 0 .. 100
  BY DEF Scores
<1>0. \/ w.capability = 20 /\ w.trust = 20 /\ w.cost = 10 /\ w.latency = 50
      \/ w.capability = 25 /\ w.trust = 50 /\ w.cost = 15 /\ w.latency = 10
      \/ w.capability = 55 /\ w.trust = 25 /\ w.cost = 15 /\ w.latency = 5
      \/ w.capability = 45 /\ w.trust = 30 /\ w.cost = 20 /\ w.latency = 5
  BY RankWeightsAre
<1>2. a \in Nat /\ b \in Nat /\ a <= 10000 /\ b <= 10000
      /\ (d.capability >= e.capability /\ d.trust >= e.trust /\ d.cost <= e.cost /\ d.latency <= e.latency => a <= b)
  <2>1. /\ a = Weighed(e.capability, e.trust, e.cost, e.latency, w.capability, w.trust, w.cost, w.latency)
        /\ b = Weighed(d.capability, d.trust, d.cost, d.latency, w.capability, w.trust, w.cost, w.latency)
    BY DEF RankTotal, Weighed
  <2> DEFINE c == e.capability
             t == e.trust
             x == e.cost
             y == e.latency
             cc == d.capability
             tt == d.trust
             xx == d.cost
             yy == d.latency
             w1 == w.capability
             w2 == w.trust
             w3 == w.cost
             w4 == w.latency
  <2>2. InPercent(c, t, x, y) /\ InPercent(cc, tt, xx, yy)
    BY <1>1 DEF InPercent
  <2>3. Weights(w1, w2, w3, w4)
    BY <1>0 DEF Weights
  <2> HIDE DEF a, b, c, t, x, y, cc, tt, xx, yy, w1, w2, w3, w4
  <2>4. a \in Nat /\ b \in Nat /\ a <= 10000 /\ b <= 10000
    BY <2>1, <2>2, <2>3, WeighedInRange DEF c, t, x, y, cc, tt, xx, yy, w1, w2, w3, w4
  <2>5. cc >= c /\ tt >= t /\ xx <= x /\ yy <= y
          => Weighed(c, t, x, y, w1, w2, w3, w4) <= Weighed(cc, tt, xx, yy, w1, w2, w3, w4)
    BY <2>2, <2>3, WeighedMonotone
  <2> QED
    BY <2>1, <2>4, <2>5 DEF c, t, x, y, cc, tt, xx, yy, w1, w2, w3, w4
<1>3. Prompt!Rank(e, w) = f(a) /\ Prompt!Rank(d, w) = f(b)
  BY DEF Prompt!Rank, RankTotal
<1> HIDE DEF a, b
<1>4. f(a) \in Nat /\ f(b) \in Nat /\ f(a) <= 100 /\ f(b) <= 100 /\ (a <= b => f(a) <= f(b))
  BY <1>2, RoundedHundredth
<1> HIDE DEF f
<1> QED
  BY <1>2, <1>3, <1>4

\* RankingDominates of every prompt and of all scores in percent: an engine that is better
\* in everything is ranked first, and one that is no better never above it.
THEOREM RankingAlwaysDominates ==
    ASSUME NEW p, NEW quick, NEW d \in Scores, NEW e \in Scores
    PROVE  Prompt!RankingDominates(p, quick, d, e)
<1> DEFINE w == Prompt!RankWeights(p, quick, Prompt!DefaultScoring)
           k == Prompt!SortKey(d, w)
           l == Prompt!SortKey(e, w)
<1>1. /\ Prompt!Rank(e, w) \in 0 .. 100 /\ Prompt!Rank(d, w) \in 0 .. 100
      /\ d.capability >= e.capability /\ d.trust >= e.trust /\ d.cost <= e.cost /\ d.latency <= e.latency
              => Prompt!Rank(e, w) <= Prompt!Rank(d, w)
  BY RankBetter
<1> HIDE DEF w
<1>2. /\ DOMAIN k = 1 .. 4 /\ k[1] = Prompt!Rank(d, w) /\ k[2] = d.capability /\ k[3] = 100 - d.cost
     /\ k[4] = 100 - d.latency
      /\ DOMAIN l = 1 .. 4 /\ l[1] = Prompt!Rank(e, w) /\ l[2] = e.capability /\ l[3] = 100 - e.cost
           /\ l[4] = 100 - e.latency
  BY DEF Prompt!SortKey
<1> HIDE DEF k, l
<1> DEFINE dc == d.cost
           dl == d.latency
           ec == e.cost
           el == e.latency
           Better == d.capability >= e.capability /\ d.trust >= e.trust /\ d.cost <= e.cost /\ d.latency <= e.latency
           Differs == d.capability # e.capability \/ d.cost # e.cost \/ d.latency # e.latency
<1>3. /\ d.capability \in Nat /\ dc \in 0 .. 100 /\ dl \in 0 .. 100
      /\ e.capability \in Nat /\ ec \in 0 .. 100 /\ el \in 0 .. 100
  BY DEF Scores
<1>4. /\ k[1] \in Int /\ k[2] \in Int /\ k[3] \in Int /\ k[4] \in Int
      /\ l[1] \in Int /\ l[2] \in Int /\ l[3] \in Int /\ l[4] \in Int
  BY <1>1, <1>2, <1>3
<1>5. Better => l[1] <= k[1] /\ l[2] <= k[2] /\ dc <= ec /\ dl <= el
  BY <1>1, <1>2
<1>6. Differs => d.capability # e.capability \/ dc # ec \/ dl # el
  OBVIOUS
<1>7. k[3] = 100 - dc /\ k[4] = 100 - dl /\ l[3] = 100 - ec /\ l[4] = 100 - el
  BY <1>2
<1>8. DOMAIN k = 1 .. 4 /\ DOMAIN l = 1 .. 4 /\ k[2] = d.capability /\ l[2] = e.capability
  BY <1>2
<1> HIDE DEF dc, dl, ec, el, Better, Differs
<1>9. Better => l[3] <= k[3] /\ l[4] <= k[4]
  BY <1>3, <1>5, <1>7
<1>10. Differs => k[2] # l[2] \/ k[3] # l[3] \/ k[4] # l[4]
  BY <1>3, <1>6, <1>7, <1>8
<1>11. ASSUME Better PROVE ~Prompt!Above(l, k)
  <2>1. \A i \in DOMAIN l : ~(l[i] > k[i])
    BY <1>4, <1>5, <1>8, <1>9, <1>11
  <2> QED
    BY <2>1 DEF Prompt!Above
<1>12. ASSUME Better, Differs PROVE Prompt!Above(k, l)
  <2>1. \/ k[1] > l[1]
        \/ k[1] = l[1] /\ k[2] > l[2]
        \/ k[1] = l[1] /\ k[2] = l[2] /\ k[3] > l[3]
        \/ k[1] = l[1] /\ k[2] = l[2] /\ k[3] = l[3] /\ k[4] > l[4]
    BY <1>4, <1>5, <1>9, <1>10, <1>12
  <2>2. \E i \in DOMAIN k : k[i] > l[i] /\ \A j \in 1 .. i - 1 : k[j] = l[j]
    <3>1. 1 \in DOMAIN k /\ 2 \in DOMAIN k /\ 3 \in DOMAIN k /\ 4 \in DOMAIN k
      BY <1>8
    <3>2. 1 .. 1 - 1 = {} /\ 1 .. 2 - 1 = {1} /\ 1 .. 3 - 1 = {1, 2} /\ 1 .. 4 - 1 = {1, 2, 3}
      OBVIOUS
    <3> QED
      BY <2>1, <3>1, <3>2
  <2> QED
    BY <2>2 DEF Prompt!Above
<1>13. /\ Better <=> d.capability >= e.capability /\ d.trust >= e.trust /\ d.cost <= e.cost /\ d.latency <= e.latency
       /\ Differs <=> d.capability # e.capability \/ d.cost # e.cost \/ d.latency # e.latency
  BY DEF Better, Differs
<1> QED
  BY <1>1, <1>11, <1>12, <1>13 DEF Prompt!RankingDominates, k, l, w

-----------------------------------------------------------------------------
(* The packaged benchmark (workflow_benchmark.py).                         *)

\* A prompt without anything that asks for a person.
Calm(p) ==
    /\ p.words > 4 /\ p.found \cap {"legal", "medical", "financial", "production", "security", "pii"} = {}
    /\ Prompt!Actions(p) = {}

\* Such a prompt needs no confirmation, and is without risk if it names no file or shell.
LEMMA CalmIsNotConfirmed ==
    ASSUME NEW p, p.words \in Nat, Calm(p), NEW safety
    PROVE  /\ ~Prompt!Sensitive(p) /\ ~Prompt!Ambiguous(p) /\ ~Prompt!RequiresConfirmation(p, Prompt!DefaultScoring)
           /\ ~Prompt!NeedsHuman(p, safety, Prompt!DefaultScoring) /\ ~Prompt!NeedsClarity(p, safety)
           /\ p.found \cap {"file", "shell", "github"} = {} => Prompt!Risk(p, Prompt!DefaultScoring) = 0
<1> DEFINE d == Prompt!DefaultScoring
           S == Prompt!RiskSignals(p)
           w == Prompt!RiskWeights
<1>1. ~Prompt!Sensitive(p) /\ ~Prompt!Ambiguous(p)
  BY DEF Calm, Prompt!Sensitive, Prompt!Ambiguous, Prompt!Found, Prompt!Domains
<1>2. /\ ~Prompt!Found(p, {"destructive"}) /\ ~Prompt!Found(p, {"send"}) /\ ~Prompt!Found(p, {"purchase"})
      /\ ~Prompt!Found(p, {"destructive", "impact"}) /\ ~Prompt!Found(p, {"send", "purchase"})
  BY DEF Calm, Prompt!Actions, Prompt!ActionPatterns, Prompt!Found
<1>3. S = IF p.found \cap {"file", "shell", "github"} = {} THEN {} ELSE {"file_shell_github"}
  <2>1. p.found \cap Prompt!Domains = {} /\ p.found \cap {"production", "security", "pii"} = {}
    BY DEF Calm, Prompt!Domains
  <2> QED
    BY <1>1, <1>2, <2>1 DEF Calm, Prompt!RiskSignals, Prompt!If, Prompt!Found
<1>4. Prompt!Sum(S, w) = RiskSum(S, w)
  BY SumOfRisks, RiskWeighed, RiskSignalsAre
<1>5. RiskSum({}, w) = 0 /\ RiskSum({"file_shell_github"}, w) = 25
  <2>1. w["file_shell_github"] = 25
    BY DEF Prompt!RiskWeights
  <2> HIDE DEF w
  <2> QED
    BY <2>1 DEF RiskSum, Part
<1>6. Prompt!Saturate(0, 50) = 0 /\ Prompt!Saturate(25, 50) = 33
  BY DEF Prompt!Saturate
<1>7. RiskTotal(p, d) = IF p.found \cap {"file", "shell", "github"} = {} THEN 0 ELSE 33
  <2>1. d.risk = w /\ d.k = 50
    BY DEF Prompt!DefaultScoring
  <2> HIDE DEF d, w, S
  <2>2. RiskTotal(p, d) = Prompt!Saturate(RiskSum(S, w), 50)
    BY <2>1, <1>4 DEF RiskTotal, S
  <2> QED
    BY <2>2, <1>3, <1>5, <1>6
<1> HIDE DEF d
<1>8. Prompt!Risk(p, d) = RiskTotal(p, d)
  BY <1>2, RiskIs, DefaultIsScoring DEF d
<1>9. ~Prompt!RequiresConfirmation(p, d)
  BY <1>7, <1>8 DEF Prompt!RequiresConfirmation, Calm
<1> QED
  BY <1>1, <1>7, <1>8, <1>9 DEF Prompt!NeedsHuman, Prompt!NeedsClarity, d, Calm

\* The settings of a router without settings.
Strict == [required |-> TRUE, allow |-> {}]

\* A route is that of the image a case has or has not.
LEMMA AttachedIs ==
    ASSUME NEW p, NEW attached \in BOOLEAN, NEW t, NEW image,
           Prompt!TargetRoute(p, attached, Strict, Prompt!DefaultScoring) = t, image = attached
    PROVE  Prompt!TargetRoute(p, image, Strict, Prompt!DefaultScoring) = t
OBVIOUS

\* A case passes when the route, the engine, the confirmation and the signals are its own.
LEMMA PassesWhen ==
    ASSUME NEW c, NEW t, NEW g, Prompt!TargetRoute(c.p, c.image, Strict, Prompt!DefaultScoring) = t,
           g = Prompt!Signals(c.p, t = "confirmation"),
           Prompt!Engine[t] = c.engine, c.confirm = (t = "confirmation"),
           \A s \in DOMAIN c.signals : g[s] = c.signals[s]
    PROVE  Prompt!FailuresOf(c, Strict) = {}
<1>1. (Prompt!TargetRoute(c.p, c.image, Strict, Prompt!DefaultScoring) = "confirmation") = c.confirm
  OBVIOUS
<1>2. \A s \in DOMAIN c.signals : ~(Prompt!Signals(c.p, Prompt!TargetRoute(c.p, c.image, Strict,
     Prompt!DefaultScoring) = "confirmation")[s] # c.signals[s])
  OBVIOUS
<1> QED
  BY <1>1, <1>2 DEF Prompt!FailuresOf

\* A calm prompt about code goes to the coding route.
LEMMA CodingRoute ==
    ASSUME NEW p, p.words \in Nat, Calm(p), "coding" \in p.found, "image" \notin p.found, "vision" \notin p.found,
         "current" \notin p.found
    PROVE  Prompt!TargetRoute(p, FALSE, Strict, Prompt!DefaultScoring) = "coding"
BY CalmIsNotConfirmed DEF Prompt!TargetRoute, Prompt!Image, Prompt!Vision, Prompt!Freshness, Prompt!Found

\* A calm prompt about current facts goes to the research route.
LEMMA FreshRoute ==
    ASSUME NEW p, p.words \in Nat, Calm(p), "research" \in p.found, "current" \in p.found, "image" \notin p.found,
         "vision" \notin p.found
    PROVE  Prompt!TargetRoute(p, FALSE, Strict, Prompt!DefaultScoring) = "research"
BY CalmIsNotConfirmed DEF Prompt!TargetRoute, Prompt!Image, Prompt!Vision, Prompt!Freshness, Prompt!Found

\* The complexity of a prompt that has no signal of it, or just one.
LEMMA LowComplexity ==
    ASSUME NEW p, Prompt!ComplexitySignals(p) \in {{}, {"structured"}}
    PROVE  Prompt!Complexity(p, Prompt!DefaultScoring) = IF Prompt!ComplexitySignals(p) = {} THEN 10 ELSE 24
<1> DEFINE P == Prompt!ComplexitySignals(p)
           v == Prompt!ComplexityWeights
           d == Prompt!DefaultScoring
<1>1. ComplexitySum({}, v) = 0 /\ ComplexitySum({"structured"}, v) = 8
  <2>1. v["structured"] = 8
    BY DEF Prompt!ComplexityWeights
  <2> HIDE DEF v
  <2> QED
    BY <2>1 DEF ComplexitySum, Part
<1>2. Prompt!Sum(P, v) = ComplexitySum(P, v)
  BY SumOfComplexities, ComplexityWeighed, ComplexitySignalsAre
<1>3. Prompt!Saturate(0, 50) = 0 /\ Prompt!Saturate(8, 50) = 14
  BY DEF Prompt!Saturate
<1>4. ComplexityTotal(p, d) = IF P = {} THEN 0 ELSE 14
  <2>1. d.complexity = v /\ d.k = 50
    BY DEF Prompt!DefaultScoring
  <2> HIDE DEF d, v, P
  <2>2. ComplexityTotal(p, d) = Prompt!Saturate(ComplexitySum(P, v), 50)
    BY <2>1, <1>2 DEF ComplexityTotal, P
  <2>3. P = {} \/ P = {"structured"}
    BY DEF P
  <2> QED
    BY <2>2, <2>3, <1>1, <1>3
<1> HIDE DEF d
<1> QED
  BY <1>4, ComplexityIs, DefaultIsScoring DEF d

\* A clear and calm prompt is scored with confidence.
LEMMA ClearIsConfident ==
    ASSUME NEW p, p.words \in Nat, p.chars \in Nat \ {0}, Calm(p), Prompt!ClearSignal(p)
    PROVE  Prompt!Confidence(p, Prompt!DefaultScoring) = 90
<1>1. ~Prompt!Ambiguous(p) /\ ~Prompt!RequiresConfirmation(p, Prompt!DefaultScoring)
  BY CalmIsNotConfirmed
<1> QED
  BY <1>1 DEF Prompt!Confidence

\* The thirteen cases that workflow_benchmark.py packages.
RewriteCase == Prompt!Case("simple_rewrite", {"simple", "vague"}, 70, 11, "fast_local", <<>>)
SummaryCase == Prompt!Case("ordinary_summary", {"fresh_object", "structured", "clear"}, 57, 8, "balanced_local", <<>>)
TestWorkCase == Prompt!Case("repo_test_work", {"coding", "shell", "tool", "verification", "repo_wide", "vague"},
     62, 11, "code_agent", <<>>)
InformationCase == Prompt!Case("current_information", {"research", "current"}, 69, 11, "web_research", <<>>)
ScreenshotCase == Prompt!Case("screenshot_ocr", {"simple", "vision", "vague", "clear"}, 62, 10,
     "multimodal_vision", <<>>)
ImageCase == Prompt!Case("image_generation", {"image", "vision"}, 59, 9, "image_generation", <<>>)
RiskyCase == Prompt!Case("risky_external_action", {"github", "production", "impact", "vague"}, 53, 9, "human_confirm",
             [risky |-> TRUE, mechanical |-> FALSE])
PrivateCase == Prompt!Case("private_current_information", {"research", "current"}, 48, 7, "web_research", <<>>)
QualityCase == Prompt!Case("quality_reasoning", {"steps", "architecture", "mechanical", "judgment"}, 80, 11,
     "reasoning_local", <<>>)
BulkCase == Prompt!Case("mechanical_bulk_edit", {"coding", "tool", "mechanical", "repo_wide"}, 118, 15, "code_agent",
             [mechanical |-> TRUE, repo_wide |-> TRUE, risky |-> FALSE])
SuiteCase == Prompt!Case("slow_test_suite", {"coding", "shell", "tool", "verification", "repo_wide", "vague"}, 114,
     21, "code_agent",
             [verification |-> TRUE, repo_wide |-> TRUE, risky |-> FALSE])
ChangeCase == Prompt!Case("judgment_heavy_ui_product_change", {"coding", "steps", "judgment"}, 128, 21, "code_agent",
             [judgment |-> TRUE, mechanical |-> FALSE, risky |-> FALSE])
IntegrationCase == Prompt!Case("hard_mechanical_integration", {"coding", "mechanical", "judgment", "repo_wide"},
     204, 32, "code_agent",
             [mechanical |-> TRUE, judgment |-> TRUE, repo_wide |-> TRUE, risky |-> FALSE])

\* A short rewrite goes to the fast engine.
LEMMA RewritePasses ==
    ASSUME NEW c, c = RewriteCase
    PROVE  Prompt!FailuresOf(c, Strict) = {}
<1> DEFINE p == c.p
           d == Prompt!DefaultScoring
           g == Prompt!Signals(p, "simple" = "confirmation")
<1>1. /\ p.found = {"simple", "vague"} /\ p.chars = 70 /\ p.words = 11
      /\ c.image = FALSE /\ c.engine = "fast_local" /\ c.confirm = FALSE
      /\ c.signals = <<>>
  BY DEF Prompt!Case, RewriteCase
<1> HIDE DEF p, d, g
<1>2. Calm(p)
  BY <1>1 DEF Calm, Prompt!Actions, Prompt!ActionPatterns
<1>3. p.words \in Nat /\ p.chars \in Nat \ {0}
  BY <1>1
<1>4. /\ ~Prompt!Sensitive(p) /\ ~Prompt!Ambiguous(p)
      /\ ~Prompt!NeedsHuman(p, Strict, d) /\ ~Prompt!NeedsClarity(p, Strict)
      /\ p.found \cap {"file", "shell", "github"} = {} => Prompt!Risk(p, d) = 0
  BY <1>2, <1>3, CalmIsNotConfirmed DEF d
<1>5. /\ ~Prompt!Image(p) /\ ~Prompt!Vision(p) /\ ~Prompt!Freshness(p) /\ ~Prompt!ToolsNeeded(p)
      /\ ~Prompt!Found(p, {"coding"}) /\ ~Prompt!Found(p, {"steps"}) /\ ~Prompt!Found(p, {"current"})
      /\ Prompt!Found(p, {"simple"})
  BY <1>1 DEF Prompt!ToolsNeeded, Prompt!Freshness, Prompt!CodeExecution, Prompt!Vision, Prompt!Image, Prompt!Found
<1>6. ~Prompt!LongContext(p) /\ Prompt!Tokens(p) \in Nat /\ Prompt!Tokens(p) <= 200
  BY <1>1 DEF Prompt!Tokens, Prompt!LongContext
<1>7. Prompt!ComplexitySignals(p) = {}
  <2>1. p.found \cap {"coding", "steps", "architecture", "structured"} = {} /\ p.found \cap {"research"} = {}
    BY <1>1
  <2> QED
    BY <1>4, <1>5, <1>6, <2>1 DEF Prompt!ComplexitySignals, Prompt!If
<1>8. Prompt!Complexity(p, d) = 10
  <2>1. Prompt!ComplexitySignals(p) \in {{}, {"structured"}} /\ (Prompt!ComplexitySignals(p) = {}) = TRUE
    BY <1>7
  <2> QED
    BY <2>1, LowComplexity DEF d
<1>9. Prompt!Confidence(p, d) = 90
  <2>1. Prompt!ClearSignal(p)
    BY <1>1 DEF Prompt!ClearSignal, Prompt!Found
  <2> QED
    BY <1>2, <1>3, <2>1, ClearIsConfident DEF d
<1>10. Prompt!TargetRoute(p, FALSE, Strict, d) = "simple"
  <2>1. Prompt!Risk(p, d) = 0
    BY <1>1, <1>4
  <2> QED
    BY <1>4, <1>5, <1>6, <1>8, <1>9, <2>1 DEF Prompt!TargetRoute
<1>11. Prompt!TargetRoute(p, c.image, Strict, d) = "simple"
  BY <1>1, <1>10, AttachedIs DEF d
<1>12. DOMAIN c.signals = {}
  BY <1>1
<1>13. Prompt!Engine["simple"] = c.engine /\ c.confirm = ("simple" = "confirmation")
  BY <1>1 DEF Prompt!Engine
<1> QED
  BY <1>11, <1>12, <1>13, PassesWhen DEF p, d, g

\* A summary goes to the balanced engine.
LEMMA SummaryPasses ==
    ASSUME NEW c, c = SummaryCase
    PROVE  Prompt!FailuresOf(c, Strict) = {}
<1> DEFINE p == c.p
           d == Prompt!DefaultScoring
           g == Prompt!Signals(p, "balanced" = "confirmation")
<1>1. /\ p.found = {"fresh_object", "structured", "clear"} /\ p.chars = 57 /\ p.words = 8
      /\ c.image = FALSE /\ c.engine = "balanced_local" /\ c.confirm = FALSE
      /\ c.signals = <<>>
  BY DEF Prompt!Case, SummaryCase
<1> HIDE DEF p, d, g
<1>2. Calm(p)
  BY <1>1 DEF Calm, Prompt!Actions, Prompt!ActionPatterns
<1>3. p.words \in Nat /\ p.chars \in Nat \ {0}
  BY <1>1
<1>4. /\ ~Prompt!Sensitive(p) /\ ~Prompt!Ambiguous(p)
      /\ ~Prompt!NeedsHuman(p, Strict, d) /\ ~Prompt!NeedsClarity(p, Strict)
      /\ p.found \cap {"file", "shell", "github"} = {} => Prompt!Risk(p, d) = 0
  BY <1>2, <1>3, CalmIsNotConfirmed DEF d
<1>5. /\ ~Prompt!Image(p) /\ ~Prompt!Vision(p) /\ ~Prompt!Freshness(p) /\ ~Prompt!ToolsNeeded(p)
      /\ ~Prompt!Found(p, {"coding"}) /\ ~Prompt!Found(p, {"steps"}) /\ ~Prompt!Found(p, {"current"})
      /\ ~Prompt!Found(p, {"simple"})
  BY <1>1 DEF Prompt!ToolsNeeded, Prompt!Freshness, Prompt!CodeExecution, Prompt!Vision, Prompt!Image, Prompt!Found
<1>6. ~Prompt!LongContext(p) /\ Prompt!Tokens(p) \in Nat /\ Prompt!Tokens(p) <= 200
  BY <1>1 DEF Prompt!Tokens, Prompt!LongContext
<1>7. Prompt!ComplexitySignals(p) = {"structured"}
  <2>1. p.found \cap {"coding", "steps", "architecture", "structured"} = {"structured"}
       /\ p.found \cap {"research"} = {}
    BY <1>1
  <2> QED
    BY <1>4, <1>5, <1>6, <2>1 DEF Prompt!ComplexitySignals, Prompt!If
<1>8. Prompt!Complexity(p, d) = 24
  <2>1. Prompt!ComplexitySignals(p) \in {{}, {"structured"}} /\ (Prompt!ComplexitySignals(p) = {}) = FALSE
    BY <1>7
  <2> QED
    BY <2>1, LowComplexity DEF d
<1>9. Prompt!Confidence(p, d) = 90
  <2>1. Prompt!ClearSignal(p)
    BY <1>1 DEF Prompt!ClearSignal, Prompt!Found
  <2> QED
    BY <1>2, <1>3, <2>1, ClearIsConfident DEF d
<1>10. Prompt!TargetRoute(p, FALSE, Strict, d) = "balanced"
  <2>1. Prompt!Risk(p, d) = 0
    BY <1>1, <1>4
  <2> QED
    BY <1>4, <1>5, <1>6, <1>8, <1>9, <2>1 DEF Prompt!TargetRoute
<1>11. Prompt!TargetRoute(p, c.image, Strict, d) = "balanced"
  BY <1>1, <1>10, AttachedIs DEF d
<1>12. DOMAIN c.signals = {}
  BY <1>1
<1>13. Prompt!Engine["balanced"] = c.engine /\ c.confirm = ("balanced" = "confirmation")
  BY <1>1 DEF Prompt!Engine
<1> QED
  BY <1>11, <1>12, <1>13, PassesWhen DEF p, d, g

\* Work on the tests of a repository goes to the coding engine.
LEMMA TestWorkPasses ==
    ASSUME NEW c, c = TestWorkCase
    PROVE  Prompt!FailuresOf(c, Strict) = {}
<1> DEFINE p == c.p
           d == Prompt!DefaultScoring
           g == Prompt!Signals(p, "coding" = "confirmation")
<1>1. /\ p.found = {"coding", "shell", "tool", "verification", "repo_wide", "vague"} /\ p.chars = 62 /\ p.words = 11
      /\ c.image = FALSE /\ c.engine = "code_agent" /\ c.confirm = FALSE
      /\ c.signals = <<>>
  BY DEF Prompt!Case, TestWorkCase
<1> HIDE DEF p, d, g
<1>2. Calm(p)
  BY <1>1 DEF Calm, Prompt!Actions, Prompt!ActionPatterns
<1>3. p.words \in Nat /\ "coding" \in p.found /\ "image" \notin p.found /\ "vision" \notin p.found
     /\ "current" \notin p.found
  BY <1>1
<1>4. Prompt!TargetRoute(p, FALSE, Strict, d) = "coding"
  BY <1>2, <1>3, CodingRoute DEF d
<1>5. Prompt!TargetRoute(p, c.image, Strict, d) = "coding"
  BY <1>1, <1>4, AttachedIs DEF d
<1>6. DOMAIN c.signals = {}
  BY <1>1
<1>7. Prompt!Engine["coding"] = c.engine /\ c.confirm = ("coding" = "confirmation")
  BY <1>1 DEF Prompt!Engine
<1> QED
  BY <1>5, <1>6, <1>7, PassesWhen DEF p, d, g

\* A question about current facts goes to the research engine.
LEMMA InformationPasses ==
    ASSUME NEW c, c = InformationCase
    PROVE  Prompt!FailuresOf(c, Strict) = {}
<1> DEFINE p == c.p
           d == Prompt!DefaultScoring
           g == Prompt!Signals(p, "research" = "confirmation")
<1>1. /\ p.found = {"research", "current"} /\ p.chars = 69 /\ p.words = 11
      /\ c.image = FALSE /\ c.engine = "web_research" /\ c.confirm = FALSE
      /\ c.signals = <<>>
  BY DEF Prompt!Case, InformationCase
<1> HIDE DEF p, d, g
<1>2. Calm(p)
  BY <1>1 DEF Calm, Prompt!Actions, Prompt!ActionPatterns
<1>3. p.words \in Nat /\ "research" \in p.found /\ "current" \in p.found /\ "image" \notin p.found
     /\ "vision" \notin p.found
  BY <1>1
<1>4. Prompt!TargetRoute(p, FALSE, Strict, d) = "research"
  BY <1>2, <1>3, FreshRoute DEF d
<1>5. Prompt!TargetRoute(p, c.image, Strict, d) = "research"
  BY <1>1, <1>4, AttachedIs DEF d
<1>6. DOMAIN c.signals = {}
  BY <1>1
<1>7. Prompt!Engine["research"] = c.engine /\ c.confirm = ("research" = "confirmation")
  BY <1>1 DEF Prompt!Engine
<1> QED
  BY <1>5, <1>6, <1>7, PassesWhen DEF p, d, g

\* A screenshot to read goes to the engine that sees.
LEMMA ScreenshotPasses ==
    ASSUME NEW c, c = ScreenshotCase
    PROVE  Prompt!FailuresOf(c, Strict) = {}
<1> DEFINE p == c.p
           d == Prompt!DefaultScoring
           g == Prompt!Signals(p, "vision" = "confirmation")
<1>1. /\ p.found = {"simple", "vision", "vague", "clear"} /\ p.chars = 62 /\ p.words = 10
      /\ c.image = TRUE /\ c.engine = "multimodal_vision" /\ c.confirm = FALSE
      /\ c.signals = <<>>
  BY DEF Prompt!Case, ScreenshotCase
<1> HIDE DEF p, d, g
<1>2. Calm(p)
  BY <1>1 DEF Calm, Prompt!Actions, Prompt!ActionPatterns
<1>3. Prompt!TargetRoute(p, TRUE, Strict, d) = "vision"
  <2>1. p.words \in Nat
    BY <1>1
  <2>2. ~Prompt!NeedsHuman(p, Strict, d) /\ ~Prompt!NeedsClarity(p, Strict)
    BY <1>2, <2>1, CalmIsNotConfirmed DEF d
  <2> QED
    BY <1>1, <2>2 DEF Prompt!TargetRoute, Prompt!Image, Prompt!Vision, Prompt!Freshness, Prompt!Found
<1>4. Prompt!TargetRoute(p, c.image, Strict, d) = "vision"
  BY <1>1, <1>3, AttachedIs DEF d
<1>5. DOMAIN c.signals = {}
  BY <1>1
<1>6. Prompt!Engine["vision"] = c.engine /\ c.confirm = ("vision" = "confirmation")
  BY <1>1 DEF Prompt!Engine
<1> QED
  BY <1>4, <1>5, <1>6, PassesWhen DEF p, d, g

\* An image to make goes to the engine that makes one.
LEMMA ImagePasses ==
    ASSUME NEW c, c = ImageCase
    PROVE  Prompt!FailuresOf(c, Strict) = {}
<1> DEFINE p == c.p
           d == Prompt!DefaultScoring
           g == Prompt!Signals(p, "image_generation" = "confirmation")
<1>1. /\ p.found = {"image", "vision"} /\ p.chars = 59 /\ p.words = 9
      /\ c.image = FALSE /\ c.engine = "image_generation" /\ c.confirm = FALSE
      /\ c.signals = <<>>
  BY DEF Prompt!Case, ImageCase
<1> HIDE DEF p, d, g
<1>2. Calm(p)
  BY <1>1 DEF Calm, Prompt!Actions, Prompt!ActionPatterns
<1>3. Prompt!TargetRoute(p, FALSE, Strict, d) = "image_generation"
  <2>1. p.words \in Nat
    BY <1>1
  <2>2. ~Prompt!NeedsHuman(p, Strict, d) /\ ~Prompt!NeedsClarity(p, Strict)
    BY <1>2, <2>1, CalmIsNotConfirmed DEF d
  <2> QED
    BY <1>1, <2>2 DEF Prompt!TargetRoute, Prompt!Image, Prompt!Vision, Prompt!Freshness, Prompt!Found
<1>4. Prompt!TargetRoute(p, c.image, Strict, d) = "image_generation"
  BY <1>1, <1>3, AttachedIs DEF d
<1>5. DOMAIN c.signals = {}
  BY <1>1
<1>6. Prompt!Engine["image_generation"] = c.engine /\ c.confirm = ("image_generation" = "confirmation")
  BY <1>1 DEF Prompt!Engine
<1> QED
  BY <1>4, <1>5, <1>6, PassesWhen DEF p, d, g

\* An action in production goes to a person, and is called risky.
LEMMA RiskyPasses ==
    ASSUME NEW c, c = RiskyCase
    PROVE  Prompt!FailuresOf(c, Strict) = {}
<1> DEFINE p == c.p
           d == Prompt!DefaultScoring
           g == Prompt!Signals(p, "confirmation" = "confirmation")
<1>1. /\ p.found = {"github", "production", "impact", "vague"} /\ p.chars = 53 /\ p.words = 9
      /\ c.image = FALSE /\ c.engine = "human_confirm" /\ c.confirm = TRUE
      /\ c.signals = [risky |-> TRUE, mechanical |-> FALSE]
  BY DEF Prompt!Case, RiskyCase
<1> HIDE DEF p, d, g
<1>2. Prompt!TargetRoute(p, FALSE, Strict, d) = "confirmation"
  <2>1. "impact" \in Prompt!Actions(p)
    BY <1>1 DEF Prompt!Actions, Prompt!ActionPatterns
  <2>2. Prompt!NeedsHuman(p, Strict, d)
    BY <2>1 DEF Prompt!NeedsHuman, Strict
  <2> QED
    BY <2>2 DEF Prompt!TargetRoute
<1>3. Prompt!TargetRoute(p, c.image, Strict, d) = "confirmation"
  BY <1>1, <1>2, AttachedIs DEF d
<1>4. g.risky = TRUE /\ g.mechanical = FALSE
  BY DEF Prompt!Signals, Prompt!Risky, Prompt!Mechanical, g
<1>5. \A s \in DOMAIN c.signals : g[s] = c.signals[s]
  <2>1. DOMAIN c.signals = {"risky", "mechanical"}
    BY <1>1
  <2>2. c.signals.risky = TRUE /\ c.signals.mechanical = FALSE
    BY <1>1
  <2>3. g.risky = c.signals.risky /\ g.mechanical = c.signals.mechanical
    BY <1>4, <2>2
  <2> QED
    BY <2>1, <2>3
<1>6. Prompt!Engine["confirmation"] = c.engine /\ c.confirm = ("confirmation" = "confirmation")
  BY <1>1 DEF Prompt!Engine
<1> QED
  BY <1>3, <1>5, <1>6, PassesWhen DEF p, d, g

\* A private question about current facts is not a secret to be kept from the web.
LEMMA PrivatePasses ==
    ASSUME NEW c, c = PrivateCase
    PROVE  Prompt!FailuresOf(c, Strict) = {}
<1> DEFINE p == c.p
           d == Prompt!DefaultScoring
           g == Prompt!Signals(p, "research" = "confirmation")
<1>1. /\ p.found = {"research", "current"} /\ p.chars = 48 /\ p.words = 7
      /\ c.image = FALSE /\ c.engine = "web_research" /\ c.confirm = FALSE
      /\ c.signals = <<>>
  BY DEF Prompt!Case, PrivateCase
<1> HIDE DEF p, d, g
<1>2. Calm(p)
  BY <1>1 DEF Calm, Prompt!Actions, Prompt!ActionPatterns
<1>3. p.words \in Nat /\ "research" \in p.found /\ "current" \in p.found /\ "image" \notin p.found
     /\ "vision" \notin p.found
  BY <1>1
<1>4. Prompt!TargetRoute(p, FALSE, Strict, d) = "research"
  BY <1>2, <1>3, FreshRoute DEF d
<1>5. Prompt!TargetRoute(p, c.image, Strict, d) = "research"
  BY <1>1, <1>4, AttachedIs DEF d
<1>6. DOMAIN c.signals = {}
  BY <1>1
<1>7. Prompt!Engine["research"] = c.engine /\ c.confirm = ("research" = "confirmation")
  BY <1>1 DEF Prompt!Engine
<1> QED
  BY <1>5, <1>6, <1>7, PassesWhen DEF p, d, g

\* A question of quality goes to the reasoning engine.
LEMMA QualityPasses ==
    ASSUME NEW c, c = QualityCase
    PROVE  Prompt!FailuresOf(c, Strict) = {}
<1> DEFINE p == c.p
           d == Prompt!DefaultScoring
           g == Prompt!Signals(p, "reasoning" = "confirmation")
<1>1. /\ p.found = {"steps", "architecture", "mechanical", "judgment"} /\ p.chars = 80 /\ p.words = 11
      /\ c.image = FALSE /\ c.engine = "reasoning_local" /\ c.confirm = FALSE
      /\ c.signals = <<>>
  BY DEF Prompt!Case, QualityCase
<1> HIDE DEF p, d, g
<1>2. Calm(p)
  BY <1>1 DEF Calm, Prompt!Actions, Prompt!ActionPatterns
<1>3. Prompt!TargetRoute(p, FALSE, Strict, d) = "reasoning"
  <2>1. p.words \in Nat
    BY <1>1
  <2>2. ~Prompt!NeedsHuman(p, Strict, d) /\ ~Prompt!NeedsClarity(p, Strict)
    BY <1>2, <2>1, CalmIsNotConfirmed DEF d
  <2> QED
    BY <1>1, <2>2 DEF Prompt!TargetRoute, Prompt!Image, Prompt!Vision, Prompt!Freshness, Prompt!Found
<1>4. Prompt!TargetRoute(p, c.image, Strict, d) = "reasoning"
  BY <1>1, <1>3, AttachedIs DEF d
<1>5. DOMAIN c.signals = {}
  BY <1>1
<1>6. Prompt!Engine["reasoning"] = c.engine /\ c.confirm = ("reasoning" = "confirmation")
  BY <1>1 DEF Prompt!Engine
<1> QED
  BY <1>4, <1>5, <1>6, PassesWhen DEF p, d, g

\* A mechanical edit of many files is called mechanical, wide and without risk.
LEMMA BulkPasses ==
    ASSUME NEW c, c = BulkCase
    PROVE  Prompt!FailuresOf(c, Strict) = {}
<1> DEFINE p == c.p
           d == Prompt!DefaultScoring
           g == Prompt!Signals(p, "coding" = "confirmation")
<1>1. /\ p.found = {"coding", "tool", "mechanical", "repo_wide"} /\ p.chars = 118 /\ p.words = 15
      /\ c.image = FALSE /\ c.engine = "code_agent" /\ c.confirm = FALSE
      /\ c.signals = [mechanical |-> TRUE, repo_wide |-> TRUE, risky |-> FALSE]
  BY DEF Prompt!Case, BulkCase
<1> HIDE DEF p, d, g
<1>2. Calm(p)
  BY <1>1 DEF Calm, Prompt!Actions, Prompt!ActionPatterns
<1>3. p.words \in Nat /\ "coding" \in p.found /\ "image" \notin p.found /\ "vision" \notin p.found
     /\ "current" \notin p.found
  BY <1>1
<1>4. Prompt!TargetRoute(p, FALSE, Strict, d) = "coding"
  BY <1>2, <1>3, CodingRoute DEF d
<1>5. Prompt!TargetRoute(p, c.image, Strict, d) = "coding"
  BY <1>1, <1>4, AttachedIs DEF d
<1>6. g.mechanical = TRUE /\ g.repo_wide = TRUE /\ g.risky = FALSE
  BY <1>1, <1>2 DEF Prompt!Signals, Prompt!Risky, Prompt!Mechanical, Prompt!Judgment, Prompt!Verification,
       Prompt!Found, Calm, d, g
<1>7. \A s \in DOMAIN c.signals : g[s] = c.signals[s]
  <2>1. DOMAIN c.signals = {"mechanical", "repo_wide", "risky"}
    BY <1>1
  <2>2. c.signals.mechanical = TRUE /\ c.signals.repo_wide = TRUE /\ c.signals.risky = FALSE
    BY <1>1
  <2>3. g.mechanical = c.signals.mechanical /\ g.repo_wide = c.signals.repo_wide /\ g.risky = c.signals.risky
    BY <1>6, <2>2
  <2> QED
    BY <2>1, <2>3
<1>8. Prompt!Engine["coding"] = c.engine /\ c.confirm = ("coding" = "confirmation")
  BY <1>1 DEF Prompt!Engine
<1> QED
  BY <1>5, <1>7, <1>8, PassesWhen DEF p, d, g

\* A slow test suite is called a verification of the whole repository.
LEMMA SuitePasses ==
    ASSUME NEW c, c = SuiteCase
    PROVE  Prompt!FailuresOf(c, Strict) = {}
<1> DEFINE p == c.p
           d == Prompt!DefaultScoring
           g == Prompt!Signals(p, "coding" = "confirmation")
<1>1. /\ p.found = {"coding", "shell", "tool", "verification", "repo_wide", "vague"} /\ p.chars = 114 /\ p.words = 21
      /\ c.image = FALSE /\ c.engine = "code_agent" /\ c.confirm = FALSE
      /\ c.signals = [verification |-> TRUE, repo_wide |-> TRUE, risky |-> FALSE]
  BY DEF Prompt!Case, SuiteCase
<1> HIDE DEF p, d, g
<1>2. Calm(p)
  BY <1>1 DEF Calm, Prompt!Actions, Prompt!ActionPatterns
<1>3. p.words \in Nat /\ "coding" \in p.found /\ "image" \notin p.found /\ "vision" \notin p.found
     /\ "current" \notin p.found
  BY <1>1
<1>4. Prompt!TargetRoute(p, FALSE, Strict, d) = "coding"
  BY <1>2, <1>3, CodingRoute DEF d
<1>5. Prompt!TargetRoute(p, c.image, Strict, d) = "coding"
  BY <1>1, <1>4, AttachedIs DEF d
<1>6. g.verification = TRUE /\ g.repo_wide = TRUE /\ g.risky = FALSE
  BY <1>1, <1>2 DEF Prompt!Signals, Prompt!Risky, Prompt!Mechanical, Prompt!Judgment, Prompt!Verification,
       Prompt!Found, Calm, d, g
<1>7. \A s \in DOMAIN c.signals : g[s] = c.signals[s]
  <2>1. DOMAIN c.signals = {"verification", "repo_wide", "risky"}
    BY <1>1
  <2>2. c.signals.verification = TRUE /\ c.signals.repo_wide = TRUE /\ c.signals.risky = FALSE
    BY <1>1
  <2>3. g.verification = c.signals.verification /\ g.repo_wide = c.signals.repo_wide /\ g.risky = c.signals.risky
    BY <1>6, <2>2
  <2> QED
    BY <2>1, <2>3
<1>8. Prompt!Engine["coding"] = c.engine /\ c.confirm = ("coding" = "confirmation")
  BY <1>1 DEF Prompt!Engine
<1> QED
  BY <1>5, <1>7, <1>8, PassesWhen DEF p, d, g

\* A change that needs judgment is not called mechanical.
LEMMA ChangePasses ==
    ASSUME NEW c, c = ChangeCase
    PROVE  Prompt!FailuresOf(c, Strict) = {}
<1> DEFINE p == c.p
           d == Prompt!DefaultScoring
           g == Prompt!Signals(p, "coding" = "confirmation")
<1>1. /\ p.found = {"coding", "steps", "judgment"} /\ p.chars = 128 /\ p.words = 21
      /\ c.image = FALSE /\ c.engine = "code_agent" /\ c.confirm = FALSE
      /\ c.signals = [judgment |-> TRUE, mechanical |-> FALSE, risky |-> FALSE]
  BY DEF Prompt!Case, ChangeCase
<1> HIDE DEF p, d, g
<1>2. Calm(p)
  BY <1>1 DEF Calm, Prompt!Actions, Prompt!ActionPatterns
<1>3. p.words \in Nat /\ "coding" \in p.found /\ "image" \notin p.found /\ "vision" \notin p.found
     /\ "current" \notin p.found
  BY <1>1
<1>4. Prompt!TargetRoute(p, FALSE, Strict, d) = "coding"
  BY <1>2, <1>3, CodingRoute DEF d
<1>5. Prompt!TargetRoute(p, c.image, Strict, d) = "coding"
  BY <1>1, <1>4, AttachedIs DEF d
<1>6. g.judgment = TRUE /\ g.mechanical = FALSE /\ g.risky = FALSE
  BY <1>1, <1>2 DEF Prompt!Signals, Prompt!Risky, Prompt!Mechanical, Prompt!Judgment, Prompt!Verification,
       Prompt!Found, Calm, d, g
<1>7. \A s \in DOMAIN c.signals : g[s] = c.signals[s]
  <2>1. DOMAIN c.signals = {"judgment", "mechanical", "risky"}
    BY <1>1
  <2>2. c.signals.judgment = TRUE /\ c.signals.mechanical = FALSE /\ c.signals.risky = FALSE
    BY <1>1
  <2>3. g.judgment = c.signals.judgment /\ g.mechanical = c.signals.mechanical /\ g.risky = c.signals.risky
    BY <1>6, <2>2
  <2> QED
    BY <2>1, <2>3
<1>8. Prompt!Engine["coding"] = c.engine /\ c.confirm = ("coding" = "confirmation")
  BY <1>1 DEF Prompt!Engine
<1> QED
  BY <1>5, <1>7, <1>8, PassesWhen DEF p, d, g

\* An integration may need both.
LEMMA IntegrationPasses ==
    ASSUME NEW c, c = IntegrationCase
    PROVE  Prompt!FailuresOf(c, Strict) = {}
<1> DEFINE p == c.p
           d == Prompt!DefaultScoring
           g == Prompt!Signals(p, "coding" = "confirmation")
<1>1. /\ p.found = {"coding", "mechanical", "judgment", "repo_wide"} /\ p.chars = 204 /\ p.words = 32
      /\ c.image = FALSE /\ c.engine = "code_agent" /\ c.confirm = FALSE
      /\ c.signals = [mechanical |-> TRUE, judgment |-> TRUE, repo_wide |-> TRUE, risky |-> FALSE]
  BY DEF Prompt!Case, IntegrationCase
<1> HIDE DEF p, d, g
<1>2. Calm(p)
  BY <1>1 DEF Calm, Prompt!Actions, Prompt!ActionPatterns
<1>3. p.words \in Nat /\ "coding" \in p.found /\ "image" \notin p.found /\ "vision" \notin p.found
     /\ "current" \notin p.found
  BY <1>1
<1>4. Prompt!TargetRoute(p, FALSE, Strict, d) = "coding"
  BY <1>2, <1>3, CodingRoute DEF d
<1>5. Prompt!TargetRoute(p, c.image, Strict, d) = "coding"
  BY <1>1, <1>4, AttachedIs DEF d
<1>6. g.mechanical = TRUE /\ g.judgment = TRUE /\ g.repo_wide = TRUE /\ g.risky = FALSE
  BY <1>1, <1>2 DEF Prompt!Signals, Prompt!Risky, Prompt!Mechanical, Prompt!Judgment, Prompt!Verification,
       Prompt!Found, Calm, d, g
<1>7. \A s \in DOMAIN c.signals : g[s] = c.signals[s]
  <2>1. DOMAIN c.signals = {"mechanical", "judgment", "repo_wide", "risky"}
    BY <1>1
  <2>2. c.signals.mechanical = TRUE /\ c.signals.judgment = TRUE /\ c.signals.repo_wide = TRUE
       /\ c.signals.risky = FALSE
    BY <1>1
  <2>3. g.mechanical = c.signals.mechanical /\ g.judgment = c.signals.judgment
       /\ g.repo_wide = c.signals.repo_wide /\ g.risky = c.signals.risky
    BY <1>6, <2>2
  <2> QED
    BY <2>1, <2>3
<1>8. Prompt!Engine["coding"] = c.engine /\ c.confirm = ("coding" = "confirmation")
  BY <1>1 DEF Prompt!Engine
<1> QED
  BY <1>5, <1>7, <1>8, PassesWhen DEF p, d, g

\* A set of thirteen is finite.
LEMMA FiniteThirteen ==
    ASSUME NEW a, NEW b, NEW c, NEW d, NEW e, NEW f, NEW g, NEW h, NEW i, NEW j, NEW k, NEW l, NEW m
    PROVE  IsFiniteSet({a, b, c, d, e, f, g, h, i, j, k, l, m})
<1>1. IsFiniteSet({a, b, c, d} \cup {e, f, g, h}) /\ IsFiniteSet({i, j, k, l} \cup {m, m, m, m})
  BY FiniteFour, FS_Union
<1>2. IsFiniteSet(({a, b, c, d} \cup {e, f, g, h}) \cup ({i, j, k, l} \cup {m, m, m, m}))
  BY <1>1, FS_Union
<1>3. ({a, b, c, d} \cup {e, f, g, h}) \cup ({i, j, k, l} \cup {m, m, m, m}) = {a, b, c, d, e, f, g, h, i, j, k, l, m}
  OBVIOUS
<1> QED
  BY <1>2, <1>3

\* The packaged cases are these thirteen.
LEMMA CasesAre ==
    Prompt!DefaultCases = {RewriteCase, SummaryCase, TestWorkCase, InformationCase, ScreenshotCase, ImageCase,
         RiskyCase, PrivateCase, QualityCase, BulkCase, SuiteCase, ChangeCase, IntegrationCase}
BY DEF Prompt!DefaultCases, RewriteCase, SummaryCase, TestWorkCase, InformationCase, ScreenshotCase, ImageCase,
     RiskyCase, PrivateCase, QualityCase, BulkCase, SuiteCase, ChangeCase, IntegrationCase

\* There are finitely many of them.
LEMMA CasesAreFinite == IsFiniteSet(Prompt!DefaultCases)
<1>1. Prompt!DefaultCases = {RewriteCase, SummaryCase, TestWorkCase, InformationCase, ScreenshotCase, ImageCase,
     RiskyCase, PrivateCase, QualityCase, BulkCase, SuiteCase, ChangeCase, IntegrationCase}
  BY CasesAre
<1> QED
  BY <1>1, FiniteThirteen

\* Each has the form of a case.
LEMMA CaseIs ==
    ASSUME NEW c \in Prompt!DefaultCases
    PROVE  \E name, found, chars, words, engine, signals : c = Prompt!Case(name, found, chars, words, engine, signals)
BY DEF Prompt!DefaultCases

\* Every packaged case passes under the settings of a router without settings.
LEMMA CasesPass ==
    ASSUME NEW c \in Prompt!DefaultCases
    PROVE  Prompt!FailuresOf(c, Strict) = {}
BY RewritePasses, SummaryPasses, TestWorkPasses, InformationPasses, ScreenshotPasses, ImagePasses, RiskyPasses,
   PrivatePasses, QualityPasses, BulkPasses, SuitePasses, ChangePasses, IntegrationPasses, CasesAre

\* The Cardinality of the instance is that of FiniteSets.
LEMMA SameCardinality ==
    ASSUME NEW S
    PROVE  Prompt!Cardinality(S) = Cardinality(S)
BY DEF Prompt!Cardinality, Cardinality

\* The report of the benchmark adds up, whatever passes.
LEMMA ReportCounts ==
    ASSUME NEW safety
    PROVE  LET report == Prompt!WorkflowReport(Prompt!DefaultCases, safety) IN
           /\ report.passed + report.failed = report.total
           /\ report.ok => report.changes = 0
           /\ report.ok <=> \A c \in Prompt!DefaultCases : Prompt!FailuresOf(c, safety) = {}
<1> DEFINE cases == Prompt!DefaultCases
           failed == {c \in cases : Prompt!FailuresOf(c, safety) # {}}
           changed == {c \in cases : "engine" \in Prompt!FailuresOf(c, safety)}
           report == Prompt!WorkflowReport(cases, safety)
<1>1. /\ report.total = Cardinality(cases) /\ report.failed = Cardinality(failed)
      /\ report.passed = Cardinality(cases \ failed) /\ (report.ok <=> failed = {})
           /\ report.changes = Cardinality(changed)
  <2>1. report = [total |-> Cardinality(cases), failed |-> Cardinality(failed),
       passed |-> Cardinality(cases \ failed),
                  ok |-> failed = {}, changes |-> Cardinality(changed)]
    BY SameCardinality DEF Prompt!WorkflowReport
  <2> HIDE DEF report, failed, changed, cases
  <2> QED
    BY <2>1
<1>2. Cardinality(cases \ failed) + Cardinality(failed) = Cardinality(cases)
  <2>1. failed \subseteq cases /\ IsFiniteSet(cases)
    BY CasesAreFinite
  <2> HIDE DEF failed, cases
  <2>2. IsFiniteSet(failed) /\ IsFiniteSet(cases \ failed) /\ cases \cap failed = failed
    BY <2>1, FS_Subset
  <2>3. Cardinality(cases \ failed) = Cardinality(cases) - Cardinality(failed)
    BY <2>1, <2>2, FS_Difference
  <2>4. Cardinality(cases) \in Nat /\ Cardinality(failed) \in Nat
    BY <2>1, <2>2, FS_CardinalityType
  <2> QED
    BY <2>3, <2>4
<1>3. failed = {} => changed = {}
  OBVIOUS
<1>4. failed = {} <=> \A c \in cases : Prompt!FailuresOf(c, safety) = {}
  OBVIOUS
<1>5. failed = {} => Cardinality(changed) = 0
  BY <1>3, FS_EmptySet
<1> HIDE DEF failed, changed, cases
<1> QED
  BY <1>1, <1>2, <1>4, <1>5 DEF cases

\* An action added to a prompt of a case that expects no confirmation fails the case.
LEMMA AddedActionNoticed ==
    ASSUME NEW c \in Prompt!DefaultCases, ~c.confirm, NEW action \in Prompt!ActionPatterns
    PROVE  "engine" \in Prompt!FailuresOf([c EXCEPT !.p.found = @ \cup {action}], Strict)
<1> DEFINE e == [c EXCEPT !.p.found = @ \cup {action}]
           d == Prompt!DefaultScoring
<1>1. PICK name, found, chars, words, engine, signals : c = Prompt!Case(name, found, chars, words, engine, signals)
  BY CaseIs
<1>2. e.engine = engine /\ e.p.found = found \cup {action} /\ engine # "human_confirm"
  BY <1>1 DEF Prompt!Case
<1> HIDE DEF e, d
<1>3. action \in Prompt!Actions(e.p)
  BY <1>2 DEF Prompt!Actions
<1>4. Prompt!NeedsHuman(e.p, Strict, d)
  BY <1>3 DEF Prompt!NeedsHuman, Strict
<1>5. Prompt!TargetRoute(e.p, e.image, Strict, d) = "confirmation"
  BY <1>4 DEF Prompt!TargetRoute
<1>6. Prompt!Engine["confirmation"] = "human_confirm"
  BY DEF Prompt!Engine
<1>7. "engine" \in Prompt!FailuresOf(e, Strict)
  BY <1>2, <1>5, <1>6 DEF Prompt!FailuresOf, d
<1> QED
  BY <1>7 DEF e

\* Settings that confirm nothing fail every case that expects a confirmation.
LEMMA LaxSettingsNoticed ==
    ASSUME NEW safety, ~safety.required, NEW c \in Prompt!DefaultCases, c.confirm
    PROVE  {"engine", "confirmation"} \subseteq Prompt!FailuresOf(c, safety)
<1> DEFINE d == Prompt!DefaultScoring
           t == Prompt!TargetRoute(c.p, c.image, safety, d)
<1>1. PICK name, found, chars, words, engine, signals : c = Prompt!Case(name, found, chars, words, engine, signals)
  BY CaseIs
<1>2. c.engine = "human_confirm" /\ c.confirm = TRUE
  BY <1>1 DEF Prompt!Case
<1>3. ~Prompt!NeedsHuman(c.p, safety, d) /\ ~Prompt!NeedsClarity(c.p, safety)
  BY DEF Prompt!NeedsHuman, Prompt!NeedsClarity
<1> HIDE DEF d
<1>4. t \in {"image_generation", "vision", "research", "coding", "reasoning", "simple", "balanced"}
  BY <1>3 DEF Prompt!TargetRoute
<1> HIDE DEF t
<1>5. Prompt!Engine[t] # "human_confirm" /\ t # "confirmation"
  BY <1>4 DEF Prompt!Engine
<1>6. (IF Prompt!Engine[t] # c.engine THEN {"engine"} ELSE {}) = {"engine"}
      /\ (IF (t = "confirmation") # c.confirm THEN {"confirmation", "provider"} ELSE {}) = {"confirmation",
           "provider"}
  BY <1>2, <1>5
<1> QED
  BY <1>6 DEF Prompt!FailuresOf, t, d

\* WorkflowsHold of the packaged cases under any settings: the benchmark passes as shipped,
\* and notices every action added to a prompt and every confirmation that is turned off.
THEOREM WorkflowsAlwaysHold ==
    ASSUME NEW safety, NEW action \in Prompt!ActionPatterns
    PROVE  Prompt!WorkflowsHold(Prompt!DefaultCases, safety, action)
<1>1. Strict = [required |-> TRUE, allow |-> {}]
  BY DEF Strict
<1> DEFINE report == Prompt!WorkflowReport(Prompt!DefaultCases, safety)
<1>2. safety = Strict => report.ok
  BY CasesPass, ReportCounts
<1>3. report.passed + report.failed = report.total /\ (report.ok => report.changes = 0)
  BY ReportCounts
<1>4. safety = Strict => \A c \in Prompt!DefaultCases :
          ~c.confirm => "engine" \in Prompt!FailuresOf([c EXCEPT !.p.found = @ \cup {action}], safety)
  BY AddedActionNoticed
<1>5. ~safety.required => \A c \in Prompt!DefaultCases :
          c.confirm => {"engine", "confirmation"} \subseteq Prompt!FailuresOf(c, safety)
  BY LaxSettingsNoticed
<1> HIDE DEF report
<1> QED
  BY <1>1, <1>2, <1>3, <1>4, <1>5 DEF Prompt!WorkflowsHold, report

-----------------------------------------------------------------------------
(* The actions choose cases of different kinds.                            *)

\* The kind of what each action chooses.
CaseKinds ==
    /\ PanelCase => case'.kind = "panel"
    /\ RegistryCase => case'.kind = "registry"
    /\ LogCase => case'.kind = "log"
    /\ ReportCase => case'.kind = "report"
    /\ PriceCase => case'.kind = "prices"
    /\ SetupCase \/ WizardCase => case'.kind = "setup"
    /\ RunCase => case'.kind = "run"
    /\ ProductCase => case'.kind = "product"
    /\ FilesCase => case'.kind = "files"
    /\ AdviceCase => case'.kind \in {"catalog", "fit"}
    /\ BenchCase => case'.kind = "bench"
    /\ PromptCase => case'.kind = "prompt"
    /\ WordsCase => case'.kind = "words"
    /\ InstallCase => case'.kind = "install"
    /\ ConnectCase => case'.kind = "connect"
    /\ EvalCase => case'.kind \in {"rows", "workflow"}

\* The actions choose what they say they choose.
LEMMA CaseKindsHold == CaseKinds
<1>1. PanelCase => case'.kind = "panel" BY DEF PanelCase
<1>2. RegistryCase => case'.kind = "registry" BY DEF RegistryCase
<1>3. LogCase => case'.kind = "log" BY DEF LogCase
<1>4. ReportCase => case'.kind = "report" BY DEF ReportCase
<1>5. PriceCase => case'.kind = "prices" BY DEF PriceCase
<1>6. SetupCase \/ WizardCase => case'.kind = "setup"
  <2>1. SetupCase => case'.kind = "setup" BY DEF SetupCase
  <2>2. WizardCase => case'.kind = "setup" BY DEF WizardCase
  <2> QED
    BY <2>1, <2>2
<1>7. RunCase => case'.kind = "run" BY DEF RunCase
<1>8. ProductCase => case'.kind = "product" BY DEF ProductCase
<1>9. FilesCase => case'.kind = "files" BY DEF FilesCase
<1>10. AdviceCase => case'.kind \in {"catalog", "fit"}
  <2>1. AdviceCase => case'.kind = "catalog" \/ case'.kind = "fit"
    BY DEF AdviceCase
  <2> QED
    BY <2>1
<1>11. BenchCase => case'.kind = "bench" BY DEF BenchCase
<1>12. PromptCase => case'.kind = "prompt" BY DEF PromptCase
<1>13. WordsCase => case'.kind = "words" BY DEF WordsCase
<1>14. InstallCase => case'.kind = "install" BY DEF InstallCase
<1>15. ConnectCase => case'.kind = "connect" BY DEF ConnectCase
<1>16. EvalCase => case'.kind \in {"rows", "workflow"}
  <2>1. EvalCase => case'.kind = "rows" \/ case'.kind = "workflow"
    BY DEF EvalCase
  <2> QED
    BY <2>1
<1> QED
  BY <1>1, <1>2, <1>3, <1>4, <1>5, <1>6, <1>7, <1>8, <1>9, <1>10, <1>11, <1>12, <1>13, <1>14, <1>15,
       <1>16 DEF CaseKinds

\* A step chooses one of them, or none.
LEMMA StepKinds ==
    ASSUME [Next]_case
    PROVE  \/ PanelCase \/ RegistryCase \/ LogCase \/ ReportCase \/ PriceCase
           \/ SetupCase \/ WizardCase \/ RunCase \/ ProductCase \/ FilesCase
           \/ AdviceCase \/ BenchCase \/ PromptCase \/ WordsCase
           \/ InstallCase \/ ConnectCase \/ EvalCase
           \/ case' = [kind |-> "none"] \/ case' = case
BY DEF Next

-----------------------------------------------------------------------------
(* Every case of a prompt, of words or of the benchmark.                   *)

\* MoreIsNeverLess, as the property states it.
LEMMA MoreAlways ==
    ASSUME NEW p, NEW q
    PROVE  Prompt!MoreIsNoLess(p, q)
<1>1. CASE More(p, q)
  BY <1>1, MoreIsNeverLess
<1>2. CASE ~More(p, q)
  BY <1>2 DEF Prompt!MoreIsNoLess, More
<1> QED
  BY <1>1, <1>2

\* What the property says of a prompt, of every prompt.
LEMMA PromptKind ==
    ASSUME NEW p
    PROVE  /\ \A x \in Patterns : Prompt!MoreIsNoLess(p, [p EXCEPT !.found = @ \cup {x}])
           /\ \A safety \in Safeties, scoring \in {Prompt!DefaultScoring, Flat} :
                Prompt!ActionsConfirmed(p, safety, scoring) /\ Prompt!DelegationIsSafe(p, safety, scoring)
           /\ \A quick \in BOOLEAN, d \in EngineScores, e \in EngineScores : Prompt!RankingDominates(p, quick, d, e)
<1>1. \A x \in Patterns : Prompt!MoreIsNoLess(p, [p EXCEPT !.found = @ \cup {x}])
  BY MoreAlways
<1>2. \A scoring \in {Prompt!DefaultScoring, Flat} : IsScoring(scoring)
  BY DefaultIsScoring, FlatIsScoring
<1>3. \A safety \in Safeties, scoring \in {Prompt!DefaultScoring, Flat} :
        Prompt!ActionsConfirmed(p, safety, scoring) /\ Prompt!DelegationIsSafe(p, safety, scoring)
  BY <1>2, ActionsAlwaysConfirmed, DelegationIsAlwaysSafe
<1>4. EngineScores \subseteq Scores
  BY DEF EngineScores, Scores
<1> QED
  BY <1>1, <1>3, <1>4, RankingAlwaysDominates

\* The words of the case are words.
LEMMA WordsAreWords ==
    ASSUME WordsCase
    PROVE  case'.kind = "words" /\ case'.s \in Seq(Prompt!WordKinds)
<1>1. PICK n \in 0 .. 2, first \in {<<>>} \cup {<<w>> : w \in Prompt!WordKinds} \cup {<<"book", "article">>} :
        \E rest \in [1 .. n -> Prompt!WordKinds] : case' = [kind |-> "words", s |-> first \o rest]
  BY DEF WordsCase
<1>6. PICK rest \in [1 .. n -> Prompt!WordKinds] : case' = [kind |-> "words", s |-> first \o rest]
  BY <1>1
<1>2. "book" \in Prompt!WordKinds /\ "article" \in Prompt!WordKinds
  BY DEF Prompt!WordKinds
<1>3. first \in Seq(Prompt!WordKinds)
  <2> DEFINE W == Prompt!WordKinds
  <2>1. CASE first = <<>>
    BY <2>1
  <2>2. ASSUME NEW w \in W, first = <<w>> PROVE first \in Seq(W)
    BY <2>2
  <2>3. CASE first = <<"book", "article">>
    BY <1>2, <2>3
  <2> QED
    BY <2>1, <2>2, <2>3
<1>4. rest \in Seq(Prompt!WordKinds)
  BY DEF Seq
<1>5. first \o rest \in Seq(Prompt!WordKinds)
  BY <1>3, <1>4
<1> QED
  BY <1>5, <1>6

\* PromptsHold always (scorer.py, policy.py, receipts.py, workflow_benchmark.py), from what
\* is proved of every prompt, every sequence of words and every packaged case.
THEOREM PromptsAlwaysHold == Spec => []PromptsHold
<1>1. Init => PromptsHold
  BY DEF Init, PromptsHold, Of
<1>2. PromptsHold /\ [Next]_case => PromptsHold'
  <2> SUFFICES ASSUME PromptsHold, [Next]_case PROVE PromptsHold'
    OBVIOUS
  <2>1. CASE case'.kind \notin {"prompt", "words", "workflow"}
    BY <2>1 DEF PromptsHold, Of
  <2>2. CASE PromptCase
    <3>1. case'.kind = "prompt"
      BY <2>2 DEF PromptCase
    <3> QED
      BY <3>1, PromptKind DEF PromptsHold, Of
  <2>3. CASE WordsCase
    <3>1. case'.kind = "words" /\ case'.s \in Seq(Prompt!WordKinds)
      BY <2>3, WordsAreWords
    <3> QED
      BY <3>1, ScannersAlwaysAgree DEF PromptsHold, Of
  <2>4. CASE EvalCase
    <3>1. CASE case'.kind = "rows"
      BY <3>1 DEF PromptsHold, Of
    <3>2. CASE case'.kind = "workflow" /\ case'.cases = Prompt!DefaultCases /\ case'.action \in Prompt!ActionPatterns
      BY <3>2, WorkflowsAlwaysHold DEF PromptsHold, Of
    <3> QED
      BY <2>4, <3>1, <3>2 DEF EvalCase
  <2>5. CASE case' = case
    BY <2>5 DEF PromptsHold, Of
  <2>6. \/ PromptCase \/ WordsCase \/ EvalCase \/ case' = case
        \/ case'.kind \notin {"prompt", "words", "workflow"}
    BY StepKinds, CaseKindsHold DEF CaseKinds
  <2> QED
    BY <2>1, <2>2, <2>3, <2>4, <2>5, <2>6
<1> QED
  BY <1>1, <1>2, PTL DEF Spec

-----------------------------------------------------------------------------
(* Runtimes of the panel (runtime_adapters.py).                            *)

\* A backend that can be shown, on a machine.
Shown(b, e) == b \in Panel!Backends /\ ~Panel!Raises(b) /\ e \in Panel!Machines

\* What a backend and a machine are.
LEMMA BackendIs ==
    ASSUME NEW b, NEW e, Shown(b, e)
    PROVE  /\ b.managed \in BOOLEAN /\ b.local \in BOOLEAN /\ b.kind \in Panel!Kinds
           /\ e.answer \in Panel!Answers /\ e.running \in BOOLEAN
           /\ e.listing \in {{}, {"own"}, {"another"}, {"fails"}} /\ e.ps \in {{}, {"own"}, {"fails"}}
BY DEF Shown, Panel!Backends, Panel!Machines, Panel!Kinds

\* What can be done with a backend: health asks for a local one, the server's actions for a
\* managed one.
LEMMA SupportedIs ==
    ASSUME NEW b, NEW e, Shown(b, e)
    PROVE  /\ "health" \in Panel!Supported(b, e) <=> b.local
           /\ "discover_models" \in Panel!Supported(b, e) <=> b.local \/ Panel!OllamaCli(b, e)
           /\ "list_loaded_models" \in Panel!Supported(b, e) <=> b.managed \/ Panel!OllamaCli(b, e)
           /\ "start_server" \in Panel!Supported(b, e) <=> b.managed /\ "server" \in e.installed
           /\ "load_model" \in Panel!Supported(b, e) <=> b.managed /\ "server" \in e.installed
           /\ "stop_server" \in Panel!Supported(b, e) <=> b.managed
           /\ ~b.managed /\ "unload_model" \in Panel!Supported(b, e) => Panel!OllamaCli(b, e)
BY DEF Panel!Supported, Panel!Endpoint, Panel!OwnProcess

\* The five answers of a health check, and what they tell.
LEMMA HealthIs ==
    ASSUME NEW b, NEW e, Shown(b, e)
    PROVE  /\ ~b.local <=> Panel!Health(b, e) = "unsupported"
           /\ b.local /\ e.answer = "own" <=> Panel!Health(b, e) = "ready"
           /\ Panel!Health(b, e) \in {"unsupported", "ready", "degraded", "unreachable", "error"}
<1>1. "health" \in Panel!Supported(b, e) <=> b.local
  BY SupportedIs
<1>2. e.answer \in {"own", "another", "empty", "http error", "refused", "garbage"}
  BY BackendIs DEF Panel!Answers
<1> QED
  BY <1>1, <1>2 DEF Panel!Health

\* The fields of what the panel shows.
LEMMA StateIs ==
    ASSUME NEW b, NEW e
    PROVE  /\ Panel!RuntimeState(b, e).supported = Panel!Supported(b, e)
           /\ Panel!RuntimeState(b, e).health = Panel!Health(b, e)
           /\ Panel!RuntimeState(b, e).models = Panel!Discover(b, e)
           /\ Panel!RuntimeState(b, e).loaded = Panel!Loaded(b, e)
           /\ Panel!RuntimeState(b, e).missing = Panel!Missing(b, e)
           /\ Panel!RuntimeState(b, e).hint = Panel!Hint(b, e)
BY DEF Panel!RuntimeState

\* The settings page and the admin action runtime.status say the same of every backend.
LEMMA PanelsAlwaysAgree ==
    ASSUME NEW b, NEW e, Shown(b, e)
    PROVE  Panel!PanelsAgree(b, e)
<1> DEFINE s == Panel!RuntimeState(b, e)
           models == IF "discover_models" \in Panel!Supported(b, e) THEN s.models ELSE {}
           loaded == IF "list_loaded_models" \in Panel!Supported(b, e) THEN s.loaded ELSE {}
<1>1. models = s.models
  <2>1. "discover_models" \notin Panel!Supported(b, e) => Panel!Discover(b, e) = {}
    BY SupportedIs DEF Panel!Discover, Panel!Listed, Panel!Endpoint
  <2> QED
    BY <2>1, StateIs
<1>2. loaded = s.loaded
  <2>1. "list_loaded_models" \notin Panel!Supported(b, e) => Panel!Loaded(b, e) = {}
    BY SupportedIs DEF Panel!Loaded
  <2> QED
    BY <2>1, StateIs
<1>3. Panel!StateFromAdapter(b, e) = [s EXCEPT !.models = models, !.loaded = loaded]
  BY DEF Panel!StateFromAdapter
<1>4. s = [provider |-> s.provider, supported |-> s.supported, installed |-> s.installed, health |-> s.health,
           models |-> s.models, loaded |-> s.loaded, missing |-> s.missing, hint |-> s.hint]
  BY DEF Panel!RuntimeState
<1> HIDE DEF s, models, loaded
<1>5. [s EXCEPT !.models = s.models, !.loaded = s.loaded] = s
  BY <1>4
<1> QED
  BY <1>1, <1>2, <1>3, <1>5 DEF Panel!PanelsAgree, s

\* The page and the doctor recommend the same step: who could be started has a hint.
LEMMA ActionsAlwaysAgree ==
    ASSUME NEW b, NEW e, Shown(b, e)
    PROVE  Panel!ActionsAgree(b, e)
<1> DEFINE s == Panel!RuntimeState(b, e)
<1>1. SUFFICES ASSUME s.hint = "none", s.missing = "none", "start_server" \in s.supported,
     s.health \in {"unreachable", "error"}
               PROVE  FALSE
  BY DEF Panel!ActionsAgree, Panel!PanelAction
<1>2. ~Panel!Reachable(b, e) /\ b.local
  BY <1>1, StateIs, HealthIs DEF Panel!Reachable
<1>3. Panel!Hint(b, e) = "none"
  BY <1>1, StateIs
<1> QED
  BY <1>2, <1>3 DEF Panel!Hint

\* A doctor without guidance means a runtime that answers, and nothing to install.
LEMMA DoctorAlwaysTellsDown ==
    ASSUME NEW b, NEW e, Shown(b, e)
    PROVE  Panel!DoctorTellsDown(b, e)
<1> DEFINE s == Panel!RuntimeState(b, e)
<1>1. SUFFICES ASSUME Panel!DoctorAction(s) = "view details" PROVE Panel!Reachable(b, e)
     /\ Panel!Missing(b, e) = "none"
  BY DEF Panel!DoctorTellsDown, Panel!DoctorOk
<1> HIDE DEF s
<1>2. s.hint = "none" /\ s.missing = "none" /\ s.health \notin {"unreachable", "error", "unsupported"}
  BY <1>1 DEF Panel!DoctorAction
<1> QED
  BY <1>2, StateIs, HealthIs DEF Panel!Reachable, s

\* What a hosted backend's endpoint would answer makes no difference to the page.
LEMMA HostedAlwaysSilent ==
    ASSUME NEW b, NEW e, Shown(b, e)
    PROVE  Panel!HostedIsSilent(b, e)
<1> SUFFICES ASSUME ~b.local, NEW a \in Panel!Answers
             PROVE  Panel!RuntimeState(b, [e EXCEPT !.answer = a]) = Panel!RuntimeState(b, e)
  BY DEF Panel!HostedIsSilent
<1> DEFINE f == [e EXCEPT !.answer = a]
<1>1. /\ f.installed = e.installed /\ f.listing = e.listing /\ f.ps = e.ps /\ f.running = e.running
      /\ Shown(b, f)
  BY DEF Shown, Panel!Machines
<1> HIDE DEF f
<1>2. Panel!OllamaCli(b, f) = Panel!OllamaCli(b, e) /\ Panel!Supported(b, f) = Panel!Supported(b, e)
  BY <1>1 DEF Panel!OllamaCli, Panel!Supported, Panel!OwnProcess
<1>3. Panel!Installed(b, f) = Panel!Installed(b, e)
  BY <1>1 DEF Panel!Installed
<1>4. Panel!Health(b, f) = "unsupported" /\ Panel!Health(b, e) = "unsupported"
  BY <1>1, HealthIs
<1>5. Panel!Discover(b, f) = Panel!Discover(b, e)
  BY <1>1, <1>2 DEF Panel!Discover, Panel!Listed, Panel!Endpoint
<1>6. Panel!Loaded(b, f) = Panel!Loaded(b, e)
  BY <1>1, <1>2 DEF Panel!Loaded
<1>7. Panel!Missing(b, f) = Panel!Missing(b, e)
  BY <1>2, <1>3 DEF Panel!Missing
<1>8. Panel!Hint(b, f) = Panel!Hint(b, e)
  BY <1>4, <1>7 DEF Panel!Hint, Panel!Reachable
<1> QED
  BY <1>2, <1>3, <1>4, <1>5, <1>6, <1>7, <1>8 DEF Panel!RuntimeState, f

\* A healthy runtime's models are listed, and guidance says visible just when it is ready.
LEMMA GuidanceAlwaysFits ==
    ASSUME NEW b, NEW e, Shown(b, e)
    PROVE  Panel!GuidanceFitsHealth(b, e)
<1> DEFINE s == Panel!RuntimeState(b, e)
           ready == b.local /\ e.answer = "own"
<1>1. s.health = "ready" <=> ready
  BY StateIs, HealthIs
<1>2. s.models = Panel!Discover(b, e)
  BY StateIs
<1>3. ready => Panel!Listed(b, e) = {"own"}
  BY DEF Panel!Listed, Panel!Endpoint
<1>4. "own" \in Panel!Listed(b, e) => ready
  BY DEF Panel!Listed, Panel!Endpoint
<1>5. ready => Panel!Discover(b, e) # {}
  BY <1>3 DEF Panel!Discover
<1>6. ~Panel!OllamaCli(b, e) => Panel!Discover(b, e) = Panel!Listed(b, e)
  BY DEF Panel!Discover
<1> HIDE DEF s, ready
<1>7. Panel!Guidance(s) = "visible" <=> "own" \in s.models
  BY DEF Panel!Guidance
<1> QED
  BY <1>1, <1>2, <1>3, <1>4, <1>5, <1>6, <1>7 DEF Panel!GuidanceFitsHealth, s

\* No action is done on a runtime that is not the router's own, but for the unloading that
\* ollama's command line is asked for.
LEMMA ExternalAlwaysLeftAlone ==
    ASSUME NEW b, NEW e, Shown(b, e)
    PROVE  Panel!ExternalIsLeftAlone(b, e)
<1> SUFFICES ASSUME NEW action \in Panel!Actions, NEW model \in {"", "own", "another"}, ~b.managed,
                    Panel!Did(Panel!Act(b, e, action, model))
             PROVE  action = "unload_model" /\ Panel!OllamaCli(b, e)
  BY DEF Panel!ExternalIsLeftAlone
<1>1. action \in Panel!Supported(b, e)
  BY DEF Panel!Act, Panel!Did
<1> QED
  BY <1>1, SupportedIs DEF Panel!Actions

\* PanelsTrue always (runtime_adapters.py, admin/actions.py, settings_ui.py,
\* runtime_install.py), from what is proved of every backend on every machine.
THEOREM PanelsAlwaysTrue == Spec => []PanelsTrue
<1>1. Init => PanelsTrue
  BY DEF Init, PanelsTrue, Of
<1>2. PanelsTrue /\ [Next]_case => PanelsTrue'
  <2> SUFFICES ASSUME PanelsTrue, [Next]_case PROVE PanelsTrue'
    OBVIOUS
  <2>1. CASE PanelCase
    <3>1. Shown(case'.b, case'.e)
      BY <2>1 DEF PanelCase, Shown
    <3> QED
      BY <3>1, PanelsAlwaysAgree, ActionsAlwaysAgree, DoctorAlwaysTellsDown, HostedAlwaysSilent, GuidanceAlwaysFits,
         ExternalAlwaysLeftAlone DEF PanelsTrue, Of
  <2>2. CASE case'.kind # "panel"
    BY <2>2 DEF PanelsTrue, Of
  <2>3. CASE case' = case
    BY <2>3 DEF PanelsTrue, Of
  <2>4. PanelCase \/ case'.kind # "panel" \/ case' = case
    BY StepKinds, CaseKindsHold DEF CaseKinds
  <2> QED
    BY <2>1, <2>2, <2>3, <2>4
<1> QED
  BY <1>1, <1>2, PTL DEF Spec
=============================================================================
