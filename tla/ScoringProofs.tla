---------------------------- MODULE ScoringProofs ----------------------------
(***************************************************************************)
(* What holds of Scoring for any questions, any scheme that SchemeInput    *)
(* lets through and any bonus: a result is no more than the weights of the *)
(* sections add up to, so a percentage if they add up to 1 as stored, and  *)
(* a better form has no worse result.  The arithmetic is exact, and half a *)
(* tenth is rounded up.                                                    *)
(*                                                                         *)
(* Most of the way is to the sums of the sections.  The library defines a  *)
(* sum over a set by a recursive function that takes the elements in some  *)
(* order; here it is shown that there is such a function, that any element *)
(* may be taken first, and what follows for two sums.                      *)
(***************************************************************************)
EXTENDS Scoring, FiniteSetTheorems, TLAPS

\* Numbers reached from 0 step by step are all there are.
LEMMA StepByStep ==
    ASSUME NEW G, 0 \in G, \A n \in Nat : n \in G => n + 1 \in G
    PROVE  Nat \subseteq G
<1> DEFINE Below == OpToRel(<, Nat)
           Left == {n \in Nat : n \notin G}
<1>1. IsWellFoundedOn(Below, Nat)
  BY NatLessThanWellFounded
<1>2. SUFFICES ASSUME Left # {} PROVE FALSE
  OBVIOUS
<1>3. PICK m \in Left : \A k \in Left : <<k, m>> \notin Below
  <2>1. Left \subseteq Nat
    OBVIOUS
  <2> HIDE DEF Below, Left
  <2> QED
    BY <1>1, <1>2, <2>1, WFMin
<1>4. \A k \in Left : ~ (k < m)
  BY <1>3 DEF OpToRel
<1> HIDE DEF Below
<1>5. m # 0 /\ m - 1 \in Nat
  OBVIOUS
<1>6. m - 1 \in G
  BY <1>4, <1>5
<1> QED
  BY <1>5, <1>6

\* A family of subsets of a finite set that has the empty one, and every one that it has with an
\* element left out, has them all.
LEMMA ElementByElement ==
    ASSUME NEW S, IsFiniteSet(S), NEW G, {} \in G,
           \A T \in SUBSET S : (T # {} /\ \A x \in T : T \ {x} \in G) => T \in G
    PROVE  SUBSET S \subseteq G
<1> DEFINE Left == {T \in SUBSET S : T \notin G}
<1>1. SUFFICES ASSUME Left # {} PROVE FALSE
  OBVIOUS
<1>2. IsWellFoundedOn(StrictSubsetOrdering(S), SUBSET S)
  BY FS_StrictSubsetOrderingWellFounded, FS_FiniteSubsetsOfFinite
<1>3. PICK T \in Left : \A U \in Left : <<U, T>> \notin StrictSubsetOrdering(S)
  <2>1. Left \subseteq SUBSET S
    OBVIOUS
  <2> HIDE DEF Left
  <2> QED
    BY <1>1, <1>2, <2>1, WFMin
<1>4. \A U \in Left : ~ (U \subseteq T /\ U # T)
  BY <1>3 DEF StrictSubsetOrdering
<1>5. T # {} /\ \A x \in T : T \ {x} \in G
  <2>1. \A x \in T : T \ {x} \in SUBSET S /\ T \ {x} \subseteq T /\ T \ {x} # T
    OBVIOUS
  <2> QED
    BY <1>4, <2>1
<1> QED
  BY <1>5
-----------------------------------------------------------------------------
first(T) == CHOOSE x \in T : TRUE

\* What the library's recursive function adds up: the first element of a set, and the rest.
Adds(iter, v, S) ==
    iter = [T \in SUBSET S |-> IF T = {} THEN 0 ELSE v[first(T)] + iter[T \ {first(T)}]]

Counted(v, S) == \A q \in S : v[q] \in Nat

\* There is such a function: by the size of the sets it is defined on.
LEMMA AddsExists ==
    ASSUME NEW S, IsFiniteSet(S), NEW v, Counted(v, S)
    PROVE  \E iter : Adds(iter, v, S) /\ iter \in [SUBSET S -> Nat]
<1> DEFINE UpTo(n) == {T \in SUBSET S : Cardinality(T) <= n}
           Fits(g, n) == /\ g \in [UpTo(n) -> Nat]
                         /\ \A T \in UpTo(n) : g[T] = IF T = {} THEN 0 ELSE v[first(T)] + g[T \ {first(T)}]
           G == {n \in Nat : \E g : Fits(g, n)}
<1>1. \A T \in SUBSET S : IsFiniteSet(T) /\ Cardinality(T) \in Nat /\ Cardinality(T) <= Cardinality(S)
  BY FS_Subset, FS_CardinalityType
<1>2. \A T \in SUBSET S : T # {} =>
        /\ first(T) \in T /\ v[first(T)] \in Nat
        /\ T \ {first(T)} \in SUBSET S /\ Cardinality(T \ {first(T)}) = Cardinality(T) - 1
  <2> SUFFICES ASSUME NEW T \in SUBSET S, T # {}
               PROVE  /\ first(T) \in T /\ v[first(T)] \in Nat
                      /\ T \ {first(T)} \in SUBSET S /\ Cardinality(T \ {first(T)}) = Cardinality(T) - 1
    OBVIOUS
  <2>1. first(T) \in T
    BY DEF first
  <2> QED
    BY <1>1, <2>1, FS_RemoveElement DEF Counted
<1>3. 0 \in G
  <2>1. \A T \in UpTo(0) : T = {}
    BY <1>1, FS_EmptySet
  <2>2. Fits([T \in UpTo(0) |-> 0], 0)
    BY <2>1
  <2> HIDE DEF Fits
  <2> QED
    BY <2>2
<1>4. ASSUME NEW n \in Nat, n \in G PROVE n + 1 \in G
  <2>1. PICK g : Fits(g, n)
    BY <1>4
  <2> DEFINE h == [T \in UpTo(n + 1) |-> IF T = {} THEN 0 ELSE v[first(T)] + g[T \ {first(T)}]]
  <2>2. \A T \in UpTo(n + 1) : T # {} => T \ {first(T)} \in UpTo(n)
    BY <1>1, <1>2
  <2>3. \A T \in UpTo(n + 1) : T # {} => g[T \ {first(T)}] \in Nat
    BY <2>1, <2>2
  <2>4. h \in [UpTo(n + 1) -> Nat]
    <3>1. ASSUME NEW T \in UpTo(n + 1)
          PROVE  (IF T = {} THEN 0 ELSE v[first(T)] + g[T \ {first(T)}]) \in Nat
      <4>1. T \in SUBSET S
        OBVIOUS
      <4>2. CASE T = {}
        BY <4>2
      <4>3. CASE T # {}
        <5>1. v[first(T)] \in Nat /\ g[T \ {first(T)}] \in Nat
          BY <1>2, <2>3, <4>1, <4>3
        <5>2. v[first(T)] + g[T \ {first(T)}] \in Nat
          BY <5>1
        <5> QED
          BY <4>3, <5>2
      <4> QED
        BY <4>2, <4>3
    <3> HIDE DEF UpTo
    <3> QED
      BY <3>1
  <2>5. UpTo(n) \subseteq UpTo(n + 1)
    BY <1>1
  <2>6. \A T \in UpTo(n) : h[T] = g[T]
    BY <2>1, <2>5
  <2>7. Fits(h, n + 1)
    BY <2>2, <2>4, <2>6
  <2> HIDE DEF Fits, h
  <2> QED
    BY <2>7
<1>5. Cardinality(S) \in G
  <2> HIDE DEF G
  <2> QED
    BY <1>1, <1>3, <1>4, StepByStep
<1>6. PICK g : Fits(g, Cardinality(S))
  BY <1>5
<1>7. UpTo(Cardinality(S)) = SUBSET S
  BY <1>1
<1>8. g \in [SUBSET S -> Nat] /\ \A T \in SUBSET S : g[T] = IF T = {} THEN 0 ELSE v[first(T)] + g[T \ {first(T)}]
  BY <1>6, <1>7
<1>9. Adds(g, v, S)
  BY <1>8 DEF Adds
<1> QED
  BY <1>8, <1>9

\* Two such functions are the same.
LEMMA AddsUnique ==
    ASSUME NEW S, IsFiniteSet(S), NEW v, NEW f, NEW g, Adds(f, v, S), Adds(g, v, S)
    PROVE  \A T \in SUBSET S : f[T] = g[T]
<1> DEFINE G == {T \in SUBSET S : f[T] = g[T]}
<1>1. \A T \in SUBSET S : /\ f[T] = IF T = {} THEN 0 ELSE v[first(T)] + f[T \ {first(T)}]
                          /\ g[T] = IF T = {} THEN 0 ELSE v[first(T)] + g[T \ {first(T)}]
  BY DEF Adds
<1>2. {} \in G
  BY <1>1
<1>3. ASSUME NEW T \in SUBSET S, T # {}, \A x \in T : T \ {x} \in G
      PROVE  T \in G
  <2>1. first(T) \in T
    BY <1>3 DEF first
  <2>2. f[T \ {first(T)}] = g[T \ {first(T)}]
    BY <1>3, <2>1
  <2> QED
    BY <1>1, <1>3, <2>2
<1> HIDE DEF G
<1>4. SUBSET S \subseteq G
  BY <1>2, <1>3, ElementByElement
<1> QED
  BY <1>4 DEF G

\* The sum of v over S.
Sum(v, S) == (CHOOSE iter : Adds(iter, v, S))[S]

\* The sum is what any such function says of the set, as a subset of whatever it is defined on.
LEMMA SumIsAdded ==
    ASSUME NEW S, IsFiniteSet(S), NEW v, NEW f, Adds(f, v, S), NEW T \in SUBSET S
    PROVE  Sum(v, T) = f[T]
<1> DEFINE part == [U \in SUBSET T |-> f[U]]
<1>1. IsFiniteSet(T)
  BY FS_Subset
<1>2. Adds(part, v, T)
  <2>1. \A U \in SUBSET T : U \in SUBSET S /\ U \ {first(U)} \in SUBSET T
    OBVIOUS
  <2>2. \A U \in SUBSET T : f[U] = IF U = {} THEN 0 ELSE v[first(U)] + f[U \ {first(U)}]
    BY <2>1 DEF Adds
  <2>3. \A U \in SUBSET T : part[U] = IF U = {} THEN 0 ELSE v[first(U)] + part[U \ {first(U)}]
    BY <2>1, <2>2
  <2>4. part = [U \in SUBSET T |-> part[U]]
    OBVIOUS
  <2> HIDE DEF part
  <2> QED
    BY <2>3, <2>4 DEF Adds
<1>3. PICK c : c = (CHOOSE iter : Adds(iter, v, T)) /\ Adds(c, v, T)
  BY <1>2
<1>4. c[T] = part[T]
  <2> HIDE DEF part
  <2> QED
    BY <1>1, <1>2, <1>3, AddsUnique
<1> QED
  BY <1>3, <1>4 DEF Sum

AnyOrder(f, v, S) == \A T \in SUBSET S : \A x \in T : f[T] = v[x] + f[T \ {x}]

\* Any element of a set may be taken first.
LEMMA AnyFirst ==
    ASSUME NEW S, IsFiniteSet(S), NEW v, Counted(v, S),
           NEW f, f \in [SUBSET S -> Nat], Adds(f, v, S)
    PROVE  AnyOrder(f, v, S)
<1> DEFINE G == {T \in SUBSET S : \A x \in T : f[T] = v[x] + f[T \ {x}]}
<1>1. \A T \in SUBSET S : T # {} => f[T] = v[first(T)] + f[T \ {first(T)}]
  BY DEF Adds
<1>2. {} \in G
  OBVIOUS
<1>3. ASSUME NEW T \in SUBSET S, T # {}, \A x \in T : T \ {x} \in G
      PROVE  T \in G
  <2> SUFFICES ASSUME NEW x \in T PROVE f[T] = v[x] + f[T \ {x}]
    OBVIOUS
  <2>0. first(T) \in T
    BY <1>3, Zenon DEF first
  <2>1. PICK c \in T : c = first(T) /\ f[T] = v[c] + f[T \ {c}]
    BY <1>1, <1>3, <2>0, Zenon
  <2>2. CASE x = c
    BY <2>1, <2>2
  <2>3. CASE x # c
    <3>1. x \in T \ {c} /\ c \in T \ {x} /\ (T \ {c}) \ {x} = (T \ {x}) \ {c}
      BY <2>3
    <3>2. f[T \ {c}] = v[x] + f[(T \ {c}) \ {x}]
      BY <1>3, <3>1
    <3>3. f[T \ {x}] = v[c] + f[(T \ {x}) \ {c}]
      BY <1>3, <3>1
    <3>4. PICK a \in Nat : a = v[x]
      BY DEF Counted
    <3>5. PICK b \in Nat : b = v[c]
      BY DEF Counted
    <3>6. PICK r \in Nat : r = f[(T \ {x}) \ {c}]
      OBVIOUS
    <3>7. f[(T \ {c}) \ {x}] = r
      BY <3>1, <3>6
    <3>8. f[T] = b + (a + r) /\ f[T \ {x}] = b + r
      BY <2>1, <3>2, <3>3, <3>4, <3>5, <3>6, <3>7
    <3> QED
      BY <3>4, <3>5, <3>6, <3>8
  <2> QED
    BY <2>2, <2>3
<1> HIDE DEF G
<1>4. SUBSET S \subseteq G
  BY <1>2, <1>3, ElementByElement
<1> QED
  BY <1>4 DEF G, AnyOrder

\* Sums are numbers, and may be taken apart at any element.
LEMMA SumRule ==
    ASSUME NEW S, IsFiniteSet(S), NEW v, Counted(v, S)
    PROVE  /\ Sum(v, {}) = 0
           /\ \A T \in SUBSET S : Sum(v, T) \in Nat
           /\ \A T \in SUBSET S : \A x \in T : Sum(v, T) = v[x] + Sum(v, T \ {x})
<1>1. PICK f : Adds(f, v, S) /\ f \in [SUBSET S -> Nat]
  BY AddsExists
<1>2. \A T \in SUBSET S : Sum(v, T) = f[T] /\ f[T] \in Nat
  BY <1>1, SumIsAdded
<1>3. f[{}] = 0
  BY <1>1 DEF Adds
<1>4. AnyOrder(f, v, S)
  BY <1>1, AnyFirst
<1>5. \A T \in SUBSET S : \A x \in T : T \ {x} \in SUBSET S
  OBVIOUS
<1>6. {} \in SUBSET S
  OBVIOUS
<1> QED
  BY <1>2, <1>3, <1>4, <1>5, <1>6 DEF AnyOrder

\* Larger summands make no smaller sum.
LEMMA SumMonotone ==
    ASSUME NEW S, IsFiniteSet(S), NEW v, NEW w, Counted(v, S), Counted(w, S), \A q \in S : v[q] <= w[q]
    PROVE  Sum(v, S) <= Sum(w, S)
<1> DEFINE G == {T \in SUBSET S : Sum(v, T) <= Sum(w, T)}
<1>1. {} \in G
  BY SumRule
<1>2. ASSUME NEW T \in SUBSET S, T # {}, \A x \in T : T \ {x} \in G
      PROVE  T \in G
  <2>1. PICK x \in T : Sum(v, T) = v[x] + Sum(v, T \ {x}) /\ Sum(w, T) = w[x] + Sum(w, T \ {x})
    BY <1>2, SumRule
  <2>2. Sum(v, T \ {x}) <= Sum(w, T \ {x})
    BY <1>2
  <2>3. Sum(v, T \ {x}) \in Nat /\ Sum(w, T \ {x}) \in Nat
    BY SumRule
  <2>4. v[x] \in Nat /\ w[x] \in Nat /\ v[x] <= w[x]
    BY DEF Counted
  <2>5. Sum(v, T) <= Sum(w, T)
    BY <2>1, <2>2, <2>3, <2>4
  <2> QED
    BY <2>5
<1> HIDE DEF G
<1>3. SUBSET S \subseteq G
  BY <1>1, <1>2, ElementByElement
<1> QED
  BY <1>3 DEF G

\* What counts nothing may be left out of a sum.
LEMMA SumOfPart ==
    ASSUME NEW S, IsFiniteSet(S), NEW v, Counted(v, S), NEW part \in SUBSET S,
           \A q \in S \ part : v[q] = 0
    PROVE  Sum(v, S) = Sum(v, part)
<1> DEFINE G == {T \in SUBSET S : Sum(v, T) = Sum(v, T \cap part)}
<1>1. {} \in G
  <2>1. {} \cap part = {}
    OBVIOUS
  <2> QED
    BY <2>1
<1>2. ASSUME NEW T \in SUBSET S, T # {}, \A x \in T : T \ {x} \in G
      PROVE  T \in G
  <2>1. PICK x \in T : TRUE
    BY <1>2
  <2>2. /\ Sum(v, T) = v[x] + Sum(v, T \ {x}) /\ Sum(v, T \ {x}) \in Nat
        /\ Sum(v, T \ {x}) = Sum(v, (T \ {x}) \cap part)
    BY <1>2, SumRule
  <2>3. CASE x \in part
    <3>1. (T \ {x}) \cap part = (T \cap part) \ {x} /\ x \in T \cap part /\ T \cap part \in SUBSET S
      BY <2>3
    <3>2. Sum(v, T \cap part) = v[x] + Sum(v, (T \cap part) \ {x})
      BY <3>1, SumRule
    <3>3. Sum(v, (T \cap part) \ {x}) = Sum(v, T \ {x})
      BY <2>2, <3>1
    <3>4. Sum(v, T) = Sum(v, T \cap part)
      BY <2>2, <3>2, <3>3
    <3> QED
      BY <3>4
  <2>4. CASE x \notin part
    <3>1. (T \ {x}) \cap part = T \cap part /\ v[x] = 0
      BY <2>4
    <3>2. Sum(v, T) = Sum(v, T \ {x})
      BY <2>2, <3>1
    <3>3. Sum(v, T) = Sum(v, T \cap part)
      BY <2>2, <3>1, <3>2
    <3> QED
      BY <3>3
  <2> QED
    BY <2>3, <2>4
<1> HIDE DEF G
<1>3. SUBSET S \subseteq G
  BY <1>1, <1>2, ElementByElement
<1>4. S \cap part = part
  OBVIOUS
<1> QED
  BY <1>3, <1>4 DEF G
-----------------------------------------------------------------------------
\* The result of a sheet under a scheme, as Scoring computes it from its variables.
most(a, s, section) == MapThenSumSet(LAMBDA q : 5 * s.weight[q], {q \in section : a[q] # 0})
got(a, s, section) == MapThenSumSet(LAMBDA q : a[q] * s.weight[q], section)
pct(a, s, section) == IF most(a, s, section) = 0 THEN 0 ELSE rounded(1000 * got(a, s, section), most(a, s, section))
base(a, s) == rounded(pct(a, s, General) * s.general + pct(a, s, Specialized) * s.specialized, 1000)
fitting(b, p, s) == Max({0, Min({b, s.bonus_max, 10000 - 10 * p})})
final(b, p, s) == rounded(10 * p + fitting(b, p, s), 10)
band(p, s) == Min({i \in DOMAIN s.uppers : p < s.uppers[i]} \cup {Len(s.uppers)})

Sheets == [Questions -> 0 .. 5]

\* What a question counts, and what it counts at most.
counting(a, s) == [q \in Questions |-> a[q] * s.weight[q]]
counting_full(s) == [q \in Questions |-> 5 * s.weight[q]]

\* The operators of Scoring are these, of its variables.
LEMMA OfTheVariables ==
    /\ base_pct = base(scores, scheme)
    /\ final_pct = final(bonus, base(scores, scheme), scheme)
    /\ recommendation = band(final(bonus, base(scores, scheme), scheme), scheme)
    /\ base_pct' = base(scores', scheme')
    /\ final_pct' = final(bonus', base(scores', scheme'), scheme')
    /\ recommendation' = band(final(bonus', base(scores', scheme'), scheme'), scheme')
<1>1. base_pct = base(scores, scheme) /\ base_pct' = base(scores', scheme')
  <2>1. /\ section_pct(General) = pct(scores, scheme, General)
        /\ section_pct(General)' = pct(scores', scheme', General)
    BY Zenon DEF section_pct, section_max, scored_in, pct, most, got, MapThenSumSet, MapThenFoldSet
  <2>2. /\ section_pct(Specialized) = pct(scores, scheme, Specialized)
        /\ section_pct(Specialized)' = pct(scores', scheme', Specialized)
    BY Zenon DEF section_pct, section_max, scored_in, pct, most, got, MapThenSumSet, MapThenFoldSet
  <2> QED
    BY <2>1, <2>2 DEF base_pct, base
<1>2. final_pct = final(bonus, base_pct, scheme) /\ final_pct' = final(bonus', base_pct', scheme')
  BY DEF final_pct, applied_bonus, final, fitting
<1>3. recommendation = band(final_pct, scheme) /\ recommendation' = band(final_pct', scheme')
  BY DEF recommendation, band
<1> QED
  BY <1>1, <1>2, <1>3

\* The questions of a section that have an answer.
answered(a, section) == {q \in section : a[q] # 0}

\* The two sums of a section are sums of these functions.
LEMMA SectionSums ==
    ASSUME NEW a \in Sheets, NEW s, \A q \in Questions : s.weight[q] \in Nat,
           NEW section \in SUBSET Questions
    PROVE  /\ most(a, s, section) = Sum(counting_full(s), answered(a, section))
           /\ got(a, s, section) = Sum(counting(a, s), section)
<1> DEFINE asked == {q \in section : a[q] # 0}
<1>1. IsFiniteSet(section) /\ IsFiniteSet(asked)
  BY SchemesAssumption, FS_Subset
<1>2. Counted(counting_full(s), asked) /\ Counted(counting(a, s), section)
  BY DEF Counted, counting, counting_full, Sheets
<1>3. most(a, s, section) = Sum(counting_full(s), asked)
  <2> DEFINE walk(iter) == iter = [T \in SUBSET asked |->
                     IF T = {} THEN 0 ELSE (5 * s.weight[CHOOSE x \in T : TRUE]) + iter[T \ {CHOOSE x \in T : TRUE}]]
             it == CHOOSE iter : walk(iter)
  <2>1. most(a, s, section) = it[asked]
    BY Zenon DEF most, MapThenSumSet, MapThenFoldSet
  <2>2. \A T \in SUBSET asked : T # {} => counting_full(s)[first(T)] = 5 * s.weight[CHOOSE x \in T : TRUE]
    BY DEF counting_full, first
  <2>3. \E f : Adds(f, counting_full(s), asked)
    BY <1>1, <1>2, AddsExists
  <2>4. \A iter : Adds(iter, counting_full(s), asked) <=> walk(iter)
    BY <2>2 DEF Adds, first
  <2> HIDE DEF walk
  <2>5. \E iter : walk(iter)
    BY <2>3, <2>4
  <2>6. walk(it)
    BY <2>5, Zenon
  <2>7. Adds(it, counting_full(s), asked)
    BY <2>4, <2>6
  <2> HIDE DEF it, asked
  <2> QED
    BY <1>1, <2>1, <2>7, SumIsAdded
<1>4. got(a, s, section) = Sum(counting(a, s), section)
  <2> DEFINE walk(iter) == iter = [T \in SUBSET section |->
                     IF T = {} THEN 0
                     ELSE (a[CHOOSE x \in T : TRUE] * s.weight[CHOOSE x \in T : TRUE]) + iter[T \ {CHOOSE x \in T : TRUE}]]
             it == CHOOSE iter : walk(iter)
  <2>1. got(a, s, section) = it[section]
    BY Zenon DEF got, MapThenSumSet, MapThenFoldSet
  <2>2. \A T \in SUBSET section : T # {} =>
          counting(a, s)[first(T)] = a[CHOOSE x \in T : TRUE] * s.weight[CHOOSE x \in T : TRUE]
    BY DEF counting, first
  <2>3. \E f : Adds(f, counting(a, s), section)
    BY <1>1, <1>2, AddsExists
  <2>4. \A iter : Adds(iter, counting(a, s), section) <=> walk(iter)
    BY <2>2 DEF Adds, first
  <2> HIDE DEF walk
  <2>5. \E iter : walk(iter)
    BY <2>3, <2>4
  <2>6. walk(it)
    BY <2>5, Zenon
  <2>7. Adds(it, counting(a, s), section)
    BY <2>4, <2>6
  <2> HIDE DEF it
  <2> QED
    BY <1>1, <2>1, <2>7, SumIsAdded
<1> QED
  BY <1>3, <1>4 DEF answered
-----------------------------------------------------------------------------
\* Products of naturals grow with either factor.
LEMMA Product ==
    ASSUME NEW m \in Nat, NEW n \in Nat, NEW d \in Nat, m <= n
    PROVE  m * d <= n * d /\ d * m <= d * n /\ m * d \in Nat
<1>1. PICK e \in Nat : n = m + e
  BY SMT
<1>2. n * d = m * d + e * d /\ e * d \in Nat /\ m * d \in Nat
  BY <1>1
<1>3. d * m = m * d /\ d * n = n * d
  OBVIOUS
<1> QED
  BY <1>2, <1>3

\* Rounding a quotient: it stays under a whole number that the quotient does not exceed, is exact,
\* and keeps an order.
LEMMA Rounding ==
    ASSUME NEW n \in Nat, NEW d \in Nat \ {0}
    PROVE  /\ rounded(n, d) \in Nat
           /\ \A k \in Nat : n <= k * d => rounded(n, d) <= k
           /\ \A k \in Nat : n = k * d => rounded(n, d) = k
           /\ \A m \in Nat : m <= n => rounded(m, d) <= rounded(n, d)
<1>1. \A m \in Nat : rounded(m, d) \in Int /\ 2 * d * rounded(m, d) <= 2 * m + d /\ 2 * m + d < 2 * d * rounded(m, d) + 2 * d
  BY DEF rounded
<1>2. \A x \in Int, y \in Int : x < y => 2 * d * x + 2 * d <= 2 * d * y
  <2> SUFFICES ASSUME NEW x \in Int, NEW y \in Int, x < y PROVE 2 * d * x + 2 * d <= 2 * d * y
    OBVIOUS
  <2>1. PICK e \in Nat : y = x + 1 + e
    BY SMT
  <2>2. 2 * d * y = 2 * d * x + 2 * d + 2 * d * e /\ 2 * d * e \in Nat
    BY <2>1
  <2> QED
    BY <2>2
<1>3. \A x \in Int, y \in Int : 2 * d * x < 2 * d * y + 2 * d => x <= y
  <2> SUFFICES ASSUME NEW x \in Int, NEW y \in Int, 2 * d * x < 2 * d * y + 2 * d, y < x PROVE FALSE
    OBVIOUS
  <2>1. 2 * d * x \in Int /\ 2 * d * y \in Int
    OBVIOUS
  <2>2. 2 * d * y + 2 * d <= 2 * d * x
    BY <1>2
  <2> QED
    BY <2>1, <2>2
<1>4. \A m \in Nat : rounded(m, d) \in Nat
  <2> SUFFICES ASSUME NEW m \in Nat PROVE 0 <= rounded(m, d)
    BY <1>1
  <2>1. PICK r \in Int : r = rounded(m, d) /\ 2 * m + d < 2 * d * r + 2 * d
    BY <1>1
  <2>2. 2 * d * 0 = 0 /\ 2 * d * r \in Int
    OBVIOUS
  <2>3. 2 * d * 0 < 2 * d * r + 2 * d
    BY <2>1, <2>2
  <2> QED
    BY <1>3, <2>1, <2>3
<1>5. PICK r \in Nat : r = rounded(n, d) /\ 2 * d * r <= 2 * n + d /\ 2 * n + d < 2 * d * r + 2 * d
  BY <1>1, <1>4
<1>6. 2 * d * r \in Int
  OBVIOUS
<1>7. ASSUME NEW k \in Nat
      PROVE  /\ n <= k * d => r <= k
             /\ k * d <= n => k <= r
  <2>1. PICK c \in Nat : c = k * d
    OBVIOUS
  <2>2. 2 * d * k = 2 * c
    BY <2>1
  <2>3. ASSUME n <= c PROVE r <= k
    <3>1. 2 * d * r < 2 * d * k + 2 * d
      BY <1>5, <1>6, <2>2, <2>3
    <3> QED
      BY <1>3, <3>1
  <2>4. ASSUME c <= n PROVE k <= r
    <3>1. 2 * d * k < 2 * d * r + 2 * d
      BY <1>5, <1>6, <2>2, <2>4
    <3> QED
      BY <1>3, <3>1
  <2> QED
    BY <2>1, <2>3, <2>4
<1>8. ASSUME NEW m \in Nat, m <= n PROVE rounded(m, d) <= r
  <2>1. PICK p \in Nat : p = rounded(m, d) /\ 2 * d * p <= 2 * m + d
    BY <1>1, <1>4
  <2>2. 2 * d * p \in Int
    OBVIOUS
  <2>3. 2 * d * p < 2 * d * r + 2 * d
    BY <1>5, <1>6, <1>8, <2>1, <2>2
  <2> QED
    BY <1>3, <2>1, <2>3
<1>9. \A k \in Nat : n = k * d => k * d <= n /\ n <= k * d
  OBVIOUS
<1>10. \A k \in Nat : n = k * d => r <= k /\ k <= r
  BY <1>7, <1>9
<1>11. \A k \in Nat : n = k * d => r = k
  BY <1>10
<1> QED
  BY <1>5, <1>7, <1>8, <1>11
-----------------------------------------------------------------------------
\* What the assumption says of a scheme.
LEMMA SchemeRules ==
    ASSUME NEW s \in Schemes
    PROVE  /\ s.general \in Nat /\ s.specialized \in Nat
           /\ \A q \in Questions : s.weight[q] \in Nat \ {0}
           /\ s.bonus_max \in Nat
           /\ Len(s.uppers) \in Nat \ {0} /\ DOMAIN s.uppers = 1 .. Len(s.uppers)
           /\ \A i \in DOMAIN s.uppers : s.uppers[i] \in Nat
<1>1. valid_scheme(s)
  BY SchemesAssumption
<1>2. s.uppers \in Seq(Nat) /\ s.uppers # <<>>
  BY <1>1 DEF valid_scheme
<1>3. /\ Len(s.uppers) \in Nat \ {0} /\ DOMAIN s.uppers = 1 .. Len(s.uppers)
      /\ \A i \in DOMAIN s.uppers : s.uppers[i] \in Nat
  BY <1>2
<1>4. \A n \in 0 .. 1000 : n \in Nat
  OBVIOUS
<1>5. s.general \in Nat /\ s.specialized \in Nat
  <2> DEFINE range == 0 .. 1000
  <2>1. s.general \in range /\ s.specialized \in range
    BY <1>1 DEF valid_scheme
  <2>2. \A n \in range : n \in Nat
    BY <1>4
  <2> HIDE DEF range
  <2> QED
    BY <2>1, <2>2
<1> QED
  BY <1>1, <1>3, <1>5 DEF valid_scheme

\* Scores that count no more make no larger sum, and no scores a larger one than full marks.
LEMMA SumsOfSections ==
    ASSUME NEW s \in Schemes, NEW a \in Sheets, NEW section \in SUBSET Questions
    PROVE  /\ most(a, s, section) \in Nat /\ got(a, s, section) \in Nat
           /\ got(a, s, section) <= most(a, s, section)
           /\ (\A q \in section : a[q] # 0 => a[q] = 5) => got(a, s, section) = most(a, s, section)
           /\ (\E q \in section : a[q] # 0) => most(a, s, section) # 0
           /\ \A b \in Sheets : (\A q \in section : a[q] <= b[q] /\ (a[q] = 0 <=> b[q] = 0))
                => got(a, s, section) <= got(b, s, section) /\ most(a, s, section) = most(b, s, section)
<1> DEFINE asked == {q \in section : a[q] # 0}
<1>1. \A q \in Questions : s.weight[q] \in Nat \ {0}
  BY SchemeRules
<1>2. IsFiniteSet(section) /\ IsFiniteSet(asked)
  BY SchemesAssumption, FS_Subset
<1>3. \A b \in Sheets : /\ most(b, s, section) = Sum(counting_full(s), answered(b, section))
                        /\ got(b, s, section) = Sum(counting(b, s), section)
  <2>1. \A q \in Questions : s.weight[q] \in Nat
    BY <1>1
  <2>2. ASSUME NEW b \in Sheets
        PROVE  /\ most(b, s, section) = Sum(counting_full(s), answered(b, section))
               /\ got(b, s, section) = Sum(counting(b, s), section)
    BY <2>1, SectionSums
  <2> QED
    BY <2>2
<1>3a. /\ most(a, s, section) = Sum(counting_full(s), asked)
       /\ got(a, s, section) = Sum(counting(a, s), section)
  BY <1>3 DEF answered
<1>4. \A b \in Sheets, q \in Questions : /\ counting(b, s)[q] = b[q] * s.weight[q] /\ counting(b, s)[q] \in Nat
                                         /\ b[q] \in 0 .. 5
  BY <1>1 DEF counting, Sheets
<1>5. \A q \in Questions : counting_full(s)[q] = 5 * s.weight[q] /\ counting_full(s)[q] \in Nat
  BY <1>1 DEF counting_full
<1>6. /\ Counted(counting(a, s), section) /\ Counted(counting(a, s), asked)
      /\ Counted(counting_full(s), asked)
  BY <1>4, <1>5 DEF Counted
<1>7. Sum(counting_full(s), asked) \in Nat /\ Sum(counting(a, s), section) \in Nat
  BY <1>2, <1>6, SumRule
<1>8. Sum(counting(a, s), section) = Sum(counting(a, s), asked)
  <2>1. \A q \in section \ asked : counting(a, s)[q] = 0
    BY <1>1, <1>4
  <2> HIDE DEF asked
  <2> QED
    BY <1>2, <1>6, <2>1, SumOfPart DEF asked
<1>9. Sum(counting(a, s), asked) <= Sum(counting_full(s), asked)
  <2>1. \A q \in asked : counting(a, s)[q] <= counting_full(s)[q]
    <3> SUFFICES ASSUME NEW q \in asked PROVE counting(a, s)[q] <= counting_full(s)[q]
      OBVIOUS
    <3>1. a[q] \in Nat /\ a[q] <= 5 /\ s.weight[q] \in Nat
      BY <1>1, <1>4
    <3>2. a[q] * s.weight[q] <= 5 * s.weight[q]
      BY <3>1, Product
    <3> QED
      BY <1>4, <1>5, <3>2
  <2> HIDE DEF asked
  <2> QED
    BY <1>2, <1>6, <2>1, SumMonotone
<1>10. ASSUME \A q \in section : a[q] # 0 => a[q] = 5
       PROVE  Sum(counting_full(s), asked) <= Sum(counting(a, s), asked)
  <2>1. \A q \in asked : counting_full(s)[q] <= counting(a, s)[q]
    BY <1>4, <1>5, <1>10
  <2> HIDE DEF asked
  <2> QED
    BY <1>2, <1>6, <2>1, SumMonotone
<1>11. ASSUME NEW x \in asked PROVE Sum(counting_full(s), asked) # 0
  <2>1. /\ Sum(counting_full(s), asked) = counting_full(s)[x] + Sum(counting_full(s), asked \ {x})
        /\ Sum(counting_full(s), asked \ {x}) \in Nat
    BY <1>2, <1>6, SumRule
  <2>2. counting_full(s)[x] \in Nat \ {0}
    BY <1>1, <1>5
  <2> QED
    BY <2>1, <2>2
<1>12. ASSUME NEW b \in Sheets, \A q \in section : a[q] <= b[q] /\ (a[q] = 0 <=> b[q] = 0)
       PROVE  got(a, s, section) <= got(b, s, section) /\ most(a, s, section) = most(b, s, section)
  <2>1. answered(b, section) = asked
    BY <1>12 DEF answered
  <2>2. /\ most(b, s, section) = Sum(counting_full(s), asked)
        /\ got(b, s, section) = Sum(counting(b, s), section)
    BY <1>3, <2>1
  <2>3. \A q \in section : counting(a, s)[q] <= counting(b, s)[q]
    <3> SUFFICES ASSUME NEW q \in section PROVE counting(a, s)[q] <= counting(b, s)[q]
      OBVIOUS
    <3>1. a[q] \in Nat /\ b[q] \in Nat /\ a[q] <= b[q] /\ s.weight[q] \in Nat
      BY <1>1, <1>4, <1>12
    <3>2. a[q] * s.weight[q] <= b[q] * s.weight[q]
      BY <3>1, Product
    <3> QED
      BY <1>4, <3>2
  <2>4. Counted(counting(b, s), section)
    BY <1>4 DEF Counted
  <2>5. Counted(counting(a, s), section) /\ IsFiniteSet(section)
    BY <1>2, <1>6
  <2>6. Sum(counting(a, s), section) <= Sum(counting(b, s), section)
    BY <2>3, <2>4, <2>5, SumMonotone
  <2> QED
    BY <1>3a, <2>2, <2>6
<1>13. (\E q \in section : a[q] # 0) => \E x \in asked : TRUE
  OBVIOUS
<1> HIDE DEF asked
<1>14. /\ most(a, s, section) \in Nat /\ got(a, s, section) \in Nat
       /\ got(a, s, section) <= most(a, s, section)
  BY <1>7, <1>8, <1>9, <1>3a
<1>15. (\A q \in section : a[q] # 0 => a[q] = 5) => got(a, s, section) = most(a, s, section)
  <2>1. SUFFICES ASSUME \A q \in section : a[q] # 0 => a[q] = 5
                 PROVE  got(a, s, section) = most(a, s, section)
    OBVIOUS
  <2>2. most(a, s, section) <= got(a, s, section)
    BY <1>8, <1>10, <1>3a, <2>1
  <2> QED
    BY <1>14, <2>2
<1>16. (\E q \in section : a[q] # 0) => most(a, s, section) # 0
  BY <1>11, <1>13, <1>3a
<1> QED
  BY <1>12, <1>14, <1>15, <1>16

\* The percentage of a section is one; it is 100 for full marks; better scores make no smaller one.
LEMMA PctRule ==
    ASSUME NEW s \in Schemes, NEW a \in Sheets, NEW section \in SUBSET Questions
    PROVE  /\ pct(a, s, section) \in Nat /\ pct(a, s, section) <= 1000
           /\ (\E q \in section : a[q] # 0) /\ (\A q \in section : a[q] # 0 => a[q] = 5)
                => pct(a, s, section) = 1000
           /\ \A b \in Sheets : (\A q \in section : a[q] <= b[q] /\ (a[q] = 0 <=> b[q] = 0))
                => pct(a, s, section) <= pct(b, s, section)
<1>0. /\ most(a, s, section) \in Nat /\ got(a, s, section) \in Nat
      /\ got(a, s, section) <= most(a, s, section)
      /\ (\A q \in section : a[q] # 0 => a[q] = 5) => got(a, s, section) = most(a, s, section)
      /\ (\E q \in section : a[q] # 0) => most(a, s, section) # 0
      /\ \A b \in Sheets : (\A q \in section : a[q] <= b[q] /\ (a[q] = 0 <=> b[q] = 0))
           => got(a, s, section) <= got(b, s, section) /\ most(a, s, section) = most(b, s, section)
  BY SumsOfSections, Zenon
<1>1. PICK m \in Nat : m = most(a, s, section)
  BY <1>0
<1>2. PICK g \in Nat : g = got(a, s, section) /\ g <= m
  BY <1>0, <1>1
<1>3. CASE m = 0
  <2>1. pct(a, s, section) = 0 /\ \A q \in section : a[q] = 0
    BY <1>0, <1>1, <1>3 DEF pct
  <2>2. ASSUME NEW b \in Sheets, \A q \in section : a[q] <= b[q] /\ (a[q] = 0 <=> b[q] = 0)
        PROVE  pct(b, s, section) = 0
    <3>1. most(b, s, section) = 0
      BY <1>0, <1>1, <1>3, <2>2
    <3> QED
      BY <3>1 DEF pct
  <2> QED
    BY <2>1, <2>2
<1>4. CASE m # 0
  <2>1. pct(a, s, section) = rounded(1000 * g, m)
    BY <1>1, <1>2, <1>4 DEF pct
  <2>2. 1000 * g \in Nat /\ 1000 * g <= 1000 * m
    BY <1>2
  <2>3. pct(a, s, section) \in Nat /\ pct(a, s, section) <= 1000
    <3>1. PICK r \in Nat : r = rounded(1000 * g, m) /\ r <= 1000
      BY <1>4, <2>2, Rounding
    <3> QED
      BY <2>1, <3>1
  <2>4. g = m => pct(a, s, section) = 1000
    BY <1>4, <2>1, <2>2, Rounding
  <2>5. ASSUME NEW b \in Sheets, \A q \in section : a[q] <= b[q] /\ (a[q] = 0 <=> b[q] = 0)
        PROVE  pct(a, s, section) <= pct(b, s, section)
    <3>1. PICK h \in Nat : h = got(b, s, section)
      BY SumsOfSections
    <3>2. most(b, s, section) = m /\ g <= h
      BY <1>1, <1>2, <2>5, <3>1, SumsOfSections
    <3>3. pct(b, s, section) = rounded(1000 * h, m)
      BY <1>4, <3>1, <3>2 DEF pct
    <3>4. 1000 * h \in Nat /\ 1000 * g <= 1000 * h
      BY <3>2
    <3> QED
      BY <1>4, <2>1, <2>2, <3>3, <3>4, Rounding
  <2>6. (\A q \in section : a[q] # 0 => a[q] = 5) => g = m
    BY <1>1, <1>2, SumsOfSections
  <2> QED
    BY <2>3, <2>4, <2>5, <2>6
<1> QED
  BY <1>3, <1>4

\* The result before the bonus.
LEMMA BaseRule ==
    ASSUME NEW s \in Schemes, NEW a \in Sheets
    PROVE  /\ base(a, s) \in Nat /\ base(a, s) <= s.general + s.specialized
           /\ (\A section \in {General, Specialized} :
                  (\E q \in section : a[q] # 0) /\ (\A q \in section : a[q] # 0 => a[q] = 5))
                => base(a, s) = s.general + s.specialized
           /\ \A b \in Sheets : (\A q \in Questions : a[q] <= b[q] /\ (a[q] = 0 <=> b[q] = 0))
                => base(a, s) <= base(b, s)
<1>1. PICK g \in Nat, d \in Nat : g = s.general /\ d = s.specialized
  BY SchemeRules
<1>2. General \in SUBSET Questions /\ Specialized \in SUBSET Questions
  BY DEF Questions
<1>3. PICK x \in Nat, y \in Nat : x = pct(a, s, General) /\ y = pct(a, s, Specialized) /\ x <= 1000 /\ y <= 1000
  <2>1. /\ pct(a, s, General) \in Nat /\ pct(a, s, General) <= 1000
        /\ pct(a, s, Specialized) \in Nat /\ pct(a, s, Specialized) <= 1000
    BY <1>2, PctRule
  <2> QED
    BY <2>1
<1>4. base(a, s) = rounded(x * g + y * d, 1000)
  BY <1>1, <1>3 DEF base
<1>5. x * g <= 1000 * g /\ y * d <= 1000 * d /\ x * g \in Nat /\ y * d \in Nat
  BY <1>1, <1>3, Product
<1>6. x * g + y * d \in Nat /\ g + d \in Nat /\ x * g + y * d <= (g + d) * 1000
  BY <1>1, <1>5
<1>7. base(a, s) \in Nat /\ base(a, s) <= g + d
  <2>1. PICK n \in Nat, k \in Nat : n = x * g + y * d /\ k = g + d /\ n <= k * 1000
    BY <1>6
  <2>2. rounded(n, 1000) \in Nat /\ rounded(n, 1000) <= k
    BY <2>1, Rounding
  <2> QED
    BY <1>4, <2>1, <2>2
<1>8. ASSUME \A section \in {General, Specialized} :
                  (\E q \in section : a[q] # 0) /\ (\A q \in section : a[q] # 0 => a[q] = 5)
      PROVE  base(a, s) = g + d
  <2>1. x = 1000 /\ y = 1000
    BY <1>2, <1>3, <1>8, PctRule
  <2>2. x * g + y * d = (g + d) * 1000
    BY <1>1, <2>1
  <2>3. rounded(x * g + y * d, 1000) = g + d
    BY <1>6, <2>2, Rounding
  <2> QED
    BY <1>4, <2>3
<1>9. ASSUME NEW b \in Sheets, \A q \in Questions : a[q] <= b[q] /\ (a[q] = 0 <=> b[q] = 0)
      PROVE  base(a, s) <= base(b, s)
  <2>1. /\ pct(b, s, General) \in Nat /\ pct(b, s, Specialized) \in Nat
        /\ x <= pct(b, s, General) /\ y <= pct(b, s, Specialized)
    <3>1. /\ \A q \in General : a[q] <= b[q] /\ (a[q] = 0 <=> b[q] = 0)
          /\ \A q \in Specialized : a[q] <= b[q] /\ (a[q] = 0 <=> b[q] = 0)
      BY <1>2, <1>9
    <3> QED
      BY <1>2, <1>3, <3>1, PctRule
  <2>2. PICK v \in Nat, w \in Nat : v = pct(b, s, General) /\ w = pct(b, s, Specialized) /\ x <= v /\ y <= w
    BY <2>1
  <2>3. base(b, s) = rounded(v * g + w * d, 1000)
    BY <1>1, <2>2 DEF base
  <2>4. x * g <= v * g /\ y * d <= w * d /\ v * g \in Nat /\ w * d \in Nat
    BY <2>2, Product
  <2>5. v * g + w * d \in Nat /\ x * g + y * d <= v * g + w * d
    BY <1>5, <2>4
  <2>6. rounded(x * g + y * d, 1000) <= rounded(v * g + w * d, 1000)
    BY <1>6, <2>5, Rounding
  <2> QED
    BY <1>4, <2>3, <2>6
<1> QED
  BY <1>1, <1>7, <1>8, <1>9

\* A set of naturals has a least member.
LEMMA LeastOf ==
    ASSUME NEW T \in SUBSET Nat, T # {}
    PROVE  Min(T) \in T /\ \A y \in T : Min(T) <= y
<1> DEFINE Below == OpToRel(<, Nat)
<1>1. PICK x \in T : \A y \in T : <<y, x>> \notin Below
  <2>1. IsWellFoundedOn(Below, Nat)
    BY NatLessThanWellFounded
  <2> HIDE DEF Below
  <2> QED
    BY <2>1, WFMin
<1>2. \A y \in T : ~ (y < x)
  BY <1>1 DEF OpToRel
<1>3. \A y \in T : x <= y
  BY <1>2
<1> HIDE DEF Below
<1> QED
  BY <1>3 DEF Min

\* What is granted of a bonus: the least of what was given, what the scheme allows and what fits,
\* or nothing when the result is above 100 without it.
LEMMA FittingRule ==
    ASSUME NEW s \in Schemes, NEW b \in Nat, NEW p \in Nat
    PROVE  /\ fitting(b, p, s) \in Nat /\ fitting(b, p, s) <= b /\ fitting(b, p, s) <= s.bonus_max
           /\ p <= 1000 => /\ fitting(b, p, s) <= 10000 - 10 * p
                           /\ fitting(b, p, s) \in {b, s.bonus_max, 10000 - 10 * p}
           /\ p > 1000 => fitting(b, p, s) = 0
<1>1. PICK m \in Nat : m = s.bonus_max
  BY SchemeRules
<1>2. PICK r \in Int : r = 10000 - 10 * p
  OBVIOUS
<1>2a. fitting(b, p, s) = Max({0, Min({b, m, r})})
  BY <1>1, <1>2 DEF fitting
<1>3. CASE p <= 1000
  <2>1. PICK c \in {b, m, r} : c = Min({b, m, r}) /\ c <= b /\ c <= m /\ c <= r
    <3>1. {b, m, r} \in SUBSET Nat /\ {b, m, r} # {}
      BY <1>2, <1>3
    <3>2. Min({b, m, r}) \in {b, m, r} /\ \A y \in {b, m, r} : Min({b, m, r}) <= y
      BY <3>1, LeastOf
    <3> QED
      BY <3>2
  <2>2. c \in Nat
    BY <1>2, <1>3
  <2>3. Max({0, c}) = c
    BY <2>2 DEF Max
  <2>4. fitting(b, p, s) = c
    BY <1>2a, <2>1, <2>3
  <2> QED
    BY <1>1, <1>2, <1>3, <2>1, <2>2, <2>4
<1>4. CASE p > 1000
  <2>1. r < 0
    BY <1>2, <1>4
  <2>2. Min({b, m, r}) = r
    BY <2>1 DEF Min
  <2>3. Max({0, r}) = 0
    BY <2>1 DEF Max
  <2>4. fitting(b, p, s) = 0
    BY <1>2a, <2>2, <2>3, Zenon
  <2> QED
    BY <1>1, <1>4, <2>4
<1> QED
  BY <1>3, <1>4

\* The result with the bonus: from the one without it up to 100, unless that is above 100 already,
\* and no smaller for more of either.
LEMMA FinalRule ==
    ASSUME NEW s \in Schemes, NEW b \in Nat, NEW p \in Nat
    PROVE  /\ final(b, p, s) \in Nat /\ p <= final(b, p, s)
           /\ final(b, p, s) <= 1000 \/ final(b, p, s) = p
           /\ \A c \in Nat, r \in Nat : b <= c /\ p <= r => final(b, p, s) <= final(c, r, s)
<1>1. PICK m \in Nat : m = s.bonus_max
  BY SchemeRules
<1> DEFINE granted(c, r, g) ==
        /\ g \in Nat /\ g <= c /\ g <= m
        /\ r <= 1000 => g <= 10000 - 10 * r /\ g \in {c, m, 10000 - 10 * r}
        /\ r > 1000 => g = 0
<1>2. ASSUME NEW c \in Nat, NEW r \in Nat PROVE granted(c, r, fitting(c, r, s))
  <2>1. /\ fitting(c, r, s) \in Nat /\ fitting(c, r, s) <= c /\ fitting(c, r, s) <= m
        /\ r <= 1000 => fitting(c, r, s) <= 10000 - 10 * r
        /\ r > 1000 => fitting(c, r, s) = 0
    BY <1>1, FittingRule
  <2>2. r <= 1000 => fitting(c, r, s) \in {c, m, 10000 - 10 * r}
    BY <1>1, FittingRule
  <2> QED
    BY <2>1, <2>2
<1>3. PICK f : f = fitting(b, p, s) /\ granted(b, p, f)
  <2> HIDE DEF granted
  <2> QED
    BY <1>2
<1>4. final(b, p, s) = (2 * (10 * p + f) + 10) \div 20
  BY <1>3 DEF final, rounded
<1>5. /\ final(b, p, s) \in Nat /\ p <= final(b, p, s)
      /\ final(b, p, s) <= 1000 \/ final(b, p, s) = p
  BY <1>3, <1>4
<1>6. ASSUME NEW c \in Nat, NEW r \in Nat, b <= c, p <= r
      PROVE  final(b, p, s) <= final(c, r, s)
  <2>1. PICK g : g = fitting(c, r, s) /\ granted(c, r, g)
    <3> HIDE DEF granted
    <3> QED
      BY <1>2
  <2>2. final(c, r, s) = (2 * (10 * r + g) + 10) \div 20
    BY <2>1 DEF final, rounded
  <2>3. 10 * p + f <= 10 * r + g
    BY <1>3, <1>6, <2>1
  <2> QED
    BY <1>3, <1>4, <2>1, <2>2, <2>3
<1> QED
  BY <1>5, <1>6

\* A result falls into a band, and a higher one into no earlier band.
LEMMA BandRule ==
    ASSUME NEW s \in Schemes, NEW p \in Nat, NEW r \in Nat, p <= r
    PROVE  band(p, s) <= band(r, s)
<1> DEFINE above(x) == {i \in DOMAIN s.uppers : x < s.uppers[i]} \cup {Len(s.uppers)}
<1>1. \A x \in Nat : above(x) \in SUBSET Nat /\ above(x) # {}
  <2>1. Len(s.uppers) \in Nat /\ \A i \in DOMAIN s.uppers : i \in Nat
    BY SchemeRules
  <2> QED
    BY <2>1
<1>2. above(r) \subseteq above(p)
  BY SchemeRules
<1>3. /\ Min(above(p)) \in Nat /\ Min(above(r)) \in above(r) /\ Min(above(r)) \in Nat
      /\ \A y \in above(p) : Min(above(p)) <= y
  <2> HIDE DEF above
  <2> QED
    BY <1>1, LeastOf
<1> QED
  BY <1>2, <1>3 DEF band
-----------------------------------------------------------------------------
\* Scores are numbers up to 5, over the questions; the stamp is a scheme.
ScoringTypeOK == scores \in Sheets /\ bonus \in Nat /\ scheme \in Schemes

\* It holds at the start, and every request keeps it.
LEMMA ScoringTyped == ScoringSpec => []ScoringTypeOK
<1>1. ScoringInit => ScoringTypeOK
  BY DEF ScoringInit, ScoringTypeOK, Sheets
<1>2. ScoringTypeOK /\ [ScoringNext]_scoring_vars => ScoringTypeOK'
  <2> SUFFICES ASSUME ScoringTypeOK, [ScoringNext]_scoring_vars PROVE ScoringTypeOK'
    OBVIOUS
  <2>1. ASSUME NEW q \in Questions, NEW n \in 1 .. 5, upsert_score(q, n) PROVE ScoringTypeOK'
    BY <2>1 DEF upsert_score, ScoringTypeOK, Sheets
  <2>2. ASSUME NEW b \in Bonuses, upsert_bonus(b) PROVE ScoringTypeOK'
    BY <2>2, SchemesAssumption DEF upsert_bonus, ScoringTypeOK
  <2>3. CASE UNCHANGED scoring_vars
    BY <2>3 DEF scoring_vars, ScoringTypeOK
  <2> QED
    BY <2>1, <2>2, <2>3 DEF ScoringNext
<1> QED
  BY <1>1, <1>2, PTL DEF ScoringSpec

\* Whatever the scheme and the bonus: no result without a bonus above what the weights of the
\* sections add up to, the whole of it for full marks, and no bonus that takes anything away or
\* brings anybody above 100.
THEOREM ResultsKeepToTheWeights == ScoringSpec => []NothingAboveTheWeights
<1>1. ScoringTypeOK => NothingAboveTheWeights
  <2> SUFFICES ASSUME ScoringTypeOK PROVE NothingAboveTheWeights
    OBVIOUS
  <2>1. scores \in Sheets /\ bonus \in Nat /\ scheme \in Schemes
    BY DEF ScoringTypeOK
  <2>2. PICK w \in Nat : w = scheme.general + scheme.specialized
    BY <2>1, SchemeRules
  <2>3. PICK p \in Nat : p = base_pct /\ p = base(scores, scheme) /\ p <= w
    BY <2>1, <2>2, BaseRule, OfTheVariables
  <2>4. PICK r \in Nat : r = final_pct /\ p <= r /\ (r <= 1000 \/ r = p)
    <3>1. final_pct = final(bonus, p, scheme)
      BY <2>3, OfTheVariables
    <3>2. /\ final(bonus, p, scheme) \in Nat /\ p <= final(bonus, p, scheme)
          /\ final(bonus, p, scheme) <= 1000 \/ final(bonus, p, scheme) = p
      BY <2>1, FinalRule
    <3> QED
      BY <3>1, <3>2
  <2>5. full_marks => base_pct = w
    <3> SUFFICES ASSUME full_marks PROVE base(scores, scheme) = w
      BY OfTheVariables
    <3>1. \A section \in {General, Specialized} :
            (\E q \in section : scores[q] # 0) /\ (\A q \in section : scores[q] # 0 => scores[q] = 5)
      BY DEF full_marks, scored_in
    <3> QED
      BY <2>1, <2>2, <3>1, BaseRule
  <2>6. r \in p .. Max({1000, p})
    <3>1. PICK m \in {1000, p} : m = Max({1000, p}) /\ m >= 1000 /\ m >= p
      <4>1. CASE p <= 1000
        BY <4>1 DEF Max
      <4>2. CASE p > 1000
        BY <4>2 DEF Max
      <4> QED
        BY <4>1, <4>2
    <3> QED
      BY <2>4, <3>1
  <2> QED
    BY <2>2, <2>3, <2>4, <2>5, <2>6 DEF NothingAboveTheWeights
<1> QED
  BY <1>1, ScoringTyped, PTL

\* The part of FinalRule that typing needs.
LEMMA FinalTyped ==
    \A s \in Schemes : \A b, p \in Nat : final(b, p, s) \in Nat
<1> TAKE s \in Schemes
<1> TAKE b, p \in Nat
<1> QED
  BY FinalRule

\* With weights that add up to no more than 1 as they are stored, a result is a percentage.
THEOREM ResultsArePercentages ==
    ScoringSpec => [](scheme.general + scheme.specialized <= 1000 => ResultIsAPercentage)
<1>1. ScoringTypeOK => (scheme.general + scheme.specialized <= 1000 => ResultIsAPercentage)
  <2> SUFFICES ASSUME ScoringTypeOK, scheme.general + scheme.specialized <= 1000
               PROVE  ResultIsAPercentage
    OBVIOUS
  <2>1. scores \in Sheets /\ bonus \in Nat /\ scheme \in Schemes
    BY DEF ScoringTypeOK
  <2>2. PICK w \in Nat : w = scheme.general + scheme.specialized
    BY <2>1, SchemeRules
  <2>3. PICK p \in Nat : p = base_pct /\ p = base(scores, scheme) /\ p <= w
    BY <2>1, <2>2, BaseRule, OfTheVariables
  <2>4. PICK r \in Nat : r = final_pct /\ (r <= 1000 \/ r = p)
    BY <2>1, <2>3, FinalRule, OfTheVariables
  <2>5. p <= 1000 /\ r <= 1000
    BY <2>2, <2>3, <2>4
  <2>6. p \in 0 .. 1000 /\ r \in 0 .. 1000
    BY <2>5
  <2> QED
    BY <2>3, <2>4, <2>6 DEF ResultIsAPercentage
<1> QED
  BY <1>1, ScoringTyped, PTL

\* Raising scores or the bonus never lowers the result, nor leads to an earlier band.
THEOREM BetterFormsWin == ScoringSpec => BetterIsNotWorse
<1> DEFINE better == /\ scores' # scores \/ bonus' # bonus
                     /\ \A q \in Questions : scores'[q] >= scores[q]
                     /\ bonus' >= bonus
<1>1. ScoringTypeOK /\ ScoringTypeOK' /\ [ScoringNext]_scoring_vars
        => [better => final_pct' >= final_pct /\ recommendation' >= recommendation]_scoring_vars
  <2> SUFFICES ASSUME ScoringTypeOK, ScoringTypeOK', ScoringNext, better
               PROVE  final_pct' >= final_pct /\ recommendation' >= recommendation
    BY DEF scoring_vars
  <2>1. /\ scores \in Sheets /\ bonus \in Nat /\ scheme \in Schemes
        /\ scores' \in Sheets /\ bonus' \in Nat /\ scheme' = scheme
    BY DEF ScoringTypeOK, ScoringNext, upsert_score, upsert_bonus
  <2>2. \A q \in Questions : scores[q] = 0 <=> scores'[q] = 0
    BY <2>1 DEF ScoringNext, upsert_score, upsert_bonus, Sheets
  <2>3. \A q \in Questions : scores[q] <= scores'[q]
    BY <2>1 DEF Sheets
  <2>4. base(scores, scheme) <= base(scores', scheme)
    BY <2>1, <2>2, <2>3, BaseRule
  <2>5. base(scores, scheme) \in Nat /\ base(scores', scheme) \in Nat
    BY <2>1, BaseRule
  <2>6. PICK p \in Nat, r \in Nat : p = base(scores, scheme) /\ r = base(scores', scheme) /\ p <= r
    BY <2>4, <2>5
  <2>7. final(bonus, p, scheme) <= final(bonus', r, scheme)
    BY <2>1, <2>6, FinalRule
  <2>8. final(bonus, p, scheme) \in Nat /\ final(bonus', r, scheme) \in Nat
    BY <2>1, <2>6, FinalTyped, Zenon
  <2>9. band(final(bonus, p, scheme), scheme) <= band(final(bonus', r, scheme), scheme)
    BY <2>1, <2>7, <2>8, BandRule
  <2> QED
    BY <2>1, <2>6, <2>7, <2>9, OfTheVariables
<1> QED
  BY <1>1, ScoringTyped, PTL DEF ScoringSpec, BetterIsNotWorse
=============================================================================
