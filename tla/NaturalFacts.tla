---------------------------- MODULE NaturalFacts ----------------------------
(* Facts about naturals and sums that the other proof modules build on.    *)
EXTENDS Naturals, Functions, FiniteSetTheorems, TLAPS

(* The least-number principle, for a set rather than for an operator: of   *)
(* the intervals 0 .. x with x in the set, take one that is minimal for    *)
(* strict inclusion.                                                       *)
LEMMA LeastNatural ==
    ASSUME NEW T, T \subseteq Nat, T # {}
    PROVE  \E x \in T : \A y \in T : x <= y
  <1> DEFINE Below == {0 .. x : x \in T}
  <1>1. Below \subseteq FiniteSubsetsOf(Nat) /\ Below # {}
    <2>1. \A x \in Nat : 0 .. x \in SUBSET Nat
      OBVIOUS
    <2>2. \A x \in T : 0 .. x \in FiniteSubsetsOf(Nat)
      BY <2>1, FS_Interval DEF FiniteSubsetsOf
    <2> QED
      BY <2>2
  <1>2. IsWellFoundedOn(StrictSubsetOrdering(Nat), FiniteSubsetsOf(Nat))
    BY FS_StrictSubsetOrderingWellFounded
  <1> HIDE DEF Below
  <1>3. PICK b \in Below : \A d \in Below : ~(<<d, b>> \in StrictSubsetOrdering(Nat))
    BY <1>1, <1>2, WFMin
  <1> USE DEF Below
  <1>4. PICK x \in T : b = 0 .. x
    OBVIOUS
  <1>5. ASSUME NEW y \in T, y < x PROVE FALSE
    <2>1. 0 .. y \subseteq 0 .. x /\ 0 .. y # 0 .. x
      BY <1>5
    <2>2. <<0 .. y, 0 .. x>> \in StrictSubsetOrdering(Nat)
      BY <2>1 DEF StrictSubsetOrdering
    <2> QED
      BY <1>3, <1>4, <2>2
  <1> QED
    BY <1>5

(* Neighbours in a sequence suffice: a transitive relation that holds of   *)
(* any two elements with none between them, in the order of their numbers, *)
(* holds of any two in that order.  Take the first element that p is not   *)
(* related to, and the last before it.                                     *)
LEMMA NeighboursReach ==
    ASSUME NEW R, NEW Related,
           \A a \in R : a.order \in Nat,
           \A a, b \in R : a.order = b.order => a = b,
           \A a, b \in R :
               a.order < b.order /\ (\A d \in R : ~(a.order < d.order /\ d.order < b.order))
               => <<a, b>> \in Related,
           \A a, b, c \in R :
               <<a, b>> \in Related /\ <<b, c>> \in Related => <<a, c>> \in Related,
           NEW p \in R, NEW q \in R, p.order < q.order
    PROVE  <<p, q>> \in Related
  <1> DEFINE Missed == {s \in R : p.order < s.order /\ <<p, s>> \notin Related}
  <1>1. \A s \in R : s \in Missed <=> p.order < s.order /\ <<p, s>> \notin Related
    OBVIOUS
  <1>2. Missed \subseteq R
    OBVIOUS
  <1>3. SUFFICES ASSUME q \in Missed PROVE FALSE
    BY <1>1
  <1> HIDE DEF Missed
  <1>4. PICK r \in Missed : \A s \in Missed : r.order <= s.order
    <2> DEFINE Orders == {s.order : s \in Missed}
    <2>1. Orders \subseteq Nat /\ Orders # {}
      BY <1>2, <1>3
    <2>2. PICK m \in Orders : \A o \in Orders : m <= o
      <3> HIDE DEF Orders
      <3> QED
        BY <2>1, LeastNatural
    <2> QED
      BY <2>2
  <1>5. r \in R /\ p.order < r.order /\ <<p, r>> \notin Related
    BY <1>1, <1>2, <1>4
  <1> DEFINE Gaps == {r.order - s.order : s \in {t \in R : p.order <= t.order /\ t.order < r.order}}
  <1>6. PICK d \in R : /\ p.order <= d.order /\ d.order < r.order
                       /\ \A s \in R : p.order <= s.order /\ s.order < r.order
                                         => s.order <= d.order
    <2>1. Gaps \subseteq Nat
      BY <1>5
    <2>2. r.order - p.order \in Gaps
      BY <1>5
    <2> HIDE DEF Gaps
    <2>3. PICK g \in Gaps : \A h \in Gaps : g <= h
      BY <2>1, <2>2, LeastNatural
    <2> USE DEF Gaps
    <2>4. PICK s \in R : /\ g = r.order - s.order
                         /\ p.order <= s.order /\ s.order < r.order
      OBVIOUS
    <2>5. ASSUME NEW t \in R, p.order <= t.order, t.order < r.order
          PROVE  t.order <= s.order
      <3>1. r.order - s.order <= r.order - t.order
        BY <2>3, <2>4, <2>5
      <3> QED
        BY <1>5, <2>4, <2>5, <3>1
    <2> QED
      BY <2>4, <2>5
  <1>7. <<d, r>> \in Related
    <2>1. \A e \in R : ~(d.order < e.order /\ e.order < r.order)
      BY <1>6
    <2> QED
      BY <1>5, <1>6, <2>1
  <1>8. CASE d.order = p.order
    BY <1>5, <1>7, <1>8
  <1>9. CASE d.order # p.order
    <2>1. d \notin Missed /\ p.order < d.order
      BY <1>4, <1>5, <1>6, <1>9
    <2>2. <<p, d>> \in Related
      BY <1>1, <2>1
    <2> QED
      BY <1>5, <1>7, <2>2
  <1> QED
    BY <1>8, <1>9

-----------------------------------------------------------------------------
(* Sums over finite sets                                                   *)

(* Of the sets of a family of subsets of a finite set, one is minimal for  *)
(* inclusion: the induction on finite sets, for a family.                  *)
LEMMA SmallestSet ==
    ASSUME NEW S, IsFiniteSet(S), NEW Family, Family \subseteq SUBSET S, Family # {}
    PROVE  \E s \in Family : \A t \in Family : t \subseteq s => t = s
  <1>1. Family \subseteq FiniteSubsetsOf(S)
    BY FS_Subset DEF FiniteSubsetsOf
  <1>2. IsWellFoundedOn(StrictSubsetOrdering(S), FiniteSubsetsOf(S))
    BY FS_StrictSubsetOrderingWellFounded
  <1>3. PICK s \in Family : \A t \in Family : ~(<<t, s>> \in StrictSubsetOrdering(S))
    BY <1>1, <1>2, WFMin
  <1>4. ASSUME NEW t \in Family, t \subseteq s PROVE t = s
    <2>1. t \in SUBSET S /\ s \in SUBSET S
      OBVIOUS
    <2> QED
      BY <1>3, <1>4, <2>1 DEF StrictSubsetOrdering
  <1> QED
    BY <1>4

(* sum gives every subset of S the sum of f over it, whichever element is  *)
(* taken out first.                                                        *)
AddsUp(sum, f, S) ==
    /\ sum \in [SUBSET S -> Nat]
    /\ sum[{}] = 0
    /\ \A s \in SUBSET S : \A x \in s : sum[s] = f[x] + sum[s \ {x}]

(* There are such sums: add an element to the least set without.           *)
LEMMA SumsExist ==
    ASSUME NEW S, IsFiniteSet(S), NEW f, \A x \in S : f[x] \in Nat
    PROVE  \E sum : AddsUp(sum, f, S)
  <1> DEFINE Without == {T \in SUBSET S : ~\E sum : AddsUp(sum, f, T)}
  <1>1. SUFFICES ASSUME Without # {} PROVE FALSE
    OBVIOUS
  <1>2. PICK T \in Without : \A U \in Without : U \subseteq T => U = T
    <2> HIDE DEF Without
    <2>1. Without \subseteq SUBSET S
      BY DEF Without
    <2> QED
      BY <1>1, <2>1, SmallestSet
  <1>3. T # {}
    <2>1. AddsUp([s \in SUBSET {} |-> 0], f, {})
      BY DEF AddsUp
    <2> QED
      BY <2>1
  <1>4. PICK a \in T : TRUE
    BY <1>3
  <1>5. PICK sum : AddsUp(sum, f, T \ {a})
    <2>1. T \ {a} \in SUBSET S /\ T \ {a} \subseteq T /\ T \ {a} # T
      OBVIOUS
    <2> QED
      BY <1>2, <2>1
  <1> DEFINE more == [s \in SUBSET T |-> IF a \in s THEN f[a] + sum[s \ {a}] ELSE sum[s]]
  <1>6. \A s \in SUBSET T : s \ {a} \in SUBSET (T \ {a}) /\ (a \notin s => s = s \ {a})
    OBVIOUS
  <1>7. f[a] \in Nat
    OBVIOUS
  <1>8. \A s \in SUBSET T : sum[s \ {a}] \in Nat
    BY <1>5, <1>6 DEF AddsUp
  <1>9. more \in [SUBSET T -> Nat]
    <2>1. ASSUME NEW s \in SUBSET T
          PROVE  (IF a \in s THEN f[a] + sum[s \ {a}] ELSE sum[s]) \in Nat
      <3>1. sum[s \ {a}] \in Nat /\ (a \notin s => s = s \ {a})
        BY <1>6, <1>8
      <3>2. CASE a \in s
        <4> DEFINE k == sum[s \ {a}]
                   n == f[a]
        <4>1. k \in Nat /\ n \in Nat
          BY <1>7, <3>1
        <4>2. n + k \in Nat
          <5> HIDE DEF k, n
          <5> QED
            BY <4>1
        <4> QED
          BY <3>2, <4>2
      <3>3. CASE a \notin s
        BY <3>1, <3>3
      <3> QED
        BY <3>2, <3>3
    <2> QED
      BY <2>1
  <1>10. more[{}] = 0
    <2>1. {} \in SUBSET T /\ a \notin {}
      OBVIOUS
    <2> QED
      BY <1>5, <2>1 DEF AddsUp
  <1>11. ASSUME NEW s \in SUBSET T, NEW x \in s PROVE more[s] = f[x] + more[s \ {x}]
    <2>1. s \ {x} \in SUBSET T
      OBVIOUS
    <2>2. CASE x = a
      BY <2>1, <2>2
    <2>3. CASE x # a /\ a \notin s
      <3>1. s \in SUBSET (T \ {a})
        BY <2>3
      <3>2. sum[s] = f[x] + sum[s \ {x}]
        BY <1>5, <3>1 DEF AddsUp
      <3> QED
        BY <2>1, <2>3, <3>2
    <2>4. CASE x # a /\ a \in s
      <3>1. s \ {a} \in SUBSET (T \ {a}) /\ x \in s \ {a}
        BY <2>4
      <3>2. sum[s \ {a}] = f[x] + sum[(s \ {a}) \ {x}]
        BY <1>5, <3>1 DEF AddsUp
      <3>3. (s \ {a}) \ {x} = (s \ {x}) \ {a} /\ a \in s \ {x}
        BY <2>4
      <3>4. more[s] = f[a] + sum[s \ {a}] /\ more[s \ {x}] = f[a] + sum[(s \ {x}) \ {a}]
        BY <2>1, <2>4, <3>3
      <3>5. f[x] \in Nat /\ sum[(s \ {x}) \ {a}] \in Nat
        BY <1>8, <2>1
      <3>6. sum[s \ {a}] = f[x] + sum[(s \ {x}) \ {a}]
        BY <3>2, <3>3
      <3> HIDE DEF more
      <3> QED
        BY <1>7, <3>4, <3>5, <3>6
    <2> QED
      BY <2>2, <2>3, <2>4
  <1>12. AddsUp(more, f, T)
    <2> HIDE DEF more
    <2> QED
      BY <1>9, <1>10, <1>11 DEF AddsUp
  <1> QED
    BY <1>12

(* The fold of the community module computes them: it unrolls, and where   *)
(* two ways to add up first differ there is an element to take out.        *)
LEMMA SumIsTheSum ==
    ASSUME NEW S, IsFiniteSet(S), NEW f, NEW sum, AddsUp(sum, f, S)
    PROVE  SumFunctionOnSet(f, S) = sum[S]
  <1> DEFINE Body(h) == [s \in SUBSET S |->
          IF s = {} THEN 0 ELSE f[CHOOSE x \in s : TRUE] + h[s \ {CHOOSE x \in s : TRUE}]]
             iter == CHOOSE h : h = Body(h)
  <1>1. SumFunctionOnSet(f, S) = iter[S]
    BY DEF SumFunctionOnSet, FoldFunctionOnSet, MapThenFoldSet
  <1>2. sum = Body(sum)
    <2>1. ASSUME NEW s \in SUBSET S, s # {}
          PROVE  sum[s] = f[CHOOSE x \in s : TRUE] + sum[s \ {CHOOSE x \in s : TRUE}]
      BY <2>1 DEF AddsUp
    <2> QED
      BY <2>1 DEF AddsUp
  <1> HIDE DEF Body
  <1>3. iter = Body(iter)
    BY <1>2
  <1> HIDE DEF iter
  <1>4. \A s \in SUBSET S : iter[s] = IF s = {} THEN 0
            ELSE f[CHOOSE x \in s : TRUE] + iter[s \ {CHOOSE x \in s : TRUE}]
    BY <1>3 DEF Body
  <1> DEFINE Differ == {s \in SUBSET S : iter[s] # sum[s]}
  <1>5. Differ = {}
    <2>1. SUFFICES ASSUME Differ # {} PROVE FALSE
      OBVIOUS
    <2>2. PICK s \in Differ : \A t \in Differ : t \subseteq s => t = s
      <3> HIDE DEF Differ
      <3>1. Differ \subseteq SUBSET S
        BY DEF Differ
      <3> QED
        BY <2>1, <3>1, SmallestSet
    <2>3. s # {}
      BY <1>4 DEF AddsUp
    <2> DEFINE x == CHOOSE x \in s : TRUE
    <2>4. x \in s
      BY <2>3
    <2> HIDE DEF x
    <2>5. s \ {x} \in SUBSET S /\ s \ {x} # s /\ s \ {x} \subseteq s
      BY <2>4
    <2>6. iter[s \ {x}] = sum[s \ {x}]
      BY <2>2, <2>5
    <2>7. iter[s] = f[x] + iter[s \ {x}]
      BY <1>4, <2>3 DEF x
    <2>8. sum[s] = f[x] + sum[s \ {x}]
      BY <2>4 DEF AddsUp
    <2> QED
      BY <2>6, <2>7, <2>8
  <1>6. S \in SUBSET S
    OBVIOUS
  <1> QED
    BY <1>1, <1>5, <1>6

(* A sum of naturals over a finite set is a natural, and any element can   *)
(* be taken out of it.                                                     *)
THEOREM SumTakesOut ==
    ASSUME NEW f, IsFiniteSet(DOMAIN f), \A x \in DOMAIN f : f[x] \in Nat
    PROVE  /\ SumFunction(f) \in Nat
           /\ \A v \in DOMAIN f :
                 SumFunction(f) = f[v] + SumFunction([x \in DOMAIN f \ {v} |-> f[x]])
           /\ DOMAIN f = {} => SumFunction(f) = 0
  <1> DEFINE S == DOMAIN f
  <1>1. PICK sum : AddsUp(sum, f, S)
    BY SumsExist
  <1>2. SumFunction(f) = sum[S]
    BY <1>1, SumIsTheSum DEF SumFunction
  <1>3. S \in SUBSET S
    OBVIOUS
  <1>4. ASSUME NEW v \in S
        PROVE  SumFunction(f) = f[v] + SumFunction([x \in S \ {v} |-> f[x]])
    <2> DEFINE R == S \ {v}
               g == [x \in R |-> f[x]]
               rest == [s \in SUBSET R |-> sum[s]]
    <2>1. SUBSET R \subseteq SUBSET S /\ R \in SUBSET R
      OBVIOUS
    <2>2. AddsUp(rest, g, R)
      <3>1. rest \in [SUBSET R -> Nat] /\ rest[{}] = 0
        BY <1>1, <2>1 DEF AddsUp
      <3>2. ASSUME NEW s \in SUBSET R, NEW x \in s PROVE rest[s] = g[x] + rest[s \ {x}]
        <4>1. s \in SUBSET S /\ s \ {x} \in SUBSET R /\ x \in R
          OBVIOUS
        <4>2. sum[s] = f[x] + sum[s \ {x}]
          BY <1>1, <4>1 DEF AddsUp
        <4> QED
          BY <4>1, <4>2
      <3> HIDE DEF rest, g, R
      <3> QED
        BY <3>1, <3>2 DEF AddsUp
    <2>3. IsFiniteSet(R)
      BY FS_RemoveElement
    <2>4. DOMAIN g = R
      OBVIOUS
    <2>5. SumFunction(g) = rest[R]
      <3> HIDE DEF rest, g, R
      <3> QED
        BY <2>2, <2>3, <2>4, SumIsTheSum DEF SumFunction
    <2>6. rest[R] = sum[R]
      BY <2>1
    <2>7. sum[S] = f[v] + sum[R]
      BY <1>1, <1>3 DEF AddsUp
    <2> QED
      BY <1>2, <2>5, <2>6, <2>7
  <1>5. SumFunction(f) \in Nat /\ (S = {} => SumFunction(f) = 0)
    BY <1>1, <1>2, <1>3 DEF AddsUp
  <1> QED
    BY <1>4, <1>5
=============================================================================
