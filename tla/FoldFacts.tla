------------------------------ MODULE FoldFacts ------------------------------
(***************************************************************************)
(* Induction, recursive functions, folds over finite sets (Folds.tla), and *)
(* flattened sequences, without an operator for a parameter: a predicate   *)
(* is the set of those that have it, and the operation of a fold is a      *)
(* function.                                                               *)
(***************************************************************************)
EXTENDS Integers, SequencesExt, FiniteSetsExt, FiniteSetTheorems, SequenceTheorems,
        WellFoundedInduction, TLAPS

LEMMA Least ==
    ASSUME NEW S \in SUBSET Nat, S # {}
    PROVE  \E m \in S : \A k \in S : m <= k
<1>1. PICK m \in S : \A k \in S : ~(<<k, m>> \in OpToRel(<, Nat))
  BY NatLessThanWellFounded, WFMin
<1>2. \A k \in S : ~(k < m)
  BY <1>1 DEF OpToRel
<1> QED
  BY <1>2

LEMMA NatInd ==
    ASSUME NEW S \in SUBSET Nat, 0 \in S, \A n \in S : n + 1 \in S
    PROVE  S = Nat
<1> SUFFICES ASSUME Nat \ S # {} PROVE FALSE
  OBVIOUS
<1>1. PICK m \in Nat \ S : \A k \in Nat \ S : m <= k
  BY Least
<1>2. m # 0 /\ m - 1 \in Nat
  BY <1>1
<1>3. m - 1 \in S
  BY <1>1, <1>2
<1> QED
  BY <1>1, <1>2, <1>3

(* Whatever holds of the empty set, and of a set if it holds of it without  *)
(* one of its members, holds of all finite sets.                            *)
LEMMA SetInd ==
    ASSUME NEW U, IsFiniteSet(U), NEW P \in SUBSET SUBSET U,
           {} \in P,
           \A s \in SUBSET U : s # {} /\ (\A x \in s : s \ {x} \in P) => s \in P
    PROVE  P = SUBSET U
<1> SUFFICES ASSUME NEW bad \in SUBSET U, bad \notin P PROVE FALSE
  OBVIOUS
<1>0. \A s \in SUBSET U : /\ IsFiniteSet(s) /\ Cardinality(s) \in Nat
                          /\ \A x \in s : Cardinality(s \ {x}) = Cardinality(s) - 1
  BY FS_Subset, FS_CardinalityType, FS_RemoveElement
<1> DEFINE C == {Cardinality(s) : s \in (SUBSET U) \ P}
<1>1. C \in SUBSET Nat /\ C # {}
  <2>1. \A s \in SUBSET U : Cardinality(s) \in Nat
    BY <1>0
  <2>2. Cardinality(bad) \in C
    OBVIOUS
  <2> QED
    BY <2>1, <2>2
<1>2. PICK m \in C : \A k \in C : m <= k
  BY <1>1, Least
<1>3. PICK s \in (SUBSET U) \ P : Cardinality(s) = m
  OBVIOUS
<1>4. ASSUME NEW x \in s PROVE s \ {x} \in P
  <2>1. Cardinality(s \ {x}) = m - 1 /\ m \in Nat /\ s \ {x} \in SUBSET U
    BY <1>0, <1>3
  <2>2. m - 1 \notin C
    <3>1. m \in Nat /\ ~(m <= m - 1)
      BY <2>1
    <3> HIDE DEF C
    <3> QED
      BY <1>2, <2>1, <3>1
  <2>3. s \ {x} \notin (SUBSET U) \ P
    BY <2>1, <2>2
  <2> QED
    BY <2>1, <2>3
<1>5. s # {} /\ s \in SUBSET U /\ s \notin P
  BY <1>3
<1> HIDE DEF C
<1> QED
  BY <1>4, <1>5

(* The greatest of a finite set of numbers.                                 *)

Below(S, k) == {j \in S : j < k}

LEMMA BelowCounts ==
    ASSUME NEW S \in SUBSET Nat, IsFiniteSet(S), NEW k \in Nat
    PROVE  /\ IsFiniteSet(Below(S, k))
           /\ Cardinality(Below(S, k)) \in Nat
           /\ Cardinality(S) \in Nat
           /\ Cardinality(Below(S, k)) <= Cardinality(S)
           /\ k \in S => Cardinality(Below(S, k)) < Cardinality(S)
           /\ \A l \in Nat : (k \in S /\ k < l)
                 => Cardinality(Below(S, k)) < Cardinality(Below(S, l))
<1>1. \A T : T \subseteq S =>
          /\ IsFiniteSet(T) /\ Cardinality(T) \in Nat
          /\ Cardinality(T) <= Cardinality(S)
          /\ Cardinality(S) = Cardinality(T) => S = T
  BY FS_Subset, FS_CardinalityType
<1>2. Below(S, k) \subseteq S /\ k \notin Below(S, k)
  BY DEF Below
<1>3. ASSUME NEW l \in Nat, k \in S, k < l
      PROVE  Cardinality(Below(S, k)) < Cardinality(Below(S, l))
  <2>1. /\ Below(S, l) \subseteq S /\ Below(S, k) \subseteq Below(S, l)
        /\ k \in Below(S, l)
    <3>1. \A j \in S : j \in Nat
      OBVIOUS
    <3>2. \A j \in S : j < k => j < l
      BY <1>3, <3>1
    <3> QED
      BY <1>3, <3>2 DEF Below
  <2>2. IsFiniteSet(Below(S, l)) /\ Cardinality(Below(S, l)) \in Nat
    BY <1>1, <2>1
  <2>3. /\ Cardinality(Below(S, k)) <= Cardinality(Below(S, l))
        /\ Cardinality(Below(S, l)) # Cardinality(Below(S, k))
    BY <1>2, <2>1, <2>2, FS_Subset
  <2> QED
    BY <1>1, <1>2, <2>1, <2>2, <2>3
<1>4. Cardinality(S) \in Nat /\ Cardinality(Below(S, k)) \in Nat
  BY <1>1, <1>2
<1>5. k \in S => Cardinality(Below(S, k)) < Cardinality(S)
  BY <1>1, <1>2, <1>4
<1> QED
  BY <1>1, <1>2, <1>3, <1>4, <1>5

(* Max is the greatest, since there is one. *)
LEMMA MaxIsGreatest ==
    ASSUME NEW S \in SUBSET Nat, IsFiniteSet(S), S # {}
    PROVE  Max(S) \in S /\ \A k \in S : k <= Max(S)
<1> DEFINE Left == {Cardinality(S) - Cardinality(Below(S, k)) : k \in S}
<1>1. Left \in SUBSET Nat /\ Left # {}
  <2>1. ASSUME NEW k \in S PROVE Cardinality(S) - Cardinality(Below(S, k)) \in Nat
    <3>1. /\ Cardinality(S) \in Nat /\ Cardinality(Below(S, k)) \in Nat
          /\ Cardinality(Below(S, k)) <= Cardinality(S)
      BY BelowCounts
    <3> QED
      BY <3>1
  <2> QED
    BY <2>1
<1>2. PICK n \in Left : \A l \in Left : n <= l
  BY <1>1, Least
<1>3. PICK m \in S : n = Cardinality(S) - Cardinality(Below(S, m))
  OBVIOUS
<1>4. ASSUME NEW k \in S PROVE m >= k
  <2>1. Cardinality(S) - Cardinality(Below(S, m)) <= Cardinality(S) - Cardinality(Below(S, k))
    BY <1>2, <1>3
  <2>2. /\ Cardinality(S) \in Nat
        /\ Cardinality(Below(S, m)) \in Nat /\ Cardinality(Below(S, k)) \in Nat
        /\ m < k => Cardinality(Below(S, m)) < Cardinality(Below(S, k))
    BY BelowCounts
  <2>3. ~(m < k)
    BY <2>1, <2>2
  <2> QED
    BY <2>3
<1>5. Max(S) \in S /\ \A k \in S : Max(S) >= k
  BY <1>4 DEF Max
<1> QED
  BY <1>5

-----------------------------------------------------------------------------
(* Recursion over 1..n: f[i] is what step i makes of f[i - 1].              *)
Recurs(f, n, V, base, step) ==
    /\ f \in [0..n -> V]
    /\ f[0] = base
    /\ \A i \in 1..n : f[i] = step[i][f[i - 1]]

LEMMA RecursionExists ==
    ASSUME NEW n \in Nat, NEW V, NEW base \in V, NEW step \in [1..n -> [V -> V]]
    PROVE  \E f : Recurs(f, n, V, base, step)
<1> DEFINE S == {m \in Nat : m <= n => \E f : Recurs(f, m, V, base, step)}
<1>1. 0 \in S
  <2>1. Recurs([i \in 0..0 |-> base], 0, V, base, step)
    BY DEF Recurs
  <2> QED
    BY <2>1
<1>2. ASSUME NEW m \in S PROVE m + 1 \in S
  <2> SUFFICES ASSUME m + 1 <= n PROVE \E f : Recurs(f, m + 1, V, base, step)
    OBVIOUS
  <2>1. PICK f : Recurs(f, m, V, base, step)
    OBVIOUS
  <2> DEFINE g == [i \in 0..m + 1 |-> IF i <= m THEN f[i] ELSE step[m + 1][f[m]]]
  <2>2. step[m + 1] \in [V -> V] /\ f[m] \in V
    BY <2>1 DEF Recurs
  <2>3. g \in [0..m + 1 -> V]
    BY <2>1, <2>2 DEF Recurs
  <2>4. \A i \in 0..m : g[i] = f[i]
    OBVIOUS
  <2>5. g[m + 1] = step[m + 1][f[m]]
    OBVIOUS
  <2> HIDE DEF g
  <2>6. ASSUME NEW i \in 1..m + 1 PROVE g[i] = step[i][g[i - 1]]
    <3>1. CASE i <= m
      BY <2>1, <2>4, <3>1 DEF Recurs
    <3>2. CASE i = m + 1
      <4>1. i - 1 = m /\ m \in 0..m
        BY <3>2
      <4> QED
        BY <2>4, <2>5, <3>2, <4>1
    <3> QED
      BY <3>1, <3>2
  <2>7. g[0] = base
    BY <2>1, <2>4 DEF Recurs
  <2>8. Recurs(g, m + 1, V, base, step)
    BY <2>3, <2>6, <2>7 DEF Recurs
  <2> QED
    BY <2>8
<1>3. S \in SUBSET Nat
  OBVIOUS
<1> HIDE DEF S
<1>4. n \in S
  BY <1>1, <1>2, <1>3, NatInd
<1> QED
  BY <1>4 DEF S

-----------------------------------------------------------------------------
(* A fold is well defined: its iterator exists. *)
Foldable(U, V, base, step, pick) ==
    /\ IsFiniteSet(U)
    /\ base \in V
    /\ step \in [U -> [V -> V]]
    /\ pick \in [(SUBSET U) \ {{}} -> U]
    /\ \A s \in (SUBSET U) \ {{}} : pick[s] \in s

Iterates(it, U, V, base, step, pick) ==
    /\ it \in [SUBSET U -> V]
    /\ \A s \in SUBSET U :
          it[s] = IF s = {} THEN base ELSE step[pick[s]][it[s \ {pick[s]}]]

LEMMA FoldExists ==
    ASSUME NEW U, NEW V, NEW base, NEW step, NEW pick, Foldable(U, V, base, step, pick)
    PROVE  \E it : Iterates(it, U, V, base, step, pick)
<1> USE DEF Foldable
<1>0. \A s \in SUBSET U : /\ IsFiniteSet(s) /\ Cardinality(s) \in Nat
                          /\ Cardinality(s) <= Cardinality(U)
                          /\ \A x \in s : Cardinality(s \ {x}) = Cardinality(s) - 1
                          /\ s # {} => Cardinality(s) > 0
  BY FS_Subset, FS_CardinalityType, FS_RemoveElement, FS_EmptySet
<1> DEFINE Level(n) == {s \in SUBSET U : Cardinality(s) <= n}
           Solves(it, n) ==
              \A s \in Level(n) :
                 it[s] = IF s = {} THEN base ELSE step[pick[s]][it[s \ {pick[s]}]]
           N == {n \in Nat : \E it \in [SUBSET U -> V] : Solves(it, n)}
<1>1. 0 \in N
  <2>1. [s \in SUBSET U |-> base] \in [SUBSET U -> V]
    OBVIOUS
  <2>2. Level(0) \subseteq {{}}
    BY <1>0
  <2> QED
    BY <2>1, <2>2
<1>2. ASSUME NEW n \in N PROVE n + 1 \in N
  <2>1. PICK g \in [SUBSET U -> V] : Solves(g, n)
    OBVIOUS
  <2> DEFINE h == [s \in SUBSET U |->
                     IF s = {} THEN base ELSE step[pick[s]][g[s \ {pick[s]}]]]
  <2>2. h \in [SUBSET U -> V]
    <3>1. ASSUME NEW s \in (SUBSET U) \ {{}} PROVE step[pick[s]][g[s \ {pick[s]}]] \in V
      <4>1. pick[s] \in U /\ s \ {pick[s]} \in SUBSET U
        OBVIOUS
      <4> QED
        BY <4>1
    <3> QED
      BY <3>1
  <2>3. \A s \in Level(n) : h[s] = g[s]
    BY <2>1
  <2>4. Solves(h, n + 1)
    <3> SUFFICES ASSUME NEW s \in Level(n + 1), s # {}
                 PROVE  h[s] = step[pick[s]][h[s \ {pick[s]}]]
      OBVIOUS
    <3>1. s \ {pick[s]} \in Level(n)
      <4>1. s \in SUBSET U /\ Cardinality(s) <= n + 1 /\ pick[s] \in s /\ n \in Nat
        OBVIOUS
      <4>2. Cardinality(s \ {pick[s]}) = Cardinality(s) - 1 /\ Cardinality(s) \in Nat
        BY <1>0, <4>1
      <4> QED
        BY <4>1, <4>2
    <3> QED
      BY <2>3, <3>1
  <2>5. n + 1 \in Nat
    OBVIOUS
  <2> HIDE DEF h, Solves, Level
  <2> QED
    BY <2>2, <2>4, <2>5
<1>3. N = Nat
  <2> HIDE DEF N
  <2>1. N \in SUBSET Nat
    BY DEF N
  <2> QED
    BY <1>1, <1>2, <2>1, NatInd
<1>4. PICK it \in [SUBSET U -> V] : Solves(it, Cardinality(U))
  <2>1. Cardinality(U) \in Nat
    BY FS_CardinalityType
  <2>2. Cardinality(U) \in N
    BY <1>3, <2>1
  <2> HIDE DEF Solves, Level
  <2> QED
    BY <2>2
<1>5. SUBSET U \subseteq Level(Cardinality(U))
  BY <1>0
<1> QED
  BY <1>4, <1>5 DEF Iterates

-----------------------------------------------------------------------------
(* Sums: MapThenSumSet of FiniteSetsExt, written out.                       *)

SumIterator(size, S) ==
    CHOOSE it : it = [s \in SUBSET S |->
                        IF s = {} THEN 0
                        ELSE LET x == CHOOSE x \in s : TRUE
                             IN  size[x] + it[s \ {x}]]

SumOver(size, S) == SumIterator(size, S)[S]

Picked(s) == CHOOSE x \in s : TRUE

(* it is the iterator of the sums of the subsets of S. *)
Sums(it, size, S) ==
    /\ it \in [SUBSET S -> Nat]
    /\ it[{}] = 0
    /\ \A s \in SUBSET S :
          s # {} => it[s] = size[Picked(s)] + it[s \ {Picked(s)}]

LEMMA SumIterates ==
    ASSUME NEW S, IsFiniteSet(S), NEW size, \A x \in S : size[x] \in Nat
    PROVE  Sums(SumIterator(size, S), size, S)
<1> DEFINE pick == [s \in (SUBSET S) \ {{}} |-> Picked(s)]
           step == [x \in S |-> [n \in Nat |-> size[x] + n]]
           Is(it) == it = [s \in SUBSET S |->
                             IF s = {} THEN 0
                             ELSE LET x == CHOOSE x \in s : TRUE
                                  IN  size[x] + it[s \ {x}]]
<1>1. /\ pick \in [(SUBSET S) \ {{}} -> S]
      /\ \A s \in (SUBSET S) \ {{}} : pick[s] \in s
  <2>1. \A s \in (SUBSET S) \ {{}} : Picked(s) \in s
    BY DEF Picked
  <2> QED
    BY <2>1
<1>2. step \in [S -> [Nat -> Nat]]
  OBVIOUS
<1>3. PICK it : Iterates(it, S, Nat, 0, step, pick)
  <2> HIDE DEF pick, step, Is
  <2>1. Foldable(S, Nat, 0, step, pick)
    BY <1>1, <1>2 DEF Foldable
  <2> QED
    BY <2>1, FoldExists
<1>4. ASSUME NEW s \in SUBSET S
      PROVE  it[s] = IF s = {} THEN 0 ELSE size[Picked(s)] + it[s \ {Picked(s)}]
  <2>1. CASE s # {}
    <3>1. pick[s] = Picked(s)
      BY <2>1
    <3>2. pick[s] \in S /\ it[s \ {pick[s]}] \in Nat
      BY <1>1, <1>3, <2>1 DEF Iterates
    <3>3. step[pick[s]][it[s \ {pick[s]}]] = size[pick[s]] + it[s \ {pick[s]}]
      BY <3>2
    <3> QED
      BY <1>3, <2>1, <3>1, <3>3 DEF Iterates
  <2>2. CASE s = {}
    BY <1>3, <2>2 DEF Iterates
  <2> QED
    BY <2>1, <2>2
<1>5. Is(it)
  <2>1. it \in [SUBSET S -> Nat]
    BY <1>3 DEF Iterates
  <2> QED
    BY <1>4, <2>1 DEF Picked
<1>6. Is(SumIterator(size, S))
  BY <1>5 DEF SumIterator
<1> HIDE DEF Is
<1> DEFINE sum == SumIterator(size, S)
           P == {s \in SUBSET S : sum[s] \in Nat}
<1>7. /\ sum = [s \in SUBSET S |-> sum[s]]
      /\ \A s \in SUBSET S :
            sum[s] = IF s = {} THEN 0 ELSE size[Picked(s)] + sum[s \ {Picked(s)}]
  <2> HIDE DEF sum
  <2>1. sum = [s \in SUBSET S |->
                 IF s = {} THEN 0 ELSE LET x == CHOOSE x \in s : TRUE
                                       IN  size[x] + sum[s \ {x}]]
    BY <1>6 DEF Is, sum
  <2> QED
    BY <2>1 DEF Picked
<1>8. P = SUBSET S
  <2> HIDE DEF sum
  <2>1. {} \in P
    <3>1. sum[{}] = 0
      BY <1>7
    <3> QED
      BY <3>1
  <2>2. ASSUME NEW s \in SUBSET S, s # {}, \A x \in s : s \ {x} \in P
        PROVE  s \in P
    <3>1. Picked(s) \in s
      BY <2>2 DEF Picked
    <3>2. size[Picked(s)] \in Nat /\ sum[s \ {Picked(s)}] \in Nat
      BY <2>2, <3>1
    <3>3. sum[s] = size[Picked(s)] + sum[s \ {Picked(s)}]
      BY <1>7, <2>2
    <3> QED
      BY <3>2, <3>3
  <2>3. P \in SUBSET SUBSET S
    OBVIOUS
  <2> HIDE DEF P
  <2> QED
    BY <2>1, <2>2, <2>3, SetInd
<1> HIDE DEF sum
<1>9. Sums(sum, size, S)
  BY <1>7, <1>8 DEF Sums
<1> QED
  BY <1>9 DEF sum

(* Iterators of two sets agree on what is in both. *)
LEMMA SumsAgree ==
    ASSUME NEW S, IsFiniteSet(S), NEW size, NEW T \in SUBSET S, NEW a, NEW b,
           Sums(a, size, S), Sums(b, size, T)
    PROVE  \A s \in SUBSET T : a[s] = b[s]
<1> DEFINE P == {s \in SUBSET T : a[s] = b[s]}
<1>1. {} \in P
  BY DEF Sums
<1>2. ASSUME NEW s \in SUBSET T, s # {}, \A x \in s : s \ {x} \in P
      PROVE  s \in P
  <2>1. Picked(s) \in s
    BY <1>2 DEF Picked
  <2>2. a[s \ {Picked(s)}] = b[s \ {Picked(s)}]
    BY <1>2, <2>1
  <2> QED
    BY <1>2, <2>2 DEF Sums
<1>3. P \in SUBSET SUBSET T /\ IsFiniteSet(T)
  BY FS_Subset
<1> HIDE DEF P
<1>4. P = SUBSET T
  BY <1>1, <1>2, <1>3, SetInd
<1> QED
  BY <1>4 DEF P

Summable(size, U) == IsFiniteSet(U) /\ \A x \in U : size[x] \in Nat

LEMMA SumSteps ==
    ASSUME NEW U, NEW size, Summable(size, U), NEW s \in SUBSET U
    PROVE  /\ SumOver(size, s) \in Nat
           /\ s = {} => SumOver(size, s) = 0
           /\ s # {} => /\ Picked(s) \in s
                        /\ SumOver(size, s)
                             = size[Picked(s)] + SumOver(size, s \ {Picked(s)})
<1>1. IsFiniteSet(s) /\ \A x \in s : size[x] \in Nat
  BY FS_Subset DEF Summable
<1>2. Sums(SumIterator(size, s), size, s)
  BY <1>1, SumIterates
<1>3. ASSUME s # {}
      PROVE  /\ Picked(s) \in s
             /\ SumOver(size, s) = size[Picked(s)] + SumOver(size, s \ {Picked(s)})
  <2>1. Picked(s) \in s
    BY <1>3 DEF Picked
  <2> DEFINE r == s \ {Picked(s)}
  <2>2. r \in SUBSET s /\ IsFiniteSet(r) /\ \A x \in r : size[x] \in Nat
    BY <1>1, FS_Subset
  <2> HIDE DEF r
  <2>3. Sums(SumIterator(size, r), size, r)
    BY <2>2, SumIterates
  <2>4. SumIterator(size, s)[r] = SumIterator(size, r)[r]
    BY <1>1, <1>2, <2>2, <2>3, SumsAgree
  <2>5. SumIterator(size, s)[s] = size[Picked(s)] + SumIterator(size, s)[r]
    BY <1>2, <1>3 DEF Sums, r
  <2> QED
    BY <2>1, <2>4, <2>5 DEF SumOver, r
<1> QED
  BY <1>2, <1>3 DEF Sums, SumOver

(* A sum is what any one of its terms adds to the sum of the others. *)
LEMMA SumRemoves ==
    ASSUME NEW U, NEW size, Summable(size, U)
    PROVE  \A s \in SUBSET U : \A x \in s :
              SumOver(size, s) = size[x] + SumOver(size, s \ {x})
<1> DEFINE P == {s \in SUBSET U : \A x \in s :
                    SumOver(size, s) = size[x] + SumOver(size, s \ {x})}
<1>1. {} \in P
  OBVIOUS
<1>2. ASSUME NEW s \in SUBSET U, s # {}, \A x \in s : s \ {x} \in P
      PROVE  s \in P
  <2> SUFFICES ASSUME NEW x \in s
               PROVE  SumOver(size, s) = size[x] + SumOver(size, s \ {x})
    OBVIOUS
  <2>1. /\ Picked(s) \in s
        /\ SumOver(size, s) = size[Picked(s)] + SumOver(size, s \ {Picked(s)})
    BY <1>2, SumSteps
  <2> DEFINE p == Picked(s)
             r == (s \ {x}) \ {p}
  <2> HIDE DEF p
  <2>2. CASE x = p
    BY <2>1, <2>2 DEF p
  <2>3. CASE x # p
    <3>1. SumOver(size, s \ {x}) = size[p] + SumOver(size, r)
      BY <1>2, <2>1, <2>3 DEF p
    <3>2. SumOver(size, s \ {p}) = size[x] + SumOver(size, r)
      <4>1. (s \ {p}) \ {x} = r
        OBVIOUS
      <4>2. s \ {p} \in P /\ x \in s \ {p}
        BY <1>2, <2>1, <2>3 DEF p
      <4> HIDE DEF r
      <4> QED
        BY <4>1, <4>2
    <3>3. SumOver(size, r) \in Nat /\ size[x] \in Nat /\ size[p] \in Nat
      <4>1. r \in SUBSET U /\ x \in U /\ p \in U
        BY <2>1 DEF p
      <4> HIDE DEF r
      <4> QED
        BY <4>1, SumSteps DEF Summable
    <3> HIDE DEF r
    <3> QED
      BY <2>1, <3>1, <3>2, <3>3 DEF p
  <2> QED
    BY <2>2, <2>3
<1>3. P \in SUBSET SUBSET U /\ IsFiniteSet(U)
  BY DEF Summable
<1> HIDE DEF P
<1>4. P = SUBSET U
  BY <1>1, <1>2, <1>3, SetInd
<1> QED
  BY <1>4 DEF P

(* More terms, no smaller a sum. *)
LEMMA SumMonotone ==
    ASSUME NEW U, NEW size, Summable(size, U), NEW s \in SUBSET U
    PROVE  \A t \in SUBSET U : s \subseteq t => SumOver(size, s) <= SumOver(size, t)
<1> DEFINE P == {t \in SUBSET U : s \subseteq t => SumOver(size, s) <= SumOver(size, t)}
<1>0. \A t \in SUBSET U : SumOver(size, t) \in Nat
  BY SumSteps
<1>1. {} \in P
  BY <1>0
<1>2. ASSUME NEW t \in SUBSET U, t # {}, \A x \in t : t \ {x} \in P
      PROVE  t \in P
  <2> SUFFICES ASSUME s \subseteq t, s # t
               PROVE  SumOver(size, s) <= SumOver(size, t)
    BY <1>0
  <2>1. PICK x \in t : x \notin s
    OBVIOUS
  <2>2. SumOver(size, s) <= SumOver(size, t \ {x})
    BY <1>2, <2>1
  <2>3. SumOver(size, t) = size[x] + SumOver(size, t \ {x})
    BY SumRemoves
  <2>4. size[x] \in Nat
    BY DEF Summable
  <2> QED
    BY <1>0, <2>2, <2>3, <2>4
<1>3. P \in SUBSET SUBSET U /\ IsFiniteSet(U)
  BY DEF Summable
<1> HIDE DEF P
<1>4. P = SUBSET U
  BY <1>1, <1>2, <1>3, SetInd
<1> QED
  BY <1>4 DEF P

(* Equal terms, equal sums. *)
LEMMA SumEqual ==
    ASSUME NEW U, NEW size, Summable(size, U), NEW other, \A x \in U : other[x] = size[x]
    PROVE  SumOver(other, U) = SumOver(size, U)
<1> DEFINE P == {s \in SUBSET U : SumOver(other, s) = SumOver(size, s)}
<1>0. Summable(other, U)
  BY DEF Summable
<1>1. {} \in P
  <2>1. SumOver(other, {}) = 0 /\ SumOver(size, {}) = 0
    BY <1>0, SumSteps
  <2> QED
    BY <2>1
<1>2. ASSUME NEW s \in SUBSET U, s # {}, \A x \in s : s \ {x} \in P
      PROVE  s \in P
  <2>1. /\ Picked(s) \in s
        /\ SumOver(other, s) = other[Picked(s)] + SumOver(other, s \ {Picked(s)})
        /\ SumOver(size, s) = size[Picked(s)] + SumOver(size, s \ {Picked(s)})
    BY <1>0, <1>2, SumSteps
  <2>2. SumOver(other, s \ {Picked(s)}) = SumOver(size, s \ {Picked(s)})
    BY <1>2, <2>1
  <2> QED
    BY <2>1, <2>2
<1>3. P \in SUBSET SUBSET U /\ IsFiniteSet(U)
  BY DEF Summable
<1> HIDE DEF P
<1>4. P = SUBSET U
  BY <1>1, <1>2, <1>3, SetInd
<1> QED
  BY <1>4 DEF P

-----------------------------------------------------------------------------
(* Sequences.                                                               *)

LEMMA ElementsOfSeq ==
    ASSUME NEW S, NEW x \in Seq(S)
    PROVE  /\ Len(x) \in Nat /\ DOMAIN x = 1..Len(x) /\ IsFiniteSet(DOMAIN x)
           /\ DOMAIN x \in SUBSET Nat
           /\ \A k \in DOMAIN x : x[k] \in S /\ x[k] \in ToSet(x)
           /\ ToSet(x) \subseteq S
<1>1. Len(x) \in Nat /\ DOMAIN x = 1..Len(x)
  OBVIOUS
<1>2. IsFiniteSet(1..Len(x))
  BY <1>1, FS_Interval
<1> QED
  BY <1>1, <1>2 DEF ToSet

LEMMA AppendFacts ==
    ASSUME NEW S, NEW x \in Seq(S), NEW c \in S
    PROVE  /\ Append(x, c) \in Seq(S) /\ Len(Append(x, c)) = Len(x) + 1
           /\ \A k \in 1..Len(x) : Append(x, c)[k] = x[k]
           /\ Append(x, c)[Len(x) + 1] = c
           /\ Last(Append(x, c)) = c
BY DEF Last

LEMMA AppendToSet ==
    ASSUME NEW S, NEW x \in Seq(S), NEW c \in S
    PROVE  \A a : a \in ToSet(Append(x, c)) <=> a \in ToSet(x) \/ a = c
<1>1. /\ Append(x, c) \in Seq(S) /\ Len(Append(x, c)) = Len(x) + 1 /\ Len(x) \in Nat
      /\ \A k \in 1..Len(x) : Append(x, c)[k] = x[k]
      /\ Append(x, c)[Len(x) + 1] = c
  BY AppendFacts
<1>2. DOMAIN Append(x, c) = 1..Len(x) \cup {Len(x) + 1} /\ DOMAIN x = 1..Len(x)
  BY <1>1
<1> QED
  BY <1>1, <1>2 DEF ToSet

-----------------------------------------------------------------------------
(* FlattenSeq of SequencesExt.                                              *)

FlatIterator(ss) ==
    CHOOSE f : f = [i \in 1..Len(ss) |-> IF i = 1 THEN ss[i] ELSE f[i - 1] \o ss[i]]

Flattens(f, ss, S) ==
    /\ f \in [1..Len(ss) -> Seq(S)]
    /\ \A i \in 1..Len(ss) : f[i] = IF i = 1 THEN ss[i] ELSE f[i - 1] \o ss[i]

LEMMA FlattenIterates ==
    ASSUME NEW S, NEW ss \in Seq(Seq(S)), ss # <<>>
    PROVE  /\ Flattens(FlatIterator(ss), ss, S)
           /\ FlattenSeq(ss) = FlatIterator(ss)[Len(ss)]
<1> DEFINE n == Len(ss)
           step == [i \in 1..n |-> [x \in Seq(S) |-> x \o ss[i]]]
           Is(f) == f = [i \in 1..n |-> IF i = 1 THEN ss[i] ELSE f[i - 1] \o ss[i]]
<1>1. n \in Nat /\ n # 0 /\ \A i \in 1..n : ss[i] \in Seq(S)
  OBVIOUS
<1>2. step \in [1..n -> [Seq(S) -> Seq(S)]] /\ <<>> \in Seq(S)
  OBVIOUS
<1>3. PICK f : Recurs(f, n, Seq(S), <<>>, step)
  <2> HIDE DEF step, n
  <2> QED
    BY <1>1, <1>2, RecursionExists
<1> DEFINE g == [i \in 1..n |-> f[i]]
<1>4. g \in [1..n -> Seq(S)] /\ \A i \in 1..n : g[i] = f[i]
  BY <1>3 DEF Recurs
<1>5. ASSUME NEW i \in 1..n PROVE g[i] = IF i = 1 THEN ss[i] ELSE g[i - 1] \o ss[i]
  <2>0. i - 1 \in 0..n /\ i \in 1..n
    BY <1>1
  <2>1. f[i - 1] \in Seq(S) /\ f[i] = step[i][f[i - 1]]
    <3> HIDE DEF step, n
    <3> QED
      BY <1>3, <2>0 DEF Recurs
  <2>2. f[i] = f[i - 1] \o ss[i]
    BY <2>0, <2>1
  <2>3. CASE i = 1
    <3>1. f[i - 1] = <<>>
      BY <1>3, <2>3 DEF Recurs
    <3> QED
      BY <1>1, <1>4, <2>2, <2>3, <3>1, ConcatEmptySeq
  <2>4. CASE i # 1
    <3>1. i - 1 \in 1..n
      BY <2>4
    <3> QED
      BY <1>4, <2>2, <2>4, <3>1
  <2> QED
    BY <2>3, <2>4
<1>6. Is(g)
  <2> HIDE DEF g
  <2> QED
    BY <1>4, <1>5
<1>7. Is(FlatIterator(ss))
  <2> HIDE DEF g
  <2> QED
    BY <1>6 DEF FlatIterator
<1>8. FlattenSeq(ss) = FlatIterator(ss)[Len(ss)]
  BY <1>1 DEF FlattenSeq, FlatIterator
<1> DEFINE h == FlatIterator(ss)
           D == {i \in Nat : i \in 1..n => h[i] \in Seq(S)}
<1> HIDE DEF g, h
<1>9. \A i \in 1..n : h[i] = IF i = 1 THEN ss[i] ELSE h[i - 1] \o ss[i]
  BY <1>7 DEF h
<1>10. D = Nat
  <2>1. 0 \in D
    OBVIOUS
  <2>2. ASSUME NEW i \in D PROVE i + 1 \in D
    <3> SUFFICES ASSUME i + 1 \in 1..n PROVE h[i + 1] \in Seq(S)
      OBVIOUS
    <3>1. CASE i + 1 = 1
      BY <1>1, <1>9, <3>1
    <3>2. CASE i + 1 # 1
      <4>1. i \in 1..n /\ (i + 1) - 1 = i
        BY <1>1, <3>2
      <4>2. h[i + 1] = h[i] \o ss[i + 1]
        BY <1>9, <3>2, <4>1
      <4>3. h[i] \in Seq(S) /\ ss[i + 1] \in Seq(S)
        BY <1>1, <4>1
      <4>4. h[i] \o ss[i + 1] \in Seq(S)
        BY <4>3
      <4> QED
        BY <4>2, <4>4
    <3> QED
      BY <3>1, <3>2
  <2>3. D \in SUBSET Nat
    OBVIOUS
  <2> HIDE DEF D
  <2> QED
    BY <2>1, <2>2, <2>3, NatInd
<1>11. h \in [1..n -> Seq(S)]
  <2>1. h = [i \in 1..n |-> h[i]]
    <3>1. h = [i \in 1..n |-> IF i = 1 THEN ss[i] ELSE h[i - 1] \o ss[i]]
      BY <1>7 DEF h
    <3> QED
      BY <3>1
  <2> QED
    BY <1>10, <2>1
<1>12. Flattens(h, ss, S)
  BY <1>9, <1>11 DEF Flattens
<1> QED
  BY <1>8, <1>12 DEF h

LEMMA FlattenAppend ==
    ASSUME NEW S, NEW ss \in Seq(Seq(S)), NEW x \in Seq(S)
    PROVE  /\ FlattenSeq(ss) \in Seq(S)
           /\ FlattenSeq(Append(ss, x)) = FlattenSeq(ss) \o x
<1> DEFINE tt == Append(ss, x)
           n == Len(ss)
<1>1. /\ tt \in Seq(Seq(S)) /\ tt # <<>> /\ Len(tt) = n + 1 /\ n \in Nat
      /\ tt[n + 1] = x /\ \A i \in 1..n : tt[i] = ss[i]
  <2>1. /\ tt \in Seq(Seq(S)) /\ Len(tt) = n + 1 /\ tt[n + 1] = x
        /\ \A i \in 1..n : tt[i] = ss[i]
    BY AppendFacts
  <2>2. n \in Nat /\ Len(<<>>) = 0
    OBVIOUS
  <2> HIDE DEF tt
  <2> QED
    BY <2>1, <2>2
<1> HIDE DEF tt
<1> DEFINE b == FlatIterator(tt)
<1>2. Flattens(b, tt, S) /\ FlattenSeq(tt) = b[n + 1]
  BY <1>1, FlattenIterates
<1> HIDE DEF b
<1>3. CASE ss = <<>>
  <2>1. FlattenSeq(ss) = <<>> /\ n = 0
    BY <1>3 DEF FlattenSeq
  <2>2. b[1] = x
    BY <1>1, <1>2, <2>1 DEF Flattens
  <2> QED
    BY <1>2, <2>1, <2>2, ConcatEmptySeq DEF tt
<1>4. CASE ss # <<>>
  <2> DEFINE a == FlatIterator(ss)
  <2>1. Flattens(a, ss, S) /\ FlattenSeq(ss) = a[n]
    BY <1>4, FlattenIterates
  <2> HIDE DEF a
  <2> DEFINE D == {i \in Nat : i \in 1..n => b[i] = a[i]}
  <2>2. 0 \in D
    OBVIOUS
  <2>3. ASSUME NEW i \in D PROVE i + 1 \in D
    <3> SUFFICES ASSUME i + 1 \in 1..n PROVE b[i + 1] = a[i + 1]
      OBVIOUS
    <3>1. /\ b[i + 1] = IF i + 1 = 1 THEN ss[i + 1] ELSE b[(i + 1) - 1] \o ss[i + 1]
          /\ a[i + 1] = IF i + 1 = 1 THEN ss[i + 1] ELSE a[(i + 1) - 1] \o ss[i + 1]
      <4>1. i + 1 \in 1..Len(tt) /\ i + 1 \in 1..Len(ss) /\ tt[i + 1] = ss[i + 1]
        BY <1>1
      <4> QED
        BY <1>2, <2>1, <4>1 DEF Flattens
    <3>2. i + 1 # 1 => i \in 1..n /\ (i + 1) - 1 = i
      BY <1>1, SMTT(30)
    <3> QED
      BY <3>1, <3>2
  <2>4. D \in SUBSET Nat
    OBVIOUS
  <2>5. D = Nat
    <3> HIDE DEF D
    <3> QED
      BY <2>2, <2>3, <2>4, NatInd
  <2>6. n \in 1..n
    BY <1>1, <1>4
  <2>7. b[n] = a[n] /\ a[n] \in Seq(S)
    BY <2>1, <2>5, <2>6, <1>1 DEF Flattens
  <2>8. b[n + 1] = b[n] \o x
    <3>1. n + 1 \in 1..Len(tt) /\ n + 1 # 1 /\ (n + 1) - 1 = n
      BY <1>1, <2>6
    <3> QED
      BY <1>1, <1>2, <3>1 DEF Flattens
  <2> QED
    BY <1>2, <2>1, <2>7, <2>8 DEF tt
<1> QED
  BY <1>3, <1>4

-----------------------------------------------------------------------------
(* Slices, least members, images.                                           *)

(* Elements A + 1 .. B of a sequence. *)
LEMMA SliceFacts ==
    ASSUME NEW S, NEW f \in Seq(S), NEW A \in Nat, NEW B \in Nat, A <= B, B <= Len(f)
    PROVE  /\ SubSeq(f, A + 1, B) \in Seq(S) /\ Len(SubSeq(f, A + 1, B)) = B - A
           /\ \A k \in 1..B - A : SubSeq(f, A + 1, B)[k] = f[A + k]
<1> DEFINE lo == A + 1
           n == B - A
<1>1. /\ lo \in Int /\ B \in Int /\ Len(f) \in Nat
      /\ \A k \in lo..B : k \in 1..Len(f)
      /\ (IF lo <= B THEN B - lo + 1 ELSE 0) = n /\ B - lo + 1 = n
      /\ \A k \in 1..n : lo + k - 1 = A + k
  OBVIOUS
<1>2. \A k \in 1..Len(f) : f[k] \in S
  OBVIOUS
<1> HIDE DEF lo, n
<1>3. \A k \in lo..B : f[k] \in S
  BY <1>1, <1>2
<1>4. /\ SubSeq(f, lo, B) \in Seq(S)
      /\ Len(SubSeq(f, lo, B)) = IF lo <= B THEN B - lo + 1 ELSE 0
      /\ \A k \in 1..B - lo + 1 : SubSeq(f, lo, B)[k] = f[lo + k - 1]
  BY <1>1, <1>3, SubSeqProperties
<1>5. /\ SubSeq(f, lo, B) \in Seq(S) /\ Len(SubSeq(f, lo, B)) = n
      /\ \A k \in 1..n : SubSeq(f, lo, B)[k] = f[A + k]
  BY <1>1, <1>4
<1> QED
  BY <1>5 DEF lo, n

(* A slice of a slice. *)
LEMMA SliceOfSlice ==
    ASSUME NEW S, NEW f \in Seq(S), NEW A \in Nat, NEW B \in Nat, A <= B, B <= Len(f),
           NEW p \in Nat, NEW q \in Nat, p <= q, q <= B - A
    PROVE  SubSeq(SubSeq(f, A + 1, B), p + 1, q) = SubSeq(f, A + p + 1, A + q)
<1> DEFINE g == SubSeq(f, A + 1, B)
           u == SubSeq(g, p + 1, q)
           C == A + p
           E == A + q
           v == SubSeq(f, C + 1, E)
           n == q - p
<1>1. /\ C \in Nat /\ E \in Nat /\ C <= E /\ E <= Len(f) /\ E - C = n /\ Len(f) \in Nat
      /\ \A k \in 1..n : p + k \in 1..B - A /\ A + (p + k) = C + k
  OBVIOUS
<1>2. g \in Seq(S) /\ Len(g) = B - A /\ \A k \in 1..B - A : g[k] = f[A + k]
  BY SliceFacts
<1> HIDE DEF g, C, E
<1>3. v \in Seq(S) /\ Len(v) = n /\ \A k \in 1..n : v[k] = f[C + k]
  BY <1>1, SliceFacts
<1>4. u \in Seq(S) /\ Len(u) = n /\ \A k \in 1..n : u[k] = g[p + k]
  BY <1>2, SliceFacts
<1> HIDE DEF u, v, n
<1>5. \A k \in 1..n : u[k] = v[k]
  BY <1>1, <1>2, <1>3, <1>4
<1>6. u = v
  BY <1>3, <1>4, <1>5, SeqEqual
<1> QED
  BY <1>6 DEF u, v, g, C, E

LEMMA MinIsLeast ==
    ASSUME NEW S \in SUBSET Nat, S # {}
    PROVE  Min(S) \in S /\ \A k \in S : Min(S) <= k
<1>1. PICK m \in S : \A k \in S : m <= k
  BY Least
<1> QED
  BY <1>1 DEF Min

LEMMA MinMaxOfTwo ==
    ASSUME NEW a \in Nat, NEW b \in Nat
    PROVE  /\ Max({a, b}) = IF a <= b THEN b ELSE a
           /\ Min({a, b}) = IF a <= b THEN a ELSE b
           /\ Max({a, b}) \in Nat /\ Min({a, b}) \in Nat
<1>1. Max({a, b}) \in {a, b} /\ Max({a, b}) >= a /\ Max({a, b}) >= b
  <2>1. \E m \in {a, b} : \A k \in {a, b} : m >= k
    <3>1. CASE a <= b
      BY <3>1
    <3>2. CASE ~(a <= b)
      BY <3>2
    <3> QED
      BY <3>1, <3>2
  <2> QED
    BY <2>1 DEF Max
<1>2. Min({a, b}) \in {a, b} /\ \A k \in {a, b} : Min({a, b}) <= k
  BY MinIsLeast
<1> QED
  BY <1>1, <1>2

(* The image of a finite set. *)
LEMMA ImageFinite ==
    ASSUME NEW S, IsFiniteSet(S), NEW f, DOMAIN f = S, f = [x \in S |-> f[x]]
    PROVE  IsFiniteSet({f[x] : x \in S})
<1> DEFINE T == {f[x] : x \in S}
<1>1. f \in [S -> T] /\ \A t \in T : \E x \in S : f[x] = t
  OBVIOUS
<1> HIDE DEF T
<1>2. f \in Surjection(S, T)
  BY <1>1 DEF Surjection
<1>3. IsFiniteSet(T)
  BY <1>2, FS_Surjection
<1> QED
  BY <1>3 DEF T

-----------------------------------------------------------------------------
(* Running totals: t[i] is the sum of the first i of s.                     *)

IsTotals(t, s) ==
    /\ t \in [0..Len(s) -> Nat]
    /\ t[0] = 0
    /\ \A i \in 1..Len(s) : t[i] = t[i - 1] + s[i]

LEMMA TotalsTypes ==
    ASSUME NEW s \in Seq(Nat), NEW t, IsTotals(t, s)
    PROVE  /\ Len(s) \in Nat /\ t[0] = 0
           /\ \A k \in 1..Len(s) : s[k] \in Nat
           /\ \A k \in 0..Len(s) : t[k] \in Nat /\ k \in Nat
           /\ \A k \in 1..Len(s) : t[k] = t[k - 1] + s[k]
<1>1. Len(s) \in Nat /\ \A k \in 1..Len(s) : s[k] \in Nat
  OBVIOUS
<1>2. \A k \in 0..Len(s) : k \in Nat
  BY <1>1
<1>3. \A k \in 0..Len(s) : t[k] \in Nat
  <2>1. t \in [0..Len(s) -> Nat]
    BY DEF IsTotals
  <2> QED
    BY <2>1
<1> QED
  BY <1>1, <1>2, <1>3, Zenon DEF IsTotals

(* Offsets grow, and strictly where the parts are not empty. *)
LEMMA TotalsGrow ==
    ASSUME NEW s \in Seq(Nat), NEW t, IsTotals(t, s),
           NEW i \in 0..Len(s), NEW j \in 0..Len(s), i <= j
    PROVE  /\ t[i] <= t[j]
           /\ (i < j /\ \A k \in 1..Len(s) : s[k] > 0) => t[i] < t[j]
<1> DEFINE n == Len(s)
           pos == \A k \in 1..n : s[k] > 0
           D == {d \in Nat : i + d <= n =>
                    /\ t[i] <= t[i + d]
                    /\ (d > 0 /\ pos) => t[i] < t[i + d]}
<1>1. /\ n \in Nat /\ i \in Nat /\ j \in Nat
      /\ \A k \in 1..n : s[k] \in Nat
      /\ \A k \in 0..n : t[k] \in Nat
      /\ \A k \in 1..n : t[k] = t[k - 1] + s[k]
  BY TotalsTypes
<1> HIDE DEF n
<1>2. 0 \in D
  <2>1. i + 0 = i /\ i <= n
    BY <1>1 DEF n
  <2> QED
    BY <1>1, <2>1
<1>3. ASSUME NEW d \in D PROVE d + 1 \in D
  <2> SUFFICES ASSUME i + (d + 1) <= n
               PROVE  /\ t[i] <= t[i + (d + 1)]
                      /\ pos => t[i] < t[i + (d + 1)]
    OBVIOUS
  <2> DEFINE k == i + (d + 1)
  <2>1. k \in 1..n /\ k - 1 = i + d /\ i + d \in 0..n /\ i \in 0..n
    BY <1>1
  <2>2. t[i] <= t[i + d]
    BY <1>1, <2>1
  <2> HIDE DEF k
  <2>3. t[k] = t[i + d] + s[k] /\ s[k] \in Nat /\ t[i + d] \in Nat /\ t[i] \in Nat
    BY <1>1, <2>1
  <2>4. pos => s[k] > 0
    BY <2>1
  <2> QED
    BY <2>2, <2>3, <2>4, SMTT(30) DEF k
<1>4. D \in SUBSET Nat
  OBVIOUS
<1>5. D = Nat
  <2> HIDE DEF D
  <2> QED
    BY <1>2, <1>3, <1>4, NatInd
<1>6. j - i \in Nat /\ i + (j - i) = j /\ j <= n
  BY <1>1 DEF n
<1>7. j - i \in D
  BY <1>5, <1>6
<1> QED
  BY <1>1, <1>6, <1>7 DEF n

(* The part that an offset is in. *)
LEMMA PartOf ==
    ASSUME NEW s \in Seq(Nat), NEW t, IsTotals(t, s),
           NEW a \in 0..Len(s), NEW b \in 0..Len(s), NEW p \in Nat,
           t[a] <= p, p < t[b]
    PROVE  \E i \in (a + 1)..b : t[i - 1] <= p /\ p < t[i]
<1> DEFINE n == Len(s)
           Past == {i \in 0..n : p < t[i]}
<1>1. n \in Nat /\ \A k \in 0..n : t[k] \in Nat
  BY TotalsTypes
<1>2. Past \in SUBSET Nat /\ b \in Past
  BY <1>1
<1>3. PICK i \in Past : \A k \in Past : i <= k
  BY <1>2, Least
<1>4. i \in 0..n /\ p < t[i] /\ i <= b
  BY <1>2, <1>3
<1>5. a < i
  <2>1. CASE i <= a
    <3>1. t[i] <= t[a]
      BY <1>4, <2>1, TotalsGrow
    <3> QED
      BY <1>1, <1>4, <3>1
  <2> QED
    BY <1>1, <1>4, <2>1
<1>6. i - 1 \in 0..n /\ ~(i <= i - 1)
  BY <1>1, <1>4, <1>5
<1>7. i - 1 \notin Past
  BY <1>3, <1>6
<1>8. t[i - 1] <= p
  BY <1>1, <1>6, <1>7, SMTT(30)
<1>9. i \in (a + 1)..b
  BY <1>1, <1>4, <1>5
<1> QED
  BY <1>4, <1>8, <1>9

(* u is a slice of s, from after element A. *)
IsSlice(u, s, A) == A + Len(u) <= Len(s) /\ \A k \in 1..Len(u) : u[k] = s[A + k]

(* The totals of a slice are those of the whole, from where it starts. *)
LEMMA TotalsSlice ==
    ASSUME NEW s \in Seq(Nat), NEW t, IsTotals(t, s), NEW u \in Seq(Nat), NEW w,
           IsTotals(w, u), NEW A \in Nat, IsSlice(u, s, A)
    PROVE  \A i \in 0..Len(u) : w[i] = t[A + i] - t[A]
<1> DEFINE n == Len(u)
           D == {i \in Nat : i <= n => w[i] = t[A + i] - t[A]}
<1>1. /\ n \in Nat /\ w[0] = 0 /\ \A k \in 1..n : w[k] = w[k - 1] + u[k]
      /\ \A k \in 0..n : w[k] \in Nat
  BY TotalsTypes
<1>2. /\ Len(s) \in Nat /\ \A k \in 0..Len(s) : t[k] \in Nat
      /\ \A k \in 1..Len(s) : t[k] = t[k - 1] + s[k]
      /\ \A k \in 1..Len(s) : s[k] \in Nat
  BY TotalsTypes
<1>3. A \in 0..Len(s) /\ t[A] \in Nat
  <2>1. A \in 0..Len(s)
    BY <1>1, <1>2 DEF IsSlice
  <2> QED
    BY <1>2, <2>1
<1> HIDE DEF n
<1>4. 0 \in D
  <2>1. A + 0 = A
    OBVIOUS
  <2> QED
    BY <1>1, <1>3, <2>1
<1>5. ASSUME NEW i \in D PROVE i + 1 \in D
  <2> SUFFICES ASSUME i + 1 <= n PROVE w[i + 1] = t[A + (i + 1)] - t[A]
    OBVIOUS
  <2>1. /\ i \in Nat /\ i + 1 \in 1..n /\ (i + 1) - 1 = i /\ i \in 0..n
        /\ w[i] = t[A + i] - t[A]
    BY <1>1
  <2> DEFINE j == A + (i + 1)
  <2>2. j \in 1..Len(s) /\ j - 1 = A + i /\ A + i \in 0..Len(s)
    <3>1. A + n <= Len(s) /\ n \in Nat /\ Len(s) \in Nat
      BY <1>1, <1>2 DEF n, IsSlice
    <3> QED
      BY <2>1, <3>1
  <2> HIDE DEF j
  <2>3. w[i + 1] = w[i] + u[i + 1] /\ w[i] \in Nat
    BY <1>1, <2>1
  <2>4. u[i + 1] = s[j]
    BY <2>1 DEF n, j, IsSlice
  <2>5. t[j] = t[A + i] + s[j] /\ t[A + i] \in Nat /\ s[j] \in Nat
    BY <1>2, <2>2
  <2>6. w[i + 1] = t[j] - t[A]
    <3> DEFINE a == t[A]
               b == t[A + i]
               c == s[j]
    <3>1. a \in Nat /\ b \in Nat /\ c \in Nat /\ t[j] = b + c /\ w[i + 1] = b - a + c
      BY <1>3, <2>1, <2>3, <2>4, <2>5
    <3> HIDE DEF a, b, c
    <3>2. w[i + 1] = t[j] - a
      BY <3>1
    <3> QED
      BY <3>2 DEF a
  <2> QED
    BY <2>6 DEF j
<1>6. D \in SUBSET Nat
  OBVIOUS
<1>7. D = Nat
  <2> HIDE DEF D
  <2> QED
    BY <1>4, <1>5, <1>6, NatInd
<1>8. ASSUME NEW i \in 0..n PROVE w[i] = t[A + i] - t[A]
  <2>1. i \in Nat /\ i <= n
    BY <1>1
  <2>2. i \in D
    BY <1>7, <2>1
  <2> QED
    BY <2>1, <2>2
<1> QED
  BY <1>8 DEF n

-----------------------------------------------------------------------------
(* What FlattenSeq makes of sequences that are joined or cut.               *)

LEMMA ConcatFacts ==
    ASSUME NEW S
    PROVE  /\ \A a, b, c \in Seq(S) : (a \o b) \o c = a \o (b \o c)
           /\ \A a, b \in Seq(S) : /\ a \o b \in Seq(S)
                                   /\ Len(a \o b) = Len(a) + Len(b)
<1>1. ASSUME NEW a \in Seq(S), NEW b \in Seq(S), NEW c \in Seq(S)
      PROVE  (a \o b) \o c = a \o (b \o c)
  BY ConcatAssociative
<1>2. ASSUME NEW a \in Seq(S), NEW b \in Seq(S)
      PROVE  a \o b \in Seq(S) /\ Len(a \o b) = Len(a) + Len(b)
  BY ConcatProperties
<1> QED
  BY <1>1, <1>2

LEMMA FlattenConcat ==
    ASSUME NEW S, NEW ss \in Seq(Seq(S)), NEW tt \in Seq(Seq(S))
    PROVE  /\ FlattenSeq(ss) \in Seq(S)
           /\ FlattenSeq(ss \o tt) = FlattenSeq(ss) \o FlattenSeq(tt)
<1> DEFINE D == {n \in Nat : \A uu \in Seq(Seq(S)) :
                    Len(uu) = n => FlattenSeq(ss \o uu) = FlattenSeq(ss) \o FlattenSeq(uu)}
<1>0. \A uu \in Seq(Seq(S)) : FlattenSeq(uu) \in Seq(S)
  <2>1. <<>> \in Seq(S)
    OBVIOUS
  <2> QED
    BY <2>1, FlattenAppend
<1>1. 0 \in D
  <2> SUFFICES ASSUME NEW uu \in Seq(Seq(S)), Len(uu) = 0
               PROVE  FlattenSeq(ss \o uu) = FlattenSeq(ss) \o FlattenSeq(uu)
    OBVIOUS
  <2>1. uu = <<>>
    BY EmptySeq
  <2>2. ss \o uu = ss
    BY <2>1, ConcatEmptySeq
  <2>3. FlattenSeq(uu) = <<>>
    BY <2>1 DEF FlattenSeq
  <2> QED
    BY <1>0, <2>2, <2>3, ConcatEmptySeq
<1>2. ASSUME NEW n \in D PROVE n + 1 \in D
  <2> SUFFICES ASSUME NEW uu \in Seq(Seq(S)), Len(uu) = n + 1
               PROVE  FlattenSeq(ss \o uu) = FlattenSeq(ss) \o FlattenSeq(uu)
    OBVIOUS
  <2>1. uu # <<>>
    <3>1. n \in Nat
      OBVIOUS
    <3> QED
      BY <3>1, EmptySeq
  <2>2. PICK vv \in Seq(Seq(S)), x \in Seq(S) : uu = Append(vv, x)
    BY <2>1, SequenceEmptyOrAppend
  <2>3. Len(vv) = n
    <3>1. Len(uu) = Len(vv) + 1 /\ Len(vv) \in Nat /\ n \in Nat
      BY <2>2, AppendProperties
    <3> QED
      BY <3>1
  <2>4. FlattenSeq(ss \o vv) = FlattenSeq(ss) \o FlattenSeq(vv)
    BY <2>3
  <2>5. ss \o vv \in Seq(Seq(S)) /\ ss \o uu = Append(ss \o vv, x)
    <3>1. /\ ss \o vv \in Seq(Seq(S))
          /\ uu = vv \o <<x>> /\ Append(ss \o vv, x) = (ss \o vv) \o <<x>>
      BY <2>2, AppendIsConcat, ConcatProperties
    <3>2. <<x>> \in Seq(Seq(S))
      OBVIOUS
    <3>3. ss \o (vv \o <<x>>) = (ss \o vv) \o <<x>>
      BY <3>2, ConcatFacts, SMTT(30)
    <3> QED
      BY <3>1, <3>3
  <2>6. /\ FlattenSeq(ss \o uu) = FlattenSeq(ss \o vv) \o x
        /\ FlattenSeq(uu) = FlattenSeq(vv) \o x
    BY <2>2, <2>5, FlattenAppend
  <2>7. FlattenSeq(ss) \in Seq(S) /\ FlattenSeq(vv) \in Seq(S)
    BY <1>0
  <2>8. (FlattenSeq(ss) \o FlattenSeq(vv)) \o x = FlattenSeq(ss) \o (FlattenSeq(vv) \o x)
    <3> DEFINE p == FlattenSeq(ss)
               q == FlattenSeq(vv)
    <3>1. p \in Seq(S) /\ q \in Seq(S) /\ x \in Seq(S)
      BY <2>7
    <3> HIDE DEF p, q, D
    <3>2. (p \o q) \o x = p \o (q \o x)
      BY ONLY <3>1, SMTT(30)
    <3> QED
      BY <3>2 DEF p, q
  <2> QED
    BY <2>4, <2>6, <2>8
<1>3. D \in SUBSET Nat
  OBVIOUS
<1>4. D = Nat
  <2> HIDE DEF D
  <2> QED
    BY <1>1, <1>2, <1>3, NatInd
<1>5. Len(tt) \in D
  BY <1>4
<1> QED
  BY <1>0, <1>5

Lengths(ss) == [k \in DOMAIN ss |-> Len(ss[k])]

LEMMA LengthsOfSeq ==
    ASSUME NEW S, NEW ss \in Seq(Seq(S))
    PROVE  /\ Lengths(ss) \in Seq(Nat) /\ Len(Lengths(ss)) = Len(ss)
           /\ \A k \in 1..Len(ss) : Lengths(ss)[k] = Len(ss[k])
<1>1. Len(ss) \in Nat /\ DOMAIN ss = 1..Len(ss) /\ \A k \in 1..Len(ss) : Len(ss[k]) \in Nat
  OBVIOUS
<1>2. Lengths(ss) = [k \in 1..Len(ss) |-> Len(ss[k])]
  BY <1>1 DEF Lengths
<1>3. Lengths(ss) \in [1..Len(ss) -> Nat]
  BY <1>1, <1>2
<1> QED
  BY <1>1, <1>2, <1>3

Upto(ss, i) == SubSeq(ss, 1, i)

LEMMA UptoGrows ==
    ASSUME NEW S, NEW ss \in Seq(S), NEW i \in 1..Len(ss)
    PROVE  /\ Upto(ss, i - 1) \in Seq(S) /\ Len(Upto(ss, i - 1)) = i - 1
           /\ Upto(ss, i) = Append(Upto(ss, i - 1), ss[i])
           /\ ss[i] \in S
<1>1. Len(ss) \in Nat /\ i \in Int /\ i - 1 \in Int /\ 1 <= i /\ ss[i] \in S
  OBVIOUS
<1>2. \A k \in 1..i : ss[k] \in S
  BY <1>1
<1>3. Upto(ss, i - 1) \in Seq(S) /\ Len(Upto(ss, i - 1)) = i - 1
  <2>1. \A k \in 1..(i - 1) : ss[k] \in S
    BY <1>1, <1>2
  <2>2. /\ SubSeq(ss, 1, i - 1) \in Seq(S)
        /\ Len(SubSeq(ss, 1, i - 1)) = IF 1 <= i - 1 THEN (i - 1) - 1 + 1 ELSE 0
    BY <1>1, <2>1, SubSeqProperties
  <2> QED
    BY <1>1, <2>2 DEF Upto
<1>4. 1 \in 1..Len(ss) /\ i \in 1..Len(ss)
  BY <1>1
<1>5. SubSeq(ss, 1, i) = SubSeq(ss, 1, i - 1) \o <<ss[i]>>
  BY <1>4, SubSeqRecursiveSecond
<1> QED
  BY <1>1, <1>3, <1>5, AppendIsConcat DEF Upto

(* Each part ends at the total of the lengths so far. *)
LEMMA FlattenLength ==
    ASSUME NEW S, NEW ss \in Seq(Seq(S)), NEW t, IsTotals(t, Lengths(ss)),
           NEW i \in 0..Len(ss)
    PROVE  /\ FlattenSeq(Upto(ss, i)) \in Seq(S)
           /\ Len(FlattenSeq(Upto(ss, i))) = t[i]
<1> DEFINE n == Len(ss)
           Is(k) == /\ FlattenSeq(Upto(ss, k)) \in Seq(S)
                    /\ Len(FlattenSeq(Upto(ss, k))) = t[k]
           D == {k \in Nat : k <= n => Is(k)}
<1>0. n \in Nat
  OBVIOUS
<1>1. 0 \in D
  <2>1. SubSeq(ss, 1, 0) = <<>>
    BY SubSeqEmpty
  <2>2. FlattenSeq(Upto(ss, 0)) = <<>>
    BY <2>1 DEF FlattenSeq, Upto
  <2>3. <<>> \in Seq(S) /\ Len(<<>>) = 0 /\ t[0] = 0
    BY DEF IsTotals
  <2>4. Is(0)
    BY <2>2, <2>3
  <2> HIDE DEF Is
  <2> QED
    BY <2>4
<1>2. ASSUME NEW k \in D PROVE k + 1 \in D
  <2> SUFFICES ASSUME k + 1 <= n PROVE Is(k + 1)
    OBVIOUS
  <2>1. k + 1 \in 1..n /\ (k + 1) - 1 = k /\ Is(k)
    BY <1>0
  <2>2. /\ Upto(ss, k) \in Seq(Seq(S)) /\ Upto(ss, k + 1) = Append(Upto(ss, k), ss[k + 1])
        /\ ss[k + 1] \in Seq(S)
    BY <2>1, UptoGrows
  <2>3. FlattenSeq(Upto(ss, k + 1)) = FlattenSeq(Upto(ss, k)) \o ss[k + 1]
    BY <2>2, FlattenAppend
  <2>4. /\ FlattenSeq(Upto(ss, k + 1)) \in Seq(S)
        /\ Len(FlattenSeq(Upto(ss, k + 1))) = Len(FlattenSeq(Upto(ss, k))) + Len(ss[k + 1])
    <3>1. FlattenSeq(Upto(ss, k)) \in Seq(S)
      BY <2>1
    <3> HIDE DEF Is
    <3> QED
      BY <2>2, <2>3, <3>1, ConcatFacts, ZenonT(40)
  <2>5. t[k + 1] = t[k] + Len(ss[k + 1])
    <3>1. k + 1 \in 1..Len(Lengths(ss)) /\ Lengths(ss)[k + 1] = Len(ss[k + 1])
      BY <2>1, LengthsOfSeq
    <3> QED
      BY <2>1, <3>1 DEF IsTotals
  <2> QED
    BY <2>1, <2>4, <2>5
<1>3. D \in SUBSET Nat
  OBVIOUS
<1>4. D = Nat
  <2> HIDE DEF D
  <2> QED
    BY <1>1, <1>2, <1>3, NatInd
<1>5. i \in D /\ i <= n
  BY <1>0, <1>4
<1> QED
  BY <1>5

(* From one boundary to another are the elements of the parts between.      *)
LEMMA FlattenSlice ==
    ASSUME NEW S, NEW ss \in Seq(Seq(S)), NEW t, IsTotals(t, Lengths(ss)),
           NEW a \in 0..Len(ss), NEW b \in 0..Len(ss), a <= b
    PROVE  /\ SubSeq(FlattenSeq(ss), t[a] + 1, t[b]) = FlattenSeq(SubSeq(ss, a + 1, b))
           /\ FlattenSeq(SubSeq(ss, a + 1, b)) \in Seq(S)
           /\ Len(FlattenSeq(SubSeq(ss, a + 1, b))) = t[b] - t[a]
           /\ FlattenSeq(ss) \in Seq(S) /\ Len(FlattenSeq(ss)) = t[Len(ss)]
<1> DEFINE n == Len(ss)
           U == FlattenSeq(Upto(ss, a))
           M == FlattenSeq(SubSeq(ss, a + 1, b))
           V == FlattenSeq(SubSeq(ss, b + 1, n))
<1>0. /\ n \in Nat /\ a \in Nat /\ b \in Nat /\ a <= n /\ b <= n
      /\ \A k \in 1..n : ss[k] \in Seq(S)
  OBVIOUS
<1>1. /\ SubSeq(ss, a + 1, b) \in Seq(Seq(S)) /\ SubSeq(ss, b + 1, n) \in Seq(Seq(S))
      /\ Upto(ss, a) \in Seq(Seq(S)) /\ Upto(ss, b) \in Seq(Seq(S))
  <2>1. /\ \A k \in 1..a : ss[k] \in Seq(S)
        /\ \A k \in 1..b : ss[k] \in Seq(S)
        /\ \A k \in (a + 1)..b : ss[k] \in Seq(S)
        /\ \A k \in (b + 1)..n : ss[k] \in Seq(S)
    BY <1>0
  <2>2. a + 1 \in Int /\ b + 1 \in Int /\ 1 \in Int /\ a \in Int /\ b \in Int /\ n \in Int
    BY <1>0
  <2>3. SubSeq(ss, a + 1, b) \in Seq(Seq(S))
    BY <2>1, <2>2, SubSeqProperties
  <2>4. SubSeq(ss, b + 1, n) \in Seq(Seq(S))
    BY <2>1, <2>2, SubSeqProperties
  <2>5. SubSeq(ss, 1, a) \in Seq(Seq(S))
    BY <2>1, <2>2, SubSeqProperties
  <2>6. SubSeq(ss, 1, b) \in Seq(Seq(S))
    BY <2>1, <2>2, SubSeqProperties
  <2> QED
    BY <2>3, <2>4, <2>5, <2>6 DEF Upto
<1>2. /\ Upto(ss, b) = Upto(ss, a) \o SubSeq(ss, a + 1, b)
      /\ ss = Upto(ss, b) \o SubSeq(ss, b + 1, n)
  <2>1. /\ 1 \in 1..Len(ss) + 1 /\ a \in 1 - 1..Len(ss) /\ b \in a..Len(ss)
        /\ b \in 1 - 1..Len(ss) /\ n \in b..Len(ss)
    BY <1>0
  <2>2. SubSeq(ss, 1, a) \o SubSeq(ss, a + 1, b) = SubSeq(ss, 1, b)
    BY <2>1, ConcatAdjacentSubSeq
  <2>3. SubSeq(ss, 1, b) \o SubSeq(ss, b + 1, n) = SubSeq(ss, 1, n)
    BY <2>1, ConcatAdjacentSubSeq
  <2> QED
    BY <2>2, <2>3, SubSeqFull DEF Upto
<1>3. /\ U \in Seq(S) /\ M \in Seq(S) /\ V \in Seq(S)
      /\ FlattenSeq(Upto(ss, b)) = U \o M
      /\ FlattenSeq(ss) = FlattenSeq(Upto(ss, b)) \o V
  BY <1>1, <1>2, FlattenConcat
<1>4. Len(U) = t[a] /\ Len(U \o M) = t[b]
  <2>1. Len(FlattenSeq(Upto(ss, a))) = t[a] /\ Len(FlattenSeq(Upto(ss, b))) = t[b]
    BY FlattenLength
  <2> QED
    BY <1>3, <2>1
<1>5. Upto(ss, n) = ss
  BY SubSeqFull DEF Upto
<1>6. FlattenSeq(ss) \in Seq(S) /\ Len(FlattenSeq(ss)) = t[n]
  <2>1. n \in 0..Len(ss)
    BY <1>0
  <2> QED
    BY <1>5, <2>1, FlattenLength
<1> HIDE DEF U, M, V, n
<1> DEFINE W == FlattenSeq(ss)
<1>7. W = (U \o M) \o V
  BY <1>3
<1> HIDE DEF W
<1>8. /\ Len(U) \in Nat /\ Len(M) \in Nat /\ Len(V) \in Nat
      /\ U \o M \in Seq(S) /\ Len(U \o M) = Len(U) + Len(M)
      /\ W \in Seq(S) /\ Len(W) = Len(U) + Len(M) + Len(V)
  BY <1>3, <1>7, ConcatProperties
<1>9. ASSUME NEW k \in 1..Len(M) PROVE W[Len(U) + k] = M[k]
  <2>1. /\ Len(U) + k \in 1..Len(U \o M) + Len(V) /\ Len(U) + k <= Len(U \o M)
        /\ Len(U) + k \in 1..Len(U) + Len(M) /\ ~(Len(U) + k <= Len(U))
        /\ (Len(U) + k) - Len(U) = k
    BY <1>8
  <2>2. W[Len(U) + k] = (U \o M)[Len(U) + k]
    BY <1>3, <1>7, <1>8, <2>1, ConcatProperties
  <2>3. (U \o M)[Len(U) + k] = M[k]
    BY <1>3, <2>1, ConcatProperties
  <2> QED
    BY <2>2, <2>3
<1>10. SubSeq(W, Len(U) + 1, Len(U) + Len(M)) = M
  <2> DEFINE X == SubSeq(W, Len(U) + 1, Len(U) + Len(M))
             lo == Len(U) + 1
             hi == Len(U) + Len(M)
  <2>1. lo \in Int /\ hi \in Int /\ \A k \in lo..hi : W[k] \in S
    <3>1. lo \in Int /\ hi \in Int /\ \A k \in lo..hi : k \in 1..Len(W)
      BY <1>8
    <3> QED
      BY <1>8, <3>1
  <2>2. /\ SubSeq(W, lo, hi) \in Seq(S)
        /\ Len(SubSeq(W, lo, hi)) = IF lo <= hi THEN hi - lo + 1 ELSE 0
        /\ \A k \in 1..hi - lo + 1 : SubSeq(W, lo, hi)[k] = W[lo + k - 1]
    <3> HIDE DEF lo, hi
    <3> QED
      BY <2>1, SubSeqProperties
  <2>3. hi - lo + 1 = Len(M) /\ (IF lo <= hi THEN hi - lo + 1 ELSE 0) = Len(M)
        /\ \A k \in 1..Len(M) : lo + k - 1 = Len(U) + k
    BY <1>8
  <2>4. X \in Seq(S) /\ Len(X) = Len(M) /\ \A k \in 1..Len(M) : X[k] = M[k]
    <3> HIDE DEF lo, hi
    <3>1. X = SubSeq(W, lo, hi)
      BY DEF lo, hi
    <3> HIDE DEF X
    <3> QED
      BY <1>9, <2>2, <2>3, <3>1
  <2> HIDE DEF X, lo, hi
  <2>5. X = M
    BY <1>3, <2>4, SeqEqual
  <2> QED
    BY <2>5 DEF X
<1>11. SubSeq(W, t[a] + 1, t[b]) = M /\ Len(M) = t[b] - t[a]
  <2>1. t[b] = Len(U) + Len(M) /\ t[a] = Len(U)
    BY <1>4, <1>8
  <2>2. t[b] - t[a] = Len(M)
    BY <1>8, <2>1
  <2> QED
    BY <1>10, <2>1, <2>2
<1> QED
  BY <1>3, <1>6, <1>11 DEF W, M, n

=============================================================================
