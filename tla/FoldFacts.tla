------------------------------- MODULE FoldFacts -------------------------------
(***************************************************************************)
(* Facts about numbers, finite sets and folds that the proofs of the       *)
(* components cite.                                                        *)
(***************************************************************************)
EXTENDS Integers, FiniteSets, SequencesExt, FiniteSetTheorems, WellFoundedInduction, TLAPS

\* A set of numbers has a least one.
LEMMA LeastOf == ASSUME NEW T \in SUBSET Nat, T # {} PROVE \E m \in T : \A k \in T : m <= k
  <1>1. PICK m \in T : \A k \in T : <<k, m>> \notin OpToRel(<, Nat)
    BY NatLessThanWellFounded, WFMin
  <1>2. ASSUME NEW k \in T, k < m PROVE FALSE
    <2>1. <<k, m>> \in OpToRel(<, Nat)  BY <1>2 DEF OpToRel
    <2> QED  BY <1>1, <2>1
  <1> QED  BY <1>2

LEMMA MinIn == ASSUME NEW T \in SUBSET Nat, T # {} PROVE Min(T) \in T /\ \A k \in T : Min(T) <= k
  BY LeastOf DEF Min

\* A bounded one has a greatest.
LEMMA Greatest ==
    ASSUME NEW n \in Nat, NEW T \in SUBSET (1..n), T # {}
    PROVE  \E m \in T : \A k \in T : k <= m
  <1> DEFINE R == {r \in 0..n : n - r \in T}
  <1>1. PICK t \in T : TRUE  OBVIOUS
  <1>2. n - t \in R  BY <1>1
  <1>3. PICK r \in R : \A q \in R : r <= q
    <2>1. R \subseteq Nat  OBVIOUS
    <2>2. R # {}  BY <1>2
    <2> HIDE DEF R
    <2> QED  BY <2>1, <2>2, LeastOf
  <1>4. \A k \in T : n - k \in R  OBVIOUS
  <1>5. \A k \in T : k <= n - r  BY <1>3, <1>4
  <1> QED  BY <1>3, <1>5

\* What holds of 0 and passes from a number to the next holds of all.
LEMMA Induction ==
    ASSUME NEW S \in SUBSET Nat, 0 \in S, \A n \in S : n + 1 \in S
    PROVE  S = Nat
  <1> SUFFICES ASSUME Nat \ S # {} PROVE FALSE  OBVIOUS
  <1>1. PICK m \in Nat \ S : \A k \in Nat \ S : m <= k  BY LeastOf
  <1>2. m - 1 \in Nat \ S  BY <1>1
  <1> QED  BY <1>1, <1>2

\* Two finite sets are of the same size when f pairs them.
LEMMA SameMany ==
    ASSUME NEW S, IsFiniteSet(S), NEW T, NEW f,
           \A x \in S : f[x] \in T, \A x, y \in S : f[x] = f[y] => x = y,
           \A z \in T : \E x \in S : f[x] = z
    PROVE  IsFiniteSet(T) /\ Cardinality(T) = Cardinality(S)
  <1> DEFINE g == [x \in S |-> f[x]]
  <1>1. g \in [S -> T] /\ \A x \in S : g[x] = f[x]  OBVIOUS
  <1> HIDE DEF g
  <1>2. g \in Injection(S, T)  BY <1>1 DEF Injection, IsInjective
  <1>3. g \in Surjection(S, T)  BY <1>1 DEF Surjection
  <1>4. ExistsBijection(S, T)  BY <1>2, <1>3 DEF ExistsBijection, Bijection
  <1> QED  BY <1>4, FS_Bijection
-----------------------------------------------------------------------------
(* Folds.  MapThenFoldSet takes an element c[s] off a set s until nothing is *)
(* left; g[s] is the fold of s.                                            *)

\* g folds the subsets of S: base for the empty one, a step for each other.
IsFold(g, S, base, c, step) ==
    \A s \in SUBSET S : g[s] = IF s = {} THEN base ELSE step[c[s]][g[s \ {c[s]}]]

\* c picks an element of every set.
Picks(c, S) == \A s \in (SUBSET S) \ {{}} : c[s] \in s

\* Without the picked element a subset is smaller.
LEMMA OneLess ==
    ASSUME NEW S, IsFiniteSet(S), NEW s \in SUBSET S, NEW x \in s
    PROVE  /\ s \ {x} \in SUBSET S
           /\ Cardinality(s) \in Nat \ {0}
           /\ Cardinality(s \ {x}) = Cardinality(s) - 1
  <1>1. IsFiniteSet(s)  BY FS_Subset
  <1>2. Cardinality(s \ {x}) = Cardinality(s) - 1  BY <1>1, FS_RemoveElement
  <1>3. Cardinality(s) \in Nat /\ Cardinality(s) # 0  BY <1>1, FS_CardinalityType, FS_EmptySet
  <1> QED  BY <1>2, <1>3

\* The same of the subsets of at most n elements.
Upto(n, S) == {s \in SUBSET S : Cardinality(s) <= n}
FoldsUpto(g, n, S, base, c, step) ==
    \A s \in Upto(n, S) : g[s] = IF s = {} THEN base ELSE step[c[s]][g[s \ {c[s]}]]

LEMMA FoldOneMore ==
    ASSUME NEW S, IsFiniteSet(S), NEW A, NEW base \in A, NEW c, Picks(c, S),
           NEW step \in [S -> [A -> A]], NEW n \in Nat,
           NEW g \in [Upto(n, S) -> A], FoldsUpto(g, n, S, base, c, step)
    PROVE  \E h \in [Upto(n + 1, S) -> A] : FoldsUpto(h, n + 1, S, base, c, step)
  <1> DEFINE h == [s \in Upto(n + 1, S) |-> IF s = {} THEN base ELSE step[c[s]][g[s \ {c[s]}]]]
  <1>1. ASSUME NEW s \in Upto(n + 1, S), s # {}
        PROVE  c[s] \in s /\ c[s] \in S /\ s \ {c[s]} \in Upto(n, S)
    <2>1. s \in SUBSET S /\ Cardinality(s) <= n + 1  BY DEF Upto
    <2>2. c[s] \in s  BY <1>1, <2>1 DEF Picks
    <2>3. /\ s \ {c[s]} \in SUBSET S /\ Cardinality(s) \in Nat
          /\ Cardinality(s \ {c[s]}) = Cardinality(s) - 1
      BY <2>1, <2>2, OneLess
    <2> QED  BY <2>1, <2>2, <2>3 DEF Upto
  <1>2. h \in [Upto(n + 1, S) -> A]
    <2> SUFFICES ASSUME NEW s \in Upto(n + 1, S), s # {}
                 PROVE  step[c[s]][g[s \ {c[s]}]] \in A
      OBVIOUS
    <2>1. c[s] \in S /\ g[s \ {c[s]}] \in A  BY <1>1
    <2> QED  BY <2>1
  <1>3. ASSUME NEW s \in Upto(n, S) PROVE s \in Upto(n + 1, S) /\ h[s] = g[s]
    <2>1. s \in SUBSET S /\ Cardinality(s) <= n /\ Cardinality(s) \in Nat
      BY FS_Subset, FS_CardinalityType DEF Upto
    <2>2. s \in Upto(n + 1, S)  BY <2>1 DEF Upto
    <2> QED  BY <2>2 DEF FoldsUpto
  <1>4. FoldsUpto(h, n + 1, S, base, c, step)
    <2> SUFFICES ASSUME NEW s \in Upto(n + 1, S)
                 PROVE  h[s] = IF s = {} THEN base ELSE step[c[s]][h[s \ {c[s]}]]
      BY DEF FoldsUpto
    <2>1. CASE s = {}  BY <2>1
    <2>2. CASE s # {}
      <3>1. h[s \ {c[s]}] = g[s \ {c[s]}]  BY <1>1, <1>3, <2>2
      <3>2. h[s] = step[c[s]][g[s \ {c[s]}]]  BY <2>2
      <3> QED  BY <2>2, <3>1, <3>2
    <2> QED  BY <2>1, <2>2
  <1> HIDE DEF h
  <1> QED  BY <1>2, <1>4

\* The fold of a finite set exists.
LEMMA FoldDefined ==
    ASSUME NEW S, IsFiniteSet(S), NEW A, NEW base \in A, NEW c, Picks(c, S),
           NEW step \in [S -> [A -> A]]
    PROVE  \E g \in [SUBSET S -> A] : IsFold(g, S, base, c, step)
  <1> DEFINE Done(n) == \E g \in [Upto(n, S) -> A] : FoldsUpto(g, n, S, base, c, step)
             N == {n \in Nat : Done(n)}
  <1>1. Done(0)
    <2>1. \A s \in Upto(0, S) : s = {}
      <3> SUFFICES ASSUME NEW s \in Upto(0, S) PROVE s = {}  OBVIOUS
      <3>1. IsFiniteSet(s) /\ Cardinality(s) <= 0  BY FS_Subset DEF Upto
      <3> QED  BY <3>1, FS_CardinalityType, FS_EmptySet
    <2> DEFINE g == [s \in Upto(0, S) |-> base]
    <2>2. g \in [Upto(0, S) -> A] /\ FoldsUpto(g, 0, S, base, c, step)  BY <2>1 DEF FoldsUpto
    <2> HIDE DEF g
    <2> QED  BY <2>2
  <1>2. ASSUME NEW n \in Nat, Done(n) PROVE Done(n + 1)
    <2>1. PICK g \in [Upto(n, S) -> A] : FoldsUpto(g, n, S, base, c, step)  BY <1>2
    <2> QED  BY <2>1, FoldOneMore
  <1> HIDE DEF Done
  <1>3. N \in SUBSET Nat /\ 0 \in N /\ \A n \in N : n + 1 \in N  BY <1>1, <1>2
  <1>4. Cardinality(S) \in Nat  BY FS_CardinalityType
  <1>5. Done(Cardinality(S))
    <2> HIDE DEF N
    <2>1. N = Nat  BY <1>3, Induction
    <2> QED  BY <1>4, <2>1 DEF N
  <1>6. Upto(Cardinality(S), S) = SUBSET S  BY FS_Subset DEF Upto
  <1> QED  BY <1>5, <1>6 DEF Done, IsFold, FoldsUpto

\* It is the only one.
LEMMA FoldSame ==
    ASSUME NEW S, IsFiniteSet(S), NEW base, NEW c, Picks(c, S), NEW step,
           NEW g, IsFold(g, S, base, c, step), NEW h, IsFold(h, S, base, c, step)
    PROVE  \A s \in SUBSET S : g[s] = h[s]
  <1> DEFINE N == {n \in Nat : \A s \in SUBSET S : Cardinality(s) = n => g[s] = h[s]}
  <1>1. \A s \in SUBSET S : Cardinality(s) \in Nat /\ (Cardinality(s) = 0 <=> s = {})
    BY FS_Subset, FS_CardinalityType, FS_EmptySet
  <1>2. 0 \in N  BY <1>1 DEF IsFold
  <1>3. ASSUME NEW n \in N PROVE n + 1 \in N
    <2> SUFFICES ASSUME NEW s \in SUBSET S, Cardinality(s) = n + 1 PROVE g[s] = h[s]
      OBVIOUS
    <2>1. s # {}  BY <1>1
    <2>2. c[s] \in s  BY <2>1 DEF Picks
    <2>3. s \ {c[s]} \in SUBSET S /\ Cardinality(s \ {c[s]}) = n  BY <2>2, OneLess
    <2>4. g[s \ {c[s]}] = h[s \ {c[s]}]  BY <2>3
    <2> QED  BY <2>1, <2>4 DEF IsFold
  <1>4. N = Nat
    <2> HIDE DEF N
    <2>1. N \in SUBSET Nat  BY DEF N
    <2> QED  BY <1>2, <1>3, <2>1, Induction
  <1> QED  BY <1>1, <1>4

-----------------------------------------------------------------------------
(* Sums.  MapThenSumSet takes any element off a set until nothing is left.  *)

\* What the definition of a sum over the subsets of S says, for the function f
\* that is summed.
Sums(total, S, f) ==
    total = [s \in SUBSET S |-> IF s = {} THEN 0
                                ELSE f[CHOOSE x \in s : TRUE] + total[s \ {CHOOSE x \in s : TRUE}]]

\* There is one sum.
LEMMA SumSame ==
    ASSUME NEW S, IsFiniteSet(S), NEW U, NEW f, NEW total, Sums(total, S, f),
           NEW g, NEW other, Sums(other, U, g), S \subseteq U, \A x \in S : f[x] = g[x]
    PROVE  \A s \in SUBSET S : total[s] = other[s]
  <1> DEFINE N == {n \in Nat : \A s \in SUBSET S : Cardinality(s) = n => total[s] = other[s]}
  <1>1. \A s \in SUBSET S : Cardinality(s) \in Nat /\ (Cardinality(s) = 0 <=> s = {})
    BY FS_Subset, FS_CardinalityType, FS_EmptySet
  <1>2. 0 \in N  BY <1>1 DEF Sums
  <1>3. ASSUME NEW n \in N PROVE n + 1 \in N
    <2> SUFFICES ASSUME NEW s \in SUBSET S, Cardinality(s) = n + 1 PROVE total[s] = other[s]
      OBVIOUS
    <2>1. s # {}  BY <1>1
    <2>2. PICK x \in s : x = CHOOSE y \in s : TRUE  BY <2>1
    <2>3. s \ {x} \in SUBSET S /\ Cardinality(s \ {x}) = n  BY OneLess
    <2>4. total[s \ {x}] = other[s \ {x}]  BY <2>3
    <2>5. total[s] = f[x] + total[s \ {x}]  BY <2>1, <2>2 DEF Sums
    <2>6. other[s] = g[x] + other[s \ {x}]  BY <2>1, <2>2 DEF Sums
    <2> QED  BY <2>4, <2>5, <2>6
  <1>4. N = Nat
    <2> HIDE DEF N
    <2>1. N \in SUBSET Nat  BY DEF N
    <2> QED  BY <1>2, <1>3, <2>1, Induction
  <1> QED  BY <1>1, <1>4

\* With an element more a sum has the value of that element more.
Additive(total, S, f) == \A s \in SUBSET S : \A x \in S \ s : total[s \cup {x}] = f[x] + total[s]

\* An element more adds its value, whatever the order of the sum.
LEMMA SumAdds ==
    ASSUME NEW S, IsFiniteSet(S), NEW f \in [S -> Int],
           NEW total \in [SUBSET S -> Int], Sums(total, S, f)
    PROVE  Additive(total, S, f)
  <1> DEFINE N == {n \in Nat : \A s \in SUBSET S : Cardinality(s) = n =>
                        \A x \in S \ s : total[s \cup {x}] = f[x] + total[s]}
  <1>1. \A s \in SUBSET S : Cardinality(s) \in Nat /\ (Cardinality(s) = 0 <=> s = {})
    BY FS_Subset, FS_CardinalityType, FS_EmptySet
  <1>2. \A s \in SUBSET S : s # {} =>
            \E y \in s : y = (CHOOSE x \in s : TRUE) /\ total[s] = f[y] + total[s \ {y}]
    BY DEF Sums
  <1>3. 0 \in N
    <2> SUFFICES ASSUME NEW x \in S PROVE total[{x}] = f[x] + total[{}]
      BY <1>1
    <2>1. {x} \in SUBSET S /\ {x} # {} /\ {x} \ {x} = {}  OBVIOUS
    <2> QED  BY <1>2, <2>1
  <1>4. ASSUME NEW n \in N PROVE n + 1 \in N
    <2> SUFFICES ASSUME NEW s \in SUBSET S, Cardinality(s) = n + 1, NEW x \in S \ s
                 PROVE  total[s \cup {x}] = f[x] + total[s]
      OBVIOUS
    <2>0. n \in Nat  OBVIOUS
    <2>1. s \cup {x} \in SUBSET S /\ s \cup {x} # {}  OBVIOUS
    <2>2. PICK y \in s \cup {x} : total[s \cup {x}] = f[y] + total[(s \cup {x}) \ {y}]
      BY <1>2, <2>1
    <2>3. CASE y = x
      <3>1. (s \cup {x}) \ {y} = s  BY <2>3
      <3> QED  BY <2>2, <2>3, <3>1
    <2>4. CASE y # x
      <3>1. y \in s  BY <2>4
      <3> DEFINE t == s \ {y}
      <3>2. t \in SUBSET S /\ Cardinality(t) = n  BY <2>0, <3>1, OneLess
      <3>3. (s \cup {x}) \ {y} = t \cup {x} /\ s = t \cup {y} /\ x \in S \ t /\ y \in S \ t
        BY <2>4, <3>1
      <3>4. total[t \cup {x}] = f[x] + total[t] /\ total[t \cup {y}] = f[y] + total[t]
        <4> HIDE DEF t
        <4> QED  BY <3>2, <3>3
      <3>5. f[x] \in Int /\ f[y] \in Int /\ total[t] \in Int  BY <3>2, <3>3
      <3>6. total[s \cup {x}] = f[y] + (f[x] + total[t])  BY <2>2, <3>3, <3>4
      <3>7. total[s] = f[y] + total[t]  BY <3>3, <3>4
      <3> QED  BY <3>5, <3>6, <3>7
    <2> QED  BY <2>3, <2>4
  <1>5. N = Nat
    <2> HIDE DEF N
    <2>1. N \in SUBSET Nat  BY DEF N
    <2> QED  BY <1>3, <1>4, <2>1, Induction
  <1> QED  BY <1>1, <1>5 DEF Additive

\* The sums over the subsets of a finite set exist.
LEMMA SumDefined ==
    ASSUME NEW S, IsFiniteSet(S), NEW f \in [S -> Int]
    PROVE  \E total \in [SUBSET S -> Int] : Sums(total, S, f) /\ Additive(total, S, f)
  <1> DEFINE c == [s \in SUBSET S |-> CHOOSE x \in s : TRUE]
             step == [x \in S |-> [a \in Int |-> f[x] + a]]
  <1>1. Picks(c, S)  BY DEF Picks
  <1>2. step \in [S -> [Int -> Int]]  OBVIOUS
  <1>3. PICK total \in [SUBSET S -> Int] : IsFold(total, S, 0, c, step)
    <2> HIDE DEF c, step
    <2>1. 0 \in Int  OBVIOUS
    <2> QED  BY <1>1, <1>2, <2>1, FoldDefined
  <1>4. ASSUME NEW s \in SUBSET S
        PROVE  total[s] = IF s = {} THEN 0
                          ELSE f[CHOOSE x \in s : TRUE] + total[s \ {CHOOSE x \in s : TRUE}]
    <2>1. CASE s = {}  BY <1>3, <2>1 DEF IsFold
    <2>2. CASE s # {}
      <3>1. c[s] = CHOOSE x \in s : TRUE  OBVIOUS
      <3>2. c[s] \in S  BY <1>1, <2>2 DEF Picks
      <3>3. total[s \ {c[s]}] \in Int  OBVIOUS
      <3>4. total[s] = step[c[s]][total[s \ {c[s]}]]
        <4> HIDE DEF c, step
        <4> QED  BY <1>3, <2>2 DEF IsFold
      <3>5. total[s] = f[c[s]] + total[s \ {c[s]}]
        <4> HIDE DEF c
        <4> QED  BY <3>2, <3>3, <3>4
      <3> QED  BY <2>2, <3>1, <3>5
    <2> QED  BY <2>1, <2>2
  <1>5. Sums(total, S, f)  BY <1>4 DEF Sums
  <1> QED  BY <1>5, SumAdds

\* The sum of a set is that of the set without x, and what x adds.
LEMMA SumLessOne ==
    ASSUME NEW S, IsFiniteSet(S), NEW f, NEW total, Additive(total, S, f), Sums(total, S, f),
           NEW x \in S, NEW g, NEW other, Sums(other, S \ {x}, g),
           \A y \in S \ {x} : g[y] = f[y]
    PROVE  total[S] = f[x] + other[S \ {x}]
  <1> DEFINE R == S \ {x}
  <1>1. IsFiniteSet(R) /\ R \in SUBSET S /\ R \cup {x} = S /\ x \in S \ R  BY FS_RemoveElement
  <1>2. other[R] = total[R]  BY <1>1, SumSame
  <1> HIDE DEF R
  <1>3. total[R \cup {x}] = f[x] + total[R]  BY <1>1 DEF Additive
  <1> QED  BY <1>1, <1>2, <1>3 DEF R

\* What the parts of the elements of s have.
Together(part, s) == UNION {part[d] : d \in s}

\* The sum of how many the parts of a set have is how many they have together.
LEMMA SumOfParts ==
    ASSUME NEW D, IsFiniteSet(D), NEW X, IsFiniteSet(X), NEW part \in [D -> SUBSET X],
           \A d, e \in D : d # e => part[d] \cap part[e] = {},
           NEW f, \A d \in D : f[d] = Cardinality(part[d]), NEW total, Sums(total, D, f)
    PROVE  \A s \in SUBSET D : total[s] = Cardinality(Together(part, s))
  <1> DEFINE N == {n \in Nat : \A s \in SUBSET D :
                        Cardinality(s) = n => total[s] = Cardinality(Together(part, s))}
  <1>1. \A s \in SUBSET D : Cardinality(s) \in Nat /\ (Cardinality(s) = 0 <=> s = {})
    BY FS_Subset, FS_CardinalityType, FS_EmptySet
  <1>2. 0 \in N
    <2> SUFFICES total[{}] = Cardinality(Together(part, {}))  BY <1>1
    <2>1. total[{}] = 0  BY DEF Sums
    <2>2. Together(part, {}) = {}  BY DEF Together
    <2> QED  BY <2>1, <2>2, FS_EmptySet
  <1>3. ASSUME NEW n \in N PROVE n + 1 \in N
    <2> SUFFICES ASSUME NEW s \in SUBSET D, Cardinality(s) = n + 1
                 PROVE  total[s] = Cardinality(Together(part, s))
      OBVIOUS
    <2>1. s # {}  BY <1>1
    <2>2. PICK d \in s : d = CHOOSE y \in s : TRUE  BY <2>1
    <2> DEFINE r == s \ {d}
    <2>3. r \in SUBSET D /\ Cardinality(r) = n  BY OneLess
    <2>4. total[r] = Cardinality(Together(part, r))  BY <2>3
    <2>5. total[s] = f[d] + total[r]  BY <2>1, <2>2 DEF Sums
    <2>6. Together(part, s) = part[d] \cup Together(part, r) /\ part[d] \cap Together(part, r) = {}
      BY DEF Together
    <2>7. IsFiniteSet(part[d]) /\ IsFiniteSet(Together(part, r))
      <3>1. part[d] \in SUBSET X /\ Together(part, r) \in SUBSET X  BY DEF Together
      <3> QED  BY <3>1, FS_Subset
    <2> HIDE DEF r
    <2>8. Cardinality(part[d] \cap Together(part, r)) = 0  BY <2>6, FS_EmptySet
    <2>9. Cardinality(part[d]) \in Nat /\ Cardinality(Together(part, r)) \in Nat
      BY <2>7, FS_CardinalityType
    <2>10. Cardinality(Together(part, s)) = Cardinality(part[d]) + Cardinality(Together(part, r)) - 0
      BY <2>6, <2>7, <2>8, FS_Union
    <2>11. f[d] = Cardinality(part[d])  OBVIOUS
    <2> QED  BY <2>4, <2>5, <2>9, <2>10, <2>11
  <1>4. N = Nat
    <2> HIDE DEF N
    <2>1. N \in SUBSET Nat  BY DEF N
    <2> QED  BY <1>2, <1>3, <2>1, Induction
  <1> QED  BY <1>1, <1>4
-----------------------------------------------------------------------------
(* Folds of a sequence.  FoldLeft takes the greatest index off a set of    *)
(* indices; g[t] is what the elements at t make of the base, act[i] what   *)
(* the element at i does.                                                  *)

LEMMA MaxIn ==
    ASSUME NEW n \in Nat, NEW t \in SUBSET (1..n), t # {}
    PROVE  Max(t) \in t /\ \A k \in t : k <= Max(t)
  <1>1. PICK m \in t : \A k \in t : k <= m  BY Greatest
  <1>2. \A k \in t : m >= k  BY <1>1
  <1> QED  BY <1>2 DEF Max

LEMMA LastOf ==
    ASSUME NEW n \in Nat
    PROVE  1..(n + 1) # {} /\ Max(1..(n + 1)) = n + 1 /\ (1..(n + 1)) \ {n + 1} = 1..n
  <1>1. n + 1 \in Nat /\ n + 1 \in 1..(n + 1)  OBVIOUS
  <1>2. 1..(n + 1) # {}  BY <1>1
  <1>3. Max(1..(n + 1)) \in 1..(n + 1) /\ n + 1 <= Max(1..(n + 1))
    <2> DEFINE D == 1..(n + 1)
    <2>1. D \in SUBSET (1..(n + 1)) /\ n + 1 \in D /\ D # {}  BY <1>1, <1>2
    <2> HIDE DEF D
    <2>2. Max(D) \in D /\ \A k \in D : k <= Max(D)  BY <1>1, <2>1, MaxIn
    <2> QED  BY <2>1, <2>2 DEF D
  <1> QED  BY <1>2, <1>3

LEMMA IntervalFinite == \A n \in Nat : IsFiniteSet(1..n)
  BY FS_Interval

\* A table says what each set of indices makes of the base.
Plays(g, n, base, act) ==
    /\ g[{}] = base
    /\ \A t \in (SUBSET (1..n)) \ {{}} : g[t] = act[Max(t)][g[t \ {Max(t)}]]

LEMMA PlayDefined ==
    ASSUME NEW n \in Nat, NEW A, NEW base \in A, NEW act \in [1..n -> [A -> A]]
    PROVE  \E g \in [SUBSET (1..n) -> A] : Plays(g, n, base, act)
  <1> DEFINE D == 1..n
             c == [t \in SUBSET D |-> Max(t)]
  <1>1. IsFiniteSet(D)  BY IntervalFinite
  <1>2. Picks(c, D)  BY MaxIn DEF Picks
  <1>3. act \in [D -> [A -> A]]  OBVIOUS
  <1>4. PICK g \in [SUBSET D -> A] : IsFold(g, D, base, c, act)
    <2> HIDE DEF D, c
    <2> QED  BY <1>1, <1>2, <1>3, FoldDefined
  <1>5. Plays(g, n, base, act)  BY <1>4 DEF Plays, IsFold
  <1> QED  BY <1>5

\* Two tables agree on what each step adds.
Agree(g, h, n) ==
    \A t \in (SUBSET (1..n)) \ {{}} : g[t \ {Max(t)}] = h[t \ {Max(t)}] => g[t] = h[t]

\* Then they are the same.
LEMMA SameTable ==
    ASSUME NEW n \in Nat, NEW g, NEW h, g[{}] = h[{}], Agree(g, h, n)
    PROVE  \A t \in SUBSET (1..n) : g[t] = h[t]
  <1> DEFINE D == 1..n
             N == {m \in Nat : \A t \in SUBSET D : Cardinality(t) = m => g[t] = h[t]}
  <1>0. IsFiniteSet(D)  BY IntervalFinite
  <1>1. \A t \in SUBSET D : Cardinality(t) \in Nat /\ (Cardinality(t) = 0 <=> t = {})
    BY <1>0, FS_Subset, FS_CardinalityType, FS_EmptySet
  <1>2. 0 \in N  BY <1>1
  <1>3. ASSUME NEW m \in N PROVE m + 1 \in N
    <2> SUFFICES ASSUME NEW t \in SUBSET D, Cardinality(t) = m + 1 PROVE g[t] = h[t]
      OBVIOUS
    <2>1. t # {}  BY <1>1
    <2>2. PICK x \in t : x = Max(t)  BY <2>1, MaxIn
    <2>3. t \ {x} \in SUBSET D /\ Cardinality(t \ {x}) = m
      <3> HIDE DEF D
      <3>1. m \in Nat  OBVIOUS
      <3> QED  BY <1>0, <3>1, OneLess
    <2>4. g[t \ {x}] = h[t \ {x}]  BY <2>3
    <2> QED  BY <2>1, <2>2, <2>4 DEF Agree
  <1>4. N = Nat
    <2> HIDE DEF N
    <2>1. N \in SUBSET Nat  BY DEF N
    <2> QED  BY <1>2, <1>3, <2>1, Induction
  <1> QED  BY <1>1, <1>4

\* The same steps at the first n indices.
SameSteps(act, more, n, A) == \A i \in 1..n : \A a \in A : act[i][a] = more[i][a]

\* An index more is played after the others.
LEMMA PlayOneMore ==
    ASSUME NEW n \in Nat, NEW base, NEW act, NEW more, NEW A,
           NEW g \in [SUBSET (1..n) -> A], NEW h \in [SUBSET (1..(n + 1)) -> A],
           Plays(g, n, base, act), Plays(h, n + 1, base, more),
           SameSteps(act, more, n, A)
    PROVE  h[1..(n + 1)] = more[n + 1][g[1..n]] /\ g[1..n] \in A
  <1>1. g[{}] = h[{}]  BY DEF Plays
  <1>2. ASSUME NEW t \in (SUBSET (1..n)) \ {{}}, g[t \ {Max(t)}] = h[t \ {Max(t)}]
        PROVE  g[t] = h[t]
    <2>1. Max(t) \in 1..n  BY MaxIn
    <2>2. t \in (SUBSET (1..(n + 1))) \ {{}}  OBVIOUS
    <2>3. g[t] = act[Max(t)][g[t \ {Max(t)}]]  BY DEF Plays
    <2>4. h[t] = more[Max(t)][h[t \ {Max(t)}]]  BY <2>2 DEF Plays
    <2>5. g[t \ {Max(t)}] \in A  OBVIOUS
    <2> QED  BY <1>2, <2>1, <2>3, <2>4, <2>5 DEF SameSteps
  <1>3. h[1..n] = g[1..n]
    <2>1. Agree(g, h, n)  BY <1>2 DEF Agree
    <2>2. \A t \in SUBSET (1..n) : g[t] = h[t]
      <3> DEFINE one == g
                 other == h
      <3>1. one[{}] = other[{}] /\ Agree(one, other, n)  BY <1>1, <2>1
      <3> HIDE DEF one, other
      <3>2. \A t \in SUBSET (1..n) : one[t] = other[t]  BY <3>1, SameTable
      <3> QED  BY <3>2 DEF one, other
    <2> QED  BY <2>2
  <1>4. h[1..(n + 1)] = more[n + 1][h[1..n]]
    <2> DEFINE D == 1..(n + 1)
    <2>1. D \in (SUBSET (1..(n + 1))) \ {{}} /\ Max(D) = n + 1 /\ D \ {n + 1} = 1..n  BY LastOf
    <2> HIDE DEF D
    <2>2. h[D] = more[Max(D)][h[D \ {Max(D)}]]  BY <2>1 DEF Plays
    <2> QED  BY <2>1, <2>2 DEF D
  <1> QED  BY <1>3, <1>4
================================================================================
