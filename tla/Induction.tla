----------------------------- MODULE Induction -----------------------------
(***************************************************************************)
(* Induction over the naturals with a set in the place of a predicate, and *)
(* what follows from it: least and greatest elements, that a function      *)
(* defined by recursion over an initial part of the naturals exists, and   *)
(* how sums over finite sets grow.                                         *)
(***************************************************************************)
EXTENDS FiniteSetTheorems, FiniteSetsExt, TLAPS

\* A nonempty set of naturals has a least element.
THEOREM LeastElement ==
    ASSUME NEW T \in SUBSET Nat, T # {}
    PROVE  \E x \in T : \A y \in T : x <= y
<1> DEFINE R == {ss \in Nat \X Nat : ss[1] < ss[2]}
<1>1. IsWellFoundedOn(R, Nat)
  BY NatLessThanWellFounded DEF OpToRel
<1> HIDE DEF R
<1>2. T \subseteq Nat
  OBVIOUS
<1>3. \E x \in T : \A y \in T : ~ (<<y, x>> \in R)
  BY <1>1, <1>2, WFMin
<1>4. \A x, y \in T : ~(<<y, x>> \in R) => x <= y
  BY DEF R
<1> QED
  BY <1>3, <1>4

\* An initial part of the naturals.
Initial(D) == D \subseteq Nat /\ \A k \in D : k # 0 => k - 1 \in D

\* What holds at 0 and is handed from each number to the next holds everywhere.
THEOREM SetInduction ==
    ASSUME NEW D, Initial(D), NEW S,
           0 \in D => 0 \in S,
           \A n \in D : n # 0 /\ n - 1 \in S => n \in S
    PROVE  D \subseteq S
<1> DEFINE T == D \ S
<1> SUFFICES ASSUME T # {} PROVE FALSE
  OBVIOUS
<1>1. PICK x \in T : \A y \in T : x <= y
  BY LeastElement DEF Initial
<1>2. x # 0 /\ x \in Nat /\ x \notin S /\ x \in D
  BY DEF Initial
<1>3. x - 1 \in Nat /\ x - 1 < x /\ x - 1 \in D
  BY <1>2 DEF Initial
<1>4. x - 1 \in S
  BY <1>1, <1>2, <1>3
<1> QED
  BY <1>2, <1>3, <1>4

\* A nonempty set of naturals with a bound has a greatest element.
THEOREM GreatestElement ==
    ASSUME NEW T \in SUBSET Nat, T # {}, NEW b \in Nat, \A y \in T : y <= b
    PROVE  \E x \in T : \A y \in T : y <= x
<1> DEFINE U == {n \in Nat : \A y \in T : y <= n}
<1>1. PICK x \in U : \A y \in U : x <= y
  BY LeastElement
<1>2. x \in T
  <2> SUFFICES ASSUME x \notin T PROVE FALSE
    OBVIOUS
  <2>1. \A y \in T : y <= x /\ y # x
    OBVIOUS
  <2>2. PICK y \in T : TRUE
    OBVIOUS
  <2>3. x - 1 \in Nat /\ \A z \in T : z <= x - 1
    BY <2>1, <2>2
  <2>4. x - 1 \in U
    BY <2>3
  <2> QED
    BY <1>1, <2>4
<1> QED
  BY <1>2

\* The function that recursion defines, and its values.
Recurses(g, D, b, F) == \A k \in D : g[k] = IF k = 0 THEN b ELSE F[<<g[k - 1], k>>]

THEOREM Recursion ==
    ASSUME NEW D, Initial(D), NEW S, NEW b \in S, NEW F \in [S \X (D \ {0}) -> S]
    PROVE  \E g \in [D -> S] : Recurses(g, D, b, F)
<1> DEFINE Upto(n) == {k \in D : k <= n}
           Approx(n, g) == /\ g \in [Upto(n) -> S]
                           /\ \A k \in Upto(n) : g[k] = IF k = 0 THEN b ELSE F[<<g[k - 1], k>>]
           A == {n \in D : \E g : Approx(n, g)}
           U == {k \in D : \A n, m \in D : \A g, h :
                    k <= n /\ k <= m /\ Approx(n, g) /\ Approx(m, h) => g[k] = h[k]}
<1>0. D \subseteq Nat
  BY DEF Initial
<1>1. D \subseteq A
  <2>1. 0 \in D => 0 \in A
    <3> SUFFICES ASSUME 0 \in D PROVE \E g : Approx(0, g)
      OBVIOUS
    <3>1. Upto(0) = {0}
      <4>1. \A k \in D : k <= 0 <=> k = 0
        BY <1>0
      <4> QED
        BY <4>1
    <3>2. Approx(0, [k \in {0} |-> b])
      BY <3>1
    <3> QED
      BY <3>2
  <2>2. ASSUME NEW n \in D, n # 0, n - 1 \in A PROVE n \in A
    <3>1. PICK g : Approx(n - 1, g)
      BY <2>2
    <3>2. n \in Nat /\ n - 1 \in D /\ n - 1 \in Nat
      BY <2>2, <1>0
    <3> DEFINE h == [k \in Upto(n) |-> IF k = n THEN F[<<g[n - 1], n>>] ELSE g[k]]
    <3>3. \A k \in Upto(n) : k # n => k \in Upto(n - 1)
      BY <3>2, <1>0
    <3>4. n - 1 \in Upto(n - 1) /\ g[n - 1] \in S /\ F[<<g[n - 1], n>>] \in S
      <4>1. n - 1 \in Upto(n - 1)
        BY <3>2
      <4>2. g[n - 1] \in S
        BY <4>1, <3>1
      <4>3. <<g[n - 1], n>> \in S \X (D \ {0})
        BY <4>2, <2>2
      <4> QED
        BY <4>1, <4>2, <4>3
    <3>5. h \in [Upto(n) -> S]
      BY <3>1, <3>3, <3>4
    <3>6. ASSUME NEW k \in Upto(n) PROVE h[k] = IF k = 0 THEN b ELSE F[<<h[k - 1], k>>]
      <4>1. CASE k = n
        <5>1. n - 1 \in Upto(n) /\ n - 1 # n
          BY <3>2
        <5>2. h[n - 1] = g[n - 1]
          BY <5>1
        <5>3. h[n] = F[<<g[n - 1], n>>]
          BY <4>1
        <5> QED
          BY <4>1, <5>2, <5>3, <2>2
      <4>2. CASE k # n
        <5>1. k \in Upto(n - 1) /\ h[k] = g[k]
          BY <4>2, <3>3
        <5>2. g[k] = IF k = 0 THEN b ELSE F[<<g[k - 1], k>>]
          BY <5>1, <3>1
        <5>3. k # 0 => k - 1 \in Upto(n) /\ k - 1 # n
          BY <5>1, <1>0, <3>2 DEF Initial
        <5>4. k # 0 => h[k - 1] = g[k - 1]
          BY <5>3
        <5> QED
          BY <5>1, <5>2, <5>4
      <4> QED
        BY <4>1, <4>2
    <3>7. Approx(n, h)
      BY <3>5, <3>6
    <3> QED
      BY <3>7
  <2> HIDE DEF A
  <2> QED
    BY <2>1, <2>2, SetInduction
<1>2. D \subseteq U
  <2>1. 0 \in D => 0 \in U
    <3> SUFFICES ASSUME 0 \in D, NEW n \in D, NEW m \in D, NEW g, NEW h,
                        Approx(n, g), Approx(m, h)
                 PROVE  g[0] = h[0]
      OBVIOUS
    <3>1. 0 \in Upto(n) /\ 0 \in Upto(m)
      BY <1>0
    <3>2. g[0] = b /\ h[0] = b
      BY <3>1
    <3> QED
      BY <3>2
  <2>2. ASSUME NEW k \in D, k # 0, k - 1 \in U PROVE k \in U
    <3> SUFFICES ASSUME NEW n \in D, NEW m \in D, NEW g, NEW h,
                        k <= n, k <= m, Approx(n, g), Approx(m, h)
                 PROVE  g[k] = h[k]
      OBVIOUS
    <3>1. k \in Upto(n) /\ k \in Upto(m)
      OBVIOUS
    <3>2. k - 1 <= n /\ k - 1 <= m
      BY <1>0, <2>2
    <3>3. g[k - 1] = h[k - 1]
      BY <2>2, <3>2
    <3>4. g[k] = F[<<g[k - 1], k>>] /\ h[k] = F[<<h[k - 1], k>>]
      BY <3>1, <2>2
    <3> QED
      BY <3>3, <3>4
  <2> HIDE DEF U
  <2> QED
    BY <2>1, <2>2, SetInduction
<1> DEFINE G(n) == CHOOSE g : Approx(n, g)
           f == [n \in D |-> G(n)[n]]
<1>3. \A n \in D : Approx(n, G(n))
  BY <1>1
<1>4. ASSUME NEW n \in D PROVE G(n)[n] \in S /\ n \in Upto(n)
  <2>1. n \in Upto(n)
    BY <1>0
  <2>2. Approx(n, G(n))
    BY <1>3
  <2> QED
    BY <2>1, <2>2
<1>5. f \in [D -> S]
  BY <1>4
<1>6. ASSUME NEW k \in D PROVE f[k] = IF k = 0 THEN b ELSE F[<<f[k - 1], k>>]
  <2>1. f[k] = G(k)[k] /\ k \in Upto(k)
    BY <1>4
  <2>2. Approx(k, G(k))
    BY <1>3
  <2> HIDE DEF G
  <2>3. G(k)[k] = IF k = 0 THEN b ELSE F[<<G(k)[k - 1], k>>]
    BY <2>1, <2>2
  <2>4. CASE k # 0
    <3>1. k - 1 \in D /\ k - 1 <= k /\ k - 1 <= k - 1 /\ k \in Nat
      BY <2>4, <1>0 DEF Initial
    <3>2. Approx(k - 1, G(k - 1))
      BY <1>3, <3>1
    <3>3. k - 1 \in U
      BY <1>2, <3>1
    <3>4. G(k)[k - 1] = G(k - 1)[k - 1]
      <4> HIDE DEF Approx
      <4>1. \A g, h : Approx(k, g) /\ Approx(k - 1, h) => g[k - 1] = h[k - 1]
        BY <3>1, <3>3
      <4> QED
        BY <4>1, <3>2, <2>2
    <3>5. f[k - 1] = G(k - 1)[k - 1]
      BY <3>1
    <3> QED
      BY <2>1, <2>3, <3>4, <3>5, <2>4
  <2> QED
    BY <2>1, <2>3, <2>4
<1> HIDE DEF f
<1>7. Recurses(f, D, b, F)
  BY <1>6 DEF Recurses
<1> QED
  BY <1>5, <1>7

----------------------------------------------------------------------------
(* Sums over finite sets.  FoldSet chooses the order of the elements and   *)
(* recurs over the subsets of the set it is given.                         *)

\* f[x] added up over the x of S.
Sum(f, S) == FoldSet(LAMBDA x, n : n + f[x], 0, S)

\* The recursion that defines the sum of f over the subsets of T.
IsSum(g, f, T) ==
    g = [s \in SUBSET T |-> IF s = {} THEN 0
                            ELSE LET x == CHOOSE y \in s : TRUE IN g[s \ {x}] + f[x]]

\* What FoldSet computes is a solution of the recursion.
LEMMA SumUnfolds ==
    ASSUME NEW f, NEW T
    PROVE  Sum(f, T) = (CHOOSE g : IsSum(g, f, T))[T]
BY DEF Sum, FoldSet, MapThenFoldSet, IsSum

\* What is so of the empty set and of a set whenever it is of one with an element less.
LEMMA SubsetInduction ==
    ASSUME NEW T, IsFiniteSet(T), NEW P, P \subseteq SUBSET T, {} \in P,
           \A s \in SUBSET T : s # {} /\ (\A x \in s : s \ {x} \in P) => s \in P
    PROVE  SUBSET T \subseteq P
<1> DEFINE D == 0 .. Cardinality(T)
           S == {k \in D : \A s \in SUBSET T : Cardinality(s) = k => s \in P}
<1>1. Cardinality(T) \in Nat /\ D \subseteq Nat /\ Initial(D) /\ 0 \in D
  BY FS_CardinalityType DEF Initial
<1>2. \A s \in SUBSET T : IsFiniteSet(s) /\ Cardinality(s) \in D
  BY <1>1, FS_Subset, FS_CardinalityType
<1>3. 0 \in S
  BY <1>1, <1>2, FS_EmptySet
<1>4. ASSUME NEW n \in D, n # 0, n - 1 \in S PROVE n \in S
  <2> SUFFICES ASSUME NEW s \in SUBSET T, Cardinality(s) = n PROVE s \in P
    OBVIOUS
  <2>1. s # {}
    BY <1>4, FS_EmptySet
  <2>2. ASSUME NEW x \in s PROVE s \ {x} \in P
    <3>1. Cardinality(s \ {x}) = n - 1 /\ s \ {x} \in SUBSET T
      BY <1>2, FS_RemoveElement
    <3> QED
      BY <3>1, <1>4
  <2> QED
    BY <2>1, <2>2
<1> HIDE DEF S, D
<1>5. D \subseteq S
  BY <1>1, <1>3, <1>4, SetInduction
<1> QED
  BY <1>2, <1>5 DEF S

\* There is one: cardinality by cardinality, each on the subsets of its size.
LEMMA SumExists ==
    ASSUME NEW T, IsFiniteSet(T), NEW f, \A x \in T : f[x] \in Int
    PROVE  \E g : IsSum(g, f, T)
<1> DEFINE D == 0 .. Cardinality(T)
           Some(s) == CHOOSE y \in s : TRUE
           U == [SUBSET T -> Int]
           Next(h, k) == [s \in SUBSET T |-> IF s # {} /\ Cardinality(s) = k
                                             THEN h[s \ {Some(s)}] + f[Some(s)] ELSE h[s]]
           F == [p \in U \X (D \ {0}) |-> Next(p[1], p[2])]
           b == [s \in SUBSET T |-> 0]
<1>1. Cardinality(T) \in Nat /\ D \subseteq Nat /\ Initial(D) /\ 0 \in D
  BY FS_CardinalityType DEF Initial
<1>2. \A s \in SUBSET T : IsFiniteSet(s) /\ Cardinality(s) \in D
  BY <1>1, FS_Subset, FS_CardinalityType
<1>3. \A s \in SUBSET T : s # {} => Some(s) \in s
  OBVIOUS
<1>4. \A s \in SUBSET T : s # {} => /\ s \ {Some(s)} \in SUBSET T
                                    /\ Cardinality(s \ {Some(s)}) = Cardinality(s) - 1
                                    /\ Cardinality(s) # 0
  BY <1>2, <1>3, FS_RemoveElement, FS_EmptySet
<1> HIDE DEF Some
<1>5. ASSUME NEW h \in U, NEW k PROVE Next(h, k) \in U
  <2> SUFFICES ASSUME NEW s \in SUBSET T
               PROVE (IF s # {} /\ Cardinality(s) = k
                      THEN h[s \ {Some(s)}] + f[Some(s)] ELSE h[s]) \in Int
    OBVIOUS
  <2> QED
    BY <1>3
<1>6. F \in [U \X (D \ {0}) -> U]
  <2> HIDE DEF Next, U
  <2> QED
    BY <1>5
<1>7. b \in U
  OBVIOUS
<1> HIDE DEF F
<1>8. PICK g \in [D -> U] : Recurses(g, D, b, F)
  <2> HIDE DEF U, D, b, Next
  <2> QED
    BY <1>1, <1>6, <1>7, Recursion
<1>9. ASSUME NEW k \in D, k # 0, NEW s \in SUBSET T, s # {}, Cardinality(s) = k
      PROVE  g[k][s] = g[k - 1][s \ {Some(s)}] + f[Some(s)]
  <2>1. k - 1 \in D
    BY <1>9, <1>1 DEF Initial
  <2>2. g[k] = F[<<g[k - 1], k>>]
    BY <1>8, <1>9 DEF Recurses
  <2>3. <<g[k - 1], k>> \in U \X (D \ {0})
    <3> HIDE DEF U, D
    <3> QED
      BY <2>1, <1>8, <1>9
  <2>4. F[<<g[k - 1], k>>] = Next(g[k - 1], k)
    <3> HIDE DEF U, D, Next
    <3> QED
      BY <2>3 DEF F
  <2> QED
    BY <2>2, <2>4, <1>9
<1> DEFINE G == [s \in SUBSET T |-> g[Cardinality(s)][s]]
<1>10. ASSUME NEW s \in SUBSET T, s # {}
       PROVE  G[s] = G[s \ {Some(s)}] + f[Some(s)]
  <2> DEFINE q == s \ {Some(s)} k == Cardinality(s)
  <2>1. k \in D /\ k # 0 /\ q \in SUBSET T /\ Cardinality(q) = k - 1
    BY <1>2, <1>4, <1>10
  <2>2. g[k][s] = g[k - 1][q] + f[Some(s)]
    BY <1>9, <1>10, <2>1
  <2>3. G[s] = g[k][s] /\ G[q] = g[k - 1][q]
    BY <2>1
  <2> QED
    BY <2>2, <2>3
<1>11. G[{}] = 0
  <2>1. Cardinality({}) = 0 /\ {} \in SUBSET T
    BY FS_EmptySet
  <2>2. g[0] = b
    BY <1>1, <1>8 DEF Recurses
  <2> QED
    BY <2>1, <2>2
<1>12. IsSum(G, f, T)
  <2> DEFINE H == [s \in SUBSET T |-> IF s = {} THEN 0 ELSE LET x == CHOOSE y \in s : TRUE IN G[s \ {x}] + f[x]]
  <2>1. \A s \in SUBSET T : G[s] = H[s]
    <3> HIDE DEF G
    <3> QED
      BY <1>10, <1>11 DEF Some
  <2>2. DOMAIN G = SUBSET T /\ DOMAIN H = SUBSET T /\ G = [s \in SUBSET T |-> G[s]] /\ H = [s \in SUBSET T |-> H[s]]
    OBVIOUS
  <2>3. G = H
    <3> HIDE DEF G, H
    <3> QED
      BY <2>1, <2>2
  <2> QED
    BY <2>3 DEF IsSum
<1> QED
  BY <1>12

\* On the subsets of both, the sums over two sets are the same function.
LEMMA SumUnique ==
    ASSUME NEW T, IsFiniteSet(T), NEW R, NEW f, NEW h, \A x \in T \cap R : f[x] = h[x],
           NEW g, NEW k, IsSum(g, f, T), IsSum(k, h, R)
    PROVE  \A s \in SUBSET (T \cap R) : g[s] = k[s]
<1> DEFINE P == {s \in SUBSET (T \cap R) : g[s] = k[s]}
           Some(s) == CHOOSE y \in s : TRUE
<1>1. \A s \in SUBSET T : g[s] = IF s = {} THEN 0 ELSE g[s \ {Some(s)}] + f[Some(s)]
  BY DEF IsSum
<1>2. \A s \in SUBSET R : k[s] = IF s = {} THEN 0 ELSE k[s \ {Some(s)}] + h[Some(s)]
  BY DEF IsSum
<1>3. \A s : s # {} => Some(s) \in s
  OBVIOUS
<1> HIDE DEF Some
<1>4. IsFiniteSet(T \cap R) /\ {} \in P
  BY <1>1, <1>2, FS_Subset
<1>5. ASSUME NEW s \in SUBSET (T \cap R), s # {}, \A x \in s : s \ {x} \in P
      PROVE  s \in P
  <2>1. Some(s) \in s /\ s \ {Some(s)} \in P
    BY <1>3, <1>5
  <2> QED
    BY <1>1, <1>2, <1>5, <2>1
<1>6. SUBSET (T \cap R) \subseteq P
  <2>1. P \subseteq SUBSET (T \cap R)
    OBVIOUS
  <2> HIDE DEF P
  <2> QED
    BY <1>4, <1>5, <2>1, SubsetInduction
<1> QED
  BY <1>6

\* A sum of integers is one.
LEMMA SumTyped ==
    ASSUME NEW T, IsFiniteSet(T), NEW f, \A x \in T : f[x] \in Int, NEW g, IsSum(g, f, T)
    PROVE  \A s \in SUBSET T : g[s] \in Int
<1> DEFINE P == {s \in SUBSET T : g[s] \in Int}
           Some(s) == CHOOSE y \in s : TRUE
<1>1. \A s \in SUBSET T : g[s] = IF s = {} THEN 0 ELSE g[s \ {Some(s)}] + f[Some(s)]
  BY DEF IsSum
<1>2. \A s : s # {} => Some(s) \in s
  OBVIOUS
<1> HIDE DEF Some
<1>3. g[{}] = 0
  BY <1>1
<1>4. P \subseteq SUBSET T /\ {} \in P
  BY <1>3
<1>5. ASSUME NEW s \in SUBSET T, s # {}, \A x \in s : s \ {x} \in P
      PROVE  s \in P
  <2>1. CASE s = {}
    BY <1>4, <2>1
  <2>2. CASE s # {}
    <3> DEFINE x == Some(s)
    <3>1. x \in s /\ g[s] = g[s \ {x}] + f[x]
      BY <1>1, <1>2, <2>2
    <3>2. s \ {x} \in P /\ f[x] \in Int
      BY <3>1, <1>5
    <3> HIDE DEF x
    <3> QED
      BY <3>1, <3>2
  <2> QED
    BY <2>1, <2>2
<1> HIDE DEF P
<1>6. SUBSET T \subseteq P
  BY <1>4, <1>5, SubsetInduction
<1> QED
  BY <1>6 DEF P

\* The order in which the elements are added does not matter.
LEMMA SumAnyOrder ==
    ASSUME NEW T, IsFiniteSet(T), NEW f, \A x \in T : f[x] \in Int, NEW g, IsSum(g, f, T)
    PROVE  \A s \in SUBSET T : \A y \in s : g[s] = g[s \ {y}] + f[y]
<1> DEFINE P == {s \in SUBSET T : \A y \in s : g[s] = g[s \ {y}] + f[y]}
           Some(s) == CHOOSE y \in s : TRUE
<1>1. \A s \in SUBSET T : s # {} => g[s] = g[s \ {Some(s)}] + f[Some(s)]
  BY DEF IsSum
<1>2. \A s : s # {} => Some(s) \in s
  OBVIOUS
<1>3. \A s \in SUBSET T : g[s] \in Int
  BY SumTyped
<1> HIDE DEF Some
<1>4. P \subseteq SUBSET T /\ {} \in P
  OBVIOUS
<1>5. ASSUME NEW s \in SUBSET T, s # {}, \A z \in s : s \ {z} \in P, NEW y \in s
      PROVE  g[s] = g[s \ {y}] + f[y]
  <2> DEFINE x == Some(s)
  <2>1. x \in s /\ s \ {x} \in P /\ g[s] = g[s \ {x}] + f[x]
    BY <1>1, <1>2, <1>5
  <2> HIDE DEF x
  <2>2. CASE y # x
    <3> DEFINE q == (s \ {x}) \ {y}
    <3>1. g[s \ {x}] = g[q] + f[y]
      BY <2>1, <2>2
    <3>2. s \ {y} \in P /\ x \in s \ {y} /\ (s \ {y}) \ {x} = q
      BY <2>1, <2>2, <1>5
    <3>3. g[s \ {y}] = g[q] + f[x]
      BY <3>2
    <3>4. g[q] \in Int /\ f[x] \in Int /\ f[y] \in Int
      BY <1>3, <2>1
    <3> QED
      BY ONLY <3>1, <3>3, <3>4, <2>1
  <2> QED
    BY <2>1, <2>2
<1>6. SUBSET T \subseteq P
  <2>1. ASSUME NEW s \in SUBSET T, s # {}, \A z \in s : s \ {z} \in P PROVE s \in P
    BY <1>5, <2>1
  <2> HIDE DEF P
  <2> QED
    BY <1>4, <2>1, SubsetInduction
<1> QED
  BY <1>6

----------------------------------------------------------------------------
\* The sum is the value at the whole set of a solution.
LEMMA SumIs ==
    ASSUME NEW T, IsFiniteSet(T), NEW f, \A x \in T : f[x] \in Int
    PROVE  \E g : IsSum(g, f, T) /\ Sum(f, T) = g[T]
BY SumExists, SumUnfolds

\* The sum over no elements is 0.
THEOREM SumOfNone == \A f : Sum(f, {}) = 0
<1> SUFFICES ASSUME NEW f PROVE Sum(f, {}) = 0
  OBVIOUS
<1>1. PICK g : IsSum(g, f, {}) /\ Sum(f, {}) = g[{}]
  BY SumIs, FS_EmptySet
<1> QED
  BY <1>1 DEF IsSum

\* A sum of integers is an integer.
THEOREM SumInt ==
    ASSUME NEW T, IsFiniteSet(T), NEW f, \A x \in T : f[x] \in Int
    PROVE  Sum(f, T) \in Int
BY SumIs, SumTyped

\* Functions that agree on the set have the same sum.
THEOREM SumSame ==
    ASSUME NEW T, IsFiniteSet(T), NEW f, NEW h, \A x \in T : f[x] \in Int /\ f[x] = h[x]
    PROVE  Sum(f, T) = Sum(h, T)
<1>1. PICK g : IsSum(g, f, T) /\ Sum(f, T) = g[T]
  BY SumIs
<1>2. PICK k : IsSum(k, h, T) /\ Sum(h, T) = k[T]
  BY SumIs
<1>3. \A s \in SUBSET (T \cap T) : g[s] = k[s]
  BY <1>1, <1>2, SumUnique
<1> QED
  BY <1>1, <1>2, <1>3

\* A sum is that of all but one element, whichever it is, and that element's value.
THEOREM SumAdds ==
    ASSUME NEW T, IsFiniteSet(T), NEW f, \A x \in T : f[x] \in Int, NEW y \in T
    PROVE  Sum(f, T) = Sum(f, T \ {y}) + f[y]
<1> DEFINE R == T \ {y}
<1>1. PICK g : IsSum(g, f, T) /\ Sum(f, T) = g[T]
  BY SumIs
<1>2. IsFiniteSet(R) /\ \A x \in R : f[x] \in Int
  BY FS_RemoveElement
<1>3. PICK k : IsSum(k, f, R) /\ Sum(f, R) = k[R]
  BY <1>2, SumIs
<1>4. g[T] = g[R] + f[y]
  BY <1>1, SumAnyOrder
<1>5. \A s \in SUBSET (T \cap R) : g[s] = k[s]
  BY <1>1, <1>3, SumUnique
<1> QED
  BY <1>1, <1>3, <1>4, <1>5

\* Sums are ordered as their terms are.
THEOREM SumOrdered ==
    ASSUME NEW T, IsFiniteSet(T), NEW f, NEW h,
           \A x \in T : f[x] \in Int /\ h[x] \in Int /\ f[x] <= h[x]
    PROVE  Sum(f, T) <= Sum(h, T)
<1> DEFINE P == {s \in SUBSET T : Sum(f, s) <= Sum(h, s)}
<1>1. {} \in P
  BY SumOfNone
<1>2. ASSUME NEW s \in SUBSET T, s # {}, \A x \in s : s \ {x} \in P PROVE s \in P
  <2>1. PICK x \in s : TRUE
    BY <1>2
  <2>2. IsFiniteSet(s) /\ IsFiniteSet(s \ {x})
    BY FS_Subset
  <2>3. Sum(f, s) = Sum(f, s \ {x}) + f[x] /\ Sum(h, s) = Sum(h, s \ {x}) + h[x]
    BY <2>2, SumAdds
  <2>4. Sum(f, s \ {x}) \in Int /\ Sum(h, s \ {x}) \in Int
    BY <2>2, SumInt
  <2>5. Sum(f, s \ {x}) <= Sum(h, s \ {x})
    BY <1>2
  <2> QED
    BY <2>3, <2>4, <2>5
<1>3. SUBSET T \subseteq P
  <2>1. P \subseteq SUBSET T
    OBVIOUS
  <2> HIDE DEF P
  <2> QED
    BY <1>1, <1>2, <2>1, SubsetInduction
<1> QED
  BY <1>3

\* A sum of numbers is not negative.
THEOREM SumNat ==
    ASSUME NEW T, IsFiniteSet(T), NEW f, \A x \in T : f[x] \in Nat
    PROVE  Sum(f, T) \in Nat
<1> DEFINE P == {s \in SUBSET T : Sum(f, s) \in Nat}
<1>1. {} \in P
  BY SumOfNone
<1>2. ASSUME NEW s \in SUBSET T, s # {}, \A x \in s : s \ {x} \in P PROVE s \in P
  <2>1. PICK x \in s : TRUE
    BY <1>2
  <2>2. IsFiniteSet(s) /\ \A y \in s : f[y] \in Int
    BY FS_Subset
  <2>3. Sum(f, s) = Sum(f, s \ {x}) + f[x]
    BY <2>2, SumAdds
  <2>4. Sum(f, s \ {x}) \in Nat /\ f[x] \in Nat
    BY <1>2
  <2> QED
    BY <2>3, <2>4
<1>3. SUBSET T \subseteq P
  <2>1. P \subseteq SUBSET T
    OBVIOUS
  <2> HIDE DEF P
  <2> QED
    BY <1>1, <1>2, <2>1, SubsetInduction
<1> QED
  BY <1>3

\* A sum of equal numbers is a product.
THEOREM SumEqual ==
    ASSUME NEW T, IsFiniteSet(T), NEW f, NEW c \in Int, \A x \in T : f[x] = c
    PROVE  Sum(f, T) = c * Cardinality(T)
<1> DEFINE P == {s \in SUBSET T : Sum(f, s) = c * Cardinality(s)}
<1>1. {} \in P
  <2>1. c * 0 = 0
    OBVIOUS
  <2> QED
    BY <2>1, SumOfNone, FS_EmptySet
<1>2. ASSUME NEW s \in SUBSET T, s # {}, \A x \in s : s \ {x} \in P PROVE s \in P
  <2>1. PICK x \in s : TRUE
    BY <1>2
  <2>2. IsFiniteSet(s) /\ \A y \in s : f[y] \in Int
    BY FS_Subset
  <2>3. Sum(f, s) = Sum(f, s \ {x}) + c
    BY <2>2, SumAdds
  <2> DEFINE n == Cardinality(s \ {x})
  <2>4. n \in Nat /\ Cardinality(s) = n + 1
    <3>1. Cardinality(s \ {x}) = Cardinality(s) - 1 /\ IsFiniteSet(s \ {x})
      BY <2>2, FS_RemoveElement
    <3> QED
      BY <3>1, <2>2, FS_CardinalityType
  <2>5. Sum(f, s \ {x}) = c * n
    BY <1>2
  <2>6. c * (n + 1) = c * n + c
    <3> HIDE DEF n
    <3> QED
      BY <2>4
  <2> QED
    BY <2>3, <2>4, <2>5, <2>6
<1>3. SUBSET T \subseteq P
  <2> HIDE DEF P
  <2>1. P \subseteq SUBSET T
    BY DEF P
  <2> QED
    BY <1>1, <1>2, <2>1, SubsetInduction
<1> QED
  BY <1>3

\* The sum over two disjoint sets.
THEOREM SumSplit ==
    ASSUME NEW S, NEW T, IsFiniteSet(S), IsFiniteSet(T), S \cap T = {},
           NEW f, \A x \in S \cup T : f[x] \in Int
    PROVE  Sum(f, S \cup T) = Sum(f, S) + Sum(f, T)
<1> DEFINE P == {s \in SUBSET T : Sum(f, S \cup s) = Sum(f, S) + Sum(f, s)}
<1>1. {} \in P
  <2>1. Sum(f, S) \in Int /\ S \cup {} = S
    BY SumInt
  <2> QED
    BY <2>1, SumOfNone
<1>2. ASSUME NEW s \in SUBSET T, s # {}, \A x \in s : s \ {x} \in P PROVE s \in P
  <2>1. PICK x \in s : TRUE
    BY <1>2
  <2>2. IsFiniteSet(s) /\ \A y \in s : f[y] \in Int
    BY FS_Subset
  <2>3. Sum(f, s) = Sum(f, s \ {x}) + f[x]
    BY <2>2, SumAdds
  <2> DEFINE U == S \cup s
  <2>4. IsFiniteSet(U) /\ (\A y \in U : f[y] \in Int) /\ x \in U
    BY <2>2, FS_Union
  <2>5. Sum(f, U) = Sum(f, U \ {x}) + f[x]
    <3> HIDE DEF U
    <3> QED
      BY <2>4, SumAdds
  <2>6. U \ {x} = S \cup (s \ {x})
    OBVIOUS
  <2>7. Sum(f, S \cup (s \ {x})) = Sum(f, S) + Sum(f, s \ {x})
    BY <1>2
  <2>8. Sum(f, S) \in Int /\ f[x] \in Int
    BY SumInt, <2>2
  <2>9. Sum(f, s \ {x}) \in Int
    <3>1. IsFiniteSet(s \ {x}) /\ \A y \in s \ {x} : f[y] \in Int
      BY <2>2, FS_Subset
    <3> QED
      BY <3>1, SumInt
  <2>10. Sum(f, U) = Sum(f, S) + Sum(f, s)
    <3> HIDE DEF U
    <3>1. Sum(f, U \ {x}) = Sum(f, S) + Sum(f, s \ {x})
      BY <2>6, <2>7, Zenon
    <3> QED
      BY <3>1, <2>3, <2>5, <2>8, <2>9
  <2> QED
    BY <2>10
<1>3. SUBSET T \subseteq P
  <2> HIDE DEF P
  <2>1. P \subseteq SUBSET T
    BY DEF P
  <2> QED
    BY <1>1, <1>2, <2>1, SubsetInduction
<1> QED
  BY <1>3

\* The elements may be renamed.
THEOREM SumRenamed ==
    ASSUME NEW T, IsFiniteSet(T), NEW c, \A x, y \in T : c[x] = c[y] => x = y,
           NEW f, NEW h, \A x \in T : h[x] \in Int /\ f[c[x]] = h[x]
    PROVE  Sum(f, {c[x] : x \in T}) = Sum(h, T)
<1> DEFINE Image(s) == {c[x] : x \in s}
           P == {s \in SUBSET T : IsFiniteSet(Image(s)) /\ Sum(f, Image(s)) = Sum(h, s)}
<1>1. {} \in P
  <2>1. Image({}) = {}
    OBVIOUS
  <2> QED
    BY <2>1, SumOfNone, FS_EmptySet
<1>2. ASSUME NEW s \in SUBSET T, s # {}, \A x \in s : s \ {x} \in P PROVE s \in P
  <2>1. PICK x \in s : TRUE
    BY <1>2
  <2>2. IsFiniteSet(s) /\ \A y \in s : h[y] \in Int
    BY FS_Subset
  <2>3. Sum(h, s) = Sum(h, s \ {x}) + h[x]
    BY <2>2, SumAdds
  <2>4. Image(s) \ {c[x]} = Image(s \ {x})
    <3>1. \A y \in s : y # x => c[y] # c[x]
      OBVIOUS
    <3> QED
      BY <3>1
  <2>5. Image(s) = Image(s \ {x}) \cup {c[x]}
    OBVIOUS
  <2>6. IsFiniteSet(Image(s \ {x})) /\ Sum(f, Image(s \ {x})) = Sum(h, s \ {x})
    BY <1>2
  <2> HIDE DEF Image
  <2>7. IsFiniteSet(Image(s))
    <3>1. IsFiniteSet(Image(s \ {x}) \cup {c[x]})
      BY <2>6, FS_AddElement
    <3> QED
      BY <3>1, <2>5
  <2>8. c[x] \in Image(s) /\ \A z \in Image(s) : f[z] \in Int
    BY <2>2 DEF Image
  <2>9. Sum(f, Image(s)) = Sum(f, Image(s) \ {c[x]}) + f[c[x]]
    BY <2>7, <2>8, SumAdds
  <2> QED
    BY <2>3, <2>4, <2>6, <2>7, <2>9
<1>3. SUBSET T \subseteq P
  <2> HIDE DEF P
  <2>1. P \subseteq SUBSET T
    BY DEF P
  <2> QED
    BY <1>1, <1>2, <2>1, SubsetInduction
<1> QED
  BY <1>3

\* A sum may be taken group by group: g[x] names the group of x.
THEOREM SumGrouped ==
    ASSUME NEW T, IsFiniteSet(T), NEW S, IsFiniteSet(S), NEW g, \A x \in T : g[x] \in S,
           NEW f, \A x \in T : f[x] \in Int,
           NEW h, \A s \in S : h[s] = Sum(f, {x \in T : g[x] = s})
    PROVE  Sum(f, T) = Sum(h, S)
<1> DEFINE Part(u) == {x \in T : g[x] \in u}
           P == {u \in SUBSET S : Sum(f, Part(u)) = Sum(h, u)}
<1>1. {} \in P
  <2>1. Part({}) = {}
    OBVIOUS
  <2> QED
    BY <2>1, SumOfNone
<1>0. \A s \in S : h[s] \in Int
  <2> SUFFICES ASSUME NEW s \in S PROVE h[s] \in Int
    OBVIOUS
  <2> DEFINE Group == {x \in T : g[x] = s}
  <2>1. IsFiniteSet(Group) /\ \A x \in Group : f[x] \in Int
    BY FS_Subset
  <2>2. Sum(f, Group) \in Int
    <3> HIDE DEF Group
    <3> QED
      BY <2>1, SumInt
  <2> QED
    BY <2>2
<1>2. ASSUME NEW u \in SUBSET S, u # {}, \A s \in u : u \ {s} \in P PROVE u \in P
  <2>1. PICK s \in u : TRUE
    BY <1>2
  <2>2. IsFiniteSet(u) /\ \A y \in u : h[y] \in Int
    BY FS_Subset, <1>0
  <2>3. Sum(h, u) = Sum(h, u \ {s}) + h[s]
    BY <2>2, SumAdds
  <2> DEFINE A == Part(u \ {s})
             B == {x \in T : g[x] = s}
  <2>4. Part(u) = A \cup B /\ A \cap B = {}
    OBVIOUS
  <2>5. A \subseteq T /\ B \subseteq T
    OBVIOUS
  <2>6. IsFiniteSet(A) /\ IsFiniteSet(B)
    <3> HIDE DEF A, B
    <3> QED
      BY <2>5, FS_Subset
  <2>7. Sum(f, A \cup B) = Sum(f, A) + Sum(f, B)
    <3>1. \A x \in A \cup B : f[x] \in Int
      BY <2>5
    <3> HIDE DEF A, B
    <3> QED
      BY <3>1, <2>4, <2>6, SumSplit
  <2>8. Sum(f, A) = Sum(h, u \ {s})
    BY <1>2
  <2>9. Sum(f, B) = h[s]
    OBVIOUS
  <2>10. Sum(f, Part(u)) = Sum(h, u)
    <3> HIDE DEF A, B, Part
    <3> QED
      BY <2>3, <2>4, <2>7, <2>8, <2>9
  <2> QED
    BY <2>10
<1>3. SUBSET S \subseteq P
  <2> HIDE DEF P
  <2>1. P \subseteq SUBSET S
    BY DEF P
  <2> QED
    BY <1>1, <1>2, <2>1, SubsetInduction
<1>4. Part(S) = T
  OBVIOUS
<1> QED
  BY <1>3, <1>4
=============================================================================
