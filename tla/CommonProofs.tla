---------------------------- MODULE CommonProofs ----------------------------
(***************************************************************************)
(* Facts that the proofs of several modules need: about natural numbers    *)
(* (induction, division, powers of two), recursive functions, sequences,   *)
(* and the sums of lookups.                                                *)
(***************************************************************************)
EXTENDS Relations, FiniteSetTheorems, SequenceTheorems, WellFoundedInduction, TLAPS

-----------------------------------------------------------------------------
(* Induction over the naturals, for sets instead of predicates             *)

LEMMA LeastNatural ==
  ASSUME NEW S \in SUBSET Nat, S # {}
  PROVE  \E m \in S : \A n \in S : m <= n
<1> DEFINE R == OpToRel(<, Nat)
<1>1. IsWellFoundedOn(R, Nat)
  BY NatLessThanWellFounded
<1>2. \A x, y \in Nat : x < y => <<x, y>> \in R
  BY DEF OpToRel
<1> HIDE DEF R
<1>3. PICK m \in S : \A n \in S : ~ (<<n, m>> \in R)
  BY <1>1, WFMin
<1>4. ASSUME NEW n \in S PROVE m <= n
  <2>1. m \in Nat /\ n \in Nat
    OBVIOUS
  <2>2. ~ (n < m)
    BY <1>2, <1>3, <2>1
  <2>3. QED
    BY <2>1, <2>2
<1>5. QED
  BY <1>4

(* Induction over an interval, for the members of a set.                   *)
LEMMA UpTo ==
  ASSUME NEW n \in Nat, NEW T, 0 \in T, \A i \in Nat : i < n /\ i \in T => i + 1 \in T
  PROVE  \A i \in 0 .. n : i \in T
<1> DEFINE S == {i \in Nat : i <= n /\ i \notin T}
<1> SUFFICES ASSUME S # {} PROVE FALSE
  OBVIOUS
<1>1. PICK m \in S : \A i \in S : m <= i
  BY LeastNatural
<1>2. m \in Nat /\ m <= n /\ m \notin T /\ m # 0
  OBVIOUS
<1>3. m - 1 \in Nat /\ m - 1 < n /\ ~ (m <= m - 1) /\ (m - 1) + 1 = m
  BY <1>2
<1>4. m - 1 \in T
  BY <1>1, <1>3
<1>5. QED
  BY <1>2, <1>3, <1>4

-----------------------------------------------------------------------------
(* Powers of two.  The provers know nothing of ^ but what the library says *)
(* of it: 2^n is the number of subsets of a set of n elements.             *)

LEMMA PowerIsSubsets ==
  ASSUME NEW n \in Nat
  PROVE  /\ IsFiniteSet(SUBSET (1 .. n)) /\ 2^n = Cardinality(SUBSET (1 .. n))
         /\ 2^n \in Nat
<1>1. IsFiniteSet(1 .. n) /\ Cardinality(1 .. n) = n
  BY FS_Interval
<1>2. IsFiniteSet(SUBSET (1 .. n)) /\ 2^n = Cardinality(SUBSET (1 .. n))
  BY <1>1, FS_SUBSET
<1>3. QED
  BY <1>2, FS_CardinalityType

LEMMA PowerZero == 2^0 = 1
OBVIOUS

(* The subsets of 1 .. n + 1 without n + 1, and as many with it.           *)
LEMMA PowerDouble ==
  ASSUME NEW n \in Nat
  PROVE  2^(n + 1) = 2 * 2^n
<1> DEFINE A == SUBSET (1 .. n)
           B == {X \in SUBSET (1 .. n + 1) : n + 1 \in X}
           f == [X \in A |-> X \cup {n + 1}]
<1>1. IsFiniteSet(A) /\ 2^n = Cardinality(A) /\ 2^n \in Nat
  BY PowerIsSubsets
<1>2. SUBSET (1 .. n + 1) = A \cup B /\ A \cap B = {}
  <2>1. 1 .. n + 1 = (1 .. n) \cup {n + 1} /\ n + 1 \notin 1 .. n
    OBVIOUS
  <2>2. QED
    BY <2>1
<1>3. f \in Bijection(A, B)
  <2>1. 1 .. n + 1 = (1 .. n) \cup {n + 1} /\ n + 1 \notin 1 .. n
    OBVIOUS
  <2>2. f \in [A -> B]
    BY <2>1
  <2>3. \A X, Y \in A : X \cup {n + 1} = Y \cup {n + 1} => X = Y
    BY <2>1
  <2>4. \A Y \in B : Y \ {n + 1} \in A /\ (Y \ {n + 1}) \cup {n + 1} = Y
    BY <2>1
  <2>5. \A X \in A : f[X] = X \cup {n + 1}
    OBVIOUS
  <2> HIDE DEF f, A, B
  <2>6. f \in Injection(A, B)
    BY <2>2, <2>3, <2>5 DEF Injection, IsInjective
  <2>7. \A Y \in B : \E X \in A : f[X] = Y
    BY <2>4, <2>5
  <2>8. f \in Surjection(A, B)
    BY <2>2, <2>7 DEF Surjection
  <2>9. QED
    BY <2>6, <2>8 DEF Bijection
<1>4. IsFiniteSet(B) /\ Cardinality(B) = Cardinality(A)
  <2> HIDE DEF f, A, B
  <2>1. ExistsBijection(A, B)
    BY <1>3 DEF ExistsBijection
  <2>2. QED
    BY <1>1, <2>1, FS_Bijection
<1>5. 2^(n + 1) = Cardinality(A \cup B)
  <2>1. n + 1 \in Nat
    OBVIOUS
  <2>2. 2^(n + 1) = Cardinality(SUBSET (1 .. n + 1))
    BY <2>1, PowerIsSubsets
  <2>3. QED
    BY <1>2, <2>2
<1> HIDE DEF f, A, B
<1>6. Cardinality(A \cup B) = Cardinality(A) + Cardinality(B) - Cardinality(A \cap B)
  BY <1>1, <1>4, FS_Union
<1>7. Cardinality(A \cap B) = 0
  BY <1>2, FS_EmptySet
<1>8. QED
  BY <1>1, <1>4, <1>5, <1>6, <1>7

LEMMA PowerPositive ==
  ASSUME NEW n \in Nat
  PROVE  2^n \in Nat /\ n < 2^n
<1> DEFINE T == {i \in Nat : 2^i \in Nat /\ i < 2^i}
<1>1. 0 \in T
  BY PowerZero
<1>2. \A i \in Nat : i < n /\ i \in T => i + 1 \in T
  BY PowerDouble
<1> HIDE DEF T
<1>3. \A i \in 0 .. n : i \in T
  BY <1>1, <1>2, UpTo
<1>4. n \in 0 .. n
  OBVIOUS
<1>5. n \in T
  BY <1>3, <1>4
<1>6. QED
  BY <1>5 DEF T

LEMMA PowerMonotonic ==
  ASSUME NEW k \in Nat, NEW m \in Nat, k < m
  PROVE  2^k < 2^m
<1> DEFINE T == {i \in Nat : 2^k < 2^(k + 1 + i)}
<1>1. 2^k \in Nat \ {0} /\ 2^(k + 1) = 2 * 2^k
  BY PowerPositive, PowerDouble
<1>2. 0 \in T
  BY <1>1
<1>3. ASSUME NEW i \in Nat, i \in T PROVE i + 1 \in T
  <2>1. k + 1 + i \in Nat /\ k + 1 + (i + 1) = (k + 1 + i) + 1
    OBVIOUS
  <2>2. 2^((k + 1 + i) + 1) = 2 * 2^(k + 1 + i) /\ 2^(k + 1 + i) \in Nat
    BY <2>1, PowerDouble, PowerPositive
  <2>3. 2^k < 2^(k + 1 + (i + 1))
    BY <1>1, <1>3, <2>1, <2>2
  <2>4. QED
    BY <2>3
<1> DEFINE d == m - (k + 1)
<1>4. d \in Nat /\ k + 1 + d = m
  OBVIOUS
<1> HIDE DEF T, d
<1>5. \A i \in 0 .. d : i \in T
  BY <1>2, <1>3, <1>4, UpTo
<1>6. d \in T
  BY <1>4, <1>5
<1>7. QED
  BY <1>4, <1>6 DEF T

-----------------------------------------------------------------------------
(* Division                                                                *)

(* Numbers are determined by their limbs, from the top one down.           *)
LEMMA QuotientUnique ==
  ASSUME NEW d \in Nat \ {0}, NEW q \in Int, NEW r \in 0 .. d - 1, NEW p \in Int, NEW s \in 0 .. d - 1,
         d * q + r = d * p + s
  PROVE  q = p /\ r = s
OBVIOUS

LEMMA Division ==
  ASSUME NEW d \in Nat \ {0}, NEW n \in Int
  PROVE  /\ n \div d \in Int /\ n % d \in 0 .. d - 1 /\ n = d * (n \div d) + (n % d)
         /\ n \in Nat => n \div d \in Nat
OBVIOUS

LEMMA DivisionIs ==
  ASSUME NEW d \in Nat \ {0}, NEW q \in Int, NEW r \in 0 .. d - 1
  PROVE  (d * q + r) \div d = q /\ (d * q + r) % d = r
OBVIOUS

-----------------------------------------------------------------------------
(* Sequences cell by cell                                                  *)

(* The n cells of f behind the first k are those of g.                     *)
Agree(f, k, g, n) == \A i \in 1 .. n : f[k + i] = g[i]

LEMMA AgreeWithin ==
  ASSUME NEW f, NEW g, NEW h, NEW k \in Nat, NEW m \in Nat, NEW n \in Nat, k + m <= n,
         Agree(f, 0, g, n), Agree(g, k, h, m)
  PROVE  Agree(f, k, h, m)
<1>1. ASSUME NEW i \in 1 .. m PROVE f[k + i] = h[i]
  <2>1. k + i \in 1 .. n /\ 0 + (k + i) = k + i
    OBVIOUS
  <2>2. f[k + i] = g[k + i]
    BY <2>1 DEF Agree
  <2>3. QED
    BY <2>2 DEF Agree
<1>2. QED
  BY <1>1 DEF Agree

(* A prefix of f that is two parts one after the other.                    *)
LEMMA AgreeInParts ==
  ASSUME NEW f, NEW g, NEW n, Agree(f, 0, g, n),
         NEW a, NEW m \in Nat, Agree(g, 0, a, m), NEW b, NEW k \in Nat, Agree(g, m, b, k),
         n = m + k
  PROVE  Agree(f, 0, a, m) /\ Agree(f, m, b, k)
<1>1. n \in Nat /\ 0 + m <= n /\ m + k <= n
  OBVIOUS
<1>2. Agree(f, 0, a, m)
  BY <1>1, AgreeWithin
<1>3. Agree(f, m, b, k)
  BY <1>1, AgreeWithin
<1>4. QED
  BY <1>2, <1>3

(* The cells of two sequences, one after the other.                        *)
Joined(S, r, a, b) ==
  /\ r \in Seq(S) /\ Len(r) = Len(a) + Len(b)
  /\ Agree(r, 0, a, Len(a)) /\ Agree(r, Len(a), b, Len(b))

LEMMA TwoParts ==
  ASSUME NEW S, NEW a \in Seq(S), NEW b \in Seq(S)
  PROVE  Joined(S, a \o b, a, b)
<1>1. /\ a \o b \in Seq(S) /\ Len(a \o b) = Len(a) + Len(b)
      /\ \A i \in 1 .. Len(a) + Len(b) :
           (a \o b)[i] = IF i <= Len(a) THEN a[i] ELSE b[i - Len(a)]
  BY ConcatProperties
<1>2. Len(a) \in Nat /\ Len(b) \in Nat
  OBVIOUS
<1>3. ASSUME NEW i \in 1 .. Len(a) PROVE (a \o b)[0 + i] = a[i]
  <2>1. 0 + i = i /\ i \in 1 .. Len(a) + Len(b) /\ i <= Len(a)
    BY <1>2
  <2>2. QED
    BY <1>1, <2>1
<1>4. ASSUME NEW i \in 1 .. Len(b) PROVE (a \o b)[Len(a) + i] = b[i]
  <2>1. /\ Len(a) + i \in 1 .. Len(a) + Len(b)
        /\ ~ (Len(a) + i <= Len(a)) /\ (Len(a) + i) - Len(a) = i
    BY <1>2
  <2>2. QED
    BY <1>1, <2>1
<1>5. QED
  BY <1>1, <1>3, <1>4 DEF Joined, Agree

LEMMA OwnCells ==
  ASSUME NEW S, NEW row \in Seq(S)
  PROVE  row \in Seq({row[i] : i \in 1 .. Len(row)})
<1> DEFINE T == {row[i] : i \in 1 .. Len(row)}
<1>1. row \in [1 .. Len(row) -> S] /\ Len(row) \in Nat
  OBVIOUS
<1>2. \A i \in 1 .. Len(row) : row[i] \in T
  OBVIOUS
<1> HIDE DEF T
<1>3. row \in [1 .. Len(row) -> T]
  BY <1>1, <1>2
<1>4. row \in Seq(T)
  BY <1>1, <1>3
<1>5. QED
  BY <1>4 DEF T

(* A cell of a sequence.                                                   *)
LEMMA CellsOf ==
  ASSUME NEW S, NEW s \in Seq(S), NEW i \in 1 .. Len(s)
  PROVE  s[i] \in S
OBVIOUS

LEMMA Cut ==
  ASSUME NEW S, NEW f \in Seq(S), NEW k \in Nat, NEW n \in Nat, k + n <= Len(f),
         NEW D, NEW g \in [1 .. n -> D], Agree(f, k, g, n)
  PROVE  SubSeq(f, k + 1, k + n) = g
<1> DEFINE s == SubSeq(f, k + 1, k + n)
<1>1. k + 1 \in 1 .. Len(f) + 1 /\ k + n \in k .. Len(f) /\ (k + n) - (k + 1) + 1 = n
  OBVIOUS
<1>2. /\ s \in Seq(S) /\ Len(s) = n
      /\ \A i \in 1 .. n : s[i] = f[(k + 1) + i - 1]
  <2>1. CASE n = 0
    <3>1. s = << >>
      BY <2>1
    <3>2. QED
      BY <2>1, <3>1
  <2>2. CASE n # 0
    BY <2>2
  <2>3. QED
    BY <2>1, <2>2
<1> HIDE DEF s
<1>3. \A i \in 1 .. n : s[i] = g[i]
  <2>1. \A i \in 1 .. n : (k + 1) + i - 1 = k + i
    OBVIOUS
  <2>2. QED
    BY <1>2, <2>1 DEF Agree
<1>4. s \in [1 .. n -> S]
  BY <1>2
<1>5. s = g
  BY <1>3, <1>4
<1>6. QED
  BY <1>5 DEF s

(* s is the n cells of f after the k first.                                *)
IsCut(s, S, f, k, n) ==
  f \in Seq(S) /\ k \in Nat /\ n \in Nat /\ k + n <= Len(f) /\ s = SubSeq(f, k + 1, k + n)

(* A cut is a sequence of the cells it takes.                              *)
LEMMA CutIs ==
  ASSUME NEW s, NEW S, NEW f, NEW k, NEW n, IsCut(s, S, f, k, n)
  PROVE  s \in Seq(S) /\ Len(s) = n /\ Agree(f, k, s, n)
<1> DEFINE g == [j \in 1 .. n |-> f[k + j]]
<1>1. f \in Seq(S) /\ k \in Nat /\ n \in Nat /\ k + n <= Len(f) /\ s = SubSeq(f, k + 1, k + n)
  BY DEF IsCut
<1> HIDE DEF g
<1>2. \A j \in 1 .. n : k + j \in 1 .. Len(f)
  BY <1>1
<1>3. \A j \in 1 .. n : f[k + j] \in S
  BY <1>1, <1>2, CellsOf
<1>4. g \in [1 .. n -> S] /\ \A j \in 1 .. n : g[j] = f[k + j]
  BY <1>3 DEF g
<1>5. Agree(f, k, g, n)
  BY <1>4 DEF Agree
<1>6. SubSeq(f, k + 1, k + n) = g
  BY <1>1, <1>4, <1>5, Cut
<1>7. g \in Seq(S) /\ Len(g) = n
  BY <1>1, <1>4
<1>8. QED
  BY <1>1, <1>5, <1>6, <1>7

(* Five parts one after the other.                                         *)
LEMMA FiveParts ==
  ASSUME NEW S, NEW a \in Seq(S), NEW b \in Seq(S), NEW c \in Seq(S), NEW d \in Seq(S), NEW e \in Seq(S)
  PROVE  LET r == a \o b \o c \o d \o e
             l == Len(a)  m == Len(b)  n == Len(c)  o == Len(d)  p == Len(e)
         IN
         /\ r \in Seq(S) /\ Len(r) = l + m + n + o + p
         /\ Agree(r, 0, a, l) /\ Agree(r, l, b, m) /\ Agree(r, l + m, c, n)
         /\ Agree(r, l + m + n, d, o) /\ Agree(r, l + m + n + o, e, p)
<1> DEFINE l == Len(a)
           m == Len(b)
           n == Len(c)
           o == Len(d)
           p == Len(e)
           r2 == a \o b
           r3 == r2 \o c
           r4 == r3 \o d
           r5 == r4 \o e
<1>1. l \in Nat /\ m \in Nat /\ n \in Nat /\ o \in Nat /\ p \in Nat
  OBVIOUS
<1> HIDE DEF r2, r3, r4, r5
<1>2. r2 \in Seq(S) /\ Len(r2) = l + m /\ Agree(r2, 0, a, l) /\ Agree(r2, l, b, m)
  <2>1. Joined(S, r2, a, b)
    BY TwoParts DEF r2
  <2>2. QED
    BY <2>1 DEF Joined
<1>3. r3 \in Seq(S) /\ Len(r3) = l + m + n /\ Agree(r3, 0, r2, l + m) /\ Agree(r3, l + m, c, n)
  <2>1. Joined(S, r3, r2, c)
    BY <1>2, TwoParts DEF r3
  <2>2. QED
    BY <1>2, <2>1 DEF Joined
<1>4. /\ r4 \in Seq(S) /\ Len(r4) = l + m + n + o /\ Agree(r4, 0, r3, l + m + n)
      /\ Agree(r4, l + m + n, d, o)
  <2>1. Joined(S, r4, r3, d)
    BY <1>3, TwoParts DEF r4
  <2>2. QED
    BY <1>3, <2>1 DEF Joined
<1>5. /\ r5 \in Seq(S) /\ Len(r5) = l + m + n + o + p /\ Agree(r5, 0, r4, l + m + n + o)
      /\ Agree(r5, l + m + n + o, e, p)
  <2>1. Joined(S, r5, r4, e)
    BY <1>4, TwoParts DEF r5
  <2>2. QED
    BY <1>4, <2>1 DEF Joined
<1>6. Agree(r5, 0, r3, l + m + n) /\ Agree(r5, l + m + n, d, o)
  <2>1. l + m + n \in Nat
    BY <1>1
  <2>2. QED
    BY <1>1, <1>4, <1>5, <2>1, AgreeInParts
<1>7. Agree(r5, 0, r2, l + m) /\ Agree(r5, l + m, c, n)
  <2>1. l + m \in Nat
    BY <1>1
  <2>2. QED
    BY <1>1, <1>3, <1>6, <2>1, AgreeInParts
<1>8. Agree(r5, 0, a, l) /\ Agree(r5, l, b, m)
  BY <1>1, <1>2, <1>7, AgreeInParts
<1>9. QED
  BY <1>5, <1>6, <1>7, <1>8 DEF r5, r4, r3, r2

(* Two parts next to each other, put together.                             *)
LEMMA AdjacentParts ==
  ASSUME NEW S, NEW f \in Seq(S), NEW m \in Nat, NEW n \in Nat, m <= n, n <= Len(f)
  PROVE  SubSeq(f, 1, m) \o SubSeq(f, m + 1, n) = SubSeq(f, 1, n)
<1>1. 1 \in 1 .. Len(f) + 1 /\ m \in 1 - 1 .. Len(f) /\ n \in m .. Len(f)
  OBVIOUS
<1>2. QED
  BY <1>1, ConcatAdjacentSubSeq

(* The first n cells of a sequence.                                        *)
LEMMA Beginning ==
  ASSUME NEW f \in Seq(Int), NEW n \in Nat, n <= Len(f)
  PROVE  SubSeq(f, 1, n) \in Seq(Int) /\ Len(SubSeq(f, 1, n)) = n
<1>1. \A i \in 1 .. n : f[i] \in Int
  OBVIOUS
<1>2. /\ SubSeq(f, 1, n) \in Seq(Int)
      /\ Len(SubSeq(f, 1, n)) = IF 1 <= n THEN n - 1 + 1 ELSE 0
  BY <1>1, SubSeqProperties
<1>3. QED
  BY <1>2

-----------------------------------------------------------------------------
(* Functions defined by recursion                                          *)

(* f goes from start to f[n], one step after the other.                    *)
Runs(f, n, S, start, step) ==
  /\ f \in [0 .. n -> S]
  /\ f[0] = start
  /\ \A i \in 1 .. n : f[i] = step[i][f[i - 1]]

(* A function that is defined by recursion over 0 .. n exists.             *)
LEMMA Recursion ==
  ASSUME NEW n \in Nat, NEW S, NEW start \in S, NEW step,
         \A i \in 1 .. n : \A s \in S : step[i][s] \in S
  PROVE  \E f : Runs(f, n, S, start, step)
<1> DEFINE T == {k \in 0 .. n : \E f : Runs(f, k, S, start, step)}
<1>1. 0 \in T
  <2>1. Runs([i \in 0 .. 0 |-> start], 0, S, start, step)
    BY DEF Runs
  <2>2. QED
    BY <2>1
<1>2. ASSUME NEW k \in Nat, k < n, k \in T PROVE k + 1 \in T
  <2>1. PICK f : Runs(f, k, S, start, step)
    BY <1>2
  <2> DEFINE g == [i \in 0 .. k + 1 |-> IF i = k + 1 THEN step[k + 1][f[k]] ELSE f[i]]
  <2>2. k + 1 \in 1 .. n /\ k + 1 \in 0 .. n /\ k \in 0 .. k
    BY <1>2
  <2>3. f \in [0 .. k -> S] /\ f[k] \in S
    BY <2>1, <2>2 DEF Runs
  <2>4. g \in [0 .. k + 1 -> S]
    <3>1. step[k + 1][f[k]] \in S
      BY <2>2, <2>3
    <3>2. \A i \in 0 .. k + 1 : i # k + 1 => i \in 0 .. k
      OBVIOUS
    <3>3. QED
      BY <2>3, <3>1, <3>2
  <2>5. g[k + 1] = step[k + 1][f[k]] /\ \A i \in 0 .. k : g[i] = f[i]
    OBVIOUS
  <2> HIDE DEF g
  <2>6. ASSUME NEW i \in 1 .. k + 1 PROVE g[i] = step[i][g[i - 1]]
    <3>1. CASE i = k + 1
      <4>1. i - 1 = k
        BY <3>1
      <4>2. QED
        BY <2>2, <2>5, <3>1, <4>1
    <3>2. CASE i # k + 1
      <4>1. i \in 1 .. k /\ i \in 0 .. k /\ i - 1 \in 0 .. k
        BY <3>2
      <4>2. QED
        BY <2>1, <2>5, <4>1 DEF Runs
    <3>3. QED
      BY <3>1, <3>2
  <2>7. g[0] = start
    BY <2>1, <2>5 DEF Runs
  <2>8. Runs(g, k + 1, S, start, step)
    BY <2>4, <2>6, <2>7 DEF Runs
  <2>9. QED
    BY <2>2, <2>8
<1> HIDE DEF T
<1>3. \A k \in 0 .. n : k \in T
  BY <1>1, <1>2, UpTo
<1>4. n \in 0 .. n
  OBVIOUS
<1>5. n \in T
  BY <1>3, <1>4
<1>6. PICK f : Runs(f, n, S, start, step)
  BY <1>5 DEF T
<1>7. QED
  BY <1>6

(* Such a function stays in S, if each step does.                          *)
LEMMA RecursionRuns ==
  ASSUME NEW n \in Nat, NEW S, NEW start \in S, NEW step,
         \A i \in 1 .. n : \A s \in S : step[i][s] \in S,
         NEW f, f = [i \in 0 .. n |-> f[i]], f[0] = start,
         \A i \in 1 .. n : f[i - 1] \in S => f[i] = step[i][f[i - 1]]
  PROVE  Runs(f, n, S, start, step)
<1> DEFINE T == {i \in 0 .. n : f[i] \in S}
<1>1. f[0] = start /\ \A i \in 1 .. n : f[i - 1] \in S => f[i] = step[i][f[i - 1]]
  OBVIOUS
<1>2. 0 \in T
  BY <1>1
<1>3. ASSUME NEW i \in Nat, i < n, i \in T PROVE i + 1 \in T
  <2>1. i + 1 \in 1 .. n /\ i + 1 \in 0 .. n /\ (i + 1) - 1 = i
    BY <1>3
  <2>2. QED
    BY <1>1, <1>3, <2>1
<1> HIDE DEF T
<1>4. \A i \in 0 .. n : i \in T
  BY <1>2, <1>3, UpTo
<1>5. \A i \in 0 .. n : f[i] \in S
  BY <1>4 DEF T
<1>6. f \in [0 .. n -> S]
  BY <1>5
<1>7. \A i \in 1 .. n : i - 1 \in 0 .. n
  OBVIOUS
<1>8. QED
  BY <1>1, <1>5, <1>6, <1>7 DEF Runs

(* Functions that keep what they have gone through.                        *)
Trail(f, n, S, start, step) ==
  /\ f[0] = <<start>>
  /\ \A k \in 0 .. n : f[k] \in Seq(S) /\ Len(f[k]) = k + 1
  /\ \A k \in 1 .. n : f[k] = Append(f[k - 1], step[k][f[k - 1][k]])

(* A sequence with one cell more.                                          *)
LEMMA Grows ==
  ASSUME NEW S, NEW s \in Seq(S), NEW k \in Nat, Len(s) = k, NEW x \in S
  PROVE  /\ Append(s, x) \in Seq(S) /\ Len(Append(s, x)) = k + 1 /\ Append(s, x)[k + 1] = x
         /\ \A j \in 1 .. k : Append(s, x)[j] = s[j]
OBVIOUS

(* A function that is defined this way is a trail.                         *)
LEMMA TrailRuns ==
  ASSUME NEW n \in Nat, NEW S, NEW start \in S, NEW step,
         \A k \in 1 .. n : \A s \in S : step[k][s] \in S,
         NEW f, f[0] = <<start>>,
         \A k \in 1 .. n : f[k - 1] \in Seq(S) /\ Len(f[k - 1]) = k
                             => f[k] = Append(f[k - 1], step[k][f[k - 1][k]])
  PROVE  Trail(f, n, S, start, step)
<1> DEFINE T == {k \in 0 .. n : f[k] \in Seq(S) /\ Len(f[k]) = k + 1}
<1>1. 0 \in T
  <2> DEFINE one == <<start>>
  <2>1. one \in Seq(S) /\ Len(one) = 1
    OBVIOUS
  <2>2. f[0] = one /\ 0 + 1 = 1 /\ 0 \in 0 .. n
    OBVIOUS
  <2> HIDE DEF one
  <2>3. QED
    BY <2>1, <2>2
<1>2. ASSUME NEW k \in Nat, k < n, k \in T PROVE k + 1 \in T
  <2>1. k + 1 \in 1 .. n /\ k + 1 \in 0 .. n /\ (k + 1) - 1 = k /\ k + 1 \in Nat
    BY <1>2
  <2>2. f[k] \in Seq(S) /\ Len(f[k]) = k + 1
    BY <1>2
  <2>3. f[k + 1] = Append(f[k], step[k + 1][f[k][k + 1]])
    BY <2>1, <2>2
  <2>4. f[k][k + 1] \in S
    <3> DEFINE s == f[k]
    <3>1. s \in Seq(S) /\ k + 1 \in 1 .. Len(s)
      BY <2>1, <2>2
    <3> HIDE DEF s
    <3>2. s[k + 1] \in S
      BY <3>1, CellsOf
    <3>3. QED
      BY <3>2 DEF s
  <2>5. step[k + 1][f[k][k + 1]] \in S
    BY <2>1, <2>4
  <2>6. f[k + 1] \in Seq(S) /\ Len(f[k + 1]) = (k + 1) + 1
    BY <2>1, <2>2, <2>3, <2>5, Grows
  <2>7. QED
    BY <2>1, <2>6
<1> HIDE DEF T
<1>3. \A k \in 0 .. n : k \in T
  BY <1>1, <1>2, UpTo
<1>4. \A k \in 0 .. n : f[k] \in Seq(S) /\ Len(f[k]) = k + 1
  BY <1>3 DEF T
<1>5. ASSUME NEW k \in 1 .. n PROVE f[k] = Append(f[k - 1], step[k][f[k - 1][k]])
  <2>1. k - 1 \in 0 .. n /\ (k - 1) + 1 = k
    OBVIOUS
  <2>2. QED
    BY <1>4, <2>1
<1>6. QED
  BY <1>4, <1>5 DEF Trail

(* There is such a function.                                               *)
LEMMA TrailExists ==
  ASSUME NEW n \in Nat, NEW S, NEW start \in S, NEW step,
         \A k \in 1 .. n : \A s \in S : step[k][s] \in S
  PROVE  \E f : f = [k \in 0 .. n |-> f[k]] /\ Trail(f, n, S, start, step)
<1> DEFINE Q == Seq(S)
           grow(k, q) == IF Len(q) = k THEN Append(q, step[k][q[k]]) ELSE q
           longer == [k \in 1 .. n |-> [q \in Q |-> grow(k, q)]]
<1>1. ASSUME NEW k \in 1 .. n, NEW q \in Q PROVE longer[k][q] \in Q /\ longer[k][q] = grow(k, q)
  <2>1. longer[k][q] = grow(k, q)
    OBVIOUS
  <2>2. CASE Len(q) = k
    <3>1. q[k] \in S /\ k \in Nat
      BY <2>2
    <3>2. step[k][q[k]] \in S
      BY <3>1
    <3>3. Append(q, step[k][q[k]]) \in Q
      BY <2>2, <3>1, <3>2, Grows
    <3>4. QED
      BY <2>1, <2>2, <3>3
  <2>3. CASE Len(q) # k
    BY <2>1, <2>3
  <2>4. QED
    BY <2>2, <2>3
<1>2. <<start>> \in Q
  OBVIOUS
<1> HIDE DEF longer, Q
<1>3. PICK f : Runs(f, n, Q, <<start>>, longer)
  BY <1>1, <1>2, Recursion
<1>4. f = [k \in 0 .. n |-> f[k]] /\ f[0] = <<start>> /\ \A k \in 1 .. n : f[k] = longer[k][f[k - 1]]
  BY <1>3 DEF Runs
<1>5. ASSUME NEW k \in 1 .. n, f[k - 1] \in Seq(S), Len(f[k - 1]) = k
      PROVE  f[k] = Append(f[k - 1], step[k][f[k - 1][k]])
  <2>1. f[k] = grow(k, f[k - 1])
    BY <1>1, <1>4, <1>5 DEF Q
  <2>2. QED
    BY <1>5, <2>1
<1>6. Trail(f, n, S, start, step)
  BY <1>4, <1>5, TrailRuns
<1>7. QED
  BY <1>4, <1>6

(* Its last value holds all the values, each from the one before.          *)
LEMMA TrailEnds ==
  ASSUME NEW n \in Nat, NEW S, NEW start, NEW step, NEW f, Trail(f, n, S, start, step)
  PROVE  /\ f[n] \in Seq(S) /\ Len(f[n]) = n + 1 /\ f[n][1] = start
         /\ \A k \in 1 .. n : f[n][k + 1] = step[k][f[n][k]]
<1> DEFINE T == {m \in 0 .. n : f[m][1] = start /\ \A k \in 1 .. m : f[m][k + 1] = step[k][f[m][k]]}
<1>1. 0 \in T
  <2>1. <<start>>[1] = start /\ \A k \in 1 .. 0 : FALSE
    OBVIOUS
  <2>2. QED
    BY <2>1 DEF Trail
<1>2. ASSUME NEW m \in Nat, m < n, m \in T PROVE m + 1 \in T
  <2> DEFINE p == f[m]
             q == f[m + 1]
             x == step[m + 1][p[m + 1]]
  <2>1. m + 1 \in 1 .. n /\ m + 1 \in 0 .. n /\ m \in 0 .. n /\ (m + 1) - 1 = m
    BY <1>2
  <2>2. p \in Seq(S) /\ Len(p) = m + 1 /\ q \in Seq(S) /\ Len(q) = (m + 1) + 1 /\ q = Append(p, x)
    BY <2>1 DEF Trail
  <2>3. p[1] = start /\ \A k \in 1 .. m : p[k + 1] = step[k][p[k]]
    BY <1>2
  <2> HIDE DEF p, q, x
  <2>4. \A j \in 1 .. m + 1 : q[j] = p[j]
    BY <2>2
  <2>5. q[(m + 1) + 1] = x
    BY <2>2
  <2>6. 1 \in 1 .. m + 1
    OBVIOUS
  <2>7. ASSUME NEW k \in 1 .. m + 1 PROVE q[k + 1] = step[k][q[k]]
    <3>1. CASE k = m + 1
      <4>1. q[k] = p[k]
        BY <2>4
      <4>2. QED
        BY <2>5, <3>1, <4>1 DEF x
    <3>2. CASE k # m + 1
      <4>1. k \in 1 .. m /\ k + 1 \in 1 .. m + 1
        BY <3>2
      <4>2. q[k + 1] = p[k + 1] /\ q[k] = p[k]
        BY <2>4, <4>1
      <4>3. QED
        BY <2>3, <4>1, <4>2
    <3>3. QED
      BY <3>1, <3>2
  <2>8. QED
    BY <2>1, <2>3, <2>4, <2>6, <2>7 DEF q
<1> HIDE DEF T
<1>3. \A m \in 0 .. n : m \in T
  BY <1>1, <1>2, UpTo
<1>4. n \in T /\ n \in 0 .. n
  BY <1>3
<1>5. f[n] \in Seq(S) /\ Len(f[n]) = n + 1
  BY <1>4 DEF Trail
<1>6. QED
  BY <1>4, <1>5 DEF T

(* A recursion that goes from start through the sets G[0] .. G[n].          *)
Guides(n, G, start, step) ==
  /\ n \in Nat /\ start \in G[0]
  /\ \A k \in 1 .. n : \A s \in G[k - 1] : step[k][s] \in G[k]

KeepsTo(f, n, G, start, step) ==
  /\ f[0] = start
  /\ \A k \in 1 .. n : f[k - 1] \in G[k - 1] => f[k] = step[k][f[k - 1]]

(* A recursion that starts right and keeps right stays right.              *)
LEMMA Guided ==
  ASSUME NEW n, NEW G, NEW start, NEW step, Guides(n, G, start, step),
         NEW f, KeepsTo(f, n, G, start, step)
  PROVE  (\A k \in 0 .. n : f[k] \in G[k]) /\ (\A k \in 1 .. n : f[k] = step[k][f[k - 1]])
<1> DEFINE T == {k \in 0 .. n : f[k] \in G[k]}
<1>1. n \in Nat
  BY DEF Guides
<1>2. 0 \in T
  BY <1>1 DEF Guides, KeepsTo
<1>3. ASSUME NEW k \in Nat, k < n, k \in T PROVE k + 1 \in T
  <2>1. k + 1 \in 1 .. n /\ k + 1 \in 0 .. n /\ (k + 1) - 1 = k /\ f[k] \in G[k]
    BY <1>1, <1>3
  <2>2. f[k + 1] = step[k + 1][f[k]] /\ step[k + 1][f[k]] \in G[k + 1]
    BY <2>1 DEF Guides, KeepsTo
  <2>3. QED
    BY <2>1, <2>2
<1> HIDE DEF T
<1>4. \A k \in 0 .. n : k \in T
  BY <1>1, <1>2, <1>3, UpTo
<1>5. \A k \in 0 .. n : f[k] \in G[k]
  BY <1>4 DEF T
<1>6. ASSUME NEW k \in 1 .. n PROVE f[k] = step[k][f[k - 1]]
  <2>1. k - 1 \in 0 .. n
    BY <1>1
  <2>2. QED
    BY <1>5, <2>1 DEF KeepsTo
<1>7. QED
  BY <1>5, <1>6

(* There is such a recursion.                                              *)
LEMMA GuidedExists ==
  ASSUME NEW n, NEW G, NEW start, NEW step, Guides(n, G, start, step)
  PROVE  \E f : f = [k \in 0 .. n |-> f[k]] /\ KeepsTo(f, n, G, start, step)
<1> DEFINE S == UNION {G[k] : k \in 0 .. n}
           guarded == [k \in 1 .. n |-> [s \in S |-> IF s \in G[k - 1] THEN step[k][s] ELSE s]]
<1>1. n \in Nat /\ \A k \in 0 .. n : G[k] \subseteq S
  BY DEF Guides
<1> HIDE DEF S
<1>2. start \in S
  <2>1. 0 \in 0 .. n
    BY <1>1
  <2>2. QED
    BY <1>1, <2>1 DEF Guides
<1>3. ASSUME NEW k \in 1 .. n, NEW s \in S
      PROVE  guarded[k][s] \in S /\ (s \in G[k - 1] => guarded[k][s] = step[k][s])
  <2>1. guarded[k][s] = IF s \in G[k - 1] THEN step[k][s] ELSE s
    OBVIOUS
  <2>2. k \in 0 .. n
    BY <1>1
  <2>3. s \in G[k - 1] => step[k][s] \in S
    BY <1>1, <2>2 DEF Guides
  <2>4. QED
    BY <2>1, <2>3
<1> HIDE DEF guarded
<1>4. PICK f : Runs(f, n, S, start, guarded)
  BY <1>1, <1>2, <1>3, Recursion
<1>5. f[0] = start /\ \A k \in 1 .. n : f[k] = guarded[k][f[k - 1]]
  BY <1>4 DEF Runs
<1>6. ASSUME NEW k \in 1 .. n, f[k - 1] \in G[k - 1] PROVE f[k] = step[k][f[k - 1]]
  <2>1. k - 1 \in 0 .. n
    BY <1>1
  <2>2. f[k - 1] \in S
    BY <1>1, <1>6, <2>1
  <2>3. QED
    BY <1>3, <1>5, <1>6, <2>2
<1>7. f = [k \in 0 .. n |-> f[k]]
  BY <1>4 DEF Runs
<1>8. QED
  BY <1>5, <1>6, <1>7 DEF KeepsTo

-----------------------------------------------------------------------------
(* Multiplicities, entry by entry                                          *)

(* What an entry adds to the multiplicity of v.                            *)
Term(entry, v) == IF Key(entry) = v THEN entry.mult ELSE 0

(* Entries of integer multiplicity.                                        *)
Ledger(es) == Len(es) \in Nat /\ \A i \in 1 .. Len(es) : es[i].mult \in Int

(* g[i] is the multiplicity of v in the first i entries.                   *)
SumsUp(g, es, v, n) ==
  /\ g \in [0 .. n -> Int]
  /\ g[0] = 0
  /\ \A i \in 1 .. n : g[i] = g[i - 1] + Term(es[i], v)

LEMMA TermIsInt ==
  ASSUME NEW es, Ledger(es), NEW v, NEW i \in 1 .. Len(es)
  PROVE  Term(es[i], v) \in Int
BY DEF Ledger, Term

LEMMA SumsUpExists ==
  ASSUME NEW es, Ledger(es), NEW v
  PROVE  \E g : SumsUp(g, es, v, Len(es))
<1> DEFINE N == Len(es)
           T == {n \in 0 .. N : \E g : SumsUp(g, es, v, n)}
<1>1. N \in Nat
  BY DEF Ledger
<1>2. 0 \in T
  <2> DEFINE g == [i \in 0 .. 0 |-> 0]
  <2>1. SumsUp(g, es, v, 0)
    BY DEF SumsUp
  <2>2. QED
    BY <1>1, <2>1
<1>3. ASSUME NEW n \in Nat, n < N, n \in T PROVE n + 1 \in T
  <2>1. PICK g : SumsUp(g, es, v, n)
    BY <1>3
  <2>2. n + 1 \in 1 .. N /\ n + 1 \in 0 .. N
    BY <1>1, <1>3
  <2>3. Term(es[n + 1], v) \in Int
    BY <2>2, TermIsInt
  <2> DEFINE e == Term(es[n + 1], v)
             h == [i \in 0 .. (n + 1) |-> IF i = n + 1 THEN g[n] + e ELSE g[i]]
  <2> HIDE DEF e
  <2>4. g \in [0 .. n -> Int] /\ g[0] = 0 /\ n \in 0 .. n
    BY <2>1 DEF SumsUp
  <2>5. e \in Int
    BY <2>3 DEF e
  <2>6. h \in [0 .. (n + 1) -> Int]
    <3>1. \A i \in 0 .. (n + 1) : i # n + 1 => i \in 0 .. n
      OBVIOUS
    <3>2. QED
      BY <2>4, <2>5, <3>1
  <2>7. h[0] = 0 /\ h[n + 1] = g[n] + e /\ \A i \in 0 .. n : h[i] = g[i]
    BY <2>4
  <2>8. ASSUME NEW i \in 1 .. (n + 1) PROVE h[i] = h[i - 1] + Term(es[i], v)
    <3>1. CASE i = n + 1
      BY <2>7, <3>1 DEF e
    <3>2. CASE i # n + 1
      <4>1. i \in 1 .. n /\ i \in 0 .. n /\ i - 1 \in 0 .. n
        BY <3>2
      <4>2. g[i] = g[i - 1] + Term(es[i], v)
        BY <2>1, <4>1 DEF SumsUp
      <4> HIDE DEF h
      <4>3. QED
        BY <2>7, <4>1, <4>2
    <3>3. QED
      BY <3>1, <3>2
  <2> HIDE DEF h
  <2>9. SumsUp(h, es, v, n + 1)
    BY <2>6, <2>7, <2>8 DEF SumsUp
  <2>10. QED
    BY <2>2, <2>9
<1> HIDE DEF T
<1>4. \A n \in 0 .. N : n \in T
  BY <1>1, <1>2, <1>3, UpTo
<1>5. N \in T
  BY <1>1, <1>4
<1>6. QED
  BY <1>5 DEF T

LEMMA TotalsRun ==
  ASSUME NEW es, Ledger(es), NEW v
  PROVE  SumsUp(Totals(es, v), es, v, Len(es))
<1> DEFINE N == Len(es)
           Sums(g) == g = [i \in 0 .. N |-> IF i = 0 THEN 0 ELSE g[i - 1] + Term(es[i], v)]
<1>1. PICK g : SumsUp(g, es, v, N)
  BY SumsUpExists
<1>2. N \in Nat
  BY DEF Ledger
<1>3. Sums(g)
  BY <1>1, <1>2 DEF SumsUp
<1>4. Totals(es, v) = CHOOSE t : Sums(t)
  BY DEF Totals, Term
<1>5. Sums(Totals(es, v))
  <2> HIDE DEF Sums
  <2>1. QED
    BY <1>3, <1>4
<1> DEFINE t == Totals(es, v)
<1> HIDE DEF t
<1>6. t = [i \in 0 .. N |-> IF i = 0 THEN 0 ELSE t[i - 1] + Term(es[i], v)]
  BY <1>5 DEF t
<1>7. t[0] = 0 /\ \A i \in 1 .. N : t[i] = t[i - 1] + Term(es[i], v)
  <2>1. 0 \in 0 .. N /\ \A i \in 1 .. N : i \in 0 .. N /\ i # 0
    BY <1>2
  <2>2. \A i \in 0 .. N : t[i] = IF i = 0 THEN 0 ELSE t[i - 1] + Term(es[i], v)
    BY <1>6
  <2>3. QED
    BY <2>1, <2>2
<1>8. \A i \in 0 .. N : t[i] \in Int
  <2> DEFINE T == {i \in 0 .. N : t[i] \in Int}
  <2>1. 0 \in T
    BY <1>2, <1>7
  <2>2. ASSUME NEW i \in Nat, i < N, i \in T PROVE i + 1 \in T
    <3>1. i + 1 \in 1 .. N /\ i + 1 \in 0 .. N /\ (i + 1) - 1 = i
      BY <1>2, <2>2
    <3>2. Term(es[i + 1], v) \in Int
      BY <3>1, TermIsInt
    <3>3. t[i + 1] = t[i] + Term(es[i + 1], v) /\ t[i] \in Int
      BY <1>7, <2>2, <3>1
    <3>4. QED
      BY <3>1, <3>2, <3>3
  <2> HIDE DEF T
  <2>3. \A i \in 0 .. N : i \in T
    BY <1>2, <2>1, <2>2, UpTo
  <2>4. QED
    BY <2>3 DEF T
<1>9. t \in [0 .. N -> Int]
  BY <1>6, <1>8
<1>10. QED
  BY <1>7, <1>9 DEF SumsUp, t

(* The multiplicities of two sequences add up.                             *)
LEMMA TotalOfJoined ==
  ASSUME NEW S, \A e \in S : e.mult \in Int, NEW a \in Seq(S), NEW b \in Seq(S), NEW v
  PROVE  /\ Total(a \o b, v) = Total(a, v) + Total(b, v)
         /\ Total(a, v) \in Int /\ Total(b, v) \in Int
<1> DEFINE c == a \o b
           m == Len(a)
           n == Len(b)
           ta == Totals(a, v)
           tb == Totals(b, v)
           tc == Totals(c, v)
<1>1. Joined(S, c, a, b) /\ c \in Seq(S)
  BY TwoParts
<1>2. Len(c) = m + n /\ Agree(c, 0, a, m) /\ Agree(c, m, b, n) /\ m \in Nat /\ n \in Nat
  BY <1>1 DEF Joined
<1>3. Ledger(a) /\ Ledger(b) /\ Ledger(c)
  <2> HIDE DEF c
  <2>1. \A s \in Seq(S) : Len(s) \in Nat /\ \A i \in 1 .. Len(s) : s[i] \in S
    OBVIOUS
  <2>2. QED
    BY <1>1, <2>1 DEF Ledger
<1>4. SumsUp(ta, a, v, m) /\ SumsUp(tb, b, v, n) /\ SumsUp(tc, c, v, Len(c))
  BY <1>3, TotalsRun
<1> HIDE DEF c, ta, tb, tc, m, n
<1>5. m \in Nat /\ n \in Nat
  BY <1>2
<1>6. SumsUp(tc, c, v, m + n)
  BY <1>2, <1>4
<1>7. \A i \in 0 .. m : tc[i] = ta[i]
  <2> DEFINE T == {i \in 0 .. m : tc[i] = ta[i]}
  <2>1. 0 \in T
    BY <1>2, <1>4, <1>6 DEF SumsUp
  <2>2. ASSUME NEW i \in Nat, i < m, i \in T PROVE i + 1 \in T
    <3>1. /\ i + 1 \in 1 .. m /\ i + 1 \in 0 .. m /\ i + 1 \in 1 .. (m + n)
          /\ (i + 1) - 1 = i /\ 0 + (i + 1) = i + 1
      BY <1>5, <2>2
    <3>2. c[i + 1] = a[i + 1]
      BY <1>2, <3>1 DEF Agree
    <3>3. /\ tc[i + 1] = tc[i] + Term(c[i + 1], v)
          /\ ta[i + 1] = ta[i] + Term(a[i + 1], v)
      BY <1>4, <1>6, <3>1 DEF SumsUp
    <3>4. tc[i] = ta[i]
      BY <2>2
    <3>5. QED
      BY <3>1, <3>2, <3>3, <3>4
  <2> HIDE DEF T
  <2>3. \A i \in 0 .. m : i \in T
    BY <1>2, <2>1, <2>2, UpTo
  <2>4. QED
    BY <2>3 DEF T
<1>8. \A i \in 0 .. n : tc[m + i] = ta[m] + tb[i]
  <2> DEFINE T == {i \in 0 .. n : tc[m + i] = ta[m] + tb[i]}
  <2>1. ta[m] \in Int /\ \A i \in 0 .. n : tb[i] \in Int
    BY <1>2, <1>4 DEF SumsUp
  <2>2. 0 \in T
    <3>1. tb[0] = 0 /\ tc[m] = ta[m] /\ m + 0 = m /\ 0 \in 0 .. n
      BY <1>2, <1>4, <1>7 DEF SumsUp
    <3>2. QED
      BY <2>1, <3>1
  <2>3. ASSUME NEW i \in Nat, i < n, i \in T PROVE i + 1 \in T
    <3>1. /\ i + 1 \in 1 .. n /\ i + 1 \in 0 .. n /\ i \in 0 .. n
          /\ m + (i + 1) \in 1 .. (m + n) /\ (m + (i + 1)) - 1 = m + i /\ (i + 1) - 1 = i
      BY <1>5, <2>3
    <3>2. c[m + (i + 1)] = b[i + 1]
      BY <1>2, <3>1 DEF Agree
    <3>3. /\ tc[m + (i + 1)] = tc[m + i] + Term(c[m + (i + 1)], v)
          /\ tb[i + 1] = tb[i] + Term(b[i + 1], v)
      BY <1>4, <1>6, <3>1 DEF SumsUp
    <3>4. tc[m + i] = ta[m] + tb[i]
      BY <2>3
    <3>5. Term(b[i + 1], v) \in Int
      <4>1. i + 1 \in 1 .. Len(b)
        BY <3>1 DEF n
      <4>2. QED
        BY <1>3, <4>1, TermIsInt
    <3>6. QED
      BY <2>1, <3>1, <3>2, <3>3, <3>4, <3>5
  <2> HIDE DEF T
  <2>4. \A i \in 0 .. n : i \in T
    BY <1>2, <2>2, <2>3, UpTo
  <2>5. QED
    BY <2>4 DEF T
<1>9. tc[m + n] = ta[m] + tb[n] /\ ta[m] \in Int /\ tb[n] \in Int
  BY <1>2, <1>4, <1>8 DEF SumsUp
<1>10. QED
  BY <1>2, <1>9 DEF Total, ta, tb, tc, m, n, c

(* A value that no entry has adds up to nothing.                           *)
LEMMA TotalOfAbsent ==
  ASSUME NEW es, Ledger(es), NEW v, \A i \in 1 .. Len(es) : Key(es[i]) # v
  PROVE  Total(es, v) = 0
<1> DEFINE N == Len(es)
           t == Totals(es, v)
           T == {i \in 0 .. N : t[i] = 0}
<1>1. SumsUp(t, es, v, N) /\ N \in Nat
  BY TotalsRun DEF Ledger
<1> HIDE DEF t
<1>2. 0 \in T
  BY <1>1 DEF SumsUp
<1>3. ASSUME NEW i \in Nat, i < N, i \in T PROVE i + 1 \in T
  <2>1. i + 1 \in 1 .. N /\ i + 1 \in 0 .. N /\ (i + 1) - 1 = i
    BY <1>1, <1>3
  <2>2. t[i + 1] = t[i] + Term(es[i + 1], v)
    BY <1>1, <2>1 DEF SumsUp
  <2>3. Term(es[i + 1], v) = 0
    BY <2>1 DEF Term
  <2>4. QED
    BY <1>3, <2>1, <2>2, <2>3
<1> HIDE DEF T
<1>4. \A i \in 0 .. N : i \in T
  BY <1>1, <1>2, <1>3, UpTo
<1>5. N \in T
  BY <1>1, <1>4
<1>6. QED
  BY <1>5 DEF T, t, Total

-----------------------------------------------------------------------------
(* Sums of sequences as they are written                                   *)

(* es is a sequence of entries, in which v has multiplicity n.             *)
Amount(es, v, n) ==
  /\ es \in Seq({es[i] : i \in 1 .. Len(es)})
  /\ Ledger(es)
  /\ n \in Int /\ Total(es, v) = n

LEMMA AmountOfJoined ==
  ASSUME NEW a, NEW b, NEW v, NEW m, NEW n, Amount(a, v, m), Amount(b, v, n)
  PROVE  Amount(a \o b, v, m + n)
<1> DEFINE A == {a[i] : i \in 1 .. Len(a)}
           B == {b[i] : i \in 1 .. Len(b)}
           S == A \cup B
           c == a \o b
<1>1. \A e \in S : e.mult \in Int
  BY DEF Amount, Ledger
<1>2. a \in Seq(A) /\ b \in Seq(B) /\ A \subseteq S /\ B \subseteq S
  BY DEF Amount
<1> HIDE DEF A, B, S
<1>3. a \in Seq(S) /\ b \in Seq(S)
  BY <1>2, SeqMonotonic
<1>4. c \in Seq(S)
  BY <1>3, TwoParts DEF Joined
<1>5. Total(c, v) = Total(a, v) + Total(b, v)
  BY <1>1, <1>3, TotalOfJoined
<1> HIDE DEF c
<1>6. c \in Seq({c[i] : i \in 1 .. Len(c)})
  BY <1>4, OwnCells
<1>7. Ledger(c)
  BY <1>1, <1>4 DEF Ledger
<1>8. Amount(c, v, m + n)
  BY <1>5, <1>6, <1>7 DEF Amount
<1>9. QED
  BY <1>8 DEF c

LEMMA AmountOfNone ==
  ASSUME NEW v
  PROVE  Amount(<<>>, v, 0)
<1>1. Ledger(<<>>) /\ <<>> \in Seq({<<>>[i] : i \in 1 .. Len(<<>>)})
  BY DEF Ledger
<1>2. Total(<<>>, v) = 0
  BY <1>1, TotalOfAbsent
<1>3. QED
  BY <1>1, <1>2 DEF Amount

(* Of a sequence of up to five entries.                                    *)
LEMMA ShortAmounts ==
  ASSUME NEW S, \A e \in S : e.mult \in Int, NEW es \in Seq(S), NEW v
  PROVE  LET x(i) == Term(es[i], v) IN
         /\ Len(es) = 1 => Amount(es, v, x(1))
         /\ Len(es) = 2 => Amount(es, v, x(1) + x(2))
         /\ Len(es) = 3 => Amount(es, v, x(1) + x(2) + x(3))
         /\ Len(es) = 4 => Amount(es, v, x(1) + x(2) + x(3) + x(4))
         /\ Len(es) = 5 => Amount(es, v, x(1) + x(2) + x(3) + x(4) + x(5))
<1> DEFINE t == Totals(es, v)
           n == Len(es)
<1>1. es \in Seq({es[i] : i \in 1 .. n}) /\ Ledger(es) /\ n \in Nat
  BY OwnCells DEF Ledger
<1>2. SumsUp(t, es, v, n)
  BY <1>1, TotalsRun
<1>3. \A i \in 1 .. n : Term(es[i], v) \in Int
  BY <1>1, TermIsInt
<1> HIDE DEF t
<1>4. t[0] = 0 /\ \A i \in 1 .. n : t[i] = t[i - 1] + Term(es[i], v)
  BY <1>2 DEF SumsUp
<1>5. \A k \in Int : t[n] = k => Amount(es, v, k)
  BY <1>1 DEF Amount, Total, t
<1> DEFINE x(i) == Term(es[i], v)
<1>6. ASSUME NEW i \in 1 .. n PROVE x(i) \in Int /\ t[i] = t[i - 1] + x(i)
  BY <1>3, <1>4
<1> HIDE DEF x, n
<1>7. n >= 1 => x(1) \in Int /\ t[1] = t[0] + x(1)
  BY <1>1, <1>6 DEF n
<1>8. n >= 2 => x(2) \in Int /\ t[2] = t[1] + x(2)
  BY <1>1, <1>6 DEF n
<1>9. n >= 3 => x(3) \in Int /\ t[3] = t[2] + x(3)
  BY <1>1, <1>6 DEF n
<1>10. n >= 4 => x(4) \in Int /\ t[4] = t[3] + x(4)
  BY <1>1, <1>6 DEF n
<1>11. n >= 5 => x(5) \in Int /\ t[5] = t[4] + x(5)
  BY <1>1, <1>6 DEF n
<1>12. n >= 1 => x(1) \in Int /\ t[1] = x(1)
  BY ONLY <1>4, <1>7
<1>13. n >= 2 => x(1) + x(2) \in Int /\ t[2] = x(1) + x(2)
  BY ONLY <1>1, <1>8, <1>12
<1>14. n >= 3 => x(1) + x(2) + x(3) \in Int /\ t[3] = x(1) + x(2) + x(3)
  BY ONLY <1>1, <1>9, <1>13
<1>15. n >= 4 => x(1) + x(2) + x(3) + x(4) \in Int /\ t[4] = x(1) + x(2) + x(3) + x(4)
  BY ONLY <1>1, <1>10, <1>14
<1>16. n >= 5 => x(1) + x(2) + x(3) + x(4) + x(5) \in Int /\ t[5] = x(1) + x(2) + x(3) + x(4) + x(5)
  BY ONLY <1>1, <1>11, <1>15
<1>17. n = 1 => Amount(es, v, x(1))
  <2> SUFFICES ASSUME n = 1 PROVE Amount(es, v, x(1))
    OBVIOUS
  <2>1. x(1) \in Int /\ t[n] = x(1)
    BY <1>12
  <2>2. QED
    BY <1>5, <2>1
<1>18. n = 2 => Amount(es, v, x(1) + x(2))
  <2> SUFFICES ASSUME n = 2 PROVE Amount(es, v, x(1) + x(2))
    OBVIOUS
  <2>1. x(1) + x(2) \in Int /\ t[n] = x(1) + x(2)
    BY <1>13
  <2>2. QED
    BY <1>5, <2>1
<1>19. n = 3 => Amount(es, v, x(1) + x(2) + x(3))
  <2> SUFFICES ASSUME n = 3 PROVE Amount(es, v, x(1) + x(2) + x(3))
    OBVIOUS
  <2>1. x(1) + x(2) + x(3) \in Int /\ t[n] = x(1) + x(2) + x(3)
    BY <1>14
  <2>2. QED
    BY <1>5, <2>1
<1>20. n = 4 => Amount(es, v, x(1) + x(2) + x(3) + x(4))
  <2> SUFFICES ASSUME n = 4 PROVE Amount(es, v, x(1) + x(2) + x(3) + x(4))
    OBVIOUS
  <2>1. x(1) + x(2) + x(3) + x(4) \in Int /\ t[n] = x(1) + x(2) + x(3) + x(4)
    BY <1>15
  <2>2. QED
    BY <1>5, <2>1
<1>21. n = 5 => Amount(es, v, x(1) + x(2) + x(3) + x(4) + x(5))
  <2> SUFFICES ASSUME n = 5 PROVE Amount(es, v, x(1) + x(2) + x(3) + x(4) + x(5))
    OBVIOUS
  <2>1. x(1) + x(2) + x(3) + x(4) + x(5) \in Int /\ t[n] = x(1) + x(2) + x(3) + x(4) + x(5)
    BY <1>16
  <2>2. QED
    BY <1>5, <2>1
<1>22. QED
  BY <1>17, <1>18, <1>19, <1>20, <1>21 DEF x, n

LEMMA AmountOfOne ==
  ASSUME NEW a, a.mult \in Int, NEW v
  PROVE  Amount(<<a>>, v, Term(a, v))
<1> DEFINE S == {a}
           es == <<a>>
<1>1. (\A x \in S : x.mult \in Int) /\ es \in Seq(S) /\ Len(es) = 1
      /\ es[1] = a
  OBVIOUS
<1> HIDE DEF S, es
<1>2. Amount(es, v, Term(a, v))
  BY <1>1, ShortAmounts
<1>3. QED
  BY <1>2 DEF es

LEMMA AmountOfTwo ==
  ASSUME NEW a, a.mult \in Int, NEW b, b.mult \in Int, NEW v
  PROVE  Amount(<<a, b>>, v, Term(a, v) + Term(b, v))
<1> DEFINE S == {a, b}
           es == <<a, b>>
<1>1. (\A x \in S : x.mult \in Int) /\ es \in Seq(S) /\ Len(es) = 2
      /\ es[1] = a /\ es[2] = b
  OBVIOUS
<1> HIDE DEF S, es
<1>2. Amount(es, v, Term(a, v) + Term(b, v))
  BY <1>1, ShortAmounts
<1>3. QED
  BY <1>2 DEF es

LEMMA AmountOfThree ==
  ASSUME NEW a, a.mult \in Int, NEW b, b.mult \in Int, NEW c, c.mult \in Int, NEW v
  PROVE  Amount(<<a, b, c>>, v, Term(a, v) + Term(b, v) + Term(c, v))
<1> DEFINE S == {a, b, c}
           es == <<a, b, c>>
<1>1. (\A x \in S : x.mult \in Int) /\ es \in Seq(S) /\ Len(es) = 3
      /\ es[1] = a /\ es[2] = b /\ es[3] = c
  OBVIOUS
<1> HIDE DEF S, es
<1>2. Amount(es, v, Term(a, v) + Term(b, v) + Term(c, v))
  BY <1>1, ShortAmounts
<1>3. QED
  BY <1>2 DEF es

LEMMA AmountOfFour ==
  ASSUME NEW a, a.mult \in Int, NEW b, b.mult \in Int, NEW c, c.mult \in Int,
         NEW d, d.mult \in Int, NEW v
  PROVE  Amount(<<a, b, c, d>>, v, Term(a, v) + Term(b, v) + Term(c, v) + Term(d, v))
<1> DEFINE S == {a, b, c, d}
           es == <<a, b, c, d>>
<1>1. (\A x \in S : x.mult \in Int) /\ es \in Seq(S) /\ Len(es) = 4
      /\ es[1] = a /\ es[2] = b /\ es[3] = c /\ es[4] = d
  OBVIOUS
<1> HIDE DEF S, es
<1>2. Amount(es, v, Term(a, v) + Term(b, v) + Term(c, v) + Term(d, v))
  BY <1>1, ShortAmounts
<1>3. QED
  BY <1>2 DEF es

LEMMA AmountOfFive ==
  ASSUME NEW a, a.mult \in Int, NEW b, b.mult \in Int, NEW c, c.mult \in Int,
         NEW d, d.mult \in Int, NEW e, e.mult \in Int, NEW v
  PROVE  Amount(<<a, b, c, d, e>>, v,
                Term(a, v) + Term(b, v) + Term(c, v) + Term(d, v) + Term(e, v))
<1> DEFINE S == {a, b, c, d, e}
           es == <<a, b, c, d, e>>
<1>1. (\A x \in S : x.mult \in Int) /\ es \in Seq(S) /\ Len(es) = 5
      /\ es[1] = a /\ es[2] = b /\ es[3] = c /\ es[4] = d /\ es[5] = e
  OBVIOUS
<1> HIDE DEF S, es
<1>2. Amount(es, v, Term(a, v) + Term(b, v) + Term(c, v) + Term(d, v) + Term(e, v))
  BY <1>1, ShortAmounts
<1>3. QED
  BY <1>2 DEF es

(* A sequence whose multiplicities can be added up.                        *)
Booked(es) == es \in Seq({es[i] : i \in 1 .. Len(es)}) /\ Ledger(es)

Integral(f) == \A v \in DOMAIN f : f[v] \in Int

LEMMA NetTotal ==
  ASSUME NEW f, Integral(f), NEW es, Booked(es), NEW v
  PROVE  Net(f, v) \in Int /\ Total(es, v) \in Int
<1>1. SumsUp(Totals(es, v), es, v, Len(es)) /\ Len(es) \in Nat
  BY TotalsRun DEF Booked, Ledger
<1>2. Total(es, v) \in Int
  BY <1>1 DEF SumsUp, Total
<1>3. Net(f, v) \in Int
  BY DEF Net, Integral
<1>4. QED
  BY <1>2, <1>3

(* Entries add their total to every value, named in them or not.           *)
LEMMA TallyNet ==
  ASSUME NEW f, Integral(f), NEW es, Booked(es)
  PROVE  /\ Integral(Tally(f, es))
         /\ \A v : Net(Tally(f, es), v) = Net(f, v) + Total(es, v)
<1> DEFINE keys == DOMAIN f \cup {Key(es[i]) : i \in DOMAIN es}
           D == {v \in keys : Net(f, v) + Total(es, v) # 0}
           g == Tally(f, es)
<1>1. g = [v \in D |-> Net(f, v) + Total(es, v)]
  BY DEF Tally
<1>2. DOMAIN es = 1 .. Len(es)
  BY DEF Booked
<1>3. ASSUME NEW v, v \notin keys PROVE Net(f, v) = 0 /\ Total(es, v) = 0
  BY <1>2, <1>3, TotalOfAbsent DEF Net, Booked
<1> HIDE DEF keys
<1>4. \A v : v \notin D => Net(f, v) + Total(es, v) = 0
  BY <1>3
<1> HIDE DEF D, g
<1>5. DOMAIN g = D /\ \A v \in D : g[v] = Net(f, v) + Total(es, v)
  BY <1>1
<1>6. ASSUME NEW v PROVE Net(g, v) = Net(f, v) + Total(es, v)
  BY <1>4, <1>5 DEF Net
<1>7. Integral(g)
  <2>1. \A v : Net(f, v) + Total(es, v) \in Int
    BY NetTotal
  <2>2. QED
    BY <1>5, <2>1 DEF Integral
<1>8. QED
  BY <1>6, <1>7 DEF g

(* Nothing is left over if every value cancels.                            *)
LEMMA TallyEmpty ==
  ASSUME NEW f, Integral(f), NEW es, Booked(es)
  PROVE  DOMAIN Tally(f, es) = {} <=> \A v : Net(f, v) + Total(es, v) = 0
<1> DEFINE g == Tally(f, es)
<1>1. \A v : Net(g, v) = Net(f, v) + Total(es, v)
  BY TallyNet
<1>2. \A v \in DOMAIN g : g[v] # 0
  BY DEF Tally
<1> HIDE DEF g
<1>3. ASSUME DOMAIN g = {} PROVE \A v : Net(g, v) = 0
  BY <1>3 DEF Net
<1>4. ASSUME \A v : Net(g, v) = 0 PROVE DOMAIN g = {}
  BY <1>2, <1>4 DEF Net
<1>5. QED
  BY <1>1, <1>3, <1>4 DEF g

-----------------------------------------------------------------------------
(* Sums over a set of values                                               *)

Lookups(K) == UNION {[D -> Int] : D \in SUBSET K}

(* Sums over the values of K stay sums over the values of K.               *)
LEMMA LookupsTallied ==
  ASSUME NEW K, NEW f \in Lookups(K), NEW es, Booked(es), \A i \in DOMAIN es : Key(es[i]) \in K
  PROVE  /\ Integral(f) /\ Tally(f, es) \in Lookups(K)
         /\ \A v : Net(Tally(f, es), v) = Net(f, v) + Total(es, v)
<1>1. PICK D \in SUBSET K : f \in [D -> Int]
  BY DEF Lookups
<1>2. Integral(f) /\ DOMAIN f = D
  BY <1>1 DEF Integral
<1>3. /\ Integral(Tally(f, es))
      /\ \A v : Net(Tally(f, es), v) = Net(f, v) + Total(es, v)
  BY <1>2, TallyNet
<1> DEFINE keys == DOMAIN f \cup {Key(es[i]) : i \in DOMAIN es}
           E == {v \in keys : Net(f, v) + Total(es, v) # 0}
           g == Tally(f, es)
<1>4. g = [v \in E |-> Net(f, v) + Total(es, v)] /\ E \subseteq keys
  BY DEF Tally
<1>5. keys \subseteq K
  BY <1>2
<1> HIDE DEF keys, E, g
<1>6. DOMAIN g = E /\ E \in SUBSET K
  BY <1>4, <1>5
<1>7. g \in [E -> Int]
  BY <1>3, <1>4, <1>6 DEF Integral, g
<1>8. g \in Lookups(K)
  BY <1>6, <1>7 DEF Lookups
<1>9. QED
  BY <1>2, <1>3, <1>8 DEF g

(* The empty sum.                                                          *)
LEMMA NoLookupsAreNone ==
  ASSUME NEW K
  PROVE  NoLookups \in Lookups(K) /\ \A v : Net(NoLookups, v) = 0
<1>1. NoLookups \in [{} -> Int] /\ DOMAIN NoLookups = {}
  BY DEF NoLookups
<1>2. {} \in SUBSET K
  OBVIOUS
<1>3. NoLookups \in Lookups(K)
  BY <1>1, <1>2 DEF Lookups
<1>4. QED
  BY <1>1, <1>3 DEF Net

(* Entries that all have multiplicity 1, or 0, where they have the value.  *)
LEMMA TotalIsCount ==
  ASSUME NEW es, Ledger(es), NEW v, \A i \in 1 .. Len(es) : Key(es[i]) = v => es[i].mult = 1
  PROVE  /\ IsFiniteSet({i \in 1 .. Len(es) : Key(es[i]) = v})
         /\ Total(es, v) = Cardinality({i \in 1 .. Len(es) : Key(es[i]) = v})
<1> DEFINE N == Len(es)
           t == Totals(es, v)
           C(n) == {i \in 1 .. n : Key(es[i]) = v}
           T == {n \in 0 .. N : IsFiniteSet(C(n)) /\ t[n] = Cardinality(C(n))}
<1>1. SumsUp(t, es, v, N) /\ N \in Nat
  BY TotalsRun DEF Ledger
<1> HIDE DEF t
<1>2. t[0] = 0 /\ \A i \in 1 .. N : t[i] = t[i - 1] + Term(es[i], v)
  BY <1>1 DEF SumsUp
<1>3. 0 \in T
  <2>1. C(0) = {}
    OBVIOUS
  <2> HIDE DEF C
  <2>2. QED
    BY <1>1, <1>2, <2>1, FS_EmptySet
<1>4. ASSUME NEW n \in Nat, n < N, n \in T PROVE n + 1 \in T
  <2>1. n + 1 \in 1 .. N /\ n + 1 \in 0 .. N /\ (n + 1) - 1 = n /\ 1 .. (n + 1) = 1 .. n \cup {n + 1}
        /\ n + 1 \notin 1 .. n
    BY <1>1, <1>4
  <2>2. t[n + 1] = t[n] + Term(es[n + 1], v)
    BY <1>2, <2>1
  <2>3. IsFiniteSet(C(n)) /\ t[n] = Cardinality(C(n)) /\ n + 1 \notin C(n)
    BY <1>4, <2>1
  <2>4. Cardinality(C(n)) \in Nat
    BY <2>3, FS_CardinalityType
  <2>5. CASE Key(es[n + 1]) = v
    <3>1. C(n + 1) = C(n) \cup {n + 1}
      BY <2>1, <2>5
    <3>2. Term(es[n + 1], v) = 1
      BY <2>1, <2>5 DEF Term
    <3> HIDE DEF C
    <3>3. IsFiniteSet(C(n + 1)) /\ Cardinality(C(n + 1)) = Cardinality(C(n)) + 1
      BY <2>3, <3>1, FS_AddElement
    <3>4. QED
      BY <2>1, <2>2, <2>3, <3>2, <3>3
  <2>6. CASE Key(es[n + 1]) # v
    <3>1. C(n + 1) = C(n)
      BY <2>1, <2>6
    <3>2. Term(es[n + 1], v) = 0
      BY <2>6 DEF Term
    <3> HIDE DEF C
    <3>3. QED
      BY <2>1, <2>2, <2>3, <2>4, <3>1, <3>2
  <2>7. QED
    BY <2>5, <2>6
<1> HIDE DEF T
<1>5. \A n \in 0 .. N : n \in T
  BY <1>1, <1>3, <1>4, UpTo
<1>6. N \in T
  BY <1>1, <1>5
<1>7. QED
  BY <1>6 DEF T, t, Total

(* Entries without multiplicity add up to 0.                               *)
LEMMA TotalOfUnreal ==
  ASSUME NEW es, Ledger(es), NEW v, \A i \in 1 .. Len(es) : Key(es[i]) = v => es[i].mult = 0
  PROVE  Total(es, v) = 0
<1> DEFINE N == Len(es)
           t == Totals(es, v)
           T == {i \in 0 .. N : t[i] = 0}
<1>1. SumsUp(t, es, v, N) /\ N \in Nat
  BY TotalsRun DEF Ledger
<1> HIDE DEF t
<1>2. 0 \in T
  BY <1>1 DEF SumsUp
<1>3. ASSUME NEW i \in Nat, i < N, i \in T PROVE i + 1 \in T
  <2>1. i + 1 \in 1 .. N /\ i + 1 \in 0 .. N /\ (i + 1) - 1 = i
    BY <1>1, <1>3
  <2>2. t[i + 1] = t[i] + Term(es[i + 1], v)
    BY <1>1, <2>1 DEF SumsUp
  <2>3. Term(es[i + 1], v) = 0
    BY <2>1 DEF Term
  <2>4. QED
    BY <1>3, <2>1, <2>2, <2>3
<1> HIDE DEF T
<1>4. \A i \in 0 .. N : i \in T
  BY <1>1, <1>2, <1>3, UpTo
<1>5. N \in T
  BY <1>1, <1>4
<1>6. QED
  BY <1>5 DEF T, t, Total

(* The parts of an entry.                                                  *)
LEMMA EntryFields ==
  ASSUME NEW relation, NEW values, NEW mult
  PROVE  LET e == Entry(relation, values, mult) IN
         e.relation = relation /\ e.values = values /\ e.mult = mult /\ Key(e) = <<relation, values>>
BY DEF Entry, Key

=============================================================================
