------------------------ MODULE OperationTablesProofs -----------------------
(***************************************************************************)
(* Proofs about the tables of the operations: the arithmetic of the limbs, *)
(* the rows that are recorded, the constraints that accept them, the       *)
(* lookups of bytes that cancel, and the hashes that the poseidon table    *)
(* yields.                                                                 *)
(*                                                                         *)
(* The rows are operations (RowsRecorded, an inductive invariant), so what *)
(* holds of the row of any operation holds in every state; and the counts  *)
(* of record.rs are those of the rows (BytesCounted, inductive with it).   *)
(***************************************************************************)
EXTENDS OperationTables, CommonProofs

-----------------------------------------------------------------------------
(* The limbs and the numbers they stand for                                *)

(* The weights are positive, and each is Base times the one before.        *)
LEMMA WeightRuns ==
  /\ Weight \in [0 .. NLimbs -> Nat \ {0}] /\ Weight[0] = 1
  /\ \A i \in Index : Weight[i] = Base * Weight[i - 1]
<1> DEFINE S == Nat \ {0}
           step == [i \in Index |-> [w \in S |-> Base * w]]
           Def(g) == g = [i \in 0 .. NLimbs |-> IF i = 0 THEN 1 ELSE Base * g[i - 1]]
<1>1. NLimbs \in Nat /\ Index = 1 .. NLimbs
  BY LimbsAssumption DEF Index
<1>2. \A i \in 1 .. NLimbs : \A w \in S : step[i][w] \in S
  BY <1>1, LimbsAssumption
<1>3. \A i \in 1 .. NLimbs : \A w \in S : step[i][w] = Base * w
  BY <1>1
<1>4. 1 \in S
  OBVIOUS
<1>5. \A i \in 1 .. NLimbs : i \in 0 .. NLimbs /\ i - 1 \in 0 .. NLimbs /\ i # 0
  BY <1>1
<1>6. Weight = CHOOSE w : Def(w)
  BY DEF Weight
<1> HIDE DEF step, S
<1>7. PICK g : Runs(g, NLimbs, S, 1, step)
  BY <1>1, <1>2, <1>4, Recursion
<1>8. Def(g)
  <2>1. g = [i \in 0 .. NLimbs |-> g[i]] /\ g \in [0 .. NLimbs -> S]
    BY <1>7 DEF Runs
  <2>2. ASSUME NEW i \in 0 .. NLimbs PROVE g[i] = IF i = 0 THEN 1 ELSE Base * g[i - 1]
    <3>1. CASE i = 0
      BY <1>7, <3>1 DEF Runs
    <3>2. CASE i # 0
      <4>1. i \in 1 .. NLimbs /\ i - 1 \in 0 .. NLimbs
        BY <1>1, <3>2
      <4>2. g[i] = step[i][g[i - 1]] /\ g[i - 1] \in S
        BY <1>7, <2>1, <4>1 DEF Runs
      <4>3. QED
        BY <1>3, <3>2, <4>1, <4>2
    <3>3. QED
      BY <3>1, <3>2
  <2>3. QED
    BY <2>1, <2>2
<1> DEFINE w == Weight
<1>9. Def(w)
  <2> HIDE DEF Def
  <2>1. QED
    BY <1>6, <1>8
<1> HIDE DEF w
<1>10. w = [i \in 0 .. NLimbs |-> w[i]]
  BY <1>9
<1>11. ASSUME NEW i \in 0 .. NLimbs PROVE w[i] = IF i = 0 THEN 1 ELSE Base * w[i - 1]
  BY <1>9
<1>12. w[0] = 1 /\ \A i \in 1 .. NLimbs : w[i] = Base * w[i - 1]
  BY <1>1, <1>5, <1>11
<1>13. Runs(w, NLimbs, S, 1, step)
  BY <1>1, <1>2, <1>3, <1>4, <1>10, <1>12, RecursionRuns
<1>14. QED
  BY <1>1, <1>12, <1>13 DEF Runs, w, S

(* Prefix sums.                                                            *)
LEMMA SumsRun ==
  ASSUME NEW f \in [Index -> Int]
  PROVE  /\ Sums(f) \in [0 .. NLimbs -> Int] /\ Sums(f)[0] = 0
         /\ \A i \in Index : Sums(f)[i] = Sums(f)[i - 1] + f[i]
<1> DEFINE step == [i \in Index |-> [s \in Int |-> s + f[i]]]
           Def(g) == g = [i \in 0 .. NLimbs |-> IF i = 0 THEN 0 ELSE g[i - 1] + f[i]]
<1>1. NLimbs \in Nat /\ Index = 1 .. NLimbs
  BY LimbsAssumption DEF Index
<1>2. \A i \in 1 .. NLimbs : \A s \in Int : step[i][s] \in Int
  BY <1>1
<1>3. \A i \in 1 .. NLimbs : \A s \in Int : step[i][s] = s + f[i]
  BY <1>1
<1>4. 0 \in Int
  OBVIOUS
<1>5. \A i \in 1 .. NLimbs : i \in 0 .. NLimbs /\ i - 1 \in 0 .. NLimbs /\ i # 0
  BY <1>1
<1>6. Sums(f) = CHOOSE g : Def(g)
  BY DEF Sums
<1> HIDE DEF step
<1>7. PICK g : Runs(g, NLimbs, Int, 0, step)
  BY <1>1, <1>2, <1>4, Recursion
<1>8. Def(g)
  <2>1. g = [i \in 0 .. NLimbs |-> g[i]] /\ g \in [0 .. NLimbs -> Int]
    BY <1>7 DEF Runs
  <2>2. ASSUME NEW i \in 0 .. NLimbs PROVE g[i] = IF i = 0 THEN 0 ELSE g[i - 1] + f[i]
    <3>1. CASE i = 0
      BY <1>7, <3>1 DEF Runs
    <3>2. CASE i # 0
      <4>1. i \in 1 .. NLimbs /\ i - 1 \in 0 .. NLimbs
        BY <1>1, <3>2
      <4>2. g[i] = step[i][g[i - 1]] /\ g[i - 1] \in Int
        BY <1>7, <2>1, <4>1 DEF Runs
      <4>3. QED
        BY <1>3, <3>2, <4>1, <4>2
    <3>3. QED
      BY <3>1, <3>2
  <2>3. QED
    BY <2>1, <2>2
<1> DEFINE s == Sums(f)
<1>9. Def(s)
  <2> HIDE DEF Def
  <2>1. QED
    BY <1>6, <1>8
<1> HIDE DEF s
<1>10. s = [i \in 0 .. NLimbs |-> s[i]]
  BY <1>9
<1>11. ASSUME NEW i \in 0 .. NLimbs PROVE s[i] = IF i = 0 THEN 0 ELSE s[i - 1] + f[i]
  BY <1>9
<1>12. s[0] = 0 /\ \A i \in 1 .. NLimbs : s[i] = s[i - 1] + f[i]
  BY <1>1, <1>5, <1>11
<1>13. Runs(s, NLimbs, Int, 0, step)
  BY <1>1, <1>2, <1>3, <1>4, <1>10, <1>12, RecursionRuns, ZenonT(30)
<1>14. QED
  BY <1>1, <1>12, <1>13 DEF Runs, s

(* Numerals: sequences of limbs.                                           *)
Numeral == [Index -> Limb]

(* The carries are 0 or 1, each from the sum of two limbs and the carry    *)
(* below.                                                                  *)
LEMMA CarriesRun ==
  ASSUME NEW a \in Numeral, NEW b \in Numeral
  PROVE  /\ Carries(a, b) \in [0 .. NLimbs -> {0, 1}] /\ Carries(a, b)[0] = 0
         /\ \A i \in Index :
              Carries(a, b)[i] = IF a[i] + b[i] + Carries(a, b)[i - 1] >= Base THEN 1 ELSE 0
<1> DEFINE S == {0, 1}
           next(i, c) == IF a[i] + b[i] + c >= Base THEN 1 ELSE 0
           step == [i \in Index |-> [c \in S |-> next(i, c)]]
           Def(g) == g = [i \in 0 .. NLimbs |->
                            IF i > 0 /\ a[i] + b[i] + g[i - 1] >= Base THEN 1 ELSE 0]
<1>1. NLimbs \in Nat /\ Index = 1 .. NLimbs
  BY LimbsAssumption DEF Index
<1>2. \A i \in 1 .. NLimbs : \A c \in S : step[i][c] \in S /\ step[i][c] = next(i, c)
  BY <1>1
<1>3. 0 \in S
  OBVIOUS
<1>4. \A i \in 1 .. NLimbs : i \in 0 .. NLimbs /\ i - 1 \in 0 .. NLimbs /\ i > 0
  BY <1>1
<1>5. Carries(a, b) = CHOOSE g : Def(g)
  BY DEF Carries
<1> HIDE DEF step, S
<1>6. PICK g : Runs(g, NLimbs, S, 0, step)
  BY <1>1, <1>2, <1>3, Recursion
<1>7. Def(g)
  <2>1. g = [i \in 0 .. NLimbs |-> g[i]] /\ g \in [0 .. NLimbs -> S]
    BY <1>6 DEF Runs
  <2>2. ASSUME NEW i \in 0 .. NLimbs
        PROVE  g[i] = IF i > 0 /\ a[i] + b[i] + g[i - 1] >= Base THEN 1 ELSE 0
    <3>1. CASE i = 0
      BY <1>6, <3>1 DEF Runs
    <3>2. CASE i # 0
      <4>1. i \in 1 .. NLimbs /\ i - 1 \in 0 .. NLimbs /\ i > 0
        BY <1>1, <3>2
      <4>2. g[i] = step[i][g[i - 1]] /\ g[i - 1] \in S
        BY <1>6, <2>1, <4>1 DEF Runs
      <4>3. g[i] = next(i, g[i - 1])
        BY <1>2, <4>1, <4>2
      <4>4. QED
        BY <4>1, <4>3
    <3>3. QED
      BY <3>1, <3>2
  <2>3. QED
    BY <2>1, <2>2
<1> DEFINE s == Carries(a, b)
<1>8. Def(s)
  <2> HIDE DEF Def
  <2>1. QED
    BY <1>5, <1>7
<1> HIDE DEF s
<1>9. s = [i \in 0 .. NLimbs |-> s[i]]
  BY <1>8
<1>10. ASSUME NEW i \in 0 .. NLimbs
       PROVE  s[i] = IF i > 0 /\ a[i] + b[i] + s[i - 1] >= Base THEN 1 ELSE 0
  BY <1>8
<1>11. s[0] = 0
  <2>1. 0 \in 0 .. NLimbs /\ ~ (0 > 0)
    BY <1>1
  <2>2. QED
    BY <1>10, <2>1
<1>12. \A i \in 1 .. NLimbs : s[i] = next(i, s[i - 1])
  BY <1>4, <1>10
<1>13. Runs(s, NLimbs, S, 0, step)
  <2>1. \A i \in 1 .. NLimbs : s[i - 1] \in S => s[i] = step[i][s[i - 1]]
    BY <1>2, <1>12
  <2>2. \A i \in 1 .. NLimbs : \A c \in S : step[i][c] \in S
    BY <1>2
  <2> HIDE DEF next
  <2>3. QED
    BY <1>1, <1>3, <1>9, <1>11, <2>1, <2>2, RecursionRuns
<1>14. QED
  BY <1>1, <1>11, <1>12, <1>13 DEF Runs, s, S

(* The borrows are 0 or 1, each from two limbs and the borrow below.       *)
LEMMA BorrowsRun ==
  ASSUME NEW a \in Numeral, NEW b \in Numeral
  PROVE  /\ Borrows(a, b) \in [0 .. NLimbs -> {0, 1}] /\ Borrows(a, b)[0] = 0
         /\ \A i \in Index :
              Borrows(a, b)[i] = IF a[i] < b[i] + Borrows(a, b)[i - 1] THEN 1 ELSE 0
<1> DEFINE S == {0, 1}
           next(i, c) == IF a[i] < b[i] + c THEN 1 ELSE 0
           step == [i \in Index |-> [c \in S |-> next(i, c)]]
           Def(g) == g = [i \in 0 .. NLimbs |->
                            IF i > 0 /\ a[i] < b[i] + g[i - 1] THEN 1 ELSE 0]
<1>1. NLimbs \in Nat /\ Index = 1 .. NLimbs
  BY LimbsAssumption DEF Index
<1>2. \A i \in 1 .. NLimbs : \A c \in S : step[i][c] \in S /\ step[i][c] = next(i, c)
  BY <1>1
<1>3. 0 \in S
  OBVIOUS
<1>4. \A i \in 1 .. NLimbs : i \in 0 .. NLimbs /\ i - 1 \in 0 .. NLimbs /\ i > 0
  BY <1>1
<1>5. Borrows(a, b) = CHOOSE g : Def(g)
  BY DEF Borrows
<1> HIDE DEF step, S
<1>6. PICK g : Runs(g, NLimbs, S, 0, step)
  BY <1>1, <1>2, <1>3, Recursion
<1>7. Def(g)
  <2>1. g = [i \in 0 .. NLimbs |-> g[i]] /\ g \in [0 .. NLimbs -> S]
    BY <1>6 DEF Runs
  <2>2. ASSUME NEW i \in 0 .. NLimbs
        PROVE  g[i] = IF i > 0 /\ a[i] < b[i] + g[i - 1] THEN 1 ELSE 0
    <3>1. CASE i = 0
      BY <1>6, <3>1 DEF Runs
    <3>2. CASE i # 0
      <4>1. i \in 1 .. NLimbs /\ i - 1 \in 0 .. NLimbs /\ i > 0
        BY <1>1, <3>2
      <4>2. g[i] = step[i][g[i - 1]] /\ g[i - 1] \in S
        BY <1>6, <2>1, <4>1 DEF Runs
      <4>3. g[i] = next(i, g[i - 1])
        BY <1>2, <4>1, <4>2
      <4>4. QED
        BY <4>1, <4>3
    <3>3. QED
      BY <3>1, <3>2
  <2>3. QED
    BY <2>1, <2>2
<1> DEFINE s == Borrows(a, b)
<1>8. Def(s)
  <2> HIDE DEF Def
  <2>1. QED
    BY <1>5, <1>7
<1> HIDE DEF s
<1>9. s = [i \in 0 .. NLimbs |-> s[i]]
  BY <1>8
<1>10. ASSUME NEW i \in 0 .. NLimbs
       PROVE  s[i] = IF i > 0 /\ a[i] < b[i] + s[i - 1] THEN 1 ELSE 0
  BY <1>8
<1>11. s[0] = 0
  <2>1. 0 \in 0 .. NLimbs /\ ~ (0 > 0)
    BY <1>1
  <2>2. QED
    BY <1>10, <2>1
<1>12. \A i \in 1 .. NLimbs : s[i] = next(i, s[i - 1])
  BY <1>4, <1>10
<1>13. Runs(s, NLimbs, S, 0, step)
  <2>1. \A i \in 1 .. NLimbs : s[i - 1] \in S => s[i] = step[i][s[i - 1]]
    BY <1>2, <1>12
  <2>2. \A i \in 1 .. NLimbs : \A c \in S : step[i][c] \in S
    BY <1>2
  <2> HIDE DEF next
  <2>3. QED
    BY <1>1, <1>3, <1>9, <1>11, <2>1, <2>2, RecursionRuns
<1>14. QED
  BY <1>1, <1>11, <1>12, <1>13 DEF Runs, s, S

(* What the first limbs are worth.                                         *)
Low(x) == Sums(Worth(x))

(* The parameters as numbers.                                              *)
LEMMA LimbsAreNumbers ==
  /\ NLimbs \in Nat /\ Index = 1 .. NLimbs /\ Base \in Nat /\ Base > 1
  /\ \A x \in Numeral : x \in [Index -> Nat] /\ x \in [Index -> Int] /\ \A i \in Index : x[i] < Base
  /\ \A i \in Index : i \in 0 .. NLimbs /\ i - 1 \in 0 .. NLimbs
  /\ NLimbs \in Index /\ NLimbs \in 0 .. NLimbs
BY LimbsAssumption DEF Numeral, Limb, Index

(* Low(x)[i] is the number that the i lower limbs stand for.               *)
LEMMA LowRuns ==
  ASSUME NEW x \in [Index -> Int]
  PROVE  /\ Low(x) \in [0 .. NLimbs -> Int] /\ Low(x)[0] = 0
         /\ \A i \in Index : Low(x)[i] = Low(x)[i - 1] + x[i] * Weight[i - 1]
<1>1. \A i \in Index : Weight[i - 1] \in Nat
  BY WeightRuns, LimbsAreNumbers
<1>2. \A i \in Index : x[i] * Weight[i - 1] \in Int
  BY <1>1
<1>3. Worth(x) \in [Index -> Int] /\ \A i \in Index : Worth(x)[i] = x[i] * Weight[i - 1]
  BY <1>2 DEF Worth
<1>4. QED
  BY <1>3, SumsRun DEF Low

(* The i lower limbs stand for less than the weight of the next one.       *)
LEMMA LowBelow ==
  ASSUME NEW x \in Numeral
  PROVE  \A i \in 0 .. NLimbs : Low(x)[i] \in Nat /\ Low(x)[i] < Weight[i]
<1> DEFINE low == Low(x)
           T == {i \in 0 .. NLimbs : low[i] \in Nat /\ low[i] < Weight[i]}
<1>1. NLimbs \in Nat /\ Index = 1 .. NLimbs /\ Base \in Nat /\ x \in [Index -> Nat]
      /\ \A i \in Index : x[i] < Base
  BY LimbsAreNumbers
<1>2. low[0] = 0 /\ \A i \in Index : low[i] = low[i - 1] + x[i] * Weight[i - 1]
  BY LowRuns, LimbsAreNumbers
<1> HIDE DEF low
<1>3. 0 \in T
  BY <1>1, <1>2, WeightRuns
<1>4. ASSUME NEW i \in Nat, i < NLimbs, i \in T PROVE i + 1 \in T
  <2>1. i + 1 \in Index /\ i + 1 \in 0 .. NLimbs /\ (i + 1) - 1 = i /\ i \in 0 .. NLimbs
    BY <1>1, <1>4
  <2> DEFINE w == Weight[i]
             d == x[i + 1]
             l == low[i]
  <2>2. Weight[i + 1] = Base * w /\ w \in Nat
    BY <2>1, WeightRuns
  <2>3. low[i + 1] = l + d * w /\ l \in Nat /\ l < w
    BY <1>2, <1>4, <2>1
  <2>4. d \in Nat /\ d < Base
    BY <1>1, <2>1
  <2> HIDE DEF w, d, l
  <2>5. d * w \in Nat /\ d * w + w <= Base * w
    <3>1. d + 1 <= Base
      BY <1>1, <2>4
    <3>2. (d + 1) * w <= Base * w
      BY <1>1, <2>2, <2>4, <3>1
    <3>3. QED
      BY <2>2, <2>4, <3>2
  <2>6. QED
    BY <1>1, <2>1, <2>2, <2>3, <2>5
<1> HIDE DEF T
<1>5. \A i \in 0 .. NLimbs : i \in T
  BY <1>1, <1>3, <1>4, UpTo
<1>6. QED
  BY <1>5 DEF T, low

(* The remainder of a longer divisor has one digit more.                   *)
LEMMA DigitOfRemainder ==
  ASSUME NEW n \in Nat, NEW w \in Nat \ {0}, NEW b \in Nat \ {0}
  PROVE  n % (b * w) = (n % w) + ((n \div w) % b) * w
<1> DEFINE q == n \div w
           r == n % w
           p == q \div b
           d == q % b
<1>1. q \in Nat /\ r \in 0 .. w - 1 /\ n = w * q + r
  OBVIOUS
<1> HIDE DEF q, r
<1>2. p \in Nat /\ d \in 0 .. b - 1 /\ q = b * p + d
  BY <1>1
<1> HIDE DEF p, d
<1> DEFINE m == b * w
           e == w * d + r
<1>3. m \in Nat \ {0}
  OBVIOUS
<1>4. n = m * p + e
  <2>1. n = w * (b * p + d) + r
    BY <1>1, <1>2
  <2>2. w * (b * p + d) = w * (b * p) + w * d
    BY <1>2
  <2>3. w * (b * p) = (b * w) * p
    BY <1>2
  <2>4. (b * w) * p \in Nat /\ w * d \in Nat
    BY <1>2
  <2>5. QED
    BY <1>1, <2>1, <2>2, <2>3, <2>4
<1>5. e \in 0 .. m - 1
  <2>1. d \in Nat /\ d + 1 <= b
    BY <1>2
  <2>2. w * (d + 1) <= w * b
    BY <2>1
  <2>3. w * (d + 1) = w * d + w /\ w * d \in Nat /\ w * b = b * w
    BY <2>1
  <2>4. QED
    BY <1>1, <1>3, <2>2, <2>3
<1> HIDE DEF m, e
<1>6. n % m = e
  BY <1>2, <1>3, <1>4, <1>5, DivisionIs
<1>7. e = r + d * w
  BY <1>1, <1>2 DEF e
<1>8. QED
  BY <1>6, <1>7 DEF m, d, q, r

(* from_u64 gives limbs.                                                   *)
LEMMA FromU64IsNumeral ==
  ASSUME NEW n \in Nat
  PROVE  /\ FromU64(n) \in Numeral
         /\ \A i \in Index : FromU64(n)[i] = (n \div Weight[i - 1]) % Base
<1>1. ASSUME NEW i \in Index PROVE (n \div Weight[i - 1]) % Base \in Limb
  <2>1. Weight[i - 1] \in Nat \ {0}
    BY WeightRuns, LimbsAreNumbers
  <2>2. n \div Weight[i - 1] \in Nat
    BY <2>1, Division
  <2>3. Base \in Nat \ {0}
    BY LimbsAreNumbers
  <2>4. QED
    BY <2>2, <2>3, Division DEF Limb
<1>2. QED
  BY <1>1 DEF FromU64, Numeral

(* from_u64 takes the digits one by one: the lower ones are the remainder. *)
LEMMA LowOfFromU64 ==
  ASSUME NEW n \in Nat
  PROVE  \A i \in 0 .. NLimbs : Low(FromU64(n))[i] = n % Weight[i]
<1> DEFINE x == FromU64(n)
           low == Low(x)
           T == {i \in 0 .. NLimbs : low[i] = n % Weight[i]}
<1>1. NLimbs \in Nat /\ Index = 1 .. NLimbs /\ Base \in Nat \ {0} /\ x \in [Index -> Int]
  <2>1. x \in Numeral
    BY FromU64IsNumeral
  <2> HIDE DEF x
  <2>2. QED
    BY <2>1, LimbsAreNumbers
<1>2. low[0] = 0 /\ \A i \in Index : low[i] = low[i - 1] + x[i] * Weight[i - 1]
  BY <1>1, LowRuns
<1>3. \A i \in Index : x[i] = (n \div Weight[i - 1]) % Base
  BY FromU64IsNumeral
<1> HIDE DEF low, x
<1>4. 0 \in T
  <2>1. n % 1 = 0
    OBVIOUS
  <2>2. QED
    BY <1>1, <1>2, <2>1, WeightRuns
<1>5. ASSUME NEW i \in Nat, i < NLimbs, i \in T PROVE i + 1 \in T
  <2>1. i + 1 \in Index /\ i + 1 \in 0 .. NLimbs /\ (i + 1) - 1 = i /\ i \in 0 .. NLimbs
    BY <1>1, <1>5
  <2>2. Weight[i] \in Nat \ {0} /\ Weight[i + 1] = Base * Weight[i]
    BY <2>1, WeightRuns
  <2>3. low[i + 1] = (n % Weight[i]) + ((n \div Weight[i]) % Base) * Weight[i]
    BY <1>2, <1>3, <1>5, <2>1
  <2>4. n % (Base * Weight[i]) = (n % Weight[i]) + ((n \div Weight[i]) % Base) * Weight[i]
    BY <1>1, <2>2, DigitOfRemainder
  <2>5. QED
    BY <2>1, <2>2, <2>3, <2>4
<1> HIDE DEF T
<1>6. \A i \in 0 .. NLimbs : i \in T
  BY <1>1, <1>4, <1>5, UpTo
<1>7. QED
  BY <1>6 DEF T, low, x

(* Equal numbers have equal limbs: from the top one down, the quotients    *)
(* and the remainders are equal.                                           *)
LEMMA SameNumber ==
  ASSUME NEW x \in Numeral, NEW y \in Numeral, ToU64(x) = ToU64(y)
  PROVE  x = y
<1> DEFINE lx == Low(x)
           ly == Low(y)
           T == {k \in 0 .. NLimbs : lx[NLimbs - k] = ly[NLimbs - k]}
<1>1. /\ NLimbs \in Nat /\ Index = 1 .. NLimbs
      /\ x \in [Index -> Nat] /\ y \in [Index -> Nat]
  BY LimbsAreNumbers
<1>2. /\ \A i \in Index : lx[i] = lx[i - 1] + x[i] * Weight[i - 1]
      /\ \A i \in Index : ly[i] = ly[i - 1] + y[i] * Weight[i - 1]
  BY LowRuns, LimbsAreNumbers
<1>3. \A i \in 0 .. NLimbs : /\ lx[i] \in Nat /\ lx[i] < Weight[i]
                             /\ ly[i] \in Nat /\ ly[i] < Weight[i]
  BY LowBelow
<1>4. lx[NLimbs] = ly[NLimbs]
  BY DEF ToU64, Sum, Low
<1> HIDE DEF lx, ly
<1>5. ASSUME NEW i \in Index, lx[i] = ly[i] PROVE x[i] = y[i] /\ lx[i - 1] = ly[i - 1]
  <2> DEFINE w == Weight[i - 1]
             p == x[i]
             q == y[i]
             r == lx[i - 1]
             s == ly[i - 1]
  <2>1. i - 1 \in 0 .. NLimbs /\ w \in Nat \ {0} /\ p \in Nat /\ q \in Nat
    BY <1>1, WeightRuns
  <2>2. r \in 0 .. w - 1 /\ s \in 0 .. w - 1
    BY <1>3, <2>1
  <2>3. r + p * w = s + q * w
    BY <1>2, <1>5
  <2> HIDE DEF w, p, q, r, s
  <2>4. w * p + r = w * q + s
    BY <2>1, <2>2, <2>3
  <2>5. p = q /\ r = s
    BY <2>1, <2>2, <2>4, QuotientUnique
  <2>6. QED
    BY <2>5 DEF p, q, r, s
<1>6. 0 \in T
  BY <1>1, <1>4
<1>7. ASSUME NEW k \in Nat, k < NLimbs, k \in T PROVE k + 1 \in T
  <2>1. NLimbs - k \in Index /\ (NLimbs - k) - 1 = NLimbs - (k + 1) /\ k + 1 \in 0 .. NLimbs
    BY <1>1, <1>7
  <2>2. lx[NLimbs - k] = ly[NLimbs - k]
    BY <1>7
  <2>3. QED
    BY <1>5, <2>1, <2>2
<1> HIDE DEF T
<1>8. \A k \in 0 .. NLimbs : k \in T
  BY <1>1, <1>6, <1>7, UpTo
<1>9. ASSUME NEW i \in Index PROVE x[i] = y[i]
  <2>1. NLimbs - i \in 0 .. NLimbs /\ NLimbs - (NLimbs - i) = i
    BY <1>1
  <2>2. lx[i] = ly[i]
    BY <1>8, <2>1 DEF T
  <2>3. QED
    BY <1>5, <2>2
<1>10. QED
  BY <1>1, <1>9

(* A number below 2^64, and only that, survives the conversion.            *)
LEMMA RoundTrip ==
  /\ \A x \in Numeral : ToU64(x) \in 0 .. Weight[NLimbs] - 1
  /\ \A n \in Nat : FromU64(n) \in Numeral /\ ToU64(FromU64(n)) = n % Weight[NLimbs]
  /\ \A n \in 0 .. Weight[NLimbs] - 1 : ToU64(FromU64(n)) = n
  /\ \A x \in Numeral : FromU64(ToU64(x)) = x
<1>1. Weight[NLimbs] \in Nat \ {0} /\ NLimbs \in 0 .. NLimbs
  BY WeightRuns, LimbsAreNumbers
<1>2. ASSUME NEW x \in Numeral PROVE ToU64(x) \in 0 .. Weight[NLimbs] - 1
  BY <1>1, LowBelow DEF ToU64, Sum, Low
<1>3. ASSUME NEW n \in Nat
      PROVE  FromU64(n) \in Numeral /\ ToU64(FromU64(n)) = n % Weight[NLimbs]
  BY <1>1, LowOfFromU64, FromU64IsNumeral DEF ToU64, Sum, Low
<1>4. ASSUME NEW n \in 0 .. Weight[NLimbs] - 1 PROVE ToU64(FromU64(n)) = n
  <2> DEFINE w == Weight[NLimbs]
  <2>1. n \in Nat /\ w \in Nat \ {0} /\ n \in 0 .. w - 1
    BY <1>1
  <2> HIDE DEF w
  <2>2. n % w = n
    BY <2>1
  <2>3. QED
    BY <1>3, <2>1, <2>2 DEF w
<1>5. ASSUME NEW x \in Numeral PROVE FromU64(ToU64(x)) = x
  <2> DEFINE n == ToU64(x)
  <2>1. n \in 0 .. Weight[NLimbs] - 1 /\ n \in Nat
    BY <1>1, <1>2
  <2> HIDE DEF n
  <2>2. FromU64(n) \in Numeral /\ ToU64(FromU64(n)) = n
    BY <1>3, <1>4, <2>1
  <2>3. ToU64(FromU64(n)) = ToU64(x)
    BY <2>2 DEF n
  <2>4. FromU64(n) = x
    BY <2>2, <2>3, SameNumber
  <2>5. QED
    BY <2>4 DEF n
<1>6. QED
  BY <1>2, <1>3, <1>4, <1>5

-----------------------------------------------------------------------------
(* Addition, subtraction and order                                         *)

(* Carrying from limb to limb keeps the sum.                               *)
LEMMA CarryChain ==
  ASSUME NEW a \in [Index -> Int], NEW b \in [Index -> Int], NEW s \in [Index -> Int],
         NEW c \in [0 .. NLimbs -> Int], c[0] = 0,
         \A i \in Index : a[i] + b[i] + c[i - 1] = s[i] + Base * c[i]
  PROVE  \A i \in 0 .. NLimbs : Low(a)[i] + Low(b)[i] = Low(s)[i] + c[i] * Weight[i]
<1> DEFINE la == Low(a)
           lb == Low(b)
           ls == Low(s)
           T == {i \in 0 .. NLimbs : la[i] + lb[i] = ls[i] + c[i] * Weight[i]}
<1>1. NLimbs \in Nat /\ Index = 1 .. NLimbs /\ Base \in Nat
  BY LimbsAreNumbers
<1>2. /\ la \in [0 .. NLimbs -> Int] /\ la[0] = 0
      /\ lb \in [0 .. NLimbs -> Int] /\ lb[0] = 0
      /\ ls \in [0 .. NLimbs -> Int] /\ ls[0] = 0
      /\ \A i \in Index : la[i] = la[i - 1] + a[i] * Weight[i - 1]
      /\ \A i \in Index : lb[i] = lb[i - 1] + b[i] * Weight[i - 1]
      /\ \A i \in Index : ls[i] = ls[i - 1] + s[i] * Weight[i - 1]
  BY LowRuns
<1> HIDE DEF la, lb, ls
<1>3. 0 \in T
  BY <1>1, <1>2, WeightRuns
<1>4. ASSUME NEW i \in Nat, i < NLimbs, i \in T PROVE i + 1 \in T
  <2>1. i + 1 \in Index /\ i + 1 \in 0 .. NLimbs /\ (i + 1) - 1 = i /\ i \in 0 .. NLimbs
    BY <1>1, <1>4
  <2> DEFINE w == Weight[i]
             x == a[i + 1]
             y == b[i + 1]
             z == s[i + 1]
             c0 == c[i]
             c1 == c[i + 1]
             p == la[i]
             q == lb[i]
             r == ls[i]
  <2>2. /\ w \in Nat /\ x \in Int /\ y \in Int /\ z \in Int /\ c0 \in Int /\ c1 \in Int
        /\ p \in Int /\ q \in Int /\ r \in Int
    BY <1>2, <2>1, WeightRuns
  <2>3. /\ la[i + 1] = p + x * w /\ lb[i + 1] = q + y * w /\ ls[i + 1] = r + z * w
        /\ Weight[i + 1] = Base * w
    BY <1>2, <2>1, WeightRuns
  <2>4. x + y + c0 = z + Base * c1
    BY <2>1
  <2>5. p + q = r + c0 * w
    BY <1>4
  <2> HIDE DEF w, x, y, z, c0, c1, p, q, r
  <2>6. (p + x * w) + (q + y * w) = (r + z * w) + c1 * (Base * w)
    <3>1. (p + x * w) + (q + y * w) = r + (x + y + c0) * w
      BY <2>2, <2>5
    <3>2. (z + Base * c1) * w = z * w + c1 * (Base * w)
      BY <1>1, <2>2
    <3>3. z * w \in Int /\ c1 * (Base * w) \in Int
      BY <1>1, <2>2
    <3>4. QED
      BY <2>2, <2>4, <3>1, <3>2, <3>3
  <2>7. la[i + 1] + lb[i + 1] = ls[i + 1] + c[i + 1] * Weight[i + 1]
    BY <2>3, <2>6 DEF c1
  <2>8. QED
    BY <2>1, <2>7
<1> HIDE DEF T
<1>5. \A i \in 0 .. NLimbs : i \in T
  BY <1>1, <1>3, <1>4, UpTo
<1>6. QED
  BY <1>5 DEF T, la, lb, ls

(* The chain of carries, for the numbers that the lower limbs stand for.   *)
LEMMA ChainOfNumbers ==
  ASSUME NEW a \in Numeral, NEW b \in Numeral, NEW s \in Numeral,
         NEW c \in [0 .. NLimbs -> {0, 1}], c[0] = 0,
         \A i \in Index : a[i] + b[i] + c[i - 1] = s[i] + Base * c[i]
  PROVE  ToU64(a) + ToU64(b) = ToU64(s) + c[NLimbs] * Weight[NLimbs]
<1>1. /\ a \in [Index -> Int] /\ b \in [Index -> Int] /\ s \in [Index -> Int]
      /\ c \in [0 .. NLimbs -> Int] /\ NLimbs \in 0 .. NLimbs
  BY LimbsAreNumbers
<1>2. Low(a)[NLimbs] + Low(b)[NLimbs] = Low(s)[NLimbs] + c[NLimbs] * Weight[NLimbs]
  BY <1>1, CarryChain, ZenonT(60)
<1>3. QED
  BY <1>2 DEF ToU64, Sum, Low

(* The carry is the quotient by the base, the limb the remainder.          *)
LEMMA AddDigits ==
  ASSUME NEW a \in Numeral, NEW b \in Numeral
  PROVE  LET c == Carries(a, b) IN
         /\ Add(a, b) \in Numeral
         /\ \A i \in Index : /\ a[i] + b[i] + c[i - 1] = Add(a, b)[i] + Base * c[i]
                             /\ (a[i] + b[i] + c[i - 1]) % Base = Add(a, b)[i]
<1> DEFINE c == Carries(a, b)
           t(i) == a[i] + b[i] + c[i - 1]
<1>1. /\ Base \in Nat /\ Base > 1 /\ a \in [Index -> Nat] /\ b \in [Index -> Nat]
      /\ \A i \in Index : a[i] < Base /\ b[i] < Base /\ i \in 0 .. NLimbs /\ i - 1 \in 0 .. NLimbs
  BY LimbsAreNumbers
<1>2. /\ c \in [0 .. NLimbs -> {0, 1}]
      /\ \A i \in Index : c[i] = IF t(i) >= Base THEN 1 ELSE 0
  BY CarriesRun
<1>3. Add(a, b) = [i \in Index |-> a[i] + b[i] + c[i - 1] - Base * c[i]]
  BY DEF Add
<1> HIDE DEF c
<1>4. ASSUME NEW i \in Index
      PROVE  /\ t(i) - Base * c[i] \in 0 .. Base - 1
             /\ t(i) % Base = t(i) - Base * c[i] /\ t(i) \in Nat /\ c[i] \in {0, 1}
  <2>1. a[i] \in Nat /\ b[i] \in Nat /\ a[i] < Base /\ b[i] < Base /\ c[i - 1] \in {0, 1}
    BY <1>1, <1>2
  <2>2. t(i) \in Nat /\ t(i) < 2 * Base
    BY <1>1, <2>1
  <2>3. c[i] = IF t(i) >= Base THEN 1 ELSE 0
    BY <1>2
  <2> HIDE DEF t
  <2>4. CASE t(i) >= Base
    <3>1. c[i] = 1 /\ Base * 1 = Base /\ t(i) - Base \in 0 .. Base - 1
      BY <1>1, <2>2, <2>3, <2>4
    <3>2. t(i) = Base * 1 + (t(i) - Base) /\ 1 \in Int /\ Base \in Nat \ {0}
      BY <1>1, <2>2
    <3>3. t(i) % Base = t(i) - Base
      BY <3>1, <3>2, DivisionIs
    <3>4. QED
      BY <2>2, <3>1, <3>3
  <2>5. CASE t(i) < Base
    <3>1. c[i] = 0 /\ Base * 0 = 0 /\ t(i) \in 0 .. Base - 1 /\ t(i) - 0 = t(i)
      BY <1>1, <2>2, <2>3, <2>5
    <3>2. t(i) % Base = t(i)
      BY <1>1, <3>1
    <3>3. QED
      BY <2>2, <3>1, <3>2
  <2>6. QED
    BY <1>1, <2>2, <2>4, <2>5
<1>5. ASSUME NEW i \in Index PROVE Add(a, b)[i] = t(i) - Base * c[i]
  <2>1. a[i] \in Nat /\ b[i] \in Nat /\ c[i - 1] \in Nat /\ Base * c[i] \in Nat
    BY <1>1, <1>2
  <2>2. QED
    BY <1>3, <2>1
<1>6. Add(a, b) \in Numeral
  <2>1. Add(a, b) = [i \in Index |-> Add(a, b)[i]]
    BY <1>3
  <2>2. QED
    BY <1>4, <1>5, <2>1 DEF Numeral, Limb
<1>7. ASSUME NEW i \in Index
      PROVE  t(i) = Add(a, b)[i] + Base * c[i] /\ t(i) % Base = Add(a, b)[i]
  <2>1. Add(a, b)[i] = t(i) - Base * c[i]
    BY <1>5
  <2>2. Base * c[i] \in Int /\ t(i) \in Int
    BY <1>1, <1>4
  <2> HIDE DEF t
  <2>3. t(i) = Add(a, b)[i] + Base * c[i]
    BY <2>1, <2>2
  <2>4. t(i) % Base = Add(a, b)[i]
    <3> HIDE DEF c
    <3>1. t(i) % Base = t(i) - Base * c[i]
      BY <1>4 DEF t
    <3>2. QED
      BY <2>1, <3>1
  <2>5. QED
    BY <2>3, <2>4
<1>8. QED
  BY <1>6, <1>7 DEF c

(* Add adds, and panics when the sum is not a u64.                         *)
LEMMA AddAdds ==
  ASSUME NEW a \in Numeral, NEW b \in Numeral
  PROVE  LET m == ToU64(a)  n == ToU64(b) IN
         /\ AddPanics(a, b) <=> m + n >= Weight[NLimbs]
         /\ ~ AddPanics(a, b) => Add(a, b) = FromU64(m + n)
         /\ ToU64(Add(a, b)) = (m + n) % Weight[NLimbs]
<1> DEFINE m == ToU64(a)
           n == ToU64(b)
           s == Add(a, b)
           r == ToU64(s)
           c == Carries(a, b)
           w == Weight[NLimbs]
<1>1. s \in Numeral /\ c \in [0 .. NLimbs -> {0, 1}] /\ c[0] = 0 /\ NLimbs \in 0 .. NLimbs
  BY AddDigits, CarriesRun, LimbsAreNumbers
<1>2. \A i \in Index : a[i] + b[i] + c[i - 1] = s[i] + Base * c[i]
  BY AddDigits
<1> HIDE DEF s, c
<1>3. m + n = r + c[NLimbs] * w
  BY <1>1, <1>2, ChainOfNumbers
<1>4. m \in 0 .. w - 1 /\ n \in 0 .. w - 1 /\ r \in 0 .. w - 1 /\ w \in Nat \ {0}
  BY <1>1, RoundTrip, WeightRuns
<1>5. c[NLimbs] \in {0, 1}
  BY <1>1
<1>6. AddPanics(a, b) <=> c[NLimbs] # 0
  BY DEF AddPanics, c
<1>7. c[NLimbs] = 0 => s = FromU64(r)
  BY <1>1, RoundTrip
<1> HIDE DEF m, n, r, w
<1>8. CASE c[NLimbs] = 0
  <2>1. 0 * w = 0 /\ m + n = r /\ m + n < w
    BY <1>3, <1>4, <1>8
  <2>2. (m + n) % w = r
    BY <1>4, <2>1
  <2>3. QED
    BY <1>4, <1>6, <1>7, <1>8, <2>1, <2>2 DEF m, n, r, w, s
<1>9. CASE c[NLimbs] = 1
  <2>1. 1 * w = w /\ m + n = w + r
    BY <1>3, <1>4, <1>9
  <2>2. w * 1 + r = m + n /\ m + n >= w /\ 1 \in Int
    BY <1>4, <2>1
  <2>3. (m + n) % w = r
    BY <1>4, <2>2, DivisionIs
  <2>4. QED
    BY <1>6, <1>9, <2>2, <2>3 DEF m, n, r, w, s
<1>10. QED
  BY <1>5, <1>8, <1>9

(* Sub subtracts, and panics when the difference is negative.              *)
LEMMA SubSubtracts ==
  ASSUME NEW a \in Numeral, NEW b \in Numeral
  PROVE  LET m == ToU64(a)  n == ToU64(b) IN
         /\ SubPanics(a, b) <=> m < n
         /\ ~ SubPanics(a, b) => Sub(a, b) = FromU64(m - n)
<1> DEFINE m == ToU64(a)
           n == ToU64(b)
           s == Sub(a, b)
           r == ToU64(s)
           c == Borrows(a, b)
           w == Weight[NLimbs]
<1>1. /\ Base \in Nat /\ Base > 1 /\ a \in [Index -> Nat] /\ b \in [Index -> Nat]
      /\ \A i \in Index : a[i] < Base /\ b[i] < Base /\ i \in 0 .. NLimbs /\ i - 1 \in 0 .. NLimbs
      /\ NLimbs \in 0 .. NLimbs
  BY LimbsAreNumbers
<1>2. /\ c \in [0 .. NLimbs -> {0, 1}] /\ c[0] = 0
      /\ \A i \in Index : c[i] = IF a[i] < b[i] + c[i - 1] THEN 1 ELSE 0
  BY BorrowsRun
<1>3. s = [i \in Index |-> a[i] + Base * c[i] - b[i] - c[i - 1]]
  BY DEF Sub
<1> HIDE DEF s, c
<1>4. ASSUME NEW i \in Index
      PROVE  s[i] \in 0 .. Base - 1 /\ b[i] + s[i] + c[i - 1] = a[i] + Base * c[i]
  <2>1. /\ a[i] \in Nat /\ b[i] \in Nat /\ a[i] < Base /\ b[i] < Base
        /\ c[i - 1] \in {0, 1} /\ c[i] = IF a[i] < b[i] + c[i - 1] THEN 1 ELSE 0
    BY <1>1, <1>2
  <2>2. Base * 0 = 0 /\ Base * 1 = Base
    BY <1>1
  <2>3. s[i] = a[i] + Base * c[i] - b[i] - c[i - 1]
    BY <1>3
  <2>4. QED
    BY <1>1, <2>1, <2>2, <2>3
<1>5. s \in Numeral
  <2>1. s = [i \in Index |-> s[i]]
    BY <1>3
  <2>2. QED
    BY <1>4, <2>1 DEF Numeral, Limb
<1>6. n + r = m + c[NLimbs] * w
  BY <1>2, <1>4, <1>5, ChainOfNumbers, ZenonT(60)
<1>7. m \in 0 .. w - 1 /\ n \in 0 .. w - 1 /\ r \in 0 .. w - 1 /\ w \in Nat \ {0}
  BY <1>1, <1>5, RoundTrip, WeightRuns
<1>8. c[NLimbs] \in {0, 1}
  BY <1>1, <1>2
<1>9. SubPanics(a, b) <=> c[NLimbs] # 0
  BY DEF SubPanics, c
<1>10. s = FromU64(r)
  BY <1>5, RoundTrip
<1> HIDE DEF m, n, r, w
<1>11. 0 * w = 0 /\ 1 * w = w
  BY <1>7
<1>12. (c[NLimbs] = 0 => r = m - n /\ ~ (m < n)) /\ (c[NLimbs] = 1 => m < n)
  BY <1>6, <1>7, <1>8, <1>11
<1>13. QED
  BY <1>8, <1>9, <1>10, <1>12 DEF m, n, r, s

(* The number whose limb is smaller at the top difference is smaller.      *)
LEMMA SmallerAtTop ==
  ASSUME NEW a \in Numeral, NEW b \in Numeral, NEW i \in Index, Differs(a, b, i), a[i] < b[i]
  PROVE  ToU64(a) < ToU64(b)
<1> DEFINE la == Low(a)
           lb == Low(b)
           T == {k \in 0 .. NLimbs - i : la[i + k] < lb[i + k]}
<1>1. /\ NLimbs \in Nat /\ Index = 1 .. NLimbs /\ i \in 0 .. NLimbs /\ i - 1 \in 0 .. NLimbs
      /\ a \in [Index -> Int] /\ b \in [Index -> Int] /\ a \in [Index -> Nat] /\ b \in [Index -> Nat]
  BY LimbsAreNumbers
<1>2. /\ \A k \in Index : la[k] = la[k - 1] + a[k] * Weight[k - 1]
      /\ \A k \in Index : lb[k] = lb[k - 1] + b[k] * Weight[k - 1]
  BY <1>1, LowRuns
<1>3. \A k \in 0 .. NLimbs : la[k] \in Nat /\ lb[k] \in Nat /\ la[k] < Weight[k]
  BY LowBelow
<1> HIDE DEF la, lb
<1>4. la[i] < lb[i]
  <2> DEFINE w == Weight[i - 1]
             x == a[i]
             y == b[i]
             p == la[i - 1]
             q == lb[i - 1]
  <2>1. w \in Nat /\ x \in Nat /\ y \in Nat
    BY <1>1, WeightRuns
  <2>2. p \in Nat /\ q \in Nat /\ p < w
    BY <1>1, <1>3
  <2>3. la[i] = p + x * w /\ lb[i] = q + y * w
    BY <1>2
  <2>4. x + 1 <= y
    <3>1. x < y
      OBVIOUS
    <3> HIDE DEF x, y
    <3>2. QED
      BY <2>1, <3>1
  <2> HIDE DEF w, x, y, p, q
  <2>5. (x + 1) * w <= y * w /\ (x + 1) * w = x * w + w /\ x * w \in Nat /\ y * w \in Nat
    BY <2>1, <2>4
  <2>6. QED
    BY <2>1, <2>2, <2>3, <2>5
<1>5. 0 \in T
  BY <1>1, <1>4
<1>6. ASSUME NEW k \in Nat, k < NLimbs - i, k \in T PROVE k + 1 \in T
  <2>1. /\ i + (k + 1) \in Index /\ i + (k + 1) > i /\ (i + (k + 1)) - 1 = i + k
        /\ i + k \in 0 .. NLimbs /\ k + 1 \in 0 .. NLimbs - i
    BY <1>1, <1>6
  <2>2. a[i + (k + 1)] = b[i + (k + 1)]
    BY <2>1 DEF Differs
  <2>3. Weight[i + k] \in Nat /\ a[i + (k + 1)] \in Nat
    BY <1>1, <2>1, WeightRuns
  <2>4. a[i + (k + 1)] * Weight[i + k] \in Nat
    BY <2>3
  <2>5. la[i + k] < lb[i + k] /\ la[i + k] \in Nat /\ lb[i + k] \in Nat
    BY <1>3, <1>6, <2>1
  <2>6. /\ la[i + (k + 1)] = la[i + k] + a[i + (k + 1)] * Weight[i + k]
        /\ lb[i + (k + 1)] = lb[i + k] + a[i + (k + 1)] * Weight[i + k]
    BY <1>2, <2>1, <2>2
  <2>7. la[i + (k + 1)] < lb[i + (k + 1)]
    BY <2>4, <2>5, <2>6
  <2>8. QED
    BY <2>1, <2>7
<1> HIDE DEF T
<1>7. NLimbs - i \in Nat /\ NLimbs - i \in 0 .. NLimbs - i /\ i + (NLimbs - i) = NLimbs
  BY <1>1
<1>8. \A k \in 0 .. NLimbs - i : k \in T
  BY <1>5, <1>6, <1>7, UpTo
<1>9. la[NLimbs] < lb[NLimbs]
  BY <1>7, <1>8 DEF T
<1>10. QED
  BY <1>9 DEF ToU64, Sum, Low, la, lb

(* Different limbs have a top difference, and only one.                    *)
LEMMA TopDifference ==
  ASSUME NEW a \in Numeral, NEW b \in Numeral
  PROVE  /\ a # b <=> \E i \in Index : Differs(a, b, i)
         /\ \A i, j \in Index : Differs(a, b, i) /\ Differs(a, b, j) => i = j
<1>1. /\ NLimbs \in Nat /\ Index = 1 .. NLimbs
      /\ a \in [Index -> Nat] /\ b \in [Index -> Nat]
  BY LimbsAreNumbers
<1>2. ASSUME a # b PROVE \E i \in Index : Differs(a, b, i)
  <2> DEFINE D == {k \in Nat : k < NLimbs /\ a[NLimbs - k] # b[NLimbs - k]}
  <2>1. PICK i \in Index : a[i] # b[i]
    BY <1>1, <1>2
  <2>2. NLimbs - i \in Nat /\ NLimbs - i < NLimbs /\ NLimbs - (NLimbs - i) = i
    BY <1>1
  <2>3. D # {}
    BY <2>1, <2>2
  <2>4. PICK k \in D : \A l \in D : k <= l
    BY <2>3, LeastNatural
  <2>5. k \in Nat /\ k < NLimbs /\ a[NLimbs - k] # b[NLimbs - k] /\ NLimbs - k \in Index
    BY <1>1
  <2>6. ASSUME NEW j \in Index, j > NLimbs - k PROVE a[j] = b[j]
    <3>1. NLimbs - j \in Nat /\ NLimbs - j < NLimbs /\ ~ (k <= NLimbs - j) /\ NLimbs - (NLimbs - j) = j
      BY <1>1, <2>5, <2>6
    <3>2. NLimbs - j \notin D
      BY <2>4, <3>1
    <3>3. QED
      BY <3>1, <3>2
  <2>7. Differs(a, b, NLimbs - k)
    BY <2>5, <2>6 DEF Differs
  <2>8. QED
    BY <2>5, <2>7
<1>3. ASSUME NEW i \in Index, Differs(a, b, i) PROVE a # b
  BY <1>3 DEF Differs
<1>4. ASSUME NEW i \in Index, NEW j \in Index, Differs(a, b, i), Differs(a, b, j) PROVE i = j
  <2>1. ~ (j > i) /\ ~ (i > j)
    BY <1>4 DEF Differs
  <2>2. QED
    BY <1>1, <2>1
<1>5. QED
  BY <1>2, <1>3, <1>4

(* Ord::cmp orders limbs as the numbers they denote.                       *)
LEMMA OrderAgrees ==
  ASSUME NEW a \in Numeral, NEW b \in Numeral
  PROVE  /\ LessThan(a, b) <=> ToU64(a) < ToU64(b)
         /\ a = b <=> ToU64(a) = ToU64(b)
         /\ \A i \in Index : Differs(a, b, i) => (a[i] < b[i] <=> ToU64(a) < ToU64(b))
<1>1. ToU64(a) \in Int /\ ToU64(b) \in Int
  <2>1. Weight[NLimbs] \in Nat
    BY WeightRuns, LimbsAreNumbers
  <2>2. QED
    BY <2>1, RoundTrip
<1>2. ASSUME NEW i \in Index, Differs(a, b, i) PROVE a[i] < b[i] <=> ToU64(a) < ToU64(b)
  <2>1. a[i] \in Nat /\ b[i] \in Nat /\ a[i] # b[i]
    BY <1>2, LimbsAreNumbers DEF Differs
  <2>2. CASE a[i] < b[i]
    BY <1>2, <2>2, SmallerAtTop
  <2>3. CASE b[i] < a[i]
    <3>1. Differs(b, a, i)
      BY <1>2 DEF Differs
    <3>2. ToU64(b) < ToU64(a)
      BY <2>3, <3>1, SmallerAtTop
    <3>3. QED
      BY <1>1, <2>1, <2>3, <3>2
  <2>4. QED
    BY <2>1, <2>2, <2>3
<1>3. a = b <=> ToU64(a) = ToU64(b)
  BY SameNumber
<1>4. ASSUME ToU64(a) < ToU64(b) PROVE LessThan(a, b)
  <2>1. a # b
    BY <1>1, <1>4
  <2>2. PICK i \in Index : Differs(a, b, i)
    BY <2>1, TopDifference
  <2>3. QED
    BY <1>2, <1>4, <2>2 DEF LessThan
<1>5. ASSUME LessThan(a, b) PROVE ToU64(a) < ToU64(b)
  BY <1>2, <1>5 DEF LessThan
<1>6. QED
  BY <1>2, <1>3, <1>4, <1>5

-----------------------------------------------------------------------------
(* The cells of the rows                                                   *)

(* Limbs are a sequence of NLimbs cells.                                   *)
LEMMA NumeralIsSequence ==
  ASSUME NEW a \in Numeral
  PROVE  a \in Seq(Nat) /\ Len(a) = NLimbs
BY LimbsAreNumbers

(* The cells of the rows that are recorded.                                *)
LEMMA AddRowCells ==
  ASSUME NEW a \in Numeral, NEW b \in Numeral
  PROVE  LET f == AddRow(a, b)  N == NLimbs IN
         /\ f \in Seq(Nat) /\ Len(f) = 4 * N
         /\ Agree(f, 0, a, N) /\ Agree(f, N, b, N) /\ Agree(f, 2 * N, Add(a, b), N)
         /\ Agree(f, 3 * N, Carries(a, b), N - 1) /\ f[4 * N] = 1
<1> DEFINE N == NLimbs
           c == [i \in Index |-> (a[i] + b[i] + Carries(a, b)[i - 1]) % Base]
           d == [i \in 1 .. NLimbs - 1 |-> Carries(a, b)[i]]
           e == << 1 >>
           f == AddRow(a, b)
<1>1. N \in Nat \ {0} /\ Index = 1 .. N /\ N - 1 \in Nat
  BY LimbsAssumption DEF Index
<1>2. c = Add(a, b) /\ c \in Numeral
  <2>1. Add(a, b) \in Numeral /\ \A i \in Index : c[i] = Add(a, b)[i]
    BY AddDigits
  <2>2. Add(a, b) = [i \in Index |-> Add(a, b)[i]]
    BY <2>1 DEF Numeral
  <2>3. c = [i \in Index |-> Add(a, b)[i]]
    BY <2>1
  <2>4. QED
    BY <2>1, <2>2, <2>3
<1>3. a \in Seq(Nat) /\ b \in Seq(Nat) /\ c \in Seq(Nat) /\ Len(a) = N /\ Len(b) = N /\ Len(c) = N
  BY <1>2, NumeralIsSequence
<1>4. d \in Seq(Nat) /\ Len(d) = N - 1 /\ Agree(d, 0, Carries(a, b), N - 1)
  <2>1. \A i \in 1 .. N - 1 : i \in 0 .. N
    BY <1>1
  <2>2. \A i \in 1 .. N - 1 : Carries(a, b)[i] \in Nat
    <3>1. Carries(a, b) \in [0 .. N -> {0, 1}]
      BY CarriesRun
    <3>2. \A i \in 1 .. N - 1 : Carries(a, b)[i] \in {0, 1}
      BY <2>1, <3>1
    <3>3. QED
      BY <3>2
  <2>3. d \in [1 .. N - 1 -> Nat]
    BY <2>2
  <2>4. \A i \in 1 .. N - 1 : 0 + i = i
    BY <1>1
  <2>5. QED
    BY <1>1, <2>3, <2>4 DEF Agree
<1>5. e \in Seq(Nat) /\ Len(e) = 1 /\ e[1] = 1
  OBVIOUS
<1>6. f = a \o b \o c \o d \o e
  BY DEF AddRow
<1> HIDE DEF c, d, e, f, N
<1>7. /\ f \in Seq(Nat) /\ Len(f) = N + N + N + (N - 1) + 1
      /\ Agree(f, 0, a, N) /\ Agree(f, N, b, N) /\ Agree(f, N + N, c, N)
      /\ Agree(f, N + N + N, d, N - 1) /\ Agree(f, N + N + N + (N - 1), e, 1)
  <2>1. LET r == a \o b \o c \o d \o e IN
         /\ r \in Seq(Nat) /\ Len(r) = N + N + N + (N - 1) + 1
         /\ Agree(r, 0, a, N) /\ Agree(r, N, b, N) /\ Agree(r, N + N, c, N)
         /\ Agree(r, N + N + N, d, N - 1) /\ Agree(r, N + N + N + (N - 1), e, 1)
    <3>1. LET r == a \o b \o c \o d \o e
              l == Len(a)  m == Len(b)  n == Len(c)  o == Len(d)  p == Len(e)
          IN
          /\ r \in Seq(Nat) /\ Len(r) = l + m + n + o + p
          /\ Agree(r, 0, a, l) /\ Agree(r, l, b, m) /\ Agree(r, l + m, c, n)
          /\ Agree(r, l + m + n, d, o) /\ Agree(r, l + m + n + o, e, p)
      BY <1>3, <1>4, <1>5, FiveParts, ZenonT(60)
    <3>2. QED
      BY <1>3, <1>4, <1>5, <3>1
  <2>2. QED
    BY <1>6, <2>1
<1>8. N + N + N + (N - 1) + 1 = 4 * N /\ N + N = 2 * N /\ N + N + N = 3 * N
  BY <1>1
<1>9. f[4 * N] = 1
  BY <1>5, <1>7, <1>8 DEF Agree
<1>10. Agree(f, 3 * N, Carries(a, b), N - 1)
  <2>1. \A i \in 1 .. N - 1 : 0 + i = i
    BY <1>1
  <2>2. QED
    BY <1>4, <1>7, <1>8, <2>1 DEF Agree
<1>11. QED
  BY <1>2, <1>7, <1>8, <1>9, <1>10 DEF f, N

-----------------------------------------------------------------------------
(* The flags of a comparison                                               *)

(* A sum with one term left.                                               *)
LEMMA SumOfOne ==
  ASSUME NEW f \in [Index -> Int], NEW k \in Index, \A i \in Index : i # k => f[i] = 0
  PROVE  Sum(f) = f[k]
<1> DEFINE s == Sums(f)
           T == {i \in 0 .. NLimbs : s[i] = IF i < k THEN 0 ELSE f[k]}
<1>1. NLimbs \in Nat /\ Index = 1 .. NLimbs /\ NLimbs \in 0 .. NLimbs
  BY LimbsAreNumbers
<1>2. s[0] = 0 /\ \A i \in Index : s[i] = s[i - 1] + f[i]
  BY SumsRun
<1> HIDE DEF s
<1>3. 0 \in T
  BY <1>1, <1>2
<1>4. ASSUME NEW i \in Nat, i < NLimbs, i \in T PROVE i + 1 \in T
  <2>1. i + 1 \in Index /\ i + 1 \in 0 .. NLimbs /\ (i + 1) - 1 = i /\ k \in Nat /\ f[k] \in Int
    BY <1>1, <1>4
  <2>2. s[i + 1] = s[i] + f[i + 1]
    BY <1>2, <2>1
  <2>3. s[i] = IF i < k THEN 0 ELSE f[k]
    BY <1>4
  <2>4. i + 1 # k => f[i + 1] = 0
    BY <2>1
  <2>5. CASE i + 1 = k
    BY <2>1, <2>2, <2>3, <2>5
  <2>6. CASE i + 1 # k
    BY <2>1, <2>2, <2>3, <2>4, <2>6
  <2>7. QED
    BY <2>5, <2>6
<1> HIDE DEF T
<1>5. \A i \in 0 .. NLimbs : i \in T
  BY <1>1, <1>3, <1>4, UpTo
<1>6. s[NLimbs] = f[k]
  BY <1>1, <1>5 DEF T
<1>7. QED
  BY <1>6 DEF Sum, s

(* Nothing adds up to 0.                                                   *)
LEMMA SumOfZeros ==
  ASSUME NEW f \in [Index -> Int], \A i \in Index : f[i] = 0
  PROVE  Sum(f) = 0
<1>1. NLimbs \in Index
  BY LimbsAssumption DEF Index
<1>2. QED
  BY <1>1, SumOfOne

(* Sums of naturals grow.                                                  *)
LEMMA SumsGrow ==
  ASSUME NEW f \in [Index -> Nat], NEW i \in 0 .. NLimbs
  PROVE  \A j \in 0 .. NLimbs : i <= j => Sums(f)[j] \in Nat /\ Sums(f)[i] \in Nat /\ Sums(f)[i] <= Sums(f)[j]
<1> DEFINE s == Sums(f)
           P == {j \in 0 .. NLimbs : s[j] \in Nat}
           T == {j \in 0 .. NLimbs : i <= j => s[i] <= s[j]}
<1>1. NLimbs \in Nat /\ Index = 1 .. NLimbs
  BY LimbsAreNumbers
<1>2. s[0] = 0 /\ \A j \in Index : s[j] = s[j - 1] + f[j]
  <2>1. f \in [Index -> Int]
    OBVIOUS
  <2>2. QED
    BY <2>1, SumsRun
<1> HIDE DEF s
<1>3. \A j \in 0 .. NLimbs : j \in P
  <2>1. 0 \in P
    BY <1>1, <1>2
  <2>2. ASSUME NEW j \in Nat, j < NLimbs, j \in P PROVE j + 1 \in P
    <3>1. j + 1 \in Index /\ j + 1 \in 0 .. NLimbs /\ (j + 1) - 1 = j
      BY <1>1, <2>2
    <3>2. s[j + 1] = s[j] + f[j + 1] /\ s[j] \in Nat /\ f[j + 1] \in Nat
      BY <1>2, <2>2, <3>1
    <3>3. QED
      BY <3>1, <3>2
  <2> HIDE DEF P
  <2>3. QED
    BY <1>1, <2>1, <2>2, UpTo
<1>4. \A j \in 0 .. NLimbs : j \in T
  <2>1. 0 \in T
    BY <1>1, <1>2
  <2>2. ASSUME NEW j \in Nat, j < NLimbs, j \in T PROVE j + 1 \in T
    <3>1. j + 1 \in Index /\ j + 1 \in 0 .. NLimbs /\ (j + 1) - 1 = j /\ j \in 0 .. NLimbs
      BY <1>1, <2>2
    <3>2. s[j + 1] = s[j] + f[j + 1] /\ s[j] \in Nat /\ f[j + 1] \in Nat
      BY <1>2, <1>3, <3>1
    <3>3. s[i] \in Nat
      BY <1>3
    <3>4. i <= j + 1 => i <= j \/ i = j + 1
      BY <1>1
    <3>5. i <= j => s[i] <= s[j]
      BY <2>2
    <3>6. QED
      BY <3>1, <3>2, <3>3, <3>4, <3>5
  <2> HIDE DEF T
  <2>3. QED
    BY <1>1, <2>1, <2>2, UpTo
<1>5. QED
  BY <1>3, <1>4 DEF P, T, s

(* At most one of the flags is set when they add up to at most 1.          *)
LEMMA FlagsAddUp ==
  ASSUME NEW flags \in [Index -> {0, 1}]
  PROVE  /\ Sum(flags) = 0 => \A i \in Index : flags[i] = 0
         /\ Sum(flags) = 1 => \E k \in Index : flags[k] = 1 /\ \A i \in Index : i # k => flags[i] = 0
<1> DEFINE s == Sums(flags)
<1>1. NLimbs \in Nat /\ Index = 1 .. NLimbs /\ NLimbs \in 0 .. NLimbs /\ 0 \in 0 .. NLimbs
      /\ \A i \in Index : i \in 0 .. NLimbs /\ i - 1 \in 0 .. NLimbs
  BY LimbsAreNumbers
<1>2. flags \in [Index -> Nat] /\ flags \in [Index -> Int]
  OBVIOUS
<1>3. s[0] = 0 /\ \A i \in Index : s[i] = s[i - 1] + flags[i]
  BY <1>2, SumsRun
<1>4. \A i, j \in 0 .. NLimbs : i <= j => s[i] \in Nat /\ s[j] \in Nat /\ s[i] <= s[j]
  BY <1>2, SumsGrow
<1>5. Sum(flags) = s[NLimbs]
  BY DEF Sum
<1> HIDE DEF s
<1>6. \A i \in Index : s[i] \in Nat /\ s[i - 1] \in Nat /\ s[i] <= s[NLimbs] /\ flags[i] \in {0, 1}
  BY <1>1, <1>4
<1>7. ASSUME s[NLimbs] = 0, NEW i \in Index PROVE flags[i] = 0
  BY <1>3, <1>6, <1>7
<1>8. ASSUME s[NLimbs] = 1, \A i \in Index : flags[i] = 0 PROVE FALSE
  BY <1>2, <1>5, <1>8, SumOfZeros
<1>9. ASSUME s[NLimbs] = 1, NEW i \in Index, NEW k \in Index, i < k, flags[i] = 1, flags[k] = 1 PROVE FALSE
  <2>1. s[i] = s[i - 1] + 1 /\ s[k] = s[k - 1] + 1 /\ s[i] <= s[k - 1]
    <3>1. i <= k - 1 /\ i \in 0 .. NLimbs /\ k - 1 \in 0 .. NLimbs
      BY <1>1, <1>9
    <3>2. QED
      BY <1>3, <1>4, <1>9, <3>1
  <2>2. QED
    BY <1>6, <1>9, <2>1
<1>10. ASSUME s[NLimbs] = 1
       PROVE  \E k \in Index : flags[k] = 1 /\ \A i \in Index : i # k => flags[i] = 0
  <2>1. PICK k \in Index : flags[k] = 1
    BY <1>6, <1>8, <1>10
  <2>2. ASSUME NEW i \in Index, i # k PROVE flags[i] = 0
    <3>1. i < k \/ k < i
      BY <1>1, <2>2
    <3>2. QED
      BY <1>6, <1>9, <1>10, <2>1, <3>1
  <2>3. QED
    BY <2>1, <2>2
<1>11. QED
  BY <1>5, <1>7, <1>10

(* The sums over flags of which one is set, or none.                       *)
OneFlag(flags, k) == flags[k] = 1 /\ \A i \in Index : i # k => flags[i] = 0

NoFlag(flags) == \A i \in Index : flags[i] = 0

(* With one flag, at limb k, the running sums are 1 down from k and the    *)
(* limb that is picked is that of k.                                       *)
LEMMA OneFlagSums ==
  ASSUME NEW flags \in [Index -> {0, 1}], NEW k \in Index, OneFlag(flags, k)
  PROVE  /\ Sum(flags) = 1
         /\ \A i \in Index : Visited(flags, i) = IF k >= i THEN 1 ELSE 0
         /\ \A x \in [Index -> Int] : Picked(x, flags) = x[k]
<1>1. flags \in [Index -> Int] /\ Index \subseteq Int
  BY DEF Index
<1>2. Sum(flags) = 1
  BY <1>1, SumOfOne DEF OneFlag
<1>3. ASSUME NEW i \in Index PROVE Visited(flags, i) = IF k >= i THEN 1 ELSE 0
  <2> DEFINE f == [j \in Index |-> IF j >= i THEN flags[j] ELSE 0]
  <2>1. f \in [Index -> Int]
    BY <1>1
  <2>2. \A j \in Index : j # k => f[j] = 0
    BY DEF OneFlag
  <2>3. f[k] = IF k >= i THEN 1 ELSE 0
    BY DEF OneFlag
  <2>4. Visited(flags, i) = Sum(f)
    BY DEF Visited
  <2> HIDE DEF f
  <2>5. QED
    BY <2>1, <2>2, <2>3, <2>4, SumOfOne
<1>4. ASSUME NEW x \in [Index -> Int] PROVE Picked(x, flags) = x[k]
  <2> DEFINE f == [i \in Index |-> x[i] * flags[i]]
  <2>1. \A i \in Index : x[i] \in Int /\ flags[i] \in Int
    BY <1>1
  <2>2. \A i \in Int : i * 0 = 0 /\ i * 1 = i
    OBVIOUS
  <2>3. \A j \in Index : j # k => f[j] = 0
    BY <2>1, <2>2 DEF OneFlag
  <2>4. f[k] = x[k]
    BY <2>1, <2>2 DEF OneFlag
  <2>5. f \in [Index -> Int]
    BY <2>1, <2>3, <2>4
  <2>6. Picked(x, flags) = Sum(f)
    BY DEF Picked
  <2> HIDE DEF f
  <2>7. QED
    BY <2>3, <2>4, <2>5, <2>6, SumOfOne
<1>5. QED
  BY <1>2, <1>3, <1>4

(* Without a flag the running sums and what is picked are 0.               *)
LEMMA NoFlagSums ==
  ASSUME NEW flags \in [Index -> {0, 1}], NoFlag(flags)
  PROVE  /\ Sum(flags) = 0
         /\ \A i \in Index : Visited(flags, i) = 0
         /\ \A x \in [Index -> Int] : Picked(x, flags) = 0
<1>1. flags \in [Index -> Int]
  OBVIOUS
<1>2. Sum(flags) = 0
  BY <1>1, SumOfZeros DEF NoFlag
<1>3. ASSUME NEW i \in Index PROVE Visited(flags, i) = 0
  <2> DEFINE f == [j \in Index |-> IF j >= i THEN flags[j] ELSE 0]
  <2>1. f \in [Index -> Int]
    BY <1>1
  <2>2. \A j \in Index : f[j] = 0
    BY DEF NoFlag
  <2>3. Visited(flags, i) = Sum(f)
    BY DEF Visited
  <2> HIDE DEF f
  <2>4. QED
    BY <2>1, <2>2, <2>3, SumOfZeros
<1>4. ASSUME NEW x \in [Index -> Int] PROVE Picked(x, flags) = 0
  <2> DEFINE f == [i \in Index |-> x[i] * flags[i]]
  <2>1. \A i \in Index : x[i] \in Int
    OBVIOUS
  <2>2. \A i \in Int : i * 0 = 0
    OBVIOUS
  <2>3. \A j \in Index : f[j] = 0
    BY <2>1, <2>2 DEF NoFlag
  <2>4. f \in [Index -> Int]
    BY <2>3
  <2>5. Picked(x, flags) = Sum(f)
    BY DEF Picked
  <2> HIDE DEF f
  <2>6. QED
    BY <2>3, <2>4, <2>5, SumOfZeros
<1>5. QED
  BY <1>2, <1>3, <1>4

(* What record.rs writes in the cells of a comparison.                     *)
FlagsOf(a, b) == [i \in Index |-> IF Flag(a, b, i) THEN 1 ELSE 0]

LessOf(a, b, strict) ==
  IF Picked(a, FlagsOf(a, b)) < Picked(b, FlagsOf(a, b)) \/ (~ strict /\ a = b) THEN 1 ELSE 0

(* A comparison flags the highest limb that differs, and none of equal     *)
(* numbers.                                                                *)
LEMMA FlagsOfNumerals ==
  ASSUME NEW a \in Numeral, NEW b \in Numeral
  PROVE  LET flags == FlagsOf(a, b) IN
         /\ flags \in [Index -> {0, 1}]
         /\ a = b => /\ NoFlag(flags) /\ Sum(flags) = 0
                     /\ \A i \in Index : Visited(flags, i) = 0
                     /\ Picked(a, flags) = 0 /\ Picked(b, flags) = 0
         /\ \A k \in Index : Differs(a, b, k) =>
              /\ OneFlag(flags, k) /\ Sum(flags) = 1
              /\ \A i \in Index : Visited(flags, i) = IF k >= i THEN 1 ELSE 0
              /\ Picked(a, flags) = a[k] /\ Picked(b, flags) = b[k]
<1> DEFINE flags == FlagsOf(a, b)
<1>1. flags \in [Index -> {0, 1}]
  BY DEF FlagsOf
<1>2. \A i \in Index : flags[i] = IF Differs(a, b, i) THEN 1 ELSE 0
  BY DEF FlagsOf, Flag
<1>3. a \in [Index -> Int] /\ b \in [Index -> Int]
  BY LimbsAreNumbers
<1> HIDE DEF flags
<1>4. a = b => NoFlag(flags)
  BY <1>2 DEF Differs, NoFlag
<1>5. ASSUME NEW k \in Index, Differs(a, b, k) PROVE OneFlag(flags, k)
  <2>1. \A i \in Index : i # k => ~ Differs(a, b, i)
    BY <1>5, TopDifference
  <2>2. QED
    BY <1>2, <1>5, <2>1 DEF OneFlag
<1>6. a = b => /\ NoFlag(flags) /\ Sum(flags) = 0
               /\ \A i \in Index : Visited(flags, i) = 0
               /\ Picked(a, flags) = 0 /\ Picked(b, flags) = 0
  BY <1>1, <1>3, <1>4, NoFlagSums
<1>7. ASSUME NEW k \in Index, Differs(a, b, k)
      PROVE  /\ OneFlag(flags, k) /\ Sum(flags) = 1
             /\ \A i \in Index : Visited(flags, i) = IF k >= i THEN 1 ELSE 0
             /\ Picked(a, flags) = a[k] /\ Picked(b, flags) = b[k]
  <2>1. OneFlag(flags, k)
    BY <1>5, <1>7
  <2>2. QED
    BY <1>1, <1>3, <2>1, OneFlagSums
<1>8. QED
  BY <1>1, <1>6, <1>7 DEF flags

(* The comparison bytes are limbs, and the result is the comparison.       *)
LEMMA LessOfNumerals ==
  ASSUME NEW a \in Numeral, NEW b \in Numeral, NEW strict \in BOOLEAN
  PROVE  LET flags == FlagsOf(a, b)  x == Picked(a, flags)  y == Picked(b, flags)  c == LessOf(a, b, strict) IN
         /\ x \in Limb /\ y \in Limb /\ c \in {0, 1}
         /\ Sum(flags) \in {0, 1} /\ (Sum(flags) = 0 <=> a = b) /\ (x = y <=> a = b)
         /\ a # b => c = IF x < y THEN 1 ELSE 0
         /\ a = b => c = IF strict THEN 0 ELSE 1
         /\ strict => (c = 1 <=> ToU64(a) < ToU64(b))
         /\ ~ strict => (c = 1 <=> ToU64(a) <= ToU64(b))
<1> DEFINE flags == FlagsOf(a, b)
           x == Picked(a, flags)
           y == Picked(b, flags)
           c == LessOf(a, b, strict)
           m == ToU64(a)
           n == ToU64(b)
<1>1. m \in Int /\ n \in Int /\ (a = b <=> m = n)
  <2>1. Weight[NLimbs] \in Nat
    BY WeightRuns, LimbsAreNumbers
  <2>2. QED
    BY <2>1, RoundTrip, OrderAgrees
<1>2. 0 \in Limb
  BY LimbsAssumption DEF Limb
<1>3. c = IF x < y \/ (~ strict /\ a = b) THEN 1 ELSE 0
  BY DEF LessOf
<1>4. CASE a = b
  <2>1. Sum(flags) = 0 /\ x = 0 /\ y = 0
    BY <1>4, FlagsOfNumerals
  <2> HIDE DEF flags, x, y, c, m, n
  <2>2. c = IF strict THEN 0 ELSE 1
    BY <1>3, <1>4, <2>1
  <2>3. m = n
    BY <1>1, <1>4
  <2>4. QED
    BY <1>1, <1>2, <1>4, <2>1, <2>2, <2>3 DEF flags, x, y, c, m, n
<1>5. CASE a # b
  <2>1. PICK k \in Index : Differs(a, b, k)
    BY <1>5, TopDifference
  <2>2. Sum(flags) = 1 /\ x = a[k] /\ y = b[k]
    BY <2>1, FlagsOfNumerals
  <2>3. x \in Limb /\ y \in Limb /\ x # y
    BY <2>1, <2>2 DEF Numeral, Differs
  <2>4. x < y <=> m < n
    BY <2>1, <2>2, OrderAgrees
  <2> HIDE DEF flags, x, y, c, m, n
  <2>5. c = IF x < y THEN 1 ELSE 0
    BY <1>3, <1>5
  <2>6. m # n /\ (m < n <=> m <= n)
    BY <1>1, <1>5
  <2>7. QED
    BY <1>5, <2>2, <2>3, <2>4, <2>5, <2>6 DEF flags, x, y, c, m, n
<1>6. QED
  BY <1>4, <1>5

(* The cells of a comparison.                                              *)
ComparisonCells(f, a, b, strict, real) ==
  LET N == NLimbs  flags == FlagsOf(a, b) IN
  /\ f \in Seq(Nat) /\ Len(f) = 3 * N + 4
  /\ Agree(f, 0, a, N) /\ Agree(f, N, b, N) /\ f[2 * N + 1] = LessOf(a, b, strict)
  /\ Agree(f, 2 * N + 1, flags, N)
  /\ f[3 * N + 2] = Picked(a, flags) /\ f[3 * N + 3] = Picked(b, flags) /\ f[3 * N + 4] = real

(* The cells of the row that a comparison records.                         *)
LEMMA LessThanRowCells ==
  ASSUME NEW a \in Numeral, NEW b \in Numeral, NEW strict \in BOOLEAN
  PROVE  ComparisonCells(LessThanRow(a, b, strict), a, b, strict, 1)
<1> DEFINE N == NLimbs
           d == FlagsOf(a, b)
           less == LessOf(a, b, strict)
           x == Picked(a, d)
           y == Picked(b, d)
           c == <<less>>
           e == <<x, y, 1>>
           f == LessThanRow(a, b, strict)
<1>1. N \in Nat \ {0} /\ Index = 1 .. N
  BY LimbsAssumption DEF Index
<1>2. a \in Seq(Nat) /\ b \in Seq(Nat) /\ Len(a) = N /\ Len(b) = N
  BY NumeralIsSequence
<1>3. d \in [Index -> {0, 1}]
  BY DEF FlagsOf
<1>4. d \in Seq(Nat) /\ Len(d) = N
  BY <1>1, <1>3
<1>5. less \in Nat /\ x \in Nat /\ y \in Nat
  <2>1. less \in {0, 1} /\ x \in Limb /\ y \in Limb
    BY LessOfNumerals
  <2> HIDE DEF less, x, y
  <2>2. QED
    BY <2>1, LimbsAssumption DEF Limb
<1>6. f = a \o b \o c \o d \o e
  BY DEF LessThanRow, LessOf, FlagsOf
<1> HIDE DEF d, less, x, y, f
<1>7. c \in Seq(Nat) /\ Len(c) = 1 /\ c[1] = less
  BY <1>5
<1>8. e \in Seq(Nat) /\ Len(e) = 3 /\ e[1] = x /\ e[2] = y /\ e[3] = 1
  BY <1>5
<1> HIDE DEF c, e, N
<1>9. /\ f \in Seq(Nat) /\ Len(f) = N + N + 1 + N + 3
      /\ Agree(f, 0, a, N) /\ Agree(f, N, b, N) /\ Agree(f, N + N, c, 1)
      /\ Agree(f, N + N + 1, d, N) /\ Agree(f, N + N + 1 + N, e, 3)
  <2>1. LET r == a \o b \o c \o d \o e
            l == Len(a)  m == Len(b)  n == Len(c)  o == Len(d)  p == Len(e)
        IN
        /\ r \in Seq(Nat) /\ Len(r) = l + m + n + o + p
        /\ Agree(r, 0, a, l) /\ Agree(r, l, b, m) /\ Agree(r, l + m, c, n)
        /\ Agree(r, l + m + n, d, o) /\ Agree(r, l + m + n + o, e, p)
    BY <1>2, <1>4, <1>7, <1>8, FiveParts, ZenonT(60)
  <2>2. QED
    BY <1>2, <1>4, <1>6, <1>7, <1>8, <2>1
<1>10. /\ N + N + 1 + N + 3 = 3 * N + 4 /\ N + N = 2 * N
       /\ N + N + 1 + N + 1 = 3 * N + 2 /\ N + N + 1 + N + 2 = 3 * N + 3
  BY <1>1
<1>11. f[2 * N + 1] = less
  BY <1>7, <1>9, <1>10 DEF Agree
<1>12. f[3 * N + 2] = x /\ f[3 * N + 3] = y /\ f[3 * N + 4] = 1
  BY <1>8, <1>9, <1>10 DEF Agree
<1>13. QED
  BY <1>9, <1>10, <1>11, <1>12 DEF ComparisonCells, f, x, y, d, less, N

(* from_eval reads back what was written.                                  *)
LEMMA AddOpOfCells ==
  ASSUME NEW a \in Numeral, NEW b \in Numeral, NEW c \in Numeral, NEW d \in [1 .. NLimbs - 1 -> {0, 1}],
         NEW f \in Seq(Nat), Len(f) = 4 * NLimbs,
         Agree(f, 0, a, NLimbs), Agree(f, NLimbs, b, NLimbs), Agree(f, 2 * NLimbs, c, NLimbs),
         Agree(f, 3 * NLimbs, d, NLimbs - 1)
  PROVE  /\ SubSeq(f, 1, NLimbs) = a /\ SubSeq(f, NLimbs + 1, 2 * NLimbs) = b
         /\ AddOp(f) = [a |-> a, b |-> b, c |-> c, carry |-> d, is_real |-> f[4 * NLimbs]]
<1> DEFINE N == NLimbs
<1>1. N \in Nat \ {0} /\ Index = 1 .. N /\ N - 1 \in Nat
  BY LimbsAssumption DEF Index
<1>2. /\ f \in Seq(Nat) /\ Len(f) = 4 * N
      /\ Agree(f, 0, a, N) /\ Agree(f, N, b, N) /\ Agree(f, 2 * N, c, N) /\ Agree(f, 3 * N, d, N - 1)
  OBVIOUS
<1>3. a \in [1 .. N -> Limb] /\ b \in [1 .. N -> Limb] /\ c \in [1 .. N -> Limb]
  BY <1>1 DEF Numeral
<1>4. d \in [1 .. N - 1 -> {0, 1}]
  OBVIOUS
<1> HIDE DEF N
<1>5. /\ 0 \in Nat /\ 2 * N \in Nat /\ 3 * N \in Nat
       /\ 0 + N <= Len(f) /\ N + N <= Len(f) /\ 2 * N + N <= Len(f) /\ 3 * N + (N - 1) <= Len(f)
  BY <1>1, <1>2, SMTT(30)
<1>6. SubSeq(f, 0 + 1, 0 + N) = a
  BY <1>1, <1>2, <1>3, <1>5, Cut
<1>7. SubSeq(f, N + 1, N + N) = b
  BY <1>1, <1>2, <1>3, <1>5, Cut
<1>8. SubSeq(f, 2 * N + 1, 2 * N + N) = c
  BY <1>1, <1>2, <1>3, <1>5, Cut
<1>9. SubSeq(f, 3 * N + 1, 3 * N + (N - 1)) = d
  BY <1>1, <1>2, <1>4, <1>5, Cut
<1>10. 0 + 1 = 1 /\ 0 + N = N /\ N + N = 2 * N /\ 2 * N + N = 3 * N /\ 3 * N + (N - 1) = 4 * N - 1
  BY <1>1
<1>11. QED
  BY <1>2, <1>6, <1>7, <1>8, <1>9, <1>10 DEF AddOp, N

(* from_eval reads from the row of an addition what was recorded.          *)
LEMMA AddOpOfRow ==
  ASSUME NEW a \in Numeral, NEW b \in Numeral
  PROVE  LET f == AddRow(a, b) IN
         /\ SubSeq(f, 1, NLimbs) = a /\ SubSeq(f, NLimbs + 1, 2 * NLimbs) = b
         /\ AddOp(f) = [a |-> a, b |-> b, c |-> Add(a, b),
                        carry |-> [i \in 1 .. NLimbs - 1 |-> Carries(a, b)[i]], is_real |-> 1]
<1> DEFINE f == AddRow(a, b)
           d == [i \in 1 .. NLimbs - 1 |-> Carries(a, b)[i]]
<1>1. \A i \in 1 .. NLimbs - 1 : i \in 0 .. NLimbs
  BY LimbsAreNumbers
<1>2. d \in [1 .. NLimbs - 1 -> {0, 1}]
  BY <1>1, CarriesRun
<1>3. /\ f \in Seq(Nat) /\ Len(f) = 4 * NLimbs
      /\ Agree(f, 0, a, NLimbs) /\ Agree(f, NLimbs, b, NLimbs) /\ Agree(f, 2 * NLimbs, Add(a, b), NLimbs)
      /\ Agree(f, 3 * NLimbs, Carries(a, b), NLimbs - 1) /\ f[4 * NLimbs] = 1
  BY AddRowCells
<1>4. Agree(f, 3 * NLimbs, d, NLimbs - 1)
  BY <1>3 DEF Agree
<1>5. Add(a, b) \in Numeral
  BY AddDigits
<1> HIDE DEF f, d
<1>6. QED
  BY <1>2, <1>3, <1>4, <1>5, AddOpOfCells DEF f, d

(* from_eval reads the cells of a comparison in their order.               *)
LEMMA LessThanOpOfCells ==
  ASSUME NEW a \in Numeral, NEW b \in Numeral, NEW strict \in BOOLEAN, NEW real, NEW f,
         ComparisonCells(f, a, b, strict, real)
  PROVE  /\ SubSeq(f, 1, NLimbs) = a /\ SubSeq(f, NLimbs + 1, 2 * NLimbs) = b
         /\ LessThanOp(f) = [a |-> a, b |-> b, c |-> LessOf(a, b, strict), flags |-> FlagsOf(a, b),
                             aCmp |-> Picked(a, FlagsOf(a, b)), bCmp |-> Picked(b, FlagsOf(a, b)),
                             is_real |-> real]
<1> DEFINE N == NLimbs
           d == FlagsOf(a, b)
<1>1. N \in Nat \ {0} /\ Index = 1 .. N
  BY LimbsAssumption DEF Index
<1>2. /\ f \in Seq(Nat) /\ Len(f) = 3 * N + 4
      /\ Agree(f, 0, a, N) /\ Agree(f, N, b, N) /\ f[2 * N + 1] = LessOf(a, b, strict)
      /\ Agree(f, 2 * N + 1, d, N)
      /\ f[3 * N + 2] = Picked(a, d) /\ f[3 * N + 3] = Picked(b, d) /\ f[3 * N + 4] = real
  BY DEF ComparisonCells
<1>3. a \in [1 .. N -> Limb] /\ b \in [1 .. N -> Limb]
  BY <1>1 DEF Numeral
<1>4. d \in [1 .. N -> {0, 1}]
  BY <1>1 DEF FlagsOf
<1> HIDE DEF d, N
<1>5. /\ 0 \in Nat /\ 2 * N + 1 \in Nat
       /\ 0 + N <= Len(f) /\ N + N <= Len(f) /\ (2 * N + 1) + N <= Len(f)
  BY <1>1, <1>2
<1>6. SubSeq(f, 0 + 1, 0 + N) = a
  BY <1>1, <1>2, <1>3, <1>5, Cut
<1>7. SubSeq(f, N + 1, N + N) = b
  BY <1>1, <1>2, <1>3, <1>5, Cut
<1>8. SubSeq(f, (2 * N + 1) + 1, (2 * N + 1) + N) = d
  BY <1>1, <1>2, <1>4, <1>5, Cut
<1>9. 0 + 1 = 1 /\ 0 + N = N /\ N + N = 2 * N /\ (2 * N + 1) + 1 = 2 * N + 2 /\ (2 * N + 1) + N = 3 * N + 1
  BY <1>1
<1>10. QED
  BY <1>2, <1>6, <1>7, <1>8, <1>9 DEF LessThanOp, d, N

(* from_eval reads from the row of a comparison what was recorded.         *)
LEMMA LessThanOpOfRow ==
  ASSUME NEW a \in Numeral, NEW b \in Numeral, NEW strict \in BOOLEAN
  PROVE  LET f == LessThanRow(a, b, strict) IN
         /\ SubSeq(f, 1, NLimbs) = a /\ SubSeq(f, NLimbs + 1, 2 * NLimbs) = b
         /\ LessThanOp(f) = [a |-> a, b |-> b, c |-> LessOf(a, b, strict), flags |-> FlagsOf(a, b),
                             aCmp |-> Picked(a, FlagsOf(a, b)), bCmp |-> Picked(b, FlagsOf(a, b)),
                             is_real |-> 1]
BY LessThanRowCells, LessThanOpOfCells

-----------------------------------------------------------------------------
(* The rows that are recorded                                              *)

OfNumbers == {"Add", "LessThan", "StrictLessThan"}

Recorded(row) ==
  \/ /\ row.kind \in OfNumbers
     /\ First(row) \in Numeral /\ Second(row) \in Numeral
     /\ row.felts = IF row.kind = "Add" THEN AddRow(First(row), Second(row))
                    ELSE LessThanRow(First(row), Second(row), Strict(row))
  \/ /\ row.kind = "Poseidon"
     /\ row.felts \in Seq(Int) /\ Len(row.felts) = N_STATE + 1 /\ row.felts[N_STATE + 1] = 1

RowsRecorded ==
  /\ rows \in Seq([kind : OfNumbers \cup {"Poseidon"}, felts : Seq(Int)])
  /\ \A k \in DOMAIN rows : Recorded(rows[k])

(* The row of an addition is one of the operations.                        *)
LEMMA AddIsRecorded ==
  ASSUME NEW a \in Numeral, NEW b \in Numeral
  PROVE  LET row == [kind |-> "Add", felts |-> AddRow(a, b)] IN
         Recorded(row) /\ row.felts \in Seq(Int)
<1> DEFINE row == [kind |-> "Add", felts |-> AddRow(a, b)]
<1>1. row.kind = "Add" /\ row.felts = AddRow(a, b)
  OBVIOUS
<1> HIDE DEF row
<1>2. First(row) = a /\ Second(row) = b
  BY <1>1, AddOpOfRow DEF First, Second
<1>3. row.felts \in Seq(Nat)
  BY <1>1, AddRowCells
<1>4. row.felts \in Seq(Int)
  BY <1>3
<1>5. QED
  BY <1>1, <1>2, <1>4 DEF Recorded, OfNumbers, row

(* The row of a comparison is one of the operations.                       *)
LEMMA ComparisonIsRecorded ==
  ASSUME NEW a \in Numeral, NEW b \in Numeral, NEW strict \in BOOLEAN
  PROVE  LET row == [kind |-> IF strict THEN "StrictLessThan" ELSE "LessThan",
                     felts |-> LessThanRow(a, b, strict)] IN
         Recorded(row) /\ row.felts \in Seq(Int)
<1> DEFINE row == [kind |-> IF strict THEN "StrictLessThan" ELSE "LessThan",
                   felts |-> LessThanRow(a, b, strict)]
<1>1. /\ row.kind \in {"LessThan", "StrictLessThan"} /\ row.felts = LessThanRow(a, b, strict)
      /\ strict = (row.kind = "StrictLessThan")
  OBVIOUS
<1> HIDE DEF row
<1>2. First(row) = a /\ Second(row) = b
  <2>1. /\ SubSeq(LessThanRow(a, b, strict), 1, NLimbs) = a
        /\ SubSeq(LessThanRow(a, b, strict), NLimbs + 1, 2 * NLimbs) = b
    BY LessThanOpOfRow
  <2>2. QED
    BY <1>1, <2>1 DEF First, Second
<1>3. row.felts \in Seq(Nat)
  BY <1>1, LessThanRowCells, ZenonT(60) DEF ComparisonCells
<1>4. row.felts \in Seq(Int)
  BY <1>3
<1>5. row.felts = LessThanRow(a, b, Strict(row))
  BY <1>1 DEF Strict
<1>6. QED
  BY <1>1, <1>2, <1>4, <1>5 DEF Recorded, OfNumbers, row

(* The row of a hash is one of the operations.                             *)
LEMMA HashIsRecorded ==
  ASSUME NEW s \in Seq(Int), Len(s) = N_STATE
  PROVE  LET row == [kind |-> "Poseidon", felts |-> s \o << 1 >>] IN
         Recorded(row) /\ row.felts \in Seq(Int)
<1> DEFINE row == [kind |-> "Poseidon", felts |-> s \o << 1 >>]
<1>1. N_STATE = 16
  BY DEF N_STATE
<1>2. s \o << 1 >> \in Seq(Int) /\ Len(s \o << 1 >>) = N_STATE + 1 /\ (s \o << 1 >>)[N_STATE + 1] = 1
  <2>1. << 1 >> \in Seq(Int) /\ Len(<< 1 >>) = 1 /\ << 1 >>[1] = 1
    OBVIOUS
  <2>2. Joined(Int, s \o << 1 >>, s, << 1 >>)
    BY <2>1, TwoParts
  <2>3. QED
    BY <1>1, <2>1, <2>2 DEF Joined, Agree
<1>3. QED
  BY <1>2 DEF Recorded

(* A row that is recorded keeps the others as they are.                    *)
LEMMA RecordedNext ==
  ASSUME RowsRecorded, NEW row, row \in [kind : OfNumbers \cup {"Poseidon"}, felts : Seq(Int)],
         Recorded(row), rows' = Append(rows, row)
  PROVE  RowsRecorded'
<1> DEFINE S == [kind : OfNumbers \cup {"Poseidon"}, felts : Seq(Int)]
<1>1. rows \in Seq(S) /\ row \in S
  BY DEF RowsRecorded
<1> HIDE DEF S
<1>2. rows' \in Seq(S) /\ Len(rows') = Len(rows) + 1 /\ DOMAIN rows' = 1 .. Len(rows) + 1
  BY <1>1
<1>3. ASSUME NEW k \in DOMAIN rows' PROVE Recorded(rows'[k])
  <2>1. k \in DOMAIN rows => rows'[k] = rows[k]
    BY <1>1
  <2>2. k \notin DOMAIN rows => rows'[k] = row
    BY <1>1, <1>2
  <2>3. QED
    BY <2>1, <2>2 DEF RowsRecorded
<1>4. QED
  BY <1>2, <1>3 DEF RowsRecorded, S

(* The events take numbers below 2^64.                                     *)
LEMMA OperandsAreNumerals ==
  ASSUME NEW p \in OperandPairs
  PROVE  FromU64(p[1]) \in Numeral /\ FromU64(p[2]) \in Numeral
<1>1. p[1] \in Operands /\ p[2] \in Operands
  BY OperationTablesAssumption DEF OperandPairs
<1>2. Weight[NLimbs] \in Nat
  BY WeightRuns, LimbsAreNumbers
<1>3. p[1] \in Nat /\ p[2] \in Nat
  <2>1. \A n \in Operands : n \in 0 .. Weight[NLimbs] - 1
    BY OperationTablesAssumption
  <2>2. \A n \in 0 .. Weight[NLimbs] - 1 : n \in Nat
    BY <1>2
  <2>3. QED
    BY <1>1, <2>1, <2>2
<1>4. QED
  BY <1>3, FromU64IsNumeral

(* The felts of a hash or a leaf are numbers.                              *)
LEMMA FeltsAre ==
  ASSUME NEW n \in Nat, NEW x \in HashInputs
  PROVE  Felts(n, x) \in Seq(Int) /\ Len(Felts(n, x)) = n
<1>1. x \in Nat /\ FieldOrder \in Nat \ {0}
  BY OperationTablesAssumption, PoseidonAssumption
<1>2. \A i \in 1 .. n : (x * i) % FieldOrder \in Int
  BY <1>1
<1>3. Felts(n, x) \in [1 .. n -> Int]
  BY <1>2 DEF Felts
<1>4. QED
  BY <1>3

(* Every row that is recorded is one of the operations.                    *)
THEOREM RecordedInvariant == TablesSpec => []RowsRecorded
<1>1. Init => RowsRecorded
  BY DEF Init, RowsRecorded
<1>2. ASSUME RowsRecorded, [Next]_vars PROVE RowsRecorded'
  <2> DEFINE S == [kind : OfNumbers \cup {"Poseidon"}, felts : Seq(Int)]
  <2>1. CASE AddEvent
    <3>1. PICK a \in Numeral, b \in Numeral : AddAddEvent(a, b)
      BY <2>1, OperandsAreNumerals DEF AddEvent
    <3> DEFINE row == [kind |-> "Add", felts |-> AddRow(a, b)]
    <3>2. rows' = Append(rows, row)
      BY <3>1 DEF AddAddEvent
    <3>3. Recorded(row) /\ row.felts \in Seq(Int)
      BY AddIsRecorded
    <3>4. row \in S
      BY <3>3 DEF OfNumbers
    <3> HIDE DEF row
    <3>5. QED
      BY <1>2, <3>2, <3>3, <3>4, RecordedNext
  <2>2. ASSUME NEW a \in Numeral, NEW b \in Numeral, NEW strict \in BOOLEAN,
               AddLessThanEventInternal(a, b, strict)
        PROVE  RowsRecorded'
    <3> DEFINE row == [kind |-> IF strict THEN "StrictLessThan" ELSE "LessThan",
                       felts |-> LessThanRow(a, b, strict)]
    <3>1. rows' = Append(rows, row)
      BY <2>2 DEF AddLessThanEventInternal
    <3>2. Recorded(row) /\ row.felts \in Seq(Int)
      BY ComparisonIsRecorded
    <3>3. row \in S
      BY <3>2 DEF OfNumbers
    <3> HIDE DEF row
    <3>4. QED
      BY <1>2, <3>1, <3>2, <3>3, RecordedNext
  <2>3. CASE LessThanEvent
    <3>1. PICK a \in Numeral, b \in Numeral : AddLessThanEventInternal(a, b, FALSE)
      BY <2>3, OperandsAreNumerals DEF LessThanEvent
    <3>2. QED
      BY <2>2, <3>1
  <2>4. CASE StrictLessThanEvent
    <3>1. PICK a \in Numeral, b \in Numeral : AddLessThanEventInternal(a, b, TRUE)
      BY <2>4, OperandsAreNumerals DEF StrictLessThanEvent
    <3>2. QED
      BY <2>2, <3>1
  <2>5. ASSUME NEW s \in Seq(Int), Len(s) = N_STATE,
               rows' = Append(rows, [kind |-> "Poseidon", felts |-> s \o << 1 >>])
        PROVE  RowsRecorded'
    <3> DEFINE row == [kind |-> "Poseidon", felts |-> s \o << 1 >>]
    <3>1. Recorded(row) /\ row.felts \in Seq(Int)
      BY <2>5, HashIsRecorded
    <3>2. row \in S
      BY <3>1
    <3>3. rows' = Append(rows, row)
      BY <2>5
    <3> HIDE DEF row
    <3>4. QED
      BY <1>2, <3>1, <3>2, <3>3, RecordedNext
  <2>6. CASE MerkleHashEvent
    <3>1. PICK x \in HashInputs, y \in HashInputs : AddMerkleHashEvent(Felts(N_HASH, x), Felts(N_HASH, y))
      BY <2>6 DEF MerkleHashEvent
    <3> DEFINE a == Felts(N_HASH, x)
               b == Felts(N_HASH, y)
    <3>2. N_HASH \in Nat /\ N_HASH + N_HASH = N_STATE
      BY DEF N_HASH, N_STATE
    <3>3. a \in Seq(Int) /\ b \in Seq(Int) /\ Len(a) = N_HASH /\ Len(b) = N_HASH
      BY <3>2, FeltsAre
    <3> HIDE DEF a, b
    <3>4. a \o b \in Seq(Int) /\ Len(a \o b) = N_STATE
      BY <3>2, <3>3, SMTT(30)
    <3>5. rows' = Append(rows, [kind |-> "Poseidon", felts |-> (a \o b) \o << 1 >>])
      BY <3>1 DEF AddMerkleHashEvent, a, b
    <3>6. QED
      BY <2>5, <3>4, <3>5
  <2>7. CASE LeafHashEvent
    <3>1. N_STATE \in Nat /\ N_STATE <= 2 * N_STATE + 9 /\ 2 * N_STATE + 9 \in Nat
      BY DEF N_STATE
    <3>2. PICK f \in Seq(Int) : AddLeafHashEvent(f) /\ Len(f) = 2 * N_STATE + 9
      BY <2>7, <3>1, FeltsAre DEF LeafHashEvent
    <3> DEFINE s == SubSeq(f, 1, N_STATE)
    <3>3. rows' = Append(rows, [kind |-> "Poseidon", felts |-> s \o << 1 >>])
      BY <3>2 DEF AddLeafHashEvent
    <3>4. s \in Seq(Int) /\ Len(s) = N_STATE
      BY <3>1, <3>2, Beginning
    <3> HIDE DEF s
    <3>5. QED
      BY <2>5, <3>3, <3>4
  <2>8. CASE UNCHANGED vars
    BY <1>2, <2>8 DEF vars, RowsRecorded, Recorded, First, Second, Strict
  <2>9. QED
    BY <1>2, <2>1, <2>3, <2>4, <2>6, <2>7, <2>8 DEF Next
<1>3. QED
  BY <1>1, <1>2, PTL DEF TablesSpec

(* In every trace of the program, the arithmetic of the limbs is that of   *)
(* the numbers (types.rs).                                                 *)
THEOREM ArithmeticIsRight == TablesSpec => []ArithmeticAgrees
<1>1. ASSUME RowsRecorded PROVE ArithmeticAgrees
  <2> SUFFICES ASSUME NEW row \in Examined
               PROVE  LET a == First(row)  b == Second(row)  m == ToU64(a)  n == ToU64(b)
                      IN  /\ FromU64(m) = a /\ FromU64(n) = b
                          /\ AddPanics(a, b) <=> m + n >= Weight[NLimbs]
                          /\ ~AddPanics(a, b) => Add(a, b) = FromU64(m + n)
                          /\ SubPanics(a, b) <=> m < n
                          /\ ~SubPanics(a, b) => Sub(a, b) = FromU64(m - n)
                          /\ LessThan(a, b) <=> m < n
    BY DEF ArithmeticAgrees
  <2>1. First(row) \in Numeral /\ Second(row) \in Numeral
    BY <1>1 DEF Examined, RowsRecorded, Recorded
  <2>2. QED
    BY <2>1, RoundTrip, AddAdds, SubSubtracts, OrderAgrees
<1>2. QED
  BY <1>1, RecordedInvariant, PTL

-----------------------------------------------------------------------------
(* Rows are accepted                                                       *)

(* Every pair of limbs is in the table of bytes.                           *)
LEMMA PairIsListed ==
  ASSUME NEW x \in Limb, NEW y \in Limb
  PROVE  /\ Offset(x, y) \in Offsets
         /\ BytesRow(Offset(x, y)) = [a |-> x, b |-> y, c |-> IF x < y THEN 1 ELSE 0]
<1>1. Base \in Nat /\ Base > 1 /\ x \in Nat /\ y \in Nat /\ x + 1 <= Base /\ y < Base
  BY LimbsAssumption DEF Limb
<1>2. (x + 1) * Base <= Base * Base /\ (x + 1) * Base = x * Base + Base /\ x * Base \in Nat
      /\ x * Base = Base * x
  BY <1>1
<1>3. x * Base + y \in 0 .. Base * Base - 1
  BY <1>1, <1>2
<1>4. (Base * x + y) \div Base = x /\ (Base * x + y) % Base = y
  BY <1>1
<1>5. QED
  BY <1>2, <1>3, <1>4 DEF Offset, Offsets, BytesRow

(* The cells of the k-th pair.                                             *)
LEMMA PairCells ==
  ASSUME NEW S, NEW v \in Seq(S), Len(v) = 3 * NLimbs, NEW k \in 1 .. (3 * NLimbs) \div 2
  PROVE  v[2 * k - 1] \in S /\ v[2 * k] \in S
<1>1. NLimbs \in Nat
  BY LimbsAreNumbers
<1>2. 2 * k - 1 \in 1 .. Len(v) /\ 2 * k \in 1 .. Len(v)
  BY <1>1
<1>3. QED
  BY <1>2

(* The entries of an addition: its limbs in pairs, and the sum it yields.  *)
LEMMA AddEntriesAre ==
  ASSUME NEW op
  PROVE  LET es == AddEntries(op)  v == op.a \o op.b \o op.c  h == (3 * NLimbs) \div 2 IN
         /\ h \in Nat /\ es \in Seq({es[i] : i \in 1 .. Len(es)}) /\ Len(es) = h + 1
         /\ \A k \in 1 .. h : es[k] = Entry("range_check_u8", <<v[2 * k - 1], v[2 * k]>>, op.is_real)
         /\ es[h + 1] = Entry("add", v, -op.is_real)
<1> DEFINE v == op.a \o op.b \o op.c
           h == (3 * NLimbs) \div 2
           check(k) == Entry("range_check_u8", <<v[2 * k - 1], v[2 * k]>>, op.is_real)
           last == Entry("add", v, -op.is_real)
           f == [k \in 1 .. h |-> check(k)]
           S == {check(k) : k \in 1 .. h} \cup {last}
           es == AddEntries(op)
<1>1. h \in Nat
  BY LimbsAreNumbers
<1>2. es = f \o <<last>>
  BY DEF AddEntries
<1> HIDE DEF v, h, check, last, es
<1>3. f \in Seq(S) /\ Len(f) = h /\ <<last>> \in Seq(S) /\ Len(<<last>>) = 1 /\ <<last>>[1] = last
      /\ \A k \in 1 .. h : f[k] = check(k)
  <2>1. f \in [1 .. h -> S] /\ last \in S
    OBVIOUS
  <2> HIDE DEF S
  <2>2. QED
    BY <1>1, <2>1
<1> HIDE DEF f, S
<1>4. Joined(S, es, f, <<last>>)
  BY <1>2, <1>3, TwoParts
<1>5. es \in Seq(S) /\ Len(es) = h + 1 /\ Agree(es, 0, f, h) /\ Agree(es, h, <<last>>, 1)
  BY <1>3, <1>4 DEF Joined
<1>6. \A k \in 1 .. h : es[k] = check(k)
  <2>1. \A k \in 1 .. h : 0 + k = k
    BY <1>1
  <2>2. QED
    BY <1>3, <1>5, <2>1 DEF Agree
<1>7. es[h + 1] = last
  BY <1>3, <1>5 DEF Agree
<1>8. es \in Seq({es[i] : i \in 1 .. Len(es)})
  BY <1>5, OwnCells
<1>9. QED
  BY <1>1, <1>5, <1>6, <1>7, <1>8 DEF check, last, v, h, es

(* Three numbers one after the other.                                      *)
LEMMA ThreeNumerals ==
  ASSUME NEW a \in Numeral, NEW b \in Numeral, NEW c \in Numeral
  PROVE  a \o b \o c \in Seq(Limb) /\ Len(a \o b \o c) = 3 * NLimbs
<1>1. /\ a \in Seq(Limb) /\ b \in Seq(Limb) /\ c \in Seq(Limb)
      /\ Len(a) = NLimbs /\ Len(b) = NLimbs /\ Len(c) = NLimbs
  BY LimbsAreNumbers DEF Numeral
<1>2. Joined(Limb, a \o b, a, b)
  BY <1>1, TwoParts
<1>3. a \o b \in Seq(Limb) /\ Len(a \o b) = NLimbs + NLimbs
  BY <1>1, <1>2 DEF Joined
<1>4. Joined(Limb, (a \o b) \o c, a \o b, c)
  BY <1>1, <1>3, TwoParts
<1>5. a \o b \o c \in Seq(Limb) /\ Len(a \o b \o c) = NLimbs + NLimbs + NLimbs
  BY <1>1, <1>3, <1>4 DEF Joined
<1>6. QED
  BY <1>5, LimbsAreNumbers

(* The limbs of an addition are found in the range check table.            *)
LEMMA AddIsLookedUp ==
  ASSUME NEW op, op.a \in Numeral, op.b \in Numeral, op.c \in Numeral
  PROVE  LookedUp(AddEntries(op))
<1> DEFINE es == AddEntries(op)
           v == op.a \o op.b \o op.c
           h == (3 * NLimbs) \div 2
<1>1. v \in Seq(Limb) /\ Len(v) = 3 * NLimbs
  BY ThreeNumerals
<1>2. /\ h \in Nat /\ es \in Seq({es[i] : i \in 1 .. Len(es)}) /\ Len(es) = h + 1
      /\ \A k \in 1 .. h : es[k] = Entry("range_check_u8", <<v[2 * k - 1], v[2 * k]>>, op.is_real)
      /\ es[h + 1] = Entry("add", v, -op.is_real)
  BY AddEntriesAre
<1>3. \A k \in 1 .. h : v[2 * k - 1] \in Limb /\ v[2 * k] \in Limb
  BY <1>1, PairCells
<1> HIDE DEF es, v, h
<1>4. ASSUME NEW i \in DOMAIN es
      PROVE  \E o \in Offsets :
               /\ es[i].relation = "less_than_u8" => es[i].values = <<BytesRow(o).a, BytesRow(o).b, BytesRow(o).c>>
               /\ es[i].relation = "range_check_u8" => es[i].values = <<BytesRow(o).a, BytesRow(o).b>>
  <2>1. i \in 1 .. h \/ i = h + 1
    BY <1>2
  <2>2. CASE i \in 1 .. h
    <3> DEFINE x == v[2 * i - 1]
               y == v[2 * i]
    <3>1. x \in Limb /\ y \in Limb
      BY <1>3, <2>2
    <3>2. es[i] = Entry("range_check_u8", <<x, y>>, op.is_real)
      BY <1>2, <2>2
    <3>3. es[i].relation = "range_check_u8" /\ es[i].values = <<x, y>>
      <4> HIDE DEF x, y
      <4>1. QED
        BY <3>2 DEF Entry
    <3> HIDE DEF x, y
    <3>4. Offset(x, y) \in Offsets /\ BytesRow(Offset(x, y)).a = x /\ BytesRow(Offset(x, y)).b = y
      BY <3>1, PairIsListed
    <3>5. QED
      BY <3>3, <3>4
  <2>3. CASE i = h + 1
    <3>1. es[i].relation = "add"
      BY <1>2, <2>3 DEF Entry
    <3>2. 0 \in Limb
      BY LimbsAssumption DEF Limb
    <3>3. Offset(0, 0) \in Offsets
      BY <3>2, PairIsListed
    <3>4. QED
      BY <3>1, <3>3
  <2>4. QED
    BY <2>1, <2>2, <2>3
<1>5. QED
  BY <1>4 DEF LookedUp, es

(* A summand moves to the other side.                                      *)
LEMMA Moved ==
  ASSUME NEW x \in Int, NEW y \in Int, NEW z \in Int, NEW u \in Int, NEW k \in Int
  PROVE  x + y + u = z + k <=> x + y - z + u = k
OBVIOUS

(* The constraints of an addition hold when its carries are those of the   *)
(* limbs.                                                                  *)
LEMMA ChainIsAccepted ==
  ASSUME NEW op, op.a \in Numeral, op.b \in Numeral, op.c \in Numeral, op.is_real \in {0, 1},
         NEW c \in [0 .. NLimbs -> {0, 1}], c[0] = 0,
         \A i \in Index : op.a[i] + op.b[i] + c[i - 1] = op.c[i] + Base * c[i],
         op.carry = [i \in 1 .. NLimbs - 1 |-> c[i]]
  PROVE  AddAccepted(op)
<1> DEFINE a == op.a
           b == op.b
           s == op.c
<1>1. op.a = a /\ op.b = b /\ op.c = s /\ op.carry = [i \in 1 .. NLimbs - 1 |-> c[i]]
  OBVIOUS
<1>2. s \in Numeral /\ \A i \in Index : a[i] + b[i] + c[i - 1] = s[i] + Base * c[i]
  OBVIOUS
<1>3. c \in [0 .. NLimbs -> {0, 1}] /\ c[0] = 0
  OBVIOUS
<1>4. /\ Base \in Nat /\ NLimbs \in Nat /\ Index = 1 .. NLimbs
      /\ \A i \in Index : i \in 0 .. NLimbs /\ i - 1 \in 0 .. NLimbs
      /\ a \in [Index -> Nat] /\ b \in [Index -> Nat] /\ s \in [Index -> Nat]
  BY <1>2, LimbsAreNumbers
<1>5. ASSUME NEW i \in Index
      PROVE  LET overflow == op.a[i] + op.b[i] - op.c[i] + (IF i = 1 THEN 0 ELSE op.carry[i - 1])
             IN  /\ overflow \in {0, Base}
                 /\ i < NLimbs => /\ op.carry[i] \in {0, 1}
                                  /\ op.carry[i] * (overflow - Base) = 0
                                  /\ (op.carry[i] - 1) * overflow = 0
  <2> DEFINE in == IF i = 1 THEN 0 ELSE op.carry[i - 1]
             overflow == op.a[i] + op.b[i] - op.c[i] + in
  <2>1. in = c[i - 1]
    <3>1. CASE i = 1
      BY <1>3, <3>1
    <3>2. CASE i # 1
      <4>1. i - 1 \in 1 .. NLimbs - 1
        BY <1>4, <3>2
      <4>2. QED
        BY <1>1, <3>2, <4>1
    <3>3. QED
      BY <3>1, <3>2
  <2>2. a[i] \in Int /\ b[i] \in Int /\ s[i] \in Int /\ c[i - 1] \in {0, 1} /\ c[i] \in {0, 1}
    BY <1>3, <1>4, SMTT(30)
  <2>3. op.a[i] = a[i] /\ op.b[i] = b[i] /\ op.c[i] = s[i]
    BY <1>1
  <2>4. Base * c[i] = IF c[i] = 1 THEN Base ELSE 0
    BY <1>4, <2>2
  <2>5. a[i] + b[i] + c[i - 1] = s[i] + Base * c[i]
    BY <1>2
  <2>6. overflow = IF c[i] = 1 THEN Base ELSE 0
    <3>1. overflow = a[i] + b[i] - s[i] + c[i - 1]
      BY <2>1, <2>3
    <3>2. Base * c[i] \in Int
      BY <1>4, <2>4
    <3>3. a[i] + b[i] - s[i] + c[i - 1] = Base * c[i]
      BY <2>2, <2>5, <3>2, Moved, SMTT(30)
    <3>4. QED
      BY <2>4, <3>1, <3>3
  <2> HIDE DEF overflow
  <2>7. ASSUME i < NLimbs PROVE op.carry[i] = c[i]
    <3>1. i \in 1 .. NLimbs - 1
      BY <1>4, <2>7
    <3>2. QED
      BY <1>1, <3>1
  <2>8. ASSUME i < NLimbs
        PROVE  /\ op.carry[i] \in {0, 1} /\ op.carry[i] * (overflow - Base) = 0
               /\ (op.carry[i] - 1) * overflow = 0
    <3>1. op.carry[i] = c[i]
      BY <2>7, <2>8
    <3>2. CASE c[i] = 1
      BY <1>4, <2>6, <3>1, <3>2, SMTT(30)
    <3>3. CASE c[i] = 0
      BY <1>4, <2>6, <3>1, <3>3
    <3>4. QED
      BY <2>2, <3>2, <3>3
  <2>9. overflow \in {0, Base}
    BY <2>6
  <2>10. QED
    BY <2>8, <2>9 DEF overflow
<1>6. AddHolds(op)
  BY <1>1, <1>5 DEF AddHolds
<1>7. LookedUp(AddEntries(op))
  BY <1>1, <1>2, AddIsLookedUp
<1>8. QED
  BY <1>6, <1>7 DEF AddAccepted

(* The result of an addition is the sum.                                   *)
LEMMA AddRowAccepted ==
  ASSUME NEW a \in Numeral, NEW b \in Numeral
  PROVE  LET op == AddOp(AddRow(a, b)) IN
         AddAccepted(op) /\ ToU64(op.c) = (ToU64(a) + ToU64(b)) % Weight[NLimbs]
<1> DEFINE op == AddOp(AddRow(a, b))
           s == Add(a, b)
           c == Carries(a, b)
<1>1. op = [a |-> a, b |-> b, c |-> s, carry |-> [i \in 1 .. NLimbs - 1 |-> c[i]], is_real |-> 1]
  BY AddOpOfRow
<1>2. s \in Numeral /\ \A i \in Index : a[i] + b[i] + c[i - 1] = s[i] + Base * c[i]
  BY AddDigits
<1>3. c \in [0 .. NLimbs -> {0, 1}] /\ c[0] = 0
  BY CarriesRun
<1>4. ToU64(s) = (ToU64(a) + ToU64(b)) % Weight[NLimbs]
  BY AddAdds
<1> HIDE DEF op, s, c
<1>5. /\ op.a = a /\ op.b = b /\ op.c = s /\ op.is_real \in {0, 1}
      /\ op.carry = [i \in 1 .. NLimbs - 1 |-> c[i]]
  BY <1>1
<1>6. AddAccepted(op)
  <2>1. \A i \in Index : op.a[i] + op.b[i] + c[i - 1] = op.c[i] + Base * c[i]
    BY <1>2, <1>5
  <2>2. op.a \in Numeral /\ op.b \in Numeral /\ op.c \in Numeral
    BY <1>2, <1>5
  <2>3. QED
    BY <1>3, <1>5, <2>1, <2>2, ChainIsAccepted
<1>7. QED
  BY <1>4, <1>5, <1>6 DEF op

(* The comparison of a and b, of a row that is real or not.                *)
ComparisonOf(a, b, strict, real) ==
  [a |-> a, b |-> b, c |-> LessOf(a, b, strict), flags |-> FlagsOf(a, b),
   aCmp |-> Picked(a, FlagsOf(a, b)), bCmp |-> Picked(b, FlagsOf(a, b)), is_real |-> real]

(* What it looks up is the comparison of its bytes.                        *)
LEMMA UseIsByteComparison ==
  ASSUME NEW a \in Numeral, NEW b \in Numeral, NEW strict \in BOOLEAN, NEW real
  PROVE  LET x == Picked(a, FlagsOf(a, b))  y == Picked(b, FlagsOf(a, b)) IN
         LessThanUse(ComparisonOf(a, b, strict, real), strict) = <<x, y, IF x < y THEN 1 ELSE 0>>
<1> DEFINE op == ComparisonOf(a, b, strict, real)
           flags == FlagsOf(a, b)
           x == Picked(a, flags)
           y == Picked(b, flags)
           c == LessOf(a, b, strict)
<1>1. op.aCmp = x /\ op.bCmp = y /\ op.c = c /\ op.flags = flags
  BY DEF ComparisonOf
<1>2. LessThanUse(op, strict) = <<op.aCmp, op.bCmp, IF strict THEN op.c ELSE Sum(op.flags) * op.c>>
  BY DEF LessThanUse
<1>3. /\ x \in Limb /\ y \in Limb /\ c \in {0, 1}
      /\ Sum(flags) \in {0, 1} /\ (Sum(flags) = 0 <=> a = b) /\ (x = y <=> a = b)
      /\ a # b => c = IF x < y THEN 1 ELSE 0
      /\ a = b => c = IF strict THEN 0 ELSE 1
  BY LessOfNumerals
<1> HIDE DEF op, flags, x, y, c
<1>4. x \in Int /\ y \in Int
  BY <1>3, LimbsAssumption DEF Limb
<1>5. (IF strict THEN c ELSE Sum(flags) * c) = IF x < y THEN 1 ELSE 0
  <2>1. CASE a = b
    <3>1. x = y /\ Sum(flags) = 0 /\ ~ (x < y)
      BY <1>3, <1>4, <2>1
    <3>2. 0 * c = 0
      BY <1>3
    <3>3. QED
      BY <1>3, <2>1, <3>1, <3>2
  <2>2. CASE a # b
    <3>1. Sum(flags) = 1
      BY <1>3, <2>2
    <3>2. 1 * c = c
      BY <1>3
    <3>3. QED
      BY <1>3, <2>2, <3>1, <3>2
  <2>3. QED
    BY <2>1, <2>2
<1>6. QED
  BY <1>1, <1>2, <1>5 DEF op, flags, x, y

(* The row of a comparison is accepted, real or not.                       *)
LEMMA ComparisonAccepted ==
  ASSUME NEW a \in Numeral, NEW b \in Numeral, NEW strict \in BOOLEAN, NEW real \in {0, 1}
  PROVE  LessThanAccepted(ComparisonOf(a, b, strict, real), strict)
<1> DEFINE op == ComparisonOf(a, b, strict, real)
           flags == FlagsOf(a, b)
           x == Picked(a, flags)
           y == Picked(b, flags)
           c == LessOf(a, b, strict)
<1>1. op.a = a /\ op.b = b /\ op.aCmp = x /\ op.bCmp = y /\ op.c = c /\ op.flags = flags /\ op.is_real = real
  BY DEF ComparisonOf
<1>2. LessThanUse(op, strict) = <<x, y, IF x < y THEN 1 ELSE 0>>
  BY UseIsByteComparison
<1>3. /\ x \in Limb /\ y \in Limb /\ c \in {0, 1}
      /\ Sum(flags) \in {0, 1} /\ (Sum(flags) = 0 <=> a = b)
      /\ a = b => c = IF strict THEN 0 ELSE 1
  BY LessOfNumerals
<1>4. flags \in [Index -> {0, 1}]
  BY FlagsOfNumerals
<1>5. \A i \in Index : (1 - Visited(flags, i)) * (a[i] - b[i]) = 0
  <2>1. a \in [Index -> Int] /\ b \in [Index -> Int] /\ Index \subseteq Int
    BY LimbsAreNumbers DEF Index
  <2>2. CASE a = b
    <3> SUFFICES ASSUME NEW i \in Index PROVE (1 - Visited(flags, i)) * (a[i] - b[i]) = 0
      OBVIOUS
    <3>1. Visited(flags, i) = 0
      BY <2>2, FlagsOfNumerals
    <3>2. a[i] - b[i] = 0
      BY <2>1, <2>2
    <3>3. QED
      BY <3>1, <3>2
  <2>3. CASE a # b
    <3> SUFFICES ASSUME NEW i \in Index PROVE (1 - Visited(flags, i)) * (a[i] - b[i]) = 0
      OBVIOUS
    <3>1. PICK k \in Index : Differs(a, b, k)
      BY <2>3, TopDifference
    <3>2. Visited(flags, i) = IF k >= i THEN 1 ELSE 0
      BY <3>1, FlagsOfNumerals
    <3> HIDE DEF flags
    <3>3. CASE k >= i
      <4>1. a[i] - b[i] \in Int
        BY <2>1
      <4>2. 1 - Visited(flags, i) = 0
        BY <3>2, <3>3
      <4>3. QED
        BY <4>1, <4>2
    <3>4. CASE ~ (k >= i)
      <4>1. i > k
        BY <2>1, <3>4
      <4>2. a[i] - b[i] = 0
        BY <2>1, <3>1, <4>1 DEF Differs
      <4>3. 1 - Visited(flags, i) = 1
        BY <3>2, <3>4
      <4>4. QED
        BY <4>2, <4>3
    <3>5. QED
      BY <3>3, <3>4
  <2>4. QED
    BY <2>2, <2>3
<1> HIDE DEF op, flags, x, y, c
<1>6. FlagsHold(op)
  BY <1>1, <1>3, <1>4, <1>5 DEF FlagsHold
<1>7. LessThanHolds(op, strict)
  <2>1. op.aCmp = Picked(op.a, op.flags) /\ op.bCmp = Picked(op.b, op.flags)
    BY <1>1 DEF x, y
  <2>2. QED
    BY <1>1, <1>3, <1>6, <2>1 DEF LessThanHolds
<1>8. LookedUp(LessThanEntries(op, strict))
  <2> DEFINE es == LessThanEntries(op, strict)
             o == Offset(x, y)
  <2>1. /\ DOMAIN es = {1, 2} /\ es[1].relation = "less_than_u8"
        /\ es[1].values = LessThanUse(op, strict)
        /\ es[2].relation \in {"strict_less_than", "less_than"}
    BY DEF LessThanEntries, Entry
  <2>2. o \in Offsets /\ BytesRow(o).a = x /\ BytesRow(o).b = y /\ BytesRow(o).c = IF x < y THEN 1 ELSE 0
    BY <1>3, PairIsListed
  <2> HIDE DEF es, o
  <2>3. ASSUME NEW i \in DOMAIN es
        PROVE  /\ es[i].relation = "less_than_u8" => es[i].values = <<BytesRow(o).a, BytesRow(o).b, BytesRow(o).c>>
               /\ es[i].relation = "range_check_u8" => es[i].values = <<BytesRow(o).a, BytesRow(o).b>>
    BY <1>2, <2>1, <2>2
  <2>4. QED
    BY <2>2, <2>3 DEF LookedUp, es
<1>9. QED
  BY <1>7, <1>8 DEF LessThanAccepted, op

(* Padding.                                                                *)
LEMMA AddPaddingAccepted ==
  ASSUME NEW f, DOMAIN f = 1 .. 4 * NLimbs
  PROVE  AddAccepted(AddOp([i \in DOMAIN f |-> 0]))
<1> DEFINE z == [i \in DOMAIN f |-> 0]
           n == [i \in Index |-> 0]
           d == [i \in 1 .. NLimbs - 1 |-> 0]
           c == [i \in 0 .. NLimbs |-> 0]
           op == AddOp(z)
<1>1. NLimbs \in Nat \ {0} /\ Index = 1 .. NLimbs /\ 0 \in Limb /\ Base \in Nat
  BY LimbsAssumption DEF Index, Limb
<1>2. n \in Numeral /\ d \in [1 .. NLimbs - 1 -> {0, 1}] /\ c \in [0 .. NLimbs -> {0, 1}] /\ c[0] = 0
  BY <1>1 DEF Numeral
<1>3. z \in Seq(Nat) /\ Len(z) = 4 * NLimbs
  BY <1>1
<1>4. \A i \in 1 .. 4 * NLimbs : z[i] = 0
  OBVIOUS
<1>5. /\ \A i \in 1 .. NLimbs : 0 + i \in 1 .. 4 * NLimbs /\ NLimbs + i \in 1 .. 4 * NLimbs
                                /\ 2 * NLimbs + i \in 1 .. 4 * NLimbs
      /\ \A i \in 1 .. NLimbs - 1 : 3 * NLimbs + i \in 1 .. 4 * NLimbs
      /\ 4 * NLimbs \in 1 .. 4 * NLimbs
  BY <1>1
<1>6. \A i \in Index : n[i] = 0 /\ c[i] = 0 /\ c[i - 1] = 0
  BY <1>1
<1>7. \A i \in 1 .. NLimbs - 1 : d[i] = 0
  OBVIOUS
<1>8. d = [i \in 1 .. NLimbs - 1 |-> c[i]]
  <2>1. \A i \in 1 .. NLimbs - 1 : c[i] = 0
    BY <1>1
  <2>2. QED
    BY <2>1
<1> HIDE DEF z, n, d, c
<1>9. /\ Agree(z, 0, n, NLimbs) /\ Agree(z, NLimbs, n, NLimbs) /\ Agree(z, 2 * NLimbs, n, NLimbs)
      /\ Agree(z, 3 * NLimbs, d, NLimbs - 1)
  BY <1>1, <1>4, <1>5, <1>6, <1>7 DEF Agree
<1>10. op = [a |-> n, b |-> n, c |-> n, carry |-> d, is_real |-> z[4 * NLimbs]]
  BY <1>2, <1>3, <1>9, AddOpOfCells
<1>11. z[4 * NLimbs] = 0
  BY <1>4, <1>5
<1> HIDE DEF op
<1>12. op.a = n /\ op.b = n /\ op.c = n /\ op.carry = d /\ op.is_real \in {0, 1}
  BY <1>10, <1>11
<1>13. \A i \in Index : op.a[i] + op.b[i] + c[i - 1] = op.c[i] + Base * c[i]
  BY <1>1, <1>6, <1>12
<1>14. AddAccepted(op)
  <2>1. op.a \in Numeral /\ op.b \in Numeral /\ op.c \in Numeral
    BY <1>2, <1>12
  <2>2. op.carry = [i \in 1 .. NLimbs - 1 |-> c[i]]
    BY <1>8, <1>12
  <2>3. QED
    BY <1>2, <1>12, <1>13, <2>1, <2>2, ChainIsAccepted
<1>15. QED
  BY <1>14 DEF op, z

(* The padding of the comparisons is a row that is not real.               *)
LEMMA ComparisonPaddingCells ==
  ASSUME NEW a, NEW b, NEW strict, NEW f, NEW real \in Nat, ComparisonCells(f, a, b, strict, real)
  PROVE  ComparisonCells([f EXCEPT ![LessThanColumn.IS_REAL + 1] = 0], a, b, strict, 0)
<1> DEFINE N == NLimbs
           g == [f EXCEPT ![3 * N + 4] = 0]
<1>1. N \in Nat \ {0} /\ LessThanColumn.IS_REAL + 1 = 3 * N + 4
  BY LimbsAssumption DEF LessThanColumn
<1>2. f \in Seq(Nat) /\ Len(f) = 3 * N + 4
  BY DEF ComparisonCells
<1>3. g \in Seq(Nat) /\ Len(g) = 3 * N + 4 /\ g[3 * N + 4] = 0
      /\ \A i \in 1 .. 3 * N + 3 : g[i] = f[i]
  BY <1>1, <1>2
<1>4. /\ \A i \in 1 .. N : 0 + i \in 1 .. 3 * N + 3 /\ N + i \in 1 .. 3 * N + 3
                           /\ (2 * N + 1) + i \in 1 .. 3 * N + 3
      /\ 2 * N + 1 \in 1 .. 3 * N + 3 /\ 3 * N + 2 \in 1 .. 3 * N + 3 /\ 3 * N + 3 \in 1 .. 3 * N + 3
  BY <1>1
<1> HIDE DEF g, N
<1>5. ComparisonCells(g, a, b, strict, 0)
  BY <1>3, <1>4 DEF ComparisonCells, Agree, N
<1>6. QED
  BY <1>1, <1>5 DEF g

(* A row that is recorded, and its padding, in terms of its operands.      *)
LEMMA AdditionRow ==
  ASSUME NEW row, Recorded(row), row.kind = "Add", NEW K, row \in [kind : K, felts : Seq(Int)]
  PROVE  LET f == row.felts IN
         /\ First(row) \in Numeral /\ Second(row) \in Numeral /\ f = AddRow(First(row), Second(row))
         /\ f \in Seq(Nat) /\ Len(f) = 4 * NLimbs
         /\ Padding(row).kind = "Add" /\ Padding(row).felts = [i \in DOMAIN f |-> 0]
<1>1. First(row) \in Numeral /\ Second(row) \in Numeral /\ row.felts = AddRow(First(row), Second(row))
  BY DEF Recorded
<1>2. row.felts \in Seq(Nat) /\ Len(row.felts) = 4 * NLimbs
  BY <1>1, AddRowCells
<1>3. Padding(row).kind = "Add" /\ Padding(row).felts = [i \in DOMAIN row.felts |-> 0]
  BY DEF Padding
<1>4. QED
  BY <1>1, <1>2, <1>3

(* What the row of a comparison holds.                                     *)
LEMMA ComparisonRow ==
  ASSUME NEW row, Recorded(row), row.kind \in {"LessThan", "StrictLessThan"},
         NEW K, row \in [kind : K, felts : Seq(Int)]
  PROVE  LET a == First(row)  b == Second(row) IN
         /\ a \in Numeral /\ b \in Numeral /\ Strict(row) \in BOOLEAN
         /\ ComparisonCells(row.felts, a, b, Strict(row), 1)
         /\ LessThanOp(row.felts) = ComparisonOf(a, b, Strict(row), 1)
         /\ Padding(row).kind = row.kind /\ Strict(Padding(row)) = Strict(row)
         /\ ComparisonCells(Padding(row).felts, a, b, Strict(row), 0)
         /\ LessThanOp(Padding(row).felts) = ComparisonOf(a, b, Strict(row), 0)
<1> DEFINE a == First(row)
           b == Second(row)
           strict == Strict(row)
<1>1. a \in Numeral /\ b \in Numeral /\ strict \in BOOLEAN /\ row.felts = LessThanRow(a, b, strict)
  BY DEF Recorded, Strict
<1>2. /\ Padding(row).kind = row.kind
      /\ Padding(row).felts = [row.felts EXCEPT ![LessThanColumn.IS_REAL + 1] = 0]
  BY DEF Padding
<1>3. Strict(Padding(row)) = strict
  BY <1>2 DEF Strict
<1> HIDE DEF a, b, strict
<1>4. ComparisonCells(row.felts, a, b, strict, 1)
  BY <1>1, LessThanRowCells
<1>5. ComparisonCells(Padding(row).felts, a, b, strict, 0)
  <2>1. 1 \in Nat
    OBVIOUS
  <2>2. QED
    BY <1>2, <1>4, <2>1, ComparisonPaddingCells
<1>6. \A f, real : ComparisonCells(f, a, b, strict, real) => LessThanOp(f) = ComparisonOf(a, b, strict, real)
  BY <1>1, LessThanOpOfCells DEF ComparisonOf
<1>7. QED
  BY <1>1, <1>2, <1>3, <1>4, <1>5, <1>6 DEF a, b, strict

(* The rows the properties look at are recorded rows of additions and      *)
(* comparisons.                                                            *)
LEMMA ExaminedRows ==
  ASSUME RowsRecorded, NEW row \in Examined
  PROVE  /\ Recorded(row) /\ row \in [kind : OfNumbers \cup {"Poseidon"}, felts : Seq(Int)]
         /\ row.kind \in OfNumbers
<1>1. PICK k \in DOMAIN rows : row = rows[k] /\ row.kind # "Poseidon"
  BY DEF Examined
<1>2. Recorded(row) /\ row \in [kind : OfNumbers \cup {"Poseidon"}, felts : Seq(Int)]
  <2> DEFINE S == [kind : OfNumbers \cup {"Poseidon"}, felts : Seq(Int)]
  <2>1. rows \in Seq(S) /\ Recorded(row)
    BY <1>1 DEF RowsRecorded
  <2> HIDE DEF S
  <2>2. row \in S
    BY <1>1, <2>1
  <2>3. QED
    BY <2>1, <2>2 DEF S
<1>3. QED
  BY <1>1, <1>2 DEF OfNumbers

(* In every trace of the program, the rows that are recorded and those     *)
(* their tables are padded with satisfy the constraints of their           *)
(* components, and hold the right result (record.rs, components/addition,  *)
(* components/less_than).                                                  *)
THEOREM RowsAreAccepted == TablesSpec => []RowsAccepted
<1>1. ASSUME RowsRecorded PROVE RowsAccepted
  <2> SUFFICES ASSUME NEW row \in Examined
               PROVE  LET m == ToU64(First(row))  n == ToU64(Second(row)) IN
                      /\ Accepted(row) /\ Accepted(Padding(row))
                      /\ CASE row.kind = "Add" -> ToU64(AddOp(row.felts).c) = (m + n) % Weight[NLimbs]
                           [] row.kind = "LessThan"       -> LessThanOp(row.felts).c = 1 <=> m <= n
                           [] row.kind = "StrictLessThan" -> LessThanOp(row.felts).c = 1 <=> m < n
    BY DEF RowsAccepted
  <2> DEFINE a == First(row)
             b == Second(row)
             m == ToU64(a)
             n == ToU64(b)
             K == OfNumbers \cup {"Poseidon"}
  <2>1. Recorded(row) /\ row \in [kind : K, felts : Seq(Int)]
        /\ (row.kind = "Add" \/ row.kind \in {"LessThan", "StrictLessThan"})
    BY <1>1, ExaminedRows DEF OfNumbers
  <2> HIDE DEF K
  <2>2. CASE row.kind = "Add"
    <3>1. /\ a \in Numeral /\ b \in Numeral /\ row.felts = AddRow(a, b)
          /\ row.felts \in Seq(Nat) /\ Len(row.felts) = 4 * NLimbs
          /\ Padding(row).kind = "Add" /\ Padding(row).felts = [i \in DOMAIN row.felts |-> 0]
      BY <2>1, <2>2, AdditionRow
    <3> HIDE DEF a, b
    <3>2. AddAccepted(AddOp(row.felts)) /\ ToU64(AddOp(row.felts).c) = (m + n) % Weight[NLimbs]
      BY <3>1, AddRowAccepted
    <3>3. DOMAIN row.felts = 1 .. 4 * NLimbs
      BY <3>1
    <3>4. AddAccepted(AddOp(Padding(row).felts))
      BY <3>1, <3>3, AddPaddingAccepted
    <3>5. Accepted(row) /\ Accepted(Padding(row))
      BY <2>2, <3>1, <3>2, <3>4 DEF Accepted
    <3>6. QED
      BY <2>2, <3>2, <3>5 DEF a, b
  <2>3. CASE row.kind \in {"LessThan", "StrictLessThan"}
    <3> DEFINE strict == Strict(row)
    <3>1. /\ a \in Numeral /\ b \in Numeral /\ strict \in BOOLEAN
          /\ LessThanOp(row.felts) = ComparisonOf(a, b, strict, 1)
          /\ Padding(row).kind = row.kind /\ Strict(Padding(row)) = strict
          /\ LessThanOp(Padding(row).felts) = ComparisonOf(a, b, strict, 0)
      BY <2>1, <2>3, ComparisonRow
    <3>2. strict <=> row.kind = "StrictLessThan"
      BY DEF Strict
    <3> HIDE DEF a, b, strict
    <3>3. /\ LessThanAccepted(ComparisonOf(a, b, strict, 1), strict)
          /\ LessThanAccepted(ComparisonOf(a, b, strict, 0), strict)
      BY <3>1, ComparisonAccepted
    <3>4. Accepted(row) /\ Accepted(Padding(row))
      BY <2>3, <3>1, <3>3 DEF Accepted, strict
    <3>5. LessThanOp(row.felts).c = LessOf(a, b, strict)
      BY <3>1 DEF ComparisonOf
    <3>6. /\ strict => (LessOf(a, b, strict) = 1 <=> m < n)
          /\ ~ strict => (LessOf(a, b, strict) = 1 <=> m <= n)
      BY <3>1, LessOfNumerals
    <3>7. QED
      BY <2>3, <3>2, <3>4, <3>5, <3>6 DEF a, b
  <2>4. QED
    BY <2>1, <2>2, <2>3
<1>2. QED
  BY <1>1, RecordedInvariant, PTL

-----------------------------------------------------------------------------
(* What is accepted is true                                                *)

(* The constraints of an addition determine its carries, and these its     *)
(* result.                                                                 *)
LEMMA AcceptedSum ==
  ASSUME NEW op, op.a \in Numeral, op.b \in Numeral, op.c \in Numeral,
         op.carry \in [1 .. NLimbs - 1 -> {0, 1}], AddHolds(op)
  PROVE  ToU64(op.c) = (ToU64(op.a) + ToU64(op.b)) % Weight[NLimbs]
<1> DEFINE a == op.a
           b == op.b
           s == op.c
           in(i) == IF i = 1 THEN 0 ELSE op.carry[i - 1]
           overflow(i) == a[i] + b[i] - s[i] + in(i)
           c == [i \in 0 .. NLimbs |-> IF i = 0 THEN 0
                                       ELSE IF i < NLimbs THEN op.carry[i]
                                       ELSE IF overflow(i) = Base THEN 1 ELSE 0]
<1>1. /\ Base \in Nat /\ Base > 1 /\ NLimbs \in Nat \ {0} /\ Index = 1 .. NLimbs
      /\ a \in [Index -> Int] /\ b \in [Index -> Int] /\ s \in [Index -> Int]
  BY LimbsAreNumbers, LimbsAssumption
<1>2. \A i \in Index : /\ overflow(i) \in {0, Base}
                       /\ i < NLimbs => /\ op.carry[i] \in {0, 1}
                                        /\ op.carry[i] * (overflow(i) - Base) = 0
                                        /\ (op.carry[i] - 1) * overflow(i) = 0
  BY DEF AddHolds
<1>3. c \in [0 .. NLimbs -> {0, 1}] /\ c[0] = 0
  <2>1. \A i \in 0 .. NLimbs : i # 0 /\ i < NLimbs => i \in 1 .. NLimbs - 1
    BY <1>1
  <2> HIDE DEF overflow
  <2>2. QED
    BY <1>1, <2>1, SMTT(30)
<1>4. ASSUME NEW i \in Index PROVE in(i) = c[i - 1]
  <2>1. CASE i = 1
    BY <1>1, <2>1
  <2>2. CASE i # 1
    <3>1. i - 1 # 0 /\ i - 1 < NLimbs /\ i - 1 \in 0 .. NLimbs
      BY <1>1, <2>2
    <3> HIDE DEF overflow
    <3>2. QED
      BY <2>2, <3>1
  <2>3. QED
    BY <2>1, <2>2
<1>5. ASSUME NEW i \in Index PROVE overflow(i) = Base * c[i]
  <2>1. overflow(i) \in {0, Base}
    BY <1>2
  <2>2. i # 0 /\ i \in 0 .. NLimbs
    BY <1>1
  <2>3. c[i] = IF i < NLimbs THEN op.carry[i] ELSE IF overflow(i) = Base THEN 1 ELSE 0
    BY <2>2
  <2>4. i < NLimbs => /\ op.carry[i] \in {0, 1}
                      /\ op.carry[i] * (overflow(i) - Base) = 0
                      /\ (op.carry[i] - 1) * overflow(i) = 0
    BY <1>2
  <2>5. Base * 1 = Base /\ Base * 0 = 0 /\ Base # 0
    BY <1>1
  <2> HIDE DEF overflow, c
  <2>6. CASE i < NLimbs
    <3>1. CASE op.carry[i] = 1
      <4>1. overflow(i) = Base
        BY <1>1, <2>1, <2>4, <2>6, <3>1
      <4>2. QED
        BY <2>3, <2>5, <2>6, <3>1, <4>1
    <3>2. CASE op.carry[i] = 0
      <4>1. overflow(i) = 0
        BY <1>1, <2>1, <2>4, <2>6, <3>2
      <4>2. QED
        BY <2>3, <2>5, <2>6, <3>2, <4>1
    <3>3. QED
      BY <2>4, <2>6, <3>1, <3>2
  <2>7. CASE ~ (i < NLimbs)
    BY <2>1, <2>3, <2>5, <2>7
  <2>8. QED
    BY <2>6, <2>7
<1>6. ASSUME NEW i \in Index PROVE a[i] + b[i] + c[i - 1] = s[i] + Base * c[i]
  <2>1. a[i] + b[i] - s[i] + c[i - 1] = Base * c[i]
    BY <1>4, <1>5
  <2>2. c[i - 1] \in Int /\ c[i] \in Int
    <3>1. i \in 0 .. NLimbs /\ i - 1 \in 0 .. NLimbs
      BY <1>1
    <3> HIDE DEF c
    <3>2. c[i] \in {0, 1} /\ c[i - 1] \in {0, 1}
      BY <1>3, <3>1
    <3>3. QED
      BY <3>2
  <2> HIDE DEF a, b, s, c
  <2>3. a[i] \in Int /\ b[i] \in Int /\ s[i] \in Int
    BY <1>1
  <2>4. Base * c[i] \in Int
    BY <1>1, <2>2
  <2>5. QED
    BY <2>1, <2>2, <2>3, <2>4, Moved
<1> HIDE DEF c
<1>7. ToU64(a) + ToU64(b) = ToU64(s) + c[NLimbs] * Weight[NLimbs]
  BY <1>3, <1>6, ChainOfNumbers
<1> DEFINE m == ToU64(a)
           n == ToU64(b)
           r == ToU64(s)
           w == Weight[NLimbs]
           q == c[NLimbs]
<1>8. w \in Nat \ {0} /\ m \in 0 .. w - 1 /\ n \in 0 .. w - 1 /\ r \in 0 .. w - 1
  BY RoundTrip, WeightRuns, LimbsAreNumbers
<1>9. q \in {0, 1}
  BY <1>1, <1>3
<1> HIDE DEF m, n, r, w, q, a, b, s
<1>10. m + n = r + q * w
  BY <1>7 DEF m, n, r, w, q
<1>11. q * w = w * q /\ q \in Int
  BY <1>8, <1>9
<1>12. w * q + r = m + n
  <2>1. w * q \in Int
    BY <1>8, <1>11
  <2>2. QED
    BY <1>8, <1>10, <1>11, <2>1
<1>13. (m + n) % w = r
  BY <1>8, <1>11, <1>12, DivisionIs
<1>14. QED
  BY <1>13 DEF m, n, r, w, a, b, s

(* A comparison that answers 1 is true, whatever its flags.                *)
LEMMA AcceptedComparison ==
  ASSUME NEW op, op.a \in Numeral, op.b \in Numeral, op.flags \in [Index -> {0, 1}], op.c = 1,
         NEW strict \in BOOLEAN, LessThanAccepted(op, strict)
  PROVE  IF strict THEN ToU64(op.a) < ToU64(op.b) ELSE ToU64(op.a) <= ToU64(op.b)
<1> DEFINE a == op.a
           b == op.b
           flags == op.flags
           m == ToU64(a)
           n == ToU64(b)
<1>1. /\ a \in Numeral /\ b \in Numeral /\ flags \in [Index -> {0, 1}]
      /\ a \in [Index -> Nat] /\ b \in [Index -> Nat] /\ a \in [Index -> Int] /\ b \in [Index -> Int]
      /\ \A i \in Index : i \in Nat
  BY LimbsAreNumbers DEF Index
<1>2. /\ \A i \in Index : (1 - Visited(flags, i)) * (a[i] - b[i]) = 0
      /\ Sum(flags) \in {0, 1}
      /\ op.aCmp = Picked(a, flags) /\ op.bCmp = Picked(b, flags)
      /\ Sum(flags) = 0 => op.c = (IF strict THEN 0 ELSE 1)
  BY DEF LessThanAccepted, LessThanHolds, FlagsHold
<1>3. LookedUp(LessThanEntries(op, strict))
  BY DEF LessThanAccepted
<1>4. m \in Int /\ n \in Int /\ (a = b => m = n)
  <2>1. Weight[NLimbs] \in Nat
    BY WeightRuns, LimbsAreNumbers
  <2>2. QED
    BY <1>1, <2>1, RoundTrip
<1>5. CASE Sum(flags) = 0
  <2>1. NoFlag(flags)
    BY <1>1, <1>5, FlagsAddUp DEF NoFlag
  <2>2. \A i \in Index : a[i] = b[i]
    <3> SUFFICES ASSUME NEW i \in Index PROVE a[i] = b[i]
      OBVIOUS
    <3>1. Visited(flags, i) = 0
      BY <1>1, <2>1, NoFlagSums
    <3>2. (1 - Visited(flags, i)) * (a[i] - b[i]) = 0 /\ a[i] \in Int /\ b[i] \in Int
      BY <1>1, <1>2
    <3> HIDE DEF a, b, flags
    <3>3. QED
      BY <3>1, <3>2
  <2>3. a = b
    BY <1>1, <2>2
  <2>4. ~ strict
    BY <1>2, <1>5
  <2>5. QED
    BY <1>4, <2>3, <2>4
<1>6. CASE Sum(flags) = 1
  <2>1. PICK k \in Index : OneFlag(flags, k)
    BY <1>1, <1>6, FlagsAddUp DEF OneFlag
  <2>2. op.aCmp = a[k] /\ op.bCmp = b[k]
    BY <1>1, <1>2, <2>1, OneFlagSums
  <2>3. \A i \in Index : i > k => a[i] = b[i]
    <3> SUFFICES ASSUME NEW i \in Index, i > k PROVE a[i] = b[i]
      OBVIOUS
    <3>1. Visited(flags, i) = 0
      <4>1. ~ (k >= i)
        BY <1>1
      <4>2. QED
        BY <1>1, <2>1, <4>1, OneFlagSums
    <3>2. (1 - Visited(flags, i)) * (a[i] - b[i]) = 0 /\ a[i] \in Int /\ b[i] \in Int
      BY <1>1, <1>2
    <3> HIDE DEF a, b, flags
    <3>3. QED
      BY <3>1, <3>2
  <2>4. LessThanUse(op, strict) = <<a[k], b[k], 1>>
    <3>1. LessThanUse(op, strict) = <<op.aCmp, op.bCmp, IF strict THEN op.c ELSE Sum(op.flags) * op.c>>
      BY DEF LessThanUse
    <3>2. (IF strict THEN op.c ELSE Sum(op.flags) * op.c) = 1
      BY <1>6
    <3>3. QED
      BY <2>2, <3>1, <3>2
  <2>5. a[k] < b[k]
    <3> DEFINE es == LessThanEntries(op, strict)
    <3>1. 1 \in DOMAIN es /\ es[1].relation = "less_than_u8" /\ es[1].values = <<a[k], b[k], 1>>
      <4>1. es[1] = Entry("less_than_u8", LessThanUse(op, strict), op.is_real) /\ 1 \in DOMAIN es
        BY DEF LessThanEntries
      <4> HIDE DEF es
      <4>2. QED
        BY <2>4, <4>1 DEF Entry
    <3> HIDE DEF es
    <3>2. PICK o \in Offsets : es[1].values = <<BytesRow(o).a, BytesRow(o).b, BytesRow(o).c>>
      BY <1>3, <3>1 DEF LookedUp, es
    <3>3. BytesRow(o).a = a[k] /\ BytesRow(o).b = b[k] /\ BytesRow(o).c = 1
      BY <3>1, <3>2
    <3>4. BytesRow(o).c = IF BytesRow(o).a < BytesRow(o).b THEN 1 ELSE 0
      BY DEF BytesRow
    <3>5. QED
      BY <3>3, <3>4
  <2>6. Differs(a, b, k)
    <3>1. a[k] # b[k]
      BY <1>1, <2>5
    <3>2. QED
      BY <2>3, <3>1 DEF Differs
  <2>7. m < n
    BY <1>1, <2>5, <2>6, OrderAgrees
  <2>8. QED
    BY <1>4, <2>7
<1>7. QED
  BY <1>2, <1>5, <1>6

(* Over the inputs of every row that is recorded, the constraints and the  *)
(* byte tables accept no wrong sum, and no answer 1 to a comparison that   *)
(* is false (components/addition, components/less_than).                   *)
THEOREM OnlyTruthIsAccepted == TablesSpec => []AcceptedIsTrue
<1>1. ASSUME RowsRecorded PROVE AcceptedIsTrue
  <2> SUFFICES ASSUME NEW row \in Examined
               PROVE  LET m == ToU64(First(row))  n == ToU64(Second(row))
                      IN  IF row.kind = "Add"
                          THEN \A c \in [Index -> Limb], carry \in [1 .. NLimbs - 1 -> {0, 1}] :
                                 AddAccepted([AddOp(row.felts) EXCEPT !.c = c, !.carry = carry])
                                   => ToU64(c) = (m + n) % Weight[NLimbs]
                          ELSE \A flags \in [Index -> {0, 1}], aCmp, bCmp \in Limb :
                                 LessThanAccepted([LessThanOp(row.felts) EXCEPT
                                                     !.flags = flags, !.aCmp = aCmp, !.bCmp = bCmp, !.c = 1],
                                                  Strict(row))
                                   => IF Strict(row) THEN m < n ELSE m <= n
    BY DEF AcceptedIsTrue
  <2> DEFINE a == First(row)
             b == Second(row)
             m == ToU64(a)
             n == ToU64(b)
             K == OfNumbers \cup {"Poseidon"}
  <2>1. Recorded(row) /\ row \in [kind : K, felts : Seq(Int)]
        /\ (row.kind = "Add" \/ row.kind \in {"LessThan", "StrictLessThan"})
    BY <1>1, ExaminedRows DEF OfNumbers
  <2> HIDE DEF K
  <2>2. CASE row.kind = "Add"
    <3>1. a \in Numeral /\ b \in Numeral /\ row.felts = AddRow(a, b)
      BY <2>1, <2>2, AdditionRow
    <3>2. ASSUME NEW c \in [Index -> Limb], NEW carry \in [1 .. NLimbs - 1 -> {0, 1}],
                 AddAccepted([AddOp(row.felts) EXCEPT !.c = c, !.carry = carry])
          PROVE  ToU64(c) = (m + n) % Weight[NLimbs]
      <4> HIDE DEF a, b
      <4> DEFINE op == [AddOp(row.felts) EXCEPT !.c = c, !.carry = carry]
      <4>1. AddOp(row.felts) = [a |-> a, b |-> b, c |-> Add(a, b),
                                carry |-> [i \in 1 .. NLimbs - 1 |-> Carries(a, b)[i]], is_real |-> 1]
        BY <3>1, AddOpOfRow
      <4>2. op.a = a /\ op.b = b /\ op.c = c /\ op.carry = carry
        BY <4>1
      <4>3. AddHolds(op)
        BY <3>2 DEF AddAccepted
      <4> HIDE DEF op
      <4>4. /\ op.a \in Numeral /\ op.b \in Numeral /\ op.c \in Numeral
            /\ op.carry \in [1 .. NLimbs - 1 -> {0, 1}]
        BY <3>1, <4>2 DEF Numeral
      <4>5. ToU64(op.c) = (ToU64(op.a) + ToU64(op.b)) % Weight[NLimbs]
        BY <4>3, <4>4, AcceptedSum
      <4>6. QED
        BY <4>2, <4>5
    <3>3. QED
      BY <2>2, <3>2
  <2>3. CASE row.kind \in {"LessThan", "StrictLessThan"}
    <3> DEFINE strict == Strict(row)
    <3>1. /\ a \in Numeral /\ b \in Numeral /\ strict \in BOOLEAN
          /\ LessThanOp(row.felts) = ComparisonOf(a, b, strict, 1)
      BY <2>1, <2>3, ComparisonRow
    <3>2. ASSUME NEW flags \in [Index -> {0, 1}], NEW aCmp \in Limb, NEW bCmp \in Limb,
                 LessThanAccepted([LessThanOp(row.felts) EXCEPT
                                     !.flags = flags, !.aCmp = aCmp, !.bCmp = bCmp, !.c = 1], strict)
          PROVE  IF strict THEN m < n ELSE m <= n
      <4> HIDE DEF a, b, strict
      <4> DEFINE op == [LessThanOp(row.felts) EXCEPT
                          !.flags = flags, !.aCmp = aCmp, !.bCmp = bCmp, !.c = 1]
      <4>1. op.a = a /\ op.b = b /\ op.flags = flags /\ op.c = 1
        BY <3>1 DEF ComparisonOf
      <4>2. LessThanAccepted(op, strict)
        BY <3>2
      <4> HIDE DEF op
      <4>3. op.a \in Numeral /\ op.b \in Numeral /\ op.flags \in [Index -> {0, 1}]
        BY <3>1, <4>1
      <4>4. IF strict THEN ToU64(op.a) < ToU64(op.b) ELSE ToU64(op.a) <= ToU64(op.b)
        BY <3>1, <4>1, <4>2, <4>3, AcceptedComparison
      <4>5. QED
        BY <4>1, <4>4
    <3>3. row.kind # "Add"
      BY <2>3
    <3>4. QED
      BY <3>2, <3>3
  <2>4. QED
    BY <2>1, <2>2, <2>3
<1>2. QED
  BY <1>1, RecordedInvariant, PTL

-----------------------------------------------------------------------------
(* Columns and entries                                                     *)

(* from_eval cuts the row in parts that are what its first cells are.      *)
LEMMA AddValues ==
  ASSUME NEW f \in Seq(Nat), Len(f) = 4 * NLimbs
  PROVE  LET op == AddOp(f)  v == op.a \o op.b \o op.c IN
         v = SubSeq(f, 1, 3 * NLimbs) /\ \A j \in 1 .. 3 * NLimbs : v[j] = f[j]
<1> DEFINE N == NLimbs
           op == AddOp(f)
           v == op.a \o op.b \o op.c
<1>1. N \in Nat \ {0}
  BY LimbsAssumption
<1>2. v = SubSeq(f, 1, N) \o SubSeq(f, N + 1, 2 * N) \o SubSeq(f, 2 * N + 1, 3 * N)
  BY DEF AddOp
<1>3. SubSeq(f, 1, N) \o SubSeq(f, N + 1, 2 * N) = SubSeq(f, 1, 2 * N)
  <2>1. N \in Nat /\ 2 * N \in Nat /\ N <= 2 * N /\ 2 * N <= Len(f)
    BY <1>1
  <2> HIDE DEF N
  <2>2. QED
    BY <2>1, AdjacentParts
<1>4. SubSeq(f, 1, 2 * N) \o SubSeq(f, 2 * N + 1, 3 * N) = SubSeq(f, 1, 3 * N)
  <2>1. 2 * N \in Nat /\ 3 * N \in Nat /\ 2 * N <= 3 * N /\ 3 * N <= Len(f)
    BY <1>1
  <2> HIDE DEF N
  <2>2. QED
    BY <2>1, AdjacentParts
<1> HIDE DEF N, v
<1>5. v = SubSeq(f, 1, 3 * N)
  BY <1>2, <1>3, <1>4
<1>6. \A j \in 1 .. 3 * N : SubSeq(f, 1, 3 * N)[j] = f[j]
  BY <1>1 DEF N
<1>7. QED
  BY <1>5, <1>6 DEF v, N

(* The columns of an addition: the limbs four by four, then the sum.       *)
LEMMA AddColumnsMatch ==
  ASSUME NEW f \in Seq(Nat), Len(f) = 4 * NLimbs
  PROVE  /\ AddColumns(f) = InPairs(AddEntries(AddOp(f)))
         /\ Len(AddColumns(f)) = (3 * NLimbs) \div 4 + 1
<1> DEFINE N == NLimbs
           op == AddOp(f)
           v == op.a \o op.b \o op.c
           h == (3 * N) \div 2
           q == N \div 4
           es == AddEntries(op)
           real == op.is_real
           pair(j) == Entry("range_check_u8", <<f[j], f[j + 1]>>, real)
           sum == Entry("add", SubSeq(f, 1, 3 * N), -real)
           part == [k \in 1 .. (3 * N) \div 4 |-> {pair(4 * k - 3), pair(4 * k - 1)}]
           cols == AddColumns(f)
           pairs == InPairs(es)
<1>1. N \in Nat \ {0} /\ q \in Nat /\ N = 4 * q
  BY LimbsAssumption
<1>2. h = 6 * q /\ (3 * N) \div 4 = 3 * q /\ 3 * N = 12 * q /\ 3 * q \in Nat
  <2> HIDE DEF N, q
  <2>1. QED
    BY <1>1
<1>3. v = SubSeq(f, 1, 3 * N) /\ \A j \in 1 .. 3 * N : v[j] = f[j]
  BY AddValues
<1>4. /\ h \in Nat /\ es \in Seq({es[i] : i \in 1 .. Len(es)}) /\ Len(es) = h + 1
      /\ \A k \in 1 .. h : es[k] = Entry("range_check_u8", <<v[2 * k - 1], v[2 * k]>>, real)
      /\ es[h + 1] = Entry("add", v, -real)
  BY AddEntriesAre
<1>5. real = f[4 * N]
  BY DEF AddOp
<1>6. /\ Cell(f, AddColumn.IS_REAL) = real
      /\ \A j \in Nat : Cell(f, AddColumn.A + j) = f[j + 1]
      /\ Cells(f, AddColumn.A, 3 * N) = SubSeq(f, 1, 3 * N)
  <2>1. AddColumn.IS_REAL + 1 = 4 * N /\ AddColumn.A = 0
    BY <1>1 DEF AddColumn
  <2> HIDE DEF real, N
  <2>2. Cell(f, AddColumn.IS_REAL) = real
    BY <1>5, <2>1 DEF Cell
  <2>3. \A j \in Nat : Cell(f, AddColumn.A + j) = f[j + 1]
    <3>1. \A j \in Nat : 0 + j = j
      OBVIOUS
    <3>2. QED
      BY <2>1, <3>1 DEF Cell
  <2>4. Cells(f, AddColumn.A, 3 * N) = SubSeq(f, 1, 3 * N)
    <3>1. 0 + 1 = 1 /\ 0 + 3 * N = 3 * N
      BY <1>1
    <3>2. QED
      BY <2>1, <3>1 DEF Cells
  <2>5. QED
    BY <2>2, <2>3, <2>4
<1>7. cols = part \o <<{sum}>>
  <2> DEFINE value(i) == Cell(f, AddColumn.A + i)
             is == Cell(f, AddColumn.IS_REAL)
             check(i) == Entry("range_check_u8", <<value(i), value(i + 1)>>, is)
             part2 == [k \in 1 .. (3 * N) \div 4 |-> {check(4 * (k - 1)), check(4 * (k - 1) + 2)}]
  <2>1. cols = part2 \o <<{Entry("add", Cells(f, AddColumn.A, 3 * N), -is)}>>
    BY DEF AddColumns
  <2>2. is = real
    BY <1>6
  <2>3. ASSUME NEW k \in 1 .. (3 * N) \div 4
        PROVE  check(4 * (k - 1)) = pair(4 * k - 3) /\ check(4 * (k - 1) + 2) = pair(4 * k - 1)
    <3> DEFINE i == 4 * (k - 1)
    <3>1. /\ i \in Nat /\ i + 1 \in Nat /\ i + 2 \in Nat /\ (i + 2) + 1 \in Nat
          /\ i + 1 = 4 * k - 3 /\ (i + 1) + 1 = (4 * k - 3) + 1
          /\ (i + 2) + 1 = 4 * k - 1 /\ ((i + 2) + 1) + 1 = (4 * k - 1) + 1
      BY <1>2
    <3> HIDE DEF i, is, real
    <3>2. /\ value(i) = f[4 * k - 3] /\ value(i + 1) = f[(4 * k - 3) + 1]
          /\ value(i + 2) = f[4 * k - 1] /\ value((i + 2) + 1) = f[(4 * k - 1) + 1]
      BY <1>6, <3>1
    <3> HIDE DEF value
    <3>3. QED
      BY <2>2, <3>2 DEF i
  <2>4. part2 = part
    <3> HIDE DEF check, pair
    <3>1. QED
      BY <2>3
  <2>5. QED
    BY <1>6, <2>1, <2>2, <2>4
<1> HIDE DEF cols
<1>8. ASSUME NEW k \in 1 .. 3 * q
      PROVE  {es[i] : i \in {2 * k - 1, 2 * k} \cap DOMAIN es} = {pair(4 * k - 3), pair(4 * k - 1)}
  <2>1. /\ 2 * k - 1 \in 1 .. h /\ 2 * k \in 1 .. h
        /\ 2 * (2 * k - 1) - 1 = 4 * k - 3 /\ 2 * (2 * k - 1) = (4 * k - 3) + 1
        /\ 2 * (2 * k) - 1 = 4 * k - 1 /\ 2 * (2 * k) = (4 * k - 1) + 1
        /\ 4 * k - 3 \in 1 .. 3 * N /\ (4 * k - 3) + 1 \in 1 .. 3 * N
        /\ 4 * k - 1 \in 1 .. 3 * N /\ (4 * k - 1) + 1 \in 1 .. 3 * N
    BY <1>1, <1>2
  <2> HIDE DEF v, h, es, real
  <2>2. es[2 * k - 1] = pair(4 * k - 3) /\ es[2 * k] = pair(4 * k - 1)
    <3>1. es[2 * k - 1] = Entry("range_check_u8", <<v[4 * k - 3], v[(4 * k - 3) + 1]>>, real)
      BY <1>4, <2>1
    <3>2. es[2 * k] = Entry("range_check_u8", <<v[4 * k - 1], v[(4 * k - 1) + 1]>>, real)
      BY <1>4, <2>1
    <3>3. QED
      BY <1>3, <2>1, <3>1, <3>2
  <2>3. 2 * k - 1 \in DOMAIN es /\ 2 * k \in DOMAIN es
    BY <1>4, <2>1
  <2> HIDE DEF pair
  <2>4. QED
    BY <2>2, <2>3
<1>9. {es[i] : i \in {2 * (3 * q + 1) - 1, 2 * (3 * q + 1)} \cap DOMAIN es} = {sum}
  <2> HIDE DEF v, es, real, N, q
  <2>1. 2 * (3 * q + 1) - 1 = h + 1 /\ 2 * (3 * q + 1) \notin DOMAIN es /\ h + 1 \in DOMAIN es
    BY <1>1, <1>2, <1>4
  <2>2. es[h + 1] = sum
    BY <1>3, <1>4
  <2> HIDE DEF h, sum
  <2>3. QED
    BY <2>1, <2>2
<1> DEFINE S == {{pair(4 * k - 3), pair(4 * k - 1)} : k \in 1 .. 3 * q} \cup {{sum}}
<1>10. part \in [1 .. 3 * q -> S] /\ {sum} \in S
       /\ \A k \in 1 .. 3 * q : part[k] = {pair(4 * k - 3), pair(4 * k - 1)}
  <2> HIDE DEF pair, sum, N, q
  <2>1. QED
    BY <1>2
<1>11. (Len(es) + 1) \div 2 = 3 * q + 1
  <2> HIDE DEF es, N, q
  <2>1. QED
    BY <1>1, <1>2, <1>4
<1>12. pairs = [c \in 1 .. 3 * q + 1 |-> {es[i] : i \in {2 * c - 1, 2 * c} \cap DOMAIN es}]
  BY <1>11 DEF InPairs
<1> HIDE DEF S, part, pair, sum, es, pairs, q, N, h, real
<1>13. part \in Seq(S) /\ Len(part) = 3 * q /\ <<{sum}>> \in Seq(S) /\ Len(<<{sum}>>) = 1
  BY <1>2, <1>10
<1>14. cols \in Seq(S) /\ Len(cols) = 3 * q + 1 /\ Agree(cols, 0, part, 3 * q) /\ Agree(cols, 3 * q, <<{sum}>>, 1)
  <2>1. Joined(S, cols, part, <<{sum}>>)
    BY <1>7, <1>13, TwoParts
  <2>2. QED
    BY <1>13, <2>1 DEF Joined
<1>15. ASSUME NEW c \in 1 .. 3 * q + 1 PROVE cols[c] = pairs[c]
  <2>1. CASE c = 3 * q + 1
    <3>1. cols[3 * q + 1] = {sum}
      BY <1>14 DEF Agree
    <3>2. pairs[3 * q + 1] = {sum}
      BY <1>9, <1>12, <2>1
    <3>3. QED
      BY <2>1, <3>1, <3>2
  <2>2. CASE c # 3 * q + 1
    <3>1. c \in 1 .. 3 * q /\ 0 + c = c
      BY <1>2, <2>2
    <3>2. cols[c] = part[c]
      BY <1>14, <3>1 DEF Agree
    <3>3. pairs[c] = {es[i] : i \in {2 * c - 1, 2 * c} \cap DOMAIN es}
      BY <1>12
    <3>4. QED
      BY <1>8, <1>10, <3>1, <3>2, <3>3
  <2>3. QED
    BY <2>1, <2>2
<1>16. cols = pairs
  <2>1. cols = [c \in 1 .. 3 * q + 1 |-> cols[c]]
    BY <1>14
  <2>2. pairs = [c \in 1 .. 3 * q + 1 |-> pairs[c]]
    BY <1>12
  <2>3. QED
    BY <1>15, <2>1, <2>2
<1>17. QED
  BY <1>2, <1>14, <1>16 DEF cols, pairs, es, N

(* Two entries in pairs are a column of both.                              *)
LEMMA PairOfTwo ==
  ASSUME NEW x, NEW y
  PROVE  InPairs(<<x, y>>) = <<{x, y}>>
<1> DEFINE es == <<x, y>>
<1>1. Len(es) = 2 /\ es[1] = x /\ es[2] = y /\ DOMAIN es = {1, 2}
  OBVIOUS
<1> HIDE DEF es
<1>2. (Len(es) + 1) \div 2 = 1
  BY <1>1
<1>3. InPairs(es) = [c \in 1 .. 1 |-> {es[i] : i \in {2 * c - 1, 2 * c} \cap DOMAIN es}]
  BY <1>2 DEF InPairs
<1>4. {es[i] : i \in {2 * 1 - 1, 2 * 1} \cap DOMAIN es} = {x, y}
  <2>1. {2 * 1 - 1, 2 * 1} \cap DOMAIN es = {1, 2}
    BY <1>1
  <2>2. {es[i] : i \in {1, 2}} = {x, y}
    BY <1>1
  <2>3. QED
    BY <2>1, <2>2
<1>5. InPairs(es) = [c \in 1 .. 1 |-> {x, y}]
  <2>1. \A c \in 1 .. 1 : c = 1
    OBVIOUS
  <2>2. QED
    BY <1>3, <1>4, <2>1
<1>6. [c \in 1 .. 1 |-> {x, y}] = <<{x, y}>>
  OBVIOUS
<1>7. QED
  BY <1>5, <1>6 DEF es

(* The one column of a comparison.                                         *)
LEMMA ComparisonColumnsMatch ==
  ASSUME NEW a \in Numeral, NEW b \in Numeral, NEW strict \in BOOLEAN, NEW real, NEW f,
         ComparisonCells(f, a, b, strict, real)
  PROVE  /\ LessThanColumns(f, strict) = InPairs(LessThanEntries(LessThanOp(f), strict))
         /\ Len(LessThanColumns(f, strict)) = 1
<1> DEFINE N == NLimbs
           x == Picked(a, FlagsOf(a, b))
           y == Picked(b, FlagsOf(a, b))
           c == LessOf(a, b, strict)
           op == ComparisonOf(a, b, strict, real)
           kind == IF strict THEN "strict_less_than" ELSE "less_than"
           e1 == Entry("less_than_u8", <<x, y, IF x < y THEN 1 ELSE 0>>, real)
           e2 == Entry(kind, a \o b \o <<c>>, -real)
<1>1. N \in Nat \ {0}
  BY LimbsAssumption
<1>2. /\ SubSeq(f, 1, N) = a /\ SubSeq(f, N + 1, 2 * N) = b /\ LessThanOp(f) = op
  BY LessThanOpOfCells DEF ComparisonOf
<1>3. LessThanEntries(op, strict) = <<e1, e2>>
  <2>1. LessThanUse(op, strict) = <<x, y, IF x < y THEN 1 ELSE 0>>
    BY UseIsByteComparison
  <2>2. op.a = a /\ op.b = b /\ op.c = c /\ op.is_real = real
    BY DEF ComparisonOf
  <2> HIDE DEF op, x, y, c
  <2>3. QED
    BY <2>1, <2>2 DEF LessThanEntries
<1>4. /\ Cell(f, LessThanColumn.IS_REAL) = real
      /\ Cell(f, LessThanColumn.A_COMPARISON_BYTE) = x /\ Cell(f, LessThanColumn.B_COMPARISON_BYTE) = y
      /\ Cell(f, LessThanColumn.C) = c
      /\ Cells(f, LessThanColumn.A, N) = a /\ Cells(f, LessThanColumn.B, N) = b
  <2>1. /\ LessThanColumn.IS_REAL + 1 = 3 * N + 4
        /\ LessThanColumn.A_COMPARISON_BYTE + 1 = 3 * N + 2 /\ LessThanColumn.B_COMPARISON_BYTE + 1 = 3 * N + 3
        /\ LessThanColumn.C + 1 = 2 * N + 1
        /\ LessThanColumn.A + 1 = 1 /\ LessThanColumn.A + N = N
        /\ LessThanColumn.B + 1 = N + 1 /\ LessThanColumn.B + N = 2 * N
    BY <1>1 DEF LessThanColumn
  <2>2. /\ f[2 * N + 1] = c /\ f[3 * N + 2] = x /\ f[3 * N + 3] = y /\ f[3 * N + 4] = real
    BY DEF ComparisonCells
  <2> HIDE DEF x, y, c, N
  <2>3. QED
    BY <1>2, <2>1, <2>2 DEF Cell, Cells
<1>5. ByteResult(f, strict) = IF x < y THEN 1 ELSE 0
  <2>1. /\ x \in Limb /\ y \in Limb /\ c \in {0, 1} /\ (x = y <=> a = b)
        /\ a # b => c = IF x < y THEN 1 ELSE 0
        /\ a = b => c = IF strict THEN 0 ELSE 1
    BY LessOfNumerals
  <2>2. ByteResult(f, strict) = IF ~ strict /\ x = y THEN 0 ELSE c
    <3> HIDE DEF x, y, c
    <3>1. QED
      BY <1>4 DEF ByteResult
  <2> HIDE DEF x, y, c
  <2>3. x \in Int /\ y \in Int
    BY <2>1, LimbsAssumption DEF Limb
  <2>4. CASE a = b
    <3>1. ~ (x < y) /\ x = y
      BY <2>1, <2>3, <2>4
    <3>2. QED
      BY <2>1, <2>2, <2>4, <3>1
  <2>5. CASE a # b
    BY <2>1, <2>2, <2>5
  <2>6. QED
    BY <2>4, <2>5
<1>6. LessThanColumns(f, strict) = <<{e1, e2}>>
  <2> HIDE DEF x, y, c
  <2>1. QED
    BY <1>4, <1>5 DEF LessThanColumns
<1> HIDE DEF e1, e2, op
<1>7. LessThanColumns(f, strict) = InPairs(LessThanEntries(LessThanOp(f), strict))
  BY <1>2, <1>3, <1>6, PairOfTwo
<1>8. Len(<<{e1, e2}>>) = 1
  OBVIOUS
<1>9. QED
  BY <1>6, <1>7, <1>8

(* The vectors of lanes go through the pairs of bytes in order.            *)
LEMMA LanesInOrder ==
  ASSUME NEW o \in Offsets
  PROVE  /\ (o \div Lanes) \div (Base \div Lanes) = o \div Base
         /\ ((o \div Lanes) % (Base \div Lanes)) * Lanes + (o % Lanes) = o % Base
<1> DEFINE L == Lanes
           p == Base \div Lanes
           u == o \div L
           r == o % L
           s == u \div p
           t == u % p
<1>1. L \in Nat \ {0} /\ Base \in Nat /\ Base > 1 /\ Base % L = 0
  BY LanesAssumption, LimbsAssumption
<1>2. Base = L * p /\ p \in Nat \ {0}
  <2>1. p \in Nat /\ Base = L * p + 0
    BY <1>1
  <2> HIDE DEF p
  <2>2. p # 0
    BY <1>1, <2>1
  <2>3. QED
    BY <1>1, <2>1, <2>2
<1>3. o \in Nat
  BY <1>1 DEF Offsets
<1> HIDE DEF L, p
<1>4. u \in Nat /\ r \in 0 .. L - 1 /\ o = L * u + r
  BY <1>1, <1>3
<1> HIDE DEF u, r
<1>5. s \in Nat /\ t \in 0 .. p - 1 /\ u = p * s + t
  BY <1>2, <1>4
<1> HIDE DEF s, t
<1> DEFINE e == L * t + r
<1>6. e \in 0 .. Base - 1
  <2>1. t + 1 <= p /\ t \in Nat
    BY <1>2, <1>5
  <2>2. L * (t + 1) <= L * p
    BY <1>1, <1>2, <2>1
  <2>3. L * (t + 1) = L * t + L /\ L * t \in Nat
    BY <1>1, <2>1
  <2>4. QED
    BY <1>1, <1>2, <1>4, <2>2, <2>3
<1>7. o = Base * s + e
  <2>1. o = L * (p * s + t) + r
    BY <1>4, <1>5
  <2>2. L * (p * s + t) = (L * p) * s + L * t /\ (L * p) * s \in Nat /\ L * t \in Nat
    BY <1>1, <1>2, <1>5
  <2>3. QED
    BY <1>2, <1>4, <2>1, <2>2
<1> HIDE DEF e
<1>8. o \div Base = s /\ o % Base = e
  <2>1. Base \in Nat \ {0} /\ s \in Int
    BY <1>1, <1>5
  <2>2. (Base * s + e) \div Base = s /\ (Base * s + e) % Base = e
    BY <2>1, <1>6, DivisionIs
  <2>3. QED
    BY <1>7, <2>2
<1>9. t * L + r = e
  <2>1. t * L = L * t
    BY <1>1, <1>2, <1>5
  <2>2. QED
    BY <2>1 DEF e
<1>10. QED
  BY <1>8, <1>9 DEF s, t, u, r, p, L, e

(* The columns of the bytes table, lane by lane.                           *)
LEMMA BytesColumnsMatch ==
  ASSUME NEW counts, NEW o \in Offsets
  PROVE  BytesColumns(counts, o) = InPairs(BytesEntries(counts, o))
<1> DEFINE a == o \div Base
           b == o % Base
           e1 == Entry("less_than_u8", <<a, b, IF a < b THEN 1 ELSE 0>>, -counts["LessThanU8"][o])
           e2 == Entry("range_check_u8", <<a, b>>, -counts["RangeCheckU8"][o])
<1>1. BytesEntries(counts, o) = <<e1, e2>>
  BY DEF BytesEntries, BytesRow
<1>2. BytesColumns(counts, o) = <<{e1, e2}>>
  <2>1. /\ (o \div Lanes) \div (Base \div Lanes) = a
        /\ ((o \div Lanes) % (Base \div Lanes)) * Lanes + (o % Lanes) = b
    BY LanesInOrder
  <2> HIDE DEF a, b
  <2>2. QED
    BY <2>1 DEF BytesColumns
<1> HIDE DEF e1, e2
<1>3. QED
  BY <1>1, <1>2, PairOfTwo

(* In every trace of the program, the columns that the interaction traces  *)
(* write for a row that is recorded, for its padding, and for the rows of  *)
(* the bytes table are the entries of the constraints, two by two (the     *)
(* interaction traces of components/addition, less_than and bytes).        *)
THEOREM ColumnsMatch == TablesSpec => []PairsMatchColumns
<1>1. ASSUME RowsRecorded PROVE PairsMatchColumns
  <2>1. ASSUME NEW row \in Examined, NEW r \in {row, Padding(row)}
        PROVE  /\ Columns(r) = InPairs(Entries(r))
               /\ Len(Columns(r)) = InteractionCols(r.kind)
    <3> DEFINE K == OfNumbers \cup {"Poseidon"}
    <3>1. Recorded(row) /\ row \in [kind : K, felts : Seq(Int)]
          /\ (row.kind = "Add" \/ row.kind \in {"LessThan", "StrictLessThan"})
      BY <1>1, ExaminedRows DEF OfNumbers
    <3> HIDE DEF K
    <3>2. CASE row.kind = "Add"
      <4>1. /\ row.felts \in Seq(Nat) /\ Len(row.felts) = 4 * NLimbs
            /\ Padding(row).kind = "Add" /\ Padding(row).felts = [i \in DOMAIN row.felts |-> 0]
        BY <3>1, <3>2, AdditionRow
      <4>2. r.kind = "Add" /\ r.felts \in Seq(Nat) /\ Len(r.felts) = 4 * NLimbs
        <5>1. NLimbs \in Nat
          BY LimbsAreNumbers
        <5>2. DOMAIN row.felts = 1 .. 4 * NLimbs /\ 4 * NLimbs \in Nat
          BY <4>1, <5>1
        <5>3. [i \in DOMAIN row.felts |-> 0] \in Seq(Nat) /\ Len([i \in DOMAIN row.felts |-> 0]) = 4 * NLimbs
          BY <5>2
        <5>4. QED
          BY <3>2, <4>1, <5>3
      <4>3. QED
        BY <4>2, AddColumnsMatch DEF Columns, Entries, InteractionCols
    <3>3. CASE row.kind \in {"LessThan", "StrictLessThan"}
      <4> DEFINE a == First(row)
                 b == Second(row)
                 strict == Strict(row)
      <4>1. /\ a \in Numeral /\ b \in Numeral /\ strict \in BOOLEAN
            /\ ComparisonCells(row.felts, a, b, strict, 1)
            /\ Padding(row).kind = row.kind /\ Strict(Padding(row)) = strict
            /\ ComparisonCells(Padding(row).felts, a, b, strict, 0)
        BY <3>1, <3>3, ComparisonRow
      <4> HIDE DEF a, b, strict
      <4>2. r.kind # "Add" /\ Strict(r) = strict
        BY <3>3, <4>1 DEF strict
      <4>3. \E real : ComparisonCells(r.felts, a, b, strict, real)
        BY <4>1
      <4>4. /\ LessThanColumns(r.felts, strict) = InPairs(LessThanEntries(LessThanOp(r.felts), strict))
            /\ Len(LessThanColumns(r.felts, strict)) = 1
        BY <4>1, <4>3, ComparisonColumnsMatch
      <4>5. QED
        BY <4>2, <4>4 DEF Columns, Entries, InteractionCols
    <3>4. QED
      BY <3>1, <3>2, <3>3
  <2>2. QED
    BY <2>1, BytesColumnsMatch DEF PairsMatchColumns
<1>2. QED
  BY <1>1, RecordedInvariant, PTL

-----------------------------------------------------------------------------
(* The lookups of bytes                                                    *)

(* What the bytes table yields at an offset.                               *)
ComparisonKey(o) == <<"less_than_u8", <<BytesRow(o).a, BytesRow(o).b, BytesRow(o).c>>>>

RangeKey(o)      == <<"range_check_u8", <<BytesRow(o).a, BytesRow(o).b>>>>

OfBytes(v) == v[1] \in ByteRelations

Listed(v)  == \E o \in Offsets : v \in {ComparisonKey(o), RangeKey(o)}

(* The pairs of limbs by their offsets.                                    *)
LEMMA OffsetsOfPairs ==
  ASSUME NEW o \in Offsets
  PROVE  /\ BytesRow(o).a \in Limb /\ BytesRow(o).b \in Limb
         /\ BytesRow(o).c = IF BytesRow(o).a < BytesRow(o).b THEN 1 ELSE 0
         /\ \A x, y \in Limb : Offset(x, y) = o <=> BytesRow(o).a = x /\ BytesRow(o).b = y
<1> DEFINE a == BytesRow(o).a
           b == BytesRow(o).b
<1>1. a = o \div Base /\ b = o % Base /\ BytesRow(o).c = IF a < b THEN 1 ELSE 0
  BY DEF BytesRow
<1>2. Base \in Nat /\ Base > 1 /\ o \in Nat /\ o < Base * Base
  <2>1. Base \in Nat /\ Base > 1
    BY LimbsAssumption
  <2>2. Base * Base \in Nat
    BY <2>1
  <2>3. QED
    BY <2>1, <2>2 DEF Offsets
<1>3. a \in Nat /\ b \in 0 .. Base - 1 /\ o = Base * a + b
  BY <1>1, <1>2
<1> HIDE DEF a, b
<1>4. a < Base
  <2>1. ASSUME a >= Base PROVE FALSE
    <3>1. Base * a >= Base * Base
      BY <1>2, <1>3, <2>1
    <3>2. Base * a \in Nat /\ Base * Base \in Nat
      BY <1>2, <1>3
    <3>3. QED
      BY <1>2, <1>3, <3>1, <3>2
  <2>2. QED
    BY <1>2, <1>3, <2>1
<1>5. a \in Limb /\ b \in Limb
  BY <1>2, <1>3, <1>4 DEF Limb
<1>6. Offset(a, b) = o
  <2>1. Base * a = a * Base
    BY <1>2, <1>3
  <2>2. QED
    BY <1>3, <2>1 DEF Offset
<1>7. ASSUME NEW x \in Limb, NEW y \in Limb, Offset(x, y) = o PROVE a = x /\ b = y
  BY <1>7, PairIsListed DEF a, b
<1>8. \A x, y \in Limb : Offset(x, y) = o <=> a = x /\ b = y
  BY <1>6, <1>7
<1>9. QED
  BY <1>1, <1>5, <1>8 DEF a, b

(* Each offset has values of its own in both relations.                    *)
LEMMA KeysAreApart ==
  ASSUME NEW o \in Offsets, NEW p \in Offsets
  PROVE  /\ ComparisonKey(o) = ComparisonKey(p) <=> o = p
         /\ RangeKey(o) = RangeKey(p) <=> o = p
         /\ ComparisonKey(o) # RangeKey(p)
         /\ OfBytes(ComparisonKey(o)) /\ OfBytes(RangeKey(o))
<1> DEFINE a == BytesRow(o).a
           b == BytesRow(o).b
           c == BytesRow(o).c
           d == BytesRow(p).a
           e == BytesRow(p).b
           f == BytesRow(p).c
<1>1. a = d /\ b = e => o = p
  <2>1. a \in Limb /\ b \in Limb
    BY OffsetsOfPairs
  <2>2. Offset(a, b) = o
    BY <2>1, OffsetsOfPairs
  <2>3. d \in Limb /\ e \in Limb
    BY OffsetsOfPairs
  <2>4. Offset(d, e) = p
    BY <2>3, OffsetsOfPairs
  <2>5. QED
    BY <2>2, <2>4
<1>2. /\ ComparisonKey(o) = <<"less_than_u8", <<a, b, c>>>>
      /\ ComparisonKey(p) = <<"less_than_u8", <<d, e, f>>>>
      /\ RangeKey(o) = <<"range_check_u8", <<a, b>>>> /\ RangeKey(p) = <<"range_check_u8", <<d, e>>>>
  BY DEF ComparisonKey, RangeKey
<1>3. o = p => ComparisonKey(o) = ComparisonKey(p) /\ RangeKey(o) = RangeKey(p)
  OBVIOUS
<1> HIDE DEF a, b, c, d, e, f
<1>4. ComparisonKey(o) = ComparisonKey(p) => o = p
  BY <1>1, <1>2
<1>5. RangeKey(o) = RangeKey(p) => o = p
  BY <1>1, <1>2
<1>6. ComparisonKey(o) # RangeKey(p)
  BY <1>2
<1>7. ComparisonKey(o)[1] = "less_than_u8" /\ RangeKey(o)[1] = "range_check_u8"
  BY <1>2
<1>8. QED
  BY <1>3, <1>4, <1>5, <1>6, <1>7 DEF OfBytes, ByteRelations

(* Lookups that are found are of what the table lists.                     *)
LEMMA LookedUpIsListed ==
  ASSUME NEW es, Booked(es), LookedUp(es), NEW v, OfBytes(v), ~ Listed(v)
  PROVE  Total(es, v) = 0
<1>1. DOMAIN es = 1 .. Len(es)
  BY DEF Booked
<1>2. ASSUME NEW i \in 1 .. Len(es), Key(es[i]) = v PROVE FALSE
  <2>1. PICK o \in Offsets :
          /\ es[i].relation = "less_than_u8" => es[i].values = <<BytesRow(o).a, BytesRow(o).b, BytesRow(o).c>>
          /\ es[i].relation = "range_check_u8" => es[i].values = <<BytesRow(o).a, BytesRow(o).b>>
    BY <1>1 DEF LookedUp
  <2>2. v = <<es[i].relation, es[i].values>>
    BY <1>2 DEF Key
  <2>3. es[i].relation \in ByteRelations
    BY <2>2 DEF OfBytes
  <2>4. v \in {ComparisonKey(o), RangeKey(o)}
    BY <2>1, <2>2, <2>3 DEF ByteRelations, ComparisonKey, RangeKey
  <2>5. QED
    BY <2>4 DEF Listed
<1>3. QED
  BY <1>2, TotalOfAbsent DEF Booked

(* The entries of an addition are a sequence of integral entries.          *)
LEMMA AddIsBooked ==
  ASSUME NEW op, op.is_real \in Int
  PROVE  Booked(AddEntries(op))
<1> DEFINE es == AddEntries(op)
           v == op.a \o op.b \o op.c
           h == (3 * NLimbs) \div 2
<1>1. /\ h \in Nat /\ es \in Seq({es[i] : i \in 1 .. Len(es)}) /\ Len(es) = h + 1
      /\ \A k \in 1 .. h : es[k] = Entry("range_check_u8", <<v[2 * k - 1], v[2 * k]>>, op.is_real)
      /\ es[h + 1] = Entry("add", v, -op.is_real)
  BY AddEntriesAre
<1> HIDE DEF es, v, h
<1>2. \A k \in 1 .. Len(es) : k \in 1 .. h \/ k = h + 1
  BY <1>1
<1>3. ASSUME NEW k \in 1 .. h PROVE es[k].mult = op.is_real
  <2> DEFINE w == <<v[2 * k - 1], v[2 * k]>>
  <2>1. es[k] = Entry("range_check_u8", w, op.is_real)
    BY <1>1
  <2> HIDE DEF w
  <2>2. QED
    BY <2>1, EntryFields
<1>4. es[h + 1].mult = -op.is_real
  BY <1>1 DEF Entry
<1>5. -op.is_real \in Int
  OBVIOUS
<1>6. Ledger(es)
  BY <1>1, <1>2, <1>3, <1>4, <1>5 DEF Ledger
<1>7. QED
  BY <1>1, <1>6 DEF Booked, es

(* The lookups of bytes of an addition: none if it is padding.             *)
LEMMA AddPaddingTotals ==
  ASSUME NEW op, op.is_real = 0, NEW v, OfBytes(v)
  PROVE  Total(AddEntries(op), v) = 0
<1> DEFINE es == AddEntries(op)
           u == op.a \o op.b \o op.c
           h == (3 * NLimbs) \div 2
<1>1. /\ h \in Nat /\ Len(es) = h + 1
      /\ \A k \in 1 .. h : es[k] = Entry("range_check_u8", <<u[2 * k - 1], u[2 * k]>>, 0)
      /\ es[h + 1] = Entry("add", u, -op.is_real)
  BY AddEntriesAre
<1>2. Ledger(es)
  <2>1. op.is_real \in Int
    OBVIOUS
  <2>2. QED
    BY <2>1, AddIsBooked DEF Booked
<1> HIDE DEF es, u, h
<1>3. ASSUME NEW i \in 1 .. Len(es), Key(es[i]) = v PROVE es[i].mult = 0
  <2>1. i \in 1 .. h \/ i = h + 1
    BY <1>1
  <2>2. CASE i \in 1 .. h
    <3> DEFINE w == <<u[2 * i - 1], u[2 * i]>>
    <3>1. es[i] = Entry("range_check_u8", w, 0)
      BY <1>1, <2>2
    <3> HIDE DEF w
    <3>2. QED
      BY <3>1, EntryFields
  <2>3. CASE i = h + 1
    <3>1. es[i].relation = "add"
      BY <1>1, <2>3 DEF Entry
    <3>2. v[1] = "add"
      BY <1>3, <3>1 DEF Key
    <3>3. QED
      BY <3>2 DEF OfBytes, ByteRelations
  <2>4. QED
    BY <2>1, <2>2, <2>3
<1>4. QED
  BY <1>2, <1>3, TotalOfUnreal DEF es

(* An addition looks up each pair of limbs as often as record.rs counts it.*)
LEMMA AddTotals ==
  ASSUME NEW op, op.is_real = 1, NEW f \in Seq(Limb), Len(f) = 3 * NLimbs,
         op.a \o op.b \o op.c = f, NEW o \in Offsets
  PROVE  /\ Total(AddEntries(op), ComparisonKey(o)) = 0
         /\ Total(AddEntries(op), RangeKey(o)) = RangeEvents(f, o)
         /\ RangeEvents(f, o) \in Nat
<1> DEFINE es == AddEntries(op)
           h == (3 * NLimbs) \div 2
           c == ComparisonKey(o)
           r == RangeKey(o)
<1>1. /\ h \in Nat /\ Len(es) = h + 1
      /\ \A k \in 1 .. h : es[k] = Entry("range_check_u8", <<f[2 * k - 1], f[2 * k]>>, 1)
      /\ es[h + 1] = Entry("add", f, -op.is_real)
  BY AddEntriesAre
<1>2. Ledger(es)
  <2>1. op.is_real \in Int
    OBVIOUS
  <2>2. QED
    BY <2>1, AddIsBooked DEF Booked
<1>3. \A k \in 1 .. h : f[2 * k - 1] \in Limb /\ f[2 * k] \in Limb
  BY PairCells
<1>4. RangeEvents(f, o) = Cardinality({k \in 1 .. h : Offset(f[2 * k - 1], f[2 * k]) = o})
  BY DEF RangeEvents
<1>5. c[1] = "less_than_u8" /\ r = <<"range_check_u8", <<BytesRow(o).a, BytesRow(o).b>>>>
  BY DEF ComparisonKey, RangeKey
<1> HIDE DEF es, h, c, r
<1>6. ASSUME NEW k \in 1 .. h
      PROVE  Key(es[k]) = <<"range_check_u8", <<f[2 * k - 1], f[2 * k]>>>> /\ es[k].mult = 1
  <2> DEFINE w == <<f[2 * k - 1], f[2 * k]>>
  <2>1. es[k] = Entry("range_check_u8", w, 1)
    BY <1>1
  <2> HIDE DEF w
  <2>2. Key(es[k]) = <<"range_check_u8", w>> /\ es[k].mult = 1
    BY <2>1, EntryFields
  <2>3. QED
    BY <2>2 DEF w
<1>7. Key(es[h + 1]) = <<"add", f>>
  BY <1>1 DEF Key, Entry
<1>8. \A i \in 1 .. Len(es) : i \in 1 .. h \/ i = h + 1
  BY <1>1
<1>9. \A i \in 1 .. Len(es) : Key(es[i]) # c
  <2> SUFFICES ASSUME NEW i \in 1 .. Len(es) PROVE Key(es[i])[1] # "less_than_u8"
    BY <1>5
  <2>1. QED
    BY <1>6, <1>7, <1>8
<1>10. Total(es, c) = 0
  BY <1>2, <1>9, TotalOfAbsent
<1>11. ASSUME NEW i \in 1 .. Len(es)
       PROVE  Key(es[i]) = r <=> i \in 1 .. h /\ Offset(f[2 * i - 1], f[2 * i]) = o
  <2>1. CASE i \in 1 .. h
    <3> DEFINE x == f[2 * i - 1]
               y == f[2 * i]
    <3>1. x \in Limb /\ y \in Limb
      BY <1>3, <2>1
    <3>2. Key(es[i]) = <<"range_check_u8", <<x, y>>>>
      BY <1>6, <2>1
    <3> HIDE DEF x, y
    <3>3. Offset(x, y) = o <=> BytesRow(o).a = x /\ BytesRow(o).b = y
      BY <3>1, OffsetsOfPairs
    <3>4. Key(es[i]) = r <=> BytesRow(o).a = x /\ BytesRow(o).b = y
      BY <1>5, <3>2
    <3>5. QED
      BY <2>1, <3>3, <3>4 DEF x, y
  <2>2. CASE i = h + 1
    <3>1. i \notin 1 .. h
      BY <1>1, <2>2
    <3>2. Key(es[i])[1] = "add" /\ r[1] = "range_check_u8"
      BY <1>5, <1>7, <2>2
    <3>3. QED
      BY <3>1, <3>2
  <2>3. QED
    BY <1>8, <2>1, <2>2
<1>12. \A i \in 1 .. Len(es) : Key(es[i]) = r => es[i].mult = 1
  BY <1>6, <1>11
<1>13. /\ Total(es, r) = Cardinality({i \in 1 .. Len(es) : Key(es[i]) = r})
       /\ IsFiniteSet({i \in 1 .. Len(es) : Key(es[i]) = r})
  BY <1>2, <1>12, TotalIsCount
<1>14. {i \in 1 .. Len(es) : Key(es[i]) = r} = {k \in 1 .. h : Offset(f[2 * k - 1], f[2 * k]) = o}
  <2>1. \A k \in 1 .. h : k \in 1 .. Len(es)
    BY <1>1
  <2>2. QED
    BY <1>11, <2>1
<1>15. Total(es, r) = RangeEvents(f, o)
  BY <1>4, <1>13, <1>14
<1>16. Total(es, r) \in Nat
  BY <1>13, FS_CardinalityType
<1>17. QED
  BY <1>10, <1>15, <1>16 DEF es, c, r

(* Those of a comparison: one if it is real.                               *)
LEMMA ComparisonTotals ==
  ASSUME NEW a \in Numeral, NEW b \in Numeral, NEW strict \in BOOLEAN, NEW real \in {0, 1}
  PROVE  LET es == LessThanEntries(ComparisonOf(a, b, strict, real), strict)
             x == Picked(a, FlagsOf(a, b))  y == Picked(b, FlagsOf(a, b))
         IN  /\ Booked(es)
             /\ real = 0 => \A v : OfBytes(v) => Total(es, v) = 0
             /\ \A o \in Offsets : /\ Total(es, ComparisonKey(o)) = IF Offset(x, y) = o THEN real ELSE 0
                                   /\ Total(es, RangeKey(o)) = 0
<1> DEFINE op == ComparisonOf(a, b, strict, real)
           es == LessThanEntries(op, strict)
           x == Picked(a, FlagsOf(a, b))
           y == Picked(b, FlagsOf(a, b))
           kind == IF strict THEN "strict_less_than" ELSE "less_than"
           u == op.a \o op.b \o <<op.c>>
           e1 == Entry("less_than_u8", <<x, y, IF x < y THEN 1 ELSE 0>>, real)
           e2 == Entry(kind, u, -real)
<1>1. x \in Limb /\ y \in Limb
  BY LessOfNumerals
<1>2. es = <<e1, e2>>
  <2>1. LessThanUse(op, strict) = <<x, y, IF x < y THEN 1 ELSE 0>>
    BY UseIsByteComparison
  <2>2. op.is_real = real
    BY DEF ComparisonOf
  <2> HIDE DEF op, x, y
  <2>3. QED
    BY <2>1, <2>2 DEF LessThanEntries
<1>3. kind \notin ByteRelations
  BY DEF ByteRelations
<1> HIDE DEF op, x, y, kind, u
<1>4. /\ e1.mult = real /\ e2.mult = -real
      /\ Key(e1) = <<"less_than_u8", <<x, y, IF x < y THEN 1 ELSE 0>>>> /\ Key(e2) = <<kind, u>>
  BY DEF Entry, Key
<1> HIDE DEF es, e1, e2
<1>5. e1.mult \in Int /\ e2.mult \in Int
  BY <1>4
<1>6. \A v : Amount(es, v, Term(e1, v) + Term(e2, v))
  BY <1>2, <1>5, AmountOfTwo
<1>7. Booked(es)
  BY <1>6 DEF Amount, Booked
<1>8. ASSUME NEW v, OfBytes(v) PROVE Total(es, v) = IF Key(e1) = v THEN real ELSE 0
  <2>1. Total(es, v) = Term(e1, v) + Term(e2, v)
    BY <1>6 DEF Amount
  <2>2. Term(e2, v) = 0
    <3>1. Key(e2)[1] = kind
      BY <1>4
    <3>2. QED
      BY <1>3, <1>8, <3>1 DEF OfBytes, Term
  <2>3. Term(e1, v) = IF Key(e1) = v THEN real ELSE 0
    BY <1>4 DEF Term
  <2>4. QED
    BY <2>1, <2>2, <2>3
<1>9. real = 0 => \A v : OfBytes(v) => Total(es, v) = 0
  BY <1>8
<1>10. ASSUME NEW o \in Offsets
       PROVE  /\ Total(es, ComparisonKey(o)) = IF Offset(x, y) = o THEN real ELSE 0
              /\ Total(es, RangeKey(o)) = 0
  <2>1. OfBytes(ComparisonKey(o)) /\ OfBytes(RangeKey(o))
    BY KeysAreApart
  <2>2. Key(e1)[1] = "less_than_u8" /\ RangeKey(o)[1] = "range_check_u8"
    BY <1>4 DEF RangeKey
  <2>3. Total(es, RangeKey(o)) = 0
    BY <1>8, <2>1, <2>2
  <2>4. Offset(x, y) = o <=> BytesRow(o).a = x /\ BytesRow(o).b = y
    BY <1>1, OffsetsOfPairs
  <2>5. BytesRow(o).c = IF BytesRow(o).a < BytesRow(o).b THEN 1 ELSE 0
    BY OffsetsOfPairs
  <2>6. ComparisonKey(o) = <<"less_than_u8", <<BytesRow(o).a, BytesRow(o).b, BytesRow(o).c>>>>
    BY DEF ComparisonKey
  <2>7. Key(e1) = ComparisonKey(o) <=> Offset(x, y) = o
    BY <1>4, <2>4, <2>5, <2>6
  <2>8. QED
    BY <1>8, <2>1, <2>3, <2>7
<1>11. QED
  BY <1>7, <1>9, <1>10 DEF es, op, x, y

(* The lookups of bytes that a row and its padding add.                    *)
Counted(row, o, comparisons, ranges) ==
  /\ Total(Entries(row), ComparisonKey(o)) = comparisons
  /\ Total(Entries(row), RangeKey(o)) = ranges

Uses(row) ==
  /\ Booked(Entries(row)) /\ Booked(Entries(Padding(row)))
  /\ \A v : OfBytes(v) => Total(Entries(Padding(row)), v) = 0
  /\ \A v : OfBytes(v) /\ ~ Listed(v) => Total(Entries(row), v) = 0

(* The row of an addition uses the bytes that record.rs counts, its padding*)
(* none.                                                                   *)
LEMMA AdditionUses ==
  ASSUME NEW row, Recorded(row), row.kind = "Add", NEW K, row \in [kind : K, felts : Seq(Int)]
  PROVE  /\ Uses(row)
         /\ \A o \in Offsets :
              /\ RangeEvents(SubSeq(row.felts, 1, 3 * NLimbs), o) \in Nat
              /\ Counted(row, o, 0, RangeEvents(SubSeq(row.felts, 1, 3 * NLimbs), o))
<1> DEFINE f == row.felts
           a == First(row)
           b == Second(row)
           op == AddOp(f)
           z == [i \in DOMAIN f |-> 0]
           none == AddOp(z)
           g == SubSeq(f, 1, 3 * NLimbs)
<1>1. /\ a \in Numeral /\ b \in Numeral /\ f = AddRow(a, b)
      /\ f \in Seq(Nat) /\ Len(f) = 4 * NLimbs
      /\ Padding(row).kind = "Add" /\ Padding(row).felts = z
  BY AdditionRow
<1>2. Entries(row) = AddEntries(op) /\ Entries(Padding(row)) = AddEntries(none)
  BY <1>1 DEF Entries
<1>3. none.is_real = 0
  <2>1. 4 * NLimbs \in 1 .. 4 * NLimbs
    BY LimbsAssumption
  <2>2. 4 * NLimbs \in DOMAIN f
    BY <1>1, <2>1
  <2>3. none.is_real = z[4 * NLimbs]
    BY DEF AddOp
  <2>4. QED
    BY <2>2, <2>3
<1>4. op.a \o op.b \o op.c = g
  BY <1>1, AddValues
<1>5. op.is_real = 1 /\ op.a = a /\ op.b = b /\ op.c = Add(a, b) /\ Add(a, b) \in Numeral
  <2> HIDE DEF a, b, f, op
  <2>1. op = [a |-> a, b |-> b, c |-> Add(a, b),
              carry |-> [i \in 1 .. NLimbs - 1 |-> Carries(a, b)[i]], is_real |-> 1]
    BY <1>1, AddOpOfRow DEF op
  <2>2. Add(a, b) \in Numeral
    BY <1>1, AddDigits
  <2>3. QED
    BY <2>1, <2>2
<1>6. LookedUp(AddEntries(op))
  BY <1>1, <1>5, AddIsLookedUp
<1> HIDE DEF f, a, b, op, none, g, z
<1>7. g \in Seq(Limb) /\ Len(g) = 3 * NLimbs
  <2>1. a \o b \o Add(a, b) = g
    BY <1>4, <1>5
  <2>2. a \in Numeral /\ b \in Numeral /\ Add(a, b) \in Numeral
    BY <1>1, <1>5
  <2>3. a \o b \o Add(a, b) \in Seq(Limb) /\ Len(a \o b \o Add(a, b)) = 3 * NLimbs
    BY <2>2, ThreeNumerals
  <2>4. QED
    BY <2>1, <2>3
<1>8. Booked(AddEntries(op)) /\ Booked(AddEntries(none))
  BY <1>3, <1>5, AddIsBooked
<1>9. Uses(row)
  BY <1>2, <1>3, <1>6, <1>8, AddPaddingTotals, LookedUpIsListed DEF Uses
<1>10. ASSUME NEW o \in Offsets
       PROVE  RangeEvents(g, o) \in Nat /\ Counted(row, o, 0, RangeEvents(g, o))
  BY <1>2, <1>4, <1>5, <1>7, AddTotals DEF Counted
<1>11. QED
  BY <1>9, <1>10 DEF g, f

(* The row of a comparison uses the byte comparison that record.rs counts, *)
(* its padding none.                                                       *)
LEMMA ComparisonUses ==
  ASSUME NEW row, Recorded(row), row.kind \in {"LessThan", "StrictLessThan"},
         NEW K, row \in [kind : K, felts : Seq(Int)]
  PROVE  LET p == Offset(Cell(row.felts, LessThanColumn.A_COMPARISON_BYTE),
                         Cell(row.felts, LessThanColumn.B_COMPARISON_BYTE)) IN
         /\ Uses(row) /\ p \in Offsets
         /\ \A o \in Offsets : Counted(row, o, IF o = p THEN 1 ELSE 0, 0)
<1> DEFINE a == First(row)
           b == Second(row)
           strict == Strict(row)
           x == Picked(a, FlagsOf(a, b))
           y == Picked(b, FlagsOf(a, b))
           es == LessThanEntries(ComparisonOf(a, b, strict, 1), strict)
           ps == LessThanEntries(ComparisonOf(a, b, strict, 0), strict)
           N == NLimbs
<1>1. /\ a \in Numeral /\ b \in Numeral /\ strict \in BOOLEAN
      /\ ComparisonCells(row.felts, a, b, strict, 1)
      /\ LessThanOp(row.felts) = ComparisonOf(a, b, strict, 1)
      /\ Padding(row).kind = row.kind /\ Strict(Padding(row)) = strict
      /\ LessThanOp(Padding(row).felts) = ComparisonOf(a, b, strict, 0)
  BY ComparisonRow
<1>2. Entries(row) = es /\ Entries(Padding(row)) = ps
  BY <1>1 DEF Entries
<1> HIDE DEF a, b, strict
<1>3. /\ Cell(row.felts, LessThanColumn.A_COMPARISON_BYTE) = x
      /\ Cell(row.felts, LessThanColumn.B_COMPARISON_BYTE) = y
  <2>1. N \in Nat
    BY LimbsAssumption
  <2>2. LessThanColumn.A_COMPARISON_BYTE + 1 = 3 * N + 2 /\ LessThanColumn.B_COMPARISON_BYTE + 1 = 3 * N + 3
    BY <2>1 DEF LessThanColumn
  <2>3. row.felts[3 * N + 2] = x /\ row.felts[3 * N + 3] = y
    BY <1>1 DEF ComparisonCells
  <2> HIDE DEF x, y, N
  <2>4. QED
    BY <2>2, <2>3 DEF Cell
<1>4. x \in Limb /\ y \in Limb
  BY <1>1, LessOfNumerals
<1>5. Offset(x, y) \in Offsets
  BY <1>4, PairIsListed
<1>6. Booked(es) /\ \A o \in Offsets : /\ Total(es, ComparisonKey(o)) = IF Offset(x, y) = o THEN 1 ELSE 0
                                       /\ Total(es, RangeKey(o)) = 0
  BY <1>1, ComparisonTotals
<1>7. Booked(ps) /\ \A v : OfBytes(v) => Total(ps, v) = 0
  BY <1>1, ComparisonTotals
<1>8. LookedUp(es)
  BY <1>1, ComparisonAccepted DEF LessThanAccepted
<1> HIDE DEF es, ps, x, y
<1>9. Uses(row)
  BY <1>2, <1>6, <1>7, <1>8, LookedUpIsListed DEF Uses
<1>10. \A o \in Offsets : Counted(row, o, IF o = Offset(x, y) THEN 1 ELSE 0, 0)
  BY <1>2, <1>6 DEF Counted
<1>11. QED
  BY <1>3, <1>5, <1>9, <1>10

-----------------------------------------------------------------------------
(* The lookups of the rows, one after the other                            *)

UsedStep(used, row) ==
  IF row.kind = "Poseidon" THEN used
  ELSE Tally(Tally(used, Entries(row)), Entries(Padding(row)))

Keys(es) == {Key(es[i]) : i \in DOMAIN es}

AllUse(rs) == \A k \in 1 .. Len(rs) : rs[k].kind # "Poseidon" => Uses(rs[k])

Tallied(f) == f \in [DOMAIN f -> Int]

(* f goes through the lookups of the first rows of rs.                     *)
Through(f, rs, n) ==
  /\ f[0] = NoLookups
  /\ \A k \in 0 .. n : Tallied(f[k])
  /\ \A k \in 1 .. n : f[k] = UsedStep(f[k - 1], rs[k])

(* The lookups of all the rows are those of one row after the other.       *)
LEMMA UsedRuns ==
  ASSUME NEW rs, Len(rs) \in Nat, AllUse(rs)
  PROVE  \E f : Through(f, rs, Len(rs)) /\ Used(rs) = f[Len(rs)]
<1> DEFINE n == Len(rs)
           own(k) == Keys(Entries(rs[k])) \cup Keys(Entries(Padding(rs[k])))
           K == UNION {own(k) : k \in 1 .. n}
           S == Lookups(K)
           next(k, u) == UsedStep(u, rs[k])
           step == [k \in 1 .. n |-> [u \in S |-> next(k, u)]]
           Def(g) == g = [k \in 0 .. n |-> IF k = 0 THEN NoLookups ELSE next(k, g[k - 1])]
<1>1. n \in Nat
  OBVIOUS
<1>2. Used(rs) = (CHOOSE g : Def(g))[n]
  BY DEF Used, UsedStep
<1>3. ASSUME NEW k \in 1 .. n, NEW u \in S PROVE next(k, u) \in S /\ Integral(u)
  <2>1. CASE rs[k].kind = "Poseidon"
    <3>1. Integral(u)
      BY DEF Lookups, Integral
    <3>2. QED
      BY <2>1, <3>1 DEF UsedStep
  <2>2. CASE rs[k].kind # "Poseidon"
    <3> DEFINE es == Entries(rs[k])
               ps == Entries(Padding(rs[k]))
    <3>1. Booked(es) /\ Booked(ps)
      BY <2>2 DEF AllUse, Uses
    <3>2. /\ \A i \in DOMAIN es : Key(es[i]) \in K
          /\ \A i \in DOMAIN ps : Key(ps[i]) \in K
      <4>1. /\ \A i \in DOMAIN es : Key(es[i]) \in own(k)
            /\ \A i \in DOMAIN ps : Key(ps[i]) \in own(k)
        BY DEF Keys
      <4> HIDE DEF own, es, ps
      <4>2. own(k) \subseteq K
        OBVIOUS
      <4>3. QED
        BY <4>1, <4>2
    <3>3. next(k, u) = Tally(Tally(u, es), ps)
      BY <2>2 DEF UsedStep
    <3> HIDE DEF es, ps, K, next
    <3>4. Integral(u) /\ Tally(u, es) \in S
      BY <3>1, <3>2, LookupsTallied
    <3> DEFINE w == Tally(u, es)
    <3>5. w \in Lookups(K)
      BY <3>4
    <3> HIDE DEF w
    <3>6. Tally(w, ps) \in S
      BY <3>1, <3>2, <3>5, LookupsTallied
    <3>7. QED
      BY <3>3, <3>4, <3>6 DEF w
  <2>3. QED
    BY <2>1, <2>2
<1>4. NoLookups \in S
  BY NoLookupsAreNone
<1>5. \A u \in S : Tallied(u)
  BY DEF Lookups, Tallied
<1> HIDE DEF S, next, n
<1>6. \A k \in 1 .. n : \A u \in S : step[k][u] = next(k, u) /\ step[k][u] \in S
  BY <1>3
<1>7. \A k \in 1 .. n : k \in 0 .. n /\ k - 1 \in 0 .. n /\ k # 0
  BY <1>1
<1> HIDE DEF step
<1>8. PICK g : Runs(g, n, S, NoLookups, step)
  BY <1>1, <1>4, <1>6, Recursion
<1>9. Def(g)
  <2>1. g = [k \in 0 .. n |-> g[k]] /\ g \in [0 .. n -> S]
    BY <1>8 DEF Runs
  <2>2. ASSUME NEW k \in 0 .. n PROVE g[k] = IF k = 0 THEN NoLookups ELSE next(k, g[k - 1])
    <3>1. CASE k = 0
      BY <1>8, <3>1 DEF Runs
    <3>2. CASE k # 0
      <4>1. k \in 1 .. n /\ k - 1 \in 0 .. n
        BY <1>1, <3>2
      <4>2. g[k] = step[k][g[k - 1]] /\ g[k - 1] \in S
        BY <1>8, <2>1, <4>1 DEF Runs
      <4>3. QED
        BY <1>6, <3>2, <4>1, <4>2
    <3>3. QED
      BY <3>1, <3>2
  <2>3. QED
    BY <2>1, <2>2
<1> DEFINE f == CHOOSE g1 : Def(g1)
<1>10. Def(f)
  <2> HIDE DEF Def
  <2>1. QED
    BY <1>9
<1>11. Used(rs) = f[n]
  BY <1>2
<1> HIDE DEF f
<1>12. f = [k \in 0 .. n |-> f[k]]
  BY <1>10
<1>13. ASSUME NEW k \in 0 .. n PROVE f[k] = IF k = 0 THEN NoLookups ELSE next(k, f[k - 1])
  BY <1>10
<1>14. f[0] = NoLookups /\ \A k \in 1 .. n : f[k] = next(k, f[k - 1])
  BY <1>1, <1>7, <1>13
<1>15. Runs(f, n, S, NoLookups, step)
  BY <1>1, <1>4, <1>6, <1>12, <1>14, RecursionRuns
<1>16. \A k \in 0 .. n : Tallied(f[k])
  BY <1>5, <1>15 DEF Runs
<1>17. Through(f, rs, n)
  BY <1>14, <1>16 DEF Through, next
<1>18. QED
  BY <1>11, <1>17 DEF n

(* A row that is recorded adds its lookups and those of its padding.       *)
LEMMA UsedOfAppend ==
  ASSUME NEW S, NEW rs \in Seq(S), NEW row \in S, AllUse(Append(rs, row))
  PROVE  /\ Used(Append(rs, row)) = UsedStep(Used(rs), row)
         /\ Tallied(Used(rs)) /\ Tallied(Used(Append(rs, row)))
<1> DEFINE n == Len(rs)
           qs == Append(rs, row)
<1>1. n \in Nat /\ Len(qs) = n + 1 /\ qs[n + 1] = row /\ \A k \in 1 .. n : qs[k] = rs[k]
  OBVIOUS
<1> HIDE DEF qs
<1>2. AllUse(rs) /\ AllUse(qs)
  <2>1. \A k \in 1 .. n : k \in 1 .. Len(qs)
    BY <1>1
  <2>2. QED
    BY <1>1, <2>1 DEF AllUse, qs
<1>3. PICK f : Through(f, rs, n) /\ Used(rs) = f[n]
  BY <1>1, <1>2, UsedRuns
<1>4. PICK g : Through(g, qs, n + 1) /\ Used(qs) = g[n + 1]
  BY <1>1, <1>2, UsedRuns
<1> DEFINE T == {k \in 0 .. n : g[k] = f[k]}
<1> HIDE DEF n
<1>5. 0 \in T
  BY <1>1, <1>3, <1>4 DEF Through
<1>6. ASSUME NEW k \in Nat, k < n, k \in T PROVE k + 1 \in T
  <2>1. k + 1 \in 1 .. n /\ k + 1 \in 0 .. n /\ k + 1 \in 1 .. n + 1 /\ (k + 1) - 1 = k
    BY <1>1, <1>6
  <2>2. f[k + 1] = UsedStep(f[k], rs[k + 1])
    BY <1>3, <2>1 DEF Through
  <2>3. g[k + 1] = UsedStep(g[k], qs[k + 1])
    BY <1>4, <2>1 DEF Through
  <2>4. qs[k + 1] = rs[k + 1] /\ g[k] = f[k]
    BY <1>1, <1>6, <2>1
  <2>5. QED
    BY <2>1, <2>2, <2>3, <2>4
<1> HIDE DEF T
<1>7. \A k \in 0 .. n : k \in T
  BY <1>1, <1>5, <1>6, UpTo
<1>8. n \in T /\ n \in 0 .. n /\ n + 1 \in 1 .. n + 1 /\ (n + 1) - 1 = n
  BY <1>1, <1>7
<1>9. g[n] = f[n]
  BY <1>8 DEF T
<1>10. g[n + 1] = UsedStep(g[n], qs[n + 1])
  BY <1>4, <1>8 DEF Through
<1>11. Tallied(f[n]) /\ Tallied(g[n + 1])
  <2>1. n + 1 \in 0 .. n + 1
    BY <1>1
  <2>2. QED
    BY <1>3, <1>4, <1>8, <2>1 DEF Through
<1>12. QED
  BY <1>1, <1>3, <1>4, <1>9, <1>10, <1>11 DEF qs

ByteTables == {"LessThanU8", "RangeCheckU8"}

(* The counts of record.rs are those of the rows: of every byte relation   *)
(* the rows look up only what the table lists, each pair as often as it is *)
(* counted at its offset.                                                  *)
BytesCounted ==
  /\ bytes \in [ByteTables -> [Offsets -> Nat]]
  /\ Tallied(Used(rows))
  /\ \A o \in Offsets : /\ Net(Used(rows), ComparisonKey(o)) = bytes["LessThanU8"][o]
                        /\ Net(Used(rows), RangeKey(o)) = bytes["RangeCheckU8"][o]
  /\ \A v \in DOMAIN Used(rows) : OfBytes(v) => Listed(v)

(* All the rows that are recorded use bytes the table lists.               *)
LEMMA RecordedRowsUse ==
  ASSUME NEW rs \in Seq([kind : OfNumbers \cup {"Poseidon"}, felts : Seq(Int)]),
         \A k \in DOMAIN rs : Recorded(rs[k])
  PROVE  AllUse(rs)
<1> DEFINE K == OfNumbers \cup {"Poseidon"}
<1> SUFFICES ASSUME NEW k \in 1 .. Len(rs), rs[k].kind # "Poseidon" PROVE Uses(rs[k])
  BY DEF AllUse
<1> DEFINE row == rs[k]
<1>1. Recorded(row) /\ row \in [kind : K, felts : Seq(Int)]
      /\ (row.kind = "Add" \/ row.kind \in {"LessThan", "StrictLessThan"})
  <2> DEFINE S == [kind : K, felts : Seq(Int)]
  <2>1. rs \in Seq(S) /\ k \in DOMAIN rs
    OBVIOUS
  <2>2. Recorded(row)
    BY <2>1
  <2> HIDE DEF S
  <2>3. row \in S
    BY <2>1
  <2>4. row.kind \in K
    BY <2>3 DEF S
  <2>5. QED
    BY <2>2, <2>3, <2>4 DEF S, OfNumbers
<1> HIDE DEF K, row
<1>2. Uses(row)
  BY <1>1, AdditionUses, ComparisonUses
<1>3. QED
  BY <1>2 DEF row

(* A row of numbers, counted as it is recorded.                            *)
LEMMA CountedNext ==
  ASSUME BytesCounted, RowsRecorded, RowsRecorded',
         NEW row, rows' = Append(rows, row), row.kind # "Poseidon", Uses(row),
         NEW c \in [Offsets -> Nat], NEW r \in [Offsets -> Nat],
         \A o \in Offsets : Counted(row, o, c[o], r[o]),
         bytes' \in [ByteTables -> [Offsets -> Nat]],
         \A o \in Offsets : /\ bytes'["LessThanU8"][o] = bytes["LessThanU8"][o] + c[o]
                            /\ bytes'["RangeCheckU8"][o] = bytes["RangeCheckU8"][o] + r[o]
  PROVE  BytesCounted'
<1> DEFINE u == Used(rows)
           es == Entries(row)
           ps == Entries(Padding(row))
           w == Tally(u, es)
           t == Used(rows')
<1>1. Tallied(u) /\ t = UsedStep(u, row) /\ Tallied(t)
  <2> DEFINE S == [kind : OfNumbers \cup {"Poseidon"}, felts : Seq(Int)]
  <2>1. rows \in Seq(S) /\ rows' \in Seq(S)
    BY DEF RowsRecorded
  <2> HIDE DEF S
  <2>2. row \in S
    <3>1. Len(rows) + 1 \in 1 .. Len(rows') /\ rows'[Len(rows) + 1] = row
      BY <2>1
    <3>2. QED
      BY <2>1, <3>1
  <2>3. AllUse(rows')
    BY RecordedRowsUse DEF RowsRecorded
  <2>4. AllUse(Append(rows, row))
    BY <2>3 DEF AllUse
  <2>5. QED
    BY <2>1, <2>2, <2>4, UsedOfAppend
<1>2. Booked(es) /\ Booked(ps)
      /\ (\A v : OfBytes(v) => Total(ps, v) = 0)
      /\ (\A v : OfBytes(v) /\ ~ Listed(v) => Total(es, v) = 0)
  BY DEF Uses
<1>3. t = Tally(w, ps)
  BY <1>1 DEF UsedStep
<1>4. /\ \A v \in DOMAIN u : OfBytes(v) => Listed(v)
      /\ \A o \in Offsets : /\ Net(u, ComparisonKey(o)) = bytes["LessThanU8"][o]
                            /\ Net(u, RangeKey(o)) = bytes["RangeCheckU8"][o]
      /\ bytes \in [ByteTables -> [Offsets -> Nat]]
  BY DEF BytesCounted
<1> HIDE DEF u, t
<1>5. Integral(u)
  BY <1>1 DEF Tallied, Integral
<1>6. Integral(w) /\ \A v : Net(w, v) = Net(u, v) + Total(es, v)
  BY <1>2, <1>5, TallyNet
<1> HIDE DEF w, ps
<1>7. \A v : Net(t, v) = Net(w, v) + Total(ps, v)
  BY <1>2, <1>3, <1>6, TallyNet
<1>8. ASSUME NEW v, OfBytes(v) PROVE Net(t, v) = Net(u, v) + Total(es, v)
  <2>1. Net(u, v) + Total(es, v) \in Int
    <3>1. Net(u, v) \in Int /\ Total(es, v) \in Int
      BY <1>2, <1>5, NetTotal
    <3>2. QED
      BY <3>1
  <2>2. QED
    BY <1>2, <1>6, <1>7, <1>8, <2>1
<1>9. ASSUME NEW v \in DOMAIN t, OfBytes(v) PROVE Listed(v)
  <2> SUFFICES ASSUME ~ Listed(v) PROVE FALSE
    OBVIOUS
  <2>1. Net(u, v) = 0
    BY <1>4, <1>9 DEF Net
  <2>2. Total(es, v) = 0
    BY <1>2, <1>9
  <2>3. Net(t, v) = 0
    BY <1>8, <1>9, <2>1, <2>2
  <2>4. t[v] # 0
    BY <1>3 DEF Tally
  <2>5. QED
    BY <2>3, <2>4 DEF Net
<1>10. ASSUME NEW o \in Offsets
       PROVE  /\ Net(t, ComparisonKey(o)) = bytes'["LessThanU8"][o]
              /\ Net(t, RangeKey(o)) = bytes'["RangeCheckU8"][o]
  <2>1. OfBytes(ComparisonKey(o)) /\ OfBytes(RangeKey(o))
    BY KeysAreApart
  <2>2. Total(es, ComparisonKey(o)) = c[o] /\ Total(es, RangeKey(o)) = r[o]
    BY DEF Counted
  <2>3. QED
    BY <1>4, <1>8, <2>1, <2>2
<1>11. QED
  BY <1>1, <1>9, <1>10 DEF BytesCounted, t

(* An addition keeps the counts true.                                      *)
LEMMA AdditionCounted ==
  ASSUME BytesCounted, RowsRecorded, RowsRecorded', NEW a \in Numeral, NEW b \in Numeral,
         AddAddEvent(a, b)
  PROVE  BytesCounted'
<1> DEFINE row == [kind |-> "Add", felts |-> AddRow(a, b)]
           g == SubSeq(AddRow(a, b), 1, 3 * NLimbs)
           c == [o \in Offsets |-> 0]
           r == [o \in Offsets |-> RangeEvents(g, o)]
           new == [o \in Offsets |-> bytes["RangeCheckU8"][o] + RangeEvents(g, o)]
<1>1. rows' = Append(rows, row) /\ bytes' = [bytes EXCEPT !["RangeCheckU8"] = new]
  BY DEF AddAddEvent
<1>2. Recorded(row) /\ row.felts \in Seq(Int)
  BY AddIsRecorded
<1>3. row.kind = "Add" /\ row.felts = AddRow(a, b) /\ row \in [kind : {"Add"}, felts : Seq(Int)]
  BY <1>2
<1> HIDE DEF row
<1>4. /\ Uses(row)
      /\ \A o \in Offsets : /\ RangeEvents(SubSeq(row.felts, 1, 3 * NLimbs), o) \in Nat
                            /\ Counted(row, o, 0, RangeEvents(SubSeq(row.felts, 1, 3 * NLimbs), o))
  BY <1>2, <1>3, AdditionUses
<1>5. \A o \in Offsets : RangeEvents(g, o) \in Nat /\ Counted(row, o, 0, RangeEvents(g, o))
  BY <1>3, <1>4
<1> HIDE DEF g
<1>6. bytes \in [ByteTables -> [Offsets -> Nat]]
  BY DEF BytesCounted
<1>7. new \in [Offsets -> Nat]
  <2>1. "RangeCheckU8" \in ByteTables
    BY DEF ByteTables
  <2>2. \A o \in Offsets : bytes["RangeCheckU8"][o] \in Nat
    BY <1>6, <2>1
  <2>3. QED
    BY <1>5, <2>2
<1>8. c \in [Offsets -> Nat] /\ r \in [Offsets -> Nat]
  BY <1>5
<1>9. \A o \in Offsets : Counted(row, o, c[o], r[o])
  BY <1>5
<1>10. \A o \in Offsets : /\ c[o] = 0 /\ r[o] = RangeEvents(g, o)
                          /\ new[o] = bytes["RangeCheckU8"][o] + RangeEvents(g, o)
  OBVIOUS
<1> HIDE DEF new, c, r
<1>11. /\ bytes' \in [ByteTables -> [Offsets -> Nat]]
       /\ bytes'["LessThanU8"] = bytes["LessThanU8"] /\ bytes'["RangeCheckU8"] = new
  BY <1>1, <1>6, <1>7 DEF ByteTables
<1>12. \A o \in Offsets : bytes["LessThanU8"][o] \in Nat
  BY <1>6 DEF ByteTables
<1>13. \A o \in Offsets : /\ bytes'["LessThanU8"][o] = bytes["LessThanU8"][o] + c[o]
                          /\ bytes'["RangeCheckU8"][o] = bytes["RangeCheckU8"][o] + r[o]
  BY <1>10, <1>11, <1>12
<1>14. row.kind # "Poseidon"
  BY <1>3
<1>15. QED
  BY <1>1, <1>4, <1>8, <1>9, <1>11, <1>13, <1>14, CountedNext, ZenonT(60)

(* A comparison keeps the counts true.                                     *)
LEMMA ComparisonCounted ==
  ASSUME BytesCounted, RowsRecorded, RowsRecorded', NEW a \in Numeral, NEW b \in Numeral,
         NEW strict \in BOOLEAN, AddLessThanEventInternal(a, b, strict)
  PROVE  BytesCounted'
<1> DEFINE row == [kind |-> IF strict THEN "StrictLessThan" ELSE "LessThan",
                   felts |-> LessThanRow(a, b, strict)]
           p == Offset(Cell(LessThanRow(a, b, strict), LessThanColumn.A_COMPARISON_BYTE),
                       Cell(LessThanRow(a, b, strict), LessThanColumn.B_COMPARISON_BYTE))
           c == [o \in Offsets |-> IF o = p THEN 1 ELSE 0]
           r == [o \in Offsets |-> 0]
<1>1. rows' = Append(rows, row) /\ bytes' = [bytes EXCEPT !["LessThanU8"][p] = @ + 1]
  BY DEF AddLessThanEventInternal
<1>2. Recorded(row) /\ row.felts \in Seq(Int)
  BY ComparisonIsRecorded
<1>3. /\ row.kind \in {"LessThan", "StrictLessThan"} /\ row.felts = LessThanRow(a, b, strict)
      /\ row \in [kind : {"LessThan", "StrictLessThan"}, felts : Seq(Int)]
  BY <1>2
<1> HIDE DEF row
<1>4. Uses(row) /\ p \in Offsets /\ \A o \in Offsets : Counted(row, o, IF o = p THEN 1 ELSE 0, 0)
  BY <1>2, <1>3, ComparisonUses
<1> HIDE DEF p
<1>5. bytes \in [ByteTables -> [Offsets -> Nat]]
  BY DEF BytesCounted
<1>6. c \in [Offsets -> Nat] /\ r \in [Offsets -> Nat]
  OBVIOUS
<1>7. \A o \in Offsets : c[o] = (IF o = p THEN 1 ELSE 0) /\ r[o] = 0
  OBVIOUS
<1> HIDE DEF c, r
<1>8. \A o \in Offsets : Counted(row, o, c[o], r[o])
  BY <1>4, <1>7
<1> DEFINE old == bytes["LessThanU8"]
           new == [old EXCEPT ![p] = @ + 1]
<1>9. old \in [Offsets -> Nat]
  BY <1>5 DEF ByteTables
<1>10. bytes' = [bytes EXCEPT !["LessThanU8"] = new]
  BY <1>1
<1> HIDE DEF old
<1>11. new \in [Offsets -> Nat] /\ \A o \in Offsets : new[o] = old[o] + c[o]
  BY <1>4, <1>7, <1>9
<1> HIDE DEF new
<1>12. /\ bytes' \in [ByteTables -> [Offsets -> Nat]]
       /\ bytes'["LessThanU8"] = new /\ bytes'["RangeCheckU8"] = bytes["RangeCheckU8"]
  BY <1>5, <1>10, <1>11 DEF ByteTables
<1>13. \A o \in Offsets : bytes["RangeCheckU8"][o] \in Nat
  BY <1>5 DEF ByteTables
<1>14. \A o \in Offsets : /\ bytes'["LessThanU8"][o] = bytes["LessThanU8"][o] + c[o]
                          /\ bytes'["RangeCheckU8"][o] = bytes["RangeCheckU8"][o] + r[o]
  BY <1>7, <1>11, <1>12, <1>13 DEF old
<1>15. row.kind # "Poseidon"
  BY <1>3
<1>16. QED
  BY <1>1, <1>4, <1>6, <1>8, <1>12, <1>14, <1>15, CountedNext

(* A hash looks up no bytes.                                               *)
LEMMA HashCounted ==
  ASSUME BytesCounted, RowsRecorded, RowsRecorded', NEW row, rows' = Append(rows, row),
         row.kind = "Poseidon", bytes' = bytes
  PROVE  BytesCounted'
<1> DEFINE S == [kind : OfNumbers \cup {"Poseidon"}, felts : Seq(Int)]
<1>1. rows \in Seq(S) /\ rows' \in Seq(S)
  BY DEF RowsRecorded
<1> HIDE DEF S
<1>2. row \in S
  <2>1. Len(rows) + 1 \in 1 .. Len(rows') /\ rows'[Len(rows) + 1] = row
    BY <1>1
  <2>2. QED
    BY <1>1, <2>1
<1>3. AllUse(rows')
  BY RecordedRowsUse DEF RowsRecorded
<1>4. AllUse(Append(rows, row))
  BY <1>3 DEF AllUse
<1>5. Used(rows') = UsedStep(Used(rows), row)
  BY <1>1, <1>2, <1>4, UsedOfAppend
<1>6. Used(rows') = Used(rows)
  BY <1>5 DEF UsedStep
<1>7. QED
  BY <1>6 DEF BytesCounted

(* Whenever an event is recorded, the multiplicities that record.rs counts *)
(* are those of the lookups of the rows recorded so far.                   *)
THEOREM CountedInvariant == TablesSpec => []BytesCounted
<1>1. Init => BytesCounted
  <2> SUFFICES ASSUME Init PROVE BytesCounted
    OBVIOUS
  <2>1. rows = <<>> /\ bytes = [table \in ByteTables |-> [o \in Offsets |-> 0]]
    BY DEF Init, ByteTables
  <2>2. Len(rows) = 0 /\ AllUse(rows)
    BY <2>1 DEF AllUse
  <2>3. Used(rows) = NoLookups
    <3>1. PICK f : Through(f, rows, Len(rows)) /\ Used(rows) = f[Len(rows)]
      BY <2>2, UsedRuns
    <3>2. QED
      BY <2>2, <3>1 DEF Through
  <2>4. DOMAIN NoLookups = {} /\ NoLookups \in [{} -> Int]
    BY DEF NoLookups
  <2>5. Tallied(NoLookups) /\ \A v : Net(NoLookups, v) = 0
    BY <2>4 DEF Tallied, Net
  <2>6. "LessThanU8" \in ByteTables /\ "RangeCheckU8" \in ByteTables
    BY DEF ByteTables
  <2>7. bytes \in [ByteTables -> [Offsets -> Nat]]
        /\ \A o \in Offsets : bytes["LessThanU8"][o] = 0 /\ bytes["RangeCheckU8"][o] = 0
    BY <2>1, <2>6
  <2>8. QED
    BY <2>3, <2>4, <2>5, <2>7 DEF BytesCounted
<1>2. ASSUME BytesCounted, RowsRecorded, RowsRecorded', [Next]_vars PROVE BytesCounted'
  <2>1. CASE AddEvent
    BY <1>2, <2>1, OperandsAreNumerals, AdditionCounted DEF AddEvent
  <2>2. CASE LessThanEvent
    BY <1>2, <2>2, OperandsAreNumerals, ComparisonCounted DEF LessThanEvent
  <2>3. CASE StrictLessThanEvent
    BY <1>2, <2>3, OperandsAreNumerals, ComparisonCounted DEF StrictLessThanEvent
  <2>4. CASE MerkleHashEvent
    <3>1. PICK a, b : AddMerkleHashEvent(a, b)
      BY <2>4 DEF MerkleHashEvent
    <3> DEFINE row == [kind |-> "Poseidon", felts |-> a \o b \o << 1 >>]
    <3>2. rows' = Append(rows, row) /\ row.kind = "Poseidon" /\ bytes' = bytes
      BY <3>1 DEF AddMerkleHashEvent
    <3> HIDE DEF row
    <3>3. QED
      BY <1>2, <3>2, HashCounted
  <2>5. CASE LeafHashEvent
    <3>1. PICK f : AddLeafHashEvent(f)
      BY <2>5 DEF LeafHashEvent
    <3> DEFINE row == [kind |-> "Poseidon", felts |-> SubSeq(f, 1, N_STATE) \o << 1 >>]
    <3>2. rows' = Append(rows, row) /\ row.kind = "Poseidon" /\ bytes' = bytes
      BY <3>1 DEF AddLeafHashEvent
    <3> HIDE DEF row
    <3>3. QED
      BY <1>2, <3>2, HashCounted
  <2>6. CASE UNCHANGED vars
    BY <1>2, <2>6 DEF vars, BytesCounted
  <2>7. QED
    BY <1>2, <2>1, <2>2, <2>3, <2>4, <2>5, <2>6 DEF Next
<1>3. QED
  BY <1>1, <1>2, RecordedInvariant, PTL DEF TablesSpec

(* What a row of the bytes table yields.                                   *)
LEMMA YieldTotals ==
  ASSUME NEW counts \in [ByteTables -> [Offsets -> Nat]], NEW o \in Offsets
  PROVE  LET es == BytesEntries(counts, o) IN
         /\ Booked(es)
         /\ \A v : ~ Listed(v) => Total(es, v) = 0
         /\ \A p \in Offsets :
              /\ Total(es, ComparisonKey(p)) = IF p = o THEN -counts["LessThanU8"][o] ELSE 0
              /\ Total(es, RangeKey(p)) = IF p = o THEN -counts["RangeCheckU8"][o] ELSE 0
<1> DEFINE es == BytesEntries(counts, o)
           m == counts["LessThanU8"][o]
           n == counts["RangeCheckU8"][o]
           e1 == Entry("less_than_u8", <<BytesRow(o).a, BytesRow(o).b, BytesRow(o).c>>, -m)
           e2 == Entry("range_check_u8", <<BytesRow(o).a, BytesRow(o).b>>, -n)
<1>1. es = <<e1, e2>>
  BY DEF BytesEntries
<1>2. m \in Nat /\ n \in Nat
  BY DEF ByteTables
<1>3. Key(e1) = ComparisonKey(o) /\ Key(e2) = RangeKey(o)
  BY EntryFields DEF ComparisonKey, RangeKey
<1> HIDE DEF m, n
<1>4. e1.mult = -m /\ e2.mult = -n
  BY EntryFields
<1> HIDE DEF es, e1, e2
<1>5. e1.mult \in Int /\ e2.mult \in Int
  BY <1>2, <1>4
<1>6. \A v : Amount(es, v, Term(e1, v) + Term(e2, v))
  BY <1>1, <1>5, AmountOfTwo
<1>7. \A v : Total(es, v) = (IF ComparisonKey(o) = v THEN -m ELSE 0) + (IF RangeKey(o) = v THEN -n ELSE 0)
  BY <1>3, <1>4, <1>6 DEF Amount, Term
<1>8. Booked(es)
  BY <1>6 DEF Amount, Booked
<1>9. \A v : ~ Listed(v) => Total(es, v) = 0
  BY <1>7 DEF Listed
<1>10. ASSUME NEW p \in Offsets
       PROVE  /\ Total(es, ComparisonKey(p)) = IF p = o THEN -m ELSE 0
              /\ Total(es, RangeKey(p)) = IF p = o THEN -n ELSE 0
  <2>1. /\ ComparisonKey(o) = ComparisonKey(p) <=> o = p
        /\ RangeKey(o) = RangeKey(p) <=> o = p
        /\ ComparisonKey(o) # RangeKey(p) /\ ComparisonKey(p) # RangeKey(o)
    BY KeysAreApart
  <2>2. -m \in Int /\ -n \in Int
    BY <1>2
  <2>3. QED
    BY <1>7, <2>1, <2>2
<1>11. QED
  BY <1>8, <1>9, <1>10 DEF es, m, n

(* What is left after each offset.                                         *)
LEMMA LeftRuns ==
  ASSUME BytesCounted
  PROVE  \E f : /\ Balance = f[Base * Base] /\ f[0] = Used(rows)
                /\ \A o \in 0 .. Base * Base : Integral(f[o])
                /\ \A o \in 1 .. Base * Base : f[o] = Tally(f[o - 1], BytesEntries(bytes, o - 1))
<1> DEFINE n == Base * Base
           u == Used(rows)
           E(o) == BytesEntries(bytes, o - 1)
           K == DOMAIN u \cup UNION {Keys(E(o)) : o \in 1 .. n}
           S == Lookups(K)
           step == [o \in 1 .. n |-> [l \in S |-> Tally(l, E(o))]]
           Def(g) == g = [o \in 0 .. n |-> IF o = 0 THEN u ELSE Tally(g[o - 1], E(o))]
<1>1. n \in Nat
  BY LimbsAssumption
<1>2. Balance = (CHOOSE g : Def(g))[n]
  BY DEF Balance
<1>3. bytes \in [ByteTables -> [Offsets -> Nat]] /\ Tallied(u)
  BY DEF BytesCounted
<1>4. \A o \in 1 .. n : Booked(E(o))
  <2> HIDE DEF n
  <2>1. \A o \in 1 .. n : o - 1 \in Offsets
    BY <1>1 DEF Offsets, n
  <2>2. QED
    BY <1>3, <2>1, YieldTotals
<1>5. \A o \in 1 .. n : \A i \in DOMAIN E(o) : Key(E(o)[i]) \in K
  <2> SUFFICES ASSUME NEW o \in 1 .. n, NEW i \in DOMAIN E(o) PROVE Key(E(o)[i]) \in K
    OBVIOUS
  <2>1. Key(E(o)[i]) \in Keys(E(o))
    BY DEF Keys
  <2> HIDE DEF E, u, n
  <2>2. Keys(E(o)) \subseteq K
    OBVIOUS
  <2>3. QED
    BY <2>1, <2>2
<1>6. u \in S
  <2>1. u \in [DOMAIN u -> Int] /\ DOMAIN u \in SUBSET K
    BY <1>3 DEF Tallied
  <2> HIDE DEF u, K
  <2>2. QED
    BY <2>1 DEF Lookups
<1> HIDE DEF K, u, n, E
<1>7. \A o \in 1 .. n : \A l \in S : Tally(l, E(o)) \in S
  BY <1>4, <1>5, LookupsTallied
<1>8. \A l \in S : Integral(l)
  BY DEF Lookups, Integral
<1> HIDE DEF S
<1>9. \A o \in 1 .. n : \A l \in S : step[o][l] = Tally(l, E(o)) /\ step[o][l] \in S
  BY <1>7
<1> HIDE DEF step
<1>10. PICK g : Runs(g, n, S, u, step)
  BY <1>1, <1>6, <1>9, Recursion
<1>11. Def(g)
  <2>1. g = [o \in 0 .. n |-> g[o]] /\ g \in [0 .. n -> S]
    BY <1>10 DEF Runs
  <2>2. ASSUME NEW o \in 0 .. n PROVE g[o] = IF o = 0 THEN u ELSE Tally(g[o - 1], E(o))
    <3>1. CASE o = 0
      BY <1>10, <3>1 DEF Runs
    <3>2. CASE o # 0
      <4>1. o \in 1 .. n /\ o - 1 \in 0 .. n
        BY <1>1, <3>2
      <4>2. g[o] = step[o][g[o - 1]] /\ g[o - 1] \in S
        BY <1>10, <2>1, <4>1 DEF Runs
      <4>3. QED
        BY <1>9, <3>2, <4>1, <4>2
    <3>3. QED
      BY <3>1, <3>2
  <2>3. QED
    BY <2>1, <2>2
<1> DEFINE f == CHOOSE g1 : Def(g1)
<1>12. Def(f)
  <2> HIDE DEF Def
  <2>1. QED
    BY <1>11
<1>13. Balance = f[n]
  BY <1>2
<1> HIDE DEF f
<1>14. f = [o \in 0 .. n |-> f[o]]
  BY <1>12
<1>15. ASSUME NEW o \in 0 .. n PROVE f[o] = IF o = 0 THEN u ELSE Tally(f[o - 1], E(o))
  BY <1>12
<1>16. \A o \in 1 .. n : o \in 0 .. n /\ o # 0
  BY <1>1
<1>17. f[0] = u /\ \A o \in 1 .. n : f[o] = Tally(f[o - 1], E(o))
  BY <1>1, <1>15, <1>16
<1>18. Runs(f, n, S, u, step)
  BY <1>1, <1>6, <1>9, <1>14, <1>17, RecursionRuns
<1>19. \A o \in 0 .. n : Integral(f[o])
  BY <1>8, <1>18 DEF Runs
<1>20. QED
  BY <1>13, <1>17, <1>19 DEF n, u, E

(* In every trace of the program, the bytes table yields what the rows of  *)
(* the additions and comparisons, and their padding, look up: the byte     *)
(* relations cancel (record.rs, components/bytes).                         *)
THEOREM BytesCancel == TablesSpec => []BytesBalance
<1>1. ASSUME BytesCounted PROVE BytesBalance
  <2> DEFINE n == Base * Base
             u == Used(rows)
             m == bytes["LessThanU8"]
             r == bytes["RangeCheckU8"]
             due(b, p, o) == IF p < o THEN 0 ELSE b[p]
  <2>1. n \in Nat \ {0}
    BY LimbsAssumption
  <2>2. Offsets = 0 .. n - 1
    BY DEF Offsets
  <2>3. /\ bytes \in [ByteTables -> [Offsets -> Nat]]
        /\ \A o \in Offsets : Net(u, ComparisonKey(o)) = m[o] /\ Net(u, RangeKey(o)) = r[o]
        /\ \A v \in DOMAIN u : OfBytes(v) => Listed(v)
    BY <1>1 DEF BytesCounted
  <2>4. m \in [Offsets -> Nat] /\ r \in [Offsets -> Nat]
    BY <2>3 DEF ByteTables
  <2>5. PICK f : /\ Balance = f[n] /\ f[0] = u
                 /\ \A o \in 0 .. n : Integral(f[o])
                 /\ \A o \in 1 .. n : f[o] = Tally(f[o - 1], BytesEntries(bytes, o - 1))
    BY <1>1, LeftRuns
  <2> DEFINE T == {o \in 0 .. n :
                     /\ \A p \in Offsets : /\ Net(f[o], ComparisonKey(p)) = due(m, p, o)
                                           /\ Net(f[o], RangeKey(p)) = due(r, p, o)
                     /\ \A v : OfBytes(v) /\ ~ Listed(v) => Net(f[o], v) = 0}
  <2> HIDE DEF n, u, m, r
  <2>6. 0 \in T
    <3>1. \A p \in Offsets : ~ (p < 0)
      BY <2>1, <2>2
    <3>2. \A v : OfBytes(v) /\ ~ Listed(v) => Net(u, v) = 0
      BY <2>3 DEF Net
    <3>3. QED
      BY <2>1, <2>3, <2>5, <3>1, <3>2
  <2>7. ASSUME NEW o \in Nat, o < n, o \in T PROVE o + 1 \in T
    <3> DEFINE es == BytesEntries(bytes, o)
               g == f[o]
               h == f[o + 1]
    <3>1. o \in Offsets /\ o \in 0 .. n /\ o + 1 \in 1 .. n /\ o + 1 \in 0 .. n /\ (o + 1) - 1 = o
      BY <2>1, <2>2, <2>7
    <3>2. /\ Booked(es)
          /\ \A v : ~ Listed(v) => Total(es, v) = 0
          /\ \A p \in Offsets : /\ Total(es, ComparisonKey(p)) = IF p = o THEN -m[o] ELSE 0
                                /\ Total(es, RangeKey(p)) = IF p = o THEN -r[o] ELSE 0
      BY <2>3, <3>1, YieldTotals DEF m, r
    <3>3. Integral(g) /\ h = Tally(g, es)
      BY <2>5, <3>1
    <3> HIDE DEF es, g, h
    <3>4. \A v : Net(h, v) = Net(g, v) + Total(es, v)
      BY <3>2, <3>3, TallyNet
    <3>5. /\ \A p \in Offsets : /\ Net(g, ComparisonKey(p)) = due(m, p, o)
                                /\ Net(g, RangeKey(p)) = due(r, p, o)
          /\ \A v : OfBytes(v) /\ ~ Listed(v) => Net(g, v) = 0
      BY <2>7 DEF g
    <3>6. \A v : OfBytes(v) /\ ~ Listed(v) => Net(h, v) = 0
      BY <3>2, <3>4, <3>5
    <3>7. ASSUME NEW p \in Offsets
          PROVE  /\ Net(h, ComparisonKey(p)) = due(m, p, o + 1)
                 /\ Net(h, RangeKey(p)) = due(r, p, o + 1)
      <4>1. p \in Nat /\ m[p] \in Nat /\ r[p] \in Nat
        BY <2>1, <2>2, <2>4
      <4>2. CASE p = o
        <5>1. p < o + 1 /\ ~ (p < o)
          BY <4>1, <4>2
        <5>2. m[p] + (-m[p]) = 0 /\ r[p] + (-r[p]) = 0
          BY <4>1
        <5>3. QED
          BY <3>2, <3>4, <3>5, <4>2, <5>1, <5>2
      <4>3. CASE p # o
        <5>1. p < o + 1 <=> p < o
          BY <4>1, <4>3
        <5>2. due(m, p, o) + 0 = due(m, p, o) /\ due(r, p, o) + 0 = due(r, p, o)
          BY <4>1
        <5>3. QED
          BY <3>2, <3>4, <3>5, <4>3, <5>1, <5>2
      <4>4. QED
        BY <4>2, <4>3
    <3>8. QED
      BY <3>1, <3>6, <3>7 DEF h
  <2> HIDE DEF T
  <2>8. \A o \in 0 .. n : o \in T
    BY <2>1, <2>6, <2>7, UpTo
  <2>9. n \in T
    BY <2>1, <2>8
  <2> DEFINE e == f[n]
  <2>10. /\ \A p \in Offsets : Net(e, ComparisonKey(p)) = 0 /\ Net(e, RangeKey(p)) = 0
         /\ \A v : OfBytes(v) /\ ~ Listed(v) => Net(e, v) = 0
    <3>1. \A p \in Offsets : p < n
      BY <2>1, <2>2
    <3>2. QED
      BY <2>9, <3>1 DEF T
  <2>11. \A v : OfBytes(v) => Net(e, v) = 0
    BY <2>10 DEF Listed
  <2>12. \A v \in DOMAIN e : e[v] # 0
    <3>1. n \in 1 .. n
      BY <2>1
    <3>2. e = Tally(f[n - 1], BytesEntries(bytes, n - 1))
      BY <2>5, <3>1
    <3>3. QED
      BY <3>2 DEF Tally
  <2>13. Balance = e
    BY <2>5
  <2> HIDE DEF e
  <2>14. \A v \in DOMAIN e : ~ OfBytes(v)
    BY <2>11, <2>12 DEF Net
  <2>15. QED
    BY <2>13, <2>14 DEF BytesBalance, OfBytes
<1>2. QED
  BY <1>1, CountedInvariant, PTL

-----------------------------------------------------------------------------
(* The permutation                                                         *)

Element == 0 .. FieldOrder - 1

State == [1 .. N_STATE -> Int]

(* The sizes of the permutation and of its table.                          *)
LEMMA Sixteen == N_STATE = 16 /\ N_HASH = 8 /\ N_ROUNDS = 22 /\ N_COLUMNS_PER_REP = 159
                 /\ N_HALF_FULL_ROUNDS = 4 /\ N_PARTIAL_ROUNDS = 14
BY DEF N_STATE, N_HASH, N_ROUNDS, N_COLUMNS_PER_REP, N_HALF_FULL_ROUNDS, N_PARTIAL_ROUNDS

(* The operations of the field stay in it.                                 *)
LEMMA FieldArithmetic ==
  ASSUME NEW x \in Int, NEW c \in Int
  PROVE  x % FieldOrder \in Element /\ Plus(x, c) \in Element /\ Times(x, c) \in Element
         /\ Element \subseteq Int
<1>1. FieldOrder \in Nat \ {0}
  BY PoseidonAssumption
<1>2. \A y \in Int : y % FieldOrder \in Element
  BY <1>1 DEF Element
<1>3. c % FieldOrder \in Int
  BY <1>1
<1>4. x + (c % FieldOrder) \in Int /\ x * (c % FieldOrder) \in Int
  BY <1>3
<1>5. Element \subseteq Int
  BY <1>1 DEF Element
<1>6. QED
  BY <1>2, <1>4, <1>5 DEF Plus, Times

(* So does the fifth power.                                                *)
LEMMA Pow5IsElement ==
  ASSUME NEW x \in Int
  PROVE  Pow5(x) \in Element
<1>1. Times(x, x) \in Int
  BY FieldArithmetic
<1>2. Times(Times(x, x), Times(x, x)) \in Int
  BY <1>1, FieldArithmetic
<1>3. Times(Times(Times(x, x), Times(x, x)), x) \in Element
  BY <1>2, FieldArithmetic
<1>4. QED
  BY <1>3 DEF Pow5

(* The constants of the rounds are numbers.                                *)
LEMMA RoundConstants ==
  /\ \A k \in 1 .. 8 : \A i \in 1 .. 16 : EXTERNAL_ROUND_CONSTS[k][i] \in Int
  /\ \A k \in 1 .. 14 : INTERNAL_ROUND_CONSTS[k] \in Int
  /\ \A i \in 1 .. 16 : MAT_DIAG16_M_1[i] \in Int
<1>1. \A k \in 1 .. 8 : \A i \in 1 .. 16 : EXTERNAL_ROUND_CONSTS[k][i] \in Int
  BY DEF EXTERNAL_ROUND_CONSTS
<1>2. \A k \in 1 .. 14 : INTERNAL_ROUND_CONSTS[k] \in Int
  BY DEF INTERNAL_ROUND_CONSTS
<1>3. \A i \in 1 .. 16 : MAT_DIAG16_M_1[i] \in Int
  BY DEF MAT_DIAG16_M_1
<1>4. QED
  BY <1>1, <1>2, <1>3

(* apply_m4 makes four numbers of four.                                    *)
LEMMA FourByFour ==
  ASSUME NEW x, x[1] \in Int, x[2] \in Int, x[3] \in Int, x[4] \in Int
  PROVE  ApplyM4(x) \in Seq(Int) /\ Len(ApplyM4(x)) = 4
<1> DEFINE t0 == x[1] + x[2]
           t1 == x[3] + x[4]
           t2 == x[2] + x[2] + t1
           t3 == x[4] + x[4] + t0
           t4 == 4 * t1 + t3
           t5 == 4 * t0 + t2
           y1 == t3 + t5
           y3 == t2 + t4
<1>1. t0 \in Int /\ t1 \in Int
  OBVIOUS
<1>2. ApplyM4(x) = <<y1, t5, y3, t4>>
  BY DEF ApplyM4
<1> HIDE DEF t0, t1
<1>3. t2 \in Int /\ t3 \in Int
  BY <1>1
<1> HIDE DEF t2, t3
<1>4. t4 \in Int /\ t5 \in Int
  BY <1>1, <1>3
<1> HIDE DEF t4, t5
<1>5. y1 \in Int /\ y3 \in Int
  BY <1>3, <1>4
<1> HIDE DEF y1, y3
<1>6. QED
  BY <1>2, <1>4, <1>5

(* A state is a sequence of 16 numbers.                                    *)
LEMMA StateIsSequence ==
  ASSUME NEW state \in State
  PROVE  state \in Seq(Int) /\ Len(state) = N_STATE
<1>1. N_STATE \in Nat
  BY DEF N_STATE
<1>2. QED
  BY <1>1 DEF State

(* The matrix of a full round gives elements of the field.                 *)
LEMMA ExternalMatrix ==
  ASSUME NEW state \in State
  PROVE  ApplyExternalRoundMatrix(state) \in [1 .. N_STATE -> Element]
<1> DEFINE a == ApplyM4(SubSeq(state, 1, 4))
           b == ApplyM4(SubSeq(state, 5, 8))
           c == ApplyM4(SubSeq(state, 9, 12))
           d == ApplyM4(SubSeq(state, 13, 16))
           m == a \o b \o c \o d
           sums == [j \in 1 .. 4 |-> m[j] + m[j + 4] + m[j + 8] + m[j + 12]]
           out == [i \in 1 .. N_STATE |-> (m[i] + sums[((i - 1) % 4) + 1]) % FieldOrder]
<1>1. ASSUME NEW k \in {0, 4, 8, 12}
      PROVE  LET x == ApplyM4(SubSeq(state, k + 1, k + 4)) IN x \in Seq(Int) /\ Len(x) = 4
  <2> DEFINE s == SubSeq(state, k + 1, k + 4)
  <2>1. s = [i \in 1 .. 4 |-> state[k + i]]
    <3>1. state \in Seq(Int) /\ Len(state) = 16
      BY StateIsSequence, Sixteen
    <3>2. \A i \in 1 .. 4 : state[k + i] \in Int
      BY Sixteen DEF State
    <3> DEFINE g == [i \in 1 .. 4 |-> state[k + i]]
    <3>3. g \in [1 .. 4 -> Int] /\ \A i \in 1 .. 4 : state[k + i] = g[i]
      BY <3>2
    <3> HIDE DEF g
    <3>4. Agree(state, k, g, 4)
      BY <3>3 DEF Agree
    <3>5. k \in Nat /\ k + 4 <= Len(state)
      BY <3>1
    <3>6. SubSeq(state, k + 1, k + 4) = g
      BY <3>1, <3>3, <3>4, <3>5, Cut
    <3>7. QED
      BY <3>6 DEF g
  <2> HIDE DEF s
  <2>2. \A i \in 1 .. 4 : s[i] \in Int
    <3>1. \A i \in 1 .. 4 : k + i \in 1 .. N_STATE
      BY Sixteen
    <3>2. QED
      BY <2>1, <3>1 DEF State
  <2>3. ApplyM4(s) \in Seq(Int) /\ Len(ApplyM4(s)) = 4
    BY <2>2, FourByFour
  <2>4. QED
    BY <2>3 DEF s
<1>2. /\ a \in Seq(Int) /\ Len(a) = 4 /\ b \in Seq(Int) /\ Len(b) = 4
      /\ c \in Seq(Int) /\ Len(c) = 4 /\ d \in Seq(Int) /\ Len(d) = 4
  <2>1. 0 + 1 = 1 /\ 0 + 4 = 4 /\ 4 + 1 = 5 /\ 4 + 4 = 8 /\ 8 + 1 = 9 /\ 8 + 4 = 12 /\ 12 + 1 = 13 /\ 12 + 4 = 16
    OBVIOUS
  <2>2. a \in Seq(Int) /\ Len(a) = 4
    BY <1>1, <2>1
  <2>3. b \in Seq(Int) /\ Len(b) = 4
    BY <1>1, <2>1
  <2>4. c \in Seq(Int) /\ Len(c) = 4
    BY <1>1, <2>1
  <2>5. d \in Seq(Int) /\ Len(d) = 4
    BY <1>1, <2>1
  <2>6. QED
    BY <2>2, <2>3, <2>4, <2>5
<1>3. ApplyExternalRoundMatrix(state) = out
  BY DEF ApplyExternalRoundMatrix
<1> HIDE DEF a, b, c, d
<1>4. Joined(Int, a \o b, a, b)
  BY <1>2, TwoParts
<1>5. a \o b \in Seq(Int) /\ Len(a \o b) = 8
  BY <1>2, <1>4 DEF Joined
<1>6. Joined(Int, (a \o b) \o c, a \o b, c)
  BY <1>2, <1>5, TwoParts
<1>7. (a \o b) \o c \in Seq(Int) /\ Len((a \o b) \o c) = 12
  BY <1>2, <1>5, <1>6 DEF Joined
<1>8. Joined(Int, ((a \o b) \o c) \o d, (a \o b) \o c, d)
  BY <1>2, <1>7, TwoParts
<1>9. m \in Seq(Int) /\ Len(m) = 16
  BY <1>2, <1>7, <1>8 DEF Joined
<1> HIDE DEF m
<1>10. \A i \in 1 .. 16 : m[i] \in Int
  <2>1. \A i \in 1 .. Len(m) : m[i] \in Int
    BY <1>9, CellsOf
  <2>2. QED
    BY <1>9, <2>1
<1>11. ASSUME NEW j \in 1 .. 4 PROVE sums[j] \in Int
  <2>1. j \in 1 .. 16 /\ j + 4 \in 1 .. 16 /\ j + 8 \in 1 .. 16 /\ j + 12 \in 1 .. 16
    OBVIOUS
  <2>2. m[j] \in Int /\ m[j + 4] \in Int /\ m[j + 8] \in Int /\ m[j + 12] \in Int
    BY <1>10, <2>1
  <2>3. QED
    BY <2>2
<1> HIDE DEF sums
<1>12. ASSUME NEW i \in 1 .. N_STATE PROVE out[i] \in Element
  <2>1. i \in 1 .. 16 /\ ((i - 1) % 4) + 1 \in 1 .. 4
    BY Sixteen
  <2>2. m[i] + sums[((i - 1) % 4) + 1] \in Int
    <3>1. m[i] \in Int /\ sums[((i - 1) % 4) + 1] \in Int
      BY <1>10, <1>11, <2>1
    <3>2. QED
      BY <3>1
  <2>3. QED
    BY <2>2, FieldArithmetic
<1>13. QED
  BY <1>3, <1>12

(* The matrix of a partial round gives elements of the field.              *)
LEMMA InternalMatrix ==
  ASSUME NEW state \in State
  PROVE  ApplyInternalRoundMatrix(state) \in [1 .. N_STATE -> Element]
<1> DEFINE sum == state[1] + state[2] + state[3] + state[4] + state[5] + state[6] + state[7] + state[8]
                    + state[9] + state[10] + state[11] + state[12] + state[13] + state[14] + state[15] + state[16]
           out == [i \in 1 .. N_STATE |-> Plus(Times(state[i], MAT_DIAG16_M_1[i]), sum)]
<1>1. \A i \in 1 .. 16 : state[i] \in Int
  BY Sixteen DEF State
<1> DEFINE x == state[1] + state[2] + state[3] + state[4]
           y == x + state[5] + state[6] + state[7] + state[8]
           z == y + state[9] + state[10] + state[11] + state[12]
<1>2. sum \in Int
  <2>1. x \in Int
    BY <1>1
  <2> HIDE DEF x
  <2>2. y \in Int
    BY <1>1, <2>1
  <2> HIDE DEF y
  <2>3. z \in Int
    BY <1>1, <2>2
  <2> HIDE DEF z
  <2>4. z + state[13] + state[14] + state[15] + state[16] \in Int
    BY <1>1, <2>3
  <2>5. sum = z + state[13] + state[14] + state[15] + state[16]
    BY DEF x, y, z
  <2>6. QED
    BY <2>4, <2>5
<1>3. ApplyInternalRoundMatrix(state) = out
  BY DEF ApplyInternalRoundMatrix
<1> HIDE DEF sum
<1>4. ASSUME NEW i \in 1 .. N_STATE PROVE out[i] \in Element
  <2>1. state[i] \in Int /\ MAT_DIAG16_M_1[i] \in Int
    BY <1>1, Sixteen, RoundConstants
  <2>2. Times(state[i], MAT_DIAG16_M_1[i]) \in Int
    BY <2>1, FieldArithmetic
  <2>3. Plus(Times(state[i], MAT_DIAG16_M_1[i]), sum) \in Element
    BY <1>2, <2>2, FieldArithmetic
  <2>4. QED
    BY <2>3
<1>5. QED
  BY <1>3, <1>4

(* A round gives a state of elements of the field.                         *)
LEMMA RoundIsState ==
  ASSUME NEW state \in State, NEW k \in 1 .. N_ROUNDS
  PROVE  Round(state, k) \in [1 .. N_STATE -> Element] /\ Round(state, k) \in State
<1>1. \A i \in 1 .. N_STATE : state[i] \in Int /\ i \in 1 .. 16
  BY Sixteen DEF State
<1>2. Element \subseteq Int
  BY FieldArithmetic
<1>3. ASSUME NEW r \in 1 .. 8 PROVE FullRound(state, r) \in [1 .. N_STATE -> Element]
  <2> DEFINE s == [i \in 1 .. N_STATE |-> Plus(state[i], EXTERNAL_ROUND_CONSTS[r][i])]
             m == ApplyExternalRoundMatrix(s)
  <2>1. FullRound(state, r) = [i \in 1 .. N_STATE |-> Pow5(m[i])]
    BY DEF FullRound
  <2>2. ASSUME NEW i \in 1 .. N_STATE PROVE Plus(state[i], EXTERNAL_ROUND_CONSTS[r][i]) \in Int
    BY <1>1, <1>2, RoundConstants, FieldArithmetic
  <2>3. s \in State
    BY <2>2 DEF State
  <2> HIDE DEF s
  <2>4. \A i \in 1 .. N_STATE : m[i] \in Int
    BY <1>2, <2>3, ExternalMatrix
  <2> HIDE DEF m
  <2>5. \A i \in 1 .. N_STATE : Pow5(m[i]) \in Element
    BY <2>4, Pow5IsElement
  <2>6. QED
    BY <2>1, <2>5
<1>4. ASSUME NEW r \in 1 .. 14 PROVE PartialRound(state, r) \in [1 .. N_STATE -> Element]
  <2> DEFINE s == [i \in 1 .. N_STATE |->
                     IF i = 1 THEN Plus(state[i], INTERNAL_ROUND_CONSTS[r]) ELSE state[i]]
             m == ApplyInternalRoundMatrix(s)
  <2>1. PartialRound(state, r) = [i \in 1 .. N_STATE |-> IF i = 1 THEN Pow5(m[i]) ELSE m[i]]
    BY DEF PartialRound
  <2>2. ASSUME NEW i \in 1 .. N_STATE PROVE Plus(state[i], INTERNAL_ROUND_CONSTS[r]) \in Int
    BY <1>1, <1>2, RoundConstants, FieldArithmetic
  <2>3. s \in State
    BY <1>1, <2>2 DEF State
  <2> HIDE DEF s
  <2>4. \A i \in 1 .. N_STATE : m[i] \in Int /\ m[i] \in Element
    BY <1>2, <2>3, InternalMatrix
  <2> HIDE DEF m
  <2>5. \A i \in 1 .. N_STATE : Pow5(m[i]) \in Element
    BY <2>4, Pow5IsElement
  <2>6. QED
    BY <2>1, <2>4, <2>5
<1>5. Round(state, k) \in [1 .. N_STATE -> Element]
  <2>1. k \in 1 .. 22 /\ N_HALF_FULL_ROUNDS = 4 /\ N_PARTIAL_ROUNDS = 14
    BY Sixteen
  <2>2. CASE k <= 4
    <3>1. Round(state, k) = FullRound(state, k) /\ k \in 1 .. 8
      BY <2>1, <2>2 DEF Round
    <3>2. QED
      BY <1>3, <3>1
  <2>3. CASE k > 18
    <3>1. Round(state, k) = FullRound(state, k - 14) /\ k - 14 \in 1 .. 8
      BY <2>1, <2>3 DEF Round, IsFull
    <3>2. QED
      BY <1>3, <3>1
  <2>4. CASE k > 4 /\ k <= 18
    <3>1. Round(state, k) = PartialRound(state, k - 4) /\ k - 4 \in 1 .. 14
      BY <2>1, <2>4 DEF Round, IsFull
    <3>2. QED
      BY <1>4, <3>1
  <2>5. QED
    BY <2>1, <2>2, <2>3, <2>4
<1>6. QED
  BY <1>2, <1>5 DEF State

(* The states before each round and after the last.                        *)
LEMMA StatesRun ==
  ASSUME NEW state \in State
  PROVE  LET t == States(state) IN
         /\ t \in Seq(State) /\ Len(t) = N_ROUNDS + 1 /\ t[1] = state
         /\ \A k \in 1 .. N_ROUNDS : t[k + 1] = Round(t[k], k)
<1> DEFINE n == N_ROUNDS
           step == [k \in 1 .. n |-> [s \in State |-> Round(s, k)]]
           Def(g) == g = [k \in 0 .. n |-> IF k = 0 THEN <<state>>
                                           ELSE Append(g[k - 1], Round(g[k - 1][k], k))]
           f == CHOOSE g : Def(g)
<1>1. n \in Nat
  BY Sixteen
<1>2. States(state) = f[n]
  BY DEF States
<1>3. \A k \in 1 .. n : \A s \in State : step[k][s] = Round(s, k) /\ step[k][s] \in State
  BY RoundIsState
<1>4. \A k \in 1 .. n : k \in 0 .. n /\ k - 1 \in 0 .. n /\ k # 0
  BY <1>1
<1> HIDE DEF n, step
<1>5. PICK g : g = [k \in 0 .. n |-> g[k]] /\ Trail(g, n, State, state, step)
  BY <1>1, <1>3, TrailExists
<1>6. ASSUME NEW h, NEW k \in 1 .. n, h[k - 1] \in Seq(State), Len(h[k - 1]) = k
      PROVE  step[k][h[k - 1][k]] = Round(h[k - 1][k], k)
  <2> DEFINE s == h[k - 1]
  <2>1. s \in Seq(State) /\ k \in 1 .. Len(s)
    BY <1>6
  <2> HIDE DEF s
  <2>2. s[k] \in State
    BY <2>1, CellsOf
  <2>3. QED
    BY <1>3, <2>2 DEF s
<1>7. Def(g)
  <2>1. g[0] = <<state>>
    BY <1>5 DEF Trail
  <2>2. ASSUME NEW k \in 1 .. n PROVE g[k] = Append(g[k - 1], Round(g[k - 1][k], k))
    <3>1. g[k - 1] \in Seq(State) /\ Len(g[k - 1]) = k
      <4>1. (k - 1) + 1 = k
        OBVIOUS
      <4>2. QED
        BY <1>4, <1>5, <4>1 DEF Trail
    <3>2. g[k] = Append(g[k - 1], step[k][g[k - 1][k]])
      BY <1>5 DEF Trail
    <3>3. QED
      BY <1>6, <3>1, <3>2
  <2>3. \A k \in 0 .. n : k # 0 => k \in 1 .. n
    BY <1>1
  <2>4. QED
    BY <1>5, <2>1, <2>2, <2>3
<1>8. Def(f)
  <2> HIDE DEF Def
  <2>1. QED
    BY <1>7
<1> HIDE DEF f
<1>9. ASSUME NEW k \in 0 .. n
      PROVE  f[k] = IF k = 0 THEN <<state>> ELSE Append(f[k - 1], Round(f[k - 1][k], k))
  BY <1>8
<1>10. f[0] = <<state>>
  BY <1>1, <1>9
<1>11. ASSUME NEW k \in 1 .. n, f[k - 1] \in Seq(State), Len(f[k - 1]) = k
       PROVE  f[k] = Append(f[k - 1], step[k][f[k - 1][k]])
  BY <1>4, <1>6, <1>9, <1>11
<1>12. Trail(f, n, State, state, step)
  BY <1>1, <1>3, <1>10, <1>11, TrailRuns
<1> DEFINE t == f[n]
<1>13. /\ t \in Seq(State) /\ Len(t) = n + 1 /\ t[1] = state
       /\ \A k \in 1 .. n : t[k + 1] = step[k][t[k]]
  BY <1>1, <1>12, TrailEnds
<1> HIDE DEF t
<1>14. ASSUME NEW k \in 1 .. n PROVE t[k + 1] = Round(t[k], k)
  <2>1. k \in 1 .. Len(t)
    BY <1>1, <1>13
  <2>2. t[k] \in State
    BY <1>13, <2>1, CellsOf
  <2>3. QED
    BY <1>3, <1>13, <2>2
<1>15. QED
  BY <1>2, <1>13, <1>14 DEF n, t

(* The states of a permutation that is left at one place.                  *)
Strays(t, start, m, i, d) ==
  /\ t \in Seq(State) /\ Len(t) = 23 /\ t[1] = start
  /\ \A k \in 1 .. 22 : \A j \in 1 .. 16 :
       t[k + 1][j] = IF k = m /\ j = i THEN Plus(Round(t[k], k)[j], d) ELSE Round(t[k], k)[j]

(* The states of a permutation that is left at one place.                  *)
LEMMA StrayedRuns ==
  ASSUME NEW state \in State, NEW m \in 1 .. N_ROUNDS, NEW i \in 1 .. N_STATE,
         NEW d \in 1 .. FieldOrder - 1, NEW t, t = Strayed(state, m, i, d)
  PROVE  Strays(t, state, m, i, d)
<1> DEFINE n == N_ROUNDS
           next(s, k) == [j \in 1 .. N_STATE |->
                            IF k = m /\ j = i THEN Plus(Round(s, k)[j], d) ELSE Round(s, k)[j]]
           step == [k \in 1 .. n |-> [s \in State |-> next(s, k)]]
           Def(g) == g = [k \in 0 .. n |-> IF k = 0 THEN <<state>>
                                           ELSE Append(g[k - 1], next(g[k - 1][k], k))]
           f == CHOOSE g : Def(g)
<1>1. n \in Nat
  BY Sixteen
<1>2. Strayed(state, m, i, d) = f[n]
  BY DEF Strayed
<1>3. ASSUME NEW k \in 1 .. n, NEW s \in State PROVE next(s, k) \in State
  <2>1. Round(s, k) \in State /\ d \in Int
    BY RoundIsState
  <2>2. ASSUME NEW j \in 1 .. N_STATE PROVE next(s, k)[j] \in Int
    <3>1. Round(s, k)[j] \in Int
      BY <2>1 DEF State
    <3>2. Plus(Round(s, k)[j], d) \in Int
      BY <2>1, <3>1, FieldArithmetic
    <3>3. QED
      BY <3>1, <3>2
  <2>3. next(s, k) = [j \in 1 .. N_STATE |-> next(s, k)[j]]
    OBVIOUS
  <2> HIDE DEF next
  <2>4. QED
    BY <2>2, <2>3 DEF State
<1>4. \A k \in 1 .. n : k \in 0 .. n /\ k - 1 \in 0 .. n /\ k # 0
  BY <1>1
<1> HIDE DEF n, next
<1>5. \A k \in 1 .. n : \A s \in State : step[k][s] = next(s, k) /\ step[k][s] \in State
  BY <1>3
<1> HIDE DEF step
<1>6. PICK g : g = [k \in 0 .. n |-> g[k]] /\ Trail(g, n, State, state, step)
  BY <1>1, <1>5, TrailExists
<1>7. ASSUME NEW h, NEW k \in 1 .. n, h[k - 1] \in Seq(State), Len(h[k - 1]) = k
      PROVE  step[k][h[k - 1][k]] = next(h[k - 1][k], k)
  <2> DEFINE s == h[k - 1]
  <2>1. s \in Seq(State) /\ k \in 1 .. Len(s)
    BY <1>7
  <2> HIDE DEF s
  <2>2. s[k] \in State
    BY <2>1, CellsOf
  <2>3. QED
    BY <1>5, <2>2 DEF s
<1>8. Def(g)
  <2>1. g[0] = <<state>>
    BY <1>6 DEF Trail
  <2>2. ASSUME NEW k \in 1 .. n PROVE g[k] = Append(g[k - 1], next(g[k - 1][k], k))
    <3>1. g[k - 1] \in Seq(State) /\ Len(g[k - 1]) = k
      <4>1. (k - 1) + 1 = k
        OBVIOUS
      <4>2. QED
        BY <1>4, <1>6, <4>1 DEF Trail
    <3>2. g[k] = Append(g[k - 1], step[k][g[k - 1][k]])
      BY <1>6 DEF Trail
    <3>3. QED
      BY <1>7, <3>1, <3>2
  <2>3. \A k \in 0 .. n : k # 0 => k \in 1 .. n
    BY <1>1
  <2>4. QED
    BY <1>6, <2>1, <2>2, <2>3
<1>9. Def(f)
  <2> HIDE DEF Def
  <2>1. QED
    BY <1>8
<1> HIDE DEF f
<1>10. ASSUME NEW k \in 0 .. n
       PROVE  f[k] = IF k = 0 THEN <<state>> ELSE Append(f[k - 1], next(f[k - 1][k], k))
  BY <1>9
<1>11. f[0] = <<state>>
  BY <1>1, <1>10
<1>12. ASSUME NEW k \in 1 .. n, f[k - 1] \in Seq(State), Len(f[k - 1]) = k
       PROVE  f[k] = Append(f[k - 1], step[k][f[k - 1][k]])
  BY <1>4, <1>7, <1>10, <1>12
<1>13. Trail(f, n, State, state, step)
  BY <1>1, <1>5, <1>11, <1>12, TrailRuns
<1>14. /\ t \in Seq(State) /\ Len(t) = n + 1 /\ t[1] = state
       /\ \A k \in 1 .. n : t[k + 1] = step[k][t[k]]
  <2> DEFINE u == f[n]
  <2>1. /\ u \in Seq(State) /\ Len(u) = n + 1 /\ u[1] = state
        /\ \A k \in 1 .. n : u[k + 1] = step[k][u[k]]
    BY <1>1, <1>13, TrailEnds
  <2>2. t = u
    BY <1>2
  <2> HIDE DEF u
  <2>3. QED
    BY <2>1, <2>2
<1>15. ASSUME NEW k \in 1 .. n PROVE t[k + 1] = next(t[k], k)
  <2>1. k \in 1 .. Len(t)
    BY <1>1, <1>14
  <2>2. t[k] \in State
    BY <1>14, <2>1, CellsOf
  <2>3. QED
    BY <1>5, <1>14, <2>2
<1>16. ASSUME NEW k \in 1 .. n, NEW j \in 1 .. N_STATE
       PROVE  t[k + 1][j] = IF k = m /\ j = i THEN Plus(Round(t[k], k)[j], d) ELSE Round(t[k], k)[j]
  <2> DEFINE s == t[k]
  <2>1. t[k + 1] = next(s, k)
    BY <1>15
  <2> HIDE DEF s
  <2>2. next(s, k)[j] = IF k = m /\ j = i THEN Plus(Round(s, k)[j], d) ELSE Round(s, k)[j]
    BY DEF next
  <2>3. QED
    BY <2>1, <2>2 DEF s
<1>17. n = 22 /\ N_STATE = 16
  BY Sixteen DEF n
<1>18. \A k \in 1 .. 22 : \A j \in 1 .. 16 :
         t[k + 1][j] = IF k = m /\ j = i THEN Plus(Round(t[k], k)[j], d) ELSE Round(t[k], k)[j]
  BY <1>16, <1>17
<1>19. t \in Seq(State) /\ Len(t) = 23 /\ t[1] = state
  BY <1>14, <1>17
<1>20. QED
  BY <1>18, <1>19 DEF Strays

-----------------------------------------------------------------------------
(* The columns of an instance                                              *)

\* The columns that round k changes, and the number of those up to it.
Width(k) == IF IsFull(k) THEN N_STATE ELSE 1

Col(k)   == IF k <= 4 THEN 17 + 16 * k ELSE IF k <= 18 THEN 77 + k ELSE 16 * k - 193

(* The rounds change adjacent columns, up to the last of the instance.     *)
LEMMA ColumnsOfRounds ==
  /\ Col(0) = 17 /\ Col(21) = 143 /\ Col(22) = 159
  /\ \A k \in 0 .. 22 : Col(k) \in Nat /\ Col(k) <= 159
  /\ \A k \in 1 .. 22 : Width(k) \in 1 .. 16 /\ Col(k) = Col(k - 1) + Width(k)
  /\ \A j \in 0 .. 22 : \A k \in 0 .. 22 : j <= k => Col(j) <= Col(k)
  /\ Width(22) = 16
<1>1. N_STATE = 16 /\ N_HALF_FULL_ROUNDS = 4 /\ N_HALF_FULL_ROUNDS + N_PARTIAL_ROUNDS = 18
  BY Sixteen
<1>2. \A k : Width(k) = IF k <= 4 \/ k > 18 THEN 16 ELSE 1
  BY <1>1 DEF Width, IsFull
<1>3. \A k \in 1 .. 22 : Width(k) \in 1 .. 16 /\ Col(k) = Col(k - 1) + Width(k)
  BY <1>2 DEF Col
<1>4. \A k \in 0 .. 22 : Col(k) \in Nat /\ Col(k) <= 159
  BY DEF Col
<1>5. \A j \in 0 .. 22 : \A k \in 0 .. 22 : j <= k => Col(j) <= Col(k)
  BY DEF Col
<1>6. Col(0) = 17 /\ Col(21) = 143 /\ Col(22) = 159
  BY DEF Col
<1>7. QED
  BY <1>2, <1>3, <1>4, <1>5, <1>6

\* The cells w of an instance are those of an operation that goes through t.
Instances(w, real, t) ==
  /\ w \in Seq(Int) /\ Len(w) = 159
  /\ w[1] = real /\ Agree(w, 1, t[1], 16)
  /\ \A k \in 1 .. 22 : Agree(w, Col(k - 1), t[k + 1], Width(k))

(* The columns of one round.                                               *)
LEMMA ColumnsGrow ==
  ASSUME NEW k \in 1 .. 22
  PROVE  /\ Col(k - 1) \in Nat /\ Col(k) \in Nat /\ Width(k) \in Nat /\ Width(k) >= 1 /\ Width(k) <= 16
         /\ Col(k) = Col(k - 1) + Width(k) /\ Col(k - 1) >= 17 /\ Col(k) <= 159
         /\ \A j \in 1 .. 22 : j <= k => Col(j) <= Col(k)
<1>1. k - 1 \in 0 .. 22 /\ k \in 0 .. 22 /\ 0 \in 0 .. 22 /\ 0 <= k - 1
  OBVIOUS
<1>2. Col(k - 1) \in Nat /\ Col(k) \in Nat /\ Col(k) <= 159
  BY <1>1, ColumnsOfRounds
<1>3. Width(k) \in 1 .. 16 /\ Col(k) = Col(k - 1) + Width(k)
  BY ColumnsOfRounds
<1>4. Col(0) <= Col(k - 1) /\ Col(0) = 17
  BY <1>1, ColumnsOfRounds
<1>5. ASSUME NEW j \in 1 .. 22, j <= k PROVE Col(j) <= Col(k)
  <2>1. j \in 0 .. 22
    OBVIOUS
  <2>2. QED
    BY <1>1, <1>5, <2>1, ColumnsOfRounds
<1>6. QED
  BY <1>2, <1>3, <1>4, <1>5

(* The cells that `trace` writes are the states it goes through.           *)
LEMMA WrittenCells ==
  ASSUME NEW op, op[N_STATE + 1] \in Int, NEW t \in Seq(State), Len(t) = 23
  PROVE  Instances(Written(op, t), op[N_STATE + 1], t)
<1> DEFINE Q == Seq(Int)
           real == op[N_STATE + 1]
           part(k) == IF IsFull(k) THEN t[k + 1] ELSE <<t[k + 1][1]>>
           start == <<real>> \o t[1]
           step == [k \in 1 .. 22 |-> [c \in Q |-> c \o part(k)]]
           Def(g) == g = [k \in 0 .. N_ROUNDS |-> IF k = 0 THEN start ELSE g[k - 1] \o part(k)]
           f == CHOOSE g : Def(g)
<1>1. N_ROUNDS = 22 /\ N_STATE = 16 /\ real \in Int
  BY Sixteen
<1>2. Written(op, t) = f[N_ROUNDS]
  BY DEF Written
<1>3. \A k \in 1 .. 23 : t[k] \in Seq(Int) /\ Len(t[k]) = 16
  <2>1. \A k \in 1 .. 23 : t[k] \in State
    BY CellsOf
  <2>2. QED
    BY <1>1, <2>1, StateIsSequence
<1>4. ASSUME NEW k \in 1 .. 22
      PROVE  part(k) \in Q /\ Len(part(k)) = Width(k) /\ Agree(part(k), 0, t[k + 1], Width(k))
  <2> DEFINE s == t[k + 1]
  <2>1. s \in Seq(Int) /\ Len(s) = 16
    <3>1. k + 1 \in 1 .. 23
      OBVIOUS
    <3>2. QED
      BY <1>3, <3>1
  <2> HIDE DEF s
  <2>2. s[1] \in Int
    <3>1. 1 \in 1 .. Len(s)
      BY <2>1
    <3>2. QED
      BY <2>1, <3>1, CellsOf
  <2> DEFINE x == s[1]
             one == <<x>>
  <2> HIDE DEF x
  <2>3. one \in Seq(Int) /\ Len(one) = 1 /\ one[1] = x
    BY <2>2 DEF x
  <2>4. part(k) = IF IsFull(k) THEN s ELSE one
    BY DEF s, x
  <2> HIDE DEF one
  <2>5. CASE IsFull(k)
    <3>1. part(k) = s /\ Width(k) = 16
      BY <1>1, <2>4, <2>5 DEF Width
    <3>2. Agree(s, 0, s, 16)
      BY DEF Agree
    <3>3. QED
      BY <2>1, <3>1, <3>2 DEF s
  <2>6. CASE ~ IsFull(k)
    <3>1. part(k) = one /\ Width(k) = 1
      BY <2>4, <2>6 DEF Width
    <3>2. Agree(one, 0, s, 1)
      BY <2>3 DEF Agree, x
    <3>3. QED
      BY <2>3, <3>1, <3>2 DEF s
  <2>7. QED
    BY <2>5, <2>6
<1>5. start \in Q /\ Len(start) = 17 /\ start[1] = real /\ Agree(start, 1, t[1], 16)
  <2> DEFINE one == <<real>>
             s == t[1]
  <2>1. one \in Seq(Int) /\ Len(one) = 1 /\ one[1] = real
    BY <1>1
  <2>2. s \in Seq(Int) /\ Len(s) = 16
    BY <1>3
  <2>3. start = one \o s
    OBVIOUS
  <2> HIDE DEF one, s, start
  <2>4. Joined(Int, start, one, s)
    BY <2>1, <2>2, <2>3, TwoParts
  <2>5. start[1] = one[1]
    BY <2>1, <2>4 DEF Joined, Agree
  <2>6. start \in Q /\ Len(start) = 17 /\ Agree(start, 1, s, 16)
    BY <2>1, <2>2, <2>4 DEF Joined
  <2>7. QED
    BY <2>1, <2>5, <2>6 DEF s
<1> HIDE DEF part, start, real
<1>6. ASSUME NEW k \in 1 .. 22, NEW c \in Q
      PROVE  step[k][c] = c \o part(k) /\ step[k][c] \in Q
  <2> DEFINE p == part(k)
  <2>1. p \in Seq(Int) /\ c \in Seq(Int)
    BY <1>4
  <2> HIDE DEF p
  <2>2. c \o p \in Seq(Int)
    BY <2>1
  <2>3. QED
    BY <2>2 DEF p
<1> HIDE DEF Q, step
<1>7. PICK g : Runs(g, 22, Q, start, step)
  BY <1>5, <1>6, Recursion
<1>8. Def(g)
  <2>1. g = [k \in 0 .. 22 |-> g[k]] /\ g \in [0 .. 22 -> Q] /\ g[0] = start
    BY <1>7 DEF Runs
  <2>2. ASSUME NEW k \in 1 .. 22 PROVE g[k] = g[k - 1] \o part(k)
    <3>1. k - 1 \in 0 .. 22
      OBVIOUS
    <3>2. g[k] = step[k][g[k - 1]] /\ g[k - 1] \in Q
      BY <1>7, <2>1, <3>1 DEF Runs
    <3>3. QED
      BY <1>6, <3>2
  <2>3. \A k \in 0 .. 22 : k # 0 => k \in 1 .. 22
    OBVIOUS
  <2>4. QED
    BY <1>1, <2>1, <2>2, <2>3
<1>9. Def(f)
  <2> HIDE DEF Def
  <2>1. QED
    BY <1>8
<1> HIDE DEF f
<1>10. ASSUME NEW k \in 0 .. 22 PROVE f[k] = IF k = 0 THEN start ELSE f[k - 1] \o part(k)
  BY <1>1, <1>9
<1>11. f = [k \in 0 .. 22 |-> f[k]]
  BY <1>1, <1>9
<1>12. 0 \in 0 .. 22 /\ 22 \in Nat /\ \A k \in 1 .. 22 : k \in 0 .. 22 /\ k # 0
  OBVIOUS
<1>13. f[0] = start /\ \A k \in 1 .. 22 : f[k] = f[k - 1] \o part(k)
  BY <1>10, <1>12
<1>14. ASSUME NEW k \in 1 .. 22, f[k - 1] \in Q PROVE f[k] = step[k][f[k - 1]]
  BY <1>6, <1>13, <1>14
<1>15. Runs(f, 22, Q, start, step)
  BY <1>5, <1>6, <1>11, <1>12, <1>13, <1>14, RecursionRuns
<1> DEFINE T == {k \in 0 .. 22 :
                   /\ Len(f[k]) = Col(k) /\ f[k][1] = real /\ Agree(f[k], 1, t[1], 16)
                   /\ \A j \in 1 .. k : Agree(f[k], Col(j - 1), t[j + 1], Width(j))}
<1>16. 0 \in T
  <2>1. Len(f[0]) = Col(0) /\ f[0][1] = real /\ Agree(f[0], 1, t[1], 16)
    BY <1>5, <1>13, ColumnsOfRounds
  <2>2. 1 .. 0 = {}
    OBVIOUS
  <2>3. QED
    BY <1>12, <2>1, <2>2
<1>17. ASSUME NEW k \in Nat, k < 22, k \in T PROVE k + 1 \in T
  <2> DEFINE c == f[k]
             r == f[k + 1]
             p == part(k + 1)
  <2>1. k + 1 \in 1 .. 22 /\ k + 1 \in 0 .. 22 /\ k \in 0 .. 22 /\ (k + 1) - 1 = k
    BY <1>17
  <2>2. c \in Seq(Int)
    BY <1>15, <2>1 DEF Runs, Q
  <2>3. p \in Seq(Int) /\ Len(p) = Width(k + 1) /\ Agree(p, 0, t[(k + 1) + 1], Width(k + 1))
    BY <1>4, <2>1 DEF Q
  <2>4. r = c \o p
    BY <1>13, <2>1
  <2>5. /\ Len(c) = Col(k) /\ c[1] = real /\ Agree(c, 1, t[1], 16)
        /\ \A j \in 1 .. k : Agree(c, Col(j - 1), t[j + 1], Width(j))
    BY <1>17
  <2> HIDE DEF c, r, p
  <2>6. Joined(Int, r, c, p)
    BY <2>2, <2>3, <2>4, TwoParts
  <2>7. /\ Col(k) \in Nat /\ Col(k) >= 17 /\ Width(k + 1) \in Nat
        /\ Col(k + 1) = Col(k) + Width(k + 1)
    BY <2>1, ColumnsGrow
  <2>8. Len(r) = Col(k + 1) /\ Agree(r, 0, c, Col(k)) /\ Agree(r, Col(k), p, Width(k + 1))
    BY <2>3, <2>5, <2>6, <2>7 DEF Joined
  <2>9. r[1] = real
    <3>1. 1 \in 1 .. Col(k) /\ 0 + 1 = 1
      BY <2>7
    <3>2. r[0 + 1] = c[1]
      BY <2>8, <3>1 DEF Agree
    <3>3. QED
      BY <2>5, <3>1, <3>2
  <2>10. Agree(r, 1, t[1], 16)
    <3>1. 1 + 16 <= Col(k)
      BY <2>7
    <3>2. QED
      BY <2>5, <2>7, <2>8, <3>1, AgreeWithin
  <2>11. ASSUME NEW j \in 1 .. k + 1 PROVE Agree(r, Col(j - 1), t[j + 1], Width(j))
    <3>1. CASE j = k + 1
      <4>1. Agree(r, Col(k), t[(k + 1) + 1], Width(k + 1))
        <5>1. \A i \in 1 .. Width(k + 1) : 0 + i = i
          BY <2>7
        <5>2. QED
          BY <2>3, <2>8, <5>1 DEF Agree
      <4>2. QED
        BY <2>1, <3>1, <4>1
    <3>2. CASE j # k + 1
      <4>1. j \in 1 .. k /\ j \in 1 .. 22 /\ j - 1 \in 0 .. 22 /\ j \in 0 .. 22 /\ j <= k
        BY <2>1, <3>2
      <4>2. Col(j - 1) \in Nat /\ Width(j) \in Nat /\ Col(j - 1) + Width(j) <= Col(k)
        <5>1. Col(j - 1) \in Nat /\ Width(j) \in Nat /\ Col(j) = Col(j - 1) + Width(j)
          BY <4>1, ColumnsGrow
        <5>2. k \in 1 .. 22
          BY <2>1, <4>1
        <5>3. Col(j) <= Col(k)
          BY <4>1, <5>2, ColumnsGrow
        <5>4. QED
          BY <5>1, <5>3
      <4>3. Agree(c, Col(j - 1), t[j + 1], Width(j))
        BY <2>5, <4>1
      <4>4. QED
        BY <2>7, <2>8, <4>2, <4>3, AgreeWithin
    <3>3. QED
      BY <3>1, <3>2
  <2>12. QED
    BY <2>1, <2>8, <2>9, <2>10, <2>11 DEF r
<1> HIDE DEF T
<1>18. \A k \in 0 .. 22 : k \in T
  <2>1. 22 \in Nat
    OBVIOUS
  <2>2. QED
    BY <1>16, <1>17, <2>1, UpTo
<1>19. 22 \in T /\ f[22] \in Seq(Int)
  BY <1>15, <1>18 DEF Runs, Q
<1>20. QED
  BY <1>1, <1>2, <1>19, ColumnsOfRounds, ZenonT(60) DEF T, Instances, real

-----------------------------------------------------------------------------
(* The constraints of an instance, one round after the other               *)

Ints == Int

InstanceCells == {w \in Seq(Ints) : Len(w) = 159}

Checking == [state : State, next : Nat, holds : BOOLEAN]

(* 16 numbers are a state.                                                 *)
LEMMA NumbersAreState ==
  ASSUME NEW s \in Seq(Ints), Len(s) = 16
  PROVE  s \in State
<1>1. \A j \in 1 .. Len(s) : s[j] \in Int
  <2>1. \A j \in 1 .. Len(s) : s[j] \in Ints
    BY CellsOf
  <2>2. QED
    BY <2>1 DEF Ints
<1>2. s = [j \in 1 .. 16 |-> s[j]]
  OBVIOUS
<1>3. QED
  BY <1>1, <1>2, Sixteen DEF State

(* The parts of a check.                                                   *)
LEMMA FieldsOfChecking ==
  ASSUME NEW s, NEW n, NEW h
  PROVE  LET r == [state |-> s, next |-> n, holds |-> h] IN
         /\ r.state = s /\ r.next = n /\ r.holds = h
         /\ s \in State /\ n \in Nat /\ h \in BOOLEAN => r \in Checking
BY DEF Checking

(* A round of the constraints compares the cells of the round with what the*)
(* round makes of the state, and goes on with the cells.                   *)
LEMMA RoundIsChecked ==
  ASSUME NEW cells \in InstanceCells, NEW k \in 1 .. 22,
         NEW r \in Checking, r.next = Col(k - 1) + 1
  PROVE  LET e == EvaluateRound(cells, r, k)
             a == Round(r.state, k)
         IN  /\ e \in Checking /\ e.next = Col(k) + 1
             /\ e.holds <=> r.holds /\ Agree(cells, Col(k - 1), a, Width(k))
             /\ e.state = [j \in 1 .. 16 |-> IF j <= Width(k) THEN cells[Col(k - 1) + j] ELSE a[j]]
<1> DEFINE a == Round(r.state, k)
           c == Col(k - 1)
           n == Width(k)
           read == SubSeq(cells, c + 1, c + n)
           first == SubSeq(a, 1, n)
           rest == SubSeq(a, n + 1, 16)
           after == read \o rest
           mixed == [j \in 1 .. 16 |-> IF j <= n THEN cells[c + j] ELSE a[j]]
           ok == r.holds /\ read = first
           e == EvaluateRound(cells, r, k)
<1>1. r.state \in State /\ r.next \in Nat
  BY DEF Checking
<1>2. r.holds \in BOOLEAN
  BY DEF Checking
<1>3. a \in Seq(Ints) /\ Len(a) = 16
  <2>1. k \in 1 .. N_ROUNDS
    BY Sixteen
  <2>2. a \in State
    BY <1>1, <2>1, RoundIsState
  <2> HIDE DEF a
  <2>3. QED
    BY <2>2, StateIsSequence, Sixteen DEF Ints
<1>4. c \in Nat /\ n \in Nat /\ n >= 1 /\ n <= 16 /\ Col(k) = c + n /\ c + n <= 159
  BY ColumnsGrow
<1>5. e = [state |-> after, next |-> r.next + n, holds |-> ok]
  <2> DEFINE w == IF IsFull(k) THEN N_STATE ELSE 1
  <2>1. EvaluateRound(cells, r, k)
          = [state |-> SubSeq(cells, r.next, r.next + w - 1) \o SubSeq(a, w + 1, N_STATE),
             next |-> r.next + w, holds |-> r.holds /\ SubSeq(cells, r.next, r.next + w - 1) = SubSeq(a, 1, w)]
    BY DEF EvaluateRound
  <2>2. w = n
    BY DEF Width
  <2> HIDE DEF w
  <2>3. r.next = c + 1 /\ r.next + n - 1 = c + n /\ N_STATE = 16
    BY <1>4, Sixteen
  <2>4. QED
    BY <2>1, <2>2, <2>3
<1> HIDE DEF a, c, n, e
<1> HIDE DEF read, first, rest, after, ok, mixed
<1>6. read \in Seq(Ints) /\ Len(read) = n /\ Agree(cells, c, read, n)
  <2>1. cells \in Seq(Ints) /\ c + n <= Len(cells)
    BY <1>4 DEF InstanceCells
  <2>2. IsCut(read, Ints, cells, c, n)
    BY <1>4, <2>1 DEF IsCut, read
  <2>3. QED
    BY <2>2, CutIs
<1>7. first \in Seq(Ints) /\ Len(first) = n /\ Agree(a, 0, first, n)
  <2>1. IsCut(first, Ints, a, 0, n)
    BY <1>3, <1>4 DEF IsCut, first
  <2>2. QED
    BY <2>1, CutIs
<1>8. rest \in Seq(Ints) /\ Len(rest) = 16 - n /\ Agree(a, n, rest, 16 - n)
  <2>1. IsCut(rest, Ints, a, n, 16 - n)
    BY <1>3, <1>4 DEF IsCut, rest
  <2>2. QED
    BY <2>1, CutIs
<1>9. Joined(Ints, after, read, rest)
  BY <1>6, <1>8, TwoParts DEF after
<1>10. after \in Seq(Ints) /\ Len(after) = 16 /\ Agree(after, 0, read, n) /\ Agree(after, n, rest, 16 - n)
  BY <1>4, <1>6, <1>8, <1>9 DEF Joined
<1>11. after \in State
  BY <1>10, NumbersAreState
<1>12. after = mixed
  <2>1. after = [j \in 1 .. 16 |-> after[j]]
    BY <1>10
  <2>2. ASSUME NEW j \in 1 .. 16 PROVE after[j] = IF j <= n THEN cells[c + j] ELSE a[j]
    <3>1. CASE j <= n
      <4>1. j \in 1 .. n /\ 0 + j = j
        BY <3>1, <1>4
      <4>2. after[0 + j] = read[j]
        BY <1>10, <4>1 DEF Agree
      <4>3. QED
        BY <1>6, <3>1, <4>1, <4>2 DEF Agree
    <3>2. CASE ~ (j <= n)
      <4>1. j - n \in 1 .. 16 - n /\ n + (j - n) = j
        BY <3>2, <1>4
      <4>2. after[n + (j - n)] = rest[j - n]
        BY <1>10, <4>1 DEF Agree
      <4>3. rest[j - n] = a[n + (j - n)]
        BY <1>8, <4>1 DEF Agree
      <4>4. QED
        BY <3>2, <4>1, <4>2, <4>3
    <3>3. QED
      BY <3>1, <3>2
  <2>3. QED
    BY <2>1, <2>2 DEF mixed
<1>13. ok <=> r.holds /\ Agree(cells, c, a, n)
  <2>1. read = first <=> \A j \in 1 .. n : read[j] = first[j]
    <3>1. read = [j \in 1 .. n |-> read[j]] /\ first = [j \in 1 .. n |-> first[j]]
      BY <1>6, <1>7
    <3>2. QED
      BY <3>1
  <2>2. Agree(cells, c, a, n) <=> \A j \in 1 .. n : read[j] = first[j]
    BY <1>6, <1>7 DEF Agree
  <2>3. QED
    BY <2>1, <2>2 DEF ok
<1>14. ok \in BOOLEAN
  BY <1>2 DEF ok
<1>15. r.next + n = Col(k) + 1 /\ r.next + n \in Nat
  BY <1>1, <1>4 DEF c
<1>16. e.state = after /\ e.next = r.next + n /\ e.holds = ok /\ e \in Checking
  BY <1>5, <1>11, <1>14, <1>15, FieldsOfChecking
<1>17. e.holds <=> r.holds /\ Agree(cells, c, a, n)
  BY <1>13, <1>16
<1>18. e.state = mixed
  BY <1>12, <1>16
<1>19. QED
  BY <1>15, <1>16, <1>17, <1>18 DEF a, c, n, e, mixed

\* The checks of the cells go through run.
Checks(run, cells) ==
  /\ \A k \in 0 .. 22 : run[k] \in Checking /\ run[k].next = Col(k) + 1
  /\ run[0].state = SubSeq(cells, 2, 17) /\ (run[0].holds <=> cells[1] \in {0, 1})
  /\ \A k \in 1 .. 22 :
       /\ run[k].holds <=> /\ run[k - 1].holds
                           /\ Agree(cells, Col(k - 1), Round(run[k - 1].state, k), Width(k))
       /\ run[k].state = [j \in 1 .. 16 |-> IF j <= Width(k) THEN cells[Col(k - 1) + j]
                                            ELSE Round(run[k - 1].state, k)[j]]

(* The constraints of an instance are checked round by round.              *)
LEMMA EvaluateRuns ==
  ASSUME NEW cells \in InstanceCells
  PROVE  \E run : Checks(run, cells) /\ Evaluate(cells) = run[22]
<1> DEFINE start == [state |-> SubSeq(cells, 2, N_STATE + 1), next |-> N_STATE + 2,
                     holds |-> cells[1] \in {0, 1}]
           check(r, k) == EvaluateRound(cells, r, k)
           G == [k \in 0 .. 22 |-> {r \in Checking : r.next = Col(k) + 1}]
           step == [k \in 1 .. 22 |-> [r \in G[k - 1] |-> check(r, k)]]
           Def(g) == g = [k \in 0 .. N_ROUNDS |-> IF k = 0 THEN start ELSE check(g[k - 1], k)]
           f == CHOOSE g : Def(g)
<1>1. N_ROUNDS = 22 /\ N_STATE = 16 /\ N_STATE + 2 = 18 /\ N_STATE + 1 = 17 /\ Col(0) + 1 = 18
  BY Sixteen, ColumnsOfRounds
<1>2. Evaluate(cells) = f[N_ROUNDS]
  BY DEF Evaluate
<1>3. start \in Checking /\ start.next = Col(0) + 1 /\ start.state = SubSeq(cells, 2, 17)
      /\ (start.holds <=> cells[1] \in {0, 1})
  <2> DEFINE s == SubSeq(cells, 2, 17)
             h == cells[1] \in {0, 1}
  <2>1. s \in Seq(Ints) /\ Len(s) = 16
    <3>1. cells \in Seq(Ints) /\ Len(cells) = 159
      BY DEF InstanceCells
    <3>2. s = SubSeq(cells, 1 + 1, 1 + 16) /\ 1 + 16 <= 159
      OBVIOUS
    <3> HIDE DEF s
    <3>3. IsCut(s, Ints, cells, 1, 16)
      BY <3>1, <3>2 DEF IsCut
    <3>4. QED
      BY <3>3, CutIs
  <2>2. start = [state |-> s, next |-> 18, holds |-> h]
    BY <1>1
  <2> HIDE DEF s
  <2>3. s \in State
    BY <2>1, NumbersAreState
  <2>4. h \in BOOLEAN /\ 18 \in Nat
    OBVIOUS
  <2> HIDE DEF h, start
  <2>5. start \in Checking /\ start.state = s /\ start.next = 18 /\ start.holds = h
    BY <2>2, <2>3, <2>4, FieldsOfChecking
  <2>6. QED
    BY <1>1, <2>5 DEF s, h
<1> HIDE DEF start
<1>4. ASSUME NEW k \in 1 .. 22, NEW r \in Checking, r.next = Col(k - 1) + 1
      PROVE  check(r, k) \in Checking /\ check(r, k).next = Col(k) + 1
  BY <1>4, RoundIsChecked
<1> HIDE DEF check
<1>5. 0 \in 0 .. 22 /\ 22 \in Nat /\ 22 \in 0 .. 22
      /\ \A k \in 1 .. 22 : k \in 0 .. 22 /\ k # 0 /\ k - 1 \in 0 .. 22
  OBVIOUS
<1>6. ASSUME NEW k \in 0 .. 22, NEW r
      PROVE  r \in G[k] <=> r \in Checking /\ r.next = Col(k) + 1
  OBVIOUS
<1>7. \A k \in 0 .. 22 : G[k] \subseteq Checking
  OBVIOUS
<1> HIDE DEF G
<1>8. start \in G[0]
  BY <1>3, <1>5, <1>6
<1>9. ASSUME NEW k \in 1 .. 22, NEW r \in G[k - 1]
      PROVE  step[k][r] = check(r, k) /\ step[k][r] \in G[k]
  <2>1. step[k][r] = check(r, k)
    OBVIOUS
  <2>2. r \in Checking /\ r.next = Col(k - 1) + 1
    BY <1>5, <1>6
  <2>3. check(r, k) \in G[k]
    BY <1>4, <1>5, <1>6, <2>2
  <2>4. QED
    BY <2>1, <2>3
<1> HIDE DEF step
<1>10. Guides(22, G, start, step)
  BY <1>5, <1>8, <1>9 DEF Guides
<1>11. PICK g : g = [k \in 0 .. 22 |-> g[k]] /\ KeepsTo(g, 22, G, start, step)
  BY <1>10, GuidedExists
<1>12. Def(g)
  <2>1. ASSUME NEW k \in 1 .. 22 PROVE g[k] = check(g[k - 1], k)
    <3>1. g[k - 1] \in G[k - 1] /\ g[k] = step[k][g[k - 1]]
      BY <1>5, <1>10, <1>11, Guided
    <3>2. QED
      BY <1>9, <3>1
  <2>2. \A k \in 0 .. 22 : k # 0 => k \in 1 .. 22
    OBVIOUS
  <2>3. QED
    BY <1>1, <1>11, <2>1, <2>2 DEF KeepsTo
<1>13. Def(f)
  <2> HIDE DEF Def
  <2>1. QED
    BY <1>12
<1> HIDE DEF f
<1>14. ASSUME NEW k \in 0 .. 22 PROVE f[k] = IF k = 0 THEN start ELSE check(f[k - 1], k)
  BY <1>1, <1>13
<1>15. f[0] = start /\ \A k \in 1 .. 22 : f[k] = check(f[k - 1], k)
  BY <1>5, <1>14
<1>16. ASSUME NEW k \in 1 .. 22, f[k - 1] \in G[k - 1] PROVE f[k] = step[k][f[k - 1]]
  BY <1>9, <1>15, <1>16
<1> HIDE DEF Def
<1>17. \A k \in 0 .. 22 : f[k] \in G[k]
  <2>1. KeepsTo(f, 22, G, start, step)
    BY <1>15, <1>16 DEF KeepsTo
  <2>2. QED
    BY <1>10, <2>1, Guided
<1>18. \A k \in 0 .. 22 : f[k] \in Checking /\ f[k].next = Col(k) + 1
  BY <1>6, <1>17
<1>19. ASSUME NEW k \in 1 .. 22
       PROVE  /\ f[k].holds <=> /\ f[k - 1].holds
                                /\ Agree(cells, Col(k - 1), Round(f[k - 1].state, k), Width(k))
              /\ f[k].state = [j \in 1 .. 16 |-> IF j <= Width(k) THEN cells[Col(k - 1) + j]
                                                 ELSE Round(f[k - 1].state, k)[j]]
  <2> DEFINE r == f[k - 1]
             e == f[k]
  <2>1. r \in Checking /\ r.next = Col(k - 1) + 1
    BY <1>5, <1>18
  <2>2. e = EvaluateRound(cells, r, k)
    BY <1>15 DEF check
  <2> HIDE DEF r, e
  <2>3. /\ e.holds <=> r.holds /\ Agree(cells, Col(k - 1), Round(r.state, k), Width(k))
        /\ e.state = [j \in 1 .. 16 |-> IF j <= Width(k) THEN cells[Col(k - 1) + j]
                                         ELSE Round(r.state, k)[j]]
    BY <2>1, <2>2, RoundIsChecked
  <2>4. QED
    BY <2>3 DEF r, e
<1>20. Checks(f, cells)
  BY <1>3, <1>15, <1>18, <1>19 DEF Checks
<1>21. QED
  BY <1>1, <1>2, <1>20

-----------------------------------------------------------------------------
(* The constraints of an instance that follows the permutation, or leaves  *)
(* it                                                                      *)

(* An instance has 159 cells.                                              *)
LEMMA InstanceIsCells ==
  ASSUME NEW w, NEW real, NEW t, Instances(w, real, t)
  PROVE  w \in InstanceCells
BY DEF Instances, InstanceCells, Ints

(* A state, cell by cell.                                                  *)
LEMMA StateIsNumbers ==
  ASSUME NEW s \in State
  PROVE  s = [j \in 1 .. 16 |-> s[j]] /\ \A j \in 1 .. 16 : s[j] \in Int
BY Sixteen DEF State

(* The initial state of an instance is the first it goes through.          *)
LEMMA StartIsFirst ==
  ASSUME NEW w, NEW real, NEW t \in Seq(State), Len(t) = 23, Instances(w, real, t)
  PROVE  SubSeq(w, 2, 17) = t[1]
<1> DEFINE s == SubSeq(w, 2, 17)
           u == t[1]
<1>1. w \in Seq(Ints) /\ Len(w) = 159
  BY InstanceIsCells DEF InstanceCells
<1>2. u \in State
  BY CellsOf
<1> HIDE DEF u
<1>3. IsCut(s, Ints, w, 1, 16)
  <2>1. s = SubSeq(w, 1 + 1, 1 + 16) /\ 1 + 16 <= 159
    OBVIOUS
  <2> HIDE DEF s
  <2>2. QED
    BY <1>1, <2>1 DEF IsCut
<1> HIDE DEF s
<1>4. s \in Seq(Ints) /\ Len(s) = 16 /\ Agree(w, 1, s, 16)
  BY <1>3, CutIs
<1>5. Agree(w, 1, u, 16)
  BY DEF Instances, u
<1>6. s = [j \in 1 .. 16 |-> s[j]]
  BY <1>4
<1>7. u = [j \in 1 .. 16 |-> u[j]]
  BY <1>2, StateIsNumbers
<1>8. \A j \in 1 .. 16 : s[j] = u[j]
  BY <1>4, <1>5 DEF Agree
<1>9. s = u
  BY <1>6, <1>7, <1>8
<1>10. QED
  BY <1>9 DEF s, u

\* Before round m the states are those of the permutation.
Faithful(t, m) == \A k \in 1 .. 22 : k < m => t[k + 1] = Round(t[k], k)

(* As long as the states are those of the permutation, the constraints hold*)
(* and follow them.                                                        *)
LEMMA FollowsStates ==
  ASSUME NEW w, NEW real \in {0, 1}, NEW t \in Seq(State), Len(t) = 23, Instances(w, real, t),
         NEW m \in Nat, Faithful(t, m), NEW run, Checks(run, w)
  PROVE  \A k \in 0 .. 22 : k < m => run[k].state = t[k + 1] /\ run[k].holds
<1> DEFINE T == {k \in 0 .. 22 : k < m => run[k].state = t[k + 1] /\ run[k].holds}
<1>1. 0 \in T
  <2>1. run[0].state = SubSeq(w, 2, 17) /\ (run[0].holds <=> w[1] \in {0, 1})
    BY DEF Checks
  <2>2. w[1] = real
    BY DEF Instances
  <2>3. run[0].state = t[1]
    BY <2>1, StartIsFirst
  <2>4. 0 \in 0 .. 22 /\ 0 + 1 = 1
    OBVIOUS
  <2>5. QED
    BY <2>1, <2>2, <2>3, <2>4
<1>2. ASSUME NEW j \in Nat, j < 22, j \in T PROVE j + 1 \in T
  <2> DEFINE k == j + 1
  <2>1. k \in 1 .. 22 /\ k \in 0 .. 22 /\ k - 1 = j /\ k + 1 \in 1 .. 23 /\ (k < m => j < m)
    BY <1>2
  <2> HIDE DEF k
  <2>2. ASSUME k < m PROVE run[k].state = t[k + 1] /\ run[k].holds
    <3> DEFINE after == Round(t[k], k)
               u == t[k + 1]
               s == run[k].state
               c == Col(k - 1)
               n == Width(k)
    <3>1. run[k - 1].state = t[k] /\ run[k - 1].holds
      BY <1>2, <2>1, <2>2
    <3>2. u = after
      BY <2>1, <2>2 DEF Faithful
    <3>3. Agree(w, c, u, n)
      BY <2>1 DEF Instances
    <3>4. /\ run[k].holds <=> run[k - 1].holds /\ Agree(w, c, Round(run[k - 1].state, k), n)
          /\ s = [i \in 1 .. 16 |-> IF i <= n THEN w[c + i] ELSE Round(run[k - 1].state, k)[i]]
      BY <2>1 DEF Checks
    <3>5. /\ run[k].holds <=> run[k - 1].holds /\ Agree(w, c, after, n)
          /\ s = [i \in 1 .. 16 |-> IF i <= n THEN w[c + i] ELSE after[i]]
      BY <3>1, <3>4
    <3>6. run[k].holds
      BY <3>1, <3>2, <3>3, <3>5
    <3>7. u \in State
      BY <2>1, CellsOf
    <3>8. n \in Nat
      BY <2>1, ColumnsGrow
    <3> HIDE DEF after, u, s, c, n
    <3>9. u = [i \in 1 .. 16 |-> u[i]]
      BY <3>7, StateIsNumbers
    <3>10. ASSUME NEW i \in 1 .. 16 PROVE (IF i <= n THEN w[c + i] ELSE after[i]) = u[i]
      <4>1. i <= n => i \in 1 .. n
        BY <3>8
      <4>2. QED
        BY <3>2, <3>3, <4>1 DEF Agree
    <3>11. s = u
      BY <3>5, <3>9, <3>10
    <3>12. QED
      BY <3>6, <3>11 DEF s, u
  <2>3. QED
    BY <2>1, <2>2 DEF k
<1> HIDE DEF T
<1>3. \A k \in 0 .. 22 : k \in T
  <2>1. 22 \in Nat
    OBVIOUS
  <2>2. QED
    BY <1>1, <1>2, <2>1, UpTo
<1>4. QED
  BY <1>3 DEF T

(* Completeness: the cells of a permutation are accepted, and the          *)
(* constraints end in its last state.                                      *)
LEMMA HonestHolds ==
  ASSUME NEW w, NEW real \in {0, 1}, NEW t \in Seq(State), Len(t) = 23, Instances(w, real, t),
         Faithful(t, 23)
  PROVE  Evaluate(w).holds /\ Evaluate(w).state = t[23]
<1>1. PICK run : Checks(run, w) /\ Evaluate(w) = run[22]
  BY InstanceIsCells, EvaluateRuns
<1>2. 22 \in 0 .. 22 /\ 22 < 23 /\ 23 \in Nat /\ 22 + 1 = 23
  OBVIOUS
<1>3. run[22].state = t[22 + 1] /\ run[22].holds
  BY <1>1, <1>2, FollowsStates, ZenonT(60)
<1>4. QED
  BY <1>1, <1>2, <1>3

(* Adding a number below the order, other than 0, changes an element.      *)
LEMMA PlusMoves ==
  ASSUME NEW x \in Element, NEW d \in 1 .. FieldOrder - 1
  PROVE  Plus(x, d) # x
<1> DEFINE F == FieldOrder
<1>1. F \in Nat \ {0} /\ x \in 0 .. F - 1 /\ d \in 0 .. F - 1 /\ d \in Int /\ d >= 1
  BY PoseidonAssumption DEF Element
<1>2. d % F = d
  <2>1. d = F * 0 + d
    BY <1>1
  <2>2. (F * 0 + d) % F = d
    BY <1>1, DivisionIs
  <2>3. QED
    BY <2>1, <2>2
<1>3. CASE x + d < F
  <2>1. x + d \in 0 .. F - 1
    BY <1>1, <1>3
  <2>2. (F * 0 + (x + d)) % F = x + d
    BY <1>1, <2>1, DivisionIs
  <2>3. F * 0 + (x + d) = x + d /\ x + d # x
    BY <1>1
  <2>4. (x + d) % F = x + d
    BY <2>2, <2>3
  <2>5. QED
    BY <1>2, <2>3, <2>4 DEF Plus
<1>4. CASE ~ (x + d < F)
  <2> DEFINE r == x + d - F
  <2>1. r \in 0 .. F - 1 /\ F * 1 + r = x + d /\ r # x
    BY <1>1, <1>4
  <2> HIDE DEF r
  <2>2. (F * 1 + r) % F = r
    BY <1>1, <2>1, DivisionIs
  <2>3. QED
    BY <1>2, <2>1, <2>2 DEF Plus
<1>5. QED
  BY <1>3, <1>4

(* Soundness: cells that leave the permutation at round m are refused.     *)
LEMMA StrayedFails ==
  ASSUME NEW w, NEW real \in {0, 1}, NEW t \in Seq(State), Len(t) = 23, Instances(w, real, t),
         NEW m \in 1 .. 22, Faithful(t, m), NEW i \in 1 .. Width(m), t[m + 1][i] # Round(t[m], m)[i]
  PROVE  ~ Evaluate(w).holds
<1>1. PICK run : Checks(run, w) /\ Evaluate(w) = run[22]
  BY InstanceIsCells, EvaluateRuns
<1>2. m - 1 \in 0 .. 22 /\ m - 1 < m /\ (m - 1) + 1 = m /\ m \in Nat /\ m \in 0 .. 22
  OBVIOUS
<1>3. run[m - 1].state = t[m]
  <2>1. \A k \in 0 .. 22 : k < m => run[k].state = t[k + 1] /\ run[k].holds
    <3>1. m \in Nat /\ Checks(run, w)
      BY <1>1, <1>2
    <3>2. QED
      BY <3>1, FollowsStates
  <2>2. run[m - 1].state = t[(m - 1) + 1]
    BY <1>2, <2>1
  <2>3. QED
    BY <1>2, <2>2
<1> DEFINE T == {k \in 0 .. 22 : k >= m => ~ run[k].holds}
<1>4. ~ run[m].holds
  <2>1. run[m].holds => Agree(w, Col(m - 1), Round(t[m], m), Width(m))
    BY <1>1, <1>3 DEF Checks
  <2>2. Agree(w, Col(m - 1), t[m + 1], Width(m))
    BY DEF Instances
  <2>3. QED
    BY <2>1, <2>2 DEF Agree
<1>5. 0 \in T
  <2>1. 0 \in 0 .. 22 /\ ~ (0 >= m)
    OBVIOUS
  <2>2. QED
    BY <2>1
<1>6. ASSUME NEW k \in Nat, k < 22, k \in T PROVE k + 1 \in T
  <2>1. k + 1 \in 1 .. 22 /\ k + 1 \in 0 .. 22 /\ (k + 1) - 1 = k
    BY <1>6
  <2>2. run[k + 1].holds => run[k].holds
    BY <1>1, <2>1 DEF Checks
  <2>3. k + 1 >= m => k >= m \/ k + 1 = m
    BY <1>6
  <2>4. QED
    BY <1>4, <1>6, <2>1, <2>2, <2>3
<1> HIDE DEF T
<1>7. \A k \in 0 .. 22 : k \in T
  <2>1. 22 \in Nat
    OBVIOUS
  <2>2. QED
    BY <1>5, <1>6, <2>1, UpTo
<1>8. 22 \in T /\ 22 >= m
  BY <1>2, <1>7
<1>9. QED
  BY <1>1, <1>8 DEF T

-----------------------------------------------------------------------------
(* The rows of hashes                                                      *)

\* An operation of the poseidon table.
IsOp(op, real) == op \in Seq(Ints) /\ Len(op) = 17 /\ op[17] = real

(* The initial state of an operation.                                      *)
LEMMA InitialIsState ==
  ASSUME NEW op, NEW real, IsOp(op, real)
  PROVE  InitialState(op) \in State /\ Agree(op, 0, InitialState(op), 16)
<1> DEFINE s == InitialState(op)
<1>1. s = SubSeq(op, 1, 16)
  BY Sixteen DEF InitialState
<1> HIDE DEF s
<1>2. op \in Seq(Ints) /\ Len(op) = 17
  BY DEF IsOp
<1>3. IsCut(s, Ints, op, 0, 16)
  <2>1. s = SubSeq(op, 0 + 1, 0 + 16) /\ 0 + 16 <= 17
    BY <1>1
  <2>2. QED
    BY <1>2, <2>1 DEF IsCut
<1>4. s \in Seq(Ints) /\ Len(s) = 16 /\ Agree(op, 0, s, 16)
  BY <1>3, CutIs
<1>5. s \in State
  BY <1>4, NumbersAreState
<1>6. QED
  BY <1>4, <1>5 DEF s

(* The row of a hash is a real operation of the table.                     *)
LEMMA HashRowsAreOps ==
  ASSUME RowsRecorded, NEW k \in DOMAIN rows, rows[k].kind = "Poseidon"
  PROVE  IsOp(rows[k].felts, 1)
<1>1. Recorded(rows[k])
  BY DEF RowsRecorded
<1>2. rows[k].kind \notin OfNumbers
  BY DEF OfNumbers
<1>3. rows[k].felts \in Seq(Int) /\ Len(rows[k].felts) = N_STATE + 1 /\ rows[k].felts[N_STATE + 1] = 1
  BY <1>1, <1>2 DEF Recorded
<1>4. QED
  BY <1>3, Sixteen DEF IsOp, Ints

(* The cells of a permutation that is left at one place are refused.       *)
LEMMA StrayedRefused ==
  ASSUME NEW op, IsOp(op, 1), NEW m \in 1 .. 22, NEW i \in 1 .. Width(m), NEW d \in 1 .. FieldOrder - 1
  PROVE  ~ Evaluate(Written(op, Strayed(InitialState(op), m, i, d))).holds
<1> DEFINE start == InitialState(op)
           t == Strayed(start, m, i, d)
           w == Written(op, t)
<1>1. start \in State
  BY InitialIsState
<1>2. m \in 1 .. N_ROUNDS /\ i \in 1 .. N_STATE /\ i \in 1 .. 16
  <2>1. Width(m) \in Nat /\ Width(m) <= 16
    BY ColumnsGrow
  <2>2. QED
    BY <2>1, Sixteen
<1>3. /\ t \in Seq(State) /\ Len(t) = 23 /\ t[1] = start
      /\ \A k \in 1 .. 22 : \A j \in 1 .. 16 :
           t[k + 1][j] = IF k = m /\ j = i THEN Plus(Round(t[k], k)[j], d) ELSE Round(t[k], k)[j]
  <2>1. t = Strayed(start, m, i, d)
    OBVIOUS
  <2> HIDE DEF start, t
  <2>2. Strays(t, start, m, i, d)
    BY <1>1, <1>2, <2>1, StrayedRuns
  <2>3. QED
    BY <2>2 DEF Strays
<1> HIDE DEF start, t
<1>4. op[N_STATE + 1] = 1 /\ 1 \in Int
  BY Sixteen DEF IsOp
<1>5. Instances(w, 1, t)
  <2>1. op[N_STATE + 1] \in Int
    BY <1>4
  <2>2. Instances(w, op[N_STATE + 1], t)
    BY <1>3, <2>1, WrittenCells
  <2>3. QED
    BY <1>4, <2>2
<1> HIDE DEF w
<1>6. ASSUME NEW k \in 1 .. 22
      PROVE  /\ Round(t[k], k) = [j \in 1 .. 16 |-> Round(t[k], k)[j]]
             /\ \A j \in 1 .. 16 : Round(t[k], k)[j] \in Element
  <2>1. t \in Seq(State) /\ Len(t) = 23
    BY <1>3
  <2>2. k \in 1 .. Len(t)
    BY <2>1
  <2>3. t[k] \in State
    BY <2>1, <2>2, CellsOf
  <2>4. k \in 1 .. N_ROUNDS
    BY Sixteen
  <2>5. Round(t[k], k) \in [1 .. N_STATE -> Element]
    BY <2>3, <2>4, RoundIsState
  <2>6. QED
    BY <2>5, Sixteen
<1>7. Faithful(t, m)
  <2>1. ASSUME NEW k \in 1 .. 22, k < m PROVE t[k + 1] = Round(t[k], k)
    <3> DEFINE u == t[k + 1]
               r == Round(t[k], k)
    <3>1. \A j \in 1 .. 16 : u[j] = r[j]
      <4>1. k # m
        BY <2>1
      <4>2. QED
        BY <1>3, <4>1
    <3>2. r = [j \in 1 .. 16 |-> r[j]]
      BY <1>6
    <3>3. u \in State
      <4>1. t \in Seq(State) /\ Len(t) = 23
        BY <1>3
      <4>2. k + 1 \in 1 .. Len(t)
        BY <4>1
      <4>3. QED
        BY <4>1, <4>2, CellsOf
    <3> HIDE DEF u, r
    <3>4. u = [j \in 1 .. 16 |-> u[j]]
      BY <3>3, StateIsNumbers
    <3>5. u = r
      BY <3>1, <3>2, <3>4
    <3>6. QED
      BY <3>5 DEF u, r
  <2>2. QED
    BY <2>1 DEF Faithful
<1>8. t[m + 1][i] # Round(t[m], m)[i]
  <2>1. t[m + 1][i] = Plus(Round(t[m], m)[i], d)
    BY <1>2, <1>3
  <2>2. Round(t[m], m)[i] \in Element
    BY <1>2, <1>6
  <2>3. QED
    BY <2>1, <2>2, PlusMoves
<1>9. 1 \in {0, 1}
  OBVIOUS
<1>10. ~ Evaluate(w).holds
  BY <1>3, <1>5, <1>7, <1>8, <1>9, StrayedFails
<1>11. QED
  BY <1>10 DEF start, t, w

(* In every trace of the program, the constraints of the poseidon component*)
(* refuse the cells of a recorded state whose permutation is left at one   *)
(* place, wherever it is (components/poseidon, PoseidonEval::evaluate).    *)
THEOREM HashesTrue == TablesSpec => []HashesAreTrue
<1>1. ASSUME RowsRecorded PROVE HashesAreTrue
  <2> SUFFICES ASSUME IsHashRow, Len(rows) = 1, NEW k \in 1 .. N_ROUNDS,
                      NEW i \in 1 .. (IF IsFull(k) THEN N_STATE ELSE 1), NEW d \in 1 .. FieldOrder - 1
               PROVE  ~ Evaluate(Written(rows[1].felts,
                                         Strayed(InitialState(rows[1].felts), k, i, d))).holds
    BY DEF HashesAreTrue
  <2>1. 1 \in DOMAIN rows
    <3>1. rows \in Seq([kind : OfNumbers \cup {"Poseidon"}, felts : Seq(Int)])
      BY <1>1 DEF RowsRecorded
    <3>2. QED
      BY <3>1
  <2>2. rows[1].kind = "Poseidon"
    BY <2>1 DEF IsHashRow, HashesOnly
  <2>3. IsOp(rows[1].felts, 1)
    BY <1>1, <2>1, <2>2, HashRowsAreOps
  <2>4. k \in 1 .. 22 /\ i \in 1 .. Width(k)
    BY Sixteen DEF Width
  <2> DEFINE op == rows[1].felts
  <2>5. IsOp(op, 1)
    BY <2>3
  <2> HIDE DEF op
  <2>6. ~ Evaluate(Written(op, Strayed(InitialState(op), k, i, d))).holds
    BY <2>4, <2>5, StrayedRefused
  <2>7. QED
    BY <2>6 DEF op
<1>2. QED
  BY <1>1, RecordedInvariant, PTL

\* The cells w of an instance prove the hash h of the state s.
Proves(w, s, h, real) ==
  /\ w \in InstanceCells /\ s \in State /\ h \in Seq(Ints) /\ Len(h) = 8
  /\ w[1] = real /\ Agree(w, 1, s, 16) /\ Agree(w, 143, h, 8)
  /\ SubSeq(w, 2, 17) = s
  /\ Evaluate(w).holds /\ SubSeq(Evaluate(w).state, 1, 8) = h

(* The instance of an operation satisfies the constraints and holds the    *)
(* hash of its initial state (src/hash.rs) in its columns.                 *)
LEMMA InstanceProves ==
  ASSUME NEW op, NEW real \in {0, 1}, IsOp(op, real)
  PROVE  Proves(Instance(op), InitialState(op), HashLeaf(InitialState(op)), real)
<1> DEFINE s == InitialState(op)
           t == States(s)
           w == Instance(op)
           h == HashLeaf(s)
           last == t[23]
<1>1. s \in State
  BY InitialIsState
<1>2. w = Written(op, t)
  BY DEF Instance
<1>3. h = SubSeq(last, 1, 8)
  BY Sixteen DEF HashLeaf, Permutation
<1> HIDE DEF s, w, h
<1>4. /\ t \in Seq(State) /\ Len(t) = 23 /\ t[1] = s
      /\ \A k \in 1 .. 22 : t[k + 1] = Round(t[k], k)
  <2>1. /\ t \in Seq(State) /\ Len(t) = N_ROUNDS + 1 /\ t[1] = s
        /\ \A k \in 1 .. N_ROUNDS : t[k + 1] = Round(t[k], k)
    BY <1>1, StatesRun
  <2>2. N_ROUNDS = 22
    BY Sixteen
  <2> HIDE DEF t
  <2>3. QED
    BY <2>1, <2>2
<1> HIDE DEF t
<1>5. Faithful(t, 23)
  BY <1>4 DEF Faithful
<1>6. Instances(w, real, t)
  <2>1. op[N_STATE + 1] = real /\ real \in Int
    BY Sixteen DEF IsOp
  <2>2. op[N_STATE + 1] \in Int
    BY <2>1
  <2>3. Instances(Written(op, t), op[N_STATE + 1], t)
    BY <1>4, <2>2, WrittenCells
  <2>4. QED
    BY <1>2, <2>1, <2>3
<1>7. w \in InstanceCells
  BY <1>6, InstanceIsCells
<1>8. w[1] = real /\ Agree(w, 1, s, 16)
  BY <1>4, <1>6 DEF Instances
<1>9. SubSeq(w, 2, 17) = s
  BY <1>4, <1>6, StartIsFirst
<1>10. Evaluate(w).holds /\ Evaluate(w).state = last
  BY <1>4, <1>5, <1>6, HonestHolds
<1>11. Agree(w, 143, last, 16)
  <2>1. 22 \in 1 .. 22 /\ 22 - 1 = 21 /\ 22 + 1 = 23
    OBVIOUS
  <2>2. Agree(w, Col(22 - 1), t[22 + 1], Width(22))
    BY <1>6, <2>1 DEF Instances
  <2>3. Col(21) = 143 /\ Width(22) = 16
    BY ColumnsOfRounds
  <2>4. QED
    BY <2>1, <2>2, <2>3
<1>12. last \in Seq(Ints) /\ Len(last) = 16
  <2>1. last \in State
    <3>1. 23 \in 1 .. Len(t)
      BY <1>4
    <3>2. QED
      BY <1>4, <3>1, CellsOf
  <2> HIDE DEF last
  <2>2. QED
    BY <2>1, StateIsSequence, Sixteen DEF Ints
<1> HIDE DEF last
<1>13. IsCut(h, Ints, last, 0, 8)
  <2>1. h = SubSeq(last, 0 + 1, 0 + 8) /\ 0 + 8 <= 16
    BY <1>3
  <2>2. QED
    BY <1>12, <2>1 DEF IsCut
<1>14. h \in Seq(Ints) /\ Len(h) = 8 /\ Agree(last, 0, h, 8)
  BY <1>13, CutIs
<1>15. Agree(w, 143, h, 8)
  <2>1. ASSUME NEW i \in 1 .. 8 PROVE w[143 + i] = h[i]
    <3>1. i \in 1 .. 16 /\ 0 + i = i
      OBVIOUS
    <3>2. w[143 + i] = last[i]
      BY <1>11, <3>1 DEF Agree
    <3>3. last[0 + i] = h[i]
      BY <1>14 DEF Agree
    <3>4. QED
      BY <3>1, <3>2, <3>3
  <2>2. QED
    BY <2>1 DEF Agree
<1>16. SubSeq(Evaluate(w).state, 1, 8) = h
  BY <1>3, <1>10
<1>17. Proves(w, s, h, real)
  BY <1>1, <1>7, <1>8, <1>9, <1>10, <1>14, <1>15, <1>16 DEF Proves
<1>18. QED
  BY <1>17 DEF s, w, h

-----------------------------------------------------------------------------
(* A row of the table                                                      *)

Instanced(r, ops, k) ==
  /\ r \in Seq(Ints) /\ Len(r) = 159 * k
  /\ \A j \in 1 .. k : Agree(r, 159 * (j - 1), Instance(ops[j]), 159)

(* A row with one instance more.                                           *)
LEMMA InstancedGrows ==
  ASSUME NEW ops, NEW k \in Nat \ {0}, NEW r, Instanced(r, ops, k - 1), Instance(ops[k]) \in InstanceCells
  PROVE  Instanced(r \o Instance(ops[k]), ops, k)
<1> DEFINE c == Instance(ops[k])
           q == r \o c
<1>1. r \in Seq(Ints) /\ Len(r) = 159 * (k - 1) /\ c \in Seq(Ints) /\ Len(c) = 159
  BY DEF Instanced, InstanceCells
<1> HIDE DEF c
<1>2. Joined(Ints, q, r, c)
  BY <1>1, TwoParts
<1> HIDE DEF q
<1> DEFINE l == 159 * (k - 1)
<1>3. l \in Nat /\ l + 159 = 159 * k
  OBVIOUS
<1>4. q \in Seq(Ints) /\ Len(q) = l + 159 /\ Agree(q, 0, r, l) /\ Agree(q, l, c, 159)
  BY <1>1, <1>2 DEF Joined
<1> HIDE DEF l
<1>5. ASSUME NEW j \in 1 .. k PROVE Agree(q, 159 * (j - 1), Instance(ops[j]), 159)
  <2>1. CASE j = k
    BY <1>4, <2>1 DEF c, l
  <2>2. CASE j # k
    <3>1. j \in 1 .. k - 1 /\ 159 * (j - 1) \in Nat /\ 159 * (j - 1) + 159 <= l
      BY <2>2 DEF l
    <3>2. Agree(r, 159 * (j - 1), Instance(ops[j]), 159)
      BY <3>1 DEF Instanced
    <3>3. 159 \in Nat
      OBVIOUS
    <3>4. QED
      BY <1>3, <1>4, <3>1, <3>2, <3>3, AgreeWithin
  <2>3. QED
    BY <2>1, <2>2
<1>6. QED
  BY <1>3, <1>4, <1>5 DEF Instanced, q, c

(* The row of `trace` is its instances, one after the other.               *)
LEMMA RowIsInstances ==
  ASSUME NEW ops, Len(ops) \in Nat, \A k \in 1 .. Len(ops) : Instance(ops[k]) \in InstanceCells
  PROVE  Instanced(MainRow(ops), ops, Len(ops))
<1> DEFINE n == Len(ops)
           Q == Seq(Ints)
           one(k) == Instance(ops[k])
           G == [k \in 0 .. n |-> {r \in Q : Instanced(r, ops, k)}]
           start == << >>
           step == [k \in 1 .. n |-> [r \in G[k - 1] |-> r \o one(k)]]
           Def(g) == g = [k \in 0 .. Len(ops) |-> IF k = 0 THEN << >> ELSE g[k - 1] \o Instance(ops[k])]
           f == CHOOSE g : Def(g)
<1>1. MainRow(ops) = f[n]
  BY DEF MainRow
<1>2. n \in Nat /\ 0 \in 0 .. n /\ n \in 0 .. n
      /\ \A k \in 1 .. n : k \in 0 .. n /\ k # 0 /\ k - 1 \in 0 .. n /\ k \in Nat \ {0}
  OBVIOUS
<1> HIDE DEF n
<1>3. ASSUME NEW k \in 0 .. n, NEW r
      PROVE  r \in G[k] <=> Instanced(r, ops, k)
  BY DEF Instanced
<1> HIDE DEF G
<1>4. start \in G[0]
  <2>1. Instanced(start, ops, 0)
    BY DEF Instanced
  <2>2. QED
    BY <1>2, <1>3, <2>1
<1>5. ASSUME NEW k \in 1 .. n, NEW r \in G[k - 1]
      PROVE  step[k][r] = r \o one(k) /\ step[k][r] \in G[k]
  <2>1. step[k][r] = r \o one(k)
    OBVIOUS
  <2>2. Instanced(r, ops, k - 1)
    BY <1>2, <1>3
  <2>3. Instance(ops[k]) \in InstanceCells
    BY DEF n
  <2>4. Instanced(r \o one(k), ops, k)
    BY <1>2, <2>2, <2>3, InstancedGrows
  <2>5. QED
    BY <1>2, <1>3, <2>1, <2>4
<1> HIDE DEF step, start, one
<1>6. Guides(n, G, start, step)
  BY <1>2, <1>4, <1>5 DEF Guides
<1>7. PICK g : g = [k \in 0 .. n |-> g[k]] /\ KeepsTo(g, n, G, start, step)
  BY <1>6, GuidedExists
<1>8. Def(g)
  <2>1. ASSUME NEW k \in 1 .. n PROVE g[k] = g[k - 1] \o one(k)
    <3>1. g[k - 1] \in G[k - 1] /\ g[k] = step[k][g[k - 1]]
      BY <1>2, <1>6, <1>7, Guided
    <3>2. QED
      BY <1>5, <3>1
  <2>2. \A k \in 0 .. n : k # 0 => k \in 1 .. n
    BY <1>2
  <2>3. g[0] = start
    BY <1>7 DEF KeepsTo
  <2>4. g = [k \in 0 .. n |-> IF k = 0 THEN start ELSE g[k - 1] \o one(k)]
    BY <1>7, <2>1, <2>2, <2>3
  <2>5. QED
    BY <2>4 DEF n, start, one
<1>9. Def(f)
  <2> HIDE DEF Def
  <2>1. QED
    BY <1>8
<1> HIDE DEF f
<1>10. ASSUME NEW k \in 0 .. n PROVE f[k] = IF k = 0 THEN start ELSE f[k - 1] \o one(k)
  BY <1>9 DEF n, start, one
<1> HIDE DEF Def
<1>11. f[0] = start /\ \A k \in 1 .. n : f[k] = f[k - 1] \o one(k)
  BY <1>2, <1>10
<1>12. ASSUME NEW k \in 1 .. n, f[k - 1] \in G[k - 1] PROVE f[k] = step[k][f[k - 1]]
  BY <1>5, <1>11, <1>12
<1>13. KeepsTo(f, n, G, start, step)
  BY <1>11, <1>12 DEF KeepsTo
<1>14. f[n] \in G[n]
  BY <1>2, <1>6, <1>13, Guided
<1>15. QED
  BY <1>1, <1>2, <1>3, <1>14 DEF n

\* The rows that the table is filled with prove theirs.
OpProves(k) ==
  Proves(Instance(Ops[k]), InitialState(Ops[k]), HashLeaf(InitialState(Ops[k])),
         IF k <= Len(rows) THEN 1 ELSE 0)

(* Recorded hashes and padding are operations whose instances prove them.  *)
LEMMA OpsProve ==
  ASSUME RowsRecorded, IsHashRow, NEW k \in 1 .. InstancesPerRow
  PROVE  OpProves(k)
<1> DEFINE op == Ops[k]
           real == IF k <= Len(rows) THEN 1 ELSE 0
<1>1. op = IF k <= Len(rows) THEN rows[k].felts ELSE PaddingOp
  BY DEF Ops
<1>2. k \in Nat \ {0} /\ real \in {0, 1}
  BY PoseidonAssumption
<1>3. IsOp(op, real)
  <2>1. CASE k <= Len(rows)
    <3>1. k \in DOMAIN rows
      <4>1. rows \in Seq([kind : OfNumbers \cup {"Poseidon"}, felts : Seq(Int)])
        BY DEF RowsRecorded
      <4>2. QED
        BY <1>2, <2>1, <4>1
    <3>2. IsOp(rows[k].felts, 1)
      BY <3>1, HashRowsAreOps DEF IsHashRow, HashesOnly
    <3>3. QED
      BY <1>1, <2>1, <3>2
  <2>2. CASE ~ (k <= Len(rows))
    <3>1. PaddingOp = [i \in 1 .. 17 |-> 0]
      BY Sixteen DEF PaddingOp
    <3>2. PaddingOp \in Seq(Int) /\ Len(PaddingOp) = 17 /\ PaddingOp[17] = 0
      BY <3>1
    <3>3. QED
      BY <1>1, <2>2, <3>2 DEF IsOp, Ints
  <2>3. QED
    BY <2>1, <2>2
<1> HIDE DEF op, real
<1>4. Proves(Instance(op), InitialState(op), HashLeaf(InitialState(op)), real)
  BY <1>2, <1>3, InstanceProves
<1>5. QED
  BY <1>4 DEF OpProves, op, real

(* A row has as many operations as it takes.                               *)
LEMMA LengthOfOps ==
  InstancesPerRow \in Nat /\ Len(Ops) = InstancesPerRow
<1>1. InstancesPerRow \in Nat
  BY PoseidonAssumption
<1>2. Ops \in [1 .. InstancesPerRow -> {Ops[k] : k \in 1 .. InstancesPerRow}]
  BY DEF Ops
<1>3. QED
  BY <1>1, <1>2

(* The row of the recorded hashes.                                         *)
LEMMA RowOfOps ==
  ASSUME RowsRecorded, IsHashRow, NEW row, row = MainRow(Ops)
  PROVE  Instanced(row, Ops, InstancesPerRow)
<1>1. ASSUME NEW k \in 1 .. InstancesPerRow PROVE Instance(Ops[k]) \in InstanceCells
  BY OpsProve DEF OpProves, Proves
<1>2. Len(Ops) \in Nat /\ \A k \in 1 .. Len(Ops) : Instance(Ops[k]) \in InstanceCells
  BY <1>1, LengthOfOps
<1>3. Instanced(MainRow(Ops), Ops, Len(Ops))
  BY <1>2, RowIsInstances
<1>4. QED
  BY <1>3, LengthOfOps

(* The constraints read instance k at its place in the row.                *)
LEMMA RepIsInstance ==
  ASSUME RowsRecorded, IsHashRow, NEW row, row = MainRow(Ops), NEW k \in 1 .. InstancesPerRow
  PROVE  Rep(row, k) = Instance(Ops[k])
<1> DEFINE w == Instance(Ops[k])
           s == Rep(row, k)
           l == 159 * (k - 1)
<1>1. row \in Seq(Ints) /\ Len(row) = 159 * InstancesPerRow /\ Agree(row, l, w, 159)
  <2>1. Instanced(row, Ops, InstancesPerRow)
    BY RowOfOps
  <2>2. QED
    BY <2>1 DEF Instanced
<1>2. w \in Seq(Ints) /\ Len(w) = 159
  BY OpsProve DEF OpProves, Proves, InstanceCells
<1>3. l \in Nat /\ l + 159 = 159 * k /\ l + 159 <= 159 * InstancesPerRow
  BY LengthOfOps
<1>4. s = SubSeq(row, 159 * (k - 1) + 1, 159 * k)
  BY Sixteen DEF Rep
<1>5. s = SubSeq(row, l + 1, l + 159)
  BY <1>3, <1>4
<1> HIDE DEF w, s, l
<1>6. IsCut(s, Ints, row, l, 159)
  BY <1>1, <1>3, <1>5 DEF IsCut
<1>7. s \in Seq(Ints) /\ Len(s) = 159 /\ Agree(row, l, s, 159)
  BY ONLY <1>6, CutIs
<1>8. \A j \in 1 .. 159 : s[j] = w[j]
  BY <1>1, <1>7, ZenonT(60) DEF Agree
<1>9. s = w
  <2>1. s = [j \in 1 .. 159 |-> s[j]]
    BY <1>7
  <2>2. w = [j \in 1 .. 159 |-> w[j]]
    BY <1>2
  <2>3. QED
    BY <1>8, <2>1, <2>2
<1>10. QED
  BY <1>9 DEF s, w

\* What an instance yields, from its constraints and by its columns.
YieldOf(k) ==
  Entry("poseidon", InitialState(Ops[k]) \o HashLeaf(InitialState(Ops[k])),
        IF k <= Len(rows) THEN -1 ELSE 0)

(* What the constraints of an instance yield.                              *)
LEMMA EntryOfInstance ==
  ASSUME RowsRecorded, IsHashRow, NEW row, row = MainRow(Ops), NEW k \in 1 .. InstancesPerRow
  PROVE  LET cells == Rep(row, k) IN
         Entry("poseidon", SubSeq(cells, 2, N_STATE + 1) \o SubSeq(Evaluate(cells).state, 1, N_HASH), -cells[1])
           = YieldOf(k)
<1> DEFINE w == Instance(Ops[k])
           s == InitialState(Ops[k])
           h == HashLeaf(s)
           real == IF k <= Len(rows) THEN 1 ELSE 0
<1>1. Rep(row, k) = w
  BY RepIsInstance
<1>2. Proves(w, s, h, real)
  BY OpsProve DEF OpProves
<1>3. N_STATE + 1 = 17 /\ N_HASH = 8
  BY Sixteen
<1>4. - real = IF k <= Len(rows) THEN -1 ELSE 0
  OBVIOUS
<1> HIDE DEF w, s, h, real
<1>5. SubSeq(w, 2, 17) = s /\ SubSeq(Evaluate(w).state, 1, 8) = h /\ w[1] = real
  BY <1>2 DEF Proves
<1>6. YieldOf(k) = Entry("poseidon", s \o h, - real)
  BY <1>4 DEF YieldOf, s, h
<1>7. QED
  BY <1>1, <1>3, <1>5, <1>6

(* What the interaction trace yields, by its own offsets.                  *)
LEMMA ColumnOfInstance ==
  ASSUME RowsRecorded, IsHashRow, NEW row, row = MainRow(Ops), NEW k \in 1 .. InstancesPerRow
  PROVE  LET At(column) == row[N_COLUMNS_PER_REP * (k - 1) + column + 1] IN
         Entry("poseidon",
               [i \in 1 .. N_STATE + N_HASH |->
                  IF i <= N_STATE THEN At(i) ELSE At(HashColumn + i - 1 - N_STATE)],
               - At(0))
           = YieldOf(k)
<1> DEFINE w == Instance(Ops[k])
           s == InitialState(Ops[k])
           h == HashLeaf(s)
           real == IF k <= Len(rows) THEN 1 ELSE 0
           l == 159 * (k - 1)
           At(column) == row[N_COLUMNS_PER_REP * (k - 1) + column + 1]
           x == [i \in 1 .. 24 |-> IF i <= 16 THEN At(i) ELSE At(HashColumn + i - 1 - N_STATE)]
           y == s \o h
<1>1. Proves(w, s, h, real)
  BY OpsProve DEF OpProves
<1>2. Agree(row, l, w, 159)
  <2>1. Instanced(row, Ops, InstancesPerRow)
    BY RowOfOps
  <2>2. QED
    BY <2>1 DEF Instanced
<1>3. - real = IF k <= Len(rows) THEN -1 ELSE 0
  OBVIOUS
<1>4. YieldOf(k) = Entry("poseidon", y, - real)
  BY <1>3 DEF YieldOf
<1>5. l \in Nat /\ \A column : At(column) = row[l + column + 1]
  BY Sixteen
<1> HIDE DEF w, s, h, real, l, At
<1>6. /\ w[1] = real /\ Agree(w, 1, s, 16) /\ Agree(w, 143, h, 8)
      /\ s \in Seq(Ints) /\ Len(s) = 16 /\ h \in Seq(Ints) /\ Len(h) = 8
  BY <1>1, StateIsSequence, Sixteen DEF Proves, Ints
<1>7. ASSUME NEW j \in 0 .. 158 PROVE At(j) = w[j + 1]
  <2>1. j + 1 \in 1 .. 159 /\ l + (j + 1) = l + j + 1
    BY <1>5
  <2>2. row[l + (j + 1)] = w[j + 1]
    BY <1>2, <2>1 DEF Agree
  <2>3. QED
    BY <1>5, <2>1, <2>2
<1>8. At(0) = real
  <2>1. 0 \in 0 .. 158 /\ 0 + 1 = 1
    OBVIOUS
  <2>2. QED
    BY <1>6, <1>7, <2>1
<1>9. y \in Seq(Ints) /\ Len(y) = 24 /\ Agree(y, 0, s, 16) /\ Agree(y, 16, h, 8)
  <2> HIDE DEF y
  <2>1. Joined(Ints, y, s, h)
    BY <1>6, TwoParts DEF y
  <2>2. QED
    BY <1>6, <2>1 DEF Joined
<1> HIDE DEF y
<1>10. ASSUME NEW i \in 1 .. 24
       PROVE  (IF i <= 16 THEN At(i) ELSE At(HashColumn + i - 1 - N_STATE)) = y[i]
  <2>1. CASE i <= 16
    <3>1. i \in 1 .. 16 /\ i \in 0 .. 158 /\ 0 + i = i /\ 1 + i = i + 1
      BY <2>1
    <3>2. At(i) = w[1 + i]
      BY <1>7, <3>1
    <3>3. w[1 + i] = s[i]
      BY <1>6, <3>1 DEF Agree
    <3>4. y[0 + i] = s[i]
      BY <1>9, <3>1 DEF Agree
    <3>5. QED
      BY <2>1, <3>1, <3>2, <3>3, <3>4
  <2>2. CASE ~ (i <= 16)
    <3> DEFINE j == i - 16
               m == HashColumn + i - 1 - N_STATE
    <3>1. j \in 1 .. 8 /\ 16 + j = i
      BY <2>2
    <3>2. m \in 0 .. 158 /\ m + 1 = 143 + j
      BY <2>2, Sixteen DEF HashColumn
    <3> HIDE DEF j, m
    <3>3. At(m) = w[143 + j]
      BY <1>7, <3>2
    <3>4. w[143 + j] = h[j]
      BY <1>6, <3>1 DEF Agree
    <3>5. y[16 + j] = h[j]
      BY <1>9, <3>1 DEF Agree
    <3>6. At(m) = y[i]
      BY <3>1, <3>3, <3>4, <3>5
    <3>7. QED
      BY <2>2, <3>6 DEF m
  <2>3. QED
    BY <2>1, <2>2
<1>11. x = y
  <2>1. y = [i \in 1 .. 24 |-> y[i]]
    BY <1>9
  <2>2. QED
    BY <1>10, <2>1
<1>12. N_STATE = 16 /\ N_STATE + N_HASH = 24
  BY Sixteen
<1>13. x = [i \in 1 .. N_STATE + N_HASH |-> IF i <= N_STATE THEN At(i) ELSE At(HashColumn + i - 1 - N_STATE)]
  BY <1>12
<1> HIDE DEF x
<1>14. Entry("poseidon", x, - At(0)) = YieldOf(k)
  BY <1>4, <1>8, <1>11
<1>15. QED
  BY <1>13, <1>14 DEF At

(* In every trace of the program, a row of the poseidon table satisfies the*)
(* constraints, yields each recorded state with the hash of src/hash.rs and*)
(* nothing for padding, in the entries of the constraints as in the columns*)
(* of the interaction trace (components/poseidon).                         *)
THEOREM YieldedHashes == TablesSpec => []HashesYielded
<1>1. ASSUME RowsRecorded PROVE HashesYielded
  <2> SUFFICES ASSUME IsHashRow, NEW row, row = MainRow(Ops)
               PROVE  /\ PoseidonHolds(row)
                      /\ PoseidonEntries(row) = [k \in 1 .. InstancesPerRow |-> YieldOf(k)]
                      /\ PoseidonColumns(row) = Unbatched(PoseidonEntries(row))
    BY DEF HashesYielded, YieldOf
  <2>1. PoseidonHolds(row)
    <3>1. ASSUME NEW k \in 1 .. InstancesPerRow PROVE Evaluate(Rep(row, k)).holds
      <4>1. Rep(row, k) = Instance(Ops[k])
        BY <1>1, RepIsInstance
      <4>2. Evaluate(Instance(Ops[k])).holds
        BY <1>1, OpsProve DEF OpProves, Proves
      <4>3. QED
        BY <4>1, <4>2
    <3>2. QED
      BY <3>1 DEF PoseidonHolds
  <2>2. PoseidonEntries(row) = [k \in 1 .. InstancesPerRow |-> YieldOf(k)]
    <3>1. \A k \in 1 .. InstancesPerRow :
            LET cells == Rep(row, k) IN
            Entry("poseidon", SubSeq(cells, 2, N_STATE + 1) \o SubSeq(Evaluate(cells).state, 1, N_HASH), -cells[1])
              = YieldOf(k)
      BY <1>1, EntryOfInstance
    <3>2. QED
      BY <3>1 DEF PoseidonEntries
  <2>3. PoseidonColumns(row) = [k \in 1 .. InstancesPerRow |-> {YieldOf(k)}]
    <3>1. \A k \in 1 .. InstancesPerRow :
            LET At(column) == row[N_COLUMNS_PER_REP * (k - 1) + column + 1] IN
            Entry("poseidon",
                  [i \in 1 .. N_STATE + N_HASH |->
                     IF i <= N_STATE THEN At(i) ELSE At(HashColumn + i - 1 - N_STATE)],
                  - At(0))
              = YieldOf(k)
      BY <1>1, ColumnOfInstance
    <3>2. QED
      BY <3>1 DEF PoseidonColumns
  <2>4. Unbatched(PoseidonEntries(row)) = [k \in 1 .. InstancesPerRow |-> {YieldOf(k)}]
    BY <2>2 DEF Unbatched
  <2>5. QED
    BY <2>1, <2>2, <2>3, <2>4
<1>2. QED
  BY <1>1, RecordedInvariant, PTL

-----------------------------------------------------------------------------
(* Every row of the table that is accepted                                *)

(* A run of checks that ends well has gone through the permutation.        *)
LEMMA AcceptedIsPermutation ==
  ASSUME NEW cells \in InstanceCells, Evaluate(cells).holds
  PROVE  /\ cells[1] \in {0, 1}
         /\ Evaluate(cells).state = Permutation(SubSeq(cells, 2, 17))
<1> DEFINE start == SubSeq(cells, 2, 17)
           t == States(start)
<1>1. PICK run : Checks(run, cells) /\ Evaluate(cells) = run[22]
  BY EvaluateRuns
<1>2. run[0].state = start /\ run[0].state \in State /\ (run[0].holds <=> cells[1] \in {0, 1})
  <2>1. 0 \in 0 .. 22
    OBVIOUS
  <2>2. run[0] \in Checking /\ run[0].state = SubSeq(cells, 2, 17)
    BY <1>1, <2>1 DEF Checks
  <2>3. run[0].holds <=> cells[1] \in {0, 1}
    BY <1>1 DEF Checks
  <2>4. QED
    BY <2>2, <2>3 DEF Checking
<1> HIDE DEF start
<1>3. /\ t \in Seq(State) /\ Len(t) = 23 /\ t[1] = start
      /\ \A k \in 1 .. 22 : t[k + 1] = Round(t[k], k)
  <2>1. /\ t \in Seq(State) /\ Len(t) = N_ROUNDS + 1 /\ t[1] = start
        /\ \A k \in 1 .. N_ROUNDS : t[k + 1] = Round(t[k], k)
    BY <1>2, StatesRun
  <2>2. N_ROUNDS = 22
    BY Sixteen
  <2> HIDE DEF t
  <2>3. QED
    BY <2>1, <2>2
<1>4. Permutation(start) = t[23]
  BY Sixteen DEF Permutation
<1> HIDE DEF t
\* Every round that holds goes on as the permutation does.
<1> DEFINE T == {k \in 0 .. 22 : run[k].holds => run[k].state = t[k + 1] /\ cells[1] \in {0, 1}}
<1>5. 0 \in T
  <2>1. 0 \in 0 .. 22 /\ 0 + 1 = 1
    OBVIOUS
  <2>2. QED
    BY <1>2, <1>3, <2>1
<1>6. ASSUME NEW j \in Nat, j < 22, j \in T PROVE j + 1 \in T
  <2> DEFINE k == j + 1
  <2>1. k \in 1 .. 22 /\ k \in 0 .. 22 /\ k - 1 = j /\ k \in 1 .. Len(t)
    BY <1>3, <1>6, SMTT(30)
  <2> HIDE DEF k
  <2>2. ASSUME run[k].holds PROVE run[k].state = t[k + 1] /\ cells[1] \in {0, 1}
    <3> DEFINE before == run[k - 1].state
               after == Round(before, k)
               c == Col(k - 1)
               n == Width(k)
    <3>1. /\ run[k].holds <=> run[k - 1].holds /\ Agree(cells, c, after, n)
          /\ run[k].state = [i \in 1 .. 16 |-> IF i <= n THEN cells[c + i] ELSE after[i]]
      BY <1>1, <2>1 DEF Checks
    <3>2. run[k - 1].holds /\ Agree(cells, c, after, n)
      BY <2>2, <3>1
    <3>3. before = t[k] /\ cells[1] \in {0, 1}
      BY <1>6, <2>1, <3>2
    <3>4. t[k] \in State
      BY <1>3, <2>1, CellsOf
    <3>5. after \in State
      BY <2>1, <3>3, <3>4, RoundIsState, Sixteen
    <3>6. n \in Nat
      BY <2>1, ColumnsGrow
    <3>7. after = t[k + 1]
      BY <1>3, <2>1, <3>3
    <3> HIDE DEF before, after, c, n
    <3>8. after = [i \in 1 .. 16 |-> after[i]]
      BY <3>5, StateIsNumbers
    <3>9. ASSUME NEW i \in 1 .. 16 PROVE (IF i <= n THEN cells[c + i] ELSE after[i]) = after[i]
      <4>1. i <= n => i \in 1 .. n
        BY <3>6
      <4>2. QED
        BY <3>2, <4>1 DEF Agree
    <3>10. run[k].state = after
      BY <3>1, <3>8, <3>9
    <3>11. QED
      BY <3>3, <3>7, <3>10
  <2>3. QED
    BY <2>1, <2>2 DEF k
<1> HIDE DEF T
<1>7. \A k \in 0 .. 22 : k \in T
  <2>1. 22 \in Nat
    OBVIOUS
  <2>2. QED
    BY <1>5, <1>6, <2>1, UpTo
<1>8. 22 \in T /\ 22 + 1 = 23
  BY <1>7
<1>9. run[22].state = t[23] /\ cells[1] \in {0, 1}
  BY <1>1, <1>8 DEF T
<1>10. QED
  BY <1>1, <1>4, <1>9 DEF start

(* Whatever a prover writes in a row of the poseidon table, when the       *)
(* constraints accept it then each of its instances yields, once or not at *)
(* all, its initial state with the hash of src/hash.rs and nothing else    *)
(* (components/poseidon, PoseidonEval::evaluate).                          *)
THEOREM OnlyHashesAreYielded ==
  ASSUME NEW row \in Seq(Int), Len(row) = N_COLUMNS_PER_REP * InstancesPerRow, PoseidonHolds(row),
         NEW rep \in 1 .. InstancesPerRow
  PROVE  LET state == SubSeq(Rep(row, rep), 2, N_STATE + 1) IN
         \E times \in {0, 1} :
           PoseidonEntries(row)[rep] = Entry("poseidon", state \o HashLeaf(state), - times)
<1> DEFINE s == Rep(row, rep)
           l == 159 * (rep - 1)
           state == SubSeq(s, 2, 17)
<1>1. l \in Nat /\ l + 159 = 159 * rep /\ l + 159 <= 159 * InstancesPerRow
  BY LengthOfOps
<1>2. N_STATE + 1 = 17 /\ N_HASH = 8
  BY Sixteen
<1>3. s = SubSeq(row, 159 * (rep - 1) + 1, 159 * rep)
  BY Sixteen DEF Rep
<1>4. s = SubSeq(row, l + 1, l + 159)
  BY <1>1, <1>3
<1>5. Evaluate(s).holds
  BY DEF PoseidonHolds
<1>6. PoseidonEntries(row)[rep]
        = Entry("poseidon", SubSeq(s, 2, 17) \o SubSeq(Evaluate(s).state, 1, 8), - s[1])
  BY <1>2 DEF PoseidonEntries
<1>7. row \in Seq(Ints) /\ Len(row) = 159 * InstancesPerRow
  BY Sixteen DEF Ints
<1> HIDE DEF s, l
<1>8. IsCut(s, Ints, row, l, 159)
  BY <1>1, <1>4, <1>7 DEF IsCut
<1>9. s \in Seq(Ints) /\ Len(s) = 159
  BY ONLY <1>8, CutIs
<1>10. s \in InstanceCells
  BY <1>9 DEF InstanceCells
<1>11. s[1] \in {0, 1} /\ Evaluate(s).state = Permutation(SubSeq(s, 2, 17))
  BY <1>5, <1>10, AcceptedIsPermutation
<1>12. SubSeq(Evaluate(s).state, 1, 8) = HashLeaf(state)
  BY <1>2, <1>11 DEF HashLeaf
<1>13. PoseidonEntries(row)[rep] = Entry("poseidon", state \o HashLeaf(state), - s[1])
  BY <1>6, <1>12
<1>14. QED
  BY <1>2, <1>11, <1>13 DEF s, state

=============================================================================
