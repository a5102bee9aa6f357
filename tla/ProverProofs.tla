---------------------------- MODULE ProverProofs ----------------------------
(***************************************************************************)
(* What a proof claims, that it verifies, and when none is made: for every *)
(* height of the trees, every width of the SIMD vectors and every session. *)
(***************************************************************************)
EXTENDS Prover, CommonProofs

(* A session has recorded as many instructions as the book has changed     *)
(* state since the trace began.                                            *)
SessionType ==
  /\ book \in [resting : [Sides -> Int], aggressor : Sides \cup {"none"}, n : Int]
  /\ trace \in [lens : [Tables -> Int], from : Int, initial : Int, final : Int]

Counted == trace.lens["Processor"] = book.n - trace.from

(* The claim of the main stage is taken from the trace, which is not empty.*)
Claimed ==
  stage = "main" =>
    /\ proof.claim.initial = trace.initial /\ proof.claim.final = trace.final
    /\ book.n # trace.from

(* Once the sum has been checked the claim is the recorded run.            *)
Recorded ==
  stage = "interaction" => proof.claim.initial = trace.from /\ proof.claim.final = book.n

ProofParts == DOMAIN proof = {"trees", "claim", "interaction"}

ClaimsInv == SessionType /\ ProofParts /\ Counted /\ Claimed /\ Recorded /\ ClaimsAreRecorded

-----------------------------------------------------------------------------
Operations ==
  {"Insertion", "MatchAggressive", "MatchPassive", "PartialMatchAggressive", "PartialMatchPassive"}

LEMMA ProcessorIsTable == "Processor" \in Tables
<1>1. 5 \in DOMAIN Arithmetic /\ Arithmetic[5] = "Processor"
  BY DEF Arithmetic
<1>2. QED
  BY <1>1 DEF Tables, Range

LEMMA ArithmeticApart == \A op \in Operations, s \in Sides : TableOf[op][s] # "Processor"
BY DEF Operations, Sides, TableOf

(* add_instruction: one row of the processor table per instruction.        *)
LEMMA ProcessorRow ==
  ASSUME NEW op \in Operations, NEW s \in Sides
  PROVE  RowsAdded(op, s, "Processor") = 1
BY ArithmeticApart DEF RowsAdded

LEMMA RowsAddedType ==
  ASSUME NEW op, NEW s, NEW t
  PROVE  RowsAdded(op, s, t) \in Int
<1>1. 3 * (Height + 1) \in Int /\ 4 * (Height + 1) \in Int
  BY TablesAssumption
<1>2. QED
  BY <1>1 DEF RowsAdded

LEMMA AddedType ==
  ASSUME NEW lens \in [Tables -> Int], NEW op \in Operations, NEW s \in Sides
  PROVE  /\ Added(lens, op, s) \in [Tables -> Int]
         /\ Added(lens, op, s)["Processor"] = lens["Processor"] + 1
<1>1. \A t \in Tables : lens[t] + RowsAdded(op, s, t) \in Int
  BY RowsAddedType
<1>2. QED
  BY <1>1, ProcessorIsTable, ProcessorRow DEF Added

LEMMA NewTraceType ==
  ASSUME NEW n \in Int, NEW initial \in Int
  PROVE  /\ NewTrace(n, initial) \in [lens : [Tables -> Int], from : Int, initial : Int, final : Int]
         /\ NewTrace(n, initial).lens["Processor"] = 0
         /\ NewTrace(n, initial).from = n
BY ProcessorIsTable DEF NewTrace, NoRows, NoState

-----------------------------------------------------------------------------
LEMMA InitClaims == Init => ClaimsInv
<1> SUFFICES ASSUME Init PROVE ClaimsInv
  OBVIOUS
<1>1. /\ NewTrace(0, 0) \in [lens : [Tables -> Int], from : Int, initial : Int, final : Int]
      /\ NewTrace(0, 0).lens["Processor"] = 0 /\ NewTrace(0, 0).from = 0
  BY NewTraceType, 0 \in Int
<1>2. book \in [resting : [Sides -> Int], aggressor : Sides \cup {"none"}, n : Int] /\ book.n = 0
  BY DEF Init
<1>3. ProofParts
  BY DEF Init, NoProof, ProofParts
<1>4. QED
  BY <1>1, <1>2, <1>3 DEF Init, ClaimsInv, SessionType, Counted, Claimed, Recorded, ClaimsAreRecorded

LEMMA PlaceOrderClaims ==
  ASSUME ClaimsInv, NEW s \in Sides, PlaceOrder(s)
  PROVE  ClaimsInv'
<1>1. trace.lens \in [Tables -> Int] /\ "Insertion" \in Operations
  BY DEF ClaimsInv, SessionType, Operations
<1>2. /\ Added(trace.lens, "Insertion", s) \in [Tables -> Int]
      /\ Added(trace.lens, "Insertion", s)["Processor"] = trace.lens["Processor"] + 1
  BY <1>1, AddedType
<1>3. /\ book'.n = book.n + 1 /\ trace'.from = trace.from
      /\ trace'.lens = Added(trace.lens, "Insertion", s)
      /\ stage' = "recording" /\ proof' = proof
  BY DEF PlaceOrder, ClaimsInv, SessionType
<1>4. SessionType'
  BY <1>2 DEF PlaceOrder, ClaimsInv, SessionType
<1>5. trace.lens["Processor"] = book.n - trace.from /\ book.n \in Int /\ trace.from \in Int
  BY DEF ClaimsInv, SessionType, Counted
<1>6. Counted'
  BY <1>2, <1>3, <1>5 DEF Counted
<1>7. QED
  BY <1>3, <1>4, <1>6 DEF ClaimsInv, ProofParts, Claimed, Recorded, ClaimsAreRecorded

LEMMA TradeClaims ==
  ASSUME ClaimsInv, NEW own \in Operations, NEW other \in Operations, Trade(own, other)
  PROVE  ClaimsInv'
<1> DEFINE s == book.aggressor
           first == Added(trace.lens, own, s)
           lens == Added(first, other, Opposite(s))
<1>1. s \in Sides /\ Opposite(s) \in Sides /\ trace.lens \in [Tables -> Int]
  BY DEF Trade, Opposite, Sides, ClaimsInv, SessionType
<1>2. first \in [Tables -> Int] /\ first["Processor"] = trace.lens["Processor"] + 1
  BY <1>1, AddedType
<1>3. lens \in [Tables -> Int] /\ lens["Processor"] = first["Processor"] + 1
  BY <1>1, <1>2, AddedType
<1> HIDE DEF first
<1>4. /\ book'.n = book.n + 2 /\ trace'.from = trace.from /\ trace'.lens = lens
      /\ stage' = "recording" /\ proof' = proof
  BY DEF Trade, ClaimsInv, SessionType, first
<1>5. SessionType'
  <2>1. trace' \in [lens : [Tables -> Int], from : Int, initial : Int, final : Int]
    BY <1>3 DEF Trade, ClaimsInv, SessionType, first
  <2>2. book' \in [resting : [Sides -> Int], aggressor : Sides \cup {"none"}, n : Int]
    BY <1>1 DEF Trade, ClaimsInv, SessionType
  <2>3. QED
    BY <2>1, <2>2 DEF SessionType
<1>6. /\ trace.lens["Processor"] = book.n - trace.from
      /\ book.n \in Int /\ trace.from \in Int /\ trace.lens["Processor"] \in Int
  BY ProcessorIsTable DEF ClaimsInv, SessionType, Counted
<1> HIDE DEF lens
<1>7. Counted'
  BY <1>2, <1>3, <1>4, <1>6 DEF Counted
<1>8. QED
  BY <1>4, <1>5, <1>7 DEF ClaimsInv, ProofParts, Claimed, Recorded, ClaimsAreRecorded

LEMMA ExchangeClaims ==
  ASSUME ClaimsInv, Exchange
  PROVE  ClaimsInv'
<1>1. PICK initial \in {NoState, book.n} : trace' = NewTrace(book.n, initial)
  BY DEF Exchange
<1>2. book.n \in Int /\ initial \in Int
  BY <1>1 DEF ClaimsInv, SessionType, NoState
<1>3. /\ trace' \in [lens : [Tables -> Int], from : Int, initial : Int, final : Int]
      /\ trace'.lens["Processor"] = 0 /\ trace'.from = book.n
  BY <1>1, <1>2, NewTraceType
<1>4. book' \in [resting : [Sides -> Int], aggressor : Sides \cup {"none"}, n : Int]
      /\ book'.n = book.n
  BY DEF Exchange, ClaimsInv, SessionType
<1>5. QED
  BY <1>2, <1>3, <1>4 DEF Exchange, ClaimsInv, SessionType, ProofParts, Counted, Claimed, Recorded, ClaimsAreRecorded

LEMMA CommitPreprocessedClaims ==
  ASSUME ClaimsInv, CommitPreprocessed
  PROVE  ClaimsInv'
<1>1. PICK final \in {NoState, book.n} : trace' = [trace EXCEPT !.final = final]
  BY DEF CommitPreprocessed
<1>2. final \in Int
  BY <1>1 DEF ClaimsInv, SessionType, NoState
<1>3. SessionType' /\ trace'.lens = trace.lens /\ trace'.from = trace.from /\ book' = book
  BY <1>1, <1>2 DEF CommitPreprocessed, ClaimsInv, SessionType
<1>4. stage' \in {"preprocessed", "panic"}
  BY DEF CommitPreprocessed, Fail
<1>5. ProofParts'
  BY DEF CommitPreprocessed, Fail, ClaimsInv, ProofParts
<1>6. QED
  BY <1>3, <1>4, <1>5 DEF ClaimsInv, Counted, Claimed, Recorded, ClaimsAreRecorded

(* No rows, no proof: `trace` of the processor component fails.            *)
LEMMA CommitMainClaims ==
  ASSUME ClaimsInv, CommitMain
  PROVE  ClaimsInv'
<1>1. SessionType' /\ Counted' /\ trace' = trace /\ book' = book
  BY DEF CommitMain, sessionVars, ClaimsInv, SessionType, Counted
<1>2. CASE stage' = "panic" /\ proof' = proof
  BY <1>1, <1>2 DEF ClaimsInv, ProofParts, Claimed, Recorded, ClaimsAreRecorded
<1>3. ASSUME NEW tree, NEW logs, stage' = "main",
             \A t \in Tables : Traceable(t, trace.lens[t]),
             proof' = [proof EXCEPT !.trees = Append(@, tree),
                                    !.claim = [initial |-> trace.initial, final |-> trace.final,
                                               logs    |-> logs]]
      PROVE  ClaimsInv'
  <2>1. RowsOf("Processor", trace.lens["Processor"]) > 1
    BY <1>3, ProcessorIsTable DEF Traceable
  <2>2. book.n # trace.from
    BY <2>1 DEF ClaimsInv, SessionType, Counted, RowsOf
  <2>3. ProofParts' /\ proof'.claim.initial = trace.initial /\ proof'.claim.final = trace.final
    BY <1>3 DEF ClaimsInv, ProofParts
  <2>4. QED
    BY <1>1, <1>3, <2>2, <2>3 DEF ClaimsInv, Claimed, Recorded, ClaimsAreRecorded
<1>4. QED
  BY <1>2, <1>3 DEF CommitMain, Fail

(* With the trace not empty, the sum is zero only if the states agree one  *)
(* by one.                                                                 *)
LEMMA CommitInteractionClaims ==
  ASSUME ClaimsInv, CommitInteraction
  PROVE  ClaimsInv'
<1>1. SessionType' /\ Counted' /\ trace' = trace /\ book' = book
  BY DEF CommitInteraction, sessionVars, ClaimsInv, SessionType, Counted
<1> DEFINE sum == LogupSumIsZero([from |-> trace.from, to |-> book.n], proof.claim)
<1>2. /\ proof.claim.initial = trace.initial /\ proof.claim.final = trace.final
      /\ book.n # trace.from
  BY DEF CommitInteraction, ClaimsInv, Claimed
<1>3. sum <=> trace.initial = trace.from /\ trace.final = book.n
  BY <1>2 DEF LogupSumIsZero
<1> HIDE DEF sum
<1>4. CASE ~ sum /\ stage' = "InvalidLogupSum" /\ proof' = proof
  BY <1>1, <1>3, <1>4 DEF ClaimsInv, ProofParts, Claimed, Recorded, ClaimsAreRecorded
<1>5. CASE stage' = "panic" /\ proof' = proof
  BY <1>1, <1>5 DEF ClaimsInv, ProofParts, Claimed, Recorded, ClaimsAreRecorded
<1>6. ASSUME NEW tree, NEW interaction, sum, stage' = "interaction",
             proof' = [proof EXCEPT !.trees = Append(@, tree), !.interaction = interaction]
      PROVE  ClaimsInv'
  <2>1. ProofParts' /\ proof'.claim = proof.claim
    BY <1>6 DEF ClaimsInv, ProofParts
  <2>2. QED
    BY <1>1, <1>2, <1>3, <1>6, <2>1 DEF ClaimsInv, Claimed, Recorded, ClaimsAreRecorded
<1>7. QED
  BY <1>4, <1>5, <1>6 DEF CommitInteraction, Fail, sum

LEMMA LaterClaims ==
  ASSUME ClaimsInv, Prove \/ Verify
  PROVE  ClaimsInv'
<1>1. /\ SessionType' /\ ProofParts' /\ Counted'
      /\ trace' = trace /\ book' = book /\ proof' = proof
  BY DEF Prove, Verify, sessionVars, ClaimsInv, SessionType, ProofParts, Counted
<1>2. stage = "interaction" \/ stage = "proved"
  BY DEF Prove, Verify
<1>3. stage' \in {"panic", "Stark", "proved", "verified", "rejected"}
  BY DEF Prove, Verify
<1>4. QED
  BY <1>1, <1>2, <1>3 DEF ClaimsInv, Claimed, Recorded, ClaimsAreRecorded

-----------------------------------------------------------------------------
LEMMA StepClaims == ClaimsInv /\ [Next]_vars => ClaimsInv'
<1> SUFFICES ASSUME ClaimsInv, [Next]_vars PROVE ClaimsInv'
  OBVIOUS
<1>1. CASE \E s \in Sides : PlaceOrder(s)
  BY <1>1, PlaceOrderClaims
<1>2. CASE TradeBoth \/ TradeAggressor \/ TradePassive
  BY <1>2, TradeClaims DEF TradeBoth, TradeAggressor, TradePassive, Operations
<1>3. CASE Exchange
  BY <1>3, ExchangeClaims
<1>4. CASE CommitPreprocessed
  BY <1>4, CommitPreprocessedClaims
<1>5. CASE CommitMain
  BY <1>5, CommitMainClaims
<1>6. CASE CommitInteraction
  BY <1>6, CommitInteractionClaims
<1>7. CASE Prove \/ Verify
  BY <1>7, LaterClaims
<1>8. CASE UNCHANGED vars
  BY <1>8 DEF vars, ClaimsInv, SessionType, ProofParts, Counted, Claimed, Recorded, ClaimsAreRecorded
<1>9. QED
  BY <1>1, <1>2, <1>3, <1>4, <1>5, <1>6, <1>7, <1>8 DEF Next

(* A proof claims exactly the states that the recorded instructions run    *)
(* between (prove_vex, VexInteractionClaim::logup_sum): the check of the   *)
(* sum suffices, since a table of instructions that can be traced is not   *)
(* empty, and a sum that is not zero is always the client's mistake.       *)
THEOREM ClaimsRecorded == ProverSpec => []ClaimsAreRecorded
<1>1. Init => ClaimsInv
  BY InitClaims
<1>2. ClaimsInv /\ [Next]_vars => ClaimsInv'
  BY StepClaims
<1>3. ClaimsInv => ClaimsAreRecorded
  BY DEF ClaimsInv
<1>4. QED
  BY <1>1, <1>2, <1>3, PTL DEF ProverSpec

-----------------------------------------------------------------------------
(* Logarithms                                                              *)

LEMMA Log2Is ==
  ASSUME NEW n \in Nat, NEW k \in Nat, 2^k <= n, n < 2^(k + 1)
  PROVE  Log2(n) = k
<1>1. k \in 0 .. n
  BY PowerPositive
<1>2. ASSUME NEW j \in 0 .. n, 2^j <= n, n < 2^(j + 1) PROVE j = k
  <2>1. /\ 2^j \in Nat /\ 2^(j + 1) \in Nat /\ 2^k \in Nat /\ 2^(k + 1) \in Nat
        /\ j \in Nat /\ j + 1 \in Nat /\ k + 1 \in Nat
    BY PowerPositive
  <2>2. ~ (k + 1 < j) /\ ~ (j + 1 < k)
    BY <1>2, <2>1, PowerMonotonic
  <2>3. k + 1 # j /\ j + 1 # k
    BY <1>2, <2>1
  <2>4. QED
    BY <2>1, <2>2, <2>3
<1> DEFINE P(j) == 2^j <= n /\ n < 2^(j + 1)
<1>3. P(k) /\ \A j \in 0 .. n : P(j) => j = k
  BY <1>2
<1> HIDE DEF P
<1>4. (CHOOSE j \in 0 .. n : P(j)) = k
  BY <1>1, <1>3
<1>5. QED
  BY <1>4 DEF Log2, P

LEMMA Log2Exists ==
  ASSUME NEW n \in Nat \ {0}
  PROVE  \E k \in Nat : Log2(n) = k /\ 2^k <= n /\ n < 2^(k + 1)
<1> DEFINE S == {j \in Nat : n < 2^(j + 1)}
<1>1. n - 1 \in S
  BY PowerPositive
<1>2. PICK k \in S : \A j \in S : k <= j
  BY <1>1, LeastNatural
<1>3. 2^k <= n
  <2>1. CASE k = 0
    BY <2>1, PowerZero
  <2>2. CASE k # 0
    <3>1. k - 1 \in Nat /\ (k - 1) + 1 = k /\ k - 1 \notin S
      BY <2>2, <1>2
    <3>2. 2^k \in Nat
      BY PowerPositive
    <3>3. QED
      BY <3>1, <3>2
  <2>3. QED
    BY <2>1, <2>2
<1>4. Log2(n) = k
  BY <1>3, Log2Is
<1>5. QED
  BY <1>3, <1>4

LEMMA CeilLog2Is ==
  ASSUME NEW n \in Nat, n > 1, NEW c \in Nat \ {0}, 2^(c - 1) < n, n <= 2^c
  PROVE  CeilLog2(n) = c
<1>1. c - 1 \in Nat /\ (c - 1) + 1 = c /\ n - 1 \in Nat
  OBVIOUS
<1>2. 2^(c - 1) \in Nat /\ 2^c \in Nat
  BY <1>1, PowerPositive
<1>3. 2^(c - 1) <= n - 1 /\ n - 1 < 2^((c - 1) + 1)
  BY <1>1, <1>2
<1>4. Log2(n - 1) = c - 1
  BY <1>1, <1>3, Log2Is
<1>5. QED
  BY <1>4 DEF CeilLog2

LEMMA CeilLog2Exists ==
  ASSUME NEW n \in Nat, n > 1
  PROVE  /\ CeilLog2(n) \in Nat \ {0}
         /\ 2^(CeilLog2(n) - 1) \in Nat /\ 2^CeilLog2(n) \in Nat
         /\ 2^(CeilLog2(n) - 1) < n /\ n <= 2^CeilLog2(n)
<1>1. n - 1 \in Nat \ {0}
  OBVIOUS
<1>2. PICK k \in Nat : Log2(n - 1) = k /\ 2^k <= n - 1 /\ n - 1 < 2^(k + 1)
  BY <1>1, Log2Exists
<1>3. CeilLog2(n) = k + 1 /\ k + 1 \in Nat \ {0} /\ CeilLog2(n) - 1 = k
  BY <1>2 DEF CeilLog2
<1>4. 2^k \in Nat /\ 2^(k + 1) \in Nat
  BY PowerPositive
<1>5. QED
  BY <1>2, <1>3, <1>4

LEMMA CeilLog2Monotonic ==
  ASSUME NEW m \in Nat, m > 1, NEW n \in Nat, m <= n
  PROVE  CeilLog2(m) <= CeilLog2(n)
<1> DEFINE c == CeilLog2(m)
           d == CeilLog2(n)
<1>1. c \in Nat \ {0} /\ 2^(c - 1) \in Nat /\ 2^(c - 1) < m
  BY CeilLog2Exists
<1>2. d \in Nat \ {0} /\ 2^d \in Nat /\ n <= 2^d
  BY CeilLog2Exists
<1> HIDE DEF c, d
<1> SUFFICES ASSUME d < c PROVE FALSE
  BY <1>1, <1>2 DEF c, d
<1>3. d \in Nat /\ c - 1 \in Nat /\ (d = c - 1 \/ d < c - 1)
  BY <1>1, <1>2
<1>4. 2^d <= 2^(c - 1)
  BY <1>1, <1>2, <1>3, PowerMonotonic
<1>5. QED
  BY <1>1, <1>2, <1>4

LEMMA CeilLog2Above ==
  ASSUME NEW k \in Nat, NEW n \in Nat, 2^k < n
  PROVE  n > 1 /\ CeilLog2(n) >= k + 1
<1>1. 2^k \in Nat /\ 2^k > 0
  BY PowerPositive
<1>2. n > 1
  BY <1>1
<1> DEFINE c == CeilLog2(n)
<1>3. c \in Nat \ {0} /\ 2^c \in Nat /\ n <= 2^c
  BY <1>2, CeilLog2Exists
<1> HIDE DEF c
<1>4. ~ (c < k) /\ c # k
  BY <1>1, <1>3, PowerMonotonic
<1>5. c >= k + 1
  BY <1>3, <1>4
<1>6. QED
  BY <1>2, <1>5 DEF c

LEMMA CeilLog2OfPower ==
  ASSUME NEW k \in Nat \ {0}
  PROVE  2^k \in Nat /\ 2^k > 1 /\ CeilLog2(2^k) = k
<1>1. k - 1 \in Nat /\ k - 1 < k
  OBVIOUS
<1>2. 2^k \in Nat /\ 2^(k - 1) < 2^k /\ k < 2^k
  BY <1>1, PowerPositive, PowerMonotonic
<1>3. 2^k > 1
  BY <1>2
<1>4. CeilLog2(2^k) = k
  BY <1>2, <1>3, CeilLog2Is
<1>5. QED
  BY <1>2, <1>3, <1>4

-----------------------------------------------------------------------------
(* The sizes of the tables                                                 *)

LEMMA TheTables ==
  Tables =
       {"Poseidon", "StrictLessThan", "LessThan", "Addition", "Processor",
        "InsertBuyOrder", "InsertSellOrder",
        "MatchAggressiveBuy", "MatchAggressiveSell", "MatchPassiveBuy", "MatchPassiveSell",
        "PartialMatchAggressiveBuy", "PartialMatchAggressiveSell",
        "PartialMatchPassiveBuy", "PartialMatchPassiveSell"}
<1>1. \A t : t \in Range(Arithmetic) <=>
             t \in {"Poseidon", "StrictLessThan", "LessThan", "Addition", "Processor"}
  BY DEF Range, Arithmetic
<1>2. \A t : t \in Range(Instructions) <=>
             t \in {"InsertBuyOrder", "InsertSellOrder", "MatchAggressiveBuy", "MatchAggressiveSell",
                    "MatchPassiveBuy", "MatchPassiveSell",
                    "PartialMatchAggressiveBuy", "PartialMatchAggressiveSell",
                    "PartialMatchPassiveBuy", "PartialMatchPassiveSell"}
  BY DEF Range, Instructions
<1>3. QED
  BY <1>1, <1>2 DEF Tables

LEMMA IntervalBounded ==
  ASSUME NEW n \in Nat, NEW f \in [1 .. n -> Nat]
  PROVE  \E b \in Nat : \A i \in 1 .. n : f[i] <= b
<1> DEFINE T == {k \in Nat : \E b \in Nat : \A i \in 1 .. n : i <= k => f[i] <= b}
<1>1. 0 \in T
  OBVIOUS
<1>2. ASSUME NEW k \in Nat, k < n, k \in T PROVE k + 1 \in T
  <2>1. PICK b \in Nat : \A i \in 1 .. n : i <= k => f[i] <= b
    BY <1>2
  <2>2. f[k + 1] \in Nat
    BY <1>2
  <2>3. \E c \in Nat : \A i \in 1 .. n : i <= k + 1 => f[i] <= c
    <3>1. b + f[k + 1] \in Nat /\ \A i \in 1 .. n : i <= k + 1 => f[i] <= b + f[k + 1]
      BY <2>1, <2>2
    <3>2. QED
      BY <3>1
  <2>4. QED
    BY <2>3
<1> HIDE DEF T
<1>3. \A k \in 0 .. n : k \in T
  BY <1>1, <1>2, UpTo
<1>4. n \in T
  BY <1>3
<1>5. QED
  BY <1>4 DEF T

LEMMA LargestIs ==
  ASSUME NEW S \in SUBSET Int, NEW m \in S, \A y \in S : y <= m
  PROVE  Max(S) = m
<1>1. \A x \in S : (\A y \in S : x >= y) => x = m
  BY SMT
<1>2. \A y \in S : m >= y
  BY SMT
<1>3. QED
  BY <1>1, <1>2 DEF Max

LEMMA LargestOf ==
  ASSUME NEW S \in SUBSET Nat, S # {}, NEW b \in Nat, \A y \in S : y <= b
  PROVE  Max(S) \in S /\ \A y \in S : y <= Max(S)
<1> DEFINE T == {b - y : y \in S}
<1>1. T \in SUBSET Nat /\ T # {}
  <2>1. \A y \in S : b - y \in Nat
    OBVIOUS
  <2>2. QED
    BY <2>1
<1>2. PICK d \in T : \A e \in T : d <= e
  BY <1>1, LeastNatural
<1>3. PICK m \in S : d = b - m
  BY <1>2
<1>4. ASSUME NEW y \in S PROVE y <= m
  <2>1. b - y \in T /\ y \in Nat /\ m \in Nat
    OBVIOUS
  <2>2. b - m <= b - y
    BY <1>2, <1>3, <2>1
  <2>3. QED
    BY <2>1, <2>2
<1>5. Max(S) = m
  <2>1. S \in SUBSET Int
    OBVIOUS
  <2>2. QED
    BY <2>1, <1>4, LargestIs
<1>6. QED
  BY <1>4, <1>5

LEMMA LargerOfTwo ==
  ASSUME NEW a \in Nat, NEW b \in Nat
  PROVE  Max({a, b}) = IF a < b THEN b ELSE a
<1>1. {a, b} \in SUBSET Int
  OBVIOUS
<1>2. CASE a < b
  <2>1. b \in {a, b} /\ \A y \in {a, b} : y <= b
    BY <1>2
  <2>2. QED
    BY <1>1, <1>2, <2>1, LargestIs
<1>3. CASE ~ (a < b)
  <2>1. a \in {a, b} /\ \A y \in {a, b} : y <= a
    BY <1>3
  <2>2. QED
    BY <1>1, <1>3, <2>1, LargestIs
<1>4. QED
  BY <1>2, <1>3

LEMMA LanesArePower ==
  /\ Lanes \in Nat /\ Lanes > 1 /\ CeilLog2(Lanes) = LogLanes
  /\ Lanes \div 2 = 2^(LogLanes - 1) /\ Lanes = 2 * (Lanes \div 2) /\ Lanes \div 2 \in Nat \ {0}
<1>1. Lanes \in Nat /\ Lanes > 1 /\ CeilLog2(Lanes) = LogLanes
  BY TablesAssumption, CeilLog2OfPower DEF Lanes
<1>2. LogLanes - 1 \in Nat /\ (LogLanes - 1) + 1 = LogLanes
  BY TablesAssumption
<1>3. 2^LogLanes = 2 * 2^(LogLanes - 1) /\ 2^(LogLanes - 1) \in Nat
  BY <1>2, PowerDouble, PowerPositive
<1>4. QED
  BY <1>1, <1>3 DEF Lanes

LEMMA RowsAreNatural ==
  ASSUME NEW t, NEW len \in Nat
  PROVE  RowsOf(t, len) \in Nat /\ RowsOf(t, len) <= len
<1>1. len \div InstancesPerRow \in Nat /\ len \div InstancesPerRow <= len
  BY TablesAssumption
<1>2. QED
  BY <1>1 DEF RowsOf

(* The is_first column of a table that can be traced has its size.         *)
LEMMA SizeOfTraceable ==
  ASSUME NEW t, NEW len \in Nat, Traceable(t, len)
  PROVE  LogSize(t, len) = TraceLogSize(t, len) /\ TraceLogSize(t, len) \in Nat
<1> DEFINE rows == RowsOf(t, len)
<1>1. rows \in Nat /\ rows > 1 /\ CeilLog2(rows) >= LogLanes
  BY RowsAreNatural DEF Traceable
<1>2. Lanes \in Nat /\ Lanes > 1 /\ CeilLog2(Lanes) = LogLanes
  BY LanesArePower
<1>3. Max({rows, Lanes}) = IF rows < Lanes THEN Lanes ELSE rows
  BY <1>1, <1>2, LargerOfTwo
<1>4. LogSize(t, len) = CeilLog2(Max({rows, Lanes}))
  BY DEF LogSize, Lanes
<1> HIDE DEF rows
<1>5. CeilLog2(rows) \in Nat
  BY <1>1, CeilLog2Exists
<1>6. rows < Lanes => CeilLog2(rows) <= CeilLog2(Lanes)
  BY <1>1, <1>2, CeilLog2Monotonic
<1>7. LogLanes \in Nat
  BY TablesAssumption
<1>8. LogSize(t, len) = CeilLog2(rows)
  BY <1>1, <1>2, <1>3, <1>4, <1>5, <1>6, <1>7
<1>9. QED
  BY <1>5, <1>8 DEF TraceLogSize, rows

(* A session in which no table is short: every table has more rows than    *)
(* half a vector has lanes.                                                *)
Long(lens) == \A t \in Tables : lens[t] \in Nat /\ RowsOf(t, lens[t]) > Lanes \div 2

LEMMA LargestTable ==
  ASSUME NEW lens, Long(lens)
  PROVE  /\ MaxLogSize(lens) \in Nat /\ BytesLogSize <= MaxLogSize(lens)
         /\ \A t \in Tables : CeilLog2(RowsOf(t, lens[t])) <= MaxLogSize(lens)
<1> DEFINE Rows(t) == RowsOf(t, lens[t])
           S == {Rows(t) : t \in Tables} \cup {2^BytesLogSize}
<1>1. \A t \in Tables : Rows(t) \in Nat
  BY RowsAreNatural DEF Long
<1>2. \A t \in Tables : Rows(t) > 1
  BY <1>1, LanesArePower DEF Long
<1>3. BytesLogSize \in Nat /\ 2^BytesLogSize \in Nat
  BY TablesAssumption, PowerPositive
<1> HIDE DEF Rows
<1>4. \E b \in Nat : 2^BytesLogSize <= b /\ \A t \in Tables : Rows(t) <= b
  <2> DEFINE f == [i \in 1 .. 5 |-> Rows(Arithmetic[i])]
             g == [i \in 1 .. 10 |-> Rows(Instructions[i])]
  <2>1. /\ \A i \in 1 .. 5 : Arithmetic[i] \in Tables
        /\ \A i \in 1 .. 10 : Instructions[i] \in Tables
        /\ \A t \in Tables : \/ \E i \in 1 .. 5 : t = Arithmetic[i]
                            \/ \E i \in 1 .. 10 : t = Instructions[i]
    BY DEF Tables, Range, Arithmetic, Instructions
  <2>2. f \in [1 .. 5 -> Nat] /\ g \in [1 .. 10 -> Nat]
    BY <1>1, <2>1
  <2>3. PICK b \in Nat : \A i \in 1 .. 5 : f[i] <= b
    BY <2>2, IntervalBounded
  <2>4. PICK c \in Nat : \A i \in 1 .. 10 : g[i] <= c
    BY <2>2, IntervalBounded
  <2>5. \A t \in Tables : Rows(t) <= b \/ Rows(t) <= c
    BY <2>1, <2>3, <2>4
  <2> DEFINE d == b + c + 2^BytesLogSize
  <2>6. d \in Nat /\ b <= d /\ c <= d /\ 2^BytesLogSize <= d
    BY <1>3
  <2> HIDE DEF d, f, g
  <2>7. ASSUME NEW t \in Tables PROVE Rows(t) <= d
    BY <1>1, <2>5, <2>6
  <2>8. QED
    BY <2>6, <2>7
<1>5. PICK b \in Nat : 2^BytesLogSize <= b /\ \A t \in Tables : Rows(t) <= b
  BY <1>4
<1>6. S \in SUBSET Nat /\ S # {} /\ 2^BytesLogSize \in S /\ \A t \in Tables : Rows(t) \in S
  BY <1>1, <1>3
<1>7. \A y \in S : y <= b
  BY <1>5
<1> HIDE DEF S
<1>8. Max(S) \in S /\ \A y \in S : y <= Max(S)
  BY <1>6, <1>7, LargestOf
<1>9. MaxLogSize(lens) = CeilLog2(Max(S))
  BY DEF MaxLogSize, S, Rows
<1>10. Max(S) \in Nat /\ \A t \in Tables : Rows(t) <= Max(S)
  BY <1>6, <1>8
<1>11. Max(S) > 1
  <2>1. "Processor" \in Tables
    BY TheTables
  <2>2. Rows("Processor") \in Nat /\ Rows("Processor") > 1 /\ Rows("Processor") <= Max(S)
    BY <2>1, <1>1, <1>2, <1>10
  <2>3. QED
    BY <2>2, <1>10
<1>12. CeilLog2(Max(S)) \in Nat
  BY <1>10, <1>11, CeilLog2Exists
<1>13. \A t \in Tables : CeilLog2(Rows(t)) <= CeilLog2(Max(S))
  BY <1>1, <1>2, <1>10, CeilLog2Monotonic
<1>14. BytesLogSize <= CeilLog2(Max(S))
  <2>1. CASE BytesLogSize = 0
    BY <2>1, <1>12
  <2>2. CASE BytesLogSize # 0
    <3>1. 2^BytesLogSize > 1 /\ CeilLog2(2^BytesLogSize) = BytesLogSize
      BY <1>3, <2>2, CeilLog2OfPower
    <3>2. 2^BytesLogSize <= Max(S)
      BY <1>6, <1>8
    <3>3. QED
      BY <3>1, <3>2, <1>3, <1>10, CeilLog2Monotonic
  <2>3. QED
    BY <2>1, <2>2
<1>15. QED
  BY <1>9, <1>12, <1>13, <1>14 DEF Rows

(* Of a long table the size is a vector at least, and only an overhang     *)
(* keeps it from being traced.                                             *)
LEMMA LongTable ==
  ASSUME NEW lens, Long(lens), NEW t \in Tables
  PROVE  /\ TraceLogSize(t, lens[t]) \in Nat
         /\ LogSize(t, lens[t]) = TraceLogSize(t, lens[t])
         /\ Traceable(t, lens[t]) \/ (t = "Poseidon" /\ Overhang(lens["Poseidon"]))
<1> DEFINE len  == lens[t]
           rows == RowsOf(t, len)
           c    == CeilLog2(rows)
<1>1. len \in Nat /\ rows \in Nat /\ rows > 2^(LogLanes - 1)
      /\ LogLanes - 1 \in Nat /\ LogLanes \in Nat
  BY RowsAreNatural, LanesArePower, TablesAssumption DEF Long
<1> HIDE DEF rows
<1>2. rows > 1 /\ c >= (LogLanes - 1) + 1
  BY <1>1, CeilLog2Above
<1>3. c \in Nat \ {0} /\ 2^c \in Nat /\ rows <= 2^c
  BY <1>1, <1>2, CeilLog2Exists
<1>4. c >= LogLanes
  BY <1>1, <1>2, <1>3
<1>5. LogSize(t, len) = c
  <2>1. LogSize(t, len) = CeilLog2(Max({rows, Lanes}))
    BY DEF LogSize, Lanes, rows
  <2>2. Lanes \in Nat /\ Lanes > 1 /\ CeilLog2(Lanes) = LogLanes
    BY LanesArePower
  <2>3. Max({rows, Lanes}) = IF rows < Lanes THEN Lanes ELSE rows
    BY <1>1, <2>2, LargerOfTwo
  <2>4. rows < Lanes => c <= LogLanes
    BY <1>1, <1>2, <2>2, CeilLog2Monotonic
  <2>5. QED
    BY <1>1, <1>3, <1>4, <2>1, <2>2, <2>3, <2>4
<1>6. ASSUME Padding(t, len) < 0 PROVE t = "Poseidon" /\ Overhang(len)
  <2>1. Padding(t, len) = 2^c * PerRow(t) - len
    BY DEF Padding, rows
  <2> HIDE DEF c
  <2>2. CASE t # "Poseidon"
    <3>1. rows = len /\ PerRow(t) = 1
      BY <2>2 DEF rows, RowsOf, PerRow
    <3>2. QED
      BY <3>1, <1>1, <1>3, <1>6, <2>1
  <2>3. CASE t = "Poseidon"
    <3>1. rows = len \div InstancesPerRow /\ PerRow(t) = InstancesPerRow
      BY <2>3 DEF rows, RowsOf, PerRow
    <3>2. InstancesPerRow \in Nat \ {0}
      BY TablesAssumption
    <3>3. len = rows * InstancesPerRow + (len % InstancesPerRow) /\ len % InstancesPerRow \in Nat
          /\ len % InstancesPerRow < InstancesPerRow
      BY <1>1, <3>1, <3>2
    <3>4. 2^c = rows
      <4> SUFFICES ASSUME rows + 1 <= 2^c PROVE FALSE
        BY <1>1, <1>3
      <4>1. (rows + 1) * InstancesPerRow <= 2^c * InstancesPerRow
        BY <1>1, <1>3, <3>2
      <4>2. (rows + 1) * InstancesPerRow = rows * InstancesPerRow + InstancesPerRow
        BY <1>1, <3>2
      <4>3. rows * InstancesPerRow \in Nat /\ 2^c * InstancesPerRow \in Nat
        BY <1>1, <1>3, <3>2
      <4>4. QED
        BY <1>1, <1>6, <2>1, <3>1, <3>2, <3>3, <4>1, <4>2, <4>3
    <3>5. len % InstancesPerRow # 0
      <4>1. rows * InstancesPerRow \in Nat
        BY <1>1, <3>2
      <4>2. QED
        BY <1>1, <1>6, <2>1, <3>1, <3>2, <3>3, <3>4, <4>1
    <3>6. Log2(rows) = c
      <4>1. c \in Nat /\ 2^(c + 1) = 2 * 2^c
        BY <1>3, PowerDouble
      <4>2. QED
        BY <4>1, <1>1, <1>2, <1>3, <3>4, Log2Is
    <3>7. QED
      BY <1>2, <2>3, <3>1, <3>4, <3>5, <3>6 DEF Overhang
  <2>4. QED
    BY <2>2, <2>3
<1>7. Padding(t, len) \in Int
  <2>1. PerRow(t) \in Nat
    BY TablesAssumption DEF PerRow
  <2>2. 2^c * PerRow(t) \in Nat
    BY <2>1, <1>3
  <2>3. QED
    BY <2>2, <1>1 DEF Padding, rows
<1>8. c = TraceLogSize(t, len)
  BY DEF TraceLogSize, rows
<1>9. RowsOf(t, len) > 1 /\ CeilLog2(RowsOf(t, len)) >= LogLanes
  BY <1>2, <1>4 DEF rows
<1>10. Padding(t, len) >= 0 \/ (t = "Poseidon" /\ Overhang(len))
  BY <1>6, <1>7
<1>11. Traceable(t, len) \/ (t = "Poseidon" /\ Overhang(len))
  BY <1>9, <1>10 DEF Traceable
<1>12. QED
  BY <1>3, <1>5, <1>8, <1>11

-----------------------------------------------------------------------------
(* What the instructions of a session add to the tables of operations      *)

(* The instructions of a kind, of both sides.                              *)
Count(op, lens) == lens[TableOf[op]["Buy"]] + lens[TableOf[op]["Sell"]]

Tallied(lens) ==
  /\ lens \in [Tables -> Nat]
  /\ lens["StrictLessThan"] = 3 * Count("Insertion", lens)
  /\ lens["LessThan"] = Count("Insertion", lens) + Count("MatchAggressive", lens)
                          + Count("PartialMatchAggressive", lens)
  /\ lens["Addition"] = Count("PartialMatchAggressive", lens) + Count("PartialMatchPassive", lens)
  /\ lens["Processor"] = Count("Insertion", lens)
                           + Count("MatchAggressive", lens) + Count("MatchPassive", lens)
                           + Count("PartialMatchAggressive", lens) + Count("PartialMatchPassive", lens)
  /\ lens["Poseidon"] =
       (Height + 1) * (4 * (Count("Insertion", lens)
                             + Count("MatchAggressive", lens) + Count("MatchPassive", lens))
                       + 3 * (Count("PartialMatchAggressive", lens)
                                + Count("PartialMatchPassive", lens)))

LEMMA CountAdded ==
  ASSUME NEW lens \in [Tables -> Nat], NEW op \in Operations, NEW s \in Sides, NEW k \in Operations
  PROVE  /\ Count(k, lens) \in Nat
         /\ Count(k, Added(lens, op, s)) = Count(k, lens) + (IF k = op THEN 1 ELSE 0)
<1>1. \A t \in Tables : Added(lens, op, s)[t] = lens[t] + RowsAdded(op, s, t)
  BY DEF Added
<1>2. TableOf[k]["Buy"] \in Tables /\ TableOf[k]["Sell"] \in Tables
  BY TheTables DEF TableOf, Operations
<1>3. ASSUME NEW z \in Sides
      PROVE  RowsAdded(op, s, TableOf[k][z]) = IF k = op /\ z = s THEN 1 ELSE 0
  BY <1>3 DEF RowsAdded, TableOf, Operations, Sides
<1>4. lens[TableOf[k]["Buy"]] \in Nat /\ lens[TableOf[k]["Sell"]] \in Nat
  BY <1>2
<1>5. /\ RowsAdded(op, s, TableOf[k]["Buy"]) = IF k = op /\ "Buy" = s THEN 1 ELSE 0
      /\ RowsAdded(op, s, TableOf[k]["Sell"]) = IF k = op /\ "Sell" = s THEN 1 ELSE 0
  BY <1>3 DEF Sides
<1>6. s = "Buy" \/ s = "Sell"
  BY DEF Sides
<1>7. QED
  BY <1>1, <1>2, <1>4, <1>5, <1>6 DEF Count

LEMMA OperationRows ==
  ASSUME NEW op \in Operations, NEW s \in Sides
  PROVE  /\ RowsAdded(op, s, "StrictLessThan") = IF op = "Insertion" THEN 3 ELSE 0
         /\ RowsAdded(op, s, "LessThan") =
              IF op \in {"Insertion", "MatchAggressive", "PartialMatchAggressive"} THEN 1 ELSE 0
         /\ RowsAdded(op, s, "Addition") =
              IF op \in {"PartialMatchAggressive", "PartialMatchPassive"} THEN 1 ELSE 0
         /\ RowsAdded(op, s, "Processor") = 1
         /\ RowsAdded(op, s, "Poseidon") =
              IF op \in {"PartialMatchAggressive", "PartialMatchPassive"}
              THEN 3 * (Height + 1) ELSE 4 * (Height + 1)
BY DEF RowsAdded, TableOf, Operations, Sides, Partial, Aggressive

LEMMA TalliedAfter ==
  ASSUME NEW lens, Tallied(lens), NEW op \in Operations, NEW s \in Sides
  PROVE  Tallied(Added(lens, op, s))
<1> DEFINE new == Added(lens, op, s)
           H == Height + 1
<1>1. lens \in [Tables -> Nat] /\ H \in Nat
  BY TablesAssumption DEF Tallied
<1>2. \A t \in Tables : new[t] = lens[t] + RowsAdded(op, s, t)
  BY DEF Added
<1>3. \A t : RowsAdded(op, s, t) \in Nat
  <2>1. 3 * (Height + 1) \in Nat /\ 4 * (Height + 1) \in Nat
    BY TablesAssumption
  <2>2. QED
    BY <2>1 DEF RowsAdded
<1>4. new \in [Tables -> Nat]
  <2>1. \A t \in Tables : lens[t] + RowsAdded(op, s, t) \in Nat
    BY <1>1, <1>3
  <2>2. QED
    BY <2>1 DEF Added
<1> DEFINE c(k) == Count(k, lens)
           d(k) == Count(k, new)
<1>5. \A k \in Operations : c(k) \in Nat /\ d(k) = c(k) + (IF k = op THEN 1 ELSE 0)
  BY <1>1, CountAdded
<1>6. /\ lens["StrictLessThan"] = 3 * c("Insertion")
      /\ lens["LessThan"] = c("Insertion") + c("MatchAggressive") + c("PartialMatchAggressive")
      /\ lens["Addition"] = c("PartialMatchAggressive") + c("PartialMatchPassive")
      /\ lens["Processor"] = c("Insertion") + c("MatchAggressive") + c("MatchPassive")
                               + c("PartialMatchAggressive") + c("PartialMatchPassive")
      /\ lens["Poseidon"] = H * (4 * (c("Insertion") + c("MatchAggressive") + c("MatchPassive"))
                                  + 3 * (c("PartialMatchAggressive") + c("PartialMatchPassive")))
  BY DEF Tallied
<1>7. /\ new["StrictLessThan"] = lens["StrictLessThan"] + RowsAdded(op, s, "StrictLessThan")
      /\ new["LessThan"] = lens["LessThan"] + RowsAdded(op, s, "LessThan")
      /\ new["Addition"] = lens["Addition"] + RowsAdded(op, s, "Addition")
      /\ new["Processor"] = lens["Processor"] + RowsAdded(op, s, "Processor")
      /\ new["Poseidon"] = lens["Poseidon"] + RowsAdded(op, s, "Poseidon")
  BY <1>2, TheTables
<1> HIDE DEF c, d, new
<1>8. /\ d("Insertion") = c("Insertion") + (IF op = "Insertion" THEN 1 ELSE 0)
      /\ d("MatchAggressive") = c("MatchAggressive") + (IF op = "MatchAggressive" THEN 1 ELSE 0)
      /\ d("MatchPassive") = c("MatchPassive") + (IF op = "MatchPassive" THEN 1 ELSE 0)
      /\ d("PartialMatchAggressive") =
           c("PartialMatchAggressive") + (IF op = "PartialMatchAggressive" THEN 1 ELSE 0)
      /\ d("PartialMatchPassive") =
           c("PartialMatchPassive") + (IF op = "PartialMatchPassive" THEN 1 ELSE 0)
  BY <1>5 DEF Operations
<1>9. /\ c("Insertion") \in Nat /\ c("MatchAggressive") \in Nat /\ c("MatchPassive") \in Nat
      /\ c("PartialMatchAggressive") \in Nat /\ c("PartialMatchPassive") \in Nat
  BY <1>5 DEF Operations
<1>10. op \in {"Insertion", "MatchAggressive", "MatchPassive", "PartialMatchAggressive",
               "PartialMatchPassive"}
  BY DEF Operations
<1>11. new["StrictLessThan"] = 3 * d("Insertion")
  BY <1>6, <1>7, <1>8, <1>9, OperationRows
<1>12. new["LessThan"] = d("Insertion") + d("MatchAggressive") + d("PartialMatchAggressive")
  BY <1>6, <1>7, <1>8, <1>9, <1>10, OperationRows
<1>13. new["Addition"] = d("PartialMatchAggressive") + d("PartialMatchPassive")
  BY <1>6, <1>7, <1>8, <1>9, <1>10, OperationRows
<1>14. new["Processor"] = d("Insertion") + d("MatchAggressive") + d("MatchPassive")
                            + d("PartialMatchAggressive") + d("PartialMatchPassive")
  BY <1>6, <1>7, <1>8, <1>9, <1>10, OperationRows
<1> DEFINE full == c("Insertion") + c("MatchAggressive") + c("MatchPassive")
           part == c("PartialMatchAggressive") + c("PartialMatchPassive")
           full2 == d("Insertion") + d("MatchAggressive") + d("MatchPassive")
           part2 == d("PartialMatchAggressive") + d("PartialMatchPassive")
<1>15. CASE op \in {"PartialMatchAggressive", "PartialMatchPassive"}
  <2>1. full2 = full /\ part2 = part + 1 /\ full \in Nat /\ part \in Nat
    BY <1>8, <1>9, <1>15
  <2>2. new["Poseidon"] = H * (4 * full + 3 * part) + 3 * H
    BY <1>6, <1>7, <1>15, OperationRows
  <2> HIDE DEF full, part, full2, part2, H
  <2>3. H * (4 * full + 3 * part) + 3 * H = H * (4 * full + 3 * (part + 1))
    BY <1>1, <2>1
  <2>4. new["Poseidon"] = H * (4 * full2 + 3 * part2)
    BY <2>1, <2>2, <2>3
  <2>5. QED
    BY <2>4, <1>4, <1>11, <1>12, <1>13, <1>14 DEF Tallied, d, full2, part2, H, new
<1>16. CASE op \notin {"PartialMatchAggressive", "PartialMatchPassive"}
  <2>1. full2 = full + 1 /\ part2 = part /\ full \in Nat /\ part \in Nat
    BY <1>8, <1>9, <1>10, <1>16
  <2>2. new["Poseidon"] = H * (4 * full + 3 * part) + 4 * H
    BY <1>6, <1>7, <1>16, OperationRows
  <2> HIDE DEF full, part, full2, part2, H
  <2>3. H * (4 * full + 3 * part) + 4 * H = H * (4 * (full + 1) + 3 * part)
    BY <1>1, <2>1
  <2>4. new["Poseidon"] = H * (4 * full2 + 3 * part2)
    BY <2>1, <2>2, <2>3
  <2>5. QED
    BY <2>4, <1>4, <1>11, <1>12, <1>13, <1>14 DEF Tallied, d, full2, part2, H, new
<1>17. QED
  BY <1>15, <1>16

(* Where no instruction is rare, no operation is either.                   *)
LEMMA NothingRare ==
  ASSUME NEW lens, Tallied(lens), ~ ShortTable(lens)
  PROVE  Long(lens)
<1> DEFINE L == Lanes \div 2
           H == Height + 1
           c(k) == Count(k, lens)
<1>1. L \in Nat \ {0} /\ H \in Nat \ {0} /\ InstancesPerRow \in Nat \ {0} /\ InstancesPerRow <= 36 * H
  BY LanesArePower, TablesAssumption, InstancesAssumption
<1>2. \A t \in Tables : lens[t] \in Nat
  BY DEF Tallied
<1>3. \A i \in 1 .. 10 : lens[Instructions[i]] > L
  <2>1. \A i \in 1 .. 10 : i \in DOMAIN Instructions /\ Instructions[i] \in Tables
    BY TheTables DEF Instructions
  <2>2. QED
    BY <1>1, <1>2, <2>1 DEF ShortTable
<1> HIDE DEF L
<1>4. \A t \in {"InsertBuyOrder", "InsertSellOrder", "MatchAggressiveBuy", "MatchAggressiveSell",
                "MatchPassiveBuy", "MatchPassiveSell",
                "PartialMatchAggressiveBuy", "PartialMatchAggressiveSell",
                "PartialMatchPassiveBuy", "PartialMatchPassiveSell"} : lens[t] > L
  <2>1. /\ lens[Instructions[1]] > L /\ lens[Instructions[2]] > L /\ lens[Instructions[3]] > L
        /\ lens[Instructions[4]] > L /\ lens[Instructions[5]] > L /\ lens[Instructions[6]] > L
        /\ lens[Instructions[7]] > L /\ lens[Instructions[8]] > L /\ lens[Instructions[9]] > L
        /\ lens[Instructions[10]] > L
    BY <1>3
  <2>2. QED
    BY <2>1 DEF Instructions
<1>5. \A k \in Operations : c(k) \in Nat /\ c(k) >= 2 * (L + 1)
  <2> SUFFICES ASSUME NEW k \in Operations PROVE c(k) \in Nat /\ c(k) >= 2 * (L + 1)
    OBVIOUS
  <2> DEFINE p == lens[TableOf[k]["Buy"]]
             q == lens[TableOf[k]["Sell"]]
  <2>1. p > L /\ q > L
    BY <1>4 DEF TableOf, Operations
  <2>2. TableOf[k]["Buy"] \in Tables /\ TableOf[k]["Sell"] \in Tables
    BY TheTables DEF TableOf, Operations
  <2>3. p \in Nat /\ q \in Nat
    BY <1>2, <2>2
  <2>4. c(k) = p + q
    BY DEF Count
  <2> HIDE DEF p, q
  <2>5. QED
    BY <1>1, <2>1, <2>3, <2>4
<1>6. /\ lens["StrictLessThan"] = 3 * c("Insertion")
      /\ lens["LessThan"] = c("Insertion") + c("MatchAggressive") + c("PartialMatchAggressive")
      /\ lens["Addition"] = c("PartialMatchAggressive") + c("PartialMatchPassive")
      /\ lens["Processor"] = c("Insertion") + c("MatchAggressive") + c("MatchPassive")
                               + c("PartialMatchAggressive") + c("PartialMatchPassive")
      /\ lens["Poseidon"] = H * (4 * (c("Insertion") + c("MatchAggressive") + c("MatchPassive"))
                                  + 3 * (c("PartialMatchAggressive") + c("PartialMatchPassive")))
  BY DEF Tallied
<1>7. /\ c("Insertion") \in Nat /\ c("MatchAggressive") \in Nat /\ c("MatchPassive") \in Nat
      /\ c("PartialMatchAggressive") \in Nat /\ c("PartialMatchPassive") \in Nat
      /\ c("Insertion") >= 2 * (L + 1) /\ c("MatchAggressive") >= 2 * (L + 1)
      /\ c("MatchPassive") >= 2 * (L + 1) /\ c("PartialMatchAggressive") >= 2 * (L + 1)
      /\ c("PartialMatchPassive") >= 2 * (L + 1)
  BY <1>5 DEF Operations
<1> HIDE DEF c
<1>8. /\ lens["StrictLessThan"] > L /\ lens["LessThan"] > L /\ lens["Addition"] > L
      /\ lens["Processor"] > L
  BY <1>1, <1>6, <1>7
<1>9. lens["Poseidon"] \div InstancesPerRow > L
  <2> DEFINE full == c("Insertion") + c("MatchAggressive") + c("MatchPassive")
             part == c("PartialMatchAggressive") + c("PartialMatchPassive")
             paths == 4 * full + 3 * part
  <2>1. full \in Nat /\ part \in Nat /\ paths \in Nat /\ paths >= 36 * (L + 1)
    BY <1>1, <1>7
  <2>2. lens["Poseidon"] = H * paths
    BY <1>6
  <2> HIDE DEF full, part, paths, H
  <2>3. H * paths >= H * (36 * (L + 1))
    BY <1>1, <2>1
  <2>4. H * (36 * (L + 1)) = (36 * H) * (L + 1)
    BY <1>1
  <2>5. (36 * H) * (L + 1) >= InstancesPerRow * (L + 1)
    BY <1>1
  <2>6. H * paths \in Nat /\ InstancesPerRow * (L + 1) \in Nat /\ (36 * H) * (L + 1) \in Nat
    BY <1>1, <2>1
  <2>7. H * paths >= InstancesPerRow * (L + 1)
    BY <2>3, <2>4, <2>5, <2>6
  <2>8. \A n \in Nat : n >= InstancesPerRow * (L + 1) => n \div InstancesPerRow > L
    <3> SUFFICES ASSUME NEW n \in Nat, n >= InstancesPerRow * (L + 1), n \div InstancesPerRow <= L
                 PROVE  FALSE
      BY <1>1
    <3>1. /\ n \div InstancesPerRow \in Nat /\ n % InstancesPerRow \in Nat
          /\ n % InstancesPerRow < InstancesPerRow
          /\ n = InstancesPerRow * (n \div InstancesPerRow) + (n % InstancesPerRow)
      BY <1>1
    <3>2. InstancesPerRow * (n \div InstancesPerRow) <= InstancesPerRow * L
      BY <1>1, <3>1
    <3>3. InstancesPerRow * (L + 1) = InstancesPerRow * L + InstancesPerRow
      BY <1>1
    <3>4. InstancesPerRow * L \in Nat
      BY <1>1
    <3>5. QED
      BY <1>1, <3>1, <3>2, <3>3, <3>4
  <2>9. QED
    BY <2>2, <2>6, <2>7, <2>8
<1>10. \A t \in Tables : RowsOf(t, lens[t]) > L
  BY <1>4, <1>8, <1>9, TheTables DEF RowsOf
<1>11. QED
  BY <1>2, <1>10 DEF Long, L

-----------------------------------------------------------------------------
(* What is committed, stage by stage                                       *)

SizedTree(order, logs) == [i \in DOMAIN order |-> [owner |-> order[i], log |-> logs[order[i]]]]

MainTree(p)        == SizedTree(MainOrder, p.claim.logs)
InteractionTree(p) == SizedTree(InteractionOrder, p.claim.logs)

Committed ==
  /\ Tallied(trace.lens)
  /\ stage = "recording" => proof.trees = <<>> /\ channel = <<>>
  /\ stage = "preprocessed" =>
       /\ proof.trees = <<PreprocessedTree(trace.lens)>>
       /\ channel = <<<<"root", PreprocessedTree(trace.lens)>>>>
  /\ stage \in {"main", "interaction", "proved"} =>
       /\ \A t \in Tables : Traceable(t, trace.lens[t])
       /\ proof.claim.logs = [t \in Range(MainOrder) |-> ClaimLog(trace.lens, t)]
  /\ stage = "main" =>
       /\ proof.trees = <<PreprocessedTree(trace.lens), MainTree(proof)>>
       /\ channel = <<<<"root", PreprocessedTree(trace.lens)>>>> \o MixedClaim(proof.claim)
                      \o <<<<"root", MainTree(proof)>>, <<"draw", "elements">>>>
  /\ stage \in {"interaction", "proved"} =>
       /\ proof.trees = <<PreprocessedTree(trace.lens), MainTree(proof), InteractionTree(proof)>>
       /\ channel = Replay(proof)
       /\ LogupSumIsZero(proof.interaction, proof.claim)

TreesInv == ProofParts /\ Committed /\ ProofsVerify /\ PanicsOnlyOnTables

(* The m values of a, then the n values of b.                              *)
Follow(S, c, a, m, b, n) ==
  /\ c \in Seq(S) /\ Len(c) = m + n
  /\ \A i \in 1 .. m : c[i] = a[i]
  /\ \A i \in 1 .. n : c[m + i] = b[i]

LEMMA OneThenOther ==
  ASSUME NEW S, NEW a \in Seq(S), NEW b \in Seq(S)
  PROVE  Follow(S, a \o b, a, Len(a), b, Len(b))
<1> DEFINE c == a \o b
           m == Len(a)
           n == Len(b)
<1>1. /\ c \in Seq(S) /\ Len(c) = m + n
      /\ \A i \in 1 .. m + n : c[i] = IF i <= m THEN a[i] ELSE b[i - m]
  BY ConcatProperties
<1>2. m \in Nat /\ n \in Nat
  OBVIOUS
<1> HIDE DEF c, m, n
<1>3. ASSUME NEW i \in 1 .. m PROVE c[i] = a[i]
  BY <1>1, <1>2
<1>4. ASSUME NEW i \in 1 .. n PROVE c[m + i] = b[i]
  <2>1. m + i \in 1 .. m + n /\ ~ (m + i <= m) /\ (m + i) - m = i
    BY <1>2
  <2>2. QED
    BY <2>1, <1>1
<1>5. Follow(S, c, a, m, b, n)
  BY <1>1, <1>3, <1>4 DEF Follow
<1>6. QED
  BY <1>5 DEF c, m, n

LEMMA TheOrders ==
  /\ Range(MainOrder) = Tables \cup {"Bytes"}
  /\ MainOrder \in [1 .. 16 -> Tables \cup {"Bytes"}]
  /\ InteractionOrder = MainOrder /\ SizesOrder = MainOrder
  /\ AllocationOrder = MainOrder /\ ProversOrder = MainOrder
  /\ MainOrder[1] = "Bytes" /\ \A i \in 2 .. 16 : MainOrder[i] \in Tables
  /\ PreprocessedOrder \in [1 .. 15 -> Tables]
  /\ \A i \in 1 .. 15 : PreprocessedOrder[i] = MainOrder[i + 1]
<1> DEFINE S == Tables \cup {"Bytes"}
           B == <<"Bytes">>
           BA == B \o Arithmetic
<1>1. Arithmetic \in Seq(S) /\ Len(Arithmetic) = 5 /\ \A i \in 1 .. 5 : Arithmetic[i] \in Tables
  BY TheTables DEF Arithmetic
<1>2. Instructions \in Seq(S) /\ Len(Instructions) = 10 /\ \A i \in 1 .. 10 : Instructions[i] \in Tables
  BY TheTables DEF Instructions
<1>3. B \in Seq(S) /\ Len(B) = 1 /\ B[1] = "Bytes"
  OBVIOUS
<1>4. \A t \in Tables : \/ \E i \in 1 .. 5 : t = Arithmetic[i]
                       \/ \E i \in 1 .. 10 : t = Instructions[i]
  BY DEF Tables, Range, Arithmetic, Instructions
<1>5. PreprocessedOrder = Arithmetic \o Instructions /\ MainOrder = BA \o Instructions
  BY DEF PreprocessedOrder, MainOrder
<1>6. "Bytes" \notin Tables
  BY TheTables
<1> HIDE DEF S, B
<1>7. /\ BA \in Seq(S) /\ Len(BA) = 1 + 5
      /\ \A i \in 1 .. 1 : BA[i] = B[i]
      /\ \A i \in 1 .. 5 : BA[1 + i] = Arithmetic[i]
  <2>1. Follow(S, B \o Arithmetic, B, Len(B), Arithmetic, Len(Arithmetic))
    BY <1>1, <1>3, OneThenOther
  <2>2. Follow(S, BA, B, 1, Arithmetic, 5)
    BY <2>1, <1>1, <1>3
  <2> HIDE DEF BA
  <2>3. QED
    BY <2>2 DEF Follow
<1>8. /\ MainOrder \in Seq(S) /\ Len(MainOrder) = 6 + 10
      /\ \A i \in 1 .. 6 : MainOrder[i] = BA[i]
      /\ \A i \in 1 .. 10 : MainOrder[6 + i] = Instructions[i]
  <2> HIDE DEF BA
  <2>1. Len(BA) = 6
    BY <1>7
  <2>2. Follow(S, BA \o Instructions, BA, Len(BA), Instructions, Len(Instructions))
    BY <1>2, <1>7, OneThenOther
  <2>3. Follow(S, MainOrder, BA, 6, Instructions, 10)
    BY <2>1, <2>2, <1>2, <1>5
  <2>4. QED
    BY <2>3 DEF Follow
<1>9. /\ PreprocessedOrder \in Seq(S) /\ Len(PreprocessedOrder) = 5 + 10
      /\ \A i \in 1 .. 5 : PreprocessedOrder[i] = Arithmetic[i]
      /\ \A i \in 1 .. 10 : PreprocessedOrder[5 + i] = Instructions[i]
  <2>1. Follow(S, Arithmetic \o Instructions, Arithmetic, Len(Arithmetic), Instructions, Len(Instructions))
    BY <1>1, <1>2, OneThenOther
  <2>2. Follow(S, PreprocessedOrder, Arithmetic, 5, Instructions, 10)
    BY <2>1, <1>1, <1>2, <1>5
  <2>3. QED
    BY <2>2 DEF Follow
<1> HIDE DEF BA
<1>10. MainOrder[1] = "Bytes"
  BY <1>3, <1>7, <1>8
<1>11. ASSUME NEW i \in 1 .. 15 PROVE PreprocessedOrder[i] = MainOrder[i + 1]
  <2>1. CASE i <= 5
    <3>1. i \in 1 .. 5 /\ i + 1 = 1 + i /\ i + 1 \in 1 .. 6
      BY <2>1
    <3>2. QED
      BY <3>1, <1>7, <1>8, <1>9
  <2>2. CASE ~ (i <= 5)
    <3>1. i - 5 \in 1 .. 10 /\ i = 5 + (i - 5) /\ i + 1 = 6 + (i - 5)
      BY <2>2
    <3>2. PreprocessedOrder[5 + (i - 5)] = MainOrder[6 + (i - 5)]
      BY <3>1, <1>8, <1>9
    <3>3. QED
      BY <3>1, <3>2
  <2>3. QED
    BY <2>1, <2>2
<1>12. ASSUME NEW i \in 1 .. 15 PROVE PreprocessedOrder[i] \in Tables
  <2>1. i \in 1 .. 5 \/ (i - 5 \in 1 .. 10 /\ i = 5 + (i - 5))
    OBVIOUS
  <2>2. QED
    BY <2>1, <1>1, <1>2, <1>9
<1>13. ASSUME NEW i \in 2 .. 16 PROVE MainOrder[i] \in Tables
  <2>1. i - 1 \in 1 .. 15 /\ (i - 1) + 1 = i
    OBVIOUS
  <2>2. PreprocessedOrder[i - 1] = MainOrder[(i - 1) + 1]
    BY <2>1, <1>11
  <2>3. QED
    BY <2>1, <2>2, <1>12
<1>14. ASSUME NEW t \in Tables PROVE \E i \in 1 .. 16 : MainOrder[i] = t
  <2>1. \E i \in 1 .. 15 : PreprocessedOrder[i] = t
    <3>1. CASE \E i \in 1 .. 5 : t = Arithmetic[i]
      BY <3>1, <1>9
    <3>2. ASSUME NEW i \in 1 .. 10, t = Instructions[i] PROVE \E j \in 1 .. 15 : PreprocessedOrder[j] = t
      <4>1. 5 + i \in 1 .. 15
        OBVIOUS
      <4>2. PreprocessedOrder[5 + i] = t
        BY <3>2, <4>1, <1>9
      <4>3. QED
        BY <4>1, <4>2
    <3>3. QED
      BY <3>1, <3>2, <1>4
  <2>2. PICK i \in 1 .. 15 : PreprocessedOrder[i] = t
    BY <2>1
  <2>3. i + 1 \in 1 .. 16 /\ MainOrder[i + 1] = t
    BY <2>2, <1>11
  <2>4. QED
    BY <2>3
<1>15. DOMAIN MainOrder = 1 .. 16 /\ DOMAIN PreprocessedOrder = 1 .. 15
  BY <1>8, <1>9
<1>16. Range(MainOrder) = Tables \cup {"Bytes"}
  <2>1. \A i \in 1 .. 16 : MainOrder[i] \in Tables \cup {"Bytes"}
    BY <1>10, <1>13
  <2>2. QED
    BY <2>1, <1>10, <1>14, <1>15 DEF Range
<1>17. MainOrder \in [1 .. 16 -> Tables \cup {"Bytes"}]
  <2>1. Len(MainOrder) = 16
    BY <1>8
  <2>2. MainOrder \in [1 .. 16 -> S]
    BY <2>1, <1>8, LenProperties
  <2>3. QED
    BY <2>2 DEF S
<1>18. PreprocessedOrder \in [1 .. 15 -> Tables]
  <2>1. Len(PreprocessedOrder) = 15
    BY <1>9
  <2>2. PreprocessedOrder \in [1 .. 15 -> S]
    BY <2>1, <1>9, LenProperties
  <2>3. QED
    BY <2>2, <1>12
<1>19. /\ InteractionOrder = MainOrder /\ SizesOrder = MainOrder
       /\ AllocationOrder = MainOrder /\ ProversOrder = MainOrder
  BY DEF InteractionOrder, SizesOrder, AllocationOrder, ProversOrder, MainOrder
<1>20. QED
  BY <1>10, <1>11, <1>13, <1>16, <1>17, <1>18, <1>19

(* The columns committed ahead: one a table, in the order of the others.   *)
LEMMA PreprocessedColumns ==
  ASSUME NEW lens
  PROVE  /\ DOMAIN PreprocessedTree(lens) = 1 .. 16
         /\ \A i \in 1 .. 16 :
              /\ PreprocessedTree(lens)[i].owner = MainOrder[i]
              /\ PreprocessedTree(lens)[i].log =
                   IF i = 1 THEN BytesLogSize ELSE LogSize(MainOrder[i], lens[MainOrder[i]])
<1> DEFINE S == [owner : Tables \cup {"Bytes"}, log : {BytesLogSize} \cup {LogSize(t, lens[t]) : t \in Tables}]
           first == <<[owner |-> "Bytes", log |-> BytesLogSize]>>
           rest == [i \in 1 .. 15 |->
                      [owner |-> PreprocessedOrder[i],
                       log   |-> LogSize(PreprocessedOrder[i], lens[PreprocessedOrder[i]])]]
<1>1. DOMAIN PreprocessedOrder = 1 .. 15
  BY TheOrders
<1>2. PreprocessedTree(lens) = first \o rest
  BY <1>1 DEF PreprocessedTree, Columns
<1>3. first \in Seq(S) /\ Len(first) = 1 /\ first[1] = [owner |-> "Bytes", log |-> BytesLogSize]
  OBVIOUS
<1>4. rest \in [1 .. 15 -> S]
  BY TheOrders
<1>5. rest \in Seq(S) /\ Len(rest) = 15
  <2> HIDE DEF rest, S
  <2>1. rest \in Seq(S)
    BY <1>4, SeqDef
  <2>2. QED
    BY <1>4, <2>1
<1>6. \A i \in 1 .. 15 : rest[i] = [owner |-> PreprocessedOrder[i],
                                    log |-> LogSize(PreprocessedOrder[i], lens[PreprocessedOrder[i]])]
  OBVIOUS
<1> HIDE DEF first, rest, S
<1> DEFINE all == first \o rest
<1>7. /\ all \in Seq(S) /\ Len(all) = 16
      /\ \A i \in 1 .. 16 : all[i] = IF i <= 1 THEN first[i] ELSE rest[i - 1]
  <2>1. /\ all \in Seq(S) /\ Len(all) = Len(first) + Len(rest)
        /\ \A i \in 1 .. Len(first) + Len(rest) :
             all[i] = IF i <= Len(first) THEN first[i] ELSE rest[i - Len(first)]
    BY <1>3, <1>5, ConcatProperties
  <2> HIDE DEF all
  <2>2. QED
    BY <2>1, <1>3, <1>5
<1> HIDE DEF all
<1>8. DOMAIN all = 1 .. 16
  BY <1>7
<1>9. ASSUME NEW i \in 1 .. 16
      PROVE  /\ all[i].owner = MainOrder[i]
             /\ all[i].log =
                  IF i = 1 THEN BytesLogSize ELSE LogSize(MainOrder[i], lens[MainOrder[i]])
  <2>1. CASE i = 1
    BY <2>1, <1>3, <1>7, TheOrders
  <2>2. CASE i # 1
    <3>1. i - 1 \in 1 .. 15 /\ (i - 1) + 1 = i /\ ~ (i <= 1)
      BY <2>2
    <3>2. PreprocessedOrder[i - 1] = MainOrder[i]
      BY <3>1, TheOrders
    <3>3. all[i] = rest[i - 1]
      BY <3>1, <1>7
    <3>4. QED
      BY <2>2, <3>1, <3>2, <3>3, <1>6
  <2>3. QED
    BY <2>1, <2>2
<1>10. QED
  BY <1>2, <1>8, <1>9 DEF all

LEMMA SizedColumns ==
  ASSUME NEW logs
  PROVE  /\ DOMAIN SizedTree(MainOrder, logs) = 1 .. 16
         /\ \A i \in 1 .. 16 :
              /\ SizedTree(MainOrder, logs)[i].owner = MainOrder[i]
              /\ SizedTree(MainOrder, logs)[i].log = logs[MainOrder[i]]
<1>1. DOMAIN MainOrder = 1 .. 16
  BY TheOrders
<1>2. QED
  BY <1>1 DEF SizedTree

LEMMA SameTrees == InteractionTree(proof) = MainTree(proof)
BY TheOrders DEF InteractionTree, MainTree

LEMMA AppendOne ==
  ASSUME NEW a, NEW b
  PROVE  Append(<<a>>, b) = <<a, b>>
<1> DEFINE S == {a, b}
           r == Append(<<a>>, b)
<1>1. <<a>> \in Seq(S) /\ Len(<<a>>) = 1 /\ b \in S /\ <<a>>[1] = a
  OBVIOUS
<1>2. <<a, b>> \in Seq(S) /\ Len(<<a, b>>) = 2
  OBVIOUS
<1> HIDE DEF S
<1>3. r \in Seq(S) /\ Len(r) = 2 /\ r[1] = a /\ r[2] = b
  BY <1>1, AppendProperties
<1> HIDE DEF r
<1>4. \A i \in 1 .. 2 : r[i] = <<a, b>>[i]
  BY <1>3
<1>5. r = <<a, b>>
  BY <1>2, <1>3, <1>4, SeqEqual
<1>6. QED
  BY <1>5 DEF r

LEMMA AppendTwo ==
  ASSUME NEW a, NEW b, NEW c
  PROVE  Append(<<a, b>>, c) = <<a, b, c>>
<1> DEFINE S == {a, b, c}
           r == Append(<<a, b>>, c)
<1>1. <<a, b>> \in Seq(S) /\ Len(<<a, b>>) = 2 /\ c \in S /\ <<a, b>>[1] = a /\ <<a, b>>[2] = b
  OBVIOUS
<1>2. <<a, b, c>> \in Seq(S) /\ Len(<<a, b, c>>) = 3
  OBVIOUS
<1> HIDE DEF S
<1>3. r \in Seq(S) /\ Len(r) = 3 /\ r[1] = a /\ r[2] = b /\ r[3] = c
  BY <1>1, AppendProperties
<1> HIDE DEF r
<1>4. \A i \in 1 .. 3 : r[i] = <<a, b, c>>[i]
  BY <1>3
<1>5. r = <<a, b, c>>
  BY <1>2, <1>3, <1>4, SeqEqual
<1>6. QED
  BY <1>5 DEF r

(* The twiddles serve every column of a session in which nothing is rare.  *)
LEMMA TwiddlesServe ==
  ASSUME Tallied(trace.lens), ~ ShortTable(trace.lens)
  PROVE  /\ \A t \in Tables \cup {"Bytes"} :
              /\ ClaimLog(trace.lens, t) \in Nat
              /\ ClaimLog(trace.lens, t) + 2 + LogBlowup <= Twiddles(trace.lens)
         /\ Fits(PreprocessedTree(trace.lens))
<1> DEFINE lens == trace.lens
<1>1. Long(lens)
  BY NothingRare
<1>2. MaxLogSize(lens) \in Nat /\ BytesLogSize <= MaxLogSize(lens)
  BY <1>1, LargestTable
<1>3. LogBlowup \in Nat /\ BytesLogSize \in Nat
  BY TablesAssumption, ProverAssumption
<1>4. Twiddles(lens) = MaxLogSize(lens) + LogBlowup + 2
  BY DEF Twiddles
<1>5. ASSUME NEW t \in Tables
      PROVE  /\ TraceLogSize(t, lens[t]) \in Nat /\ TraceLogSize(t, lens[t]) <= MaxLogSize(lens)
             /\ LogSize(t, lens[t]) = TraceLogSize(t, lens[t])
             /\ t # "Bytes"
  BY <1>1, LongTable, LargestTable, TheTables DEF TraceLogSize
<1> HIDE DEF lens
<1>6. ASSUME NEW t \in Tables \cup {"Bytes"}
      PROVE  ClaimLog(lens, t) \in Nat /\ ClaimLog(lens, t) + 2 + LogBlowup <= Twiddles(lens)
  <2>1. CASE t = "Bytes"
    BY <2>1, <1>2, <1>3, <1>4 DEF ClaimLog
  <2>2. CASE t \in Tables
    BY <2>2, <1>2, <1>3, <1>4, <1>5 DEF ClaimLog
  <2>3. QED
    BY <2>1, <2>2
<1>7. ASSUME NEW i \in 1 .. 16
      PROVE  PreprocessedTree(lens)[i].log + LogBlowup <= Twiddles(lens)
  <2>1. CASE i = 1
    <3>1. PreprocessedTree(lens)[i].log = BytesLogSize
      BY <2>1, PreprocessedColumns
    <3>2. QED
      BY <3>1, <1>2, <1>3, <1>4
  <2>2. CASE i # 1
    <3>1. MainOrder[i] \in Tables
      BY <2>2, TheOrders
    <3>2. PreprocessedTree(lens)[i].log = LogSize(MainOrder[i], lens[MainOrder[i]])
      BY <2>2, PreprocessedColumns
    <3>3. QED
      BY <3>1, <3>2, <1>2, <1>3, <1>4, <1>5
  <2>3. QED
    BY <2>1, <2>2
<1>8. Fits(PreprocessedTree(lens))
  BY <1>7, PreprocessedColumns DEF Fits, lens
<1>9. QED
  BY <1>6, <1>8 DEF lens

LEMMA InitTrees == Init => TreesInv
<1> SUFFICES ASSUME Init PROVE TreesInv
  OBVIOUS
<1>1. trace.lens = NoRows /\ stage = "recording" /\ channel = <<>> /\ proof = NoProof
  BY DEF Init, NewTrace
<1>2. Tallied(NoRows)
  BY TheTables, TablesAssumption DEF Tallied, NoRows, Count, TableOf
<1>3. QED
  BY <1>1, <1>2 DEF TreesInv, ProofParts, NoProof, Committed, ProofsVerify, PanicsOnlyOnTables

(* The client records: nothing is committed, and the counts go on.         *)
LEMMA RecordTrees ==
  ASSUME ClaimsInv, TreesInv,
         \/ \E s \in Sides : PlaceOrder(s)
         \/ TradeBoth \/ TradeAggressor \/ TradePassive \/ Exchange
  PROVE  TreesInv'
<1>1. stage = "recording" /\ stage' = stage /\ channel' = channel /\ proof' = proof
  BY DEF PlaceOrder, TradeBoth, TradeAggressor, TradePassive, Trade, Exchange
<1>2. Tallied(trace'.lens)
  <2>1. ASSUME NEW s \in Sides, PlaceOrder(s) PROVE Tallied(trace'.lens)
    <3>1. trace'.lens = Added(trace.lens, "Insertion", s)
      BY <2>1 DEF PlaceOrder, ClaimsInv, SessionType
    <3>2. QED
      BY <3>1, TalliedAfter DEF TreesInv, Committed, Operations
  <2>2. ASSUME NEW own \in Operations, NEW other \in Operations, Trade(own, other)
        PROVE  Tallied(trace'.lens)
    <3> DEFINE s == book.aggressor
               first == Added(trace.lens, own, s)
    <3>1. s \in Sides /\ Opposite(s) \in Sides
      BY <2>2 DEF Trade, Opposite, Sides
    <3>2. Tallied(first)
      BY <3>1, TalliedAfter DEF TreesInv, Committed
    <3>3. Tallied(Added(first, other, Opposite(s)))
      <4> HIDE DEF first
      <4>1. QED
        BY <3>1, <3>2, TalliedAfter
    <3>4. trace'.lens = Added(first, other, Opposite(s))
      BY <2>2 DEF Trade, ClaimsInv, SessionType
    <3>5. QED
      BY <3>3, <3>4
  <2>3. ASSUME Exchange PROVE Tallied(trace'.lens)
    <3>1. trace'.lens = NoRows
      BY <2>3 DEF Exchange, NewTrace
    <3>2. Tallied(NoRows)
      BY TheTables, TablesAssumption DEF Tallied, NoRows, Count, TableOf
    <3>3. QED
      BY <3>1, <3>2
  <2>4. QED
    BY <2>1, <2>2, <2>3 DEF TradeBoth, TradeAggressor, TradePassive, Operations
<1>3. QED
  BY <1>1, <1>2 DEF TreesInv, ProofParts, Committed, ProofsVerify, PanicsOnlyOnTables

LEMMA CommitPreprocessedTrees ==
  ASSUME ClaimsInv, TreesInv, CommitPreprocessed
  PROVE  TreesInv'
<1> DEFINE pre == PreprocessedTree(trace.lens)
<1>1. trace'.lens = trace.lens /\ stage = "recording"
  BY DEF CommitPreprocessed, ClaimsInv, SessionType
<1>2. Tallied(trace.lens) /\ proof.trees = <<>> /\ channel = <<>> /\ ProofParts
  BY <1>1 DEF TreesInv, Committed
<1>3. CASE /\ stage' = "preprocessed" /\ channel' = channel \o <<<<"root", pre>>>>
           /\ proof' = [proof EXCEPT !.trees = <<pre>>]
  <2> HIDE DEF pre
  <2>1. channel' = <<<<"root", pre>>>> /\ proof'.trees = <<pre>> /\ ProofParts'
    BY <1>2, <1>3 DEF ProofParts
  <2>2. Committed'
    BY <1>1, <1>2, <1>3, <2>1 DEF Committed, pre
  <2>3. QED
    BY <1>3, <2>1, <2>2 DEF TreesInv, ProofsVerify, PanicsOnlyOnTables
<1>4. CASE stage' = "panic" /\ proof' = proof /\ ~ Fits(pre)
  <2>1. ShortTable(trace.lens)
    BY <1>2, <1>4, TwiddlesServe
  <2>2. Committed' /\ ProofParts'
    BY <1>1, <1>2, <1>4 DEF Committed, ProofParts
  <2>3. QED
    BY <1>1, <1>4, <2>1, <2>2 DEF TreesInv, ProofsVerify, PanicsOnlyOnTables
<1>5. QED
  BY <1>3, <1>4 DEF CommitPreprocessed, Fail

(* Where nothing is rare a main or interaction tree always fits, and only  *)
(* the poseidon table may not be traced.                                   *)
LEMMA CommitMainTrees ==
  ASSUME ClaimsInv, TreesInv, CommitMain
  PROVE  TreesInv'
<1> DEFINE lens  == trace.lens
           logs  == [t \in Range(MainOrder) |-> ClaimLog(lens, t)]
           claim == [initial |-> trace.initial, final |-> trace.final, logs |-> logs]
           tree  == SizedTree(MainOrder, logs)
           new   == [proof EXCEPT !.trees = Append(@, tree), !.claim = claim]
<1>1. trace' = trace /\ stage = "preprocessed"
  BY DEF CommitMain, sessionVars
<1>2. /\ Tallied(lens) /\ ProofParts
      /\ proof.trees = <<PreprocessedTree(lens)>>
      /\ channel = <<<<"root", PreprocessedTree(lens)>>>>
  BY <1>1 DEF TreesInv, Committed
<1>3. CASE /\ stage' = "main" /\ proof' = new
           /\ channel' = channel \o MixedClaim(claim) \o <<<<"root", tree>>, <<"draw", "elements">>>>
           /\ \A t \in Tables : Traceable(t, lens[t])
  <2>1. proof'.claim = claim /\ proof'.trees = Append(proof.trees, tree) /\ ProofParts'
    BY <1>2, <1>3 DEF ProofParts
  <2>2. proof'.claim.logs = logs
    BY <2>1
  <2>3. MainTree(proof)' = tree
    BY <2>2 DEF MainTree
  <2> HIDE DEF claim, tree, new
  <2>4. proof'.trees = <<PreprocessedTree(lens), tree>>
    BY <1>2, <2>1, AppendOne
  <2>5. channel' = <<<<"root", PreprocessedTree(lens)>>>> \o MixedClaim(proof'.claim)
                      \o <<<<"root", tree>>, <<"draw", "elements">>>>
    BY <1>2, <1>3, <2>1
  <2>6. Committed'
    BY <1>1, <1>2, <1>3, <2>2, <2>3, <2>4, <2>5 DEF Committed
  <2>7. QED
    BY <1>3, <2>1, <2>6 DEF TreesInv, ProofsVerify, PanicsOnlyOnTables
<1>4. CASE /\ stage' = "panic" /\ proof' = proof
           /\ ~ ((\A t \in Tables : Traceable(t, lens[t])) /\ Fits(tree))
  <2>1. ShortTable(lens) \/ Overhang(lens["Poseidon"])
    <3> SUFFICES ASSUME ~ ShortTable(lens), ~ Overhang(lens["Poseidon"]) PROVE FALSE
      OBVIOUS
    <3>1. Long(lens)
      BY <1>2, NothingRare
    <3>2. \A t \in Tables : Traceable(t, lens[t])
      BY <3>1, LongTable
    <3>3. DOMAIN tree = 1 .. 16 /\ \A i \in 1 .. 16 : tree[i].log = ClaimLog(lens, MainOrder[i])
      BY SizedColumns, TheOrders
    <3> HIDE DEF tree
    <3>4. \A i \in 1 .. 16 : tree[i].log \in Nat /\ tree[i].log + 2 + LogBlowup <= Twiddles(lens)
      BY <1>2, <3>3, TheOrders, TwiddlesServe
    <3>5. Twiddles(lens) \in Nat
      BY <3>1, LargestTable, ProverAssumption DEF Twiddles
    <3>6. Fits(tree)
      BY <3>3, <3>4, <3>5, ProverAssumption DEF Fits
    <3>7. QED
      BY <1>4, <3>2, <3>6
  <2>2. Committed' /\ ProofParts'
    BY <1>1, <1>2, <1>4 DEF Committed, ProofParts
  <2>3. QED
    BY <1>1, <1>4, <2>1, <2>2 DEF TreesInv, ProofsVerify, PanicsOnlyOnTables
<1>5. QED
  BY <1>3, <1>4 DEF CommitMain, Fail, Columns, SizedTree

LEMMA CommitInteractionTrees ==
  ASSUME ClaimsInv, TreesInv, CommitInteraction
  PROVE  TreesInv'
<1> DEFINE lens  == trace.lens
           interaction == [from |-> trace.from, to |-> book.n]
           tree  == InteractionTree(proof)
           new   == [proof EXCEPT !.trees = Append(@, tree), !.interaction = interaction]
           pre   == PreprocessedTree(lens)
           main  == MainTree(proof)
           sent  == <<<<"root", pre>>>> \o MixedClaim(proof.claim)
                      \o <<<<"root", main>>, <<"draw", "elements">>>>
<1>1. trace' = trace /\ stage = "main"
  BY DEF CommitInteraction, sessionVars
<1>2. /\ Tallied(lens) /\ ProofParts
      /\ proof.trees = <<pre, main>>
      /\ channel = sent
      /\ \A t \in Tables : Traceable(t, lens[t])
      /\ proof.claim.logs = [t \in Range(MainOrder) |-> ClaimLog(lens, t)]
  BY <1>1 DEF TreesInv, Committed
<1>3. CASE /\ stage' = "interaction" /\ proof' = new
           /\ channel' = channel \o MixedInteraction \o <<<<"root", tree>>>>
           /\ LogupSumIsZero(interaction, proof.claim)
  <2>1. /\ proof'.claim = proof.claim /\ proof'.trees = Append(proof.trees, tree) /\ ProofParts'
        /\ proof'.interaction = interaction
    BY <1>2, <1>3 DEF ProofParts
  <2>2. InteractionTree(proof)' = tree /\ MainTree(proof)' = main
    BY <2>1 DEF InteractionTree, MainTree
  <2> HIDE DEF tree, new, pre, main, interaction
  <2>3. proof'.trees = <<pre, main, tree>>
    BY <1>2, <2>1, AppendTwo
  <2>4. channel' = Replay(proof')
    <3>1. proof'.trees[1] = pre /\ proof'.trees[2] = main /\ proof'.trees[3] = tree
      BY <2>3
    <3>2. Replay(proof') = sent \o MixedInteraction \o <<<<"root", tree>>>>
      BY <2>1, <3>1 DEF Replay
    <3>3. QED
      BY <1>2, <1>3, <3>2
  <2>5. LogupSumIsZero(proof'.interaction, proof'.claim)
    BY <1>3, <2>1
  <2>6. Committed'
    BY <1>1, <1>2, <1>3, <2>1, <2>2, <2>3, <2>4, <2>5 DEF Committed, pre
  <2>7. QED
    BY <1>3, <2>1, <2>6 DEF TreesInv, ProofsVerify, PanicsOnlyOnTables
<1>4. CASE stage' = "InvalidLogupSum" /\ proof' = proof
  <2>1. Committed' /\ ProofParts'
    BY <1>1, <1>2, <1>4 DEF Committed, ProofParts
  <2>2. QED
    BY <1>4, <2>1 DEF TreesInv, ProofsVerify, PanicsOnlyOnTables
<1>5. CASE stage' = "panic" /\ proof' = proof /\ ~ Fits(tree)
  <2>1. ShortTable(lens)
    <3> SUFFICES ASSUME ~ ShortTable(lens) PROVE FALSE
      OBVIOUS
    <3>1. DOMAIN tree = 1 .. 16 /\ \A i \in 1 .. 16 : tree[i].log = ClaimLog(lens, MainOrder[i])
      <4> DEFINE logs == proof.claim.logs
      <4> HIDE DEF logs
      <4>1. /\ DOMAIN SizedTree(MainOrder, logs) = 1 .. 16
            /\ \A i \in 1 .. 16 : SizedTree(MainOrder, logs)[i].log = logs[MainOrder[i]]
        BY SizedColumns
      <4>2. \A i \in 1 .. 16 : logs[MainOrder[i]] = ClaimLog(lens, MainOrder[i])
        BY <1>2, TheOrders DEF logs
      <4>3. tree = SizedTree(MainOrder, logs)
        BY SameTrees DEF MainTree, logs
      <4> HIDE DEF tree
      <4>4. QED
        BY <4>1, <4>2, <4>3
    <3> HIDE DEF tree
    <3>2. \A i \in 1 .. 16 : tree[i].log \in Nat /\ tree[i].log + 2 + LogBlowup <= Twiddles(lens)
      <4>1. \A i \in 1 .. 16 : MainOrder[i] \in Tables \cup {"Bytes"}
        BY TheOrders
      <4>2. \A t \in Tables \cup {"Bytes"} :
              ClaimLog(lens, t) \in Nat /\ ClaimLog(lens, t) + 2 + LogBlowup <= Twiddles(lens)
        BY <1>2, TwiddlesServe
      <4> HIDE DEF lens
      <4>3. QED
        BY <3>1, <4>1, <4>2
    <3>3. Long(lens)
      BY <1>2, NothingRare
    <3>4. Twiddles(lens) \in Nat
      BY <3>3, LargestTable, ProverAssumption DEF Twiddles
    <3>5. Fits(tree)
      BY <3>1, <3>2, <3>4, ProverAssumption DEF Fits
    <3>6. QED
      BY <1>5, <3>5
  <2>2. Committed' /\ ProofParts'
    BY <1>1, <1>2, <1>5 DEF Committed, ProofParts
  <2>3. QED
    BY <1>1, <1>5, <2>1, <2>2 DEF TreesInv, ProofsVerify, PanicsOnlyOnTables
<1>6. QED
  BY <1>3, <1>4, <1>5 DEF CommitInteraction, Fail, Columns, SizedTree, InteractionTree

(* Every tree of a proof has the owners and the sizes that the components  *)
(* and the verifier go by.                                                 *)
LEMMA SameColumns ==
  ASSUME TreesInv, stage \in {"interaction", "proved"}
  PROVE  /\ Aligned(proof)
         /\ \A i \in DOMAIN proof.trees : Sizes(proof.trees[i]) = ClaimedSizes(proof.claim)
<1> DEFINE lens  == trace.lens
           pre   == PreprocessedTree(lens)
           logs  == proof.claim.logs
           sizes == [i \in 1 .. 16 |-> logs[MainOrder[i]]]
<1>1. /\ Tallied(lens)
      /\ proof.trees = <<pre, MainTree(proof), InteractionTree(proof)>>
      /\ \A t \in Tables : Traceable(t, lens[t])
      /\ logs = [t \in Range(MainOrder) |-> ClaimLog(lens, t)]
  BY DEF TreesInv, Committed
<1>2. /\ \A i \in 1 .. 16 : MainOrder[i] \in Tables \cup {"Bytes"}
      /\ DOMAIN MainOrder = 1 .. 16 /\ MainOrder[1] = "Bytes"
  BY TheOrders
<1>3. Sizes(pre) = sizes
  <2>1. ASSUME NEW i \in 1 .. 16 PROVE pre[i].log = logs[MainOrder[i]]
    <3>1. logs[MainOrder[i]] = ClaimLog(lens, MainOrder[i])
      BY <1>1, <1>2, TheOrders
    <3>2. CASE i = 1
      BY <3>1, <3>2, <1>2, PreprocessedColumns DEF ClaimLog
    <3>3. CASE i # 1
      <4>1. MainOrder[i] \in Tables /\ MainOrder[i] # "Bytes"
        BY <3>3, TheOrders, TheTables
      <4>2. lens[MainOrder[i]] \in Nat
        BY <1>1, <4>1 DEF Tallied
      <4>3. LogSize(MainOrder[i], lens[MainOrder[i]]) = TraceLogSize(MainOrder[i], lens[MainOrder[i]])
        BY <1>1, <4>1, <4>2, SizeOfTraceable
      <4>4. pre[i].log = LogSize(MainOrder[i], lens[MainOrder[i]])
        BY <3>3, PreprocessedColumns
      <4>5. QED
        BY <3>1, <4>1, <4>3, <4>4 DEF ClaimLog
    <3>4. QED
      BY <3>2, <3>3
  <2>2. DOMAIN pre = 1 .. 16
    BY PreprocessedColumns
  <2> HIDE DEF pre, logs
  <2>3. QED
    BY <2>1, <2>2 DEF Sizes
<1>4. Sizes(MainTree(proof)) = sizes /\ Owners(MainTree(proof)) = MainOrder
  <2> HIDE DEF logs
  <2>1. /\ DOMAIN SizedTree(MainOrder, logs) = 1 .. 16
        /\ \A i \in 1 .. 16 : /\ SizedTree(MainOrder, logs)[i].owner = MainOrder[i]
                             /\ SizedTree(MainOrder, logs)[i].log = logs[MainOrder[i]]
    BY SizedColumns
  <2> DEFINE tree == SizedTree(MainOrder, logs)
  <2> HIDE DEF tree
  <2>2. DOMAIN tree = 1 .. 16
        /\ \A i \in 1 .. 16 : tree[i].owner = MainOrder[i] /\ tree[i].log = logs[MainOrder[i]]
    BY <2>1 DEF tree
  <2>3. Sizes(tree) = sizes
    BY <2>2 DEF Sizes
  <2>4. Owners(tree) = MainOrder
    BY <2>2, TheOrders DEF Owners
  <2>5. QED
    BY <2>3, <2>4 DEF tree, MainTree, logs
<1>5. ClaimedSizes(proof.claim) = sizes
  BY <1>2, TheOrders DEF ClaimedSizes
<1>6. pre[1].owner = "Bytes"
  BY <1>2, PreprocessedColumns
<1> HIDE DEF pre, sizes
<1>7. /\ Sizes(MainTree(proof)) = sizes /\ Owners(MainTree(proof)) = MainOrder
      /\ Sizes(InteractionTree(proof)) = sizes /\ Owners(InteractionTree(proof)) = MainOrder
  BY <1>4, SameTrees
<1>8. /\ DOMAIN proof.trees = 1 .. 3 /\ proof.trees[1] = pre
      /\ proof.trees[2] = MainTree(proof) /\ proof.trees[3] = InteractionTree(proof)
  BY <1>1
<1>9. \A i \in DOMAIN proof.trees : Sizes(proof.trees[i]) = ClaimedSizes(proof.claim)
  BY <1>3, <1>5, <1>7, <1>8
<1>10. Aligned(proof)
  BY <1>6, <1>7, <1>8, TheOrders DEF Aligned
<1>11. QED
  BY <1>9, <1>10

LEMMA ProveTrees ==
  ASSUME ClaimsInv, TreesInv, Prove
  PROVE  TreesInv'
<1> DEFINE lens == trace.lens
           logs == proof.claim.logs
<1>1. trace' = trace /\ proof' = proof /\ channel' = channel /\ stage = "interaction"
  BY DEF Prove, sessionVars
<1>2. Aligned(proof)
  BY <1>1, SameColumns
<1>3. CASE stage' = "proved"
  BY <1>1, <1>3 DEF TreesInv, ProofParts, Committed, ProofsVerify, PanicsOnlyOnTables, MainTree, InteractionTree
<1>4. ASSUME stage' = "panic", NEW t \in DOMAIN logs, DegreeBound(t, logs[t]) + LogBlowup > Twiddles(lens)
      PROVE  TreesInv'
  <2>1. ShortTable(lens)
    <3> SUFFICES ASSUME ~ ShortTable(lens) PROVE FALSE
      OBVIOUS
    <3>1. Tallied(lens) /\ logs = [u \in Range(MainOrder) |-> ClaimLog(lens, u)]
      BY <1>1 DEF TreesInv, Committed
    <3>2. t \in Tables \cup {"Bytes"} /\ logs[t] = ClaimLog(lens, t)
      BY <3>1, TheOrders
    <3>3. ClaimLog(lens, t) \in Nat /\ ClaimLog(lens, t) + 2 + LogBlowup <= Twiddles(lens)
      BY <3>1, <3>2, TwiddlesServe
    <3>4. Long(lens)
      BY <3>1, NothingRare
    <3>5. Twiddles(lens) \in Nat
      BY <3>4, LargestTable, ProverAssumption DEF Twiddles
    <3>6. DegreeBound(t, logs[t]) \in Nat /\ DegreeBound(t, logs[t]) <= logs[t] + 2
      BY <3>2, <3>3 DEF DegreeBound
    <3>7. QED
      BY <1>4, <3>2, <3>3, <3>5, <3>6, ProverAssumption
  <2>2. QED
    BY <1>1, <1>4, <2>1 DEF TreesInv, ProofParts, Committed, ProofsVerify, PanicsOnlyOnTables
<1>5. QED
  BY <1>2, <1>3, <1>4 DEF Prove

LEMMA VerifyTrees ==
  ASSUME ClaimsInv, TreesInv, Verify
  PROVE  TreesInv'
<1>1. trace' = trace /\ proof' = proof /\ channel' = channel /\ stage = "proved"
  BY DEF Verify, sessionVars
<1>2. /\ Aligned(proof)
      /\ \A i \in DOMAIN proof.trees : Sizes(proof.trees[i]) = ClaimedSizes(proof.claim)
  BY <1>1, SameColumns
<1>3. LogupSumIsZero(proof.interaction, proof.claim) /\ Replay(proof) = channel
  BY <1>1 DEF TreesInv, Committed
<1>4. stage' = "verified"
  BY <1>2, <1>3 DEF Verify
<1>5. QED
  BY <1>1, <1>4 DEF TreesInv, ProofParts, Committed, ProofsVerify, PanicsOnlyOnTables

LEMMA StepTrees == ClaimsInv /\ TreesInv /\ [Next]_vars => TreesInv'
<1> SUFFICES ASSUME ClaimsInv, TreesInv, [Next]_vars PROVE TreesInv'
  OBVIOUS
<1>1. CASE \/ \E s \in Sides : PlaceOrder(s)
           \/ TradeBoth \/ TradeAggressor \/ TradePassive \/ Exchange
  BY <1>1, RecordTrees
<1>2. CASE CommitPreprocessed
  BY <1>2, CommitPreprocessedTrees
<1>3. CASE CommitMain
  BY <1>3, CommitMainTrees
<1>4. CASE CommitInteraction
  BY <1>4, CommitInteractionTrees
<1>5. CASE Prove
  BY <1>5, ProveTrees
<1>6. CASE Verify
  BY <1>6, VerifyTrees
<1>7. CASE UNCHANGED vars
  BY <1>7 DEF vars, TreesInv, ProofParts, Committed, ProofsVerify, PanicsOnlyOnTables, MainTree, InteractionTree
<1>8. QED
  BY <1>1, <1>2, <1>3, <1>4, <1>5, <1>6, <1>7 DEF Next

(* A proof that prove_vex attempts is never refused by stwo, and one that  *)
(* it returns is never rejected by verify_vex: in every session the three  *)
(* trees, the claim, the components and the verifier have the same columns *)
(* in the same order with the same sizes, and both channels mix the same.  *)
THEOREM NeverRejected == ProverSpec => []ProofsVerify
<1>1. Init => ClaimsInv /\ TreesInv
  BY InitClaims, InitTrees
<1>2. ClaimsInv /\ TreesInv /\ [Next]_vars => ClaimsInv' /\ TreesInv'
  BY StepClaims, StepTrees
<1>3. TreesInv => ProofsVerify
  BY DEF TreesInv
<1>4. QED
  BY <1>1, <1>2, <1>3, PTL DEF ProverSpec

(* prove_vex panics only where an instruction is rare or the poseidon      *)
(* table has an overhang: where no instruction is rare no operation is     *)
(* either, every size is at least that of a vector, the twiddles serve the *)
(* largest domain, and the padding of every other table is not negative.   *)
THEOREM PanicsExplained == ProverSpec => []PanicsOnlyOnTables
<1>1. Init => ClaimsInv /\ TreesInv
  BY InitClaims, InitTrees
<1>2. ClaimsInv /\ TreesInv /\ [Next]_vars => ClaimsInv' /\ TreesInv'
  BY StepClaims, StepTrees
<1>3. TreesInv => PanicsOnlyOnTables
  BY DEF TreesInv
<1>4. QED
  BY <1>1, <1>2, <1>3, PTL DEF ProverSpec

=============================================================================
