------------------------------ MODULE Poseidon ------------------------------
(***************************************************************************)
(* The Poseidon2 permutation (src/hash.rs, src/constants.rs) and the table *)
(* that proves it (src/components/poseidon/mod.rs): what a row of several  *)
(* operations holds, what its constraints demand and yield, and what its   *)
(* interaction trace yields.  The permutation has its full width, rounds   *)
(* and constants, over the field of FieldOrder elements.                   *)
(***************************************************************************)
EXTENDS Relations

CONSTANTS FieldOrder,       \* 2^31 - 1 in the code
          InstancesPerRow   \* N_INSTANCES_PER_ROW, 8 in the code

ASSUME PoseidonAssumption ==
  FieldOrder \in Nat \ {0, 1} /\ InstancesPerRow \in Nat \ {0}

N_PARTIAL_ROUNDS    == 14
N_HALF_FULL_ROUNDS  == 4
N_STATE             == 16
N_HASH              == 8
N_ROUNDS            == 2 * N_HALF_FULL_ROUNDS + N_PARTIAL_ROUNDS
N_COLUMNS_PER_REP   == N_STATE + N_STATE * 2 * N_HALF_FULL_ROUNDS + N_PARTIAL_ROUNDS + 1

MAT_DIAG16_M_1 ==
  <<129501892, 1809435443, 1223573407, 1331944729, 415581875, 1526242955, 1341275624, 1333308150,
    1404946132, 1549369918, 709303410, 1284988537, 1490838740, 115945821, 754131590, 800486749>>

EXTERNAL_ROUND_CONSTS ==
  <<<<1988864850, 1893772157, 1025928330, 1839472709, 1611656994, 1104858731, 1694088660, 1564660990,
      1991332205, 1875486487, 1890340790, 1658614, 582370530, 528029397, 1196956642, 655401251>>,
    <<1652877415, 26032894, 1576640243, 1277052539, 1450142396, 697623591, 1401580866, 1568404175,
      2145004971, 265835716, 1183985610, 1031234465, 436012490, 172735299, 352802897, 1032863094>>,
    <<757665783, 1082171296, 1507509996, 309929890, 1807683232, 43258895, 611592566, 1854193793,
      575164234, 894217817, 72613857, 1061659596, 8921166, 1617355017, 998001536, 1800758877>>,
    <<1002748055, 1935405944, 1351462722, 411368491, 1913975372, 1956167178, 442558016, 855898408,
      699687798, 1553382248, 1708169125, 490049183, 1251643415, 1193594742, 880473871, 511174042>>,
    <<1460209171, 530850056, 398192464, 536338716, 75179210, 1309934197, 1335920373, 127611036,
      291093831, 1832379621, 123571662, 303176864, 2137685056, 1759609530, 1418928155, 71608334>>,
    <<6616262, 1684515814, 1721194338, 720801691, 878392254, 460379263, 87930647, 940673483,
      1136203256, 551499412, 256220454, 2007034235, 796124985, 410436345, 1705042586, 1286336446>>,
    <<1522340456, 1295296352, 309794713, 1772145068, 956898901, 2137070800, 988829146, 2059451359,
      1846491684, 1105442551, 1236497773, 1452000568, 549485016, 385992492, 1987107948, 1514377269>>,
    <<2090065934, 1444920141, 293113979, 41120774, 855319793, 1663284746, 1789994008, 1120509162,
      358222743, 1406256810, 735183687, 664485235, 1331641456, 38121324, 595810771, 1234594393>>>>

INTERNAL_ROUND_CONSTS ==
  <<2139014335, 69309039, 1368974953, 886780232, 1130937085, 1718115455, 2027103386,
    1612216449, 1994053242, 110146615, 514413329, 1088763546, 955319292, 488794657>>

-----------------------------------------------------------------------------
(* The permutation                                                         *)

Plus(x, c)  == (x + (c % FieldOrder)) % FieldOrder
Times(x, c) == (x * (c % FieldOrder)) % FieldOrder

Pow5(x) == LET x2 == Times(x, x) IN Times(Times(x2, x2), x)

ApplyM4(x) ==
  LET t0 == x[1] + x[2]
      t1 == x[3] + x[4]
      t2 == x[2] + x[2] + t1
      t3 == x[4] + x[4] + t0
      t4 == 4 * t1 + t3
      t5 == 4 * t0 + t2
  IN <<t3 + t5, t5, t2 + t4, t4>>

ApplyExternalRoundMatrix(state) ==
  LET m == ApplyM4(SubSeq(state, 1, 4)) \o ApplyM4(SubSeq(state, 5, 8))
             \o ApplyM4(SubSeq(state, 9, 12)) \o ApplyM4(SubSeq(state, 13, 16))
      sums == [j \in 1 .. 4 |-> m[j] + m[j + 4] + m[j + 8] + m[j + 12]]
  IN [i \in 1 .. N_STATE |-> (m[i] + sums[((i - 1) % 4) + 1]) % FieldOrder]

ApplyInternalRoundMatrix(state) ==
  LET sum == state[1] + state[2] + state[3] + state[4] + state[5] + state[6] + state[7] + state[8]
               + state[9] + state[10] + state[11] + state[12] + state[13] + state[14] + state[15] + state[16]
  IN  [i \in 1 .. N_STATE |-> Plus(Times(state[i], MAT_DIAG16_M_1[i]), sum)]

FullRound(state, round) ==
  LET m == ApplyExternalRoundMatrix(
             [i \in 1 .. N_STATE |-> Plus(state[i], EXTERNAL_ROUND_CONSTS[round][i])])
  IN  [i \in 1 .. N_STATE |-> Pow5(m[i])]

PartialRound(state, round) ==
  LET m == ApplyInternalRoundMatrix(
             [i \in 1 .. N_STATE |->
                IF i = 1 THEN Plus(state[i], INTERNAL_ROUND_CONSTS[round]) ELSE state[i]])
  IN  [i \in 1 .. N_STATE |-> IF i = 1 THEN Pow5(m[i]) ELSE m[i]]

(* The rounds are numbered through: full, partial, full.                   *)
IsFull(k) == k <= N_HALF_FULL_ROUNDS \/ k > N_HALF_FULL_ROUNDS + N_PARTIAL_ROUNDS

Round(state, k) ==
  IF k <= N_HALF_FULL_ROUNDS THEN FullRound(state, k)
  ELSE IF IsFull(k)          THEN FullRound(state, k - N_PARTIAL_ROUNDS)
  ELSE PartialRound(state, k - N_HALF_FULL_ROUNDS)

\* The state before each round, and after the last.
States(state) ==
  LET first[k \in 0 .. N_ROUNDS] ==
        IF k = 0 THEN <<state>>
        ELSE LET before == first[k - 1] IN Append(before, Round(before[k], k))
  IN  first[N_ROUNDS]

Permutation(state) == States(state)[N_ROUNDS + 1]

HashLeaf(state) == SubSeq(Permutation(state), 1, N_HASH)

Compress(left, right) == HashLeaf(left \o right)

-----------------------------------------------------------------------------
(* The table.  An operation is an initial state and is_real; a row of the  *)
(* table holds InstancesPerRow of them, one after the other.               *)

PaddingOp == [i \in 1 .. N_STATE + 1 |-> 0]

InitialState(op) == SubSeq(op, 1, N_STATE)

(* is_real, the initial state, and what each round changes of the state.   *)
Written(op, states) ==
  LET cells[k \in 0 .. N_ROUNDS] ==
        IF k = 0 THEN <<op[N_STATE + 1]>> \o states[1]
        ELSE cells[k - 1] \o (IF IsFull(k) THEN states[k + 1] ELSE <<states[k + 1][1]>>)
  IN  cells[N_ROUNDS]

(* trace                                                                   *)
Instance(op) == Written(op, States(InitialState(op)))

MainRow(ops) ==
  LET row[n \in 0 .. Len(ops)] == IF n = 0 THEN <<>> ELSE row[n - 1] \o Instance(ops[n])
  IN  row[Len(ops)]

(* The cells of one instance of a row.                                     *)
Rep(row, rep) == SubSeq(row, N_COLUMNS_PER_REP * (rep - 1) + 1, N_COLUMNS_PER_REP * rep)

\* the column a partial round changes is read and not constrained
EvaluateRound_PartialFree(cells, run, k) ==
  LET state == Round(run.state, k)
      n     == IF IsFull(k) THEN N_STATE ELSE 1
      read  == SubSeq(cells, run.next, run.next + n - 1)
  IN  [state |-> read \o SubSeq(state, n + 1, N_STATE), next |-> run.next + n,
       holds |-> run.holds /\ (IsFull(k) => read = state)]

(* A round of the constraints: the cells it reads are what the round makes *)
(* of the state, and go on as the state.                                   *)
EvaluateRound(cells, run, k) ==
  LET state == Round(run.state, k)
      n     == IF IsFull(k) THEN N_STATE ELSE 1
      read  == SubSeq(cells, run.next, run.next + n - 1)
  IN  [state |-> read \o SubSeq(state, n + 1, N_STATE), next |-> run.next + n,
       holds |-> run.holds /\ read = SubSeq(state, 1, n)]

(* PoseidonEval::evaluate, of one instance.                                *)
Evaluate(cells) ==
  LET run[k \in 0 .. N_ROUNDS] ==
        IF k = 0 THEN [state |-> SubSeq(cells, 2, N_STATE + 1), next |-> N_STATE + 2,
                       holds |-> cells[1] \in {0, 1}]
        ELSE EvaluateRound(cells, run[k - 1], k)
  IN  run[N_ROUNDS]

PoseidonHolds(row) == \A rep \in 1 .. InstancesPerRow : Evaluate(Rep(row, rep)).holds

PoseidonEntries(row) ==
  [rep \in 1 .. InstancesPerRow |->
     LET cells == Rep(row, rep) IN
     Entry("poseidon",
           SubSeq(cells, 2, N_STATE + 1) \o SubSeq(Evaluate(cells).state, 1, N_HASH), -cells[1])]

\* one column early
HashColumn_Early == 142

(* interaction_trace finds the hash by its column.                         *)
HashColumn == 143

PoseidonColumns(row) ==
  LET At(rep, column) == row[N_COLUMNS_PER_REP * (rep - 1) + column + 1] IN
  [rep \in 1 .. InstancesPerRow |->
     {Entry("poseidon",
            [i \in 1 .. N_STATE + N_HASH |->
               IF i <= N_STATE THEN At(rep, i) ELSE At(rep, HashColumn + i - 1 - N_STATE)],
            -At(rep, 0))}]

=============================================================================
