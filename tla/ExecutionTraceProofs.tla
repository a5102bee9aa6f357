------------------------ MODULE ExecutionTraceProofs -------------------------
(***************************************************************************)
(* Whatever orders are placed, every instruction the order book records    *)
(* can be proved: its row satisfies the constraints of its component, and  *)
(* its interaction trace has the columns that go with them.  The first     *)
(* part is about rows: what the constraints and the interaction trace read *)
(* from the columns is what the executor wrote into them.  The last part   *)
(* adds up the lookups: between calls they cancel.                         *)
(***************************************************************************)
EXTENDS ExecutionTrace, OrderBookProofs

-----------------------------------------------------------------------------
(* Leaves and rows                                                         *)

(* A leaf is six cells, a row 32.                                          *)
IsLeaf(felts) == felts \in Seq({felts[i] : i \in 1 .. 6}) /\ Len(felts) = 6
IsRow(row)    == row \in Seq({row[i] : i \in 1 .. 32}) /\ Len(row) = 32

LEMMA SixCells ==
  ASSUME NEW a, NEW b, NEW c, NEW d, NEW e, NEW f
  PROVE  IsLeaf(<<a, b, c, d, e, f>>)
<1> DEFINE S == {a, b, c, d, e, f}
           felts == <<a, b, c, d, e, f>>
<1>1. a \in S /\ b \in S /\ c \in S /\ d \in S /\ e \in S /\ f \in S
  OBVIOUS
<1> HIDE DEF S
<1>2. felts \in Seq(S) /\ Len(felts) = 6
  BY <1>1
<1> HIDE DEF felts
<1>3. felts \in Seq({felts[i] : i \in 1 .. 6})
  BY <1>2, OwnCells
<1>4. IsLeaf(felts)
  BY <1>2, <1>3 DEF IsLeaf
<1>5. QED
  BY <1>4 DEF felts

LEMMA StateCells ==
  ASSUME NEW st
  PROVE  LET felts == StateFelts(st) IN
         /\ IsLeaf(felts)
         /\ felts[1] = st.n /\ felts[2] = st.root["Buy"] /\ felts[3] = st.best["Buy"]
         /\ felts[4] = st.root["Sell"] /\ felts[5] = st.best["Sell"] /\ felts[6] = st.op
BY SixCells DEF StateFelts

(* A row whose cells are the fields of op, and `real` in the last.         *)
RowOf(row, op, real) ==
  /\ IsRow(row)
  /\ Agree(row, 0, StateFelts(op.initial), 6)
  /\ row[7] = op.opcode
  /\ row[8] = op.low_path /\ row[9] = op.updated_low_path /\ row[10] = op.low_index
  /\ Agree(row, 10, op.low_leaf, 6)
  /\ row[17] = op.path /\ row[18] = op.updated_path /\ row[19] = op.index
  /\ Agree(row, 19, op.leaf, 6)
  /\ Agree(row, 25, StateFelts(op.final), 6)
  /\ row[32] = real

(* flatten! puts every field of an instruction in its place.               *)
LEMMA RowLayout ==
  ASSUME NEW op, IsLeaf(op.low_leaf), IsLeaf(op.leaf)
  PROVE  RowOf(Flattened(op), op, op.is_real)
<1> DEFINE low == op.low_leaf
           leaf == op.leaf
           before == StateFelts(op.initial)
           after == StateFelts(op.final)
           code == <<op.opcode>>
           paths == <<op.low_path, op.updated_low_path, op.low_index>>
           others == <<op.path, op.updated_path, op.index>>
           real == <<op.is_real>>
           S == {before[i] : i \in 1 .. 6} \cup {after[i] : i \in 1 .. 6}
                \cup {low[i] : i \in 1 .. 6} \cup {leaf[i] : i \in 1 .. 6}
                \cup {op.opcode, op.low_path, op.updated_low_path, op.low_index,
                      op.path, op.updated_path, op.index, op.is_real}
           r1 == before \o code
           r2 == r1 \o paths
           r3 == r2 \o low
           r4 == r3 \o others
           r5 == r4 \o leaf
           r6 == r5 \o after
           row == r6 \o real
<1>1. /\ op.opcode \in S /\ op.low_path \in S /\ op.updated_low_path \in S /\ op.low_index \in S
      /\ op.path \in S /\ op.updated_path \in S /\ op.index \in S /\ op.is_real \in S
      /\ {before[i] : i \in 1 .. 6} \subseteq S /\ {after[i] : i \in 1 .. 6} \subseteq S
      /\ {low[i] : i \in 1 .. 6} \subseteq S /\ {leaf[i] : i \in 1 .. 6} \subseteq S
  OBVIOUS
<1>2. IsLeaf(before) /\ IsLeaf(after)
  BY StateCells
<1>3. Flattened(op) = row
  BY DEF Flattened
<1> HIDE DEF S
<1>4. /\ code \in Seq(S) /\ Len(code) = 1 /\ code[1] = op.opcode
      /\ paths \in Seq(S) /\ Len(paths) = 3
      /\ paths[1] = op.low_path /\ paths[2] = op.updated_low_path /\ paths[3] = op.low_index
      /\ others \in Seq(S) /\ Len(others) = 3
      /\ others[1] = op.path /\ others[2] = op.updated_path /\ others[3] = op.index
      /\ real \in Seq(S) /\ Len(real) = 1 /\ real[1] = op.is_real
  BY <1>1
<1> HIDE DEF before, after, low, leaf, code, paths, others, real, r1, r2, r3, r4, r5, r6, row
<1>5. /\ before \in Seq(S) /\ Len(before) = 6 /\ after \in Seq(S) /\ Len(after) = 6
      /\ low \in Seq(S) /\ Len(low) = 6 /\ leaf \in Seq(S) /\ Len(leaf) = 6
  <2>1. ASSUME NEW felts, IsLeaf(felts), {felts[i] : i \in 1 .. 6} \subseteq S
        PROVE  felts \in Seq(S) /\ Len(felts) = 6
    BY <2>1, SeqMonotonic DEF IsLeaf
  <2>2. IsLeaf(low) /\ IsLeaf(leaf)
    BY DEF low, leaf
  <2>3. QED
    BY <1>1, <1>2, <2>1, <2>2
<1>6. r1 \in Seq(S) /\ Len(r1) = 7 /\ Agree(r1, 0, before, 6) /\ Agree(r1, 6, code, 1)
  <2>1. Joined(S, r1, before, code)
    BY <1>4, <1>5, TwoParts DEF r1
  <2>2. QED
    BY <2>1, <1>4, <1>5 DEF Joined
<1>7. r2 \in Seq(S) /\ Len(r2) = 10 /\ Agree(r2, 0, r1, 7) /\ Agree(r2, 7, paths, 3)
  <2>1. Joined(S, r2, r1, paths)
    BY <1>4, <1>6, TwoParts DEF r2
  <2>2. QED
    BY <2>1, <1>4, <1>6 DEF Joined
<1>8. r3 \in Seq(S) /\ Len(r3) = 16 /\ Agree(r3, 0, r2, 10) /\ Agree(r3, 10, low, 6)
  <2>1. Joined(S, r3, r2, low)
    BY <1>5, <1>7, TwoParts DEF r3
  <2>2. QED
    BY <2>1, <1>5, <1>7 DEF Joined
<1>9. r4 \in Seq(S) /\ Len(r4) = 19 /\ Agree(r4, 0, r3, 16) /\ Agree(r4, 16, others, 3)
  <2>1. Joined(S, r4, r3, others)
    BY <1>4, <1>8, TwoParts DEF r4
  <2>2. QED
    BY <2>1, <1>4, <1>8 DEF Joined
<1>10. r5 \in Seq(S) /\ Len(r5) = 25 /\ Agree(r5, 0, r4, 19) /\ Agree(r5, 19, leaf, 6)
  <2>1. Joined(S, r5, r4, leaf)
    BY <1>5, <1>9, TwoParts DEF r5
  <2>2. QED
    BY <2>1, <1>5, <1>9 DEF Joined
<1>11. r6 \in Seq(S) /\ Len(r6) = 31 /\ Agree(r6, 0, r5, 25) /\ Agree(r6, 25, after, 6)
  <2>1. Joined(S, r6, r5, after)
    BY <1>5, <1>10, TwoParts DEF r6
  <2>2. QED
    BY <2>1, <1>5, <1>10 DEF Joined
<1>12. row \in Seq(S) /\ Len(row) = 32 /\ Agree(row, 0, r6, 31) /\ Agree(row, 31, real, 1)
  <2>1. Joined(S, row, r6, real)
    BY <1>4, <1>11, TwoParts DEF row
  <2>2. QED
    BY <2>1, <1>4, <1>11 DEF Joined
<1>13. /\ Agree(row, 0, before, 6) /\ Agree(row, 6, code, 1) /\ Agree(row, 7, paths, 3)
       /\ Agree(row, 10, low, 6) /\ Agree(row, 16, others, 3) /\ Agree(row, 19, leaf, 6)
       /\ Agree(row, 25, after, 6)
  <2>0. /\ 31 = 25 + 6 /\ 25 = 19 + 6 /\ 19 = 16 + 3 /\ 16 = 10 + 6 /\ 10 = 7 + 3 /\ 7 = 6 + 1
        /\ 25 \in Nat /\ 19 \in Nat /\ 16 \in Nat /\ 10 \in Nat /\ 7 \in Nat
        /\ 6 \in Nat /\ 3 \in Nat /\ 1 \in Nat
    OBVIOUS
  <2>1. Agree(row, 0, r5, 25) /\ Agree(row, 25, after, 6)
    BY ONLY <1>11, <1>12, <2>0, AgreeInParts
  <2>2. Agree(row, 0, r4, 19) /\ Agree(row, 19, leaf, 6)
    BY ONLY <1>10, <2>1, <2>0, AgreeInParts
  <2>3. Agree(row, 0, r3, 16) /\ Agree(row, 16, others, 3)
    BY ONLY <1>9, <2>2, <2>0, AgreeInParts
  <2>4. Agree(row, 0, r2, 10) /\ Agree(row, 10, low, 6)
    BY ONLY <1>8, <2>3, <2>0, AgreeInParts
  <2>5. Agree(row, 0, r1, 7) /\ Agree(row, 7, paths, 3)
    BY ONLY <1>7, <2>4, <2>0, AgreeInParts
  <2>6. Agree(row, 0, before, 6) /\ Agree(row, 6, code, 1)
    BY ONLY <1>6, <2>5, <2>0, AgreeInParts
  <2>7. QED
    BY <2>1, <2>2, <2>3, <2>4, <2>5, <2>6
<1>14. IsRow(row)
  <2>1. row \in Seq({row[i] : i \in 1 .. 32})
    BY <1>12, OwnCells, ZenonT(30)
  <2>2. QED
    BY <1>12, <2>1 DEF IsRow
<1>15. /\ row[7] = code[1] /\ row[8] = paths[1] /\ row[9] = paths[2] /\ row[10] = paths[3]
       /\ row[17] = others[1] /\ row[18] = others[2] /\ row[19] = others[3] /\ row[32] = real[1]
  BY <1>12, <1>13 DEF Agree
<1>16. RowOf(row, op, op.is_real)
  BY <1>4, <1>13, <1>14, <1>15 DEF RowOf, before, after, low, leaf
<1>17. QED
  BY <1>3, <1>16

(* The row a table is padded with differs in its last cell.                *)
LEMMA DummyLayout ==
  ASSUME NEW row, NEW op, NEW real, RowOf(row, op, real)
  PROVE  RowOf(Dummy(row), op, 0)
<1> DEFINE T == {row[i] : i \in 1 .. 32} \cup {0}
           d == Dummy(row)
<1>1. d = [row EXCEPT ![32] = 0]
  BY DEF Dummy, InstructionColumn, NStateFelts, NLeafFelts
<1>2. Len(row) = 32 /\ row \in Seq({row[i] : i \in 1 .. 32})
  BY DEF RowOf, IsRow
<1>3. row \in Seq(T) /\ 0 \in T /\ 32 \in 1 .. Len(row)
  BY <1>2, SeqMonotonic
<1> HIDE DEF T, d
<1>4. /\ d \in Seq(T) /\ Len(d) = Len(row)
      /\ \A i \in 1 .. Len(row) : d[i] = IF i = 32 THEN 0 ELSE row[i]
  BY <1>1, <1>3, ExceptSeq
<1>5. IsRow(d)
  <2>1. d \in Seq({d[i] : i \in 1 .. Len(d)})
    BY <1>4, OwnCells
  <2>2. QED
    BY <1>2, <1>4, <2>1 DEF IsRow
<1>6. Agree(d, 0, row, 31) /\ d[32] = 0
  BY <1>2, <1>4 DEF Agree
<1>7. /\ Agree(d, 0, StateFelts(op.initial), 6) /\ Agree(d, 10, op.low_leaf, 6)
      /\ Agree(d, 19, op.leaf, 6) /\ Agree(d, 25, StateFelts(op.final), 6)
  BY <1>6, AgreeWithin DEF RowOf
<1>8. /\ d[7] = row[7] /\ d[8] = row[8] /\ d[9] = row[9] /\ d[10] = row[10]
      /\ d[17] = row[17] /\ d[18] = row[18] /\ d[19] = row[19]
  BY <1>6 DEF Agree
<1>9. QED
  BY <1>5, <1>6, <1>7, <1>8 DEF RowOf, d

-----------------------------------------------------------------------------
(* Reading the columns                                                     *)

LEMMA SixFromRow ==
  ASSUME NEW row, IsRow(row), NEW felts, IsLeaf(felts), NEW k \in Nat, k + 6 <= 32,
         Agree(row, k, felts, 6)
  PROVE  SubSeq(row, k + 1, k + 6) = felts
<1> DEFINE S == {row[i] : i \in 1 .. 32}
           six == SubSeq(row, k + 1, k + 6)
<1>1. \A i \in (k + 1) .. (k + 6) : row[i] \in S
  <2>1. \A i \in (k + 1) .. (k + 6) : i \in 1 .. 32
    OBVIOUS
  <2>2. QED
    BY <2>1
<1> HIDE DEF S, six
<1>2. /\ six \in Seq(S)
      /\ Len(six) = IF k + 1 <= k + 6 THEN (k + 6) - (k + 1) + 1 ELSE 0
      /\ \A i \in 1 .. (k + 6) - (k + 1) + 1 : six[i] = row[k + 1 + i - 1]
  <2>1. k + 1 \in Int /\ k + 6 \in Int
    OBVIOUS
  <2>2. QED
    BY <1>1, <2>1, SubSeqProperties DEF six
<1>3. Len(six) = 6 /\ \A i \in 1 .. 6 : six[i] = felts[i]
  <2>1. (k + 6) - (k + 1) + 1 = 6 /\ k + 1 <= k + 6 /\ \A i \in 1 .. 6 : k + 1 + i - 1 = k + i
    OBVIOUS
  <2>2. QED
    BY <1>2, <2>1 DEF Agree
<1>4. six = felts
  <2> DEFINE T == S \cup {felts[i] : i \in 1 .. 6}
  <2>1. six \in Seq(T) /\ felts \in Seq(T) /\ Len(felts) = 6
    BY <1>2, SeqMonotonic DEF IsLeaf
  <2> HIDE DEF T
  <2>2. QED
    BY <1>3, <2>1, SeqEqual
<1>5. QED
  BY <1>4 DEF six

(* A state as its cells show it.                                           *)
SameState(st, other) ==
  /\ st.n = other.n /\ st.op = other.op
  /\ \A s \in Sides : st.root[s] = other.root[s] /\ st.best[s] = other.best[s]

LEMMA StateReadsBack ==
  ASSUME NEW st
  PROVE  SameState(StateFrom(StateFelts(st)), st)
BY StateCells DEF StateFrom, SameState, Sides

(* from_eval reads back what flatten! wrote.                               *)
LEMMA ReadsBack ==
  ASSUME NEW row, NEW op, NEW real, RowOf(row, op, real), IsLeaf(op.low_leaf), IsLeaf(op.leaf)
  PROVE  LET e == FromEval(row) IN
         /\ SameState(e.initial, op.initial) /\ SameState(e.final, op.final)
         /\ e.opcode = op.opcode
         /\ e.low_path = op.low_path /\ e.updated_low_path = op.updated_low_path
         /\ e.low_index = op.low_index /\ e.low_leaf = op.low_leaf
         /\ e.path = op.path /\ e.updated_path = op.updated_path
         /\ e.index = op.index /\ e.leaf = op.leaf
         /\ e.is_real = real
<1>1. /\ SubSeq(row, 0 + 1, 0 + 6) = StateFelts(op.initial)
      /\ SubSeq(row, 10 + 1, 10 + 6) = op.low_leaf
      /\ SubSeq(row, 19 + 1, 19 + 6) = op.leaf
      /\ SubSeq(row, 25 + 1, 25 + 6) = StateFelts(op.final)
  BY SixFromRow, StateCells DEF RowOf
<1>2. /\ SubSeq(row, 1, 6) = StateFelts(op.initial) /\ SubSeq(row, 11, 16) = op.low_leaf
      /\ SubSeq(row, 20, 25) = op.leaf /\ SubSeq(row, 26, 31) = StateFelts(op.final)
  BY <1>1
<1> DEFINE e == FromEval(row)
<1>3. /\ e.initial = StateFrom(SubSeq(row, 1, 6)) /\ e.final = StateFrom(SubSeq(row, 26, 31))
      /\ e.low_leaf = SubSeq(row, 11, 16) /\ e.leaf = SubSeq(row, 20, 25)
      /\ e.opcode = row[7] /\ e.low_path = row[8] /\ e.updated_low_path = row[9]
      /\ e.low_index = row[10] /\ e.path = row[17] /\ e.updated_path = row[18]
      /\ e.index = row[19] /\ e.is_real = row[32]
  BY DEF FromEval
<1> HIDE DEF e
<1>4. SameState(e.initial, op.initial) /\ SameState(e.final, op.final)
  BY <1>2, <1>3, StateReadsBack, ZenonT(30)
<1>5. QED
  BY <1>2, <1>3, <1>4 DEF RowOf, e

LEMMA OpCodesDiffer ==
  ASSUME NEW s \in Sides, NEW r \in Sides, NEW op \in Operations, NEW q \in Operations,
         OpCode(s, op) = OpCode(r, q)
  PROVE  s = r /\ op = q
<1>1. /\ BuyCode["Insertion"] = 0 /\ BuyCode["MatchAggressive"] = 6
      /\ BuyCode["MatchPassive"] = 8 /\ BuyCode["PartialMatchAggressive"] = 10
      /\ BuyCode["PartialMatchPassive"] = 12
  BY DEF BuyCode
<1>2. QED
  BY <1>1 DEF OpCode, Operations, Sides

(* add_instruction finds the component by the opcode.                      *)
LEMMA ComponentFound ==
  ASSUME NEW row, NEW op, NEW real, RowOf(row, op, real),
         NEW s \in Sides, NEW kind \in Operations, op.opcode = OpCode(s, kind)
  PROVE  Component(row)[1] = s /\ Component(row)[2] = kind
<1> DEFINE Found(c) == c \in Sides \X Operations /\ OpCode(c[1], c[2]) = OpCode(s, kind)
<1>1. Cell(row, InstructionColumn.OPCODE) = OpCode(s, kind)
  BY DEF RowOf, Cell, InstructionColumn, NStateFelts
<1>2. Found(<<s, kind>>)
  OBVIOUS
<1>3. \A c : Found(c) => c[1] = s /\ c[2] = kind
  BY OpCodesDiffer
<1>4. Component(row) = CHOOSE c : Found(c)
  BY <1>1 DEF Component
<1>5. QED
  BY <1>2, <1>3, <1>4

-----------------------------------------------------------------------------
(* Leaves as cells                                                         *)

LEMMA TwoOfSix ==
  ASSUME NEW a, NEW b, NEW c, NEW d, NEW e, NEW f
  PROVE  LET felts == <<a, b, c, d, e, f>> IN
         /\ SubSeq(felts, 3, 4) = <<c, d>>
         /\ SubSeq(felts, 5, 6) = <<e, f>>
<1> DEFINE felts == <<a, b, c, d, e, f>>
           S == {a, b, c, d, e, f}
<1>1. /\ \A i \in 1 .. 6 : felts[i] \in S
      /\ felts[3] = c /\ felts[4] = d /\ felts[5] = e /\ felts[6] = f
      /\ <<c, d>> \in Seq(S) /\ Len(<<c, d>>) = 2 /\ <<c, d>>[1] = c /\ <<c, d>>[2] = d
      /\ <<e, f>> \in Seq(S) /\ Len(<<e, f>>) = 2 /\ <<e, f>>[1] = e /\ <<e, f>>[2] = f
  OBVIOUS
<1> DEFINE x == SubSeq(felts, 3, 4)
           y == SubSeq(felts, 5, 6)
           u == <<c, d>>
           v == <<e, f>>
<1> HIDE DEF felts, S
<1>2. /\ x \in Seq(S) /\ Len(x) = IF 3 <= 4 THEN 4 - 3 + 1 ELSE 0
      /\ \A i \in 1 .. 4 - 3 + 1 : x[i] = felts[3 + i - 1]
  BY <1>1, SubSeqProperties
<1>3. /\ y \in Seq(S) /\ Len(y) = IF 5 <= 6 THEN 6 - 5 + 1 ELSE 0
      /\ \A i \in 1 .. 6 - 5 + 1 : y[i] = felts[5 + i - 1]
  BY <1>1, SubSeqProperties
<1> HIDE DEF x, y
<1>4. x \in Seq(S) /\ Len(x) = 2 /\ x[1] = c /\ x[2] = d
  BY <1>1, <1>2
<1>5. y \in Seq(S) /\ Len(y) = 2 /\ y[1] = e /\ y[2] = f
  BY <1>1, <1>3
<1>6. u \in Seq(S) /\ v \in Seq(S) /\ Len(u) = 2 /\ Len(v) = 2
      /\ u[1] = c /\ u[2] = d /\ v[1] = e /\ v[2] = f
  BY <1>1
<1> HIDE DEF u, v
<1>7. x = u /\ y = v
  BY <1>4, <1>5, <1>6, SeqEqual
<1>8. QED
  BY <1>7 DEF x, y, u, v, felts

LEMMA LeafCells ==
  ASSUME NEW leaf
  PROVE  LET felts == LeafFelts(leaf) IN
         /\ IsLeaf(felts)
         /\ Cell(felts, LeafColumn.ACTIVE) = IF leaf.active THEN 1 ELSE 0
         /\ Cell(felts, LeafColumn.VOLUME) = leaf.volume
         /\ Cell(felts, LeafColumn.PRICE) = leaf.label.price
         /\ Cell(felts, LeafColumn.NEXT_PRICE) = leaf.next.price
         /\ LabelOf(felts) = <<leaf.label.price, leaf.label.time>>
         /\ NextOf(felts) = <<leaf.next.price, leaf.next.time>>
BY SixCells, TwoOfSix DEF LeafFelts, Cell, Cells, LeafColumn, LabelOf, NextOf

(* The first four cells of a leaf, pointing elsewhere.                     *)
LEMMA RelinkCells ==
  ASSUME NEW a, NEW b, NEW c, NEW d, NEW e, NEW f, NEW p, NEW q
  PROVE  Relinked(<<a, b, c, d, e, f>>, <<p, q>>) = <<a, b, c, d, p, q>>
<1> DEFINE felts == <<a, b, c, d, e, f>>
           S == {a, b, c, d, e, f, p, q}
           head == SubSeq(felts, 1, 4)
           tail == <<p, q>>
           six == <<a, b, c, d, p, q>>
<1>1. Relinked(felts, tail) = head \o tail
  BY DEF Relinked, Cells, LeafColumn
<1>2. /\ \A i \in 1 .. 4 : felts[i] \in S
      /\ felts[1] = a /\ felts[2] = b /\ felts[3] = c /\ felts[4] = d
      /\ tail \in Seq(S) /\ Len(tail) = 2 /\ tail[1] = p /\ tail[2] = q
      /\ six \in Seq(S) /\ Len(six) = 6 /\ six[1] = a /\ six[2] = b /\ six[3] = c
      /\ six[4] = d /\ six[5] = p /\ six[6] = q
  OBVIOUS
<1> HIDE DEF felts, S, tail, six
<1>3. /\ head \in Seq(S) /\ Len(head) = IF 1 <= 4 THEN 4 - 1 + 1 ELSE 0
      /\ \A i \in 1 .. 4 - 1 + 1 : head[i] = felts[1 + i - 1]
  BY <1>2, SubSeqProperties
<1> HIDE DEF head
<1>4. /\ head \in Seq(S) /\ Len(head) = 4
      /\ head[1] = a /\ head[2] = b /\ head[3] = c /\ head[4] = d
  BY <1>2, <1>3
<1>5. Joined(S, head \o tail, head, tail)
  BY <1>2, <1>4, TwoParts
<1> DEFINE r == head \o tail
<1> HIDE DEF r
<1>6. r \in Seq(S) /\ Len(r) = 6 /\ Agree(r, 0, head, 4) /\ Agree(r, 4, tail, 2)
  BY <1>2, <1>4, <1>5 DEF Joined, r
<1>7. /\ r[1] = head[1] /\ r[2] = head[2] /\ r[3] = head[3] /\ r[4] = head[4]
      /\ r[5] = tail[1] /\ r[6] = tail[2]
  BY <1>6 DEF Agree
<1>8. \A i \in 1 .. 6 : r[i] = six[i]
  <2>1. \A i \in 1 .. 6 : i = 1 \/ i = 2 \/ i = 3 \/ i = 4 \/ i = 5 \/ i = 6
    OBVIOUS
  <2>2. QED
    BY <1>2, <1>4, <1>7, <2>1
<1>9. r = six
  BY <1>2, <1>6, <1>8, SeqEqual
<1>10. QED
  BY <1>1, <1>9 DEF r, felts, tail, six

LEMMA HeadCells ==
  ASSUME NEW s \in Sides, NEW p, NEW q
  PROVE  HeadFelts(s, <<p, q>>) = <<1, 0, First(s).price, First(s).time, p, q>>
<1>1. LeafFelts(FirstLeaf(s))
        = <<1, 0, First(s).price, First(s).time, Last(s).price, Last(s).time>>
  BY DEF LeafFelts, FirstLeaf
<1>2. HeadFelts(s, <<p, q>>) = Relinked(LeafFelts(FirstLeaf(s)), <<p, q>>)
  BY DEF HeadFelts, Relinked
<1>3. QED
  BY <1>1, <1>2, RelinkCells

(* The cells in which a partial match keeps its volumes.                   *)
LEMMA VolumeCells ==
  ASSUME NEW a, NEW b
  PROVE  IsLeaf(<<a, b>> \o [i \in 1 .. NLeafFelts - 2 |-> 0])
<1> DEFINE S == {a, b, 0}
           head == <<a, b>>
           tail == [i \in 1 .. NLeafFelts - 2 |-> 0]
           r == head \o tail
<1>1. head \in Seq(S) /\ Len(head) = 2
  OBVIOUS
<1>2. tail \in Seq(S) /\ Len(tail) = 4
  BY DEF NLeafFelts
<1> HIDE DEF S, head, tail
<1>3. Joined(S, r, head, tail)
  BY <1>1, <1>2, TwoParts
<1> HIDE DEF r
<1>4. r \in Seq(S) /\ Len(r) = 6
  BY <1>1, <1>2, <1>3 DEF Joined
<1>5. IsLeaf(r)
  BY <1>4, OwnCells DEF IsLeaf
<1>6. QED
  BY <1>5 DEF r, head, tail

-----------------------------------------------------------------------------
(* Rows that satisfy the constraints                                       *)

(* What the component of an operation demands of an instruction.           *)
Demands(s, kind, op) ==
  /\ kind = "Insertion" => InsertionHolds(s, op)
  /\ kind \in Full => MatchHolds(s, kind, op)
  /\ kind \in Partial => PartialMatchHolds(s, kind, op)

(* An instruction as its columns show it, but for is_real.                 *)
SameColumns(e, op) ==
  /\ SameState(e.initial, op.initial) /\ SameState(e.final, op.final)
  /\ e.opcode = op.opcode
  /\ e.low_path = op.low_path /\ e.updated_low_path = op.updated_low_path
  /\ e.low_index = op.low_index /\ e.low_leaf = op.low_leaf
  /\ e.path = op.path /\ e.updated_path = op.updated_path
  /\ e.index = op.index /\ e.leaf = op.leaf

(* The constraints read nothing but the columns.                           *)
LEMMA DemandsOfColumns ==
  ASSUME NEW s \in Sides, NEW kind, NEW op, NEW e, SameColumns(e, op), e.is_real \in {0, 1},
         Demands(s, kind, op), ProcessorHolds(op)
  PROVE  Demands(s, kind, e) /\ ProcessorHolds(e)
<1>1. Opposite(s) \in Sides
  BY OppositeSide
<1>2. /\ e.initial.n = op.initial.n /\ e.final.n = op.final.n
      /\ e.initial.op = op.initial.op /\ e.final.op = op.final.op
      /\ \A r \in Sides : /\ e.initial.root[r] = op.initial.root[r]
                          /\ e.initial.best[r] = op.initial.best[r]
                          /\ e.final.root[r] = op.final.root[r]
                          /\ e.final.best[r] = op.final.best[r]
  BY DEF SameColumns, SameState
<1>3. ProcessorHolds(e) /\ Counted(e)
  BY <1>2 DEF ProcessorHolds, Counted, SameColumns
<1>4. kind = "Insertion" => InsertionHolds(s, e)
  BY <1>1, <1>2, <1>3 DEF Demands, InsertionHolds, SameColumns
<1>5. kind \in Full => MatchHolds(s, kind, e)
  BY <1>1, <1>2, <1>3 DEF Demands, MatchHolds, OtherSideKept, SameColumns
<1>6. kind \in Partial => PartialMatchHolds(s, kind, e)
  BY <1>1, <1>2, <1>3 DEF Demands, PartialMatchHolds, OtherSideKept, SameColumns
<1>7. QED
  BY <1>3, <1>4, <1>5, <1>6 DEF Demands

LEMMA KindsOfOperations ==
  ASSUME NEW kind \in Operations
  PROVE  /\ kind = "Insertion" \/ kind \in Full \/ kind \in Partial
         /\ ~ (kind = "Insertion" /\ kind \in Full)
         /\ ~ (kind = "Insertion" /\ kind \in Partial)
         /\ ~ (kind \in Full /\ kind \in Partial)
BY DEF Operations, Full, Partial

LEMMA LaidOutSatisfies ==
  ASSUME NEW s \in Sides, NEW kind \in Operations, NEW op, NEW row, NEW real \in {0, 1},
         RowOf(row, op, real), IsLeaf(op.low_leaf), IsLeaf(op.leaf),
         op.opcode = OpCode(s, kind), Demands(s, kind, op), ProcessorHolds(op)
  PROVE  Satisfies(row)
<1> DEFINE e == FromEval(row)
<1>1. SameColumns(e, op) /\ e.is_real = real
  BY ReadsBack DEF SameColumns
<1>2. Component(row)[1] = s /\ Component(row)[2] = kind
  BY ComponentFound
<1> HIDE DEF e
<1>3. Demands(s, kind, e) /\ ProcessorHolds(e)
  BY <1>1, DemandsOfColumns
<1>4. CASE kind = "Insertion"
  <2>1. InsertionHolds(s, e)
    BY <1>3, <1>4 DEF Demands
  <2>2. QED
    BY <1>2, <1>3, <1>4, <2>1, KindsOfOperations DEF Satisfies, e
<1>5. CASE kind \in Full
  <2>1. MatchHolds(s, kind, e)
    BY <1>3, <1>5 DEF Demands
  <2>2. QED
    BY <1>2, <1>3, <1>5, <2>1, KindsOfOperations DEF Satisfies, e
<1>6. CASE kind \in Partial
  <2>1. PartialMatchHolds(s, kind, e)
    BY <1>3, <1>6 DEF Demands
  <2>2. QED
    BY <1>2, <1>3, <1>6, <2>1, KindsOfOperations DEF Satisfies, e
<1>7. QED
  BY <1>4, <1>5, <1>6, KindsOfOperations

-----------------------------------------------------------------------------
(* Columns and entries                                                     *)

ColumnsMatch(row) ==
  /\ ComponentColumns(row) = Unbatched(ComponentEntries(row))
  /\ ProcessorColumns(row) = Batched(ProcessorEntries(row), ProcessorBatch)
  /\ Width(ComponentColumns(row)) = InteractionCols(Component(row)[2])
  /\ Len(ProcessorColumns(row)) = ProcessorInteractionCols

(* A sequence of n cells, and one that holds those of two.                 *)
IsCells(f, n) == n \in Nat /\ f \in Seq({f[i] : i \in 1 .. n}) /\ Len(f) = n

InTurn(c, a, m, b, n) ==
  /\ IsCells(c, m + n)
  /\ \A i \in 1 .. m : c[i] = a[i]
  /\ \A i \in 1 .. n : c[m + i] = b[i]

LEMMA CellsInTurn ==
  ASSUME NEW a, NEW m, IsCells(a, m), NEW b, NEW n, IsCells(b, n)
  PROVE  InTurn(a \o b, a, m, b, n)
<1> DEFINE c == a \o b
           A == {a[i] : i \in 1 .. m}
           B == {b[i] : i \in 1 .. n}
           S == A \cup B
<1>1. a \in Seq(A) /\ b \in Seq(B) /\ Len(a) = m /\ Len(b) = n /\ m \in Nat /\ n \in Nat
  BY DEF IsCells
<1> HIDE DEF A, B
<1>2. a \in Seq(S) /\ b \in Seq(S)
  BY <1>1, SeqMonotonic
<1> HIDE DEF S
<1>3. /\ c \in Seq(S) /\ Len(c) = m + n
      /\ \A i \in 1 .. m + n : c[i] = IF i <= m THEN a[i] ELSE b[i - m]
  BY <1>1, <1>2, ConcatProperties
<1> HIDE DEF c
<1>4. c \in Seq({c[i] : i \in 1 .. m + n})
  BY <1>3, OwnCells
<1>5. ASSUME NEW i \in 1 .. n PROVE c[m + i] = b[i]
  <2>1. m + i \in 1 .. m + n /\ ~ (m + i <= m) /\ (m + i) - m = i
    BY <1>1
  <2>2. QED
    BY <1>3, <2>1
<1>6. \A i \in 1 .. m : c[i] = a[i]
  BY <1>1, <1>3
<1>7. IsCells(c, m + n)
  BY <1>1, <1>3, <1>4 DEF IsCells
<1>8. InTurn(c, a, m, b, n)
  BY <1>5, <1>6, <1>7 DEF InTurn
<1>9. QED
  BY <1>8 DEF c

(* Columns that hold one entry each, n of them.                            *)
OneEach(columns, entries, n) ==
  /\ IsCells(columns, n) /\ IsCells(entries, n)
  /\ \A i \in 1 .. n : columns[i] = {entries[i]}

IsPath(entry) == entry.relation = "poseidon"

LEMMA OneEachOfOne ==
  ASSUME NEW a
  PROVE  OneEach(<<{a}>>, <<a>>, 1)
<1> DEFINE c == <<{a}>>
           e == <<a>>
<1>1. /\ c \in Seq({{a}}) /\ Len(c) = 1 /\ c[1] = {a}
      /\ e \in Seq({a}) /\ Len(e) = 1 /\ e[1] = a
  OBVIOUS
<1> HIDE DEF c, e
<1>2. c \in Seq({c[i] : i \in 1 .. 1}) /\ e \in Seq({e[i] : i \in 1 .. 1})
  BY <1>1, OwnCells
<1>3. QED
  BY <1>1, <1>2 DEF OneEach, IsCells, c, e

LEMMA OneEachOfTwo ==
  ASSUME NEW a, NEW b
  PROVE  OneEach(<<{a}, {b}>>, <<a, b>>, 2)
<1> DEFINE c == <<{a}, {b}>>
           e == <<a, b>>
<1>1. /\ c \in Seq({{a}, {b}}) /\ Len(c) = 2 /\ c[1] = {a} /\ c[2] = {b}
      /\ e \in Seq({a, b}) /\ Len(e) = 2 /\ e[1] = a /\ e[2] = b
  OBVIOUS
<1> HIDE DEF c, e
<1>2. c \in Seq({c[i] : i \in 1 .. 2}) /\ e \in Seq({e[i] : i \in 1 .. 2})
  BY <1>1, OwnCells
<1>3. QED
  BY <1>1, <1>2 DEF OneEach, IsCells, c, e

LEMMA OneEachInTurn ==
  ASSUME NEW c, NEW e, NEW m, OneEach(c, e, m), NEW d, NEW f, NEW n, OneEach(d, f, n)
  PROVE  OneEach(c \o d, e \o f, m + n)
<1> DEFINE x == c \o d
           y == e \o f
<1>1. /\ IsCells(c, m) /\ IsCells(e, m) /\ IsCells(d, n) /\ IsCells(f, n)
      /\ \A i \in 1 .. m : c[i] = {e[i]}
      /\ \A i \in 1 .. n : d[i] = {f[i]}
      /\ m \in Nat /\ n \in Nat
  BY DEF OneEach, IsCells
<1>2. InTurn(x, c, m, d, n)
  BY <1>1, CellsInTurn
<1>3. InTurn(y, e, m, f, n)
  BY <1>1, CellsInTurn
<1> HIDE DEF x, y
<1>4. ASSUME NEW i \in 1 .. m + n PROVE x[i] = {y[i]}
  <2>1. CASE i \in 1 .. m
    BY <1>1, <1>2, <1>3, <2>1 DEF InTurn
  <2>2. CASE i \notin 1 .. m
    <3>1. i - m \in 1 .. n /\ i = m + (i - m)
      BY <1>1, <2>2
    <3>2. x[m + (i - m)] = d[i - m] /\ y[m + (i - m)] = f[i - m] /\ d[i - m] = {f[i - m]}
      BY <1>1, <1>2, <1>3, <3>1 DEF InTurn
    <3>3. QED
      BY <3>1, <3>2
  <2>3. QED
    BY <2>1, <2>2
<1>5. OneEach(x, y, m + n)
  BY <1>2, <1>3, <1>4 DEF OneEach, InTurn
<1>6. QED
  BY <1>5 DEF x, y

(* The five entries every component ends with, in the order of both.       *)
Ends(entries, e, m, a, b, p, q, y) ==
  /\ \A i \in 1 .. m : entries[i] = e[i]
  /\ entries[m + 1] = a /\ entries[m + 2] = b /\ entries[m + 3] = p
  /\ entries[m + 4] = q /\ entries[m + 5] = y

LEMMA EndsAtOnce ==
  ASSUME NEW e, NEW m, IsCells(e, m), NEW a, NEW b, NEW p, NEW q, NEW y
  PROVE  LET entries == e \o <<a, b, p, q, y>> IN
         IsCells(entries, m + 5) /\ Ends(entries, e, m, a, b, p, q, y)
<1> DEFINE five == <<a, b, p, q, y>>
           entries == e \o five
<1>1. /\ five \in Seq({a, b, p, q, y}) /\ Len(five) = 5
      /\ five[1] = a /\ five[2] = b /\ five[3] = p /\ five[4] = q /\ five[5] = y
  OBVIOUS
<1> HIDE DEF five
<1>2. IsCells(five, 5)
  <2>1. five \in Seq({five[i] : i \in 1 .. 5})
    BY <1>1, OwnCells
  <2>2. QED
    BY <1>1, <2>1 DEF IsCells
<1>3. InTurn(entries, e, m, five, 5)
  BY <1>2, CellsInTurn
<1> HIDE DEF entries
<1>4. /\ entries[m + 1] = five[1] /\ entries[m + 2] = five[2] /\ entries[m + 3] = five[3]
      /\ entries[m + 4] = five[4] /\ entries[m + 5] = five[5]
  BY <1>3 DEF InTurn
<1>5. IsCells(entries, m + 5) /\ Ends(entries, e, m, a, b, p, q, y)
  BY <1>1, <1>3, <1>4 DEF InTurn, Ends
<1>6. QED
  BY <1>5 DEF entries, five

LEMMA EndsInSteps ==
  ASSUME NEW e, NEW m, IsCells(e, m), NEW a, NEW b, NEW p, NEW q, NEW y
  PROVE  Ends(e \o <<a, b>> \o <<p, q>> \o <<y>>, e, m, a, b, p, q, y)
<1> DEFINE two == <<a, b>>
           next == <<p, q>>
           one == <<y>>
           u == e \o two
           v == u \o next
           w == v \o one
<1>1. two[1] = a /\ two[2] = b /\ next[1] = p /\ next[2] = q /\ one[1] = y
  OBVIOUS
<1>2. IsCells(two, 2) /\ IsCells(next, 2) /\ IsCells(one, 1) /\ m \in Nat
  BY OneEachOfOne, OneEachOfTwo DEF OneEach, IsCells
<1> HIDE DEF two, next, one
<1>3. InTurn(u, e, m, two, 2)
  BY <1>2, CellsInTurn
<1>4. IsCells(u, m + 2)
  BY <1>3 DEF InTurn
<1> HIDE DEF u
<1>5. InTurn(v, u, m + 2, next, 2)
  BY <1>2, <1>4, CellsInTurn
<1>6. IsCells(v, (m + 2) + 2)
  BY <1>5 DEF InTurn
<1> HIDE DEF v
<1>7. InTurn(w, v, (m + 2) + 2, one, 1)
  BY <1>2, <1>6, CellsInTurn
<1> HIDE DEF w
<1>8. \A i \in 1 .. m + 2 : w[i] = u[i]
  BY <1>2, <1>5, <1>7 DEF InTurn
<1>9. \A i \in 1 .. m : w[i] = e[i]
  BY <1>2, <1>3, <1>8 DEF InTurn
<1>10. w[m + 1] = a /\ w[m + 2] = b
  <2>1. u[m + 1] = a /\ u[m + 2] = b /\ m + 1 \in 1 .. m + 2 /\ m + 2 \in 1 .. m + 2
    BY <1>1, <1>2, <1>3 DEF InTurn
  <2>2. QED
    BY <1>8, <2>1
<1>11. w[m + 3] = p /\ w[m + 4] = q
  <2>1. /\ v[(m + 2) + 1] = p /\ v[(m + 2) + 2] = q
    BY <1>1, <1>5 DEF InTurn
  <2>2. /\ (m + 2) + 1 = m + 3 /\ (m + 2) + 2 = m + 4
        /\ m + 3 \in 1 .. (m + 2) + 2 /\ m + 4 \in 1 .. (m + 2) + 2
    BY <1>2
  <2>3. QED
    BY <1>7, <2>1, <2>2 DEF InTurn
<1>12. w[m + 5] = y
  <2>1. w[((m + 2) + 2) + 1] = y
    BY <1>1, <1>7 DEF InTurn
  <2>2. ((m + 2) + 2) + 1 = m + 5
    BY <1>2
  <2>3. QED
    BY <2>1, <2>2
<1>13. Ends(w, e, m, a, b, p, q, y)
  BY <1>9, <1>10, <1>11, <1>12 DEF Ends
<1>14. QED
  BY <1>13 DEF w, v, u, one, next, two

LEMMA LastFive ==
  ASSUME NEW c, NEW e, NEW m, OneEach(c, e, m), NEW a, NEW b, NEW p, NEW q, NEW y
  PROVE  LET columns == c \o <<{a}, {b}>> \o <<{p}, {q}>> \o <<{y}>>
             entries == e \o <<a, b, p, q, y>>
         IN  OneEach(columns, entries, m + 5) /\ Ends(entries, e, m, a, b, p, q, y)
<1> DEFINE columns == c \o <<{a}, {b}>> \o <<{p}, {q}>> \o <<{y}>>
           steps == e \o <<a, b>> \o <<p, q>> \o <<y>>
           entries == e \o <<a, b, p, q, y>>
<1>1. OneEach(columns, steps, ((m + 2) + 2) + 1)
  BY OneEachOfOne, OneEachOfTwo, OneEachInTurn
<1>2. IsCells(e, m) /\ m \in Nat
  BY DEF OneEach, IsCells
<1>3. Ends(steps, e, m, a, b, p, q, y)
  BY <1>2, EndsInSteps
<1>4. IsCells(entries, m + 5) /\ Ends(entries, e, m, a, b, p, q, y)
  BY <1>2, EndsAtOnce
<1> HIDE DEF steps, columns, entries
<1>5. ((m + 2) + 2) + 1 = m + 5
  BY <1>2
<1>6. ASSUME NEW i \in 1 .. m + 5 PROVE columns[i] = {entries[i]}
  <2>1. columns[i] = {steps[i]}
    BY <1>1, <1>5 DEF OneEach
  <2>2. i \in 1 .. m \/ i = m + 1 \/ i = m + 2 \/ i = m + 3 \/ i = m + 4 \/ i = m + 5
    BY <1>2
  <2>3. steps[i] = entries[i]
    BY <1>3, <1>4, <2>2 DEF Ends
  <2>4. QED
    BY <2>1, <2>3
<1>7. OneEach(columns, entries, m + 5)
  BY <1>1, <1>4, <1>5, <1>6 DEF OneEach
<1>8. QED
  BY <1>4, <1>7 DEF columns, entries

(* The columns of the paths are next to each other.                        *)
PathsBetween(e, n, k, l) == \A i \in 1 .. n : IsPath(e[i]) <=> k < i /\ i <= l

LEMMA PathWidth ==
  ASSUME NEW c, NEW e, NEW n, OneEach(c, e, n), NEW k \in Nat, NEW l \in Nat, k <= l, l <= n,
         PathsBetween(e, n, k, l)
  PROVE  c = Unbatched(e) /\ Width(c) = <<l - k, n>>
<1> DEFINE P == {i \in DOMAIN c : \E f \in c[i] : f.relation = "poseidon"}
<1>1. /\ n \in Nat /\ c \in Seq({c[i] : i \in 1 .. n}) /\ Len(c) = n
      /\ e \in Seq({e[i] : i \in 1 .. n}) /\ Len(e) = n
      /\ \A i \in 1 .. n : c[i] = {e[i]}
  BY DEF OneEach, IsCells
<1>2. DOMAIN c = 1 .. n /\ DOMAIN e = 1 .. n
  BY <1>1
<1>3. c = Unbatched(e)
  <2>1. c = [i \in 1 .. n |-> c[i]]
    BY <1>1
  <2>2. [i \in 1 .. n |-> c[i]] = [i \in 1 .. n |-> {e[i]}]
    BY <1>1
  <2>3. QED
    BY <1>2, <2>1, <2>2 DEF Unbatched
<1>4. P = (k + 1) .. l
  <2>1. \A i \in 1 .. n : i \in P <=> IsPath(e[i])
    BY <1>1, <1>2 DEF IsPath
  <2>2. \A i : i \in P => i \in 1 .. n
    BY <1>2
  <2> HIDE DEF P
  <2>3. \A i : i \in P <=> i \in (k + 1) .. l
    <3>1. \A i : i \in (k + 1) .. l => i \in 1 .. n /\ k < i /\ i <= l
      BY <1>1
    <3>2. \A i \in 1 .. n : k < i /\ i <= l => i \in (k + 1) .. l
      BY <1>1
    <3>3. QED
      BY <2>1, <2>2, <3>1, <3>2 DEF PathsBetween
  <2>4. QED
    BY <2>3
<1>5. Cardinality((k + 1) .. l) = l - k
  <2>1. k + 1 \in Int /\ l \in Int
    OBVIOUS
  <2>2. Cardinality((k + 1) .. l) = IF k + 1 > l THEN 0 ELSE l - (k + 1) + 1
    BY <2>1, FS_Interval
  <2>3. QED
    BY <2>2
<1>6. QED
  BY <1>1, <1>3, <1>4, <1>5 DEF Width

(* What the interaction trace finds by offset is what the constraints read *)
(* one after the other.                                                    *)
Found(row, e) ==
  /\ e.is_real \in {0, 1} /\ Column(row, "IS_REAL") = e.is_real
  /\ Column(row, "LOW_INDEX") = e.low_index /\ Column(row, "INDEX") = e.index
  /\ Column(row, "LOW_MERKLE_PATH") = e.low_path
  /\ Column(row, "UPDATED_LOW_MERKLE_PATH") = e.updated_low_path
  /\ Column(row, "MERKLE_PATH") = e.path /\ Column(row, "UPDATED_MERKLE_PATH") = e.updated_path
  /\ LowLeafCols(row) = e.low_leaf /\ LeafCols(row) = e.leaf
  /\ Cell(row, InstructionColumn.LOW_LEAF) = e.low_leaf[1]
  /\ Cell(row, InstructionColumn.LOW_LEAF + 1) = e.low_leaf[2]
  /\ Cell(row, InstructionColumn.LEAF + LeafColumn.VOLUME) = Cell(e.leaf, LeafColumn.VOLUME)
  /\ \A s \in Sides : BestPriceCol(row, s) = e.initial.best[s]
  /\ Cells(row, InstructionColumn.INITIAL_STATE, NStateFelts) = StateFelts(e.initial)
  /\ Cells(row, InstructionColumn.FINAL_STATE, NStateFelts) = StateFelts(e.final)
  /\ row = Flattened(e)

LEMMA ColumnOfEntry ==
  ASSUME NEW real \in {0, 1}, NEW relation, NEW values
  PROVE  /\ InteractionCol(relation, values, real, 1) = {Entry(relation, values, real)}
         /\ InteractionCol(relation, values, real, -1) = {Entry(relation, values, -real)}
<1>1. 1 * real = real /\ (-1) * real = -real
  OBVIOUS
<1>2. QED
  BY <1>1 DEF InteractionCol

LEMMA NoPath ==
  ASSUME NEW relation, NEW values, NEW mult
  PROVE  IsPath(Entry(relation, values, mult)) <=> relation = "poseidon"
BY DEF IsPath, Entry

LEMMA InsertionColumnsMatch ==
  ASSUME NEW s \in Sides, NEW row, NEW e, Found(row, e)
  PROVE  LET columns == InsertionColumns(s, row)
             entries == InsertionEntries(s, e)
         IN  columns = Unbatched(entries) /\ Width(columns) = InteractionCols("Insertion")
<1> DEFINE columns == InsertionColumns(s, row)
           entries == InsertionEntries(s, e)
           r == e.is_real
           low == e.low_leaf
           leaf == e.leaf
           low_price == Cell(low, LeafColumn.PRICE)
           next_price == Cell(low, LeafColumn.NEXT_PRICE)
           price == Cell(leaf, LeafColumn.PRICE)
           time == Cell(leaf, LeafColumn.TIME)
           t == LessEntry("strict_less_than", Cell(low, LeafColumn.TIME), time, r)
           u == LessEntry("strict_less_than", Cell(low, LeafColumn.NEXT_TIME), time, r)
           v == IF s = "Buy" THEN LessEntry("less_than", price, low_price, r)
                             ELSE LessEntry("less_than", low_price, price, r)
           w == IF s = "Buy" THEN LessEntry("strict_less_than", next_price, price, r)
                             ELSE LessEntry("strict_less_than", price, next_price, r)
           a == PathEntry(low, e.low_index, e.low_path, r)
           b == PathEntry(Relinked(low, LabelOf(leaf)), e.low_index, e.updated_low_path, r)
           p == PathEntry(EmptyFelts, e.index, e.path, r)
           q == PathEntry(leaf, e.index, e.updated_path, r)
           y == Entry("instruction", Flattened(e), -r)
           heads == <<t, u>> \o <<v, w>>
           head_columns == <<{t}, {u}>> \o <<{v}, {w}>>
<1>1. entries = heads \o <<a, b, p, q, y>>
  BY DEF InsertionEntries
<1>2. /\ LowPathCols(row, low, Relinked(low, LabelOf(leaf))) = <<{a}, {b}>>
      /\ LeafPathCols(row, EmptyFelts, leaf) = <<{p}, {q}>>
      /\ YieldCol(row) = <<{y}>>
  BY ColumnOfEntry DEF Found, LowPathCols, LeafPathCols, YieldCol, PathCol, PathEntry
<1>3. columns = head_columns \o <<{a}, {b}>> \o <<{p}, {q}>> \o <<{y}>>
  <2>1. r \in {0, 1} /\ Column(row, "IS_REAL") = r /\ LowLeafCols(row) = low /\ LeafCols(row) = leaf
    BY DEF Found
  <2>2. \A relation, x, z : LessThanCol(relation, x, z, r) = {LessEntry(relation, x, z, r)}
    BY <2>1, ColumnOfEntry DEF LessThanCol, LessEntry
  <2> HIDE DEF r, low, leaf, a, b, p, q, y
  <2>3. QED
    BY <1>2, <2>1, <2>2, ZenonT(60) DEF InsertionColumns
<1>4. /\ ~ IsPath(t) /\ ~ IsPath(u) /\ ~ IsPath(v) /\ ~ IsPath(w) /\ ~ IsPath(y)
      /\ IsPath(a) /\ IsPath(b) /\ IsPath(p) /\ IsPath(q)
  BY NoPath DEF LessEntry, PathEntry
<1> HIDE DEF columns, entries, t, u, v, w, a, b, p, q, y
<1>5. OneEach(head_columns, heads, 4) /\ InTurn(heads, <<t, u>>, 2, <<v, w>>, 2)
  <2>1. OneEach(head_columns, heads, 2 + 2)
    BY OneEachOfTwo, OneEachInTurn
  <2>2. InTurn(heads, <<t, u>>, 2, <<v, w>>, 2)
    BY OneEachOfTwo, CellsInTurn DEF OneEach
  <2>3. QED
    BY <2>1, <2>2
<1>6. heads[1] = t /\ heads[2] = u /\ heads[3] = v /\ heads[4] = w
  <2>1. /\ \A i \in 1 .. 2 : heads[i] = <<t, u>>[i]
        /\ \A i \in 1 .. 2 : heads[2 + i] = <<v, w>>[i]
    BY <1>5 DEF InTurn
  <2> HIDE DEF heads
  <2>2. /\ heads[1] = <<t, u>>[1] /\ heads[2] = <<t, u>>[2]
        /\ heads[2 + 1] = <<v, w>>[1] /\ heads[2 + 2] = <<v, w>>[2]
    BY <2>1
  <2>3. QED
    BY <2>2
<1> HIDE DEF heads, head_columns
<1>7. OneEach(columns, entries, 9) /\ Ends(entries, heads, 4, a, b, p, q, y)
  <2>1. OneEach(columns, entries, 4 + 5) /\ Ends(entries, heads, 4, a, b, p, q, y)
    BY <1>1, <1>3, <1>5, LastFive
  <2>2. QED
    BY <2>1
<1>8. PathsBetween(entries, 9, 4, 8)
  <2>1. /\ ~ IsPath(entries[1]) /\ ~ IsPath(entries[2]) /\ ~ IsPath(entries[3])
        /\ ~ IsPath(entries[4]) /\ ~ IsPath(entries[9])
        /\ IsPath(entries[5]) /\ IsPath(entries[6]) /\ IsPath(entries[7]) /\ IsPath(entries[8])
    BY <1>4, <1>6, <1>7 DEF Ends
  <2>2. \A i \in 1 .. 9 : \/ i = 1 \/ i = 2 \/ i = 3 \/ i = 4 \/ i = 9
                          \/ i = 5 \/ i = 6 \/ i = 7 \/ i = 8
    OBVIOUS
  <2>3. QED
    BY <2>1, <2>2 DEF PathsBetween
<1>9. columns = Unbatched(entries) /\ Width(columns) = <<8 - 4, 9>>
  <2>1. 4 \in Nat /\ 8 \in Nat /\ 4 <= 8 /\ 8 <= 9
    OBVIOUS
  <2>2. QED
    BY ONLY <1>7, <1>8, <2>1, PathWidth
<1>10. InteractionCols("Insertion") = <<4, 9>>
  <2>1. "Insertion" \notin Full /\ "Insertion" \notin Partial
    BY DEF Full, Partial
  <2>2. QED
    BY <2>1 DEF InteractionCols
<1>11. QED
  BY <1>9, <1>10 DEF columns, entries

LEMMA TradeColumnsMatch ==
  ASSUME NEW s \in Sides, NEW kind, NEW row, NEW e, Found(row, e), NEW volume
  PROVE  LET columns == TradeColumns(s, kind, row, volume)
             entries == TradeEntries(s, kind, e, volume)
             n       == 1 + LessThanCols(kind)
         IN  OneEach(columns, entries, n) /\ \A i \in 1 .. n : ~ IsPath(entries[i])
<1> DEFINE columns == TradeColumns(s, kind, row, volume)
           entries == TradeEntries(s, kind, e, volume)
           n == 1 + LessThanCols(kind)
           r == e.is_real
           own == Cell(e.leaf, LeafColumn.PRICE)
           price == e.initial.best[Opposite(s)]
           less == IF s = "Buy" THEN LessEntry("less_than", price, own, r)
                                ELSE LessEntry("less_than", own, price, r)
           yield == Entry("match", <<price, volume>>, -r)
           use == Entry("match", <<own, volume>>, r)
<1>1. /\ r \in {0, 1} /\ Column(row, "IS_REAL") = r /\ LeafCols(row) = e.leaf
      /\ BestPriceCol(row, Opposite(s)) = price
  BY OppositeSide DEF Found
<1>2. /\ \A relation, x, z : LessThanCol(relation, x, z, r) = {LessEntry(relation, x, z, r)}
      /\ \A relation, x : /\ InteractionCol(relation, x, r, -1) = {Entry(relation, x, -r)}
                          /\ InteractionCol(relation, x, r, 1) = {Entry(relation, x, r)}
  BY <1>1, ColumnOfEntry DEF LessThanCol, LessEntry
<1>3. ~ IsPath(less) /\ ~ IsPath(yield) /\ ~ IsPath(use)
  BY NoPath DEF LessEntry
<1>4. CASE kind \in Aggressive
  <2>1. n = 2
    BY <1>4 DEF LessThanCols
  <2>2. entries = <<less, yield>>
    BY <1>4 DEF TradeEntries
  <2> HIDE DEF r, own, price
  <2>3. columns = <<{less}, {yield}>>
    BY <1>1, <1>2, <1>4 DEF TradeColumns, own
  <2> HIDE DEF columns, entries, n, less, yield
  <2>4. OneEach(columns, entries, 2) /\ entries[1] = less /\ entries[2] = yield
    BY <2>2, <2>3, OneEachOfTwo
  <2>5. \A i \in 1 .. 2 : i = 1 \/ i = 2
    OBVIOUS
  <2>6. OneEach(columns, entries, n) /\ \A i \in 1 .. n : ~ IsPath(entries[i])
    BY <1>3, <2>1, <2>4, <2>5
  <2>7. QED
    BY <2>6 DEF columns, entries, n
<1>5. CASE kind \notin Aggressive
  <2>1. n = 1
    BY <1>5 DEF LessThanCols
  <2>2. entries = <<use>>
    BY <1>5 DEF TradeEntries
  <2> HIDE DEF r, own, price
  <2>3. columns = <<{use}>>
    BY <1>1, <1>2, <1>5 DEF TradeColumns, own
  <2> HIDE DEF columns, entries, n, use
  <2>4. OneEach(columns, entries, 1) /\ entries[1] = use
    BY <2>2, <2>3, OneEachOfOne
  <2>5. \A i \in 1 .. 1 : i = 1
    OBVIOUS
  <2>6. OneEach(columns, entries, n) /\ \A i \in 1 .. n : ~ IsPath(entries[i])
    BY <1>3, <2>1, <2>4, <2>5
  <2>7. QED
    BY <2>6 DEF columns, entries, n
<1>6. QED
  BY <1>4, <1>5

(* What follows the trade: four paths, or an addition and three paths.     *)
Behind(columns, entries, c, e, a, b, p, q, y) ==
  /\ columns = c \o <<{a}, {b}>> \o <<{p}, {q}>> \o <<{y}>>
  /\ entries = e \o <<a, b, p, q, y>>

LEMMA BehindTrade ==
  ASSUME NEW c, NEW e, NEW n \in Nat, OneEach(c, e, n), \A i \in 1 .. n : ~ IsPath(e[i]),
         NEW a, NEW b, NEW p, NEW q, NEW y,
         IsPath(b), IsPath(p), IsPath(q), ~ IsPath(y),
         NEW columns, NEW entries, Behind(columns, entries, c, e, a, b, p, q, y)
  PROVE  /\ columns = Unbatched(entries)
         /\ Width(columns) = <<IF IsPath(a) THEN 4 ELSE 3, n + 5>>
<1> DEFINE k == IF IsPath(a) THEN n ELSE n + 1
<1>1. OneEach(columns, entries, n + 5) /\ Ends(entries, e, n, a, b, p, q, y)
  BY LastFive DEF Behind
<1>2. ASSUME NEW i \in 1 .. n + 5 PROVE IsPath(entries[i]) <=> k < i /\ i <= n + 4
  <2>1. CASE i \in 1 .. n
    <3>1. ~ IsPath(entries[i])
      BY <1>1, <2>1 DEF Ends
    <3>2. ~ (k < i)
      BY <2>1
    <3>3. QED
      BY <3>1, <3>2
  <2>2. CASE i = n + 1
    BY <1>1, <2>2 DEF Ends
  <2>3. CASE i = n + 2 \/ i = n + 3 \/ i = n + 4
    <3>1. IsPath(entries[i])
      BY <1>1, <2>3 DEF Ends
    <3>2. k < i /\ i <= n + 4
      BY <2>3
    <3>3. QED
      BY <3>1, <3>2
  <2>4. CASE i = n + 5
    BY <1>1, <2>4 DEF Ends
  <2>5. QED
    BY <2>1, <2>2, <2>3, <2>4
<1>3. k \in Nat /\ n + 4 \in Nat /\ k <= n + 4 /\ n + 4 <= n + 5
  OBVIOUS
<1>4. (n + 4) - k = IF IsPath(a) THEN 4 ELSE 3
  OBVIOUS
<1> HIDE DEF k
<1>5. PathsBetween(entries, n + 5, k, n + 4)
  BY <1>2 DEF PathsBetween
<1>6. columns = Unbatched(entries) /\ Width(columns) = <<(n + 4) - k, n + 5>>
  BY ONLY <1>1, <1>3, <1>5, PathWidth
<1>7. QED
  BY <1>4, <1>6

LEMMA MatchColumnsMatch ==
  ASSUME NEW s \in Sides, NEW kind \in Full, NEW row, NEW e, Found(row, e)
  PROVE  LET columns == MatchColumns(s, kind, row)
             entries == MatchEntries(s, kind, e)
         IN  columns = Unbatched(entries) /\ Width(columns) = InteractionCols(kind)
<1> DEFINE columns == MatchColumns(s, kind, row)
           entries == MatchEntries(s, kind, e)
           r == e.is_real
           low == e.low_leaf
           leaf == e.leaf
           n == 1 + LessThanCols(kind)
           a == PathEntry(low, e.low_index, e.low_path, r)
           b == PathEntry(Relinked(low, NextOf(leaf)), e.low_index, e.updated_low_path, r)
           p == PathEntry(leaf, e.index, e.path, r)
           q == PathEntry(Disabled(leaf), e.index, e.updated_path, r)
           y == Entry("instruction", Flattened(e), -r)
           heads == TradeEntries(s, kind, e, Cell(leaf, LeafColumn.VOLUME))
           head_columns == TradeColumns(s, kind, row, Cell(leaf, LeafColumn.VOLUME))
<1>1. entries = heads \o <<a, b, p, q, y>>
  BY DEF MatchEntries
<1>2. /\ LowPathCols(row, low, Relinked(low, NextOf(leaf))) = <<{a}, {b}>>
      /\ LeafPathCols(row, leaf, Disabled(leaf)) = <<{p}, {q}>>
      /\ YieldCol(row) = <<{y}>>
  BY ColumnOfEntry DEF Found, LowPathCols, LeafPathCols, YieldCol, PathCol, PathEntry
<1>3. columns = head_columns \o <<{a}, {b}>> \o <<{p}, {q}>> \o <<{y}>>
  <2>1. LowLeafCols(row) = low /\ LeafCols(row) = leaf
    BY DEF Found
  <2> HIDE DEF low, leaf, a, b, p, q, y
  <2>2. QED
    BY <1>2, <2>1 DEF MatchColumns
<1>4. ~ IsPath(y) /\ IsPath(a) /\ IsPath(b) /\ IsPath(p) /\ IsPath(q)
  BY NoPath DEF PathEntry
<1>5. OneEach(head_columns, heads, n) /\ \A i \in 1 .. n : ~ IsPath(heads[i])
  BY TradeColumnsMatch
<1>6. n \in Nat /\ n + 5 = 6 + LessThanCols(kind)
  BY DEF LessThanCols
<1>7. InteractionCols(kind) = <<4, 6 + LessThanCols(kind)>>
  <2>1. kind # "Insertion" /\ kind \notin Partial
    BY DEF Full, Partial
  <2>2. QED
    BY <2>1 DEF InteractionCols
<1> HIDE DEF columns, entries, heads, head_columns, n, a, b, p, q, y
<1>8. columns = Unbatched(entries) /\ Width(columns) = <<4, n + 5>>
  <2>1. /\ columns = Unbatched(entries)
        /\ Width(columns) = <<IF IsPath(a) THEN 4 ELSE 3, n + 5>>
    <3>1. Behind(columns, entries, head_columns, heads, a, b, p, q, y)
      BY <1>1, <1>3 DEF Behind
    <3>2. QED
      BY <1>4, <1>5, <1>6, <3>1, BehindTrade
  <2>2. QED
    BY <1>4, <2>1
<1>9. QED
  BY <1>6, <1>7, <1>8 DEF columns, entries

LEMMA PartialMatchColumnsMatch ==
  ASSUME NEW s \in Sides, NEW kind \in Partial, NEW row, NEW e, Found(row, e)
  PROVE  LET columns == PartialMatchColumns(s, kind, row)
             entries == PartialMatchEntries(s, kind, e)
         IN  columns = Unbatched(entries) /\ Width(columns) = InteractionCols(kind)
<1> DEFINE columns == PartialMatchColumns(s, kind, row)
           entries == PartialMatchEntries(s, kind, e)
           r == e.is_real
           leaf == e.leaf
           filled == e.low_leaf[1]
           remaining == e.low_leaf[2]
           n == 1 + LessThanCols(kind)
           a == Entry("add", <<filled, remaining, Cell(leaf, LeafColumn.VOLUME)>>, r)
           b == PathEntry(HeadFelts(s, LabelOf(leaf)), e.low_index, e.low_path, r)
           p == PathEntry(leaf, e.index, e.path, r)
           q == PathEntry(Revalued(leaf, remaining), e.index, e.updated_path, r)
           y == Entry("instruction", Flattened(e), -r)
           heads == TradeEntries(s, kind, e, filled)
           head_columns == TradeColumns(s, kind, row, filled)
<1>1. entries = heads \o <<a, b, p, q, y>>
  BY DEF PartialMatchEntries
<1>2. /\ LeafPathCols(row, leaf, Revalued(leaf, remaining)) = <<{p}, {q}>>
      /\ YieldCol(row) = <<{y}>>
      /\ PathCol(HeadFelts(s, LabelOf(leaf)), Column(row, "LOW_INDEX"),
                 Column(row, "LOW_MERKLE_PATH"), Column(row, "IS_REAL")) = {b}
      /\ InteractionCol("add", <<filled, remaining, Cell(leaf, LeafColumn.VOLUME)>>,
                        Column(row, "IS_REAL"), 1) = {a}
  BY ColumnOfEntry DEF Found, LeafPathCols, YieldCol, PathCol, PathEntry
<1>3. columns = head_columns \o <<{a}, {b}>> \o <<{p}, {q}>> \o <<{y}>>
  <2>1. /\ LeafCols(row) = leaf /\ Cell(row, InstructionColumn.LOW_LEAF) = filled
        /\ Cell(row, InstructionColumn.LOW_LEAF + 1) = remaining
        /\ Cell(row, InstructionColumn.LEAF + LeafColumn.VOLUME) = Cell(leaf, LeafColumn.VOLUME)
    BY DEF Found
  <2> HIDE DEF filled, remaining, leaf, a, b, p, q, y
  <2>2. QED
    BY <1>2, <2>1 DEF PartialMatchColumns
<1>4. ~ IsPath(y) /\ ~ IsPath(a) /\ IsPath(b) /\ IsPath(p) /\ IsPath(q)
  BY NoPath DEF PathEntry
<1>5. OneEach(head_columns, heads, n) /\ \A i \in 1 .. n : ~ IsPath(heads[i])
  BY TradeColumnsMatch
<1>6. n \in Nat /\ n + 5 = 6 + LessThanCols(kind)
  BY DEF LessThanCols
<1>7. InteractionCols(kind) = <<3, 6 + LessThanCols(kind)>>
  <2>1. kind # "Insertion" /\ kind \notin Full
    BY DEF Full, Partial
  <2>2. QED
    BY <2>1 DEF InteractionCols
<1> HIDE DEF columns, entries, heads, head_columns, n, a, b, p, q, y
<1>8. columns = Unbatched(entries) /\ Width(columns) = <<3, n + 5>>
  <2>1. /\ columns = Unbatched(entries)
        /\ Width(columns) = <<IF IsPath(a) THEN 4 ELSE 3, n + 5>>
    <3>1. Behind(columns, entries, head_columns, heads, a, b, p, q, y)
      BY <1>1, <1>3 DEF Behind
    <3>2. QED
      BY <1>4, <1>5, <1>6, <3>1, BehindTrade
  <2>2. QED
    BY <1>4, <2>1
<1>9. QED
  BY <1>6, <1>7, <1>8 DEF columns, entries

LEMMA ProcessorColumnsMatch ==
  ASSUME NEW row, Found(row, FromEval(row))
  PROVE  /\ ProcessorColumns(row) = Batched(ProcessorEntries(row), ProcessorBatch)
         /\ Len(ProcessorColumns(row)) = ProcessorInteractionCols
<1> DEFINE e == FromEval(row)
           r == e.is_real
           before == Entry("state", StateFelts(e.initial), r)
           read == Entry("instruction", Flattened(e), r)
           after == Entry("state", StateFelts(e.final), -r)
           entries == <<before, read, after>>
           columns == <<{before} \cup {after}, {read}>>
<1>1. ProcessorEntries(row) = entries
  BY DEF ProcessorEntries
<1>2. ProcessorColumns(row) = columns
  BY ColumnOfEntry DEF Found, ProcessorColumns
<1> HIDE DEF before, read, after
<1>3. entries[1] = before /\ entries[2] = read /\ entries[3] = after
  OBVIOUS
<1>4. /\ columns = [c \in 1 .. 2 |-> IF c = 1 THEN {before} \cup {after} ELSE {read}]
      /\ Len(columns) = 2
  OBVIOUS
<1> HIDE DEF entries, columns, e
<1> DEFINE batch == <<0, 1, 0>>
<1>5. DOMAIN batch = {1, 2, 3} /\ batch[1] = 0 /\ batch[2] = 1 /\ batch[3] = 0
  OBVIOUS
<1> HIDE DEF batch
<1>6. {batch[i] : i \in DOMAIN batch} = {0, 1}
  BY <1>5
<1>7. Cardinality({batch[i] : i \in DOMAIN batch}) = 2
  <2>1. {0, 1} = 0 .. 1
    OBVIOUS
  <2>2. \A i, j \in Int : Cardinality(i .. j) = IF i > j THEN 0 ELSE j - i + 1
    BY FS_Interval
  <2>3. 0 \in Int /\ 1 \in Int /\ ~ (0 > 1) /\ 1 - 0 + 1 = 2
    OBVIOUS
  <2>4. Cardinality(0 .. 1) = IF 0 > 1 THEN 0 ELSE 1 - 0 + 1
    BY ONLY <2>2, <2>3, Zenon
  <2>5. QED
    BY <1>6, <2>1, <2>3, <2>4
<1>8. ASSUME NEW c \in 1 .. 2
      PROVE  {entries[i] : i \in {i \in DOMAIN batch : batch[i] = c - 1}}
               = IF c = 1 THEN {before} \cup {after} ELSE {read}
  <2>1. CASE c = 1
    <3>1. {i \in DOMAIN batch : batch[i] = c - 1} = {1, 3}
      BY <1>5, <2>1
    <3>2. QED
      BY <1>3, <2>1, <3>1
  <2>2. CASE c = 2
    <3>1. {i \in DOMAIN batch : batch[i] = c - 1} = {2}
      BY <1>5, <2>2
    <3>2. QED
      BY <1>3, <2>2, <3>1
  <2>3. QED
    BY <2>1, <2>2
<1>9. columns = Batched(entries, batch)
  BY <1>4, <1>7, <1>8 DEF Batched
<1>10. QED
  BY <1>1, <1>2, <1>4, <1>9 DEF ProcessorBatch, ProcessorInteractionCols, batch

(* The cells of a state, found at their offsets in the row.                *)
LEMMA FoundInRow ==
  ASSUME NEW op, NEW row, NEW real \in {0, 1}, RowOf(row, op, real),
         IsLeaf(op.low_leaf), IsLeaf(op.leaf)
  PROVE  Found(row, FromEval(row))
<1> DEFINE e == FromEval(row)
           before == StateFelts(e.initial)
           after == StateFelts(e.final)
<1>1. SameColumns(e, op) /\ e.is_real = real
  BY ReadsBack DEF SameColumns
<1>2. before = StateFelts(op.initial) /\ after = StateFelts(op.final)
  BY <1>1 DEF SameColumns, SameState, StateFelts, Sides
<1>3. /\ e.low_leaf = op.low_leaf /\ e.leaf = op.leaf
      /\ e.low_leaf = SubSeq(row, 11, 16) /\ e.leaf = SubSeq(row, 20, 25)
  BY <1>1 DEF SameColumns, FromEval
<1>4. /\ Cells(row, InstructionColumn.INITIAL_STATE, NStateFelts) = before
      /\ Cells(row, InstructionColumn.FINAL_STATE, NStateFelts) = after
  <2>1. /\ SubSeq(row, 0 + 1, 0 + 6) = StateFelts(op.initial)
        /\ SubSeq(row, 25 + 1, 25 + 6) = StateFelts(op.final)
    BY SixFromRow, StateCells DEF RowOf
  <2>2. QED
    BY <1>2, <2>1 DEF Cells, InstructionColumn, NStateFelts, NLeafFelts
<1>5. /\ row[11] = e.low_leaf[1] /\ row[12] = e.low_leaf[2] /\ row[21] = e.leaf[2]
      /\ row[3] = before[3] /\ row[5] = before[5]
  <2>1. /\ \A i \in 1 .. 6 : row[10 + i] = op.low_leaf[i]
        /\ \A i \in 1 .. 6 : row[19 + i] = op.leaf[i]
        /\ \A i \in 1 .. 6 : row[0 + i] = StateFelts(op.initial)[i]
    BY DEF RowOf, Agree
  <2>2. /\ row[10 + 1] = op.low_leaf[1] /\ row[10 + 2] = op.low_leaf[2]
        /\ row[19 + 2] = op.leaf[2]
        /\ row[0 + 3] = StateFelts(op.initial)[3] /\ row[0 + 5] = StateFelts(op.initial)[5]
    BY <2>1
  <2>3. QED
    BY <1>2, <1>3, <2>2
<1>6. \A s \in Sides : BestPriceCol(row, s) = e.initial.best[s]
  <2>1. before[3] = e.initial.best["Buy"] /\ before[5] = e.initial.best["Sell"]
    BY StateCells
  <2>2. BestPriceCol(row, "Buy") = row[3] /\ BestPriceCol(row, "Sell") = row[5]
    BY DEF BestPriceCol, Cell, InstructionColumn, StateColumn
  <2>3. QED
    BY <1>5, <2>1, <2>2 DEF Sides
<1>7. row = Flattened(e)
  <2> DEFINE f == Flattened(e)
  <2>1. RowOf(f, e, e.is_real)
    BY <1>3, RowLayout
  <2> HIDE DEF f
  <2>2. RowOf(f, op, real)
    BY <1>1, <1>2, <2>1 DEF RowOf, SameColumns
  <2> HIDE DEF e
  <2>3. \A i \in 1 .. 6 : /\ row[0 + i] = f[0 + i] /\ row[10 + i] = f[10 + i]
                          /\ row[19 + i] = f[19 + i] /\ row[25 + i] = f[25 + i]
    BY <2>2 DEF RowOf, Agree
  <2>4. /\ row[7] = f[7] /\ row[8] = f[8] /\ row[9] = f[9] /\ row[10] = f[10]
        /\ row[17] = f[17] /\ row[18] = f[18] /\ row[19] = f[19] /\ row[32] = f[32]
    BY <2>2 DEF RowOf
  <2>5. ASSUME NEW i \in 1 .. 32 PROVE row[i] = f[i]
    <3>1. CASE i \in 1 .. 6
      BY <2>3, <3>1
    <3>2. CASE i \in 11 .. 16
      <4>1. i - 10 \in 1 .. 6 /\ i = 10 + (i - 10)
        BY <3>2
      <4>2. QED
        BY <2>3, <4>1
    <3>3. CASE i \in 20 .. 25
      <4>1. i - 19 \in 1 .. 6 /\ i = 19 + (i - 19)
        BY <3>3
      <4>2. QED
        BY <2>3, <4>1
    <3>4. CASE i \in 26 .. 31
      <4>1. i - 25 \in 1 .. 6 /\ i = 25 + (i - 25)
        BY <3>4
      <4>2. QED
        BY <2>3, <4>1
    <3>5. CASE i \in {7, 8, 9, 10, 17, 18, 19, 32}
      BY <2>4, <3>5
    <3>6. QED
      BY <3>1, <3>2, <3>3, <3>4, <3>5
  <2>6. row = f
    <3> DEFINE S == {row[i] : i \in 1 .. 32} \cup {f[i] : i \in 1 .. 32}
    <3>1. row \in Seq(S) /\ f \in Seq(S) /\ Len(row) = 32 /\ Len(f) = 32
      BY <2>2, SeqMonotonic DEF RowOf, IsRow
    <3> HIDE DEF S
    <3>2. QED
      BY <2>5, <3>1, SeqEqual
  <2>7. QED
    BY <2>6 DEF f, e
<1>8. /\ Column(row, "IS_REAL") = e.is_real
      /\ Column(row, "LOW_INDEX") = e.low_index /\ Column(row, "INDEX") = e.index
      /\ Column(row, "LOW_MERKLE_PATH") = e.low_path
      /\ Column(row, "UPDATED_LOW_MERKLE_PATH") = e.updated_low_path
      /\ Column(row, "MERKLE_PATH") = e.path /\ Column(row, "UPDATED_MERKLE_PATH") = e.updated_path
  BY DEF Column, Cell, InstructionColumn, NStateFelts, NLeafFelts, FromEval
<1>9. /\ LowLeafCols(row) = e.low_leaf /\ LeafCols(row) = e.leaf
      /\ Cell(row, InstructionColumn.LOW_LEAF) = e.low_leaf[1]
      /\ Cell(row, InstructionColumn.LOW_LEAF + 1) = e.low_leaf[2]
      /\ Cell(row, InstructionColumn.LEAF + LeafColumn.VOLUME) = Cell(e.leaf, LeafColumn.VOLUME)
  <2> HIDE DEF e
  <2>1. LowLeafCols(row) = SubSeq(row, 11, 16) /\ LeafCols(row) = SubSeq(row, 20, 25)
    BY DEF LowLeafCols, LeafCols, Cells, InstructionColumn, NStateFelts, NLeafFelts
  <2>2. QED
    BY <1>3, <1>5, <2>1 DEF Cell, InstructionColumn, LeafColumn, NStateFelts, NLeafFelts
<1> HIDE DEF e, before, after
<1>10. Found(row, e)
  BY <1>1, <1>4, <1>6, <1>7, <1>8, <1>9 DEF Found, before, after
<1>11. QED
  BY <1>10 DEF e

LEMMA LaidOutMatches ==
  ASSUME NEW s \in Sides, NEW kind \in Operations, NEW op, NEW row, NEW real \in {0, 1},
         RowOf(row, op, real), IsLeaf(op.low_leaf), IsLeaf(op.leaf),
         op.opcode = OpCode(s, kind)
  PROVE  ColumnsMatch(row)
<1> DEFINE e == FromEval(row)
<1>1. Found(row, e)
  BY FoundInRow
<1>2. Component(row)[1] = s /\ Component(row)[2] = kind
  BY ComponentFound
<1>3. /\ ProcessorColumns(row) = Batched(ProcessorEntries(row), ProcessorBatch)
      /\ Len(ProcessorColumns(row)) = ProcessorInteractionCols
  BY <1>1, ProcessorColumnsMatch
<1> HIDE DEF e
<1>4. /\ ComponentColumns(row) = Unbatched(ComponentEntries(row))
      /\ Width(ComponentColumns(row)) = InteractionCols(kind)
  <2>1. CASE kind = "Insertion"
    <3>1. /\ ComponentColumns(row) = InsertionColumns(s, row)
          /\ ComponentEntries(row) = InsertionEntries(s, e)
      BY <1>2, <2>1 DEF ComponentColumns, ComponentEntries, e, Full, Partial
    <3>2. QED
      BY <1>1, <2>1, <3>1, InsertionColumnsMatch
  <2>2. CASE kind \in Full
    <3>1. /\ ComponentColumns(row) = MatchColumns(s, kind, row)
          /\ ComponentEntries(row) = MatchEntries(s, kind, e)
      BY <1>2, <2>2, KindsOfOperations DEF ComponentColumns, ComponentEntries, e
    <3>2. QED
      BY <1>1, <2>2, <3>1, MatchColumnsMatch
  <2>3. CASE kind \in Partial
    <3>1. /\ ComponentColumns(row) = PartialMatchColumns(s, kind, row)
          /\ ComponentEntries(row) = PartialMatchEntries(s, kind, e)
      BY <1>2, <2>3, KindsOfOperations DEF ComponentColumns, ComponentEntries, e
    <3>2. QED
      BY <1>1, <2>3, <3>1, PartialMatchColumnsMatch
  <2>4. QED
    BY <2>1, <2>2, <2>3, KindsOfOperations
<1>5. QED
  BY <1>2, <1>3, <1>4 DEF ColumnsMatch

-----------------------------------------------------------------------------
(* A row that can be proved, and padded with                               *)

Provable(row) ==
  /\ Satisfies(row) /\ Satisfies(Dummy(row))
  /\ ColumnsMatch(row) /\ ColumnsMatch(Dummy(row))

LEMMA InstructionSatisfies ==
  ASSUME NEW s \in Sides, NEW kind \in Operations, NEW op,
         IsLeaf(op.low_leaf), IsLeaf(op.leaf), op.is_real = 1,
         op.opcode = OpCode(s, kind), Demands(s, kind, op), ProcessorHolds(op)
  PROVE  Provable(Flattened(op))
<1> DEFINE row == Flattened(op)
           pad == Dummy(row)
<1>1. RowOf(row, op, 1)
  BY RowLayout
<1> HIDE DEF row
<1>2. RowOf(pad, op, 0)
  BY <1>1, DummyLayout
<1> HIDE DEF pad
<1>3. Satisfies(row) /\ Satisfies(pad)
  BY <1>1, <1>2, LaidOutSatisfies
<1>4. ColumnsMatch(row) /\ ColumnsMatch(pad)
  BY <1>1, <1>2, LaidOutMatches
<1>5. QED
  BY <1>3, <1>4 DEF Provable, row, pad

-----------------------------------------------------------------------------
(* The instructions of the order book                                      *)

(* The instruction that Row lays out.                                      *)
Instruction(open, low_index, low_leaf) ==
  [initial |-> state, opcode |-> state'.op,
   low_path |-> open.low.path, updated_low_path |-> open.low.updated,
   low_index |-> low_index, low_leaf |-> low_leaf,
   path |-> open.leaf.path, updated_path |-> open.leaf.updated,
   index |-> open.leaf.index, leaf |-> LeafFelts(open.leaf.leaf),
   final |-> state', is_real |-> 1]

LEMMA RowIsInstruction ==
  ASSUME NEW open, NEW low_index, NEW low_leaf
  PROVE  LET op == Instruction(open, low_index, low_leaf) IN
         /\ Row(open, low_index, low_leaf) = Flattened(op)
         /\ op.initial = state /\ op.final = state' /\ op.opcode = state'.op /\ op.is_real = 1
         /\ op.low_path = open.low.path /\ op.updated_low_path = open.low.updated
         /\ op.low_index = low_index /\ op.low_leaf = low_leaf
         /\ op.path = open.leaf.path /\ op.updated_path = open.leaf.updated
         /\ op.leaf = LeafFelts(open.leaf.leaf)
BY DEF Row, Instruction

(* The state after an operation that left the tree u on side s.            *)
Moved(s, kind, u) ==
  LET r == Opposite(s) IN
  /\ state.root[s] = Root(book[s]) /\ state.best[s] = BestPrice(book[s])
  /\ state'.n = (state.n + 1) % FieldOrder
  /\ state'.op = OpCode(s, kind)
  /\ state'.root[s] = Root(u) /\ state'.best[s] = BestPrice(u)
  /\ state'.root[r] = state.root[r] /\ state'.best[r] = state.best[r]

LEMMA StateMoves ==
  ASSUME BookInv, NEW s \in Sides, NEW kind, NEW u, state' = NextState(u, state, s, kind)
  PROVE  Moved(s, kind, u)
<1>1. DOMAIN state.root = Sides /\ DOMAIN state.best = Sides
  BY DEF BookInv, TypeOK, StateShape
<1>2. Opposite(s) # s /\ Opposite(s) \in Sides
  BY OppositeSide
<1>3. /\ state'.n = (state.n + 1) % FieldOrder
      /\ state'.root = [state.root EXCEPT ![s] = Root(u)]
      /\ state'.best = [state.best EXCEPT ![s] = BestPrice(u)]
      /\ state'.op = OpCode(s, kind)
  BY DEF NextState
<1>4. QED
  BY <1>1, <1>2, <1>3 DEF Moved, BookInv, StateAgrees

LEMMA Advances ==
  ASSUME NEW s, NEW kind, NEW u, Moved(s, kind, u), NEW op,
         op.initial = state, op.final = state', op.opcode = state'.op, op.is_real = 1
  PROVE  ProcessorHolds(op) /\ Counted(op) /\ op.opcode = OpCode(s, kind)
BY DEF Moved, ProcessorHolds, Counted

(* An insertion: the best price changes only behind the first leaf.        *)
LEMMA InsertSatisfies ==
  ASSUME BookInv, NEW s \in Sides, NEW o \in Order, InsertOutcome(s, book[s], o) = "ok",
         state' = NextState(Inserted(s, book[s], o), state, s, "Insertion")
  PROVE  LET row == InsertRow(InsertOpenings(s, book[s], o)) IN
         Provable(row)
<1> DEFINE t == book[s]
           l == o.price_time
           k == Low(s, t, l)
           low == t.index_map[k]
           new == OrderLeaf(o, t.leaves[low].next)
           linked == [t.leaves EXCEPT ![low] = WithNext(@, l)]
           u == Inserted(s, t, o)
           open == InsertOpenings(s, t, o)
           felts == LeafFelts(t.leaves[low])
           op == Instruction(open, open.low.index, felts)
<1>1. TreeInv(s, t) /\ l \in Label /\ o.volume \in U64
  BY TreeOf DEF Order
<1>2. k \in Live(t) /\ low \in 1 .. Len(t.leaves) /\ t.leaves[low].active
      /\ t.leaves[low].label = k /\ t.leaves[low] \in Leaf
  <2>1. k \in Live(t)
    BY <1>1, InsertBetween
  <2>2. QED
    BY <1>1, <2>1, LiveLeaf
<1>3. Moved(s, "Insertion", u)
  BY StateMoves
<1>4. /\ u.leaves = Append(linked, new)
      /\ open.low.leaf = t.leaves[low] /\ open.low.path = Hashes(t.leaves)
      /\ open.low.updated = Hashes(linked) /\ open.leaf.leaf = new
      /\ open.leaf.path = Hashes(linked) /\ open.leaf.updated = Hashes(Append(linked, new))
  BY DEF Inserted, InsertOpenings, Opened
<1>5. /\ op.initial = state /\ op.final = state' /\ op.opcode = state'.op /\ op.is_real = 1
      /\ op.low_path = Root(t) /\ op.updated_low_path = op.path /\ op.updated_path = Root(u)
      /\ op.low_leaf = felts /\ op.leaf = LeafFelts(new)
      /\ Flattened(op) = InsertRow(open)
  <2> HIDE DEF t, low, new, linked, u, open
  <2>1. felts = LeafFelts(open.low.leaf)
    BY <1>4
  <2> HIDE DEF felts
  <2>2. InsertRow(open) = Row(open, open.low.index, felts)
    BY <2>1 DEF InsertRow
  <2>3. /\ Flattened(op) = Row(open, open.low.index, felts)
        /\ op.initial = state /\ op.final = state' /\ op.opcode = state'.op /\ op.is_real = 1
        /\ op.low_path = open.low.path /\ op.updated_low_path = open.low.updated
        /\ op.low_leaf = felts
        /\ op.path = open.leaf.path /\ op.updated_path = open.leaf.updated
        /\ op.leaf = LeafFelts(open.leaf.leaf)
    BY RowIsInstruction
  <2> HIDE DEF op
  <2>4. QED
    BY <1>4, <2>2, <2>3 DEF Root
<1>6. /\ IsLeaf(felts) /\ IsLeaf(LeafFelts(new))
      /\ Cell(felts, LeafColumn.ACTIVE) = 1
      /\ Cell(felts, LeafColumn.PRICE) = k.price
      /\ Cell(LeafFelts(new), LeafColumn.PRICE) = l.price
      /\ NextOf(felts) = NextOf(LeafFelts(new))
  <2>1. new.label = l /\ new.next = t.leaves[low].next
    BY DEF OrderLeaf
  <2> HIDE DEF new, felts, k, low
  <2>2. /\ IsLeaf(felts) /\ Cell(felts, LeafColumn.ACTIVE) = 1
        /\ Cell(felts, LeafColumn.PRICE) = k.price
        /\ NextOf(felts) = <<t.leaves[low].next.price, t.leaves[low].next.time>>
    BY <1>2, LeafCells DEF felts
  <2>3. /\ IsLeaf(LeafFelts(new)) /\ Cell(LeafFelts(new), LeafColumn.PRICE) = l.price
        /\ NextOf(LeafFelts(new)) = <<new.next.price, new.next.time>>
    BY <2>1, LeafCells
  <2>4. QED
    BY <2>1, <2>2, <2>3
<1>7. /\ low = 1 => BestPrice(u) = l.price /\ k = First(s)
      /\ low # 1 => BestPrice(u) = BestPrice(t)
  <2>1. t.leaves \in Seq(Leaf) /\ 1 \in 1 .. Len(t.leaves) /\ t.leaves[1] = LeafOf(t, First(s))
        /\ t.leaves[1].label = First(s)
    BY <1>1, FirstAndLast, LiveLeaf DEF TreeInv, TreeType, FirstPos
  <2>2. linked \in Seq(Leaf) /\ Len(linked) = Len(t.leaves)
        /\ linked[1] = IF low = 1 THEN WithNext(t.leaves[1], l) ELSE t.leaves[1]
    <3>1. WithNext(t.leaves[low], l) \in Leaf
      BY <1>1, <1>2, NextEdit
    <3> HIDE DEF t, l, low
    <3>2. QED
      BY <1>2, <2>1, <3>1
  <2>3. new \in Leaf
    BY <1>1, <1>2 DEF OrderLeaf, Leaf
  <2> HIDE DEF linked, new
  <2>4. u.leaves[1] = linked[1]
    BY <1>4, <2>1, <2>2, <2>3
  <2>5. low = 1 => WithNext(t.leaves[1], l).next = l
    BY <1>1, <1>2, NextEdit
  <2>6. QED
    BY <1>2, <2>1, <2>2, <2>4, <2>5 DEF BestPrice, BestLabel, FirstPos
<1> HIDE DEF t, k, low, new, linked, u, open, felts, op
<1>8. ProcessorHolds(op) /\ Counted(op) /\ op.opcode = OpCode(s, "Insertion")
  BY <1>3, <1>5, Advances
<1>9. InsertionHolds(s, op)
  BY <1>3, <1>5, <1>6, <1>7, <1>8 DEF InsertionHolds, Moved, t
<1>10. Demands(s, "Insertion", op)
  BY <1>9 DEF Demands, Full, Partial
<1>11. "Insertion" \in Operations
  BY DEF Operations
<1>12. Provable(Flattened(op))
  BY <1>5, <1>6, <1>8, <1>10, <1>11, InstructionSatisfies
<1>13. QED
  BY <1>5, <1>12 DEF t, open

(* The first leaf, as it stands in the vector.                             *)
LEMMA HeadLeaf ==
  ASSUME NEW s \in Sides, NEW t, TreeInv(s, t)
  PROVE  LET head == t.leaves[FirstPos] IN
         /\ head.active /\ head.volume = 0 /\ head.label = First(s)
         /\ head.next = BestLabel(t) /\ head \in Leaf
BY FirstAndLast, LiveLeaf DEF TreeInv, SentinelsKept, BestLabel

(* The best order, whose slot is not that of the first leaf.               *)
LEMMA BestLeaf ==
  ASSUME NEW s \in Sides, NEW t, TreeInv(s, t), BestLabel(t) \in Resting(s, t)
  PROVE  LET b   == BestLabel(t)
             pos == t.index_map[b]
         IN  /\ pos \in 1 .. Len(t.leaves) /\ pos # FirstPos
             /\ t.leaves[pos] \in Leaf /\ t.leaves[pos].active /\ t.leaves[pos].label = b
<1>1. BestLabel(t) \in Live(t) /\ BestLabel(t) # First(s)
  BY RestingLeaf
<1>2. t.index_map[First(s)] = FirstPos /\ First(s) \in Live(t)
  BY DEF TreeInv, SentinelsKept
<1>3. QED
  BY <1>1, <1>2, LiveLeaf, SlotsDistinct

(* The cells of a first leaf are those the constraints expect.             *)
LEMMA HeadIsExpected ==
  ASSUME NEW s \in Sides, NEW head, head.active, head.volume = 0, head.label = First(s),
         NEW leaf, leaf.label = head.next
  PROVE  LeafFelts(head) = HeadFelts(s, LabelOf(LeafFelts(leaf)))
<1>1. LabelOf(LeafFelts(leaf)) = <<head.next.price, head.next.time>>
  BY LeafCells
<1>2. HeadFelts(s, <<head.next.price, head.next.time>>)
        = <<1, 0, First(s).price, First(s).time, head.next.price, head.next.time>>
  BY HeadCells
<1>3. LeafFelts(head)
        = <<1, 0, First(s).price, First(s).time, head.next.price, head.next.time>>
  BY DEF LeafFelts
<1>4. QED
  BY <1>1, <1>2, <1>3

(* A full match: the first leaf takes over what the matched leaf points to.*)
LEMMA MatchSatisfies ==
  ASSUME BookInv, NEW s \in Sides, NEW kind \in Full, BestLabel(book[s]) \in Orders(s),
         Follows(s, kind, state.op),
         state' = NextState(Matched(book[s]), state, s, kind)
  PROVE  LET row == MatchRow(MatchOpenings(book[s])) IN
         Provable(row)
<1> DEFINE t == book[s]
           pos == t.index_map[BestLabel(t)]
           leaf == t.leaves[pos]
           head == t.leaves[FirstPos]
           linked == [t.leaves EXCEPT ![FirstPos] = WithNext(@, leaf.next)]
           after == [linked EXCEPT ![pos] = Inactive(@)]
           u == Matched(t)
           open == MatchOpenings(t)
           felts == LeafFelts(head)
           op == Instruction(open, 0, felts)
<1>1. TreeInv(s, t) /\ BestLabel(t) \in Resting(s, t)
  BY TreeOf DEF Orders
<1>2. /\ pos \in 1 .. Len(t.leaves) /\ pos # FirstPos /\ leaf \in Leaf
      /\ leaf.active /\ leaf.label = BestLabel(t)
      /\ head.active /\ head.volume = 0 /\ head.label = First(s)
      /\ head.next = BestLabel(t) /\ head \in Leaf
      /\ t.leaves \in Seq(Leaf) /\ FirstPos \in 1 .. Len(t.leaves)
  BY <1>1, BestLeaf, HeadLeaf, FirstAndLast DEF TreeInv, TreeType, FirstPos
<1>3. Moved(s, kind, u) /\ kind \in Operations
  BY StateMoves DEF Full, Operations
<1>4. /\ u.leaves = [t.leaves EXCEPT ![FirstPos] = WithNext(@, leaf.next), ![pos] = Inactive(@)]
      /\ open.low.leaf = head /\ open.low.path = Hashes(t.leaves)
      /\ open.low.updated = Hashes(linked) /\ open.leaf.leaf = leaf
      /\ open.leaf.path = Hashes(linked) /\ open.leaf.updated = Hashes(after)
  BY DEF Matched, MatchOpenings, Opened
<1>5. u.leaves = after /\ BestPrice(u) = leaf.next.price
  <2> DEFINE n == leaf.next
             h == WithNext(head, n)
  <2>1. n \in Label
    BY <1>2 DEF Leaf
  <2>2. h \in Leaf /\ h.next = n
    BY <1>2, <2>1, NextEdit
  <2>3. u.leaves = after
    BY <1>4, SMTT(60)
  <2>4. linked = [t.leaves EXCEPT ![FirstPos] = h]
    OBVIOUS
  <2> HIDE DEF t, pos, n, h, linked
  <2>5. linked \in Seq(Leaf) /\ linked[FirstPos] = h /\ Len(linked) = Len(t.leaves)
    BY <1>2, <2>2, <2>4
  <2>6. after[FirstPos] = linked[FirstPos]
    BY <1>2, <2>5
  <2> HIDE DEF after, u
  <2>7. QED
    BY <2>2, <2>5, <2>3, <2>6 DEF BestPrice, BestLabel, n
<1>6. /\ op.initial = state /\ op.final = state' /\ op.opcode = state'.op /\ op.is_real = 1
      /\ op.low_path = Root(t) /\ op.updated_low_path = op.path /\ op.updated_path = Root(u)
      /\ op.low_leaf = felts /\ op.leaf = LeafFelts(leaf)
      /\ Flattened(op) = MatchRow(open)
  <2> HIDE DEF t, pos, leaf, head, linked, after, u, open
  <2>1. felts = LeafFelts(open.low.leaf)
    BY <1>4
  <2> HIDE DEF felts
  <2>2. MatchRow(open) = Row(open, 0, felts)
    BY <2>1 DEF MatchRow
  <2>3. /\ Flattened(op) = Row(open, 0, felts)
        /\ op.initial = state /\ op.final = state' /\ op.opcode = state'.op /\ op.is_real = 1
        /\ op.low_path = open.low.path /\ op.updated_low_path = open.low.updated
        /\ op.low_leaf = felts
        /\ op.path = open.leaf.path /\ op.updated_path = open.leaf.updated
        /\ op.leaf = LeafFelts(open.leaf.leaf)
    BY RowIsInstruction
  <2> HIDE DEF op
  <2>4. QED
    BY <1>4, <1>5, <2>2, <2>3 DEF Root
<1> HIDE DEF t, pos, leaf, head, linked, after, u, open, op
<1>7. felts = HeadFelts(s, LabelOf(LeafFelts(leaf))) /\ IsLeaf(felts)
  BY <1>2, HeadIsExpected, LeafCells
<1> HIDE DEF felts
<1>8. /\ IsLeaf(LeafFelts(leaf)) /\ Cell(LeafFelts(leaf), LeafColumn.ACTIVE) = 1
      /\ Cell(LeafFelts(leaf), LeafColumn.NEXT_PRICE) = leaf.next.price
  BY <1>2, LeafCells
<1>9. ProcessorHolds(op) /\ Counted(op) /\ op.opcode = OpCode(s, kind)
  BY <1>3, <1>6, Advances
<1>10. MatchHolds(s, kind, op)
  BY <1>3, <1>5, <1>6, <1>7, <1>8, <1>9 DEF MatchHolds, OtherSideKept, Moved, t
<1>11. Demands(s, kind, op)
  BY <1>3, <1>10, KindsOfOperations DEF Demands
<1>12. Provable(Flattened(op))
  BY <1>3, <1>6, <1>7, <1>8, <1>9, <1>11, InstructionSatisfies
<1>13. QED
  BY <1>6, <1>12 DEF t, open

(* A partial match: one leaf changes, and the best price stays.            *)
LEMMA PartialSatisfies ==
  ASSUME BookInv, NEW s \in Sides, NEW kind \in Partial, BestLabel(book[s]) \in Orders(s),
         Follows(s, kind, state.op), NEW left,
         LeafOf(book[s], BestLabel(book[s])).volume - call.volume \in U64,
         state' = NextState(PartiallyMatched(book[s], call.volume), state, s, kind)
  PROVE  LET row == PartialMatchRow(PartialOpenings(book[s], call.volume), call.volume, left) IN
         Provable(row)
<1> DEFINE t == book[s]
           v == call.volume
           pos == t.index_map[BestLabel(t)]
           leaf == t.leaves[pos]
           after == [t.leaves EXCEPT ![pos] = WithVolume(@, @.volume - v)]
           u == PartiallyMatched(t, v)
           open == PartialOpenings(t, v)
           felts == <<v, left>> \o [i \in 1 .. NLeafFelts - 2 |-> 0]
           op == Instruction(open, 0, felts)
<1>1. TreeInv(s, t) /\ BestLabel(t) \in Resting(s, t)
  BY TreeOf DEF Orders
<1>2. /\ pos \in 1 .. Len(t.leaves) /\ pos # FirstPos /\ leaf \in Leaf /\ leaf.active
      /\ t.leaves \in Seq(Leaf) /\ FirstPos \in 1 .. Len(t.leaves)
      /\ leaf.volume - v \in U64
  BY <1>1, BestLeaf, FirstAndLast DEF TreeInv, TreeType, FirstPos, LeafOf
<1>3. Moved(s, kind, u) /\ kind \in Operations
  BY StateMoves DEF Partial, Operations
<1>4. /\ u.leaves = after
      /\ open.low.leaf = t.leaves[FirstPos] /\ open.low.path = Hashes(t.leaves)
      /\ open.leaf.leaf = leaf
      /\ open.leaf.path = Hashes(t.leaves) /\ open.leaf.updated = Hashes(after)
  BY DEF PartiallyMatched, PartialOpenings, Opened
<1>5. BestPrice(u) = BestPrice(t)
  <2>1. after = [t.leaves EXCEPT ![pos] = WithVolume(leaf, leaf.volume - v)]
    OBVIOUS
  <2> HIDE DEF t, v, pos, after, leaf, u
  <2>2. after[FirstPos] = t.leaves[FirstPos]
    BY <1>2, <2>1
  <2>3. QED
    BY <1>4, <2>2 DEF BestPrice, BestLabel
<1>6. /\ op.initial = state /\ op.final = state' /\ op.opcode = state'.op /\ op.is_real = 1
      /\ op.low_path = Root(t) /\ op.low_path = op.path /\ op.updated_path = Root(u)
      /\ op.low_index = 0
      /\ op.low_leaf = felts /\ op.leaf = LeafFelts(leaf)
      /\ Flattened(op) = PartialMatchRow(open, v, left)
  <2>1. PartialMatchRow(open, v, left) = Row(open, 0, felts)
    BY DEF PartialMatchRow
  <2> HIDE DEF t, v, pos, leaf, after, u, open, felts
  <2>2. /\ Flattened(op) = Row(open, 0, felts)
        /\ op.initial = state /\ op.final = state' /\ op.opcode = state'.op /\ op.is_real = 1
        /\ op.low_path = open.low.path /\ op.low_index = 0 /\ op.low_leaf = felts
        /\ op.path = open.leaf.path /\ op.updated_path = open.leaf.updated
        /\ op.leaf = LeafFelts(open.leaf.leaf)
    BY RowIsInstruction
  <2> HIDE DEF op
  <2>3. QED
    BY <1>4, <2>1, <2>2 DEF Root
<1> HIDE DEF t, pos, leaf, after, u, open, op
<1>7. IsLeaf(felts)
  BY VolumeCells
<1> HIDE DEF felts, v
<1>8. IsLeaf(LeafFelts(leaf)) /\ Cell(LeafFelts(leaf), LeafColumn.ACTIVE) = 1
  BY <1>2, LeafCells
<1>9. ProcessorHolds(op) /\ Counted(op) /\ op.opcode = OpCode(s, kind)
  BY <1>3, <1>6, Advances
<1>10. PartialMatchHolds(s, kind, op)
  BY <1>3, <1>5, <1>6, <1>8, <1>9 DEF PartialMatchHolds, OtherSideKept, Moved, t
<1>11. Demands(s, kind, op)
  BY <1>3, <1>10, KindsOfOperations DEF Demands
<1>12. Provable(Flattened(op))
  BY <1>3, <1>6, <1>7, <1>8, <1>9, <1>11, InstructionSatisfies
<1>13. QED
  BY <1>6, <1>12 DEF t, open, v

-----------------------------------------------------------------------------
(* The inductive invariant                                                 *)

(* The last instruction is one the next trade may follow.                  *)
OpcodesFollow ==
  /\ call.pc = "aggressor" \/ (call.pc = "match" /\ call.order.volume > 0) =>
       Follows(call.side, "MatchAggressive", state.op)
  /\ call.pc = "passive" => Follows(Opposite(call.side), "MatchPassive", state.op)

RowsHold == instructions # <<>> => Provable(instructions[1])

TraceInv == BookInv /\ OpcodesFollow /\ RowsHold

-----------------------------------------------------------------------------
(* Every step                                                              *)

(* On the other side an opcode is the complement of the opcode on this.    *)
LEMMA Complement ==
  ASSUME NEW s \in Sides, NEW op \in Operations
  PROVE  ComplementOpCode(Opposite(s), op) = OpCode(s, op)
<1>1. BuyCode[op] \in Nat
  BY DEF BuyCode, Operations
<1>2. QED
  BY <1>1 DEF ComplementOpCode, OpCode, Opposite, Sides

AggressorOp == IF call.order.volume = 0 THEN "MatchAggressive" ELSE "PartialMatchAggressive"
PassiveOp   == IF call.leaf.volume = 0 THEN "MatchPassive" ELSE "PartialMatchPassive"

LEMMA AggressorSettles ==
  ASSUME BookInv, MatchAggressor
  PROVE  FillOf(call.side, AggressorOp, "passive", call.order.volume)
<1> DEFINE s == call.side
           l == call.order.price_time
           rest == call.order.volume
<1>1. s \in Sides /\ rest \in U64
  BY CallTyped
<1>2. /\ call.volume > 0 /\ BestLabel(book[s]) = l /\ l \in Live(book[s])
      /\ LeafOf(book[s], l).volume = rest + call.volume
  BY AggressorFills
<1>3. /\ AggressorOp \in Operations
      /\ \/ rest = 0 /\ Settle(s, TRUE, AggressorOp, "passive")
         \/ rest # 0 /\ Settle(s, FALSE, AggressorOp, "passive")
  <2>1. rest > 0 => rest # 0
    BY <1>1, MaxU64Assumption DEF U64
  <2>2. \/ rest = 0 /\ Settle(s, TRUE, "MatchAggressive", "passive")
        \/ rest # 0 /\ Settle(s, FALSE, "PartialMatchAggressive", "passive")
    BY <2>1 DEF MatchAggressor
  <2>3. /\ rest = 0 => AggressorOp = "MatchAggressive"
        /\ rest # 0 => AggressorOp = "PartialMatchAggressive"
    BY DEF AggressorOp
  <2>4. QED
    BY <2>2, <2>3 DEF Operations
<1> HIDE DEF s, l, rest
<1>4. FillOf(s, AggressorOp, "passive", rest)
  BY <1>1, <1>2, <1>3, SettleSucceeds
<1>5. QED
  BY <1>4 DEF s, rest

LEMMA PassiveSettles ==
  ASSUME BookInv, MatchPassive
  PROVE  FillOf(Opposite(call.side), PassiveOp, "match", call.leaf.volume)
<1> DEFINE r == Opposite(call.side)
           m == call.leaf.label
           rest == call.leaf.volume
<1>1. r \in Sides /\ rest \in U64
  BY CallTyped
<1>2. /\ call.volume > 0 /\ BestLabel(book[r]) = m /\ m \in Live(book[r])
      /\ LeafOf(book[r], m).volume = rest + call.volume
  BY DEF MatchPassive, BookInv, LocalsAgree
<1>3. /\ PassiveOp \in Operations
      /\ \/ rest = 0 /\ Settle(r, TRUE, PassiveOp, "match")
         \/ rest # 0 /\ Settle(r, FALSE, PassiveOp, "match")
  <2>1. rest > 0 => rest # 0
    BY <1>1, MaxU64Assumption DEF U64
  <2>2. \/ rest = 0 /\ Settle(r, TRUE, "MatchPassive", "match")
        \/ rest # 0 /\ Settle(r, FALSE, "PartialMatchPassive", "match")
    BY <2>1 DEF MatchPassive
  <2>3. /\ rest = 0 => PassiveOp = "MatchPassive"
        /\ rest # 0 => PassiveOp = "PartialMatchPassive"
    BY DEF PassiveOp
  <2>4. QED
    BY <2>2, <2>3 DEF Operations
<1> HIDE DEF r, m, rest
<1>4. FillOf(r, PassiveOp, "match", rest)
  BY <1>1, <1>2, <1>3, SettleSucceeds
<1>5. QED
  BY <1>4 DEF r, rest

(* The instruction of a fill.                                              *)
LEMMA SettleSatisfies ==
  ASSUME BookInv, NEW s \in Sides, NEW op \in Operations, NEW pc, NEW rest \in U64,
         FillOf(s, op, pc, rest), LeafOf(book[s], BestLabel(book[s])).volume = rest + call.volume,
         call.volume \in Int, Follows(s, op, state.op), NEW filled \in BOOLEAN,
         filled <=> rest = 0, filled => op \in Full, ~ filled => op \in Partial,
         RowsHold, SettleTraced(s, filled)
  PROVE  RowsHold'
<1> DEFINE t == book[s]
           u == FilledTree(t, call.volume, rest)
           left == LeafOf(t, BestLabel(t)).volume - call.volume
<1>1. BestLabel(t) \in Orders(s) /\ book' = [book EXCEPT ![s] = u]
      /\ state' = NextState(book'[s], state, s, op)
  BY DEF FillOf
<1>2. state' = NextState(u, state, s, op)
  BY <1>1 DEF BookInv, TypeOK
<1>3. CASE UNCHANGED traceVars
  BY <1>3 DEF traceVars, RowsHold
<1>4. CASE filled /\ instructions' = <<MatchRow(MatchOpenings(t))>>
  <2>1. u = Matched(t)
    BY <1>4 DEF FilledTree
  <2>2. Provable(MatchRow(MatchOpenings(t)))
    BY <1>1, <1>2, <1>4, <2>1, MatchSatisfies
  <2>3. QED
    BY <1>4, <2>2 DEF RowsHold
<1>5. CASE ~ filled
           /\ instructions' = <<PartialMatchRow(PartialOpenings(t, call.volume), call.volume, left)>>
  <2> DEFINE row == PartialMatchRow(PartialOpenings(t, call.volume), call.volume, left)
  <2>1. u = PartiallyMatched(t, call.volume)
    BY <1>5 DEF FilledTree
  <2>2. LeafOf(t, BestLabel(t)).volume - call.volume \in U64
    <3>1. rest \in Int
      BY MaxU64Assumption DEF U64
    <3>2. QED
      BY <3>1
  <2>3. Provable(row)
    BY <1>1, <1>2, <1>5, <2>1, <2>2, PartialSatisfies
  <2> HIDE DEF row
  <2>4. instructions' = <<row>>
    BY <1>5 DEF row
  <2>5. QED
    BY <2>3, <2>4 DEF RowsHold
<1>6. QED
  BY <1>3, <1>4, <1>5 DEF SettleTraced, AddInstruction

LEMMA TraceInitHolds == TraceInit => TraceInv
<1> SUFFICES ASSUME TraceInit PROVE TraceInv
  OBVIOUS
<1>1. BookInv
  BY InitHolds DEF TraceInit
<1>2. RowsHold
  BY DEF TraceInit, RowsHold
<1>3. OpcodesFollow
  BY DEF TraceInit, Init, Idle, OpcodesFollow
<1>4. QED
  BY <1>1, <1>2, <1>3 DEF TraceInv

LEMMA TraceIsBook == TraceNext => Next
<1> SUFFICES ASSUME TraceNext PROVE Next
  OBVIOUS
<1>1. CASE PlaceTraced
  BY <1>1 DEF PlaceTraced, Next
<1>2. CASE FinishTraced
  BY <1>2 DEF FinishTraced, Next, Match
<1>3. CASE TradeTraced
  BY <1>3 DEF TradeTraced, Next, Match
<1>4. CASE AggressorTraced
  BY <1>4 DEF AggressorTraced, Next, Match
<1>5. CASE PassiveTraced
  BY <1>5 DEF PassiveTraced, Next, Match
<1>6. QED
  BY <1>1, <1>2, <1>3, <1>4, <1>5 DEF TraceNext

LEMMA PlaceKeepsRows ==
  ASSUME TraceInv, PlaceTraced
  PROVE  OpcodesFollow' /\ RowsHold'
<1>1. PICK s \in Sides, o \in SomeOrders :
        /\ PlaceOrder(s, o)
        /\ \/ PlaceOutcome(s, o) # "ok" /\ UNCHANGED traceVars
           \/ /\ PlaceOutcome(s, o) = "ok"
              /\ AddInstruction(InsertRecords(s, book[s], o),
                                InsertRow(InsertOpenings(s, book[s], o)))
  BY DEF PlaceTraced
<1>2. CASE PlaceOutcome(s, o) # "ok"
  <2>1. call'.pc \in {"idle", "panic"}
    BY <1>1, <1>2 DEF PlaceOrder, Idle
  <2>2. QED
    BY <1>1, <1>2, <2>1 DEF TraceInv, OpcodesFollow, RowsHold, traceVars
<1>3. CASE PlaceOutcome(s, o) = "ok"
  <2> DEFINE row == InsertRow(InsertOpenings(s, book[s], o))
  <2>1. /\ book' = [book EXCEPT ![s] = Inserted(s, @, o)]
        /\ state' = NextState(book'[s], state, s, "Insertion")
        /\ call' = [Idle("ok") EXCEPT !.pc = "match", !.side = s, !.order = o]
    BY <1>1, <1>3 DEF PlaceOrder
  <2>2. call'.pc = "match" /\ call'.side = s
    BY <2>1 DEF Idle
  <2>3. BookInv /\ DOMAIN book = Sides
    BY DEF TraceInv, BookInv, TypeOK
  <2>4. state' = NextState(Inserted(s, book[s], o), state, s, "Insertion")
    BY <2>1, <2>3
  <2>5. state'.op = OpCode(s, "Insertion")
    BY <2>4 DEF NextState
  <2>6. InsertOutcome(s, book[s], o) = "ok" /\ o \in Order
    BY <1>3, OrderPlaced DEF PlaceOutcome
  <2>7. Provable(row)
    BY <2>3, <2>4, <2>6, InsertSatisfies
  <2>8. instructions' = <<row>>
    BY <1>1, <1>3 DEF AddInstruction
  <2> HIDE DEF row
  <2>9. RowsHold'
    BY <2>7, <2>8 DEF RowsHold
  <2>10. QED
    BY <2>2, <2>5, <2>9 DEF OpcodesFollow, Follows, Aggressive
<1>4. QED
  BY <1>2, <1>3

LEMMA TradeKeepsRows ==
  ASSUME TraceInv, TradeTraced
  PROVE  OpcodesFollow' /\ RowsHold'
<1>1. instructions' = instructions
  BY DEF TradeTraced, traceVars
<1>2. RowsHold'
  BY <1>1 DEF TraceInv, RowsHold
<1>3. BookInv /\ call \in CallTypes /\ call.order \in Order
  BY CallTyped DEF TraceInv
<1>4. /\ call.pc = "match" /\ call.order.volume > 0 /\ state' = state
      /\ call'.pc \in {"aggressor", "panic"} /\ call'.side = call.side
  BY <1>3 DEF TradeTraced, StartTrade, Fail, Crosses, CallTypes
<1>5. Follows(call.side, "MatchAggressive", state.op)
  BY <1>4 DEF TraceInv, OpcodesFollow
<1>6. QED
  BY <1>2, <1>4, <1>5 DEF OpcodesFollow

LEMMA AggressorKeepsRows ==
  ASSUME TraceInv, AggressorTraced
  PROVE  OpcodesFollow' /\ RowsHold'
<1> DEFINE s == call.side
           rest == call.order.volume
           op == AggressorOp
<1>1. /\ BookInv /\ MatchAggressor /\ SettleTraced(s, rest = 0) /\ call.pc = "aggressor"
      /\ call \in CallTypes /\ s \in Sides /\ rest \in U64 /\ call.volume \in Int
  <2>1. BookInv /\ MatchAggressor /\ SettleTraced(s, rest = 0)
    BY DEF TraceInv, AggressorTraced
  <2>2. call.pc = "aggressor"
    BY <2>1 DEF MatchAggressor
  <2> HIDE DEF rest
  <2>3. /\ call \in CallTypes /\ s \in Sides /\ rest \in U64 /\ call.volume \in U64
    BY <2>1, CallTyped DEF rest
  <2>4. QED
    BY <2>1, <2>2, <2>3, MaxU64Assumption DEF U64
<1>2. FillOf(s, op, "passive", rest)
  BY <1>1, AggressorSettles
<1>3. LeafOf(book[s], BestLabel(book[s])).volume = rest + call.volume
  BY <1>1, AggressorFills
<1>4. op \in Aggressive /\ op \in Operations /\ (rest = 0 => op \in Full)
      /\ (rest # 0 => op \in Partial)
  BY DEF AggressorOp, Aggressive, Full, Partial, Operations
<1>5. Follows(s, op, state.op)
  BY <1>1, <1>4 DEF TraceInv, OpcodesFollow, Follows, Aggressive
<1>6. call' = [call EXCEPT !.pc = "passive"] /\ state'.op = OpCode(s, op)
  BY <1>2 DEF FillOf, NextState
<1>7. call'.pc = "passive" /\ call'.side = s
  BY <1>1, <1>6 DEF CallTypes
<1> HIDE DEF s, rest, op
<1>8. RowsHold'
  BY <1>1, <1>2, <1>3, <1>4, <1>5, SettleSatisfies DEF TraceInv
<1>9. Follows(Opposite(s), "MatchPassive", state'.op)
  <2>1. op = "MatchAggressive" \/ op = "PartialMatchAggressive"
    BY <1>4 DEF Aggressive
  <2>2. QED
    BY <1>1, <1>4, <1>6, <2>1, Complement DEF Follows, Aggressive
<1>10. QED
  BY <1>7, <1>8, <1>9 DEF OpcodesFollow

LEMMA PassiveKeepsRows ==
  ASSUME TraceInv, PassiveTraced
  PROVE  OpcodesFollow' /\ RowsHold'
<1> DEFINE s == call.side
           r == Opposite(s)
           rest == call.leaf.volume
           op == PassiveOp
<1>1. /\ BookInv /\ MatchPassive /\ SettleTraced(r, rest = 0) /\ call.pc = "passive"
      /\ call \in CallTypes /\ s \in Sides /\ r \in Sides /\ rest \in U64 /\ call.volume \in Int
  <2>1. BookInv /\ MatchPassive /\ SettleTraced(r, rest = 0)
    BY DEF TraceInv, PassiveTraced
  <2>2. call.pc = "passive"
    BY <2>1 DEF MatchPassive
  <2> HIDE DEF rest
  <2>3. /\ call \in CallTypes /\ s \in Sides /\ r \in Sides /\ rest \in U64 /\ call.volume \in U64
    BY <2>1, CallTyped DEF rest
  <2>4. QED
    BY <2>1, <2>2, <2>3, MaxU64Assumption DEF U64
<1>2. FillOf(r, op, "match", rest)
  BY <1>1, PassiveSettles
<1>3. LeafOf(book[r], BestLabel(book[r])).volume = rest + call.volume
  BY <1>1 DEF BookInv, LocalsAgree
<1>4. op \notin Aggressive /\ op \in Operations /\ (rest = 0 => op \in Full)
      /\ (rest # 0 => op \in Partial)
  BY DEF PassiveOp, Aggressive, Full, Partial, Operations
<1>5. Follows(r, op, state.op)
  BY <1>1, <1>4 DEF TraceInv, OpcodesFollow, Follows, Aggressive
<1>6. call' = [call EXCEPT !.pc = "match"] /\ state'.op = OpCode(r, op)
  BY <1>2 DEF FillOf, NextState
<1>7. call'.pc = "match" /\ call'.side = s /\ call'.order = call.order
  BY <1>1, <1>6 DEF CallTypes
<1>8. call.order.volume = 0 \/ rest = 0
  BY <1>1 DEF BookInv, CallSound
<1>9. rest = 0 => op = "MatchPassive"
  BY DEF PassiveOp
<1>10. call.order.volume > 0 => call.order.volume # 0
  OBVIOUS
<1> HIDE DEF rest, op
<1>11. RowsHold'
  <2> HIDE DEF r
  <2>1. QED
    BY <1>1, <1>2, <1>3, <1>4, <1>5, SettleSatisfies DEF TraceInv
<1>12. call.order.volume > 0 => Follows(s, "MatchAggressive", state'.op)
  <2> SUFFICES ASSUME call.order.volume > 0 PROVE Follows(s, "MatchAggressive", state'.op)
    OBVIOUS
  <2>1. state'.op = OpCode(r, "MatchPassive")
    BY <1>6, <1>8, <1>9, <1>10
  <2>2. Opposite(r) = s /\ "MatchPassive" \in Operations
    BY <1>1, OppositeSide DEF Operations
  <2> HIDE DEF s, r
  <2>3. ComplementOpCode(s, "MatchPassive") = OpCode(r, "MatchPassive")
    BY <1>1, <2>2, Complement
  <2>4. QED
    BY <2>1, <2>3 DEF Follows, Aggressive
<1>13. QED
  BY <1>7, <1>11, <1>12 DEF OpcodesFollow

LEMMA TraceStepHolds == TraceInv /\ [TraceNext]_allVars => TraceInv'
<1> SUFFICES ASSUME TraceInv, [TraceNext]_allVars PROVE TraceInv'
  OBVIOUS
<1>1. CASE UNCHANGED allVars
  <2>1. BookInv'
    BY <1>1, StepHolds DEF TraceInv, allVars, vars
  <2>2. QED
    BY <1>1, <2>1 DEF TraceInv, OpcodesFollow, RowsHold, allVars
<1>2. CASE TraceNext
  <2>1. BookInv'
    BY <1>2, TraceIsBook, StepHolds DEF TraceInv
  <2>2. ASSUME FinishTraced PROVE OpcodesFollow' /\ RowsHold'
    BY <2>2 DEF TraceInv, FinishTraced, Finish, Idle, OpcodesFollow, RowsHold, traceVars
  <2>3. OpcodesFollow' /\ RowsHold'
    BY <1>2, <2>2, PlaceKeepsRows, TradeKeepsRows, AggressorKeepsRows, PassiveKeepsRows
       DEF TraceNext
  <2>4. QED
    BY <2>1, <2>3 DEF TraceInv
<1>3. QED
  BY <1>1, <1>2

-----------------------------------------------------------------------------
(* Every instruction that place_*_order and the matching loop record, and  *)
(* the row the tables are padded with, satisfies the constraints of the    *)
(* processor and of its component, whatever orders clients place.          *)
THEOREM EveryRowHolds == TraceSpec => []ConstraintsHold
<1>1. TraceInv => ConstraintsHold
  BY DEF TraceInv, RowsHold, Provable, ConstraintsHold
<1>2. QED
  BY <1>1, TraceInitHolds, TraceStepHolds, PTL DEF TraceSpec

(* The interaction trace of every such row and of its padding, written by  *)
(* the trace functions of the components, has the columns of fractions     *)
(* that their constraints expect, in their order and number.               *)
THEOREM EveryColumnMatches == TraceSpec => []ColumnsMatchEntries
<1>1. TraceInv => ColumnsMatchEntries
  <2> SUFFICES ASSUME TraceInv, instructions # <<>>,
                      NEW row \in {instructions[1], Dummy(instructions[1])}
               PROVE  ColumnsMatch(row)
    BY DEF ColumnsMatchEntries, ColumnsMatch
  <2>1. QED
    BY DEF TraceInv, RowsHold, Provable
<1>2. QED
  BY <1>1, TraceInitHolds, TraceStepHolds, PTL DEF TraceSpec

-----------------------------------------------------------------------------
(* Entries                                                                 *)

Has(relation, values, v) == IF <<relation, values>> = v THEN 1 ELSE 0

LEMMA EntryTerm ==
  ASSUME NEW relation, NEW values, NEW v
  PROVE  /\ Has(relation, values, v) \in Int
         /\ Entry(relation, values, 1).mult \in Int /\ Entry(relation, values, -1).mult \in Int
         /\ Term(Entry(relation, values, 1), v) = Has(relation, values, v)
         /\ Term(Entry(relation, values, -1), v) = - Has(relation, values, v)
BY DEF Entry, Term, Key, Has

HasPath(leaf, index, root, v) == Has("poseidon", <<LeafState(leaf), index, root>>, v)

LEMMA PathTerm ==
  ASSUME NEW leaf, NEW index, NEW root, NEW v
  PROVE  /\ HasPath(leaf, index, root, v) \in Int
         /\ PathEntry(leaf, index, root, 1).mult \in Int
         /\ PathEntry(leaf, index, root, -1).mult \in Int
         /\ Term(PathEntry(leaf, index, root, 1), v) = HasPath(leaf, index, root, v)
         /\ Term(PathEntry(leaf, index, root, -1), v) = - HasPath(leaf, index, root, v)
BY EntryTerm DEF PathEntry, HasPath

LEMMA LessTerm ==
  ASSUME NEW relation, NEW a, NEW b, NEW v
  PROVE  /\ Has(relation, <<a, b, 1>>, v) \in Int
         /\ LessEntry(relation, a, b, 1).mult \in Int
         /\ Term(LessEntry(relation, a, b, 1), v) = Has(relation, <<a, b, 1>>, v)
BY EntryTerm DEF LessEntry

(* A comparison that holds is recorded with the answer 1.                  *)
Relation(c) == IF c.strict THEN "strict_less_than" ELSE "less_than"

LEMMA ComparedTerm ==
  ASSUME NEW c, Holds(c), NEW v
  PROVE  /\ Compared(c).mult \in Int
         /\ Has(Relation(c), <<c.a, c.b, 1>>, v) \in Int
         /\ Term(Compared(c), v) = - Has(Relation(c), <<c.a, c.b, 1>>, v)
<1>1. Compared(c) = Entry(Relation(c), <<c.a, c.b, 1>>, -1)
  BY DEF Compared, Relation
<1>2. QED
  BY <1>1, EntryTerm

(* The two hashes of a leaf that changes.                                  *)
HasHashes(open, before, after, v) ==
  HasPath(before, open.index, open.path, v) + HasPath(after, open.index, open.updated, v)

LEMMA HashedAmount ==
  ASSUME NEW open, NEW before, NEW after, NEW v
  PROVE  /\ HasHashes(open, LeafFelts(before), LeafFelts(after), v) \in Int
         /\ Amount(Hashed(open, before, after), v,
                   - HasHashes(open, LeafFelts(before), LeafFelts(after), v))
<1> DEFINE x == HasPath(LeafFelts(before), open.index, open.path, v)
           y == HasPath(LeafFelts(after), open.index, open.updated, v)
           a == PathEntry(LeafFelts(before), open.index, open.path, -1)
           b == PathEntry(LeafFelts(after), open.index, open.updated, -1)
<1>1. /\ x \in Int /\ y \in Int /\ a.mult \in Int /\ b.mult \in Int
      /\ Term(a, v) = - x /\ Term(b, v) = - y
  BY PathTerm
<1>2. Hashed(open, before, after) = <<a, b>>
  BY DEF Hashed
<1> HIDE DEF a, b, x, y
<1>3. Amount(<<a, b>>, v, Term(a, v) + Term(b, v))
  BY <1>1, AmountOfTwo
<1>4. Term(a, v) + Term(b, v) = - (x + y) /\ x + y \in Int
  BY <1>1
<1>5. Amount(<<a, b>>, v, - (x + y))
  BY <1>3, <1>4
<1>6. QED
  BY <1>2, <1>4, <1>5 DEF HasHashes, x, y

-----------------------------------------------------------------------------
(* Leaves that change                                                      *)

LEMMA LeafRelinked ==
  ASSUME NEW leaf \in Leaf, NEW n \in Label
  PROVE  Relinked(LeafFelts(leaf), <<n.price, n.time>>) = LeafFelts(WithNext(leaf, n))
<1>1. WithNext(leaf, n) \in Leaf /\ WithNext(leaf, n).next = n
      /\ WithNext(leaf, n).active = leaf.active /\ WithNext(leaf, n).label = leaf.label
      /\ WithNext(leaf, n).volume = leaf.volume
  BY NextEdit
<1>2. QED
  BY <1>1, RelinkCells DEF LeafFelts

LEMMA LeafDisabled ==
  ASSUME NEW leaf \in Leaf
  PROVE  LeafState(Disabled(LeafFelts(leaf))) = LeafState(LeafFelts(Inactive(leaf)))
<1>1. /\ ~ Inactive(leaf).active /\ Inactive(leaf).label = leaf.label
      /\ Inactive(leaf).volume = leaf.volume
  BY InactiveEdit
<1>2. QED
  BY <1>1 DEF LeafState, Disabled, LeafFelts, LeafColumn

LEMMA LeafRevalued ==
  ASSUME NEW leaf \in Leaf, NEW w \in U64
  PROVE  LeafState(Revalued(LeafFelts(leaf), w)) = LeafState(LeafFelts(WithVolume(leaf, w)))
<1>1. /\ WithVolume(leaf, w).active = leaf.active /\ WithVolume(leaf, w).label = leaf.label
      /\ WithVolume(leaf, w).volume = w
  BY VolumeEdit
<1>2. QED
  BY <1>1 DEF LeafState, Revalued, LeafFelts, LeafColumn

-----------------------------------------------------------------------------
(* What an operation records is what its instruction looks up.             *)

(* The paths and indices of a real row are those of the proofs.            *)
ShowsOpenings(e, open) ==
  /\ e.is_real = 1
  /\ e.low_index = open.low.index /\ e.low_path = open.low.path
  /\ e.updated_low_path = open.low.updated
  /\ e.index = open.leaf.index /\ e.path = open.leaf.path
  /\ e.updated_path = open.leaf.updated

HasCompare(c, v) == Has(Relation(c), <<c.a, c.b, 1>>, v)

(* The four comparisons of an insertion.                                   *)
HasCompares(s, low, l, v) ==
  LET c == InsertCompares(s, low, l)
  IN  HasCompare(c[1], v) + HasCompare(c[2], v) + HasCompare(c[3], v) + HasCompare(c[4], v)

LEMMA ComparesAmount ==
  ASSUME NEW s, NEW low, NEW l, InsertAsserts(s, low, l), NEW v
  PROVE  LET c == InsertCompares(s, low, l)
             records == [i \in DOMAIN c |-> Compared(c[i])]
         IN  HasCompares(s, low, l, v) \in Int
             /\ Amount(records, v, - HasCompares(s, low, l, v))
<1> DEFINE c == InsertCompares(s, low, l)
           records == [i \in DOMAIN c |-> Compared(c[i])]
           S == {Compared(c[i]) : i \in 1 .. 4}
<1>1. \A i \in 1 .. 4 : Holds(c[i])
  BY DEF InsertAsserts
<1>2. DOMAIN c = 1 .. 4
  BY DEF InsertCompares
<1> HIDE DEF c
<1>3. \A i \in 1 .. 4 : /\ Compared(c[i]).mult \in Int /\ HasCompare(c[i], v) \in Int
                        /\ Term(Compared(c[i]), v) = - HasCompare(c[i], v)
  BY <1>1, ComparedTerm DEF HasCompare
<1>4. /\ records \in Seq(S) /\ Len(records) = 4
      /\ \A i \in 1 .. 4 : records[i] = Compared(c[i])
      /\ \A e \in S : e.mult \in Int
  <2>1. records \in [1 .. 4 -> S] /\ \A i \in 1 .. 4 : records[i] = Compared(c[i])
    BY <1>2
  <2>2. \A e \in S : e.mult \in Int
    BY <1>3
  <2> HIDE DEF S, records
  <2>3. DOMAIN records = 1 .. 4 /\ 4 \in Nat
    BY <2>1
  <2>4. records \in Seq(S)
    BY <2>1, <2>3, SeqDef
  <2>5. Len(records) = 4
    BY <2>3, <2>4
  <2>6. QED
    BY <2>1, <2>2, <2>4, <2>5
<1> HIDE DEF S, records
<1>5. Amount(records, v, Term(records[1], v) + Term(records[2], v)
                           + Term(records[3], v) + Term(records[4], v))
  BY <1>4, ShortAmounts
<1>6. /\ HasCompares(s, low, l, v)
           = HasCompare(c[1], v) + HasCompare(c[2], v) + HasCompare(c[3], v) + HasCompare(c[4], v)
  BY DEF HasCompares, c
<1>7. /\ Term(records[1], v) = - HasCompare(c[1], v) /\ HasCompare(c[1], v) \in Int
      /\ Term(records[2], v) = - HasCompare(c[2], v) /\ HasCompare(c[2], v) \in Int
      /\ Term(records[3], v) = - HasCompare(c[3], v) /\ HasCompare(c[3], v) \in Int
      /\ Term(records[4], v) = - HasCompare(c[4], v) /\ HasCompare(c[4], v) \in Int
  BY <1>3, <1>4
<1>8. /\ HasCompares(s, low, l, v) \in Int
      /\ Term(records[1], v) + Term(records[2], v) + Term(records[3], v) + Term(records[4], v)
           = - HasCompares(s, low, l, v)
  BY <1>6, <1>7
<1>9. QED
  BY <1>5, <1>8 DEF records, c

(* The entries with which an insertion compares.                           *)
LEMMA LessAmount ==
  ASSUME NEW s \in Sides, NEW low, NEW l, NEW v
  PROVE  LET comps ==
               <<LessEntry("strict_less_than", low.label.time, l.time, 1),
                 LessEntry("strict_less_than", low.next.time, l.time, 1)>>
               \o (IF s = "Buy"
                   THEN <<LessEntry("less_than", l.price, low.label.price, 1),
                          LessEntry("strict_less_than", low.next.price, l.price, 1)>>
                   ELSE <<LessEntry("less_than", low.label.price, l.price, 1),
                          LessEntry("strict_less_than", l.price, low.next.price, 1)>>)
         IN  Amount(comps, v, HasCompares(s, low, l, v))
<1> DEFINE c == InsertCompares(s, low, l)
           a == LessEntry("strict_less_than", low.label.time, l.time, 1)
           b == LessEntry("strict_less_than", low.next.time, l.time, 1)
           p == IF s = "Buy" THEN LessEntry("less_than", l.price, low.label.price, 1)
                             ELSE LessEntry("less_than", low.label.price, l.price, 1)
           q == IF s = "Buy" THEN LessEntry("strict_less_than", low.next.price, l.price, 1)
                             ELSE LessEntry("strict_less_than", l.price, low.next.price, 1)
<1>1. /\ a.mult \in Int /\ Term(a, v) = Has("strict_less_than", <<low.label.time, l.time, 1>>, v)
      /\ b.mult \in Int /\ Term(b, v) = Has("strict_less_than", <<low.next.time, l.time, 1>>, v)
  BY LessTerm
<1>2. /\ p.mult \in Int
      /\ Term(p, v) = IF s = "Buy" THEN Has("less_than", <<l.price, low.label.price, 1>>, v)
                                   ELSE Has("less_than", <<low.label.price, l.price, 1>>, v)
      /\ q.mult \in Int
      /\ Term(q, v) = IF s = "Buy" THEN Has("strict_less_than", <<low.next.price, l.price, 1>>, v)
                                   ELSE Has("strict_less_than", <<l.price, low.next.price, 1>>, v)
  BY LessTerm, ZenonT(30)
<1>3. /\ HasCompare(c[1], v) = Has("strict_less_than", <<low.label.time, l.time, 1>>, v)
      /\ HasCompare(c[2], v) = Has("strict_less_than", <<low.next.time, l.time, 1>>, v)
  BY DEF InsertCompares, HasCompare, Relation
<1>4. /\ HasCompare(c[3], v)
           = IF s = "Buy" THEN Has("less_than", <<l.price, low.label.price, 1>>, v)
                          ELSE Has("less_than", <<low.label.price, l.price, 1>>, v)
      /\ HasCompare(c[4], v)
           = IF s = "Buy" THEN Has("strict_less_than", <<low.next.price, l.price, 1>>, v)
                          ELSE Has("strict_less_than", <<l.price, low.next.price, 1>>, v)
  BY DEF InsertCompares, HasCompare, Relation
<1>5. HasCompares(s, low, l, v)
        = HasCompare(c[1], v) + HasCompare(c[2], v) + HasCompare(c[3], v) + HasCompare(c[4], v)
  BY DEF HasCompares
<1>6. (IF s = "Buy" THEN <<LessEntry("less_than", l.price, low.label.price, 1),
                           LessEntry("strict_less_than", low.next.price, l.price, 1)>>
                    ELSE <<LessEntry("less_than", low.label.price, l.price, 1),
                           LessEntry("strict_less_than", l.price, low.next.price, 1)>>) = <<p, q>>
  OBVIOUS
<1>7. /\ Term(a, v) = HasCompare(c[1], v) /\ Term(b, v) = HasCompare(c[2], v)
      /\ Term(p, v) = HasCompare(c[3], v) /\ Term(q, v) = HasCompare(c[4], v)
  BY <1>1, <1>2, <1>3, <1>4
<1>8. a.mult \in Int /\ b.mult \in Int /\ p.mult \in Int /\ q.mult \in Int
  BY <1>1, <1>2
<1>9. /\ Term(a, v) \in Int /\ Term(b, v) \in Int /\ Term(p, v) \in Int /\ Term(q, v) \in Int
  BY <1>8 DEF Term
<1> HIDE DEF a, b, p, q, c
<1>10. Amount(<<a, b>>, v, Term(a, v) + Term(b, v)) /\ Amount(<<p, q>>, v, Term(p, v) + Term(q, v))
  BY <1>8, AmountOfTwo
<1>11. Amount(<<a, b>> \o <<p, q>>, v, (Term(a, v) + Term(b, v)) + (Term(p, v) + Term(q, v)))
  BY <1>10, AmountOfJoined
<1>12. (Term(a, v) + Term(b, v)) + (Term(p, v) + Term(q, v)) = HasCompares(s, low, l, v)
  BY <1>5, <1>7, <1>9
<1>13. QED
  BY <1>6, <1>11, <1>12 DEF a, b

(* What the row of an insertion looks up was recorded; it yields itself.   *)
LEMMA InsertCancels ==
  ASSUME NEW s \in Sides, NEW low \in Leaf, NEW new, new.label \in Label, NEW open, NEW e, NEW v,
         InsertAsserts(s, low, new.label), ShowsOpenings(e, open),
         e.low_leaf = LeafFelts(low), e.leaf = LeafFelts(new)
  PROVE  LET c       == InsertCompares(s, low, new.label)
             records == [i \in DOMAIN c |-> Compared(c[i])]
                          \o Hashed(open.low, low, WithNext(low, new.label))
                          \o Hashed(open.leaf, EmptyLeaf, new)
             ops     == HasCompares(s, low, new.label, v)
                          + HasHashes(open.low, LeafFelts(low), LeafFelts(WithNext(low, new.label)), v)
                          + HasHashes(open.leaf, EmptyFelts, LeafFelts(new), v)
         IN  /\ ops \in Int
             /\ Amount(records, v, - ops)
             /\ Amount(InsertionEntries(s, e), v, ops - Has("instruction", Flattened(e), v))
<1> DEFINE l == new.label
           c == InsertCompares(s, low, l)
           records == [i \in DOMAIN c |-> Compared(c[i])]
           hl == Hashed(open.low, low, WithNext(low, l))
           hn == Hashed(open.leaf, EmptyLeaf, new)
           x == HasCompares(s, low, l, v)
           y == HasHashes(open.low, LeafFelts(low), LeafFelts(WithNext(low, l)), v)
           z == HasHashes(open.leaf, EmptyFelts, LeafFelts(new), v)
           i == Has("instruction", Flattened(e), v)
<1>1. x \in Int /\ Amount(records, v, - x)
  BY ComparesAmount
<1>2. y \in Int /\ Amount(hl, v, - y)
  BY HashedAmount
<1>3. z \in Int /\ Amount(hn, v, - z)
  BY HashedAmount DEF EmptyFelts
<1> DEFINE comps == <<LessEntry("strict_less_than", low.label.time, l.time, 1),
                      LessEntry("strict_less_than", low.next.time, l.time, 1)>>
                    \o (IF s = "Buy"
                        THEN <<LessEntry("less_than", l.price, low.label.price, 1),
                               LessEntry("strict_less_than", low.next.price, l.price, 1)>>
                        ELSE <<LessEntry("less_than", low.label.price, l.price, 1),
                               LessEntry("strict_less_than", l.price, low.next.price, 1)>>)
           p1 == PathEntry(LeafFelts(low), open.low.index, open.low.path, 1)
           p2 == PathEntry(LeafFelts(WithNext(low, l)), open.low.index, open.low.updated, 1)
           p3 == PathEntry(EmptyFelts, open.leaf.index, open.leaf.path, 1)
           p4 == PathEntry(LeafFelts(new), open.leaf.index, open.leaf.updated, 1)
           out == Entry("instruction", Flattened(e), -1)
<1>4. Amount(comps, v, x)
  BY LessAmount
<1>5. InsertionEntries(s, e) = comps \o <<p1, p2, p3, p4, out>>
  <2>1. Relinked(LeafFelts(low), LabelOf(LeafFelts(new))) = LeafFelts(WithNext(low, l))
    BY LeafRelinked, LeafCells
  <2>2. /\ Cell(e.low_leaf, LeafColumn.PRICE) = low.label.price
        /\ Cell(e.low_leaf, LeafColumn.TIME) = low.label.time
        /\ Cell(e.low_leaf, LeafColumn.NEXT_PRICE) = low.next.price
        /\ Cell(e.low_leaf, LeafColumn.NEXT_TIME) = low.next.time
        /\ Cell(e.leaf, LeafColumn.PRICE) = l.price
        /\ Cell(e.leaf, LeafColumn.TIME) = l.time
    BY DEF LeafFelts, Cell, LeafColumn
  <2>3. /\ e.low_index = open.low.index /\ e.low_path = open.low.path
        /\ e.updated_low_path = open.low.updated
        /\ e.index = open.leaf.index /\ e.path = open.leaf.path
        /\ e.updated_path = open.leaf.updated /\ e.is_real = 1
    BY DEF ShowsOpenings
  <2>4. QED
    BY <2>1, <2>2, <2>3 DEF InsertionEntries
<1>6. /\ p1.mult \in Int /\ p2.mult \in Int /\ p3.mult \in Int /\ p4.mult \in Int /\ out.mult \in Int
      /\ Term(p1, v) + Term(p2, v) = y /\ Term(p3, v) + Term(p4, v) = z /\ Term(out, v) = - i
      /\ i \in Int
      /\ Term(p1, v) \in Int /\ Term(p2, v) \in Int /\ Term(p3, v) \in Int /\ Term(p4, v) \in Int
  BY PathTerm, EntryTerm DEF HasHashes
<1> HIDE DEF comps, p1, p2, p3, p4, out, x, y, z, i, records, hl, hn, l
<1>7. Amount(<<p1, p2, p3, p4, out>>, v,
             Term(p1, v) + Term(p2, v) + Term(p3, v) + Term(p4, v) + Term(out, v))
  BY <1>6, AmountOfFive
<1>8. Amount(comps \o <<p1, p2, p3, p4, out>>, v,
             x + (Term(p1, v) + Term(p2, v) + Term(p3, v) + Term(p4, v) + Term(out, v)))
  BY <1>4, <1>7, AmountOfJoined
<1>9. x + (Term(p1, v) + Term(p2, v) + Term(p3, v) + Term(p4, v) + Term(out, v)) = (x + y + z) - i
  BY <1>1, <1>2, <1>3, <1>6
<1>10. Amount(InsertionEntries(s, e), v, (x + y + z) - i)
  BY <1>5, <1>8, <1>9
<1>11. Amount((records \o hl) \o hn, v, ((- x) + (- y)) + (- z))
  BY <1>1, <1>2, <1>3, AmountOfJoined
<1>12. ((- x) + (- y)) + (- z) = - (x + y + z)
  BY <1>1, <1>2, <1>3
<1>13. Amount((records \o hl) \o hn, v, - (x + y + z))
  BY <1>11, <1>12
<1>14. x + y + z \in Int
  BY <1>1, <1>2, <1>3
<1>15. QED
  BY <1>10, <1>13, <1>14 DEF x, y, z, i, records, hl, hn, l

(* What the row of a trade looks up of the other rows: the aggressor the   *)
(* comparison of its price with the price of the trade, for the match it   *)
(* yields, the passive order that match.                                   *)
TradeDue(s, kind, own, price, volume, v) ==
  IF kind \in Aggressive
  THEN Has("less_than", IF s = "Buy" THEN <<price, own, 1>> ELSE <<own, price, 1>>, v)
         - Has("match", <<price, volume>>, v)
  ELSE Has("match", <<own, volume>>, v)

LEMMA TradeAmount ==
  ASSUME NEW s, NEW kind, NEW e, e.is_real = 1, NEW volume, NEW v
  PROVE  LET due == TradeDue(s, kind, Cell(e.leaf, LeafColumn.PRICE),
                             e.initial.best[Opposite(s)], volume, v)
         IN  due \in Int /\ Amount(TradeEntries(s, kind, e, volume), v, due)
<1> DEFINE own == Cell(e.leaf, LeafColumn.PRICE)
           price == e.initial.best[Opposite(s)]
           due == TradeDue(s, kind, own, price, volume, v)
           less == IF s = "Buy" THEN LessEntry("less_than", price, own, 1)
                                ELSE LessEntry("less_than", own, price, 1)
           out == Entry("match", <<price, volume>>, -1)
           in == Entry("match", <<own, volume>>, 1)
           x == Has("less_than", IF s = "Buy" THEN <<price, own, 1>> ELSE <<own, price, 1>>, v)
           y == Has("match", <<price, volume>>, v)
           z == Has("match", <<own, volume>>, v)
<1>1. TradeEntries(s, kind, e, volume) = IF kind \in Aggressive THEN <<less, out>> ELSE <<in>>
  BY DEF TradeEntries
<1>2. /\ less.mult \in Int /\ Term(less, v) = x /\ x \in Int
      /\ out.mult \in Int /\ Term(out, v) = - y /\ y \in Int
      /\ in.mult \in Int /\ Term(in, v) = z /\ z \in Int
  BY LessTerm, EntryTerm
<1>3. due = IF kind \in Aggressive THEN x - y ELSE z
  BY DEF TradeDue
<1> HIDE DEF less, out, in, x, y, z, due, own, price
<1>4. Amount(<<less, out>>, v, Term(less, v) + Term(out, v)) /\ Amount(<<in>>, v, Term(in, v))
  BY <1>2, AmountOfTwo, AmountOfOne
<1>5. Term(less, v) + Term(out, v) = x - y /\ x - y \in Int
  BY <1>2
<1>6. Amount(<<less, out>>, v, x - y) /\ Amount(<<in>>, v, z)
  BY <1>2, <1>4, <1>5
<1>7. QED
  BY <1>1, <1>2, <1>3, <1>5, <1>6 DEF due, own, price

(* The row of a full match.                                                *)
LEMMA MatchCancels ==
  ASSUME NEW s, NEW kind, NEW head \in Leaf, NEW leaf \in Leaf, NEW open, NEW e, NEW v,
         ShowsOpenings(e, open), e.low_leaf = LeafFelts(head), e.leaf = LeafFelts(leaf)
  PROVE  LET due  == TradeDue(s, kind, leaf.label.price, e.initial.best[Opposite(s)],
                              leaf.volume, v)
             hashes == HasHashes(open.low, LeafFelts(head), LeafFelts(WithNext(head, leaf.next)), v)
                       + HasHashes(open.leaf, LeafFelts(leaf), LeafFelts(Inactive(leaf)), v)
         IN  /\ due \in Int /\ hashes \in Int
             /\ Amount(Hashed(open.low, head, WithNext(head, leaf.next))
                         \o Hashed(open.leaf, leaf, Inactive(leaf)), v, - hashes)
             /\ Amount(MatchEntries(s, kind, e), v,
                       due + hashes - Has("instruction", Flattened(e), v))
<1> DEFINE due == TradeDue(s, kind, leaf.label.price, e.initial.best[Opposite(s)], leaf.volume, v)
           after == WithNext(head, leaf.next)
           dead == Inactive(leaf)
           y == HasHashes(open.low, LeafFelts(head), LeafFelts(after), v)
           z == HasHashes(open.leaf, LeafFelts(leaf), LeafFelts(dead), v)
           hl == Hashed(open.low, head, after)
           hm == Hashed(open.leaf, leaf, dead)
           i == Has("instruction", Flattened(e), v)
           trade == TradeEntries(s, kind, e, leaf.volume)
           p1 == PathEntry(LeafFelts(head), open.low.index, open.low.path, 1)
           p2 == PathEntry(LeafFelts(after), open.low.index, open.low.updated, 1)
           p3 == PathEntry(LeafFelts(leaf), open.leaf.index, open.leaf.path, 1)
           p4 == PathEntry(LeafFelts(dead), open.leaf.index, open.leaf.updated, 1)
           out == Entry("instruction", Flattened(e), -1)
<1>1. y \in Int /\ Amount(hl, v, - y) /\ z \in Int /\ Amount(hm, v, - z)
  BY HashedAmount
<1>2. /\ Cell(e.leaf, LeafColumn.PRICE) = leaf.label.price
      /\ Cell(e.leaf, LeafColumn.VOLUME) = leaf.volume
      /\ NextOf(e.leaf) = <<leaf.next.price, leaf.next.time>>
  BY LeafCells
<1>3. /\ e.low_index = open.low.index /\ e.low_path = open.low.path
      /\ e.updated_low_path = open.low.updated
      /\ e.index = open.leaf.index /\ e.path = open.leaf.path
      /\ e.updated_path = open.leaf.updated /\ e.is_real = 1
  BY DEF ShowsOpenings
<1>4. due \in Int /\ Amount(trade, v, due)
  BY <1>2, <1>3, TradeAmount
<1>5. MatchEntries(s, kind, e) = trade \o <<p1, p2, p3, p4, out>>
  <2>1. leaf.next \in Label
    BY DEF Leaf
  <2>2. Relinked(e.low_leaf, NextOf(e.leaf)) = LeafFelts(after)
    BY <1>2, <2>1, LeafRelinked
  <2>3. PathEntry(Disabled(e.leaf), e.index, e.updated_path, 1) = p4
    BY <1>3, LeafDisabled DEF PathEntry
  <2> HIDE DEF after, dead, trade
  <2>4. QED
    BY <1>2, <1>3, <2>2, <2>3 DEF MatchEntries, trade
<1>6. /\ p1.mult \in Int /\ p2.mult \in Int /\ p3.mult \in Int /\ p4.mult \in Int /\ out.mult \in Int
      /\ Term(p1, v) + Term(p2, v) = y /\ Term(p3, v) + Term(p4, v) = z /\ Term(out, v) = - i
      /\ i \in Int
      /\ Term(p1, v) \in Int /\ Term(p2, v) \in Int /\ Term(p3, v) \in Int /\ Term(p4, v) \in Int
  BY PathTerm, EntryTerm DEF HasHashes
<1> HIDE DEF trade, p1, p2, p3, p4, out, y, z, i, hl, hm, due, after, dead
<1>7. Amount(<<p1, p2, p3, p4, out>>, v,
             Term(p1, v) + Term(p2, v) + Term(p3, v) + Term(p4, v) + Term(out, v))
  BY <1>6, AmountOfFive
<1>8. Amount(trade \o <<p1, p2, p3, p4, out>>, v,
             due + (Term(p1, v) + Term(p2, v) + Term(p3, v) + Term(p4, v) + Term(out, v)))
  BY <1>4, <1>7, AmountOfJoined
<1>9. due + (Term(p1, v) + Term(p2, v) + Term(p3, v) + Term(p4, v) + Term(out, v))
        = due + (y + z) - i
  BY <1>1, <1>4, <1>6
<1>10. Amount(MatchEntries(s, kind, e), v, due + (y + z) - i)
  BY <1>5, <1>8, <1>9
<1>11. Amount(hl \o hm, v, (- y) + (- z)) /\ (- y) + (- z) = - (y + z)
  BY <1>1, AmountOfJoined
<1>12. Amount(hl \o hm, v, - (y + z))
  BY <1>11
<1>13. y + z \in Int
  BY <1>1
<1>14. QED
  BY <1>4, <1>10, <1>12, <1>13 DEF y, z, i, hl, hm, due, after, dead

(* What a partial match records.                                           *)
PartialOps(open, head, leaf, filled, remaining) ==
  <<SumOf(filled, remaining), PathEntry(LeafFelts(head), open.low.index, open.low.path, -1)>>
    \o Hashed(open.leaf, leaf, WithVolume(leaf, remaining))

HasPartial(open, head, leaf, filled, remaining, v) ==
  Has("add", <<filled, remaining, leaf.volume>>, v)
    + HasPath(LeafFelts(head), open.low.index, open.low.path, v)
    + HasHashes(open.leaf, LeafFelts(leaf), LeafFelts(WithVolume(leaf, remaining)), v)

(* The row of a partial match.                                             *)
LEMMA PartialCancels ==
  ASSUME NEW s \in Sides, NEW kind, NEW head \in Leaf, NEW leaf \in Leaf, NEW filled \in Int,
         head.active, head.volume = 0, head.label = First(s), leaf.label = head.next,
         NEW remaining \in U64, remaining = leaf.volume - filled, NEW open, NEW e, NEW v,
         ShowsOpenings(e, open), e.leaf = LeafFelts(leaf),
         e.low_leaf[1] = filled, e.low_leaf[2] = remaining
  PROVE  LET due  == TradeDue(s, kind, leaf.label.price, e.initial.best[Opposite(s)], filled, v)
             ops  == HasPartial(open, head, leaf, filled, remaining, v)
         IN  /\ due \in Int /\ ops \in Int
             /\ Amount(PartialOps(open, head, leaf, filled, remaining), v, - ops)
             /\ Amount(PartialMatchEntries(s, kind, e), v,
                       due + ops - Has("instruction", Flattened(e), v))
<1> DEFINE total == leaf.volume
           due == TradeDue(s, kind, leaf.label.price, e.initial.best[Opposite(s)], filled, v)
           after == WithVolume(leaf, remaining)
           x == Has("add", <<filled, remaining, total>>, v)
           y == HasPath(LeafFelts(head), open.low.index, open.low.path, v)
           z == HasHashes(open.leaf, LeafFelts(leaf), LeafFelts(after), v)
           hm == Hashed(open.leaf, leaf, after)
           i == Has("instruction", Flattened(e), v)
           trade == TradeEntries(s, kind, e, filled)
           sum == SumOf(filled, remaining)
           shown == PathEntry(LeafFelts(head), open.low.index, open.low.path, -1)
           p1 == Entry("add", <<filled, remaining, total>>, 1)
           p2 == PathEntry(LeafFelts(head), open.low.index, open.low.path, 1)
           p3 == PathEntry(LeafFelts(leaf), open.leaf.index, open.leaf.path, 1)
           p4 == PathEntry(LeafFelts(after), open.leaf.index, open.leaf.updated, 1)
           out == Entry("instruction", Flattened(e), -1)
<1>1. total \in Int /\ remaining \in Int /\ filled + remaining = total
  BY MaxU64Assumption DEF Leaf, U64
<1>2. z \in Int /\ Amount(hm, v, - z)
  BY HashedAmount
<1>3. sum = Entry("add", <<filled, remaining, total>>, -1)
  BY <1>1 DEF SumOf
<1>4. /\ sum.mult \in Int /\ Term(sum, v) = - x /\ x \in Int
      /\ shown.mult \in Int /\ Term(shown, v) = - y /\ y \in Int
  BY <1>3, EntryTerm, PathTerm
<1>5. /\ Cell(e.leaf, LeafColumn.PRICE) = leaf.label.price
      /\ Cell(e.leaf, LeafColumn.VOLUME) = total
  BY LeafCells
<1>6. /\ e.low_index = open.low.index /\ e.low_path = open.low.path
      /\ e.index = open.leaf.index /\ e.path = open.leaf.path
      /\ e.updated_path = open.leaf.updated /\ e.is_real = 1
  BY DEF ShowsOpenings
<1>7. due \in Int /\ Amount(trade, v, due)
  BY <1>5, <1>6, TradeAmount, ZenonT(30)
<1>8. PartialMatchEntries(s, kind, e) = trade \o <<p1, p2, p3, p4, out>>
  <2>1. HeadFelts(s, LabelOf(e.leaf)) = LeafFelts(head)
    BY HeadIsExpected
  <2>2. PathEntry(Revalued(e.leaf, remaining), e.index, e.updated_path, 1) = p4
    BY <1>6, LeafRevalued DEF PathEntry
  <2> HIDE DEF after, trade, total
  <2>3. QED
    BY <1>5, <1>6, <2>1, <2>2 DEF PartialMatchEntries, trade
<1>9. /\ p1.mult \in Int /\ p2.mult \in Int /\ p3.mult \in Int /\ p4.mult \in Int /\ out.mult \in Int
      /\ Term(p1, v) = x /\ Term(p2, v) = y
      /\ Term(p3, v) + Term(p4, v) = z /\ Term(out, v) = - i
      /\ i \in Int /\ Term(p3, v) \in Int /\ Term(p4, v) \in Int
  <2>1. p1.mult \in Int /\ Term(p1, v) = x /\ out.mult \in Int /\ Term(out, v) = - i /\ i \in Int
    BY EntryTerm
  <2>2. p2.mult \in Int /\ Term(p2, v) = y
    BY PathTerm
  <2>3. /\ p3.mult \in Int /\ p4.mult \in Int
        /\ Term(p3, v) + Term(p4, v) = z /\ Term(p3, v) \in Int /\ Term(p4, v) \in Int
    BY PathTerm DEF HasHashes
  <2>4. QED
    BY <2>1, <2>2, <2>3
<1> HIDE DEF trade, sum, shown, p1, p2, p3, p4, out, x, y, z, i, hm, due, after, total
<1>10. Amount(<<p1, p2, p3, p4, out>>, v,
              Term(p1, v) + Term(p2, v) + Term(p3, v) + Term(p4, v) + Term(out, v))
  BY <1>9, AmountOfFive
<1>11. Amount(trade \o <<p1, p2, p3, p4, out>>, v,
              due + (Term(p1, v) + Term(p2, v) + Term(p3, v) + Term(p4, v) + Term(out, v)))
  BY <1>7, <1>10, AmountOfJoined
<1>12. due + (Term(p1, v) + Term(p2, v) + Term(p3, v) + Term(p4, v) + Term(out, v))
         = due + (x + y + z) - i
  BY <1>2, <1>4, <1>7, <1>9
<1>13. Amount(PartialMatchEntries(s, kind, e), v, due + (x + y + z) - i)
  BY <1>8, <1>11, <1>12
<1>14. Amount(<<sum, shown>>, v, Term(sum, v) + Term(shown, v))
  BY <1>4, AmountOfTwo
<1>15. Amount(<<sum, shown>> \o hm, v, (Term(sum, v) + Term(shown, v)) + (- z))
  BY <1>2, <1>14, AmountOfJoined
<1>16. (Term(sum, v) + Term(shown, v)) + (- z) = - (x + y + z)
  BY <1>2, <1>4
<1>17. Amount(<<sum, shown>> \o hm, v, - (x + y + z))
  BY <1>15, <1>16
<1>18. x + y + z \in Int
  BY <1>2, <1>4
<1>19. QED
  BY <1>7, <1>13, <1>17, <1>18
     DEF PartialOps, HasPartial, sum, shown, x, y, z, i, hm, due, after, total

(* The two states of a row and the row itself.                             *)
LEMMA ProcessorAmount ==
  ASSUME NEW row, NEW v, FromEval(row).is_real = 1
  PROVE  LET e  == FromEval(row)
             st == Has("state", StateFelts(e.initial), v)
             sf == Has("state", StateFelts(e.final), v)
             i  == Has("instruction", Flattened(e), v)
         IN  st \in Int /\ sf \in Int /\ i \in Int /\ Amount(ProcessorEntries(row), v, st + i - sf)
<1> DEFINE e == FromEval(row)
           x == Has("state", StateFelts(e.initial), v)
           y == Has("state", StateFelts(e.final), v)
           i == Has("instruction", Flattened(e), v)
           a == Entry("state", StateFelts(e.initial), 1)
           b == Entry("instruction", Flattened(e), 1)
           c == Entry("state", StateFelts(e.final), -1)
<1>1. ProcessorEntries(row) = <<a, b, c>>
  BY DEF ProcessorEntries
<1>2. /\ a.mult \in Int /\ b.mult \in Int /\ c.mult \in Int
      /\ Term(a, v) = x /\ Term(b, v) = i /\ Term(c, v) = - y /\ x \in Int /\ y \in Int /\ i \in Int
  BY EntryTerm
<1> HIDE DEF a, b, c, x, y, i
<1>3. Amount(<<a, b, c>>, v, Term(a, v) + Term(b, v) + Term(c, v))
  BY <1>2, AmountOfThree
<1>4. Term(a, v) + Term(b, v) + Term(c, v) = x + i - y
  BY <1>2
<1>5. Amount(ProcessorEntries(row), v, x + i - y)
  BY <1>1, <1>3, <1>4
<1>6. QED
  BY <1>2, <1>5 DEF x, y, i

-----------------------------------------------------------------------------
(* Sums that cancel                                                        *)

-----------------------------------------------------------------------------
(* The inductive invariant                                                 *)

(* The lookup a trade owes between its steps: the comparison recorded when *)
(* it starts is looked up by the aggressor's row, and the match that row   *)
(* yields by the other.                                                    *)
Owed(c) ==
  LET own   == c.order.price_time.price
      price == c.leaf.label.price
  IN
  CASE c.pc = "aggressor" ->
         <<IF c.side = "Buy" THEN LessEntry("less_than", price, own, 1)
                             ELSE LessEntry("less_than", own, price, 1)>>
    [] c.pc = "passive"   -> <<Entry("match", <<price, c.volume>>, 1)>>
    [] OTHER              -> <<>>

Claimed(st) == <<Entry("state", StateFelts(st), 1), Entry("state", StateFelts(InitialState), -1)>>

(* With what is owed and the claimed states the lookups cancel.            *)
LookupsClose == DOMAIN Tally(sums, Owed(call) \o Claimed(state)) = {}

LookupInv == TraceInv /\ Integral(sums) /\ LookupsClose

(* The same, value by value.                                               *)
HasState(st, v) == Has("state", StateFelts(st), v)

HasOwed(c, v) ==
  LET own   == c.order.price_time.price
      price == c.leaf.label.price
  IN
  CASE c.pc = "aggressor" ->
         Has("less_than", IF c.side = "Buy" THEN <<price, own, 1>> ELSE <<own, price, 1>>, v)
    [] c.pc = "passive"   -> Has("match", <<price, c.volume>>, v)
    [] OTHER              -> 0

LEMMA OwedAmount ==
  ASSUME NEW c, NEW st, NEW v
  PROVE  /\ HasOwed(c, v) \in Int /\ HasState(st, v) \in Int
         /\ Amount(Owed(c) \o Claimed(st), v,
                   HasOwed(c, v) + (HasState(st, v) - HasState(InitialState, v)))
<1> DEFINE own == c.order.price_time.price
           price == c.leaf.label.price
           less == IF c.side = "Buy" THEN LessEntry("less_than", price, own, 1)
                                     ELSE LessEntry("less_than", own, price, 1)
           m == Entry("match", <<price, c.volume>>, 1)
           x == Has("less_than", IF c.side = "Buy" THEN <<price, own, 1>> ELSE <<own, price, 1>>, v)
           y == Has("match", <<price, c.volume>>, v)
           a == Entry("state", StateFelts(st), 1)
           b == Entry("state", StateFelts(InitialState), -1)
           n == HasOwed(c, v)
<1>1. /\ less.mult \in Int /\ Term(less, v) = x /\ x \in Int
      /\ m.mult \in Int /\ Term(m, v) = y /\ y \in Int
      /\ a.mult \in Int /\ Term(a, v) = HasState(st, v) /\ HasState(st, v) \in Int
      /\ b.mult \in Int /\ Term(b, v) = - HasState(InitialState, v)
      /\ HasState(InitialState, v) \in Int
  BY LessTerm, EntryTerm DEF HasState
<1>2. /\ c.pc = "aggressor" => Owed(c) = <<less>> /\ n = x
      /\ c.pc = "passive" => Owed(c) = <<m>> /\ n = y
      /\ c.pc \notin {"aggressor", "passive"} => Owed(c) = <<>> /\ n = 0
  BY DEF Owed, HasOwed
<1>3. Claimed(st) = <<a, b>>
  BY DEF Claimed
<1> HIDE DEF less, m, x, y, a, b, n
<1>4. Amount(<<less>>, v, Term(less, v)) /\ Amount(<<m>>, v, Term(m, v)) /\ Amount(<<>>, v, 0)
  BY <1>1, AmountOfOne, AmountOfNone
<1>5. n \in Int /\ Amount(Owed(c), v, n)
  BY <1>1, <1>2, <1>4
<1>6. Amount(<<a, b>>, v, Term(a, v) + Term(b, v))
  BY <1>1, AmountOfTwo
<1>7. Term(a, v) + Term(b, v) = HasState(st, v) - HasState(InitialState, v)
  BY <1>1
<1>8. Amount(Claimed(st), v, HasState(st, v) - HasState(InitialState, v))
  BY <1>3, <1>6, <1>7
<1>9. Amount(Owed(c) \o Claimed(st), v, n + (HasState(st, v) - HasState(InitialState, v)))
  BY <1>5, <1>8, AmountOfJoined
<1>10. QED
  BY <1>1, <1>5, <1>9 DEF n

(* The lookups close if every value has the same multiplicity among the    *)
(* lookups and what is owed.                                               *)
LEMMA ClosesByValue ==
  ASSUME NEW f, Integral(f), NEW c, NEW st
  PROVE  DOMAIN Tally(f, Owed(c) \o Claimed(st)) = {} <=>
           \A v : Net(f, v) + (HasOwed(c, v) + (HasState(st, v) - HasState(InitialState, v))) = 0
<1> DEFINE es == Owed(c) \o Claimed(st)
<1>1. \A v : Amount(es, v, HasOwed(c, v) + (HasState(st, v) - HasState(InitialState, v)))
  BY OwedAmount
<1> HIDE DEF es
<1>2. Booked(es)
  BY <1>1 DEF Amount, Booked
<1>3. \A v : Total(es, v) = HasOwed(c, v) + (HasState(st, v) - HasState(InitialState, v))
  BY <1>1 DEF Amount
<1>4. DOMAIN Tally(f, es) = {} <=> \A v : Net(f, v) + Total(es, v) = 0
  BY <1>2, TallyEmpty
<1>5. QED
  BY <1>3, <1>4 DEF es

(* A step that records es closes again if es pays what is no longer owed   *)
(* and takes the state along.                                              *)
LEMMA RecordCloses ==
  ASSUME Integral(sums), LookupsClose, NEW es, sums' = Tally(sums, es),
         \A v : Amount(es, v, (HasOwed(call, v) - HasOwed(call', v))
                                + (HasState(state, v) - HasState(state', v)))
  PROVE  Integral(sums') /\ LookupsClose'
<1>1. Booked(es)
  BY DEF Amount, Booked
<1>2. Integral(sums') /\ \A v : Net(sums', v) = Net(sums, v) + Total(es, v)
  BY <1>1, TallyNet
<1>3. ASSUME NEW v
      PROVE  Net(sums', v) + (HasOwed(call', v) + (HasState(state', v) - HasState(InitialState, v)))
               = 0
  <2>1. Net(sums, v) + (HasOwed(call, v) + (HasState(state, v) - HasState(InitialState, v))) = 0
    BY ClosesByValue DEF LookupsClose
  <2>2. Total(es, v) = (HasOwed(call, v) - HasOwed(call', v))
                         + (HasState(state, v) - HasState(state', v))
    BY DEF Amount
  <2>3. Net(sums', v) = Net(sums, v) + Total(es, v)
    BY <1>2
  <2>4. /\ Net(sums, v) \in Int
        /\ HasOwed(call, v) \in Int /\ HasOwed(call', v) \in Int
        /\ HasState(state, v) \in Int /\ HasState(state', v) \in Int
        /\ HasState(InitialState, v) \in Int
    BY <1>1, NetTotal, OwedAmount
  <2>5. QED
    BY <2>1, <2>2, <2>3, <2>4
<1>4. DOMAIN Tally(sums', Owed(call') \o Claimed(state')) = {}
  BY <1>2, <1>3, ClosesByValue
<1>5. QED
  BY <1>2, <1>4 DEF LookupsClose

(* A step that records nothing and owes what was owed.                     *)
LEMMA RestCloses ==
  ASSUME Integral(sums), LookupsClose, sums' = sums, state' = state, Owed(call') = Owed(call)
  PROVE  Integral(sums') /\ LookupsClose'
BY DEF LookupsClose

-----------------------------------------------------------------------------
(* Instructions                                                            *)

(* An instruction as its own row shows it.                                 *)
LEMMA InstructionRead ==
  ASSUME NEW s \in Sides, NEW kind \in Operations, NEW op,
         IsLeaf(op.low_leaf), IsLeaf(op.leaf), op.is_real = 1, op.opcode = OpCode(s, kind)
  PROVE  LET row == Flattened(op)
             e   == FromEval(row)
         IN  /\ SameColumns(e, op) /\ e.is_real = 1
             /\ StateFelts(e.initial) = StateFelts(op.initial)
             /\ StateFelts(e.final) = StateFelts(op.final)
             /\ e.initial.best[Opposite(s)] = op.initial.best[Opposite(s)]
             /\ kind = "Insertion" => ComponentEntries(row) = InsertionEntries(s, e)
             /\ kind \in Full => ComponentEntries(row) = MatchEntries(s, kind, e)
             /\ kind \in Partial => ComponentEntries(row) = PartialMatchEntries(s, kind, e)
<1> DEFINE row == Flattened(op)
           e == FromEval(row)
<1>1. RowOf(row, op, 1)
  BY RowLayout
<1> HIDE DEF row
<1>2. SameColumns(e, op) /\ e.is_real = 1
  BY <1>1, ReadsBack DEF SameColumns
<1>3. Component(row)[1] = s /\ Component(row)[2] = kind
  BY <1>1, ComponentFound
<1>4. /\ kind = "Insertion" => ComponentEntries(row) = InsertionEntries(s, e)
      /\ kind \in Full => ComponentEntries(row) = MatchEntries(s, kind, e)
      /\ kind \in Partial => ComponentEntries(row) = PartialMatchEntries(s, kind, e)
  BY <1>3, KindsOfOperations DEF ComponentEntries
<1> HIDE DEF e
<1>5. /\ StateFelts(e.initial) = StateFelts(op.initial)
      /\ StateFelts(e.final) = StateFelts(op.final)
      /\ e.initial.best[Opposite(s)] = op.initial.best[Opposite(s)]
  BY <1>2, OppositeSide DEF SameColumns, SameState, StateFelts, Sides
<1>6. QED
  BY <1>2, <1>4, <1>5 DEF row, e

(* What an instruction records, looks up and yields adds up to what its    *)
(* row owes to the other rows, and to its step from state to state.        *)
LEMMA InstructionAmount ==
  ASSUME NEW op, NEW records, NEW v, NEW x \in Int, NEW due \in Int,
         FromEval(Flattened(op)).is_real = 1,
         StateFelts(FromEval(Flattened(op)).initial) = StateFelts(op.initial),
         StateFelts(FromEval(Flattened(op)).final) = StateFelts(op.final),
         Amount(records, v, - x),
         Amount(ComponentEntries(Flattened(op)), v,
                due + x - Has("instruction", Flattened(FromEval(Flattened(op))), v))
  PROVE  Amount(records \o ComponentEntries(Flattened(op)) \o ProcessorEntries(Flattened(op)), v,
                due + (HasState(op.initial, v) - HasState(op.final, v)))
<1> DEFINE row == Flattened(op)
           e == FromEval(row)
           i == Has("instruction", Flattened(e), v)
           st == HasState(op.initial, v)
           sf == HasState(op.final, v)
           comp == ComponentEntries(row)
           proc == ProcessorEntries(row)
<1>1. st \in Int /\ sf \in Int /\ i \in Int /\ Amount(proc, v, st + i - sf)
  BY ProcessorAmount DEF HasState
<1>2. Amount(records, v, - x) /\ Amount(comp, v, due + x - i)
  OBVIOUS
<1> HIDE DEF row, e, i, st, sf, comp, proc
<1>3. Amount((records \o comp) \o proc, v, ((- x) + (due + x - i)) + (st + i - sf))
  BY <1>1, <1>2, AmountOfJoined
<1>4. ((- x) + (due + x - i)) + (st + i - sf) = due + (st - sf)
  BY <1>1
<1>5. Amount((records \o comp) \o proc, v, due + (st - sf))
  BY <1>3, <1>4
<1>6. QED
  BY <1>5 DEF row, st, sf, comp, proc

(* The cells in which a partial match keeps its volumes.                   *)
LEMMA VolumesRead ==
  ASSUME NEW a, NEW b
  PROVE  LET felts == <<a, b>> \o [i \in 1 .. NLeafFelts - 2 |-> 0]
         IN  felts[1] = a /\ felts[2] = b
<1> DEFINE S == {a, b, 0}
           head == <<a, b>>
           tail == [i \in 1 .. NLeafFelts - 2 |-> 0]
           r == head \o tail
<1>1. head \in Seq(S) /\ Len(head) = 2 /\ head[1] = a /\ head[2] = b
  OBVIOUS
<1>2. tail \in Seq(S)
  BY DEF NLeafFelts
<1> HIDE DEF S, head, tail
<1>3. Joined(S, r, head, tail)
  BY <1>1, <1>2, TwoParts
<1> HIDE DEF r
<1>4. Agree(r, 0, head, 2)
  BY <1>1, <1>3 DEF Joined
<1>5. r[1] = a /\ r[2] = b
  BY <1>1, <1>4 DEF Agree
<1>6. QED
  BY <1>5 DEF r, head, tail

(* Row shows the openings it is given.                                     *)
LEMMA RowShows ==
  ASSUME NEW s \in Sides, NEW kind \in Operations, NEW open, NEW low_leaf,
         IsLeaf(low_leaf), IsLeaf(LeafFelts(open.leaf.leaf)), state'.op = OpCode(s, kind)
  PROVE  LET op == Instruction(open, open.low.index, low_leaf)
             e  == FromEval(Flattened(op))
         IN  /\ Row(open, open.low.index, low_leaf) = Flattened(op)
             /\ op.initial = state /\ op.final = state'
             /\ ShowsOpenings(e, open)
             /\ e.low_leaf = low_leaf /\ e.leaf = LeafFelts(open.leaf.leaf)
             /\ e.is_real = 1
             /\ StateFelts(e.initial) = StateFelts(op.initial)
             /\ StateFelts(e.final) = StateFelts(op.final)
             /\ e.initial.best[Opposite(s)] = state.best[Opposite(s)]
             /\ kind = "Insertion" => ComponentEntries(Flattened(op)) = InsertionEntries(s, e)
             /\ kind \in Full => ComponentEntries(Flattened(op)) = MatchEntries(s, kind, e)
             /\ kind \in Partial => ComponentEntries(Flattened(op)) = PartialMatchEntries(s, kind, e)
<1> DEFINE op == Instruction(open, open.low.index, low_leaf)
           e == FromEval(Flattened(op))
<1>1. /\ op.initial = state /\ op.final = state' /\ op.opcode = state'.op /\ op.is_real = 1
      /\ op.low_path = open.low.path /\ op.updated_low_path = open.low.updated
      /\ op.low_index = open.low.index /\ op.low_leaf = low_leaf
      /\ op.path = open.leaf.path /\ op.updated_path = open.leaf.updated
      /\ op.index = open.leaf.index /\ op.leaf = LeafFelts(open.leaf.leaf)
      /\ Row(open, open.low.index, low_leaf) = Flattened(op)
  BY DEF Row, Instruction
<1> HIDE DEF op
<1>2. /\ SameColumns(e, op) /\ e.is_real = 1
      /\ StateFelts(e.initial) = StateFelts(op.initial)
      /\ StateFelts(e.final) = StateFelts(op.final)
      /\ e.initial.best[Opposite(s)] = op.initial.best[Opposite(s)]
      /\ kind = "Insertion" => ComponentEntries(Flattened(op)) = InsertionEntries(s, e)
      /\ kind \in Full => ComponentEntries(Flattened(op)) = MatchEntries(s, kind, e)
      /\ kind \in Partial => ComponentEntries(Flattened(op)) = PartialMatchEntries(s, kind, e)
  BY <1>1, InstructionRead
<1> HIDE DEF e
<1>3. ShowsOpenings(e, open) /\ e.low_leaf = low_leaf /\ e.leaf = LeafFelts(open.leaf.leaf)
  BY <1>1, <1>2 DEF SameColumns, ShowsOpenings
<1>4. QED
  BY <1>1, <1>2, <1>3 DEF op, e

-----------------------------------------------------------------------------
(* What the instructions of the order book add up to                       *)

StateChange(v) == HasState(state, v) - HasState(state', v)

LEMMA InsertAdds ==
  ASSUME BookInv, NEW s \in Sides, NEW o \in Order, InsertOutcome(s, book[s], o) = "ok",
         state'.op = OpCode(s, "Insertion"), NEW v
  PROVE  LET row == InsertRow(InsertOpenings(s, book[s], o)) IN
         Amount(InsertRecords(s, book[s], o) \o ComponentEntries(row) \o ProcessorEntries(row), v,
                0 + StateChange(v))
<1> DEFINE t == book[s]
           l == o.price_time
           k == Low(s, t, l)
           low == LeafOf(t, k)
           new == OrderLeaf(o, low.next)
           open == InsertOpenings(s, t, o)
           op == Instruction(open, open.low.index, LeafFelts(low))
           row == InsertRow(open)
           e == FromEval(Flattened(op))
           records == InsertRecords(s, t, o)
           x == HasCompares(s, low, l, v)
                  + HasHashes(open.low, LeafFelts(low), LeafFelts(WithNext(low, l)), v)
                  + HasHashes(open.leaf, EmptyFelts, LeafFelts(new), v)
           i == Has("instruction", Flattened(e), v)
<1>1. TreeInv(s, t) /\ l \in Label
  BY TreeOf DEF Order
<1>2. low \in Leaf
  <2>1. k \in Live(t)
    BY <1>1, InsertBetween
  <2>2. QED
    BY <1>1, <2>1, LiveLeaf DEF LeafOf
<1>3. InsertAsserts(s, low, l)
  BY DEF InsertOutcome
<1>4. new.label = l /\ open.low.leaf = low /\ open.leaf.leaf = new
  BY DEF OrderLeaf, InsertOpenings, Opened, LeafOf
<1>5. records = [j \in DOMAIN InsertCompares(s, low, l) |-> Compared(InsertCompares(s, low, l)[j])]
                  \o Hashed(open.low, low, WithNext(low, l)) \o Hashed(open.leaf, EmptyLeaf, new)
  BY <1>4 DEF InsertRecords
<1>6. IsLeaf(LeafFelts(low)) /\ IsLeaf(LeafFelts(open.leaf.leaf)) /\ "Insertion" \in Operations
  BY LeafCells DEF Operations
<1>7. row = Row(open, open.low.index, LeafFelts(low))
  BY <1>4 DEF InsertRow
<1> HIDE DEF row, records, new, open, low, k, t, l
<1>8. /\ row = Flattened(op)
      /\ op.initial = state /\ op.final = state'
      /\ ShowsOpenings(e, open)
      /\ e.low_leaf = LeafFelts(low) /\ e.leaf = LeafFelts(new)
      /\ e.is_real = 1
      /\ StateFelts(e.initial) = StateFelts(op.initial)
      /\ StateFelts(e.final) = StateFelts(op.final)
      /\ ComponentEntries(Flattened(op)) = InsertionEntries(s, e)
  BY <1>4, <1>6, <1>7, RowShows
<1> HIDE DEF op
<1>9. x \in Int /\ Amount(records, v, - x) /\ Amount(InsertionEntries(s, e), v, x - i)
  <2> HIDE DEF e
  <2>1. new.label \in Label /\ InsertAsserts(s, low, new.label)
    BY <1>1, <1>3, <1>4
  <2> DEFINE c == InsertCompares(s, low, new.label)
             noted == [j \in DOMAIN c |-> Compared(c[j])]
                        \o Hashed(open.low, low, WithNext(low, new.label))
                        \o Hashed(open.leaf, EmptyLeaf, new)
             ops == HasCompares(s, low, new.label, v)
                      + HasHashes(open.low, LeafFelts(low), LeafFelts(WithNext(low, new.label)), v)
                      + HasHashes(open.leaf, EmptyFelts, LeafFelts(new), v)
  <2>2. records = noted /\ x = ops
    BY <1>4, <1>5
  <2>3. s \in Sides /\ ShowsOpenings(e, open) /\ e.low_leaf = LeafFelts(low)
        /\ e.leaf = LeafFelts(new)
    BY <1>8
  <2>4. /\ ops \in Int /\ Amount(noted, v, - ops)
        /\ Amount(InsertionEntries(s, e), v, ops - Has("instruction", Flattened(e), v))
    BY ONLY <1>2, <2>1, <2>3, InsertCancels
  <2> HIDE DEF noted, ops
  <2>5. QED
    BY <2>2, <2>4
<1>10. i \in Int
  BY EntryTerm
<1> HIDE DEF x, i
<1>11. 0 + x - i = x - i
  BY <1>9, <1>10
<1>12. Amount(ComponentEntries(Flattened(op)), v, 0 + x - i)
  BY <1>8, <1>9, <1>11
<1>13. Amount(records \o ComponentEntries(Flattened(op)) \o ProcessorEntries(Flattened(op)), v,
              0 + (HasState(op.initial, v) - HasState(op.final, v)))
  BY <1>8, <1>9, <1>12, InstructionAmount DEF i
<1>14. QED
  BY <1>8, <1>13 DEF StateChange, row, records, t, open

(* What the rows of a trade on side s, at the best order there, owe.       *)
SettleDue(s, kind, volume, v) ==
  TradeDue(s, kind, BestLabel(book[s]).price, state.best[Opposite(s)], volume, v)

LEMMA MatchAdds ==
  ASSUME BookInv, NEW s \in Sides, NEW kind \in Full, BestLabel(book[s]) \in Orders(s),
         state'.op = OpCode(s, kind), NEW v
  PROVE  LET t   == book[s]
             row == MatchRow(MatchOpenings(t))
         IN  Amount(MatchRecords(t) \o ComponentEntries(row) \o ProcessorEntries(row), v,
                    SettleDue(s, kind, LeafOf(t, BestLabel(t)).volume, v) + StateChange(v))
<1> DEFINE t == book[s]
           pos == t.index_map[BestLabel(t)]
           leaf == t.leaves[pos]
           head == t.leaves[FirstPos]
           open == MatchOpenings(t)
           op == Instruction(open, open.low.index, LeafFelts(head))
           row == MatchRow(open)
           e == FromEval(Flattened(op))
           records == MatchRecords(t)
           due == TradeDue(s, kind, leaf.label.price, e.initial.best[Opposite(s)], leaf.volume, v)
           x == HasHashes(open.low, LeafFelts(head), LeafFelts(WithNext(head, leaf.next)), v)
                  + HasHashes(open.leaf, LeafFelts(leaf), LeafFelts(Inactive(leaf)), v)
           i == Has("instruction", Flattened(e), v)
<1>1. TreeInv(s, t) /\ BestLabel(t) \in Resting(s, t)
  BY TreeOf DEF Orders
<1>2. leaf \in Leaf /\ leaf.label = BestLabel(t) /\ head \in Leaf
  BY <1>1, BestLeaf, HeadLeaf
<1>3. leaf = LeafOf(t, BestLabel(t))
  BY DEF LeafOf
<1>4. open.low.leaf = head /\ open.leaf.leaf = leaf /\ open.low.index = 0
  BY SMTT(60) DEF MatchOpenings, Opened, FirstPos
<1>5. records = Hashed(open.low, head, WithNext(head, leaf.next))
                  \o Hashed(open.leaf, leaf, Inactive(leaf))
  BY <1>4 DEF MatchRecords
<1>6. /\ IsLeaf(LeafFelts(head)) /\ IsLeaf(LeafFelts(open.leaf.leaf))
      /\ kind \in Operations /\ kind # "Insertion" /\ kind \notin Partial
  BY LeafCells DEF Operations, Full, Partial
<1>7. row = Row(open, open.low.index, LeafFelts(head))
  BY <1>4 DEF MatchRow
<1> HIDE DEF row, records, open, leaf, head, pos, t
<1>8. /\ row = Flattened(op)
      /\ op.initial = state /\ op.final = state'
      /\ ShowsOpenings(e, open)
      /\ e.low_leaf = LeafFelts(head) /\ e.leaf = LeafFelts(leaf)
      /\ e.is_real = 1
      /\ StateFelts(e.initial) = StateFelts(op.initial)
      /\ StateFelts(e.final) = StateFelts(op.final)
      /\ e.initial.best[Opposite(s)] = state.best[Opposite(s)]
      /\ ComponentEntries(Flattened(op)) = MatchEntries(s, kind, e)
  BY <1>4, <1>6, <1>7, RowShows
<1> HIDE DEF op
<1>9. /\ due \in Int /\ x \in Int /\ Amount(records, v, - x)
      /\ Amount(MatchEntries(s, kind, e), v, due + x - i)
  <2> HIDE DEF e
  <2>1. QED
    BY <1>2, <1>5, <1>8, MatchCancels
<1>10. due = SettleDue(s, kind, LeafOf(t, BestLabel(t)).volume, v)
  BY <1>2, <1>3, <1>8 DEF SettleDue, t
<1> HIDE DEF due, x
<1>11. Amount(ComponentEntries(Flattened(op)), v, due + x - i)
  BY <1>8, <1>9
<1>12. Amount(records \o ComponentEntries(Flattened(op)) \o ProcessorEntries(Flattened(op)), v,
              due + (HasState(op.initial, v) - HasState(op.final, v)))
  BY <1>8, <1>9, <1>11, InstructionAmount
<1>13. QED
  BY <1>8, <1>10, <1>12 DEF StateChange, row, records, t, open

LEMMA PartialAdds ==
  ASSUME BookInv, NEW s \in Sides, NEW kind \in Partial, BestLabel(book[s]) \in Orders(s),
         state'.op = OpCode(s, kind), call.volume \in Int,
         LeafOf(book[s], BestLabel(book[s])).volume - call.volume \in U64, NEW v
  PROVE  LET t    == book[s]
             left == LeafOf(t, BestLabel(t)).volume - call.volume
             row  == PartialMatchRow(PartialOpenings(t, call.volume), call.volume, left)
         IN  Amount(PartialRecords(t, call.volume) \o ComponentEntries(row) \o ProcessorEntries(row),
                    v, SettleDue(s, kind, call.volume, v) + StateChange(v))
<1> DEFINE t == book[s]
           filled == call.volume
           pos == t.index_map[BestLabel(t)]
           leaf == t.leaves[pos]
           head == t.leaves[FirstPos]
           left == leaf.volume - filled
           open == PartialOpenings(t, filled)
           low_leaf == <<filled, left>> \o [i \in 1 .. NLeafFelts - 2 |-> 0]
           op == Instruction(open, open.low.index, low_leaf)
           row == PartialMatchRow(open, filled, left)
           e == FromEval(Flattened(op))
           records == PartialRecords(t, filled)
           due == TradeDue(s, kind, leaf.label.price, e.initial.best[Opposite(s)], filled, v)
           x == HasPartial(open, head, leaf, filled, left, v)
           i == Has("instruction", Flattened(e), v)
<1>1. TreeInv(s, t) /\ BestLabel(t) \in Resting(s, t)
  BY TreeOf DEF Orders
<1>2. /\ leaf \in Leaf /\ leaf.label = BestLabel(t) /\ head \in Leaf
      /\ head.active /\ head.volume = 0 /\ head.label = First(s) /\ leaf.label = head.next
  BY <1>1, BestLeaf, HeadLeaf
<1>3. leaf = LeafOf(t, BestLabel(t)) /\ left \in U64 /\ filled \in Int
  BY DEF LeafOf
<1>4. open.low.leaf = head /\ open.leaf.leaf = leaf /\ open.low.index = 0
  BY DEF PartialOpenings, Opened, FirstPos
<1>5. records = PartialOps(open, head, leaf, filled, left)
  BY <1>4 DEF PartialRecords, PartialOps
<1>6. /\ IsLeaf(low_leaf) /\ IsLeaf(LeafFelts(open.leaf.leaf))
      /\ low_leaf[1] = filled /\ low_leaf[2] = left
      /\ kind \in Operations /\ kind # "Insertion" /\ kind \notin Full
  <2>1. IsLeaf(low_leaf) /\ low_leaf[1] = filled /\ low_leaf[2] = left
    <3> HIDE DEF filled, left
    <3>1. IsLeaf(low_leaf)
      BY VolumeCells
    <3>2. low_leaf[1] = filled /\ low_leaf[2] = left
      BY VolumesRead
    <3>3. QED
      BY <3>1, <3>2
  <2> HIDE DEF low_leaf
  <2>2. IsLeaf(LeafFelts(open.leaf.leaf))
    BY LeafCells
  <2>3. kind \in Operations /\ kind # "Insertion" /\ kind \notin Full
    BY DEF Operations, Full, Partial
  <2>4. QED
    BY <2>1, <2>2, <2>3
<1>7. row = Row(open, open.low.index, low_leaf)
  BY <1>4 DEF PartialMatchRow
<1> HIDE DEF row, records, open, low_leaf, head, t, filled
<1>8. /\ row = Flattened(op)
      /\ op.initial = state /\ op.final = state'
      /\ ShowsOpenings(e, open)
      /\ e.low_leaf = low_leaf /\ e.leaf = LeafFelts(leaf)
      /\ e.is_real = 1
      /\ StateFelts(e.initial) = StateFelts(op.initial)
      /\ StateFelts(e.final) = StateFelts(op.final)
      /\ e.initial.best[Opposite(s)] = state.best[Opposite(s)]
      /\ ComponentEntries(Flattened(op)) = PartialMatchEntries(s, kind, e)
  <2> HIDE DEF leaf
  <2>1. QED
    BY <1>4, <1>6, <1>7, RowShows
<1> HIDE DEF op
<1>9. /\ due \in Int /\ x \in Int /\ Amount(records, v, - x)
      /\ Amount(PartialMatchEntries(s, kind, e), v, due + x - i)
  <2>1. left = leaf.volume - filled
    OBVIOUS
  <2> HIDE DEF e, leaf, left
  <2>2. e.low_leaf[1] = filled /\ e.low_leaf[2] = left
    BY <1>6, <1>8
  <2>3. QED
    BY <1>2, <1>3, <1>5, <1>8, <2>1, <2>2, PartialCancels
<1>10. due = SettleDue(s, kind, filled, v)
  BY <1>2, <1>8 DEF SettleDue, t
<1>11. left = LeafOf(t, BestLabel(t)).volume - filled
  BY <1>3
<1> HIDE DEF due, x, left
<1>12. Amount(ComponentEntries(Flattened(op)), v, due + x - i)
  BY <1>8, <1>9
<1>13. Amount(records \o ComponentEntries(Flattened(op)) \o ProcessorEntries(Flattened(op)), v,
              due + (HasState(op.initial, v) - HasState(op.final, v)))
  BY <1>8, <1>9, <1>12, InstructionAmount
<1>14. QED
  BY <1>8, <1>10, <1>11, <1>13 DEF StateChange, row, records, t, open, filled

-----------------------------------------------------------------------------
(* Every step                                                              *)

LEMMA PlaceCloses ==
  ASSUME LookupInv, PlaceTraced
  PROVE  Integral(sums') /\ LookupsClose'
<1>1. PICK s \in Sides, o \in SomeOrders :
        /\ PlaceOrder(s, o)
        /\ \/ PlaceOutcome(s, o) # "ok" /\ UNCHANGED traceVars
           \/ /\ PlaceOutcome(s, o) = "ok"
              /\ AddInstruction(InsertRecords(s, book[s], o),
                                InsertRow(InsertOpenings(s, book[s], o)))
  BY DEF PlaceTraced
<1>2. BookInv /\ Integral(sums) /\ LookupsClose /\ call.pc = "idle"
  BY <1>1 DEF LookupInv, TraceInv, PlaceOrder
<1>3. CASE PlaceOutcome(s, o) # "ok"
  <2>1. call'.pc \in {"idle", "panic"} /\ state' = state /\ sums' = sums
    BY <1>1, <1>3 DEF PlaceOrder, Idle, traceVars
  <2>2. Owed(call') = Owed(call)
    BY <1>2, <2>1 DEF Owed
  <2>3. QED
    BY <1>2, <2>1, <2>2, RestCloses
<1>4. CASE PlaceOutcome(s, o) = "ok"
  <2> DEFINE row == InsertRow(InsertOpenings(s, book[s], o))
             es == InsertRecords(s, book[s], o) \o ComponentEntries(row) \o ProcessorEntries(row)
  <2>1. sums' = Tally(sums, es)
    BY <1>1, <1>4 DEF AddInstruction
  <2>2. /\ state' = NextState(book'[s], state, s, "Insertion")
        /\ call' = [Idle("ok") EXCEPT !.pc = "match", !.side = s, !.order = o]
    BY <1>1, <1>4 DEF PlaceOrder
  <2>3. call'.pc = "match" /\ state'.op = OpCode(s, "Insertion")
    BY <2>2 DEF Idle, NextState
  <2>4. InsertOutcome(s, book[s], o) = "ok" /\ o \in Order
    BY <1>4, OrderPlaced DEF PlaceOutcome
  <2>5. \A v : Amount(es, v, 0 + StateChange(v))
    BY <1>2, <2>3, <2>4, InsertAdds
  <2>6. \A v : HasOwed(call, v) - HasOwed(call', v) = 0
    BY <1>2, <2>3 DEF HasOwed
  <2> HIDE DEF row, es
  <2>7. \A v : Amount(es, v, (HasOwed(call, v) - HasOwed(call', v))
                               + (HasState(state, v) - HasState(state', v)))
    BY <2>5, <2>6 DEF StateChange
  <2>8. QED
    BY <1>2, <2>1, <2>7, RecordCloses
<1>5. QED
  BY <1>3, <1>4

(* The comparison recorded when a trade starts is owed from then on.       *)
LEMMA TradeCloses ==
  ASSUME LookupInv, TradeTraced
  PROVE  Integral(sums') /\ LookupsClose'
<1> DEFINE s == call.side
           own == call.order.price_time.price
           price == call'.leaf.label.price
           c == IF s = "Buy" THEN [strict |-> FALSE, a |-> price, b |-> own]
                             ELSE [strict |-> FALSE, a |-> own, b |-> price]
           es == TradeRecords(s, own, price)
<1>1. /\ BookInv /\ Integral(sums) /\ LookupsClose /\ StartTrade /\ BookInv'
      /\ call.pc = "match"
  BY StartTradeKeeps DEF LookupInv, TraceInv, TradeTraced, StartTrade
<1>2. call \in CallTypes /\ call.order \in Order /\ s \in Sides
  BY <1>1, CallTyped
<1>3. CASE call'.pc = "panic"
  <2>1. sums' = sums /\ state' = state
    BY <1>1, <1>3 DEF TradeTraced, traceVars, StartTrade, Fail
  <2>2. Owed(call') = Owed(call)
    BY <1>1, <1>3 DEF Owed
  <2>3. QED
    BY <1>1, <2>1, <2>2, RestCloses
<1>4. CASE call'.pc # "panic"
  <2>1. /\ call'.pc = "aggressor" /\ call'.side = s /\ state' = state
        /\ call'.order.price_time.price = own
    <3> DEFINE other == book[Opposite(s)]
               best == LeafOf(other, BestLabel(other))
               v == TradeVolume(call.order.volume, best.volume)
               w == call.order.volume - v
               leaf == [label |-> best.label, volume |-> best.volume - v]
    <3>1. Fail("panic") => call'.pc = "panic"
      BY <1>2 DEF Fail, CallTypes
    <3>2. /\ call' = [call EXCEPT !.pc = "aggressor", !.order.volume = w, !.volume = v,
                                  !.leaf = leaf]
          /\ state' = state
      BY <1>1, <1>4, <3>1 DEF StartTrade
    <3> HIDE DEF other, best, v, w, leaf
    <3>3. call'.pc = "aggressor" /\ call'.side = s /\ call'.order = [call.order EXCEPT !.volume = w]
      BY <1>2, <3>2 DEF CallTypes
    <3>4. call'.order.price_time = call.order.price_time
      BY <1>2, <3>3 DEF Order
    <3>5. QED
      BY <3>2, <3>3, <3>4
  <2>2. sums' = Tally(sums, es)
    BY <1>4 DEF TradeTraced, Record
  <2>3. Accepts(s, own, price)
    BY <1>1, <2>1 DEF BookInv, CallSound
  <2>4. /\ Holds(c) /\ Relation(c) = "less_than"
        /\ <<c.a, c.b, 1>> = IF s = "Buy" THEN <<price, own, 1>> ELSE <<own, price, 1>>
    <3> HIDE DEF own, price, s
    <3>1. QED
      BY <1>2, <2>3 DEF Holds, Relation, Accepts, Sides
  <2>5. es = <<Compared(c)>>
    BY DEF TradeRecords
  <2>6. ASSUME NEW v
        PROVE  Amount(es, v, (HasOwed(call, v) - HasOwed(call', v))
                               + (HasState(state, v) - HasState(state', v)))
    <3> DEFINE x == Has("less_than", <<c.a, c.b, 1>>, v)
               a == Compared(c)
    <3>1. a.mult \in Int /\ Term(a, v) = - x /\ x \in Int
      BY <2>4, ComparedTerm
    <3>2. HasOwed(call', v) = x
      BY <2>1, <2>4 DEF HasOwed
    <3>3. HasOwed(call, v) = 0 /\ HasState(state, v) \in Int /\ HasState(state', v) = HasState(state, v)
      BY <1>1, <2>1, OwedAmount DEF HasOwed
    <3> HIDE DEF a, x, c, es
    <3>4. Amount(<<a>>, v, Term(a, v))
      BY <3>1, AmountOfOne
    <3>5. Term(a, v) = (HasOwed(call, v) - HasOwed(call', v))
                         + (HasState(state, v) - HasState(state', v))
      BY <3>1, <3>2, <3>3
    <3>6. QED
      BY <2>5, <3>4, <3>5 DEF a
  <2> HIDE DEF es
  <2>7. QED
    BY <1>1, <2>2, <2>6, RecordCloses
<1>5. QED
  BY <1>3, <1>4

LEMMA FollowsAnother ==
  ASSUME NEW s \in Sides, NEW kind \in Operations, kind # "Insertion", NEW prev,
         Follows(s, kind, prev)
  PROVE  prev # OpCode(s, kind)
BY DEF Follows, ComplementOpCode, OpCode, BuyCode, Operations, Aggressive, Sides

(* A fill on one side pays what its row owes.                              *)
LEMMA SettleCloses ==
  ASSUME LookupInv, NEW s \in Sides, NEW kind \in Operations, NEW pc, NEW rest \in U64,
         FillOf(s, kind, pc, rest), LeafOf(book[s], BestLabel(book[s])).volume = rest + call.volume,
         call.volume \in Int, Follows(s, kind, state.op), NEW filled \in BOOLEAN,
         filled <=> rest = 0, filled => kind \in Full, ~ filled => kind \in Partial,
         SettleTraced(s, filled),
         \A v : SettleDue(s, kind, call.volume, v) = HasOwed(call, v) - HasOwed(call', v)
  PROVE  Integral(sums') /\ LookupsClose'
<1> DEFINE t == book[s]
           volume == LeafOf(t, BestLabel(t)).volume
           left == volume - call.volume
<1>1. /\ BookInv /\ Integral(sums) /\ LookupsClose /\ BestLabel(t) \in Orders(s)
      /\ state'.op = OpCode(s, kind)
  BY DEF LookupInv, TraceInv, FillOf, NextState
<1>2. rest \in Int /\ volume = rest + call.volume
  BY MaxU64Assumption DEF U64
<1>3. state' # state
  <2>1. kind # "Insertion"
    BY KindsOfOperations
  <2>2. QED
    BY <1>1, <2>1, FollowsAnother
<1>4. CASE filled
  <2> DEFINE row == MatchRow(MatchOpenings(t))
             es == MatchRecords(t) \o ComponentEntries(row) \o ProcessorEntries(row)
  <2>1. sums' = Tally(sums, es)
    BY <1>3, <1>4 DEF SettleTraced, AddInstruction
  <2>2. volume = call.volume
    BY <1>2, <1>4
  <2>3. \A v : Amount(es, v, SettleDue(s, kind, volume, v) + StateChange(v))
    BY <1>1, <1>4, MatchAdds
  <2> HIDE DEF es, volume
  <2>4. \A v : Amount(es, v, (HasOwed(call, v) - HasOwed(call', v))
                               + (HasState(state, v) - HasState(state', v)))
    BY <2>2, <2>3 DEF StateChange
  <2>5. QED
    BY <1>1, <2>1, <2>4, RecordCloses
<1>5. CASE ~ filled
  <2> DEFINE row == PartialMatchRow(PartialOpenings(t, call.volume), call.volume, left)
             es == PartialRecords(t, call.volume) \o ComponentEntries(row) \o ProcessorEntries(row)
  <2>1. sums' = Tally(sums, es)
    BY <1>3, <1>5 DEF SettleTraced, AddInstruction
  <2>2. volume - call.volume \in U64
    <3> HIDE DEF volume
    <3>1. volume - call.volume = rest
      BY <1>2
    <3>2. QED
      BY <3>1
  <2>3. \A v : Amount(es, v, SettleDue(s, kind, call.volume, v) + StateChange(v))
    BY <1>1, <1>5, <2>2, PartialAdds
  <2> HIDE DEF es
  <2>4. \A v : Amount(es, v, (HasOwed(call, v) - HasOwed(call', v))
                               + (HasState(state, v) - HasState(state', v)))
    BY <2>3 DEF StateChange
  <2>5. QED
    BY <1>1, <2>1, <2>4, RecordCloses
<1>6. QED
  BY <1>4, <1>5

LEMMA AggressorCloses ==
  ASSUME LookupInv, AggressorTraced
  PROVE  Integral(sums') /\ LookupsClose'
<1> DEFINE s == call.side
           r == Opposite(s)
           rest == call.order.volume
           kind == AggressorOp
<1>1. /\ BookInv /\ MatchAggressor /\ SettleTraced(s, rest = 0) /\ call.pc = "aggressor"
      /\ call \in CallTypes /\ s \in Sides /\ r \in Sides /\ rest \in U64 /\ call.volume \in Int
  <2>1. BookInv /\ MatchAggressor /\ SettleTraced(s, rest = 0)
    BY DEF LookupInv, TraceInv, AggressorTraced
  <2>2. call.pc = "aggressor"
    BY <2>1 DEF MatchAggressor
  <2> HIDE DEF rest
  <2>3. /\ call \in CallTypes /\ s \in Sides /\ r \in Sides /\ rest \in U64 /\ call.volume \in U64
    BY <2>1, CallTyped DEF rest
  <2>4. QED
    BY <2>1, <2>2, <2>3, MaxU64Assumption DEF U64
<1>2. FillOf(s, kind, "passive", rest)
  BY <1>1, AggressorSettles
<1>3. /\ LeafOf(book[s], BestLabel(book[s])).volume = rest + call.volume
      /\ BestLabel(book[s]) = call.order.price_time /\ BestLabel(book[r]) = call.leaf.label
  BY <1>1, AggressorFills
<1>4. kind \in Aggressive /\ kind \in Operations /\ (rest = 0 => kind \in Full)
      /\ (rest # 0 => kind \in Partial)
  BY DEF AggressorOp, Aggressive, Full, Partial, Operations
<1>5. Follows(s, kind, state.op)
  BY <1>1, <1>4 DEF LookupInv, TraceInv, OpcodesFollow, Follows, Aggressive
<1>6. call' = [call EXCEPT !.pc = "passive"]
  BY <1>2 DEF FillOf
<1>7. /\ call'.pc = "passive" /\ call'.volume = call.volume /\ call'.leaf = call.leaf
  BY <1>1, <1>6 DEF CallTypes
<1>8. state.best[r] = call.leaf.label.price
  BY <1>1, <1>3 DEF BookInv, StateAgrees, BestPrice
<1>9. ASSUME NEW v
      PROVE  SettleDue(s, kind, call.volume, v) = HasOwed(call, v) - HasOwed(call', v)
  BY <1>1, <1>3, <1>4, <1>7, <1>8 DEF SettleDue, TradeDue, HasOwed
<1> HIDE DEF s, rest, kind
<1>10. QED
  BY <1>1, <1>2, <1>3, <1>4, <1>5, <1>9, SettleCloses

LEMMA PassiveCloses ==
  ASSUME LookupInv, PassiveTraced
  PROVE  Integral(sums') /\ LookupsClose'
<1> DEFINE s == Opposite(call.side)
           rest == call.leaf.volume
           kind == PassiveOp
<1>1. /\ BookInv /\ MatchPassive /\ SettleTraced(s, rest = 0) /\ call.pc = "passive"
      /\ call \in CallTypes /\ s \in Sides /\ rest \in U64 /\ call.volume \in Int
  <2>1. BookInv /\ MatchPassive /\ SettleTraced(s, rest = 0)
    BY DEF LookupInv, TraceInv, PassiveTraced
  <2>2. call.pc = "passive"
    BY <2>1 DEF MatchPassive
  <2> HIDE DEF rest
  <2>3. /\ call \in CallTypes /\ s \in Sides /\ rest \in U64 /\ call.volume \in U64
    BY <2>1, CallTyped DEF rest
  <2>4. QED
    BY <2>1, <2>2, <2>3, MaxU64Assumption DEF U64
<1>2. FillOf(s, kind, "match", rest)
  BY <1>1, PassiveSettles
<1>3. /\ LeafOf(book[s], BestLabel(book[s])).volume = rest + call.volume
      /\ BestLabel(book[s]) = call.leaf.label
  BY <1>1 DEF BookInv, LocalsAgree
<1>4. kind \notin Aggressive /\ kind \in Operations /\ (rest = 0 => kind \in Full)
      /\ (rest # 0 => kind \in Partial)
  BY DEF PassiveOp, Aggressive, Full, Partial, Operations
<1>5. Follows(s, kind, state.op)
  BY <1>1, <1>4 DEF LookupInv, TraceInv, OpcodesFollow, Follows, Aggressive
<1>6. call' = [call EXCEPT !.pc = "match"]
  BY <1>2 DEF FillOf
<1>7. call'.pc = "match"
  BY <1>1, <1>6 DEF CallTypes
<1>8. ASSUME NEW v
      PROVE  SettleDue(s, kind, call.volume, v) = HasOwed(call, v) - HasOwed(call', v)
  <2> DEFINE y == Has("match", <<call.leaf.label.price, call.volume>>, v)
  <2>1. SettleDue(s, kind, call.volume, v) = y
    BY <1>3, <1>4 DEF SettleDue, TradeDue
  <2>2. HasOwed(call, v) = y /\ HasOwed(call', v) = 0
    BY <1>1, <1>7 DEF HasOwed
  <2>3. y \in Int
    BY DEF Has
  <2> HIDE DEF y
  <2>4. QED
    BY <2>1, <2>2, <2>3
<1> HIDE DEF s, rest, kind
<1>9. QED
  BY <1>1, <1>2, <1>3, <1>4, <1>5, <1>8, SettleCloses

LEMMA LookupInitHolds == TraceInit => LookupInv
<1> SUFFICES ASSUME TraceInit PROVE LookupInv
  OBVIOUS
<1>1. TraceInv
  BY TraceInitHolds
<1>2. call.pc = "idle" /\ state = InitialState /\ sums = NoLookups
  BY DEF TraceInit, Init, Idle
<1>3. Integral(sums) /\ \A v : Net(sums, v) = 0
  BY <1>2 DEF NoLookups, Integral, Net
<1>4. ASSUME NEW v
      PROVE  Net(sums, v) + (HasOwed(call, v) + (HasState(state, v) - HasState(InitialState, v))) = 0
  <2>1. HasOwed(call, v) = 0
    BY <1>2 DEF HasOwed
  <2>2. HasState(InitialState, v) \in Int
    BY OwedAmount
  <2>3. QED
    BY <1>2, <1>3, <2>1, <2>2
<1>5. LookupsClose
  BY <1>3, <1>4, ClosesByValue DEF LookupsClose
<1>6. QED
  BY <1>1, <1>3, <1>5 DEF LookupInv

LEMMA LookupStepHolds == LookupInv /\ [TraceNext]_allVars => LookupInv'
<1> SUFFICES ASSUME LookupInv, [TraceNext]_allVars PROVE LookupInv'
  OBVIOUS
<1>1. TraceInv'
  BY TraceStepHolds DEF LookupInv
<1>2. CASE UNCHANGED allVars
  <2>1. Integral(sums') /\ LookupsClose'
    BY <1>2 DEF LookupInv, LookupsClose, Integral, allVars
  <2>2. QED
    BY <1>1, <2>1 DEF LookupInv, Integral
<1>3. CASE TraceNext
  <2>1. ASSUME FinishTraced PROVE Integral(sums') /\ LookupsClose'
    <3>1. /\ call.pc = "match" /\ call'.pc = "idle" /\ state' = state /\ sums' = sums
      BY <2>1 DEF FinishTraced, Finish, Idle, traceVars
    <3>2. Owed(call') = Owed(call)
      BY <3>1 DEF Owed
    <3>3. QED
      BY <3>1, <3>2, RestCloses DEF LookupInv
  <2>2. Integral(sums') /\ LookupsClose'
    BY <1>3, <2>1, PlaceCloses, TradeCloses, AggressorCloses, PassiveCloses DEF TraceNext
  <2>3. QED
    BY <1>1, <2>2 DEF LookupInv, Integral
<1>4. QED
  BY <1>2, <1>3

-----------------------------------------------------------------------------
(* Between calls prove_vex finds what it requires, logup_sum = 0: whatever *)
(* orders were placed, the rows of the instructions look up exactly what   *)
(* was recorded for them and what the other rows yield, and the states     *)
(* chain from the first to the current one.                                *)
THEOREM LookupsCancel == TraceSpec => []LookupsBalance
<1>1. LookupInv => LookupsBalance
  <2> SUFFICES ASSUME LookupInv, call.pc = "idle" PROVE DOMAIN ClaimSum(InitialState, state) = {}
    BY DEF LookupsBalance
  <2>1. Owed(call) = <<>>
    BY DEF Owed
  <2>2. <<>> \o Claimed(state) = Claimed(state)
    BY DEF Claimed
  <2>3. DOMAIN Tally(sums, Claimed(state)) = {}
    BY <2>1, <2>2 DEF LookupInv, LookupsClose
  <2>4. QED
    BY <2>3 DEF ClaimSum, Claimed
<1>2. QED
  BY <1>1, LookupInitHolds, LookupStepHolds, PTL DEF TraceSpec

=============================================================================
