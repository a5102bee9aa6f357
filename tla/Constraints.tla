----------------------------- MODULE Constraints ----------------------------
(***************************************************************************)
(* What the components of the proof demand of an instruction: the          *)
(* constraints of its row, and the relation entries the row adds           *)
(* (constraints.rs of src/components/processor, insertions, order_match    *)
(* and partial_order_match, and src/components/constraints_utils.rs).      *)
(*                                                                         *)
(* An entry is used with multiplicity 1 and yielded with -1, both times    *)
(* is_real.  The Height + 1 entries of a Merkle path are one entry         *)
(* <<hash of the leaf, index, root>> of "poseidon".                        *)
(***************************************************************************)
EXTENDS Rows, Relations

(* The opcodes a match accepts in the state it starts from: an aggressive  *)
(* match follows the insertion of its order, or a full passive match of    *)
(* the other side; a passive match follows an aggressive one of the other  *)
(* side.                                                                   *)
Follows(s, kind, prev) ==
  IF kind \in Aggressive
  THEN prev \in {OpCode(s, "Insertion"), ComplementOpCode(s, "MatchPassive")}
  ELSE prev \in {ComplementOpCode(s, "MatchAggressive"),
                 ComplementOpCode(s, "PartialMatchAggressive")}

(* What every component demands.                                           *)
Counted(op) ==
  /\ op.is_real \in {0, 1}
  /\ op.final.n = (op.initial.n + 1) % FieldOrder

ProcessorHolds(op) == Counted(op) /\ op.opcode = op.final.op

(* The best price changes only behind the first leaf, and only to that of  *)
(* the new leaf.  (The code compares prices limb by limb.)                 *)
InsertionHolds(s, op) ==
  /\ Counted(op)
  /\ op.opcode = OpCode(s, "Insertion")
  /\ Cell(op.low_leaf, LeafColumn.ACTIVE) = 1
  /\ op.initial.root[s] = op.low_path
  /\ NextOf(op.low_leaf) = NextOf(op.leaf)
  /\ op.updated_low_path = op.path
  /\ op.final.root[s] = op.updated_path
  /\ op.final.best[Opposite(s)] = op.initial.best[Opposite(s)]
  /\ op.final.best[s] # op.initial.best[s] =>
       /\ Cell(op.low_leaf, LeafColumn.PRICE) = First(s).price
       /\ op.final.best[s] = Cell(op.leaf, LeafColumn.PRICE)

OtherSideKept(s, op) ==
  /\ op.final.root[Opposite(s)] = op.initial.root[Opposite(s)]
  /\ op.final.best[Opposite(s)] = op.initial.best[Opposite(s)]

MatchHolds(s, kind, op) ==
  /\ Counted(op)
  /\ op.opcode = OpCode(s, kind)
  /\ Cell(op.leaf, LeafColumn.ACTIVE) = 1
  /\ Follows(s, kind, op.initial.op)
  /\ op.low_leaf = HeadFelts(s, LabelOf(op.leaf))
  /\ op.initial.root[s] = op.low_path
  /\ op.updated_low_path = op.path
  /\ op.final.root[s] = op.updated_path
  /\ op.final.best[s] = Cell(op.leaf, LeafColumn.NEXT_PRICE)
  /\ OtherSideKept(s, op)

PartialMatchHolds(s, kind, op) ==
  /\ Counted(op)
  /\ op.opcode = OpCode(s, kind)
  /\ Cell(op.leaf, LeafColumn.ACTIVE) = 1
  /\ Follows(s, kind, op.initial.op)
  /\ op.low_index = 0
  /\ op.initial.root[s] = op.low_path
  /\ op.low_path = op.path
  /\ op.final.root[s] = op.updated_path
  /\ op.final.best[s] = op.initial.best[s]
  /\ OtherSideKept(s, op)

(* A row is in the table of its component and in that of the processor.    *)
Satisfies(row) ==
  LET s    == Component(row)[1]
      kind == Component(row)[2]
      op   == FromEval(row)
  IN
  /\ ProcessorHolds(op)
  /\ CASE kind = "Insertion" -> InsertionHolds(s, op)
       [] kind \in Full      -> MatchHolds(s, kind, op)
       [] kind \in Partial   -> PartialMatchHolds(s, kind, op)

-----------------------------------------------------------------------------
(* Relation entries, in the order the constraints add them                 *)

(* eval_merkle_proof *)
PathEntry(leaf, index, root, mult) ==
  Entry("poseidon", <<LeafState(leaf), index, root>>, mult)

(* less_than_elements and strict_less_than_elements, with the answer 1.    *)
LessEntry(relation, a, b, mult) == Entry(relation, <<a, b, 1>>, mult)

InsertionEntries(s, op) ==
  LET low_price      == Cell(op.low_leaf, LeafColumn.PRICE)
      low_time       == Cell(op.low_leaf, LeafColumn.TIME)
      next_price     == Cell(op.low_leaf, LeafColumn.NEXT_PRICE)
      next_time      == Cell(op.low_leaf, LeafColumn.NEXT_TIME)
      inserted_price == Cell(op.leaf, LeafColumn.PRICE)
      inserted_time  == Cell(op.leaf, LeafColumn.TIME)
      mult           == op.is_real
  IN
  <<LessEntry("strict_less_than", low_time, inserted_time, mult),
    LessEntry("strict_less_than", next_time, inserted_time, mult)>>
  \o (IF s = "Buy"
      THEN <<LessEntry("less_than", inserted_price, low_price, mult),
             LessEntry("strict_less_than", next_price, inserted_price, mult)>>
      ELSE <<LessEntry("less_than", low_price, inserted_price, mult),
             LessEntry("strict_less_than", inserted_price, next_price, mult)>>)
  \o <<PathEntry(op.low_leaf, op.low_index, op.low_path, mult),
       PathEntry(Relinked(op.low_leaf, LabelOf(op.leaf)), op.low_index, op.updated_low_path, mult),
       PathEntry(EmptyFelts, op.index, op.path, mult),
       PathEntry(op.leaf, op.index, op.updated_path, mult),
       Entry("instruction", Flattened(op), -mult)>>

(* The trade is made at the best price of the other side, which the order  *)
(* that trades accepts; its row yields the match, a passive row, whose own *)
(* price is the trade price, uses it.                                      *)
TradeEntries(s, kind, op, volume) ==
  LET price       == Cell(op.leaf, LeafColumn.PRICE)
      trade_price == op.initial.best[Opposite(s)]
      mult        == op.is_real
  IN
  IF kind \in Aggressive
  THEN <<IF s = "Buy" THEN LessEntry("less_than", trade_price, price, mult)
                      ELSE LessEntry("less_than", price, trade_price, mult),
         Entry("match", <<trade_price, volume>>, -mult)>>
  ELSE <<Entry("match", <<price, volume>>, mult)>>

MatchEntries(s, kind, op) ==
  LET mult == op.is_real IN
  TradeEntries(s, kind, op, Cell(op.leaf, LeafColumn.VOLUME))
  \o <<PathEntry(op.low_leaf, op.low_index, op.low_path, mult),
       PathEntry(Relinked(op.low_leaf, NextOf(op.leaf)), op.low_index, op.updated_low_path, mult),
       PathEntry(op.leaf, op.index, op.path, mult),
       PathEntry(Disabled(op.leaf), op.index, op.updated_path, mult),
       Entry("instruction", Flattened(op), -mult)>>

(* The cells of the low leaf hold the filled and the remaining volume.     *)
PartialMatchEntries(s, kind, op) ==
  LET filled    == op.low_leaf[1]
      remaining == op.low_leaf[2]
      mult      == op.is_real
  IN
  TradeEntries(s, kind, op, filled)
  \o <<Entry("add", <<filled, remaining, Cell(op.leaf, LeafColumn.VOLUME)>>, mult),
       PathEntry(HeadFelts(s, LabelOf(op.leaf)), op.low_index, op.low_path, mult),
       PathEntry(op.leaf, op.index, op.path, mult),
       PathEntry(Revalued(op.leaf, remaining), op.index, op.updated_path, mult),
       Entry("instruction", Flattened(op), -mult)>>

ComponentEntries(row) ==
  LET s    == Component(row)[1]
      kind == Component(row)[2]
      op   == FromEval(row)
  IN CASE kind = "Insertion" -> InsertionEntries(s, op)
       [] kind \in Full      -> MatchEntries(s, kind, op)
       [] kind \in Partial   -> PartialMatchEntries(s, kind, op)

ProcessorEntries(row) ==
  LET op == FromEval(row) IN
  <<Entry("state", StateFelts(op.initial), op.is_real),
    Entry("instruction", Flattened(op), op.is_real),
    Entry("state", StateFelts(op.final), -op.is_real)>>

=============================================================================
