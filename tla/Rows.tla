-------------------------------- MODULE Rows --------------------------------
(***************************************************************************)
(* An instruction as the row of felts it is in the trace: the layout       *)
(* `flatten!` gives it in the executor, the order in which the constraints *)
(* read it (Instruction::from_eval), and the offsets by which the traces   *)
(* of src/components find its columns (LeafColumn, StateColumn,            *)
(* InstructionColumn).                                                     *)
(*                                                                         *)
(* Several felts of the code share a cell: the eight limbs of a u64, the   *)
(* bits of an index, and a Merkle path, whose cell is its root; the        *)
(* siblings of a path are left out, MerkleTree has them.                   *)
(***************************************************************************)
EXTENDS Instructions

NStateFelts == 6
NLeafFelts  == 6

StateColumn == [N |-> 0, BUY_ROOT |-> 1, BEST_BUY_PRICE |-> 2, SELL_ROOT |-> 3, BEST_SELL_PRICE |-> 4]

LeafColumn == [ACTIVE |-> 0, VOLUME |-> 1, LABEL |-> 2, PRICE |-> 2, TIME |-> 3,
               NEXT |-> 4, NEXT_PRICE |-> 4, NEXT_TIME |-> 5]

InstructionColumn ==
  [INITIAL_STATE           |-> 0,
   OPCODE                  |-> NStateFelts,
   LOW_MERKLE_PATH         |-> NStateFelts + 1,
   UPDATED_LOW_MERKLE_PATH |-> NStateFelts + 2,
   LOW_INDEX               |-> NStateFelts + 3,
   LOW_LEAF                |-> NStateFelts + 4,
   MERKLE_PATH             |-> NStateFelts + NLeafFelts + 4,
   UPDATED_MERKLE_PATH     |-> NStateFelts + NLeafFelts + 5,
   INDEX                   |-> NStateFelts + NLeafFelts + 6,
   LEAF                    |-> NStateFelts + NLeafFelts + 7,
   FINAL_STATE             |-> NStateFelts + 2 * NLeafFelts + 7,
   IS_REAL                 |-> 2 * NStateFelts + 2 * NLeafFelts + 7]

(* Offsets count from 0.                                                   *)
Cell(felts, offset)     == felts[offset + 1]
Cells(felts, offset, n) == SubSeq(felts, offset + 1, offset + n)

(* State::to_felts *)
StateFelts(st) ==
  <<st.n, st.root["Buy"], st.best["Buy"], st.root["Sell"], st.best["Sell"], st.op>>

(* flatten! of the fields of an instruction, as in the executor and in the *)
(* constraints.                                                            *)
Flattened(op) ==
  StateFelts(op.initial) \o <<op.opcode>>
    \o <<op.low_path, op.updated_low_path, op.low_index>> \o op.low_leaf
    \o <<op.path, op.updated_path, op.index>> \o op.leaf
    \o StateFelts(op.final) \o <<op.is_real>>

(* State::from_eval reads the columns one after the other,                 *)
StateFrom(felts) ==
  [n |-> felts[1], root |-> [Buy |-> felts[2], Sell |-> felts[4]],
   best |-> [Buy |-> felts[3], Sell |-> felts[5]], op |-> felts[6]]

(* and so does Instruction::from_eval.                                     *)
FromEval(row) ==
  [initial  |-> StateFrom(SubSeq(row, 1, 6)), opcode |-> row[7],
   low_path |-> row[8], updated_low_path |-> row[9], low_index |-> row[10],
   low_leaf |-> SubSeq(row, 11, 16),
   path     |-> row[17], updated_path |-> row[18], index |-> row[19],
   leaf     |-> SubSeq(row, 20, 25),
   final    |-> StateFrom(SubSeq(row, 26, 31)), is_real |-> row[32]]

(* The row a table is padded with: a copy of its first row, not real.      *)
Dummy(row) == [row EXCEPT ![InstructionColumn.IS_REAL + 1] = 0]

(* The sides and operations of the components; add_instruction reads the   *)
(* opcode of the row.                                                      *)
Component(row) ==
  CHOOSE c \in Sides \X Operations : OpCode(c[1], c[2]) = Cell(row, InstructionColumn.OPCODE)

Full       == {"MatchAggressive", "MatchPassive"}
Partial    == {"PartialMatchAggressive", "PartialMatchPassive"}
Aggressive == {"MatchAggressive", "PartialMatchAggressive"}

(* The first leaf of a side, pointing to the label of a leaf.              *)
HeadFelts(s, next) == Cells(LeafFelts(FirstLeaf(s)), 0, LeafColumn.NEXT) \o next

LabelOf(felts) == Cells(felts, LeafColumn.LABEL, 2)
NextOf(felts)  == Cells(felts, LeafColumn.NEXT, 2)

Relinked(felts, next)  == Cells(felts, 0, LeafColumn.NEXT) \o next
Revalued(felts, value) == [felts EXCEPT ![LeafColumn.VOLUME + 1] = value]
Disabled(felts)        == [felts EXCEPT ![LeafColumn.ACTIVE + 1] = 0]

EmptyFelts == LeafFelts(EmptyLeaf)

=============================================================================
