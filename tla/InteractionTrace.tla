--------------------------- MODULE InteractionTrace -------------------------
(***************************************************************************)
(* The interaction trace of an instruction: the columns of fractions that  *)
(* `interaction_trace` of the instruction components writes for a row      *)
(* (trace.rs of src/components/processor, insertions, order_match and      *)
(* partial_order_match, and src/components/trace_utils.rs).                *)
(*                                                                         *)
(* The constraints and the trace are separate code: the trace is computed  *)
(* from the columns of the main trace, found by their offsets.  A column   *)
(* is the set of the fractions it adds up; the Height + 1 columns of a     *)
(* Merkle path are one.                                                    *)
(***************************************************************************)
EXTENDS Constraints

(* add_interaction_col, add_less_than_interaction_col                      *)
InteractionCol(relation, values, is_real, mult) == {Entry(relation, values, mult * is_real)}

LessThanCol(relation, a, b, is_real) == InteractionCol(relation, <<a, b, 1>>, is_real, 1)

(* The leaf hash, then add_merkle_interaction_col at each level.           *)
PathCol(leaf, index, path, is_real) ==
  InteractionCol("poseidon", <<LeafState(leaf), index, path>>, is_real, 1)

Column(row, name)  == Cell(row, InstructionColumn[name])
LowLeafCols(row)   == Cells(row, InstructionColumn.LOW_LEAF, NLeafFelts)
LeafCols(row)      == Cells(row, InstructionColumn.LEAF, NLeafFelts)

\* the offsets of the two sides exchanged
BestPriceCol_Exchanged(row, s) ==
  Cell(row, InstructionColumn.INITIAL_STATE
              + (IF s = "Buy" THEN StateColumn.BEST_SELL_PRICE ELSE StateColumn.BEST_BUY_PRICE))

BestPriceCol(row, s) ==
  Cell(row, InstructionColumn.INITIAL_STATE
              + (IF s = "Buy" THEN StateColumn.BEST_BUY_PRICE ELSE StateColumn.BEST_SELL_PRICE))

LowPathCols(row, leaf, updated) ==
  <<PathCol(leaf, Column(row, "LOW_INDEX"), Column(row, "LOW_MERKLE_PATH"), Column(row, "IS_REAL")),
    PathCol(updated, Column(row, "LOW_INDEX"), Column(row, "UPDATED_LOW_MERKLE_PATH"),
            Column(row, "IS_REAL"))>>

LeafPathCols(row, leaf, updated) ==
  <<PathCol(leaf, Column(row, "INDEX"), Column(row, "MERKLE_PATH"), Column(row, "IS_REAL")),
    PathCol(updated, Column(row, "INDEX"), Column(row, "UPDATED_MERKLE_PATH"),
            Column(row, "IS_REAL"))>>

(* The whole row.                                                          *)
YieldCol(row) == <<InteractionCol("instruction", row, Column(row, "IS_REAL"), -1)>>

InsertionColumns(s, row) ==
  LET low  == LowLeafCols(row)
      leaf == LeafCols(row)
      Less(relation, a, b) == LessThanCol(relation, a, b, Column(row, "IS_REAL"))
      low_price == Cell(low, LeafColumn.PRICE)
      next_price == Cell(low, LeafColumn.NEXT_PRICE)
      inserted_price == Cell(leaf, LeafColumn.PRICE)
      inserted_time == Cell(leaf, LeafColumn.TIME)
  IN
  <<Less("strict_less_than", Cell(low, LeafColumn.TIME), inserted_time),
    Less("strict_less_than", Cell(low, LeafColumn.NEXT_TIME), inserted_time)>>
  \o (IF s = "Buy"
      THEN <<Less("less_than", inserted_price, low_price),
             Less("strict_less_than", next_price, inserted_price)>>
      ELSE <<Less("less_than", low_price, inserted_price),
             Less("strict_less_than", inserted_price, next_price)>>)
  \o LowPathCols(row, low, Relinked(low, LabelOf(leaf)))
  \o LeafPathCols(row, EmptyFelts, leaf)
  \o YieldCol(row)

(* The columns of a trade: the comparison of an aggressive row, and the    *)
(* match.                                                                  *)
TradeColumns(s, kind, row, volume) ==
  LET price       == Cell(LeafCols(row), LeafColumn.PRICE)
      trade_price == BestPriceCol(row, Opposite(s))
      is_real     == Column(row, "IS_REAL")
  IN
  IF kind \in Aggressive
  THEN <<IF s = "Buy" THEN LessThanCol("less_than", trade_price, price, is_real)
                      ELSE LessThanCol("less_than", price, trade_price, is_real),
         InteractionCol("match", <<trade_price, volume>>, is_real, -1)>>
  ELSE <<InteractionCol("match", <<price, volume>>, is_real, 1)>>

MatchColumns(s, kind, row) ==
  LET low  == LowLeafCols(row)
      leaf == LeafCols(row)
  IN
  TradeColumns(s, kind, row, Cell(leaf, LeafColumn.VOLUME))
  \o LowPathCols(row, low, Relinked(low, NextOf(leaf)))
  \o LeafPathCols(row, leaf, Disabled(leaf))
  \o YieldCol(row)

PartialMatchColumns(s, kind, row) ==
  LET leaf      == LeafCols(row)
      filled    == Cell(row, InstructionColumn.LOW_LEAF)
      remaining == Cell(row, InstructionColumn.LOW_LEAF + 1)
      total     == Cell(row, InstructionColumn.LEAF + LeafColumn.VOLUME)
  IN
  TradeColumns(s, kind, row, filled)
  \o <<InteractionCol("add", <<filled, remaining, total>>, Column(row, "IS_REAL"), 1),
       PathCol(HeadFelts(s, LabelOf(leaf)), Column(row, "LOW_INDEX"),
               Column(row, "LOW_MERKLE_PATH"), Column(row, "IS_REAL"))>>
  \o LeafPathCols(row, leaf, Revalued(leaf, remaining))
  \o YieldCol(row)

ComponentColumns(row) ==
  LET s    == Component(row)[1]
      kind == Component(row)[2]
  IN CASE kind = "Insertion" -> InsertionColumns(s, row)
       [] kind \in Full      -> MatchColumns(s, kind, row)
       [] kind \in Partial   -> PartialMatchColumns(s, kind, row)

(* add_interaction_col_batched, for the two states; then the instruction.  *)
ProcessorColumns(row) ==
  LET is_real == Column(row, "IS_REAL") IN
  <<InteractionCol("state", Cells(row, InstructionColumn.INITIAL_STATE, NStateFelts), is_real, 1)
      \cup InteractionCol("state", Cells(row, InstructionColumn.FINAL_STATE, NStateFelts), is_real, -1),
    InteractionCol("instruction", row, is_real, 1)>>

-----------------------------------------------------------------------------
(* How the constraints batch their entries into columns                    *)

(* finalize_logup_batched of ProcessorEval: entry i is in column batch[i]. *)
ProcessorBatch == <<0, 1, 0>>

(* INTERACTION_COLS, as the factor of MERKLE_HEIGHT and the rest.          *)
LessThanCols(kind) == IF kind \in Aggressive THEN 1 ELSE 0

InteractionCols(kind) ==
  CASE kind = "Insertion" -> <<4, 9>>
    [] kind \in Full      -> <<4, 6 + LessThanCols(kind)>>
    [] kind \in Partial   -> <<3, 6 + LessThanCols(kind)>>

ProcessorInteractionCols == 2

(* The same of columns written: a path takes a column more than levels.    *)
Width(columns) ==
  <<Cardinality({i \in DOMAIN columns : \E f \in columns[i] : f.relation = "poseidon"}), Len(columns)>>

=============================================================================
