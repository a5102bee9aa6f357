--------------------------- MODULE ExecutionTrace ---------------------------
(***************************************************************************)
(* What running the order book leaves in its trace (src/executor/record.rs,*)
(* filled by src/imt/mod.rs and src/executor/order_book.rs), and whether   *)
(* the components can prove it: the instructions one by one, and the sum   *)
(* of all lookups, which prove_vex requires to be zero.                    *)
(*                                                                         *)
(* The trace only grows.  Of its rows the model keeps the last instruction *)
(* and, of the operations, the sum of their lookups: what has been used    *)
(* minus what has been yielded, by relation and entry.                     *)
(***************************************************************************)
EXTENDS OrderBook, InteractionTrace

VARIABLES
  instructions,   \* the last instruction of the trace, <<>> before the first
  sums            \* <<relation, values>> -> uses minus yields, zeros left out

traceVars == <<instructions, sums>>
allVars   == <<book, state, call, instructions, sums>>

-----------------------------------------------------------------------------
(* A row of the tables of operations: the operation yields its result.     *)
Record(ops) == sums' = Tally(sums, ops)

(* The operations of a call, then its instruction, which goes to its       *)
(* component and to the processor.                                         *)
AddInstruction(ops, row) ==
  /\ instructions' = <<row>>
  /\ sums' = Tally(sums, ops \o ComponentEntries(row) \o ProcessorEntries(row))

-----------------------------------------------------------------------------
(* The operations the code records                                         *)

(* add_less_than_event and add_strictly_less_than_event: the result is     *)
(* computed, whatever the caller expects of it.                            *)
Compared(c) ==
  Entry(IF c.strict THEN "strict_less_than" ELSE "less_than",
        <<c.a, c.b, IF Holds(c) THEN 1 ELSE 0>>, -1)

(* add_add_event computes the sum.                                         *)
SumOf(a, b) == Entry("add", <<a, b, a + b>>, -1)

(* The hashes of a leaf shown under one root and rewritten under the next. *)
Hashed(open, before, after) ==
  <<PathEntry(LeafFelts(before), open.index, open.path, -1),
    PathEntry(LeafFelts(after), open.index, open.updated, -1)>>

(* get_merkle_proof, then finalize_update or finalize_insert: the leaf at  *)
(* a position is shown, then the leaves change at that position.           *)
Opened(pos, before, leaves, changed) ==
  [leaf |-> before, index |-> pos - 1, path |-> Hashes(leaves), updated |-> Hashes(changed)]

(* IndexedMerkleTree::insert *)
InsertOpenings(s, t, o) ==
  LET low    == t.index_map[Low(s, t, o.price_time)]
      linked == [t.leaves EXCEPT ![low] = WithNext(@, o.price_time)]
      new    == OrderLeaf(o, t.leaves[low].next)
  IN  [low  |-> Opened(low, t.leaves[low], t.leaves, linked),
       leaf |-> Opened(Len(linked) + 1, new, linked, Append(linked, new))]

InsertRecords(s, t, o) ==
  LET low      == LeafOf(t, Low(s, t, o.price_time))
      open     == InsertOpenings(s, t, o)
      compares == InsertCompares(s, low, o.price_time)
  IN [i \in DOMAIN compares |-> Compared(compares[i])]
       \o Hashed(open.low, low, WithNext(low, o.price_time))
       \o Hashed(open.leaf, EmptyLeaf, open.leaf.leaf)

(* IndexedMerkleTree::match_order *)
MatchOpenings(t) ==
  LET pos    == t.index_map[BestLabel(t)]
      linked == [t.leaves EXCEPT ![FirstPos] = WithNext(@, t.leaves[pos].next)]
  IN  [low  |-> Opened(FirstPos, t.leaves[FirstPos], t.leaves, linked),
       leaf |-> Opened(pos, t.leaves[pos], linked, [linked EXCEPT ![pos] = Inactive(@)])]

MatchRecords(t) ==
  LET open == MatchOpenings(t)
      head == open.low.leaf
      leaf == open.leaf.leaf
  IN Hashed(open.low, head, WithNext(head, leaf.next)) \o Hashed(open.leaf, leaf, Inactive(leaf))

(* IndexedMerkleTree::match_partially, and the addition recorded by        *)
(* finalize_partial_match.                                                 *)
PartialOpenings(t, filled) ==
  LET pos == t.index_map[BestLabel(t)] IN
  [low  |-> Opened(FirstPos, t.leaves[FirstPos], t.leaves, <<>>),
   leaf |-> Opened(pos, t.leaves[pos], t.leaves,
                   [t.leaves EXCEPT ![pos] = WithVolume(@, @.volume - filled)])]

PartialRecords(t, filled) ==
  LET open      == PartialOpenings(t, filled)
      leaf      == open.leaf.leaf
      remaining == leaf.volume - filled
  IN <<SumOf(filled, remaining),
       PathEntry(LeafFelts(open.low.leaf), open.low.index, open.low.path, -1)>>
       \o Hashed(open.leaf, leaf, WithVolume(leaf, remaining))

\* the comparison the other way round
TradeRecords_Swapped(s, own, best) ==
  <<Compared(IF s = "Buy" THEN [strict |-> FALSE, a |-> own, b |-> best]
                          ELSE [strict |-> FALSE, a |-> best, b |-> own])>>

(* The comparison match_buy and match_sell record for each trade.          *)
TradeRecords(s, own, best) ==
  <<Compared(IF s = "Buy" THEN [strict |-> FALSE, a |-> best, b |-> own]
                          ELSE [strict |-> FALSE, a |-> own, b |-> best])>>

(* The row of an instruction, as place_*_order, finalize_match and         *)
(* finalize_partial_match lay it out.                                      *)
Row(open, low_index, low_leaf) ==
  Flattened([initial |-> state, opcode |-> state'.op,
             low_path |-> open.low.path, updated_low_path |-> open.low.updated,
             low_index |-> low_index, low_leaf |-> low_leaf,
             path |-> open.leaf.path, updated_path |-> open.leaf.updated,
             index |-> open.leaf.index, leaf |-> LeafFelts(open.leaf.leaf),
             final |-> state', is_real |-> 1])

InsertRow(open) == Row(open, open.low.index, LeafFelts(open.low.leaf))

(* A match does not keep the index of the first leaf, which is 0,          *)
MatchRow(open) == Row(open, 0, LeafFelts(open.low.leaf))

(* a partial match neither that nor the leaf: its cells hold the filled    *)
(* and the remaining volume.                                               *)
PartialMatchRow(open, filled, remaining) ==
  Row(open, 0, <<filled, remaining>> \o [i \in 1 .. NLeafFelts - 2 |-> 0])

-----------------------------------------------------------------------------
(* Actions: a step of the order book, and what it adds to the trace.       *)

TraceInit ==
  /\ Init
  /\ instructions = <<>>
  /\ sums = NoLookups

PlaceTraced ==
  \E s \in Sides, o \in SomeOrders :
    /\ o.price_time.price < MaxU64
    /\ PlaceOrder(s, o)
    /\ \/ PlaceOutcome(s, o) # "ok" /\ UNCHANGED traceVars
       \/ /\ PlaceOutcome(s, o) = "ok"
          /\ AddInstruction(InsertRecords(s, book[s], o),
                            InsertRow(InsertOpenings(s, book[s], o)))

FinishTraced == Finish /\ UNCHANGED traceVars

TradeTraced ==
  /\ StartTrade
  /\ \/ call'.pc = "panic" /\ UNCHANGED traceVars
     \/ /\ call'.pc # "panic"
        /\ Record(TradeRecords(call.side, call.order.price_time.price, call'.leaf.label.price))
        /\ UNCHANGED instructions

(* A step of Settle on side s.  An error of match_partially would leave    *)
(* the hashes it has read; TradesNeverFail says there is none.             *)
SettleTraced(s, filled) ==
  LET t    == book[s]
      left == LeafOf(t, BestLabel(t)).volume - call.volume
  IN
  \/ state' = state /\ UNCHANGED traceVars
  \/ /\ state' # state
     /\ \/ filled /\ AddInstruction(MatchRecords(t), MatchRow(MatchOpenings(t)))
        \/ /\ ~ filled
           /\ AddInstruction(PartialRecords(t, call.volume),
                             PartialMatchRow(PartialOpenings(t, call.volume), call.volume, left))

AggressorTraced == MatchAggressor /\ SettleTraced(call.side, call.order.volume = 0)

PassiveTraced == MatchPassive /\ SettleTraced(Opposite(call.side), call.leaf.volume = 0)

TraceNext == PlaceTraced \/ FinishTraced \/ TradeTraced \/ AggressorTraced \/ PassiveTraced

TraceSpec == TraceInit /\ [][TraceNext]_allVars

-----------------------------------------------------------------------------
(* Properties                                                              *)

(* Every instruction satisfies the constraints of its component and of the *)
(* processor, and so does the row the tables are padded with: what the     *)
(* executor reads from the two trees and from its state, before and after  *)
(* an operation, fits together row by row, including the opcode of the     *)
(* instruction before it.                                                  *)
ConstraintsHold ==
  instructions # <<>> => Satisfies(instructions[1]) /\ Satisfies(Dummy(instructions[1]))

(* "It Has to be ensured that the LogUp Entries are added in the same      *)
(* order as the Interaction Trace" (components/bytes/constraints.rs:42):   *)
(* the interaction trace of every row, real or not, has the columns the    *)
(* constraints expect, in their order, and as many as INTERACTION_COLS.    *)
ColumnsMatchEntries ==
  instructions # <<>> =>
    \A row \in {instructions[1], Dummy(instructions[1])} :
      /\ ComponentColumns(row) = Unbatched(ComponentEntries(row))
      /\ ProcessorColumns(row) = Batched(ProcessorEntries(row), ProcessorBatch)
      /\ Width(ComponentColumns(row)) = InteractionCols(Component(row)[2])
      /\ Len(ProcessorColumns(row)) = ProcessorInteractionCols

(* VexInteractionClaim::logup_sum: the lookups and the claimed states.     *)
ClaimSum(initial, final) ==
  Tally(sums, <<Entry("state", StateFelts(final), 1), Entry("state", StateFelts(initial), -1)>>)

(* Between calls the trace can be proved: every comparison, addition and   *)
(* hash a component looks up was recorded, every one recorded is looked    *)
(* up, each trade has both of its sides, and the states chain from the     *)
(* first to the current one.                                               *)
LookupsBalance ==
  call.pc = "idle" => DOMAIN ClaimSum(InitialState, state) = {}

=============================================================================
