------------------------------- MODULE Tables -------------------------------
(***************************************************************************)
(* The tables of an execution trace and their sizes: how many rows an      *)
(* instruction adds to each (src/executor/record.rs as src/imt/mod.rs and  *)
(* src/executor/order_book.rs fill it), the log size each component's      *)
(* `trace` function gives its table (src/components), and the order in     *)
(* which the prover, the claims and the components list the tables.        *)
(***************************************************************************)
EXTENDS Integers, Sequences, FiniteSetsExt, Functions

CONSTANTS LogLanes,         \* LOG_N_LANES, 4 in the code
          InstancesPerRow,  \* N_INSTANCES_PER_ROW, 8 in the code
          BytesLogSize,     \* bytes::LOG_SIZE, 16 in the code
          Height            \* MERKLE_HEIGHT, 20 in the code

ASSUME TablesAssumption ==
  /\ LogLanes \in Nat \ {0} /\ BytesLogSize \in Nat /\ Height \in Nat
  /\ InstancesPerRow \in Nat \ {0}

(* The tables, in the order of every list below.                           *)
Arithmetic == <<"Poseidon", "StrictLessThan", "LessThan", "Addition", "Processor">>

Instructions ==
  <<"InsertBuyOrder", "InsertSellOrder",
    "MatchAggressiveBuy", "MatchAggressiveSell", "MatchPassiveBuy", "MatchPassiveSell",
    "PartialMatchAggressiveBuy", "PartialMatchAggressiveSell",
    "PartialMatchPassiveBuy", "PartialMatchPassiveSell">>

Tables == Range(Arithmetic) \cup Range(Instructions)

(* add_instruction: the table of an operation, by side.                    *)
TableOf ==
  [Insertion              |-> [Buy  |-> "InsertBuyOrder",
                               Sell |-> "InsertSellOrder"],
   MatchAggressive        |-> [Buy  |-> "MatchAggressiveBuy",
                               Sell |-> "MatchAggressiveSell"],
   MatchPassive           |-> [Buy  |-> "MatchPassiveBuy",
                               Sell |-> "MatchPassiveSell"],
   PartialMatchAggressive |-> [Buy  |-> "PartialMatchAggressiveBuy",
                               Sell |-> "PartialMatchAggressiveSell"],
   PartialMatchPassive    |-> [Buy  |-> "PartialMatchPassiveBuy",
                               Sell |-> "PartialMatchPassiveSell"]]

Partial    == {"PartialMatchAggressive", "PartialMatchPassive"}
Aggressive == {"MatchAggressive", "PartialMatchAggressive"}

(* The rows of a table that an operation and its instruction add.  A leaf  *)
(* that is shown or rewritten takes its hash and one hash a level; a       *)
(* partial match only shows the first leaf.  The comparison of a trade     *)
(* counts with its aggressive match.                                       *)
RowsAdded(op, side, t) ==
  CASE t = TableOf[op][side]                           -> 1
    [] t = "Processor"                                 -> 1
    [] t = "Poseidon"                                  -> (IF op \in Partial THEN 3 ELSE 4) * (Height + 1)
    [] t = "StrictLessThan" /\ op = "Insertion"        -> 3
    [] t = "LessThan" /\ op \in {"Insertion"} \cup Aggressive -> 1
    [] t = "Addition" /\ op \in Partial                -> 1
    [] OTHER                                           -> 0

NoRows == [t \in Tables |-> 0]

Added(lens, op, side) == [t \in Tables |-> lens[t] + RowsAdded(op, side, t)]

-----------------------------------------------------------------------------
(* Sizes                                                                   *)

(* u32::ilog2, of a positive number.                                       *)
Log2(n) == CHOOSE k \in 0 .. n : 2^k <= n /\ n < 2^(k + 1)

(* The least k with n <= 2^k, of a number above 1.                         *)
CeilLog2(n) == Log2(n - 1) + 1

(* The rows a component makes of the operations of its table.              *)
RowsOf(t, len) == IF t = "Poseidon" THEN len \div InstancesPerRow ELSE len

PerRow(t) == IF t = "Poseidon" THEN InstancesPerRow ELSE 1

(* The operations that `trace` pads its table with.                        *)
Padding(t, len) == 2^CeilLog2(RowsOf(t, len)) * PerRow(t) - len

(* `trace` fails, in ilog2, for a table of one row or none, when a table   *)
(* has fewer rows than a SIMD vector has lanes, and on a negative padding. *)
Traceable(t, len) ==
  /\ RowsOf(t, len) > 1
  /\ CeilLog2(RowsOf(t, len)) >= LogLanes
  /\ Padding(t, len) >= 0

(* The log size of the claim that `trace` returns.                         *)
TraceLogSize(t, len) == CeilLog2(RowsOf(t, len))

(* ExecutionTrace::log_size; the 16 of the code is the number of lanes.    *)
LogSize(t, len) == CeilLog2(Max({RowsOf(t, len), 2^LogLanes}))

(* ExecutionTrace::max_log_size                                            *)
MaxLogSize(lens) ==
  CeilLog2(Max({RowsOf(t, lens[t]) : t \in Tables} \cup {2^BytesLogSize}))

-----------------------------------------------------------------------------
(* The order of the tables                                                 *)

(* prove_vex: is_first columns, main traces, interaction traces.           *)
PreprocessedOrder == Arithmetic \o Instructions

\* the two sides of the passive matches swapped
MainOrder_Swapped ==
  <<"Bytes">> \o Arithmetic
    \o [Instructions EXCEPT ![5] = "MatchPassiveSell", ![6] = "MatchPassiveBuy"]

MainOrder         == <<"Bytes">> \o Arithmetic \o Instructions
InteractionOrder  == <<"Bytes">> \o Arithmetic \o Instructions

(* VexClaim::mix_into, VexClaim::log_sizes, VexInteractionClaim::mix_into. *)
ClaimOrder            == <<"Bytes">> \o Arithmetic \o Instructions
SizesOrder            == <<"Bytes">> \o Arithmetic \o Instructions
InteractionClaimOrder == <<"Bytes">> \o Arithmetic \o Instructions

(* VexComponents::new, which allocates the columns, and                    *)
(* VexComponents::provers.                                                 *)
AllocationOrder == <<"Bytes">> \o Arithmetic \o Instructions
ProversOrder    == <<"Bytes">> \o Arithmetic \o Instructions

(* max_constraint_log_degree_bound                                         *)
DegreeBound(t, logSize) == logSize + (IF t = "Poseidon" THEN 2 ELSE 1)

=============================================================================
