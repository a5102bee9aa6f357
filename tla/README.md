# A verification project for vex-prover

vex-prover runs a limit order book and proves, with a STARK, that it was run
correctly. Each side of the book is an indexed Merkle tree; every change of a
tree is recorded as an instruction with its Merkle proofs; a set of AIR
components then checks the instructions. These modules model that chain from
the tree to the verified proof. `PROJECT.json` lists the components,
runs, mutants, findings, hazards and theorems, and maps each definition to the
lines it was written from. Source paths below are relative to `src/src`.

## 1. The system

| Component | State | Operations | Hard part |
|---|---|---|---|
| limbs (`types.rs`) | none | from/to u64, add, sub, compare | carries, borrows, overflow at the last limb |
| labels and sides (`imt/side.rs`, `imt/leaf.rs`, `imt/order.rs`) | none | priority order, sentinels, op codes | the two sides are mirror images written separately |
| indexed Merkle tree (`imt/mod.rs`) | `leaves`, `index_map`, `raw`, `root` | insert, update, cancel_at_index, match_order, match_partially, verify of five proofs | a linked list inside a vector, kept together with a map and with hashes; slots are never reused |
| order book (`executor/order_book.rs`, `state.rs`, `instruction.rs`) | both trees, `state` | place_buy_order, place_sell_order, the matching loop | local copies of orders and leaves while both trees change; a trade is two calls |
| execution trace (`executor/record.rs`) | tables of rows, byte counters | add_* events, add_instruction, log sizes | must hold exactly what the components look up |
| instruction components (`components/processor`, `insertions`, `order_match`, `partial_order_match`, `trace_utils.rs`, `constraints_utils.rs`) | none | main trace and padding, constraints and entries of a row, interaction trace | opcode alternation, state chaining, two-leaf rewrites; constraints and interaction trace are separate code over one layout of columns |
| arithmetic components (`components/addition`, `less_than`, `bytes`) | none | the same | equality, wrap-around, first difference, padding |
| poseidon component (`components/poseidon`, `hash.rs`, `constants.rs`) | none | the same, eight operations a row | witness columns, literal offsets, the remainder of a division by 8 |
| prover and verifier (`prover.rs`, `lib.rs`, `components/mod.rs`) | channel, commitments | commit three trees, mix claims, draw, check the logup sum, prove, verify | sixteen tables listed by hand in seven places; sizes computed in three |
| relation tracker (`relation_tracker.rs`) | none | debugging print | |

**Interaction.** A client calls the order book. The book inserts the order in
the tree of its side and then loops: it reads the best leaf of the other side,
and calls `match_order` or `match_partially` on each tree. Both trees and the
book share one trace through `Rc<RefCell<..>>`; the trees record comparisons
and hashes, the book records the price comparison and the addition of a trade
and one instruction per change. There is a single thread, no I/O and nothing is
persisted. The client takes the trace out of the shared cell, stores the final
state in it and calls `prove_vex`, which consumes it: each table becomes a
component, and the sum of all lookups, together with the claimed first and last
states, must be zero. `verify_vex` rebuilds the components and the channel from
the claims in the proof.

**What is hard to test.** Not concurrency or failure, but long sequences of legal
calls: a wrong link shows much later; a row that is missing or recorded too
often shows only when a proof is attempted, as a non-zero sum with no hint of
where. Besides: partial failure halfway through a trade, copies that go stale,
and numbers at their limits (sentinel prices, capacity, volumes 0, short
tables, tables a little above a power of two). The proving side repeats itself:
the layout of a row is known to the executor, the constraints and the
interaction trace, and the order of the tables to prover, claims and components;
nothing but a failing proof says when two of them differ. `hazards` in `PROJECT.json` says which
property covers what.

## 2. Modules

```
PriceTime -- IMTree -- IMT                     IMT  implements  PriceTimeQueue
                |       |
                |    MerkleTree
             Hashing
                |
           Instructions --- OrderBook ---------+   OrderBook  implements  MatchingEngine
                |                              |
               Rows --- Constraints            |
                            |  \ Relations     |
                     InteractionTrace ---------+-- ExecutionTrace

Limbs -- LimbTables --+
         Relations    +-- OperationTables
         Poseidon ----+

Tables -- Prover

Proofs:
CommonProofs --+-- IMTreeProofs --+-- IMTProofs -------- MerkleTreeProofs
               |                  +-- OrderBookProofs -- ExecutionTraceProofs
               +-- OperationTablesProofs
               +-- ProverProofs
```

* **PriceTime**: labels, the priority order of both sides, the sentinels'
  labels. A u64 is an integer in `0 .. MaxU64`; the side, a type parameter in
  the code, is a parameter of the operators. `Before(s, a, b)` is `a < b` in
  `Ord for PriceTime`, which means that `a` is executed first.
* **IMTree**: a tree as a value `[leaves, index_map]`. Each method has an
  outcome (`"ok"`, the name of its `IMTError`, or `"panic"`) and a resulting
  tree. Positions count from 1, slots in the code from 0. `IsLow` is
  `index_map.range(..label).next_back()`. The conjuncts of the inductive
  invariant (`TreeType`, `Indexed`, `SentinelsKept`, `Linked`) are here too, as
  the book uses them for both trees.
* **IMT**: one tree as a machine, one action per public method. `call` keeps
  what the last call returned and the volume it entered, set, returned or
  filled. `Next` is a client that keeps the obligations the order book keeps
  (listed in the module's header); `OpenNext` has none.
* **PriceTimeQueue**: what one side promises: a set of orders from which only
  the best can be taken or reduced, and which are joined behind their price
  level. Each of its actions is one call and names its answer: taking an order
  out of turn is a `Cancel` only when the call was `cancel_at_index`. `IMT`
  implements it under the mapping `orders <- [label -> volume]` of the live
  non-sentinel leaves and `answer <-` the method, success, order and volume of
  `call`.
* **Hashing**: what `Leaf::hash` commits to. It takes 16 of the 41 felts of a
  leaf: the active flag, the volume and the seven low limbs of the price, which
  is `price % LowPrices`. Hashing itself is injective here.
* **MerkleTree**: adds `raw`, `root` and the returned proof to IMT; each action
  is the IMT action with its hashes. `Rehashed` is one pass of
  `finalize_update` or `finalize_insert`; `Opening` is `get_merkle_proof` plus
  the updated path; `Verifies` is the `verify` method of the proof, where match
  proofs rebuild the first leaf.
* **Instructions**: opcodes and `State`. A root is represented by the hashes of
  the leaves, which MerkleTree justifies (`RawIsReference`).
* **OrderBook**: the book, with the sides merged into a parameter.
  `PlaceOrder` is the call up to the first instruction; an iteration of the loop
  is `StartTrade`, `MatchAggressor`, `MatchPassive`; `Finish` leaves the loop.
  Each of them changes at most one tree and adds at most one instruction, so the
  intermediate states a failure could expose are states of the model. Debug
  assertions are part of the steps.
* **MatchingEngine**: what the book promises. A trade is one step; it happens
  when the first of the two trees changes.
* **Relations**: relation entries (`RelationEntry::new`), the ways stwo gathers
  them in columns, and `Tally`, the exact sum of multiplicities for which the
  logup sums stand.
* **Rows**: the columns of states, leaves and instructions. A group of felts (a
  u64, a root, a Merkle path, an index) is one column, so offsets differ from
  the code's but their order does not. `Flattened` writes a row the way
  `flatten!` does, `FromEval` reads it the way the constraints do, `Cell` the
  way the interaction traces do, by offset. `Dummy` is the padding row.
* **Constraints**: `Satisfies`, the constraints of the five instruction
  components, and `ComponentEntries`, `ProcessorEntries`, the entries in the
  order they are added.
* **InteractionTrace**: the columns of fractions of the same components, from
  the separate code that fills them.
* **ExecutionTrace**: OrderBook with its trace. `sums` tallies every entry of
  every row and every operation the executor recorded; the hash lookups of one
  Merkle path are one entry.
* **Limbs**: the limb arithmetic of `types.rs`. `Weight[i]`, the value of a limb,
  is `Base^i`; carries, borrows and sums are recursive functions over the limbs.
* **LimbTables**: rows, padding, constraints, entries and interaction columns of
  addition, less_than and bytes.
* **Poseidon**: the permutation with its full width, rounds and constants
  (`States` is the state before each round and after the last); the table with several operations a row, the constraints that read one witness
  column after the other, and the interaction trace that finds the hash at
  column 143.
* **OperationTables**: the machine that records events in those tables, one
  action per `add_*_event`.
* **Tables**: how many rows an instruction adds to each table, what sizes
  `log_size`, `max_log_size` and the `trace` functions compute from that, when
  `trace` fails, and the order of the tables in each of the lists.
* **Prover**: a session, of which only table lengths and state numbers are
  kept, then `prove_vex` (`CommitPreprocessed`, `CommitMain`,
  `CommitInteraction`, `Prove`) and `verify_vex` (`Verify`). A commitment is the
  owner and log size of its columns, the channel what has been mixed into it;
  stwo is external and modelled by what the code relies on: a domain needs
  twiddles as large, an opening verifies only with the sizes and randomness of
  the commitment, and components find their columns by allocation.
* **The eight proof modules**, described in section 5.

Operators with a suffix after an underscore (`Inserted_NextLost`) are
deliberately wrong variants used to show that a property can fail; no
specification uses them.

## 3. Runs, bounds and what they show

| Run | Shows | Bounds |
|---|---|---|
| `IMT_buy`, `IMT_sell` | chain, sentinels, head, queue refinement call by call, and (buy) types and frozen slots, for any call sequence | 5 leaves: the sentinels and three orders, enough for an insert and a removal in front, in the middle and at the end, with a dead slot beside them. Prices include the sentinels' own (3), and times repeat across prices: two prices and three times on the buy side, three prices and two times on the sell side; volumes 1 and 3 make partial fills of different sizes |
| `MerkleTree_levels` | hashes equal the complete tree; proofs verify, and replay the leaves and the root without the tree | height 3 for up to 5 leaves: left and right children, stored and missing siblings, appended and rewritten nodes at every level |
| `OrderBook_book` | uncrossed, copies agree, state agrees, which orders are refused, no trade fails, engine refinement, calls return | 4 leaves a side, volumes 0 to 3, two prices and times: equal, larger and smaller volumes, two trades by one order, invalid and stale orders |
| `ExecutionTrace_provable` | rows and their padding satisfy their constraints; interaction columns are the entries of the constraints; lookups cancel | 4 leaves a side, two prices, times and volumes: an order meets up to two resting ones and fills them wholly or in part; `FieldOrder` 5 makes the instruction counter wrap |
| `OperationTables_rows` | limb arithmetic; completeness and soundness of arithmetic rows, padding included; columns are entries; byte counters cancel; the poseidon rows yield the hashes of `hash.rs` and no others | base 3, four limbs (first, two middle, last), all 81 x 81 pairs, all flags, carries and results; two events over eight operands with long carries; two hashes, of nodes and leaves, with and without padding, modulo 7 |
| `Prover_sessions` | a proof that is attempted succeeds and verifies, for the right states; the only panics are short tables and the poseidon overhang | instruction tables of up to four rows with 2 lanes, height 1, bytes table of 8 rows: short, exact, padded and overhanging tables all occur, and the largest table is the bytes table in short sessions, the poseidon or processor table in long ones |
| `IMT_update_first`, `IMT_cancel_low`, `MerkleTree_capacity`, `OrderBook_last_leaf`, `Prover_overhang` | the five findings of section 6 | the smallest instance that has them |

`MaxLeaves`, `MaxRows`, `MaxResting` and `LatestExchange` bound the state space;
they guard insertions, events, orders and the exchange of a trace only. Because
the sentinels and the bounds let a system come to rest (every leaf used, no
order left to match, a panic, a verified proof), deadlock is not checked.
`FieldOrder` is 2 or 5 instead of 2^31 - 1, `LowPrices` 2 instead of 2^56:
smaller values only make wraps and hash collisions more frequent. In Poseidon
`FieldOrder` is 7: `pow5` is a permutation there too, so no difference in a
state is lost on the way. `Lanes`, `LogLanes`, `BytesLogSize` and `Height` are
scaled down together; `InstancesPerRow` keeps its 8 in the Prover runs, where
the remainder matters.

No run uses symmetry: prices and times are ordered, and the sides are not mirror
images in the code.

## 4. Fairness

Only `OrderBook` states fairness: `WF_vars(Match)`, the steps of a call that is
running. A call is a sequential computation with no wait in it, so it keeps
running; placing an order, the client's choice, has no fairness.
`CallsReturn` then says that the matching loop ends.

## 5. Proofs

Every theorem holds for **all** values of the constants that satisfy the
`ASSUME`s of its modules: any width of the integers, any sets of prices, times
and volumes, both sides, any number of leaves, any height, any base and number of
limbs, any field order. The assumptions ask for positive moduli, for labels
within `U64`, for operands that are u64s and for the divisions that the code takes for
granted (`NLimbs` by 4, `Base` by `Lanes`); two carry content.
`TablesAssumption` asks for vectors of at least two lanes, which the
code has (16). `InstancesAssumption`, `InstancesPerRow <= 36 * (Height + 1)`,
says that a row of the poseidon table holds no more hashes than ten
instructions make; the code has 8 and 756. The theorems about MerkleTree have
one more hypothesis, `MaxLeaves <= 2^Height`: the leaves fit under the root.
`MerkleTree_capacity` shows what happens otherwise (finding 3).

| Module | Theorems | Properties of the runs they state |
|---|---|---|
| IMTProofs (lemmas in IMTreeProofs) | `TypeCorrect`, `LinkedListHolds`, `SentinelsHold`, `HeadHolds`, `DeadLeavesStay`, `ImplementsQueue` | all of IMT |
| MerkleTreeProofs | `LevelsHold`, `RawHolds`, `ProofsAccepted`, `ProofsReplayed` | all of MerkleTree |
| OrderBookProofs | `TypesHold`, `TreesStayChains`, `NeverCrossed`, `LocalsStayFresh`, `StateFollowsTrees`, `StaleTimesRefused`, `TradesSucceed`, `ImplementsEngine` | all of OrderBook but `CallsReturn` |
| ExecutionTraceProofs | `EveryRowHolds`, `EveryColumnMatches`, `LookupsCancel` | all of ExecutionTrace |
| OperationTablesProofs | `ArithmeticIsRight`, `RowsAreAccepted`, `OnlyTruthIsAccepted`, `ColumnsMatch`, `BytesCancel`, `YieldedHashes`, `HashesTrue` (and `RecordedInvariant`, `CountedInvariant`, `OnlyHashesAreYielded`) | all of OperationTables |
| ProverProofs | `ClaimsRecorded`, `NeverRejected`, `PanicsExplained` | all of Prover |

CommonProofs holds the facts that several of them need.

**The tree.** The inductive invariant is `IInv == TypeOK /\ TreeInv(Side, tree)`.
`LinkedList` is not inductive by itself: that `insert` finds a predecessor
needs the first sentinel to be live and before every label, that `match_order`
may drop the head needs it not to be the last sentinel, and that rewriting
`leaves[0].next` keeps `Indexed` needs the first sentinel in slot 0. Hence
`SentinelsKept`, and the two bounds in `Linked`. `IMTreeProofs` has one lemma
per method (the tree it leaves satisfies `TreeInv`), resting on lemmas that
`Before` is a strict total order on labels, that the next live label is
unique, and that adding or removing one label changes the successor of its
predecessor only. `IMTProofs` lifts them to the actions, one step per action.
The assertions of `insert` carry part of the proof: they are what keeps a label
that is already live from being inserted again, so that the new label lies
strictly between its neighbours (`InsertBetween`). The refinement maps every
successful `insert`, `update`, `cancel_at_index`, `match_order` and
`match_partially` to the action of PriceTimeQueue of that call, with the order and
volume it answers (`QueueInsert` and so on), and every failing call to
`Refuse`; that a match takes or reduces the best order and no other is
`BestLabel`, which `Linked` makes the minimum of the live labels.

**Hashes.** `MerkleInv` is `IInv`, `HashesHold`, `ProofVerifies` and `proof.final = root`,
where `HashesHold` says that `raw` is exactly the nodes of the complete tree over the
current leaves that lie above a stored leaf (`Stored`), and `root` its root:
stronger than `RawIsReference`, which does not exclude a level that is too
short. `EmptyBeyond` shows that every other node is the empty hash of its level,
so a sibling that is not stored may be replaced by that (`ClimbIsPath`);
`Elsewhere` that changing one leaf changes the nodes above it and no other, so
that rewriting one path is enough (`RehashStored`). `OpeningHolds` gives the
proofs, and `HeadRebuilt` the first leaf that the verifier of a match rebuilds.
`UnlinkRewrites` serves `cancel_at_index` and `match_order`, which write two
leaves: the second opening is taken from the levels the first one leaves.
`ProofsReplay` is about two calls: the root a proof starts from is that of the
tree, and by `proof.final = root` the one the last successful call ended at;
`OneReplayed` and `TwoReplayed` say that the one or two openings name all leaves
that change, as they were and as they are.

**The book.** `BookInv` adds to the checked invariants what they need to be
inductive. `StateShape` fixes which roots the state holds. `OrdersAreLimits`
says that what rests has a volume left and a price strictly between those of
the sentinels, so a best price is a sentinel's only when no order rests on that
side. `RestUncrossed` is `Uncrossed` in the middle of a call: the only order
that may accept a price of the other side is the one being matched, if it is in
its tree at all. `LocalsAgree` says what `order` and `leaf`, the copies of the
loop, have to do with the trees; `CallSound` what the trade does: its price is
acceptable to the aggressor, one of the two orders is used up, and an order
that is used up has left its tree, so the loop's guard and the trees agree
about when to stop. From these no match can fail (`AggressorFills`,
`PassiveFills`): `TradesNeverFail`. What is left is the insertion. Its price
assertions follow from the position and its time assertions do not;
the two neighbours it asserts about are the live labels next to the new one, of
which those that are no sentinels are the orders of `NextTo` (`NeighboursOf`),
and `InsertDecides` gives `RefusesStaleTimes`, both ways. The refinement makes
a trade visible at the first of its two steps: the abstract orders are those of
the trees minus what the running trade still owes (`Resting`, `Unfilled` and
`Settled` in OrderBook), so that `MatchAggressor` is a trade and `MatchPassive` a stutter (`EngineTrade`,
`EngineCatchesUp`).

**The trace.** `TraceInv == BookInv /\ OpcodesFollow /\ RowsHold`. The
alternation of opcodes, which the constraints check against the *previous* row
only, is a fact about the loop (`OpcodesFollow`). The first half of the module
is about layout: `flatten!` puts each field where `from_eval` and the offsets of
the interaction trace find it (`RowLayout`, `ReadsBack`, `FoundInRow`), for real
rows and padding. `RowsHold` then follows from one lemma per instruction
(`InsertSatisfies`, `MatchSatisfies`, `PartialSatisfies`), which use the chain
to know that the leaf behind the first leaf is the one that is matched, and
`ColumnsMatchEntries` from one lemma per component: the columns are
the entries one by one, and the Merkle paths among them are in one interval,
whose length is the factor of the height in `INTERACTION_COLS`.

**The sums.** `LookupsBalance` speaks about states between calls; `LookupsClose`
is its form in the middle of one: the sums, plus what a trade of which only one
side is recorded still owes (`Owed`: the comparison and the match), plus the
two claimed states, cancel. `LookupInv` adds to `TraceInv` this, and that all sums are
integers. `Total` is a recursive function over a sequence of entries;
`TotalOfJoined` makes it additive, after which each action has to
show that what it records and what its two rows look up differ by what its
trade owes and by its step from state to state (`InsertAdds`, `MatchAdds`,
`PartialAdds`, `RecordCloses`).

**The prover.** The sum alone does not give `ClaimsAreRecorded`: it is also zero
when the claim's two states are equal and so are the two ends of the run.
Hence `ClaimsInv` counts (`Counted`): the processor table has one row for each
state change since the trace began, so a trace whose processor table can be
written at all does not end where it began. `TreesInv` is about sizes: the
three commitments have the same columns in the same order (`Committed`,
`SameColumns`), and the number of rows of the operation tables is tied to that
of the instructions (`Tallied`), so that no operation table is short when
no instruction is rare (`NothingRare`), and the table that sizes the twiddles is large
enough for the composition polynomial (`TwiddlesServe`). That `CeilLog2` is the
logarithm at all is a lemma: it is defined by CHOOSE, and some power of
two has to be large enough.

**The operations.** Two inductive invariants carry everything. `RowsRecorded`
says that each row is the one record.rs writes for two numerals (`Numeral`:
`NLimbs` limbs below `Base`) or a hash of a state, so that a fact about the row
of any two numerals is a fact about every state. `BytesCounted` ties the
counters to the rows: `BytesBalance` alone is not inductive, since its sums run
over all offsets after all rows, while an event changes one row and the counts
at its own offsets. It has the lookups of the rows alone (`Used`), at each
offset, and says in addition that they look up nothing the table does not list.

* *Numbers.* `Low(x)[i]`, what the lower `i` limbs stand for, is below
  `Weight[i]`. With it the chain of carries (`CarryChain`: the lower limbs of a
  and b add up to those of the sum plus the weight of the carry) and that of
  borrows are proved limb by limb, the top difference decides the order
  (`LessThan`), and `FromU64` is the inverse of `ToU64` on numerals.
* *Rows.* Completeness reads the cells of the written row and solves each
  constraint. Soundness goes the other way: the constraints of an addition
  determine each carry from the one below, so the result is the sum of the same
  chain; of a comparison, at most one flag is set when the flags add up to 0 or
  1, the limbs above it are equal, so the compared bytes are those of the top
  difference.
* *Lookups.* Entries of range checks are counted offset by offset against
  `RangeEvents`; the offset `a * Base + b` determines both bytes. Then what is
  left after the bytes table has yielded the first `o` offsets is zero for those
  and untouched for the others, up to `Base * Base`.
* *Hashes.* Whatever the field order, a round makes sixteen elements of the
  field of any sixteen numbers. The cells of an instance are laid out round by
  round, and the constraints read them round by round: after `k` rounds the
  column reached is the length written so far, and the state is that of the
  permutation. The sixteen cells of the last round begin at column 143, where
  the interaction trace finds the hash. For `HashesAreTrue` the two runs agree
  up to the place that was changed, whose cell the round then refuses, and
  `holds` never becomes true again. TLC needs such a family of wrong cells; the
  prover does not: `OnlyHashesAreYielded` is about all rows of integers, and
  says that whatever a prover writes, an instance that is accepted yields its
  initial state with the hash of `hash.rs`, once or not at all.

**Technique.** The library's induction theorems cannot be instantiated here, as
they take an operator. The proofs use sets instead: `LeastNatural` (a nonempty
set of naturals has a least element) and `UpTo` (a set of naturals in `0 .. n`
that holds 0 and is closed under successor is all of it). With them recursive
functions can be reasoned about too. `Recursion` in CommonProofs says that for a
first value and a function for each step there is a function that starts and
continues with them (`Runs`), so the CHOOSE in a recursive definition is one. A
proof about weights, carries, sums, states or cells cites it with its own set
and steps, and then argues about all indices by `UpTo`; the Merkle paths and
the totals of entries have existence lemmas of their own (`ReferenceGrows`,
`PathGrows`, `EmptyGrows`, `TotalsRun`). The prover knows nothing about `2^n`
with a variable `n`: `PowerDouble` is derived from the number of subsets of a
set, and limbs are weighed by `Weight` instead of powers.

**Only model-checked.** `CallsReturn`, since the proof system has no rules for
fairness and ENABLED here; every other property of a passing run is a theorem. The
violations of section 6 need an instance and no proof.

## 6. Findings

1. `update` refuses the default label, not the first leaf: on the buy side the
   first leaf can be given a volume (`imt/mod.rs:304`, against
   `imt/error.rs:21`).
2. `cancel_at_index` accepts an inactive slot; the low leaf it relinks is not
   the predecessor its doc promises (`imt/mod.rs:332`, against `:792`).
3. Beyond 2^20 leaves `insert` pushes a second root; `final_root` in the proof
   is not the root of the tree (`imt/mod.rs:127`, against `:655`).
4. A buy order at `u64::MAX` matches the last leaf of an empty sell tree
   (`executor/order_book.rs:163`, against `imt/mod.rs:202`).
5. The poseidon table has `len / 8` rounded down as its number of rows. With a
   number of hashes 1 to 7 above `8 * 2^m` the padding is negative: line 155
   underflows (`components/poseidon/mod.rs:152`, against `:154`). At height 20
   every Merkle path is 21 hashes, so 3121 paths are enough. The run uses height
   1, where 130 paths of two hashes are 260 = 8 * 32 + 4.

Smaller observations, none of which a run is about: `VexClaim::mix_into` is
documented to mix the public inputs, but mixes log sizes only (the states enter
the logup sum); the `is_first` columns are committed and never read; the
header of `components/poseidon/mod.rs` places Is Real at column 158, the code at
0; `log_size` counts the bytes table as 2^8 rows, `max_log_size` as 2^16, and
only the second is called for it.

The first two need a direct client of the tree; the order book makes neither
call. `OrderBook_book` therefore restricts prices to below `MaxU64`, and shows
that with this restriction the comment of `imt/mod.rs:202` is right.

## 7. Not modelled

* Field arithmetic beyond its order, the extension field, commitments, FRI and
  the STARK itself (stwo). Lookups are exact sums, not random linear
  combinations. That the permutation is collision resistant: OrderBook and
  MerkleTree take hashing as injective on what `Leaf::hash` commits to.
* The printed `ExecutionTraceShape`, `is_real_col`, and the tables of deletion and
  comparison operations that no component reads.
* A trace that is kept after a caught panic, or filled by a client that calls
  the trees directly: the components have no instruction for `update` and
  `cancel_at_index`, and their tables stay empty.
* Soundness of the instruction components against arbitrary rows. ExecutionTrace
  shows that honest rows are accepted; OperationTables shows soundness of the
  arithmetic and hash rows for the answers that are looked up.
* A proof changed after `prove_vex`: the verifier is checked on what the prover
  returns.
* `relation_tracker.rs`, benchmarks, error formatting.

## 8. Plan

Done: the modules above, from the tree to the verifier; theorems for every
property of IMT, MerkleTree, OrderBook, ExecutionTrace, OperationTables and
Prover, liveness excepted. Next, by importance:

1. **Soundness of instruction rows**: that a row accepted on a state of the book
   leads to the next state of the book, up to what is hashed.
2. **ExecutionTrace and Prover**: the numbers of rows `Tables` counts as those
   of the entries ExecutionTrace records.
