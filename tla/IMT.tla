-------------------------------- MODULE IMT --------------------------------
(***************************************************************************)
(* One side's indexed Merkle tree as a state machine: any sequence of      *)
(* calls of its public methods (src/imt/mod.rs).  `call` holds what the    *)
(* last call returned.  A panic ends the process.                          *)
(*                                                                         *)
(* Next is a client that keeps the obligations the order book keeps:       *)
(*   - it cancels slots that hold a resting order (or slot 0, which is     *)
(*     refused),                                                           *)
(*   - it does not amend a sentinel, except by the label update refuses,   *)
(*   - it takes the best order only from a book that has one.              *)
(* OpenNext is a client with none.  No obligation concerns insert: its     *)
(* own assertions decide.                                                  *)
(***************************************************************************)
EXTENDS IMTree

CONSTANTS
  Side,           \* "Buy" or "Sell": the type parameter S
  Prices, Times,  \* prices and times of the labels a client names
  Volumes,        \* volumes a client names
  MaxLeaves       \* bound of the model: no insert beyond this many leaves

ASSUME IMTAssumption ==
  /\ Side \in Sides
  /\ Prices \subseteq U64 /\ Times \subseteq U64 /\ Volumes \subseteq U64
  /\ MaxLeaves \in Nat

VARIABLES
  tree,   \* [leaves, index_map]
  call    \* [op, outcome, low, leaf, volume]: the last call, the leaves in its proof,
          \* and the volume it enters, sets, returns or fills

vars == <<tree, call>>

Labels    == [price : Prices, time : Times]
Sentinels == {First(Side), Last(Side)}
Orders    == Live(tree) \ Sentinels

Ops      == {"new", "insert", "update", "cancel_at_index", "match_order", "match_partially"}
Outcomes == {"ok", "LowLeafNotFound", "CannotUpdateFirstLeaf", "LeafNotFound",
             "CannotCancelFirstLeaf", "InsufficientVolumeToFill", "NotAPartialMatch", "panic"}

Init ==
  /\ tree = New(Side)
  /\ call = [op |-> "new", outcome |-> "ok", low |-> EmptyLeaf, leaf |-> EmptyLeaf,
             volume |-> 0]

(* A call that fails returns no proof and leaves the tree as it was.       *)
Fail(op, outcome) ==
  /\ outcome # "ok"
  /\ call' = [op |-> op, outcome |-> outcome, low |-> EmptyLeaf, leaf |-> EmptyLeaf,
              volume |-> 0]
  /\ UNCHANGED tree

Succeed(op, outcome, low, leaf, volume) ==
  /\ outcome = "ok"
  /\ call' = [op |-> op, outcome |-> "ok", low |-> low, leaf |-> leaf, volume |-> volume]

Insert(o) ==
  LET outcome == InsertOutcome(Side, tree, o) IN
  /\ call.outcome # "panic"
  /\ \/ Fail("insert", outcome)
     \/ /\ Succeed("insert", outcome, LeafOf(tree, Low(Side, tree, o.price_time)),
                   Inserted(Side, tree, o).leaves[Len(tree.leaves) + 1], o.volume)
        /\ tree' = Inserted(Side, tree, o)

Update(l, v) ==
  LET outcome == UpdateOutcome(tree, l) IN
  /\ call.outcome # "panic"
  /\ \/ Fail("update", outcome)
     \/ /\ Succeed("update", outcome, EmptyLeaf, LeafOf(tree, l), v)
        /\ tree' = Updated(tree, l, v)

CancelAtIndex(pos) ==
  LET outcome == CancelOutcome(Side, tree, pos) IN
  /\ call.outcome # "panic"
  /\ \/ Fail("cancel_at_index", outcome)
     \/ /\ Succeed("cancel_at_index", outcome,
                   LeafOf(tree, Low(Side, tree, tree.leaves[pos].label)), tree.leaves[pos],
                   tree.leaves[pos].volume)
        /\ tree' = Cancelled(Side, tree, pos)

MatchOrder ==
  LET outcome == MatchOutcome(tree) IN
  /\ call.outcome # "panic"
  /\ \/ Fail("match_order", outcome)
     \/ /\ Succeed("match_order", outcome, tree.leaves[FirstPos], LeafOf(tree, BestLabel(tree)),
                   LeafOf(tree, BestLabel(tree)).volume)
        /\ tree' = Matched(tree)

MatchPartially(filled) ==
  LET outcome == PartialOutcome(tree, filled) IN
  /\ call.outcome # "panic"
  /\ \/ Fail("match_partially", outcome)
     \/ /\ Succeed("match_partially", outcome, EmptyLeaf, LeafOf(tree, BestLabel(tree)), filled)
        /\ tree' = PartiallyMatched(tree, filled)

-----------------------------------------------------------------------------
RestingSlot(pos) == \E k \in Orders : tree.index_map[k] = pos

InsertSome ==
  \E l \in Labels, v \in Volumes :
    Len(tree.leaves) < MaxLeaves /\ Insert([price_time |-> l, volume |-> v])

Next ==
  \/ InsertSome
  \/ \E l \in Labels \cup {Default}, v \in Volumes :
       (l \in Sentinels => l = Default) /\ Update(l, v)
  \/ \E pos \in 1 .. Len(tree.leaves) :
       (pos = FirstPos \/ RestingSlot(pos)) /\ CancelAtIndex(pos)
  \/ BestLabel(tree) # Last(Side) /\ MatchOrder
  \/ \E v \in Volumes : MatchPartially(v)

OpenNext ==
  \/ InsertSome
  \/ \E l \in Labels \cup Sentinels, v \in Volumes : Update(l, v)
  \/ \E pos \in 1 .. Len(tree.leaves) + 1 : CancelAtIndex(pos)
  \/ MatchOrder
  \/ \E v \in Volumes : MatchPartially(v)

Spec     == Init /\ [][Next]_vars
OpenSpec == Init /\ [][OpenNext]_vars

-----------------------------------------------------------------------------
(* Properties                                                              *)

(* The types of the tree and of what a call returns.                       *)
TypeOK ==
  /\ TreeType(tree)
  /\ call \in [op : Ops, outcome : Outcomes, low : Leaf, leaf : Leaf, volume : U64]

(* insert, cancel_at_index and match_order rewrite `next` in one leaf and  *)
(* the map in another place: whatever their sequence, the live leaves are  *)
(* one chain from the first sentinel to the last, in price-time priority,  *)
(* and the map names exactly them.                                         *)
LinkedList == Indexed(tree) /\ Linked(Side, tree)

(* The first and the last leaf stay what the match proof rebuilds them as: *)
(* no call gives them volume, moves or removes them.                       *)
SentinelsIntact == SentinelsKept(Side, tree)

(* The leaf the first leaf points to, the one match_order executes, has    *)
(* priority over every other resting order; it is the last sentinel only   *)
(* when no order rests.                                                    *)
HeadIsBest ==
  IF Orders = {} THEN BestLabel(tree) = Last(Side)
  ELSE /\ BestLabel(tree) \in Orders
       /\ \A k \in Orders : k = BestLabel(tree) \/ Before(Side, BestLabel(tree), k)

(* A slot of the vector is never given to another label, and a cancelled   *)
(* or matched leaf is never written again.                                 *)
DeadLeavesFrozen ==
  [][\A p \in 1 .. Len(tree.leaves) :
       /\ p <= Len(tree'.leaves)
       /\ tree'.leaves[p].label = tree.leaves[p].label
       /\ ~ tree.leaves[p].active => tree'.leaves[p] = tree.leaves[p]]_vars

(* The tree implements the price-time priority queue of one side, call by  *)
(* call: an insert enters its order behind its price level, match_order    *)
(* takes the best order and match_partially reduces it by what it fills,   *)
(* cancel_at_index and update change the order they report and no other,   *)
(* and a call that fails changes none.                                     *)
Queue == INSTANCE PriceTimeQueue
           WITH orders <- Unfilled(Side, tree),
                answer <- [op |-> call.op, ok |-> call.outcome = "ok",
                           label |-> call.leaf.label, volume |-> call.volume]
QueueSpec == Queue!Spec

(* imt/error.rs:21, "Cannot update the first leaf".                        *)
FirstLeafNeverUpdated ==
  call.op = "update" /\ call.outcome = "ok" => call.leaf.label # First(Side)

(* The doc of CancellationProof::low_leaf, "low leaf - immediate           *)
(* predecessor of the leaf being cancelled".                               *)
CancelLowIsPredecessor ==
  call.op = "cancel_at_index" /\ call.outcome = "ok" => call.low.next = call.leaf.label

=============================================================================
