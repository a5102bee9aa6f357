----------------------------- MODULE IMTProofs -----------------------------
(***************************************************************************)
(* Theorems about one side's tree under any sequence of calls, for every   *)
(* width of the integers, every set of prices, times and volumes and every *)
(* number of leaves.                                                       *)
(***************************************************************************)
EXTENDS IMT, IMTreeProofs

-----------------------------------------------------------------------------
(* The state machine                                                       *)

IInv == TypeOK /\ TreeInv(Side, tree)

CallType == [op : Ops, outcome : Outcomes, low : Leaf, leaf : Leaf, volume : U64]

LEMMA OrderAccepted ==
  ASSUME NEW l \in Labels, NEW v \in Volumes
  PROVE  [price_time |-> l, volume |-> v] \in Order
BY IMTAssumption DEF Labels, Label, Order

LEMMA EmptyLeafIsLeaf == EmptyLeaf \in Leaf
BY MaxU64Assumption DEF EmptyLeaf, Leaf, Label, Default, U64

(* Whatever a call does to the tree, what it returns has its type.         *)
LEMMA FailKeeps ==
  ASSUME IInv, NEW op \in Ops, NEW outcome \in Outcomes, Fail(op, outcome)
  PROVE  IInv'
<1>1. EmptyLeaf \in Leaf /\ 0 \in U64
  BY EmptyLeafIsLeaf, MaxU64Assumption DEF U64
<1>2. tree' = tree /\ call' \in CallType
  BY <1>1 DEF Fail, CallType
<1>3. QED
  BY <1>2 DEF IInv, TypeOK, CallType

LEMMA SucceedKeeps ==
  ASSUME IInv, NEW op \in Ops, NEW outcome \in Outcomes, NEW low \in Leaf, NEW leaf \in Leaf,
         NEW volume \in U64, Succeed(op, outcome, low, leaf, volume), TreeInv(Side, tree')
  PROVE  IInv'
<1>1. call' \in CallType
  BY DEF Succeed, Outcomes, CallType
<1>2. TreeType(tree')
  BY DEF TreeInv
<1>3. QED
  BY <1>1, <1>2 DEF IInv, TypeOK, CallType

LEMMA InsertStep ==
  ASSUME IInv, NEW o \in Order, Insert(o)
  PROVE  IInv'
<1> DEFINE outcome == InsertOutcome(Side, tree, o)
           low == Low(Side, tree, o.price_time)
<1>1. TreeInv(Side, tree) /\ Side \in Sides
  BY IMTAssumption DEF IInv
<1>2. "insert" \in Ops /\ outcome \in Outcomes
  BY DEF Ops, Outcomes, InsertOutcome
<1>3. CASE Fail("insert", outcome)
  BY <1>2, <1>3, FailKeeps
<1>4. CASE outcome = "ok" /\ tree' = Inserted(Side, tree, o)
           /\ Succeed("insert", outcome, LeafOf(tree, low),
                      Inserted(Side, tree, o).leaves[Len(tree.leaves) + 1], o.volume)
  <2>1. TreeInv(Side, tree')
    BY <1>1, <1>4, InsertKeeps
  <2>2. low \in Live(tree)
    BY <1>1, <1>4, InsertBetween
  <2>3. LeafOf(tree, low) \in Leaf
    BY <1>1, <2>2, LiveLeaf
  <2>4. tree'.leaves[Len(tree.leaves) + 1] \in Leaf
    <3>1. tree.leaves \in Seq(Leaf) /\ tree'.leaves \in Seq(Leaf)
      BY <1>1, <2>1 DEF TreeInv, TreeType
    <3>2. Len(tree'.leaves) = Len(tree.leaves) + 1
      BY <1>1, <1>4, InsertKeeps
    <3>3. QED
      BY <3>1, <3>2
  <2>5. QED
    BY <1>2, <1>4, <2>1, <2>3, <2>4, SucceedKeeps DEF Order
<1>5. QED
  BY <1>3, <1>4 DEF Insert, Succeed

LEMMA UpdateStep ==
  ASSUME IInv, NEW l \in Labels \cup {Default}, NEW v \in U64,
         l \in Sentinels => l = Default, Update(l, v)
  PROVE  IInv'
<1> DEFINE outcome == UpdateOutcome(tree, l)
<1>1. TreeInv(Side, tree) /\ Side \in Sides
  BY IMTAssumption DEF IInv
<1>2. "update" \in Ops /\ outcome \in Outcomes
  BY DEF Ops, Outcomes, UpdateOutcome
<1>3. CASE Fail("update", outcome)
  BY <1>2, <1>3, FailKeeps
<1>4. CASE outcome = "ok" /\ tree' = Updated(tree, l, v)
           /\ Succeed("update", outcome, EmptyLeaf, LeafOf(tree, l), v)
  <2>1. l \in Live(tree) /\ l \notin Sentinels
    BY <1>4 DEF UpdateOutcome
  <2>2. TreeInv(Side, tree')
    BY <1>1, <1>4, <2>1, UpdateKeeps DEF Sentinels
  <2>3. LeafOf(tree, l) \in Leaf
    BY <1>1, <2>1, LiveLeaf
  <2>4. QED
    BY <1>2, <1>4, <2>2, <2>3, EmptyLeafIsLeaf, SucceedKeeps
<1>5. QED
  BY <1>3, <1>4 DEF Update, Succeed

LEMMA CancelStep ==
  ASSUME IInv, NEW pos \in 1 .. Len(tree.leaves), pos = FirstPos \/ RestingSlot(pos),
         CancelAtIndex(pos)
  PROVE  IInv'
<1> DEFINE outcome == CancelOutcome(Side, tree, pos)
           low == Low(Side, tree, tree.leaves[pos].label)
<1>1. TreeInv(Side, tree) /\ Side \in Sides
  BY IMTAssumption DEF IInv
<1>2. "cancel_at_index" \in Ops /\ outcome \in Outcomes
  BY DEF Ops, Outcomes, CancelOutcome
<1>3. CASE Fail("cancel_at_index", outcome)
  BY <1>2, <1>3, FailKeeps
<1>4. CASE outcome = "ok" /\ tree' = Cancelled(Side, tree, pos)
           /\ Succeed("cancel_at_index", outcome, LeafOf(tree, low), tree.leaves[pos],
                      tree.leaves[pos].volume)
  <2>1. pos # FirstPos
    BY <1>4 DEF CancelOutcome
  <2>2. PICK k \in Orders : tree.index_map[k] = pos
    BY <2>1 DEF RestingSlot
  <2>3. /\ k \in Live(tree) \ {First(Side), Last(Side)}
        /\ tree.leaves[pos].label = k /\ tree.leaves[pos] \in Leaf
    BY <1>1, <2>2, LiveLeaf DEF Orders, Sentinels
  <2>4. TreeInv(Side, tree')
    BY <1>1, <1>4, <2>2, <2>3, CancelKeeps
  <2>5. low \in Live(tree)
    BY <1>4, <2>1 DEF CancelOutcome, HasLow, Low
  <2>6. LeafOf(tree, low) \in Leaf
    BY <1>1, <2>5, LiveLeaf
  <2>7. QED
    BY <1>2, <1>4, <2>3, <2>4, <2>6, SucceedKeeps DEF Leaf
<1>5. QED
  BY <1>3, <1>4 DEF CancelAtIndex, Succeed

LEMMA MatchStep ==
  ASSUME IInv, BestLabel(tree) # Last(Side), MatchOrder
  PROVE  IInv'
<1>1. TreeInv(Side, tree) /\ Side \in Sides
  BY IMTAssumption DEF IInv
<1>2. /\ MatchOutcome(tree) = "ok" /\ TreeInv(Side, Matched(tree))
      /\ BestLabel(tree) \in Live(tree)
  BY <1>1, MatchKeeps
<1>3. /\ Succeed("match_order", "ok", tree.leaves[FirstPos], LeafOf(tree, BestLabel(tree)),
                 LeafOf(tree, BestLabel(tree)).volume)
      /\ tree' = Matched(tree)
  BY <1>2 DEF MatchOrder, Fail
<1>4. tree.leaves[FirstPos] \in Leaf /\ LeafOf(tree, BestLabel(tree)) \in Leaf
  <2>1. First(Side) \in Live(tree) /\ LeafOf(tree, First(Side)) = tree.leaves[FirstPos]
    BY <1>1, FirstAndLast
  <2>2. QED
    BY <1>1, <1>2, <2>1, LiveLeaf
<1>5. "match_order" \in Ops /\ "ok" \in Outcomes
  BY DEF Ops, Outcomes
<1>6. QED
  BY <1>2, <1>3, <1>4, <1>5, SucceedKeeps DEF Leaf

LEMMA PartialStep ==
  ASSUME IInv, NEW filled \in U64, MatchPartially(filled)
  PROVE  IInv'
<1> DEFINE outcome == PartialOutcome(tree, filled)
<1>1. TreeInv(Side, tree) /\ Side \in Sides
  BY IMTAssumption DEF IInv
<1>2. "match_partially" \in Ops /\ outcome \in Outcomes
  BY DEF Ops, Outcomes, PartialOutcome
<1>3. CASE Fail("match_partially", outcome)
  BY <1>2, <1>3, FailKeeps
<1>4. CASE outcome = "ok" /\ tree' = PartiallyMatched(tree, filled)
           /\ Succeed("match_partially", outcome, EmptyLeaf, LeafOf(tree, BestLabel(tree)), filled)
  <2>1. BestLabel(tree) \in Live(tree) /\ TreeInv(Side, tree')
    BY <1>1, <1>4, PartialKeeps
  <2>2. LeafOf(tree, BestLabel(tree)) \in Leaf
    BY <1>1, <2>1, LiveLeaf
  <2>3. QED
    BY <1>2, <1>4, <2>1, <2>2, EmptyLeafIsLeaf, SucceedKeeps
<1>5. QED
  BY <1>3, <1>4 DEF MatchPartially, Succeed

LEMMA InitEstablishes == Init => IInv
<1>1. SUFFICES ASSUME Init PROVE IInv
  OBVIOUS
<1>2. Side \in Sides
  BY IMTAssumption
<1>3. TreeInv(Side, tree)
  BY <1>1, <1>2, NewKeeps DEF Init
<1>4. call \in CallType
  BY <1>1, EmptyLeafIsLeaf, MaxU64Assumption DEF Init, Ops, Outcomes, CallType, U64
<1>5. QED
  BY <1>3, <1>4 DEF IInv, TypeOK, TreeInv, CallType

LEMMA NextKeeps == IInv /\ [Next]_vars => IInv'
<1>1. SUFFICES ASSUME IInv, [Next]_vars PROVE IInv'
  OBVIOUS
<1>2. Volumes \subseteq U64
  BY IMTAssumption
<1>3. CASE InsertSome
  <2>1. PICK l \in Labels, v \in Volumes : Insert([price_time |-> l, volume |-> v])
    BY <1>3 DEF InsertSome
  <2>2. QED
    BY <1>1, <2>1, OrderAccepted, InsertStep
<1>4. CASE \E l \in Labels \cup {Default}, v \in Volumes :
              (l \in Sentinels => l = Default) /\ Update(l, v)
  BY <1>1, <1>2, <1>4, UpdateStep
<1>5. CASE \E pos \in 1 .. Len(tree.leaves) :
              (pos = FirstPos \/ RestingSlot(pos)) /\ CancelAtIndex(pos)
  BY <1>1, <1>5, CancelStep
<1>6. CASE BestLabel(tree) # Last(Side) /\ MatchOrder
  BY <1>1, <1>6, MatchStep
<1>7. CASE \E v \in Volumes : MatchPartially(v)
  BY <1>1, <1>2, <1>7, PartialStep
<1>8. CASE UNCHANGED vars
  <2>1. tree' = tree /\ call' = call
    BY <1>8 DEF vars
  <2>2. QED
    BY <1>1, <2>1 DEF IInv, TypeOK
<1>9. QED
  BY <1>1, <1>3, <1>4, <1>5, <1>6, <1>7, <1>8 DEF Next

(* IInv is inductive: it holds at every point of every history of calls.   *)
LEMMA Invariance == Spec => []IInv
BY InitEstablishes, NextKeeps, PTL DEF Spec

-----------------------------------------------------------------------------
(* The results                                                             *)

(* Every history of calls keeps the types of the tree and of its proofs,   *)
(* whatever the width of the integers and the number of leaves.            *)
THEOREM TypeCorrect == Spec => []TypeOK
<1>1. IInv => TypeOK
  BY DEF IInv
<1>2. QED
  BY <1>1, Invariance, PTL

(* The live leaves are one chain in price-time priority, indexed exactly   *)
(* by index_map, after any sequence of insert, update, cancel_at_index,    *)
(* match_order and match_partially.                                        *)
THEOREM LinkedListHolds == Spec => []LinkedList
<1>1. IInv => LinkedList
  BY DEF IInv, TreeInv, LinkedList
<1>2. QED
  BY <1>1, Invariance, PTL

(* No sequence of calls moves, removes or gives volume to a sentinel: the  *)
(* guards of update, cancel_at_index and match_partially are enough.       *)
THEOREM SentinelsHold == Spec => []SentinelsIntact
<1>1. IInv => SentinelsIntact
  BY DEF IInv, TreeInv, SentinelsIntact
<1>2. QED
  BY <1>1, Invariance, PTL

(* The leaf match_order executes next is the order of highest priority.    *)
THEOREM HeadHolds == Spec => []HeadIsBest
<1>1. IInv => HeadIsBest
  <2>1. SUFFICES ASSUME IInv PROVE HeadIsBest
    OBVIOUS
  <2>2. TreeInv(Side, tree) /\ Side \in Sides
    BY <2>1, IMTAssumption DEF IInv
  <2> DEFINE b == BestLabel(tree)
  <2>3. /\ b \in Live(tree) /\ Before(Side, First(Side), b)
        /\ \A j \in Live(tree) : Before(Side, First(Side), j) => (j = b \/ Before(Side, b, j))
    BY <2>2, HeadIsNext DEF IsNext
  <2>4. \A j \in Live(tree) : j = First(Side) \/ Before(Side, First(Side), j)
    BY <2>2 DEF TreeInv, Linked
  <2>5. b # First(Side)
    BY <2>2, <2>3, SentinelsAreLabels, BeforeIrreflexive
  <2>6. \A k \in Orders : k = b \/ Before(Side, b, k)
    BY <2>3, <2>4 DEF Orders, Sentinels
  <2>7. ASSUME NEW k \in Orders PROVE b # Last(Side)
    <3>1. k \in Label /\ Before(Side, k, Last(Side))
      BY <2>2, LiveLeaf DEF Orders, Sentinels, TreeInv, Linked
    <3>2. QED
      BY <3>1, <2>2, <2>6, <2>7, SentinelsAreLabels, BeforeIrreflexive, BeforeTransitive
  <2>8. QED
    BY <2>3, <2>5, <2>6, <2>7 DEF HeadIsBest, Orders, Sentinels
<1>2. QED
  BY <1>1, Invariance, PTL

-----------------------------------------------------------------------------
(* What a step does to the vector of leaves                                *)

KeepsSlots == tree' = tree \/ SlotsKept(tree, tree')

LEMMA StepKeepsSlots == IInv /\ [Next]_vars => KeepsSlots
<1>1. SUFFICES ASSUME IInv, [Next]_vars PROVE KeepsSlots
  OBVIOUS
<1>2. TreeInv(Side, tree) /\ Side \in Sides /\ Volumes \subseteq U64
  BY <1>1, IMTAssumption DEF IInv
<1>3. ASSUME NEW o \in Order, Insert(o) PROVE KeepsSlots
  BY <1>2, <1>3, InsertKeeps DEF Insert, Fail, Succeed, KeepsSlots
<1>4. ASSUME NEW l, NEW v \in U64, l \in Sentinels => l = Default, Update(l, v) PROVE KeepsSlots
  <2>1. CASE tree' = tree
    BY <2>1 DEF KeepsSlots
  <2>2. CASE UpdateOutcome(tree, l) = "ok" /\ tree' = Updated(tree, l, v)
    <3>1. l \notin {First(Side), Last(Side)}
      BY <2>2, <1>4 DEF UpdateOutcome, Sentinels
    <3>2. QED
      BY <2>2, <3>1, <1>2, UpdateKeeps DEF KeepsSlots
  <2>3. QED
    BY <1>4, <2>1, <2>2 DEF Update, Fail, Succeed
<1>5. ASSUME NEW pos \in 1 .. Len(tree.leaves), pos = FirstPos \/ RestingSlot(pos),
             CancelAtIndex(pos)
      PROVE  KeepsSlots
  <2>1. CASE tree' = tree
    BY <2>1 DEF KeepsSlots
  <2>2. CASE CancelOutcome(Side, tree, pos) = "ok" /\ tree' = Cancelled(Side, tree, pos)
    <3>1. PICK k \in Orders : tree.index_map[k] = pos
      BY <2>2, <1>5 DEF RestingSlot, CancelOutcome
    <3>2. QED
      BY <2>2, <3>1, <1>2, CancelKeeps DEF KeepsSlots, Orders, Sentinels
  <2>3. QED
    BY <1>5, <2>1, <2>2 DEF CancelAtIndex, Fail, Succeed
<1>6. ASSUME BestLabel(tree) # Last(Side), MatchOrder PROVE KeepsSlots
  BY <1>2, <1>6, MatchKeeps DEF MatchOrder, Fail, Succeed, KeepsSlots
<1>7. ASSUME NEW v \in U64, MatchPartially(v) PROVE KeepsSlots
  BY <1>2, <1>7, PartialKeeps DEF MatchPartially, Fail, Succeed, KeepsSlots
<1>8. CASE UNCHANGED vars
  BY <1>8 DEF vars, KeepsSlots
<1>9. QED
  BY <1>1, <1>2, <1>3, <1>4, <1>5, <1>6, <1>7, <1>8, OrderAccepted DEF Next, InsertSome

(* No call gives a slot to another label or writes a leaf that is no       *)
(* longer active: a leaf proved once is the leaf that stays committed.     *)
THEOREM DeadLeavesStay == Spec => DeadLeavesFrozen
<1>1. IInv /\ [Next]_vars =>
        [\A p \in 1 .. Len(tree.leaves) :
           /\ p <= Len(tree'.leaves)
           /\ tree'.leaves[p].label = tree.leaves[p].label
           /\ ~ tree.leaves[p].active => tree'.leaves[p] = tree.leaves[p]]_vars
  <2>1. IInv => Len(tree.leaves) \in Nat
    BY DEF IInv, TypeOK, TreeType
  <2>2. QED
    BY <2>1, StepKeepsSlots DEF KeepsSlots, SlotsKept
<1>2. QED
  BY <1>1, Invariance, PTL DEF Spec, DeadLeavesFrozen

-----------------------------------------------------------------------------
(* The tree implements the queue                                           *)

orders == Unfilled(Side, tree)
answer == [op |-> call.op, ok |-> call.outcome = "ok",
           label |-> call.leaf.label, volume |-> call.volume]

LEMMA QueueStart == Init => Queue!Init
<1>1. SUFFICES ASSUME Init
               PROVE  /\ orders = [k \in {} |-> 0]
                      /\ answer = [op |-> "new", ok |-> TRUE, label |-> Default, volume |-> 0]
  BY DEF Queue!Init, Queue!Default, Default, orders, answer
<1>2. Resting(Side, tree) = {}
  BY <1>1, NewRests, IMTAssumption DEF Init
<1>3. /\ call.op = "new" /\ (call.outcome = "ok") = TRUE /\ call.leaf.label = Default
      /\ call.volume = 0
  BY <1>1 DEF Init, EmptyLeaf
<1>4. QED
  BY <1>2, <1>3 DEF orders, answer, Unfilled

(* What the queue is told of a call that succeeds, and of one that fails.  *)
LEMMA QueueAnswers ==
  ASSUME NEW op, NEW low, NEW leaf, NEW v, Succeed(op, "ok", low, leaf, v)
  PROVE  Queue!Answers(op, leaf.label, v)
<1>1. /\ call'.op = op /\ (call'.outcome = "ok") = TRUE /\ call'.leaf.label = leaf.label
      /\ call'.volume = v
  BY DEF Succeed
<1>2. QED
  BY <1>1 DEF Queue!Answers

LEMMA QueueRefuses ==
  ASSUME NEW op, NEW outcome, Fail(op, outcome)
  PROVE  Queue!Refuse
<1>1. (call'.outcome = "ok") = FALSE /\ tree' = tree
  BY DEF Fail
<1>2. QED
  BY <1>1 DEF Queue!Refuse

LEMMA QueueInsert ==
  ASSUME IInv, NEW l \in Labels, NEW v \in Volumes, Insert([price_time |-> l, volume |-> v])
  PROVE  Queue!Refuse \/ Queue!Add(l, v)
<1> DEFINE o == [price_time |-> l, volume |-> v]
           low == LeafOf(tree, Low(Side, tree, o.price_time))
           new == Inserted(Side, tree, o).leaves[Len(tree.leaves) + 1]
<1>1. TreeInv(Side, tree) /\ Side \in Sides /\ o \in Order
  BY IMTAssumption, OrderAccepted DEF IInv
<1>2. SUFFICES ASSUME InsertOutcome(Side, tree, o) = "ok", tree' = Inserted(Side, tree, o),
                      Succeed("insert", "ok", low, new, o.volume)
               PROVE  Queue!Add(l, v)
  BY QueueRefuses DEF Insert, Succeed
<1>3. /\ l \notin Resting(Side, tree) /\ Resting(Side, tree') = Resting(Side, tree) \cup {l}
      /\ \A j \in Resting(Side, tree) : j.price = l.price => j.time < l.time
  BY <1>1, <1>2, InsertRests
<1>4. /\ LeafOf(tree', l).volume = v
      /\ \A k \in Resting(Side, tree) : LeafOf(tree', k).volume = LeafOf(tree, k).volume
  BY <1>1, <1>2, InsertKeeps DEF Resting
<1>5. new.label = l
  <2>1. tree'.index_map[l] = Len(tree.leaves) + 1
    BY <1>2 DEF Inserted, Added
  <2>2. LeafOf(tree', l).label = l
    <3>1. TreeInv(Side, tree') /\ l \in Live(tree')
      BY <1>1, <1>2, InsertKeeps
    <3>2. QED
      BY <1>1, <3>1, LiveLeaf
  <2>3. LeafOf(tree', l) = new
    BY <1>2, <2>1 DEF LeafOf
  <2>4. QED
    BY <2>2, <2>3
<1> HIDE DEF new, low
<1>6. Queue!Answers("insert", l, v)
  BY <1>2, <1>5, QueueAnswers
<1>7. QED
  BY <1>3, <1>4, <1>6 DEF Queue!Add, Queue!Resting, Unfilled

LEMMA QueueUpdate ==
  ASSUME IInv, NEW l, NEW v \in Volumes, l \in Sentinels => l = Default, Update(l, v)
  PROVE  Queue!Refuse \/ Queue!Amend(l, v)
<1>1. TreeInv(Side, tree) /\ Side \in Sides /\ v \in U64
  BY IMTAssumption DEF IInv
<1>2. SUFFICES ASSUME UpdateOutcome(tree, l) = "ok", tree' = Updated(tree, l, v),
                      Succeed("update", "ok", EmptyLeaf, LeafOf(tree, l), v)
               PROVE  Queue!Amend(l, v)
  BY QueueRefuses DEF Update, Succeed
<1>3. l \notin {First(Side), Last(Side)}
  BY <1>2 DEF UpdateOutcome, Sentinels
<1>4. /\ l \in Live(tree) /\ Live(tree') = Live(tree) /\ LeafOf(tree', l).volume = v
      /\ \A j \in Live(tree) \ {l} : LeafOf(tree', j).volume = LeafOf(tree, j).volume
  BY <1>1, <1>2, <1>3, UpdateKeeps
<1>5. LeafOf(tree, l).label = l
  BY <1>1, <1>4, LiveLeaf
<1>6. Queue!Answers("update", l, v)
  BY <1>2, <1>5, QueueAnswers
<1>7. QED
  BY <1>3, <1>4, <1>6 DEF Queue!Amend, Queue!Resting, Unfilled, Resting

(* A leaf that is unlinked leaves the others with their volumes.           *)
LEMMA QueueWithout ==
  ASSUME NEW k, Live(tree') = Live(tree) \ {k},
         \A j \in Live(tree') : LeafOf(tree', j).volume = LeafOf(tree, j).volume
  PROVE  Unfilled(Side, tree') = Queue!Without(k)
BY DEF Queue!Without, Queue!Resting, Unfilled, Resting

LEMMA QueueCancel ==
  ASSUME IInv, NEW pos, pos = FirstPos \/ RestingSlot(pos), CancelAtIndex(pos)
  PROVE  Queue!Refuse \/ \E k \in Queue!Resting : Queue!Cancel(k)
<1> DEFINE leaf == tree.leaves[pos]
           low == LeafOf(tree, Low(Side, tree, leaf.label))
<1>1. TreeInv(Side, tree) /\ Side \in Sides
  BY IMTAssumption DEF IInv
<1>2. SUFFICES ASSUME CancelOutcome(Side, tree, pos) = "ok", tree' = Cancelled(Side, tree, pos),
                      Succeed("cancel_at_index", "ok", low, leaf, leaf.volume)
               PROVE  \E k \in Queue!Resting : Queue!Cancel(k)
  BY QueueRefuses DEF CancelAtIndex, Succeed
<1>3. PICK k \in Orders : tree.index_map[k] = pos
  BY <1>2 DEF RestingSlot, CancelOutcome
<1>4. /\ Live(tree') = Live(tree) \ {k}
      /\ \A j \in Live(tree') : LeafOf(tree', j).volume = LeafOf(tree, j).volume
  BY <1>1, <1>2, <1>3, CancelKeeps DEF Orders, Sentinels
<1>5. k \in Queue!Resting /\ k \in Live(tree)
  BY <1>3 DEF Queue!Resting, Unfilled, Resting, Orders, Sentinels
<1>6. leaf.label = k /\ leaf.volume = orders[k]
  <2>1. LeafOf(tree, k) = leaf /\ LeafOf(tree, k).label = k
    BY <1>1, <1>3, <1>5, LiveLeaf DEF LeafOf
  <2>2. QED
    BY <2>1, <1>5 DEF orders, Unfilled, Queue!Resting
<1> HIDE DEF leaf, low
<1>7. Queue!Answers("cancel_at_index", k, orders[k])
  BY <1>2, <1>6, QueueAnswers
<1>8. Queue!Cancel(k)
  BY <1>4, <1>7, QueueWithout DEF Queue!Cancel, orders
<1>9. QED
  BY <1>5, <1>8

(* The order the first leaf points to, as its leaf and as the queue has it *)
LEMMA QueueBest ==
  ASSUME IInv, BestLabel(tree) # Last(Side)
  PROVE  /\ BestLabel(tree) \in Queue!Resting /\ Queue!IsBest(BestLabel(tree))
         /\ LeafOf(tree, BestLabel(tree)).label = BestLabel(tree)
         /\ LeafOf(tree, BestLabel(tree)).volume = orders[BestLabel(tree)]
<1>1. TreeInv(Side, tree) /\ Side \in Sides
  BY IMTAssumption DEF IInv
<1>2. Queue!Resting = Resting(Side, tree)
  BY DEF Queue!Resting, Unfilled
<1> DEFINE b == BestLabel(tree)
<1>3. /\ b = Last(Side) \/ b \in Resting(Side, tree)
      /\ \A j \in Resting(Side, tree) : j = b \/ Before(Side, b, j)
  BY <1>1, HeadRests
<1> HIDE DEF b
<1>4. b \in Queue!Resting /\ \A j \in Queue!Resting : j = b \/ Before(Side, b, j)
  BY <1>2, <1>3 DEF b
<1>5. LeafOf(tree, b).label = b /\ LeafOf(tree, b).volume = orders[b]
  <2>1. b \in Resting(Side, tree) /\ b \in Live(tree)
    BY <1>2, <1>4 DEF Resting
  <2>2. QED
    BY <1>1, <2>1, LiveLeaf DEF orders, Unfilled
<1>6. QED
  BY <1>4, <1>5 DEF Queue!IsBest, Queue!Before, Queue!BetterPrice, Before, BetterPrice, b

LEMMA QueueMatch ==
  ASSUME IInv, BestLabel(tree) # Last(Side), MatchOrder
  PROVE  \E k \in Queue!Resting : Queue!TakeBest(k)
<1> DEFINE b == BestLabel(tree)
           leaf == LeafOf(tree, b)
<1>1. TreeInv(Side, tree) /\ Side \in Sides
  BY IMTAssumption DEF IInv
<1>2. /\ MatchOutcome(tree) = "ok"
      /\ Live(Matched(tree)) = Live(tree) \ {b}
      /\ \A j \in Live(Matched(tree)) : LeafOf(Matched(tree), j).volume = LeafOf(tree, j).volume
  BY <1>1, MatchKeeps
<1>3. /\ tree' = Matched(tree)
      /\ Succeed("match_order", "ok", tree.leaves[FirstPos], leaf, leaf.volume)
  BY <1>2 DEF MatchOrder, Fail
<1>4. Unfilled(Side, tree') = Queue!Without(b)
  BY <1>2, <1>3, QueueWithout
<1>5. /\ b \in Queue!Resting /\ Queue!IsBest(b)
      /\ leaf.label = b /\ leaf.volume = orders[b]
  BY QueueBest
<1> HIDE DEF leaf, b
<1>6. Queue!Answers("match_order", b, orders[b])
  BY <1>3, <1>5, QueueAnswers
<1>7. Queue!TakeBest(b)
  BY <1>4, <1>5, <1>6 DEF Queue!TakeBest, orders
<1>8. QED
  BY <1>5, <1>7

LEMMA QueuePartial ==
  ASSUME IInv, NEW filled \in Volumes, MatchPartially(filled)
  PROVE  Queue!Refuse \/ \E k \in Queue!Resting : Queue!ReduceBest(k, filled)
<1> DEFINE b == BestLabel(tree)
           leaf == LeafOf(tree, b)
           rest == leaf.volume - filled
<1>1. TreeInv(Side, tree) /\ Side \in Sides /\ filled \in U64
  BY IMTAssumption DEF IInv
<1>2. SUFFICES ASSUME PartialOutcome(tree, filled) = "ok", tree' = PartiallyMatched(tree, filled),
                      Succeed("match_partially", "ok", EmptyLeaf, leaf, filled)
               PROVE  \E k \in Queue!Resting : Queue!ReduceBest(k, filled)
  BY QueueRefuses DEF MatchPartially, Succeed
<1>3. /\ b \in Live(tree) \ {First(Side), Last(Side)} /\ rest \in U64 \ {0}
      /\ Live(tree') = Live(tree) /\ LeafOf(tree', b).volume = rest
      /\ \A j \in Live(tree) \ {b} : LeafOf(tree', j).volume = LeafOf(tree, j).volume
  BY <1>1, <1>2, PartialKeeps
<1>4. /\ b \in Queue!Resting /\ Queue!IsBest(b)
      /\ leaf.label = b /\ leaf.volume = orders[b]
  BY <1>3, QueueBest
<1>5. filled < orders[b]
  <2>1. leaf.volume \in U64
    BY <1>1, <1>3, RestingLeaf DEF Resting
  <2>2. leaf.volume \in Int /\ filled \in Int /\ leaf.volume - filled \in U64 \ {0}
    BY <1>1, <1>3, <2>1, MaxU64Assumption DEF U64
  <2> HIDE DEF leaf
  <2>3. QED
    BY <1>4, <2>2, MaxU64Assumption DEF U64
<1>6. Unfilled(Side, tree') = [orders EXCEPT ![b] = rest]
  BY <1>3 DEF orders, Unfilled, Resting
<1>7. rest = orders[b] - filled
  BY <1>4
<1> HIDE DEF b, leaf, rest
<1>8. Queue!Answers("match_partially", b, filled)
  BY <1>2, <1>4, QueueAnswers
<1>9. Queue!ReduceBest(b, filled)
  BY <1>4, <1>5, <1>6, <1>7, <1>8 DEF Queue!ReduceBest, orders
<1>10. QED
  BY <1>4, <1>9

LEMMA QueueNext == IInv /\ [Next]_vars => [Queue!Next]_<<orders, answer>>
<1>1. SUFFICES ASSUME IInv, [Next]_vars PROVE Queue!Next \/ UNCHANGED vars
  BY DEF orders, answer, vars
<1>2. CASE InsertSome
  BY <1>1, <1>2, QueueInsert DEF InsertSome, Queue!Next
<1>3. CASE \E l \in Labels \cup {Default}, v \in Volumes :
              (l \in Sentinels => l = Default) /\ Update(l, v)
  <2>1. PICK l \in Labels \cup {Default}, v \in Volumes :
               (l \in Sentinels => l = Default) /\ Update(l, v)
    BY <1>3
  <2>2. CASE l = Default
    <3>1. UpdateOutcome(tree, l) # "ok"
      BY <2>2 DEF UpdateOutcome
    <3>2. Fail("update", UpdateOutcome(tree, l))
      BY <2>1, <3>1 DEF Update, Succeed
    <3>3. QED
      BY <3>2, QueueRefuses DEF Queue!Next
  <2>3. CASE l \in Labels
    BY <1>1, <2>1, <2>3, QueueUpdate DEF Queue!Next
  <2>4. QED
    BY <2>1, <2>2, <2>3
<1>4. CASE \E pos \in 1 .. Len(tree.leaves) :
              (pos = FirstPos \/ RestingSlot(pos)) /\ CancelAtIndex(pos)
  BY <1>1, <1>4, QueueCancel DEF Queue!Next
<1>5. CASE BestLabel(tree) # Last(Side) /\ MatchOrder
  BY <1>1, <1>5, QueueMatch DEF Queue!Next
<1>6. CASE \E v \in Volumes : MatchPartially(v)
  BY <1>1, <1>6, QueuePartial DEF Queue!Next
<1>7. QED
  BY <1>1, <1>2, <1>3, <1>4, <1>5, <1>6 DEF Next

(* The indexed Merkle tree, with its slots, links and map, implements the  *)
(* price-time priority queue of one side, call by call: an insert queues   *)
(* its order behind its price level, match_order takes the best order and  *)
(* match_partially reduces it by what it fills, a cancellation and an      *)
(* update change the order they report, and no other call changes one.     *)
THEOREM ImplementsQueue == Spec => QueueSpec
<1>1. Init => Queue!Init
  BY QueueStart
<1>2. IInv /\ [Next]_vars => [Queue!Next]_<<orders, answer>>
  BY QueueNext
<1>3. QED
  BY <1>1, <1>2, Invariance, PTL DEF Spec, QueueSpec, Queue!Spec, Queue!vars, orders, answer

=============================================================================
