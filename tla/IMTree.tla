------------------------------ MODULE IMTree -------------------------------
(***************************************************************************)
(* The indexed Merkle tree of one side of the book as a value, and what    *)
(* each of its methods computes (src/imt/mod.rs).  A tree has              *)
(*   leaves     the vector of leaves, in insertion order; slot i of the    *)
(*              vector is position i + 1 here;                             *)
(*   index_map  label -> position, the BTreeMap of the live leaves.        *)
(* The hash levels `raw` and the root are the subject of MerkleTree.       *)
(*                                                                         *)
(* Every method has an outcome ("ok", the IMTError it returns, or "panic") *)
(* and, when the outcome is "ok", a resulting tree.                        *)
(***************************************************************************)
EXTENDS PriceTime, Sequences

Leaf  == [active : BOOLEAN, volume : U64, label : Label, next : Label]
Order == [price_time : Label, volume : U64]

EmptyLeaf    == [active |-> FALSE, volume |-> 0, label |-> Default, next |-> Default]
FirstLeaf(s) == [active |-> TRUE, volume |-> 0, label |-> First(s), next |-> Last(s)]
LastLeaf(s)  == [active |-> TRUE, volume |-> 0, label |-> Last(s), next |-> Default]

WithNext(leaf, n)   == [leaf EXCEPT !.next = n]
WithVolume(leaf, v) == [leaf EXCEPT !.volume = v]
Inactive(leaf)      == [leaf EXCEPT !.active = FALSE]

FirstPos == 1
LastPos  == 2

New(s) ==
  [leaves    |-> <<FirstLeaf(s), LastLeaf(s)>>,
   index_map |-> [k \in {First(s), Last(s)} |-> IF k = First(s) THEN FirstPos ELSE LastPos]]

Live(t)      == DOMAIN t.index_map
LeafOf(t, k) == t.leaves[t.index_map[k]]

\* the leaf inserted last
BestLabel_Newest(t) == t.leaves[Len(t.leaves)].label

(* best_price_time: the label the first leaf points to.                    *)
BestLabel(t)     == t.leaves[FirstPos].next
BestPrice(t) == BestLabel(t).price

(* The orders that rest in the tree, with their unfilled volumes: what a   *)
(* client sees of it.                                                      *)
Resting(s, t)  == Live(t) \ {First(s), Last(s)}
Unfilled(s, t) == [k \in Resting(s, t) |-> LeafOf(t, k).volume]

Removed(m, k)  == [j \in DOMAIN m \ {k} |-> m[j]]
Added(m, k, p) == [j \in DOMAIN m \cup {k} |-> IF j = k THEN p ELSE m[j]]

-----------------------------------------------------------------------------
(* What holds of a tree between calls; the inductive invariant is their    *)
(* conjunction.                                                            *)

TreeType(t) ==
  /\ t.leaves \in Seq(Leaf)
  /\ Live(t) \subseteq Label
  /\ t.index_map \in [Live(t) -> 1 .. Len(t.leaves)]

(* index_map and the active leaves are in bijection.                       *)
Indexed(t) ==
  /\ \A k \in Live(t) : LeafOf(t, k).active /\ LeafOf(t, k).label = k
  /\ \A p \in 1 .. Len(t.leaves) : t.leaves[p].active =>
       t.leaves[p].label \in Live(t) /\ t.index_map[t.leaves[p].label] = p

(* The sentinels keep their slots and are never orders themselves.         *)
SentinelsKept(s, t) ==
  /\ {First(s), Last(s)} \subseteq Live(t)
  /\ t.index_map[First(s)] = FirstPos /\ t.index_map[Last(s)] = LastPos
  /\ t.leaves[FirstPos].volume = 0
  /\ t.leaves[LastPos] = LastLeaf(s)

IsNext(s, t, k, n) ==
  /\ n \in Live(t)
  /\ Before(s, k, n)
  /\ \A j \in Live(t) : Before(s, k, j) => (j = n \/ Before(s, n, j))

(* Every live label lies between the sentinels, and every leaf but the     *)
(* last points to the next live label.                                     *)
Linked(s, t) ==
  /\ \A k \in Live(t) : k = First(s) \/ Before(s, First(s), k)
  /\ \A k \in Live(t) : k = Last(s) \/ Before(s, k, Last(s))
  /\ \A k \in Live(t) \ {Last(s)} : IsNext(s, t, k, LeafOf(t, k).next)

TreeInv(s, t) == TreeType(t) /\ Indexed(t) /\ SentinelsKept(s, t) /\ Linked(s, t)

-----------------------------------------------------------------------------
(* find_low: the last live label strictly before the target.               *)

\* next() instead of next_back(): the first label of the range
IsLow_Front(s, t, k, l) ==
  /\ Before(s, k, l)
  /\ \A j \in Live(t) : Before(s, j, l) => (j = k \/ Before(s, k, j))

IsLow(s, t, k, l) ==
  /\ Before(s, k, l)
  /\ \A j \in Live(t) : Before(s, j, l) => (j = k \/ Before(s, j, k))

HasLow(s, t, l) == \E k \in Live(t) : IsLow(s, t, k, l)
Low(s, t, l)    == CHOOSE k \in Live(t) : IsLow(s, t, k, l)

-----------------------------------------------------------------------------
(* insert *)

(* The comparisons insert records in the shared trace, in their order;     *)
(* each is asserted as soon as it is recorded.                             *)
InsertCompares(s, low, l) ==
  <<[strict |-> TRUE, a |-> low.label.time, b |-> l.time],
    [strict |-> TRUE, a |-> low.next.time,  b |-> l.time],
    IF s = "Buy" THEN [strict |-> FALSE, a |-> l.price,         b |-> low.label.price]
                 ELSE [strict |-> FALSE, a |-> low.label.price, b |-> l.price],
    IF s = "Buy" THEN [strict |-> TRUE,  a |-> low.next.price,  b |-> l.price]
                 ELSE [strict |-> TRUE,  a |-> l.price,         b |-> low.next.price]>>

Holds(c) == IF c.strict THEN c.a < c.b ELSE c.a <= c.b

\* the assertions on low_leaf.next dropped
InsertAsserts_NoNext(s, low, l) ==
  \A i \in {1, 3} : Holds(InsertCompares(s, low, l)[i])

InsertAsserts(s, low, l) == \A i \in 1 .. 4 : Holds(InsertCompares(s, low, l)[i])

InsertOutcome(s, t, o) ==
  IF ~ HasLow(s, t, o.price_time) THEN "LowLeafNotFound"
  ELSE IF ~ InsertAsserts(s, LeafOf(t, Low(s, t, o.price_time)), o.price_time) THEN "panic"
  ELSE "ok"

(* Order::to_leaf *)
OrderLeaf(o, next) ==
  [active |-> TRUE, volume |-> o.volume, label |-> o.price_time, next |-> next]

\* low_leaf.next is overwritten before the new leaf takes it over
Inserted_NextLost(s, t, o) ==
  LET low == t.index_map[Low(s, t, o.price_time)] IN
  [leaves    |-> Append([t.leaves EXCEPT ![low] = WithNext(@, o.price_time)],
                        OrderLeaf(o, o.price_time)),
   index_map |-> Added(t.index_map, o.price_time, Len(t.leaves) + 1)]

Inserted(s, t, o) ==
  LET low == t.index_map[Low(s, t, o.price_time)] IN
  [leaves    |-> Append([t.leaves EXCEPT ![low] = WithNext(@, o.price_time)],
                        OrderLeaf(o, t.leaves[low].next)),
   index_map |-> Added(t.index_map, o.price_time, Len(t.leaves) + 1)]

-----------------------------------------------------------------------------
(* update: the guard rejects the default label, whatever the side.         *)

\* the guard on the default label dropped
UpdateOutcome_NoGuard(t, l) == IF l \notin Live(t) THEN "LeafNotFound" ELSE "ok"

UpdateOutcome(t, l) ==
  IF l = Default THEN "CannotUpdateFirstLeaf"
  ELSE IF l \notin Live(t) THEN "LeafNotFound"
  ELSE "ok"

Updated(t, l, v) ==
  [leaves    |-> [t.leaves EXCEPT ![t.index_map[l]] = WithVolume(@, v)],
   index_map |-> t.index_map]

-----------------------------------------------------------------------------
(* cancel_at_index: unlink the leaf at a position from its predecessor.    *)

CancelOutcome(s, t, pos) ==
  IF pos = FirstPos THEN "CannotCancelFirstLeaf"
  ELSE IF pos > Len(t.leaves) THEN "panic"
  ELSE IF ~ HasLow(s, t, t.leaves[pos].label) THEN "LowLeafNotFound"
  ELSE "ok"

\* the cancelled label stays in index_map
Cancelled_StaysIndexed(s, t, pos) ==
  LET leaf == t.leaves[pos]
      low  == t.index_map[Low(s, t, leaf.label)]
  IN  [leaves    |-> [t.leaves EXCEPT ![low] = WithNext(@, leaf.next), ![pos] = Inactive(@)],
       index_map |-> t.index_map]

Cancelled(s, t, pos) ==
  LET leaf == t.leaves[pos]
      low  == t.index_map[Low(s, t, leaf.label)]
  IN  [leaves    |-> [t.leaves EXCEPT ![low] = WithNext(@, leaf.next), ![pos] = Inactive(@)],
       index_map |-> Removed(t.index_map, leaf.label)]

-----------------------------------------------------------------------------
(* match_order: remove the leaf the first leaf points to.                  *)

MatchOutcome(t) == IF BestLabel(t) \notin Live(t) THEN "LeafNotFound" ELSE "ok"

\* the first leaf keeps pointing to the matched leaf
Matched_HeadKept(t) ==
  LET pos == t.index_map[BestLabel(t)] IN
  [leaves    |-> [t.leaves EXCEPT ![pos] = Inactive(@)],
   index_map |-> Removed(t.index_map, t.leaves[pos].label)]

Matched(t) ==
  LET pos == t.index_map[BestLabel(t)] IN
  [leaves    |-> [t.leaves EXCEPT ![FirstPos] = WithNext(@, t.leaves[pos].next),
                                  ![pos] = Inactive(@)],
   index_map |-> Removed(t.index_map, t.leaves[pos].label)]

-----------------------------------------------------------------------------
(* match_partially: reduce the volume of the leaf the first leaf points    *)
(* to, which must keep a positive volume.                                  *)

\* the check of the leaf's volume dropped
PartialOutcome_NoVolumeCheck(t, filled) ==
  IF BestLabel(t) \notin Live(t) THEN "LeafNotFound"
  ELSE IF LeafOf(t, BestLabel(t)).volume = filled THEN "NotAPartialMatch"
  ELSE "ok"

PartialOutcome(t, filled) ==
  IF BestLabel(t) \notin Live(t) THEN "LeafNotFound"
  ELSE IF LeafOf(t, BestLabel(t)).volume < filled THEN "InsufficientVolumeToFill"
  ELSE IF LeafOf(t, BestLabel(t)).volume = filled THEN "NotAPartialMatch"
  ELSE "ok"

\* the leaf keeps the volume just filled instead of the remaining one
PartiallyMatched_KeepsFilled(t, filled) ==
  [leaves    |-> [t.leaves EXCEPT ![t.index_map[BestLabel(t)]] = WithVolume(@, filled)],
   index_map |-> t.index_map]

PartiallyMatched(t, filled) ==
  [leaves    |-> [t.leaves EXCEPT ![t.index_map[BestLabel(t)]] = WithVolume(@, @.volume - filled)],
   index_map |-> t.index_map]

=============================================================================
