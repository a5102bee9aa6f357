--------------------------- MODULE IMTreeProofs ----------------------------
(***************************************************************************)
(* Lemmas about the methods of one side's tree, for every width of the     *)
(* integers and every tree that satisfies TreeInv: each method whose       *)
(* outcome is "ok" keeps TreeInv.  The modules that prove something of a   *)
(* machine that owns trees build on them.                                  *)
(***************************************************************************)
EXTENDS IMTree, CommonProofs

-----------------------------------------------------------------------------
(* The price-time priority of a side is a strict total order on labels.    *)

LEMMA SentinelsAreLabels ==
  ASSUME NEW s \in Sides
  PROVE  /\ First(s) \in Label /\ Last(s) \in Label /\ Default \in Label
         /\ First(s) # Last(s)
BY MaxU64Assumption DEF First, Last, Default, Label, U64, Sides

LEMMA BeforeIrreflexive ==
  ASSUME NEW s \in Sides, NEW a \in Label
  PROVE  ~ Before(s, a, a)
BY MaxU64Assumption DEF Before, BetterPrice, Label, U64

LEMMA BeforeTransitive ==
  ASSUME NEW s \in Sides, NEW a \in Label, NEW b \in Label, NEW c \in Label,
         Before(s, a, b), Before(s, b, c)
  PROVE  Before(s, a, c)
BY MaxU64Assumption DEF Before, BetterPrice, Label, U64, Sides

LEMMA BeforeTotal ==
  ASSUME NEW s \in Sides, NEW a \in Label, NEW b \in Label
  PROVE  a = b \/ Before(s, a, b) \/ Before(s, b, a)
<1>1. a.price \in Int /\ b.price \in Int /\ a.time \in Int /\ b.time \in Int
  BY MaxU64Assumption DEF Label, U64
<1>2. a.price = b.price /\ a.time = b.time => a = b
  BY DEF Label
<1>3. QED
  BY <1>1, <1>2 DEF Before, BetterPrice, Sides

-----------------------------------------------------------------------------
(* Each method writes one field of a leaf and keeps the others.            *)

LEMMA NextEdit ==
  ASSUME NEW leaf \in Leaf, NEW n \in Label
  PROVE  /\ WithNext(leaf, n) \in Leaf
         /\ WithNext(leaf, n).next = n
         /\ WithNext(leaf, n).active = leaf.active
         /\ WithNext(leaf, n).label = leaf.label
         /\ WithNext(leaf, n).volume = leaf.volume
BY DEF Leaf, WithNext

LEMMA VolumeEdit ==
  ASSUME NEW leaf \in Leaf, NEW v \in U64
  PROVE  /\ WithVolume(leaf, v) \in Leaf
         /\ WithVolume(leaf, v).volume = v
         /\ WithVolume(leaf, v).active = leaf.active
         /\ WithVolume(leaf, v).label = leaf.label
         /\ WithVolume(leaf, v).next = leaf.next
BY DEF Leaf, WithVolume

LEMMA InactiveEdit ==
  ASSUME NEW leaf \in Leaf
  PROVE  /\ Inactive(leaf) \in Leaf
         /\ ~ Inactive(leaf).active
         /\ Inactive(leaf).label = leaf.label
         /\ Inactive(leaf).next = leaf.next
         /\ Inactive(leaf).volume = leaf.volume
BY DEF Leaf, Inactive

-----------------------------------------------------------------------------
(* Reading a tree that satisfies the invariant.                            *)

LEMMA LiveLeaf ==
  ASSUME NEW s \in Sides, NEW t, TreeInv(s, t), NEW k \in Live(t)
  PROVE  /\ k \in Label
         /\ t.index_map[k] \in 1 .. Len(t.leaves)
         /\ LeafOf(t, k) = t.leaves[t.index_map[k]]
         /\ LeafOf(t, k) \in Leaf
         /\ LeafOf(t, k).label = k
         /\ LeafOf(t, k).active
BY DEF TreeInv, TreeType, Indexed, LeafOf

LEMMA FirstAndLast ==
  ASSUME NEW s \in Sides, NEW t, TreeInv(s, t)
  PROVE  /\ First(s) \in Live(t) /\ Last(s) \in Live(t)
         /\ LeafOf(t, First(s)) = t.leaves[FirstPos]
         /\ LeafOf(t, Last(s)) = LastLeaf(s)
         /\ 1 \in 1 .. Len(t.leaves) /\ 2 \in 1 .. Len(t.leaves)
         /\ Len(t.leaves) \in Nat
BY LiveLeaf DEF TreeInv, TreeType, SentinelsKept, LeafOf, FirstPos, LastPos

(* Two live labels never share a slot.                                     *)
LEMMA SlotsDistinct ==
  ASSUME NEW s \in Sides, NEW t, TreeInv(s, t), NEW j \in Live(t), NEW k \in Live(t),
         t.index_map[j] = t.index_map[k]
  PROVE  j = k
BY LiveLeaf

(* best_price_leaf: the first leaf points to the best live label.          *)
LEMMA HeadIsNext ==
  ASSUME NEW s \in Sides, NEW t, TreeInv(s, t)
  PROVE  IsNext(s, t, First(s), BestLabel(t))
BY FirstAndLast, SentinelsAreLabels DEF TreeInv, Linked, BestLabel

(* From t to u the vector keeps its slots, their labels and the leaves     *)
(* that are no longer active.                                              *)
SlotsKept(t, u) ==
  \A p \in 1 .. Len(t.leaves) :
    /\ p <= Len(u.leaves)
    /\ u.leaves[p].label = t.leaves[p].label
    /\ ~ t.leaves[p].active => u.leaves[p] = t.leaves[p]

-----------------------------------------------------------------------------
(* new *)

LEMMA NewKeeps ==
  ASSUME NEW s \in Sides
  PROVE  TreeInv(s, New(s))
<1> DEFINE t == New(s)
<1>1. /\ t.leaves = <<FirstLeaf(s), LastLeaf(s)>>
      /\ Live(t) = {First(s), Last(s)}
      /\ t.index_map[First(s)] = 1 /\ t.index_map[Last(s)] = 2
  BY SentinelsAreLabels DEF New, Live, FirstPos, LastPos
<1>2. /\ FirstLeaf(s) \in Leaf /\ LastLeaf(s) \in Leaf
      /\ Len(t.leaves) = 2 /\ t.leaves[1] = FirstLeaf(s) /\ t.leaves[2] = LastLeaf(s)
  BY <1>1, SentinelsAreLabels, MaxU64Assumption DEF FirstLeaf, LastLeaf, Leaf, U64
<1>3. TreeType(t)
  BY <1>1, <1>2, SentinelsAreLabels DEF TreeType, New, Live, FirstPos, LastPos
<1>4. Indexed(t)
  BY <1>1, <1>2, SentinelsAreLabels DEF Indexed, LeafOf, FirstLeaf, LastLeaf
<1>5. SentinelsKept(s, t)
  BY <1>1, <1>2 DEF SentinelsKept, FirstLeaf, FirstPos, LastPos
<1>6. Before(s, First(s), Last(s))
  BY MaxU64Assumption DEF Before, BetterPrice, First, Last, Default, Sides
<1>7. LeafOf(t, First(s)).next = Last(s)
  BY <1>1, <1>2 DEF LeafOf, FirstLeaf
<1>8. Linked(s, t)
  BY <1>1, <1>6, <1>7, BeforeIrreflexive, SentinelsAreLabels DEF Linked, IsNext
<1>9. QED
  BY <1>3, <1>4, <1>5, <1>8 DEF TreeInv

-----------------------------------------------------------------------------
(* insert *)

(* What the assertions of insert leave standing: the low leaf is not the   *)
(* last sentinel, and the new label lies strictly between it and its next. *)
LEMMA InsertBetween ==
  ASSUME NEW s \in Sides, NEW t, TreeInv(s, t), NEW o \in Order,
         InsertOutcome(s, t, o) = "ok"
  PROVE  LET l   == o.price_time
             low == Low(s, t, l)
             n   == LeafOf(t, low).next
         IN  /\ low \in Live(t) \ {Last(s)}
             /\ IsLow(s, t, low, l)
             /\ IsNext(s, t, low, n)
             /\ l \notin Live(t)
             /\ Before(s, l, n)
<1> DEFINE l == o.price_time
           low == Low(s, t, l)
           n == LeafOf(t, low).next
<1>0. l \in Label
  BY DEF Order
<1>1. low \in Live(t) /\ IsLow(s, t, low, l)
  BY DEF InsertOutcome, HasLow, Low
<1>2. Before(s, low, l)
  BY <1>1 DEF IsLow
<1>3. /\ LeafOf(t, low).label = low
      /\ LeafOf(t, low) \in Leaf
      /\ low \in Label /\ n \in Label
  BY <1>1, LiveLeaf DEF Leaf
<1>4. InsertAsserts(s, LeafOf(t, low), l)
  BY DEF InsertOutcome
<1>5. /\ low.time < l.time /\ n.time < l.time
      /\ s = "Buy" => n.price < l.price
      /\ s = "Sell" => l.price < n.price
  BY <1>3, <1>4 DEF InsertAsserts, InsertCompares, Holds, Sides
<1>6. low # Last(s)
  <2>1. SUFFICES ASSUME low = Last(s) PROVE FALSE
    OBVIOUS
  <2>2. n = Default
    BY <2>1, FirstAndLast DEF LastLeaf
  <2>3. l.price \in U64 /\ l.time \in U64
    BY <1>0 DEF Label
  <2>4. QED
    BY <1>2, <1>5, <2>1, <2>2, <2>3, MaxU64Assumption
    DEF Before, BetterPrice, Last, Default, Sides, U64
<1>7. IsNext(s, t, low, n)
  BY <1>1, <1>6 DEF TreeInv, Linked
<1>8. l # n /\ ~ Before(s, n, l)
  <2>1. l # n
    BY <1>0, <1>3, <1>5, MaxU64Assumption DEF Label, U64
  <2>2. ASSUME Before(s, n, l) PROVE FALSE
    <3>1. n = low \/ Before(s, n, low)
      BY <1>1, <1>7, <2>2 DEF IsLow, IsNext
    <3>2. Before(s, low, n)
      BY <1>7 DEF IsNext
    <3>3. QED
      BY <3>1, <3>2, <1>3, BeforeIrreflexive, BeforeTransitive
  <2>3. QED
    BY <2>1, <2>2
<1>9. l \notin Live(t)
  BY <1>2, <1>7, <1>8 DEF IsNext
<1>10. Before(s, l, n)
  BY <1>0, <1>3, <1>8, BeforeTotal
<1>11. QED
  BY <1>1, <1>6, <1>7, <1>9, <1>10

LEMMA InsertKeeps ==
  ASSUME NEW s \in Sides, NEW t, TreeInv(s, t), NEW o \in Order,
         InsertOutcome(s, t, o) = "ok"
  PROVE  LET l == o.price_time
             u == Inserted(s, t, o)
         IN  /\ TreeInv(s, u)
             /\ Len(u.leaves) = Len(t.leaves) + 1
             /\ Live(u) = Live(t) \cup {l}
             /\ LeafOf(u, l).volume = o.volume
             /\ \A k \in Live(t) : LeafOf(u, k).volume = LeafOf(t, k).volume
             /\ SlotsKept(t, u)
<1> DEFINE l == o.price_time
           low == Low(s, t, l)
           p == t.index_map[low]
           n == LeafOf(t, low).next
           N == Len(t.leaves)
           u == Inserted(s, t, o)
<1>0. l \in Label /\ o.volume \in U64
  BY DEF Order
<1>1. /\ low \in Live(t) /\ low # Last(s)
      /\ IsLow(s, t, low, l)
      /\ IsNext(s, t, low, n)
      /\ l \notin Live(t)
      /\ Before(s, l, n)
  BY InsertBetween
<1>2. /\ low \in Label /\ p \in 1 .. N
      /\ LeafOf(t, low) = t.leaves[p] /\ t.leaves[p] \in Leaf
      /\ t.leaves[p].label = low
      /\ n \in Live(t) /\ n \in Label
  BY <1>1, LiveLeaf DEF IsNext
<1>3. t.leaves \in Seq(Leaf) /\ N \in Nat
  BY DEF TreeInv, TreeType
<1>4. OrderLeaf(o, n) \in Leaf
  BY <1>0, <1>2 DEF OrderLeaf, Leaf
<1> DEFINE e == [t.leaves EXCEPT ![p] = WithNext(@, l)]
<1>5. e \in Seq(Leaf) /\ Len(e) = N
  BY <1>0, <1>2, <1>3, NextEdit
<1>6. u.leaves = Append(e, OrderLeaf(o, n)) /\ u.index_map = Added(t.index_map, l, N + 1)
  BY <1>2 DEF Inserted
<1> HIDE DEF u
<1>7. /\ u.leaves \in Seq(Leaf) /\ Len(u.leaves) = N + 1
      /\ u.leaves[N + 1] = OrderLeaf(o, n)
      /\ \A q \in 1 .. N : u.leaves[q] = e[q]
  BY <1>3, <1>4, <1>5, <1>6
<1>8. /\ \A q \in 1 .. N : q # p => u.leaves[q] = t.leaves[q]
      /\ u.leaves[p] = WithNext(t.leaves[p], l)
  BY <1>2, <1>3, <1>7
<1>8a. /\ u.leaves[p].active = t.leaves[p].active
       /\ u.leaves[p].label = t.leaves[p].label
       /\ u.leaves[p].volume = t.leaves[p].volume
       /\ u.leaves[p].next = l
  <2> HIDE DEF l, p, e
  <2>1. QED
    BY <1>0, <1>2, <1>8, NextEdit
<1>9. /\ Live(u) = Live(t) \cup {l}
      /\ u.index_map[l] = N + 1
      /\ \A k \in Live(t) : u.index_map[k] = t.index_map[k]
  BY <1>1, <1>6 DEF Live, Added
<1>10. TreeType(u)
  <2>1. \A k \in Live(u) : u.index_map[k] \in 1 .. (N + 1)
    BY <1>3, <1>9, LiveLeaf
  <2>2. u.index_map = [k \in Live(u) |-> u.index_map[k]]
    BY <1>6 DEF Added, Live
  <2>3. QED
    BY <2>1, <2>2, <1>0, <1>7, <1>9 DEF TreeType, TreeInv
<1>11. \A k \in Live(t) : /\ LeafOf(u, k).active = LeafOf(t, k).active
                          /\ LeafOf(u, k).label = LeafOf(t, k).label
                          /\ LeafOf(u, k).volume = LeafOf(t, k).volume
                          /\ LeafOf(u, k).next = IF k = low THEN l ELSE LeafOf(t, k).next
  <2>1. SUFFICES ASSUME NEW k \in Live(t)
                 PROVE  /\ LeafOf(u, k).active = LeafOf(t, k).active
                        /\ LeafOf(u, k).label = LeafOf(t, k).label
                        /\ LeafOf(u, k).volume = LeafOf(t, k).volume
                        /\ LeafOf(u, k).next = IF k = low THEN l ELSE LeafOf(t, k).next
    OBVIOUS
  <2>2. t.index_map[k] \in 1 .. N /\ LeafOf(t, k) \in Leaf
    BY LiveLeaf
  <2>3. CASE k = low
    BY <2>2, <2>3, <1>2, <1>8a, <1>9 DEF LeafOf
  <2>4. CASE k # low
    <3>1. t.index_map[k] # p
      BY <2>4, <1>1, SlotsDistinct
    <3>2. QED
      BY <3>1, <2>2, <2>4, <1>8, <1>9 DEF LeafOf
  <2>5. QED
    BY <2>3, <2>4
<1>12. LeafOf(u, l) = OrderLeaf(o, n)
  BY <1>7, <1>9 DEF LeafOf
<1>13. Indexed(u)
  <2>1. \A k \in Live(u) : LeafOf(u, k).active /\ LeafOf(u, k).label = k
    BY <1>9, <1>11, <1>12, LiveLeaf DEF OrderLeaf
  <2>2. ASSUME NEW q \in 1 .. (N + 1), u.leaves[q].active
        PROVE  u.leaves[q].label \in Live(u) /\ u.index_map[u.leaves[q].label] = q
    <3>1. CASE q = N + 1
      BY <3>1, <1>7, <1>9 DEF OrderLeaf
    <3>2. CASE q # N + 1
      <4>1. q \in 1 .. N
        BY <3>2, <1>3
      <4>2. u.leaves[q].active = t.leaves[q].active /\ u.leaves[q].label = t.leaves[q].label
        BY <4>1, <1>8, <1>8a
      <4>3. t.leaves[q].label \in Live(t) /\ t.index_map[t.leaves[q].label] = q
        BY <4>1, <4>2, <2>2 DEF TreeInv, Indexed
      <4>4. QED
        BY <4>2, <4>3, <1>9
    <3>3. QED
      BY <3>1, <3>2
  <2>3. QED
    BY <2>1, <2>2, <1>7 DEF Indexed
<1>14. SentinelsKept(s, u)
  <2>1. /\ First(s) \in Live(t) /\ Last(s) \in Live(t)
        /\ t.index_map[First(s)] = 1 /\ t.index_map[Last(s)] = 2
        /\ t.leaves[1].volume = 0 /\ t.leaves[2] = LastLeaf(s)
        /\ 1 \in 1 .. N /\ 2 \in 1 .. N
    BY FirstAndLast DEF TreeInv, SentinelsKept, FirstPos, LastPos
  <2>2. p # 2
    BY <2>1, <1>1, SlotsDistinct
  <2>3. u.leaves[1].volume = 0
    BY <2>1, <1>8, <1>8a
  <2>4. QED
    BY <2>1, <2>2, <2>3, <1>8, <1>9 DEF SentinelsKept, FirstPos, LastPos
<1>15. Linked(s, u)
  <2>1. \A k \in Live(t) : k \in Label
    BY LiveLeaf
  <2>2. Before(s, low, l)
    BY <1>1 DEF IsLow
  <2>3. /\ \A k \in Live(t) : k = First(s) \/ Before(s, First(s), k)
        /\ \A k \in Live(t) : k = Last(s) \/ Before(s, k, Last(s))
        /\ \A k \in Live(t) \ {Last(s)} : IsNext(s, t, k, LeafOf(t, k).next)
    BY DEF TreeInv, Linked
  <2>4. Before(s, First(s), l) /\ Before(s, l, Last(s))
    BY <1>0, <1>1, <1>2, <2>2, <2>3, BeforeTransitive, SentinelsAreLabels
  <2>5. IsNext(s, u, low, l)
    <3>1. ASSUME NEW j \in Live(t), Before(s, low, j) PROVE Before(s, l, j)
      BY <3>1, <1>0, <1>1, <1>2, <2>1, BeforeTransitive DEF IsNext
    <3>2. QED
      BY <3>1, <2>2, <1>9 DEF IsNext
  <2>6. IsNext(s, u, l, n)
    <3>1. ASSUME NEW j \in Live(t), Before(s, l, j) PROVE j = n \/ Before(s, n, j)
      BY <3>1, <1>0, <1>1, <1>2, <2>1, <2>2, BeforeTransitive DEF IsNext
    <3>2. ~ Before(s, l, l)
      BY <1>0, BeforeIrreflexive
    <3>3. QED
      BY <3>1, <3>2, <1>1, <1>2, <1>9 DEF IsNext
  <2>7. ASSUME NEW k \in Live(t), k # low, k # Last(s)
        PROVE  IsNext(s, u, k, LeafOf(t, k).next)
    <3> DEFINE m == LeafOf(t, k).next
    <3>1. IsNext(s, t, k, m)
      BY <2>3, <2>7
    <3>2. m \in Live(t) /\ Before(s, k, m) /\ m \in Label /\ k \in Label
      BY <3>1, <2>1 DEF IsNext
    <3>3. ASSUME Before(s, k, l) PROVE Before(s, m, l)
      <4>1. Before(s, k, low)
        BY <3>3, <2>7, <1>1 DEF IsLow
      <4>2. low = m \/ Before(s, m, low)
        BY <4>1, <3>1, <1>1 DEF IsNext
      <4>3. QED
        BY <4>2, <2>2, <3>2, <1>0, <1>2, BeforeTransitive
    <3>4. QED
      BY <3>1, <3>2, <3>3, <1>9 DEF IsNext
  <2>8. /\ LeafOf(u, l).next = n /\ LeafOf(u, low).next = l
        /\ \A k \in Live(t) : k # low => LeafOf(u, k).next = LeafOf(t, k).next
    BY <1>1, <1>11, <1>12 DEF OrderLeaf
  <2>9. QED
    BY <1>9, <2>3, <2>4, <2>5, <2>6, <2>7, <2>8 DEF Linked
<1>16. SlotsKept(t, u)
  <2>1. t.leaves[p].active
    <3> HIDE DEF l, low, p, n, e
    <3>1. LeafOf(t, low).active
      BY <1>1, LiveLeaf
    <3>2. QED
      BY <1>2, <3>1
  <2>2. ASSUME NEW q \in 1 .. N
        PROVE  /\ q <= N + 1 /\ u.leaves[q].label = t.leaves[q].label
               /\ ~ t.leaves[q].active => u.leaves[q] = t.leaves[q]
    BY <2>1, <1>3, <1>8, <1>8a
  <2>3. QED
    BY <2>2, <1>7 DEF SlotsKept
<1>17. LeafOf(u, l).volume = o.volume
  BY <1>12 DEF OrderLeaf
<1>18. TreeInv(s, u)
  BY <1>10, <1>13, <1>14, <1>15 DEF TreeInv
<1>19. QED
  BY <1>7, <1>9, <1>11, <1>16, <1>17, <1>18 DEF u

-----------------------------------------------------------------------------
(* update and match_partially change one volume.                           *)

LEMMA VolumeKeeps ==
  ASSUME NEW s \in Sides, NEW t, TreeInv(s, t),
         NEW k \in Live(t) \ {First(s), Last(s)}, NEW v \in U64, NEW u,
         u.leaves = [t.leaves EXCEPT ![t.index_map[k]] = WithVolume(@, v)],
         u.index_map = t.index_map
  PROVE  /\ TreeInv(s, u)
         /\ Live(u) = Live(t)
         /\ LeafOf(u, k).volume = v
         /\ \A j \in Live(t) \ {k} : LeafOf(u, j).volume = LeafOf(t, j).volume
         /\ SlotsKept(t, u)
<1> DEFINE p == t.index_map[k]
           N == Len(t.leaves)
<1>1. p \in 1 .. N /\ t.leaves \in Seq(Leaf) /\ N \in Nat /\ t.leaves[p] \in Leaf
  BY LiveLeaf DEF TreeInv, TreeType
<1>2. u.leaves \in Seq(Leaf) /\ Len(u.leaves) = N
  BY <1>1, VolumeEdit
<1>3. /\ \A q \in 1 .. N : q # p => u.leaves[q] = t.leaves[q]
      /\ u.leaves[p] = WithVolume(t.leaves[p], v)
  BY <1>1
<1>4. \A q \in 1 .. N : /\ u.leaves[q].active = t.leaves[q].active
                        /\ u.leaves[q].label = t.leaves[q].label
                        /\ u.leaves[q].next = t.leaves[q].next
  BY <1>1, <1>3, VolumeEdit
<1>5. Live(u) = Live(t)
  BY DEF Live
<1>6. TreeType(u)
  BY <1>2, <1>5 DEF TreeInv, TreeType
<1>7. \A j \in Live(t) : t.index_map[j] \in 1 .. N
  BY LiveLeaf
<1>8. Indexed(u)
  <2>1. Indexed(t)
    BY DEF TreeInv
  <2>2. ASSUME NEW j \in Live(u) PROVE LeafOf(u, j).active /\ LeafOf(u, j).label = j
    <3>1. j \in Live(t) /\ t.index_map[j] \in 1 .. N /\ u.index_map[j] = t.index_map[j]
      BY <1>5, <1>7
    <3>2. t.leaves[t.index_map[j]].active /\ t.leaves[t.index_map[j]].label = j
      BY <2>1, <3>1 DEF Indexed, LeafOf
    <3> HIDE DEF N
    <3>3. QED
      BY <1>4, <3>1, <3>2 DEF LeafOf
  <2>3. ASSUME NEW i \in 1 .. N, u.leaves[i].active
        PROVE  u.leaves[i].label \in Live(u) /\ u.index_map[u.leaves[i].label] = i
    <3>1. t.leaves[i].active /\ u.leaves[i].label = t.leaves[i].label
      BY <2>3, <1>4
    <3>2. t.leaves[i].label \in Live(t) /\ t.index_map[t.leaves[i].label] = i
      BY <2>1, <3>1 DEF Indexed
    <3>3. QED
      BY <3>1, <3>2, <1>5
  <2>4. QED
    BY <2>2, <2>3, <1>2 DEF Indexed
<1>9. p # 1 /\ p # 2
  BY SlotsDistinct, FirstAndLast DEF TreeInv, SentinelsKept, FirstPos, LastPos
<1>10. SentinelsKept(s, u)
  BY <1>3, <1>5, <1>9, FirstAndLast DEF TreeInv, SentinelsKept, FirstPos, LastPos
<1>11. \A j \in Live(t) : LeafOf(u, j).next = LeafOf(t, j).next
  BY <1>4, <1>7 DEF LeafOf
<1>12. Linked(s, u)
  BY <1>5, <1>11 DEF TreeInv, Linked, IsNext
<1>13. LeafOf(u, k).volume = v
  BY <1>1, <1>3, VolumeEdit DEF LeafOf
<1>14. \A j \in Live(t) \ {k} : LeafOf(u, j).volume = LeafOf(t, j).volume
  BY <1>3, <1>7, SlotsDistinct DEF LeafOf
<1>15. SlotsKept(t, u)
  BY <1>1, <1>2, <1>3, <1>4, LiveLeaf DEF SlotsKept
<1>16. QED
  BY <1>5, <1>6, <1>8, <1>10, <1>12, <1>13, <1>14, <1>15 DEF TreeInv

LEMMA UpdateKeeps ==
  ASSUME NEW s \in Sides, NEW t, TreeInv(s, t), NEW l, NEW v \in U64,
         UpdateOutcome(t, l) = "ok", l \notin {First(s), Last(s)}
  PROVE  LET u == Updated(t, l, v)
         IN  /\ TreeInv(s, u)
             /\ l \in Live(t) /\ Live(u) = Live(t)
             /\ LeafOf(u, l).volume = v
             /\ \A j \in Live(t) \ {l} : LeafOf(u, j).volume = LeafOf(t, j).volume
             /\ SlotsKept(t, u)
<1>1. l \in Live(t) \ {First(s), Last(s)}
  BY DEF UpdateOutcome
<1>2. QED
  BY <1>1, VolumeKeeps DEF Updated

LEMMA PartialKeeps ==
  ASSUME NEW s \in Sides, NEW t, TreeInv(s, t), NEW filled \in U64,
         PartialOutcome(t, filled) = "ok"
  PROVE  LET k == BestLabel(t)
             u == PartiallyMatched(t, filled)
         IN  /\ k \in Live(t) \ {First(s), Last(s)}
             /\ LeafOf(t, k).volume - filled \in U64 \ {0}
             /\ TreeInv(s, u)
             /\ Live(u) = Live(t)
             /\ LeafOf(u, k).volume = LeafOf(t, k).volume - filled
             /\ \A j \in Live(t) \ {k} : LeafOf(u, j).volume = LeafOf(t, j).volume
             /\ SlotsKept(t, u)
<1> DEFINE k == BestLabel(t)
           rest == LeafOf(t, k).volume - filled
<1>1. k \in Live(t)
  BY DEF PartialOutcome
<1>2. LeafOf(t, k).volume \in U64 /\ LeafOf(t, k).volume > filled
  BY <1>1, LiveLeaf, MaxU64Assumption DEF PartialOutcome, Leaf, U64
<1>3. rest \in U64 \ {0}
  BY <1>2, MaxU64Assumption DEF U64
<1>4. LeafOf(t, Last(s)).volume = 0 /\ LeafOf(t, First(s)).volume = 0
  BY FirstAndLast DEF TreeInv, SentinelsKept, LastLeaf
<1>5. k \notin {First(s), Last(s)}
  BY <1>2, <1>4, MaxU64Assumption DEF U64
<1>6. PartiallyMatched(t, filled).leaves = [t.leaves EXCEPT ![t.index_map[k]] = WithVolume(@, rest)]
  BY DEF PartiallyMatched, LeafOf
<1>7. PartiallyMatched(t, filled).index_map = t.index_map
  BY DEF PartiallyMatched
<1> DEFINE u == PartiallyMatched(t, filled)
<1>8. /\ TreeInv(s, u)
      /\ Live(u) = Live(t)
      /\ LeafOf(u, k).volume = rest
      /\ \A j \in Live(t) \ {k} : LeafOf(u, j).volume = LeafOf(t, j).volume
      /\ SlotsKept(t, u)
  BY <1>1, <1>3, <1>5, <1>6, <1>7, VolumeKeeps
<1>9. QED
  BY <1>1, <1>3, <1>5, <1>8

-----------------------------------------------------------------------------
(* cancel_at_index and match_order unlink one leaf from its predecessor.   *)

LEMMA UnlinkedLeaves ==
  ASSUME NEW v \in Seq(Leaf), NEW p \in 1 .. Len(v), NEW q \in 1 .. Len(v), p # q,
         NEW n \in Label, NEW w,
         w = [v EXCEPT ![p] = WithNext(@, n), ![q] = Inactive(@)]
  PROVE  /\ w \in Seq(Leaf) /\ Len(w) = Len(v)
         /\ \A i \in 1 .. Len(v) : i # p /\ i # q => w[i] = v[i]
         /\ w[p] = WithNext(v[p], n)
         /\ w[q] = Inactive(v[q])
<1>1. v[p] \in Leaf /\ v[q] \in Leaf /\ Len(v) \in Nat
  OBVIOUS
<1>2. WithNext(v[p], n) \in Leaf /\ Inactive(v[q]) \in Leaf
  BY <1>1, NextEdit, InactiveEdit
<1>3. QED
  BY <1>1, <1>2

(* u is t with the leaf of k unlinked from that of low.                    *)
Unlinked(t, low, k, u) ==
  /\ u.leaves \in Seq(Leaf) /\ Len(u.leaves) = Len(t.leaves)
  /\ \A i \in 1 .. Len(t.leaves) :
       i # t.index_map[low] /\ i # t.index_map[k] => u.leaves[i] = t.leaves[i]
  /\ u.leaves[t.index_map[low]] = WithNext(LeafOf(t, low), LeafOf(t, k).next)
  /\ u.leaves[t.index_map[k]] = Inactive(LeafOf(t, k))
  /\ u.index_map = Removed(t.index_map, k)

LEMMA UnlinkKeeps ==
  ASSUME NEW s \in Sides, NEW t, TreeInv(s, t),
         NEW k \in Live(t) \ {First(s), Last(s)}, NEW low \in Live(t) \ {Last(s)},
         LeafOf(t, low).next = k, NEW u, Unlinked(t, low, k, u)
  PROVE  /\ TreeInv(s, u)
         /\ Live(u) = Live(t) \ {k}
         /\ \A j \in Live(u) : LeafOf(u, j).volume = LeafOf(t, j).volume
         /\ SlotsKept(t, u)
<1> DEFINE p == t.index_map[low]
           q == t.index_map[k]
           n == LeafOf(t, k).next
           N == Len(t.leaves)
           R == Live(t) \ {k}
<1>1. IsNext(s, t, low, k) /\ IsNext(s, t, k, n)
  BY DEF TreeInv, Linked
<1>2. /\ low \in Label /\ k \in Label /\ n \in Label /\ n \in Live(t)
      /\ p \in 1 .. N /\ q \in 1 .. N
      /\ t.leaves[p] \in Leaf /\ t.leaves[q] \in Leaf
      /\ t.leaves[q].label = k
  BY <1>1, LiveLeaf DEF IsNext
<1>3. low # k
  BY <1>1, <1>2, BeforeIrreflexive DEF IsNext
<1>4. p # q
  BY <1>3, SlotsDistinct
<1>5. t.leaves \in Seq(Leaf) /\ N \in Nat
  BY DEF TreeInv, TreeType
<1>6. u.leaves \in Seq(Leaf) /\ Len(u.leaves) = N
  BY DEF Unlinked
<1>7. /\ \A i \in 1 .. N : i # p /\ i # q => u.leaves[i] = t.leaves[i]
      /\ u.leaves[p] = WithNext(t.leaves[p], n)
      /\ u.leaves[q] = Inactive(t.leaves[q])
  <2>1. LeafOf(t, low) = t.leaves[p] /\ LeafOf(t, k) = t.leaves[q]
    BY DEF LeafOf
  <2>2. QED
    BY <2>1 DEF Unlinked
<1>7a. /\ u.leaves[p].active = t.leaves[p].active
       /\ u.leaves[p].label = t.leaves[p].label
       /\ u.leaves[p].volume = t.leaves[p].volume
       /\ u.leaves[p].next = n
       /\ ~ u.leaves[q].active
  <2> HIDE DEF p, q, n, N, R
  <2>1. u.leaves[p] = WithNext(t.leaves[p], n) /\ u.leaves[q] = Inactive(t.leaves[q])
    BY <1>7
  <2>2. ~ u.leaves[q].active
    BY <2>1, <1>2, InactiveEdit
  <2>3. /\ u.leaves[p].active = t.leaves[p].active
        /\ u.leaves[p].label = t.leaves[p].label
        /\ u.leaves[p].volume = t.leaves[p].volume
        /\ u.leaves[p].next = n
    <3>1. t.leaves[p] \in Leaf /\ n \in Label
      BY <1>2
    <3>2. QED
      BY <2>1, <3>1, NextEdit
  <2>4. QED
    BY <2>2, <2>3
<1>8. /\ Live(u) = R
      /\ \A j \in R : u.index_map[j] = t.index_map[j]
      /\ u.index_map = [j \in R |-> u.index_map[j]]
  BY DEF Live, Removed, Unlinked
<1>9. TreeType(u)
  BY <1>6, <1>8, LiveLeaf DEF TreeInv, TreeType
<1>10. \A j \in R : /\ t.index_map[j] \in 1 .. N /\ t.index_map[j] # q
                    /\ j # low => t.index_map[j] # p
  BY LiveLeaf, SlotsDistinct
<1>11. \A j \in R : /\ LeafOf(u, j).active = LeafOf(t, j).active
                    /\ LeafOf(u, j).label = LeafOf(t, j).label
                    /\ LeafOf(u, j).volume = LeafOf(t, j).volume
                    /\ LeafOf(u, j).next = IF j = low THEN n ELSE LeafOf(t, j).next
  <2> SUFFICES ASSUME NEW j \in R
               PROVE  /\ LeafOf(u, j).active = LeafOf(t, j).active
                      /\ LeafOf(u, j).label = LeafOf(t, j).label
                      /\ LeafOf(u, j).volume = LeafOf(t, j).volume
                      /\ LeafOf(u, j).next = IF j = low THEN n ELSE LeafOf(t, j).next
    OBVIOUS
  <2> DEFINE i == t.index_map[j]
  <2>1. /\ LeafOf(u, j) = u.leaves[i] /\ LeafOf(t, j) = t.leaves[i]
        /\ i \in 1 .. N /\ i # q /\ (j # low => i # p)
    BY <1>8, <1>10 DEF LeafOf
  <2>2. j = low => i = p
    OBVIOUS
  <2> HIDE DEF i, p, q, n, N, R
  <2>3. CASE j = low
    BY <2>1, <2>2, <2>3, <1>7a
  <2>4. CASE j # low
    <3>1. u.leaves[i] = t.leaves[i]
      BY <2>1, <2>4, <1>7
    <3>2. QED
      BY <2>1, <2>4, <3>1
  <2>5. QED
    BY <2>3, <2>4
<1>12. Indexed(u)
  <2>1. \A j \in R : LeafOf(u, j).active /\ LeafOf(u, j).label = j
    BY <1>11, LiveLeaf
  <2>2. ASSUME NEW i \in 1 .. N, u.leaves[i].active
        PROVE  u.leaves[i].label \in R /\ u.index_map[u.leaves[i].label] = i
    <3>1. i # q
      BY <2>2, <1>7a
    <3>2. t.leaves[i].active /\ u.leaves[i].label = t.leaves[i].label
      BY <2>2, <3>1, <1>7, <1>7a
    <3>3. t.leaves[i].label \in Live(t) /\ t.index_map[t.leaves[i].label] = i
      BY <3>2 DEF TreeInv, Indexed
    <3>4. QED
      BY <3>1, <3>2, <3>3, <1>8
  <2>3. QED
    BY <2>1, <2>2, <1>6, <1>8 DEF Indexed
<1>13. SentinelsKept(s, u)
  <2>1. /\ First(s) \in R /\ Last(s) \in R
        /\ t.index_map[First(s)] = 1 /\ t.index_map[Last(s)] = 2
        /\ t.leaves[1].volume = 0 /\ t.leaves[2] = LastLeaf(s)
        /\ 1 \in 1 .. N /\ 2 \in 1 .. N
    BY FirstAndLast DEF TreeInv, SentinelsKept, FirstPos, LastPos
  <2>2. p # 2 /\ q # 1 /\ q # 2
    BY <2>1, <1>10
  <2>3. u.leaves[1].volume = 0
    BY <2>1, <2>2, <1>7, <1>7a
  <2>4. QED
    BY <2>1, <2>2, <2>3, <1>7, <1>8 DEF SentinelsKept, FirstPos, LastPos
<1>14. Linked(s, u)
  <2>1. \A j \in Live(t) : j \in Label
    BY LiveLeaf
  <2>2. /\ \A j \in Live(t) : j = First(s) \/ Before(s, First(s), j)
        /\ \A j \in Live(t) : j = Last(s) \/ Before(s, j, Last(s))
        /\ \A j \in Live(t) \ {Last(s)} : IsNext(s, t, j, LeafOf(t, j).next)
    BY DEF TreeInv, Linked
  <2>3. n # k
    BY <1>1, <1>2, BeforeIrreflexive DEF IsNext
  <2>4. IsNext(s, u, low, n)
    <3>1. Before(s, low, n)
      BY <1>1, <1>2, BeforeTransitive DEF IsNext
    <3>2. ASSUME NEW j \in R, Before(s, low, j) PROVE j = n \/ Before(s, n, j)
      BY <3>2, <1>1 DEF IsNext
    <3>3. QED
      BY <3>1, <3>2, <2>3, <1>2, <1>8 DEF IsNext
  <2>5. ASSUME NEW j \in R, j # low, j # Last(s)
        PROVE  IsNext(s, u, j, LeafOf(t, j).next)
    <3> DEFINE m == LeafOf(t, j).next
    <3>1. IsNext(s, t, j, m) /\ m \in Live(t)
      BY <2>2, <2>5 DEF IsNext
    <3>2. m # k
      <4>1. SUFFICES ASSUME m = k PROVE FALSE
        OBVIOUS
      <4>2. j \in Label /\ Before(s, j, k) /\ Before(s, low, k)
        BY <3>1, <4>1, <1>1, <2>1 DEF IsNext
      <4>3. Before(s, j, low) \/ Before(s, low, j)
        BY <4>2, <2>5, <1>2, BeforeTotal
      <4>4. CASE Before(s, j, low)
        BY <4>4, <4>1, <4>2, <3>1, <1>2, <1>3, BeforeIrreflexive, BeforeTransitive DEF IsNext
      <4>5. CASE Before(s, low, j)
        BY <4>5, <4>2, <1>1, <1>2, BeforeIrreflexive, BeforeTransitive DEF IsNext
      <4>6. QED
        BY <4>3, <4>4, <4>5
    <3>3. QED
      BY <3>1, <3>2, <1>8 DEF IsNext
  <2>6. \A j \in R : j # Last(s) => IsNext(s, u, j, LeafOf(u, j).next)
    BY <2>4, <2>5, <1>11
  <2>7. QED
    BY <1>8, <2>2, <2>6 DEF Linked
<1>15. SlotsKept(t, u)
  <2>1. u.leaves[q].label = t.leaves[q].label
    BY <1>2, <1>7, InactiveEdit
  <2>2. t.leaves[p].active /\ t.leaves[q].active
    BY LiveLeaf
  <2>3. QED
    BY <2>1, <2>2, <1>5, <1>6, <1>7, <1>7a DEF SlotsKept
<1>16. QED
  BY <1>8, <1>9, <1>11, <1>12, <1>13, <1>14, <1>15 DEF TreeInv

LEMMA Unlink ==
  ASSUME NEW s \in Sides, NEW t, TreeInv(s, t),
         NEW k \in Live(t) \ {First(s), Last(s)}, NEW low \in Live(t) \ {Last(s)},
         LeafOf(t, low).next = k, NEW u,
         u.leaves = [t.leaves EXCEPT ![t.index_map[low]] = WithNext(@, LeafOf(t, k).next),
                                     ![t.index_map[k]] = Inactive(@)],
         u.index_map = Removed(t.index_map, k)
  PROVE  /\ TreeInv(s, u)
         /\ Live(u) = Live(t) \ {k}
         /\ \A j \in Live(u) : LeafOf(u, j).volume = LeafOf(t, j).volume
         /\ SlotsKept(t, u)
<1> DEFINE p == t.index_map[low]
           q == t.index_map[k]
           n == LeafOf(t, k).next
<1>1. /\ t.leaves \in Seq(Leaf) /\ p \in 1 .. Len(t.leaves) /\ q \in 1 .. Len(t.leaves)
      /\ n \in Label
      /\ LeafOf(t, low) = t.leaves[p] /\ LeafOf(t, k) = t.leaves[q]
  <2>1. t.leaves \in Seq(Leaf)
    BY DEF TreeInv, TreeType
  <2>2. n \in Label
    BY LiveLeaf DEF Leaf
  <2>3. QED
    BY <2>1, <2>2, LiveLeaf
<1>2. p # q
  <2>1. Before(s, low, k) /\ low \in Label
    BY LiveLeaf DEF TreeInv, Linked, IsNext
  <2>2. QED
    BY <2>1, SlotsDistinct, BeforeIrreflexive
<1> DEFINE v == t.leaves
           w == u.leaves
<1>3. w = [v EXCEPT ![p] = WithNext(@, n), ![q] = Inactive(@)]
  OBVIOUS
<1>4. /\ u.leaves \in Seq(Leaf) /\ Len(u.leaves) = Len(t.leaves)
      /\ \A i \in 1 .. Len(t.leaves) : i # p /\ i # q => u.leaves[i] = t.leaves[i]
      /\ u.leaves[p] = WithNext(t.leaves[p], n)
      /\ u.leaves[q] = Inactive(t.leaves[q])
  <2>1. v \in Seq(Leaf) /\ p \in 1 .. Len(v) /\ q \in 1 .. Len(v) /\ n \in Label
    BY <1>1
  <2> HIDE DEF p, q, n, v, w
  <2>2. /\ w \in Seq(Leaf) /\ Len(w) = Len(v)
        /\ \A i \in 1 .. Len(v) : i # p /\ i # q => w[i] = v[i]
        /\ w[p] = WithNext(v[p], n)
        /\ w[q] = Inactive(v[q])
    BY <2>1, <1>2, <1>3, UnlinkedLeaves
  <2>3. QED
    BY <2>2 DEF v, w
<1>5. /\ u.leaves[p] = WithNext(LeafOf(t, low), n)
      /\ u.leaves[q] = Inactive(LeafOf(t, k))
  BY <1>1, <1>4
<1>6. /\ u.leaves \in Seq(Leaf) /\ Len(u.leaves) = Len(t.leaves)
      /\ \A i \in 1 .. Len(t.leaves) :
           i # t.index_map[low] /\ i # t.index_map[k] => u.leaves[i] = t.leaves[i]
  BY <1>4
<1>7. Unlinked(t, low, k, u)
  BY <1>5, <1>6 DEF Unlinked
<1>8. QED
  BY <1>7, UnlinkKeeps

LEMMA CancelKeeps ==
  ASSUME NEW s \in Sides, NEW t, TreeInv(s, t),
         NEW k \in Live(t) \ {First(s), Last(s)},
         CancelOutcome(s, t, t.index_map[k]) = "ok"
  PROVE  LET u == Cancelled(s, t, t.index_map[k])
         IN  /\ LeafOf(t, Low(s, t, k)).next = k
             /\ TreeInv(s, u)
             /\ Live(u) = Live(t) \ {k}
             /\ \A j \in Live(u) : LeafOf(u, j).volume = LeafOf(t, j).volume
             /\ SlotsKept(t, u)
<1> DEFINE pos == t.index_map[k]
           low == Low(s, t, k)
           n == LeafOf(t, low).next
<1>1. t.leaves[pos].label = k /\ t.leaves[pos] = LeafOf(t, k) /\ k \in Label
  BY LiveLeaf
<1>2. low \in Live(t) /\ IsLow(s, t, low, k)
  BY <1>1 DEF CancelOutcome, HasLow, Low
<1>3. low \in Label /\ Before(s, low, k)
  BY <1>2, LiveLeaf DEF IsLow
<1>4. low # Last(s)
  <2>1. Before(s, k, Last(s))
    BY DEF TreeInv, Linked
  <2>2. QED
    BY <2>1, <1>1, <1>3, BeforeIrreflexive, BeforeTransitive
<1>5. IsNext(s, t, low, n)
  BY <1>2, <1>4 DEF TreeInv, Linked
<1>6. n = k
  <2>1. n \in Live(t) /\ n \in Label /\ Before(s, low, n)
    BY <1>5, LiveLeaf DEF IsNext
  <2>2. n = k \/ Before(s, n, k)
    BY <1>3, <1>5 DEF IsNext
  <2>3. ASSUME Before(s, n, k) PROVE FALSE
    BY <2>1, <2>3, <1>2, <1>3, BeforeIrreflexive, BeforeTransitive DEF IsLow
  <2>4. QED
    BY <2>2, <2>3
<1>7. /\ Cancelled(s, t, pos).leaves = [t.leaves EXCEPT ![t.index_map[low]] = WithNext(@, LeafOf(t, k).next),
                                                        ![t.index_map[k]] = Inactive(@)]
      /\ Cancelled(s, t, pos).index_map = Removed(t.index_map, k)
  BY <1>1 DEF Cancelled
<1>8. QED
  BY <1>2, <1>4, <1>6, <1>7, Unlink

LEMMA MatchKeeps ==
  ASSUME NEW s \in Sides, NEW t, TreeInv(s, t), BestLabel(t) # Last(s)
  PROVE  /\ BestLabel(t) \in Live(t) \ {First(s), Last(s)}
         /\ MatchOutcome(t) = "ok"
         /\ TreeInv(s, Matched(t))
         /\ Live(Matched(t)) = Live(t) \ {BestLabel(t)}
         /\ \A j \in Live(Matched(t)) : LeafOf(Matched(t), j).volume = LeafOf(t, j).volume
         /\ SlotsKept(t, Matched(t))
<1> DEFINE k == BestLabel(t)
           u == Matched(t)
<1>1. IsNext(s, t, First(s), k)
  BY HeadIsNext
<1>2. k \in Live(t) /\ k # First(s)
  BY <1>1, BeforeIrreflexive, SentinelsAreLabels DEF IsNext
<1>3. MatchOutcome(t) = "ok"
  BY <1>2 DEF MatchOutcome
<1>4. /\ First(s) \in Live(t) \ {Last(s)} /\ LeafOf(t, First(s)).next = k
      /\ t.index_map[First(s)] = FirstPos
      /\ t.leaves[t.index_map[k]] = LeafOf(t, k) /\ LeafOf(t, k).label = k
  BY <1>2, FirstAndLast, SentinelsAreLabels, LiveLeaf DEF BestLabel, TreeInv, SentinelsKept
<1>5. /\ Matched(t).leaves = [t.leaves EXCEPT ![t.index_map[First(s)]] = WithNext(@, LeafOf(t, k).next),
                                              ![t.index_map[k]] = Inactive(@)]
      /\ Matched(t).index_map = Removed(t.index_map, k)
  BY <1>4 DEF Matched
<1>6. /\ TreeInv(s, u)
      /\ Live(u) = Live(t) \ {k}
      /\ \A j \in Live(u) : LeafOf(u, j).volume = LeafOf(t, j).volume
      /\ SlotsKept(t, u)
  BY <1>2, <1>4, <1>5, Unlink
<1>7. QED
  BY <1>2, <1>3, <1>6

-----------------------------------------------------------------------------
(* find_low finds a leaf.                                                  *)

(* Of the live labels before a label, one comes last: it has the worst     *)
(* price among them and the latest time at that price.                     *)
LEMMA LowExists ==
  ASSUME NEW s \in Sides, NEW t, TreeInv(s, t), NEW l \in Label, Before(s, First(s), l)
  PROVE  HasLow(s, t, l)
<1> DEFINE C == {k \in Live(t) : Before(s, k, l)}
           Rank(p) == IF s = "Buy" THEN p ELSE MaxU64 - p
           P == {Rank(k.price) : k \in C}
<1>1. /\ \A k \in C : k \in Label /\ k.price \in U64 /\ k.time \in U64
      /\ First(s) \in C
  BY LiveLeaf, FirstAndLast DEF Label
<1>2. \A p \in U64 : Rank(p) \in Nat
  BY MaxU64Assumption DEF U64
<1>3. \A p, q \in U64 : Rank(p) > Rank(q) => BetterPrice(s, p, q)
  BY MaxU64Assumption DEF U64, BetterPrice, Sides
<1>4. \A p, q \in U64 : Rank(p) = Rank(q) => p = q
  BY MaxU64Assumption DEF U64
<1> HIDE DEF Rank
<1>5. P \in SUBSET Nat /\ P # {}
  BY <1>1, <1>2
<1>6. PICK m \in P : \A n \in P : m <= n
  BY <1>5, LeastNatural
<1> DEFINE D == {k \in C : Rank(k.price) = m}
           T == {MaxU64 - k.time : k \in D}
<1>7. \A k \in C : MaxU64 - k.time \in Nat
  BY <1>1, MaxU64Assumption DEF U64
<1>8. T \in SUBSET Nat /\ T # {}
  BY <1>6, <1>7
<1>9. PICK u \in T : \A v \in T : u <= v
  <2> HIDE DEF T
  <2>1. QED
    BY <1>8, LeastNatural
<1>10. PICK k \in D : u = MaxU64 - k.time
  BY <1>9
<1>11. ASSUME NEW j \in C PROVE j = k \/ Before(s, j, k)
  <2>1. /\ j \in Label /\ j.price \in U64 /\ j.time \in U64
        /\ k \in Label /\ k.price \in U64 /\ k.time \in U64
    BY <1>1, <1>10
  <2>2. CASE Rank(j.price) # m
    <3>1. Rank(j.price) \in P /\ Rank(j.price) \in Nat /\ m \in Nat
      BY <1>2, <1>5, <2>1
    <3>2. Rank(j.price) > Rank(k.price)
      BY <3>1, <2>2, <1>6, <1>10
    <3>3. QED
      BY <3>2, <2>1, <1>3 DEF Before
  <2>3. CASE Rank(j.price) = m
    <3>1. j.price = k.price
      BY <2>1, <2>3, <1>4, <1>10
    <3>2. MaxU64 - k.time <= MaxU64 - j.time
      BY <2>3, <1>9, <1>10
    <3>3. j.time <= k.time
      BY <3>2, <2>1, MaxU64Assumption DEF U64
    <3>4. j.time = k.time => j = k
      BY <3>1, <2>1 DEF Label
    <3>5. QED
      BY <3>1, <3>3, <3>4, <2>1, MaxU64Assumption DEF Before, U64
  <2>4. QED
    BY <2>2, <2>3
<1>12. k \in Live(t) /\ IsLow(s, t, k, l)
  BY <1>10, <1>11 DEF IsLow
<1>13. QED
  BY <1>12 DEF HasLow

-----------------------------------------------------------------------------
(* What a client sees: the orders that rest in the tree.                   *)

LEMMA RestingLeaf ==
  ASSUME NEW s \in Sides, NEW t, TreeInv(s, t), NEW k \in Resting(s, t)
  PROVE  /\ k \in Live(t) /\ k # First(s) /\ k # Last(s)
         /\ k \in Label /\ LeafOf(t, k).volume \in U64
BY LiveLeaf DEF Resting, Leaf

LEMMA NewRests ==
  ASSUME NEW s \in Sides
  PROVE  Resting(s, New(s)) = {}
BY DEF Resting, New, Live

(* The label the first leaf points to has priority over every other        *)
(* resting order; it is the last sentinel's only if no order rests.        *)
LEMMA HeadRests ==
  ASSUME NEW s \in Sides, NEW t, TreeInv(s, t)
  PROVE  LET b == BestLabel(t)
         IN  /\ b \in Label
             /\ b = Last(s) \/ b \in Resting(s, t)
             /\ \A j \in Resting(s, t) : b # Last(s) /\ (j = b \/ Before(s, b, j))
<1> DEFINE b == BestLabel(t)
<1>1. /\ b \in Live(t) /\ Before(s, First(s), b)
      /\ \A j \in Live(t) : Before(s, First(s), j) => (j = b \/ Before(s, b, j))
  BY HeadIsNext DEF IsNext
<1>2. b \in Label /\ b # First(s)
  BY <1>1, LiveLeaf, SentinelsAreLabels, BeforeIrreflexive
<1>3. ASSUME NEW j \in Resting(s, t) PROVE b # Last(s) /\ (j = b \/ Before(s, b, j))
  <2>1. j \in Live(t) /\ j \in Label /\ j # First(s) /\ j # Last(s)
    BY <1>3, RestingLeaf
  <2>2. Before(s, First(s), j) /\ Before(s, j, Last(s))
    BY <2>1 DEF TreeInv, Linked
  <2>3. j = b \/ Before(s, b, j)
    BY <1>1, <2>1, <2>2
  <2>4. b # Last(s)
    BY <2>1, <2>2, <2>3, SentinelsAreLabels, BeforeIrreflexive, BeforeTransitive
  <2>5. QED
    BY <2>3, <2>4
<1>4. QED
  BY <1>1, <1>2, <1>3 DEF Resting

(* An order that is inserted queues behind the resting ones of its price.  *)
LEMMA InsertRests ==
  ASSUME NEW s \in Sides, NEW t, TreeInv(s, t), NEW o \in Order,
         InsertOutcome(s, t, o) = "ok"
  PROVE  LET l == o.price_time
         IN  /\ l \notin Resting(s, t)
             /\ Resting(s, Inserted(s, t, o)) = Resting(s, t) \cup {l}
             /\ \A j \in Resting(s, t) : j.price = l.price => j.time < l.time
<1> DEFINE l == o.price_time
           low == Low(s, t, l)
           n == LeafOf(t, low).next
<1>1. l \in Label /\ Live(Inserted(s, t, o)) = Live(t) \cup {l}
  BY InsertKeeps DEF Order
<1>2. /\ low \in Live(t) \ {Last(s)} /\ IsLow(s, t, low, l)
      /\ IsNext(s, t, low, n) /\ l \notin Live(t) /\ Before(s, l, n)
  BY InsertBetween
<1>3. low \in Label /\ n \in Label
  BY <1>2, LiveLeaf DEF IsNext
<1>4. n.price # l.price
  <2>1. LeafOf(t, low).label = low
    BY <1>2, LiveLeaf
  <2>2. InsertAsserts(s, LeafOf(t, low), l)
    BY DEF InsertOutcome
  <2>3. /\ s = "Buy" => n.price < l.price
        /\ s = "Sell" => l.price < n.price
    BY <2>1, <2>2 DEF InsertAsserts, InsertCompares, Holds, Sides
  <2>4. n.price \in Int /\ l.price \in Int
    BY <1>1, <1>3, MaxU64Assumption DEF Label, U64
  <2>5. QED
    BY <2>3, <2>4 DEF Sides
<1>5. ASSUME NEW j \in Resting(s, t), j.price = l.price PROVE j.time < l.time
  <2>1. j \in Label /\ j \in Live(t)
    BY RestingLeaf
  <2>2. /\ j.price \in Int /\ l.price \in Int /\ n.price \in Int
        /\ j.time \in Int /\ l.time \in Int /\ n.time \in Int
    BY <1>1, <1>3, <2>1, MaxU64Assumption DEF Label, U64
  <2>3. CASE Before(s, j, l)
    BY <2>2, <2>3, <1>5 DEF Before, BetterPrice
  <2>4. CASE Before(s, l, j)
    <3>1. Before(s, low, j)
      BY <2>1, <2>4, <1>1, <1>2, <1>3, BeforeTransitive DEF IsLow
    <3>2. j = n \/ Before(s, n, j)
      BY <3>1, <2>1, <1>2 DEF IsNext
    <3>3. BetterPrice(s, l.price, n.price)
      BY <1>2, <1>4 DEF Before
    <3>4. QED
      BY <3>2, <3>3, <2>2, <1>4, <1>5 DEF Before, BetterPrice, Sides
  <2>5. j # l
    BY <1>2, <2>1
  <2>6. QED
    BY <2>1, <2>3, <2>4, <2>5, <1>1, BeforeTotal
<1>6. l \notin {First(s), Last(s)}
  BY <1>2, FirstAndLast
<1>7. QED
  BY <1>1, <1>2, <1>5, <1>6 DEF Resting

=============================================================================
