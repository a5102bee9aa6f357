-------------------------- MODULE OrderBookProofs ---------------------------
(***************************************************************************)
(* Theorems about the order book, for every width of the integers, every   *)
(* set of prices, times and volumes and every number of leaves.            *)
(***************************************************************************)
EXTENDS OrderBook, IMTreeProofs

-----------------------------------------------------------------------------
(* The inductive invariant                                                 *)

Orders(s)      == Resting(s, book[s])
VolumeOf(s, k) == LeafOf(book[s], k).volume

Running == call.pc \in {"match", "aggressor", "passive"}

StateShape == DOMAIN state.root = Sides

(* What rests is priced between the sentinels and not filled.              *)
OrdersAreLimits ==
  \A s \in Sides : \A k \in Orders(s) : 0 < k.price /\ k.price < MaxU64 /\ VolumeOf(s, k) > 0

(* Only the order being matched may accept a price of the other side.      *)
RestUncrossed ==
  \A k \in Orders(call.side), j \in Orders(Opposite(call.side)) :
    Accepts(call.side, k.price, j.price) => Running /\ k = call.order.price_time

(* The order being matched was valid; a trade is at a price it accepts and *)
(* takes the smaller volume; an order that is filled has left its tree.    *)
CallSound ==
  /\ Running =>
       /\ 0 < call.order.price_time.price /\ call.order.price_time.price < MaxU64
       /\ call.result = "ok"
  /\ call.pc \in {"aggressor", "passive"} => call.order.volume = 0 \/ call.leaf.volume = 0
  /\ call.pc = "aggressor" =>
       Accepts(call.side, call.order.price_time.price, call.leaf.label.price)
  /\ call.pc = "passive" /\ call.order.volume = 0 =>
       call.order.price_time \notin Live(book[call.side])

BookInv ==
  /\ TypeOK /\ StateShape /\ TreesHold /\ StateAgrees
  /\ OrdersAreLimits /\ RestUncrossed /\ LocalsAgree /\ CallSound

-----------------------------------------------------------------------------
(* Sides and prices                                                        *)

LEMMA OppositeSide ==
  ASSUME NEW s \in Sides
  PROVE  /\ Opposite(s) \in Sides /\ Opposite(s) # s /\ Opposite(Opposite(s)) = s
         /\ \A r \in Sides : r = s \/ r = Opposite(s)
BY DEF Opposite, Sides

LEMMA AcceptsSymmetric ==
  ASSUME NEW s \in Sides, NEW p \in U64, NEW q \in U64
  PROVE  Accepts(s, p, q) <=> Accepts(Opposite(s), q, p)
BY MaxU64Assumption DEF Accepts, Opposite, Sides, U64

(* No price between the sentinels' accepts the price of the other side's   *)
(* last sentinel: an empty side trades with nobody.                        *)
LEMMA SentinelPriceRefused ==
  ASSUME NEW s \in Sides, NEW p \in U64, 0 < p, p < MaxU64
  PROVE  ~ Accepts(s, p, Last(Opposite(s)).price)
BY MaxU64Assumption DEF Accepts, Opposite, Sides, U64, Last, Default

(* Whoever accepts a price accepts what a worse-priced order of its own    *)
(* side accepts.                                                           *)
LEMMA BetterAccepts ==
  ASSUME NEW s \in Sides, NEW k \in Label, NEW j \in Label, NEW q \in U64,
         Accepts(s, j.price, q), ~ Accepts(s, k.price, q)
  PROVE  Before(s, j, k)
BY MaxU64Assumption DEF Accepts, Before, BetterPrice, Sides, U64, Label

(* If the best order of the other side is refused, all of them are.        *)
LEMMA BestRefused ==
  ASSUME NEW s \in Sides, NEW p \in U64, NEW b \in Label, NEW j \in Label,
         j = b \/ Before(Opposite(s), b, j), ~ Accepts(s, p, b.price)
  PROVE  ~ Accepts(s, p, j.price)
BY MaxU64Assumption DEF Accepts, Before, BetterPrice, Opposite, Sides, U64, Label

-----------------------------------------------------------------------------
(* When insert accepts an order                                            *)

(* The only orders a label not yet live queues next to are its predecessor *)
(* and the next label after that one, unless they are sentinels, and those *)
(* are the leaves whose times insert asserts.                              *)
LEMMA NeighboursOf ==
  ASSUME NEW s \in Sides, NEW t, TreeInv(s, t), NEW l \in Label, NEW low \in Live(t),
         IsLow(s, t, low, l), Before(s, l, Last(s)), NEW n, IsNext(s, t, low, n)
  PROVE  /\ n # l => \A k \in Resting(s, t) : NextTo(s, t, k, l) => k = low \/ k = n
         /\ low \in Resting(s, t) => NextTo(s, t, low, l)
         /\ n \in Resting(s, t) => NextTo(s, t, n, l)
         /\ n = l \/ Before(s, l, n)
<1>1. \A k \in Live(t) : k \in Label
  BY LiveLeaf
<1>2. /\ low \in Label /\ n \in Live(t) /\ n \in Label
      /\ Before(s, low, l) /\ Before(s, low, n)
  BY <1>1 DEF IsLow, IsNext
<1>3. /\ \A j \in Live(t) : Before(s, j, l) => j = low \/ Before(s, j, low)
      /\ \A j \in Live(t) : Before(s, low, j) => j = n \/ Before(s, n, j)
  BY DEF IsLow, IsNext
<1>4. ~ Before(s, n, l)
  BY <1>2, <1>3, BeforeIrreflexive, BeforeTransitive
<1>5. n = l \/ Before(s, l, n)
  BY <1>2, <1>4, BeforeTotal
<1>6. /\ \A j \in Resting(s, t) : j \in Live(t) /\ j \in Label /\ j # First(s) /\ j # Last(s)
      /\ First(s) \in Label /\ Last(s) \in Label
      /\ \A j \in Live(t) : j = First(s) \/ Before(s, First(s), j)
      /\ \A j \in Live(t) : j = Last(s) \/ Before(s, j, Last(s))
  BY <1>1, SentinelsAreLabels DEF Resting, TreeInv, Linked
<1>7. ASSUME NEW k \in Resting(s, t), NextTo(s, t, k, l), k # low, k # n, n # l PROVE FALSE
  <2>1. k \in Live(t) /\ k \in Label
    BY <1>6
  <2>2. CASE Before(s, k, l)
    <3>1. Before(s, k, low)
      BY <2>1, <2>2, <1>3, <1>7
    <3>2. low # First(s)
      <4>1. k # First(s) /\ Before(s, First(s), k)
        BY <2>1, <1>6
      <4>2. ~ Before(s, First(s), First(s))
        BY <1>6, BeforeIrreflexive
      <4>3. ~ Before(s, k, First(s))
        BY <4>1, <4>2, <2>1, <1>6, BeforeTransitive
      <4>4. QED
        BY <3>1, <4>3
    <3>3. low # Last(s)
      BY <1>2, <1>6, BeforeIrreflexive, BeforeTransitive
    <3>4. low \in Resting(s, t)
      BY <3>2, <3>3 DEF Resting
    <3>5. QED
      BY <3>1, <3>4, <1>2, <1>7 DEF NextTo
  <2>3. CASE k = l \/ Before(s, l, k)
    <3>1. Before(s, low, k)
      BY <2>1, <2>3, <1>2, BeforeTransitive
    <3>2. Before(s, n, k)
      BY <3>1, <2>1, <1>3, <1>7
    <3>3. Before(s, l, n)
      BY <1>5, <1>7
    <3>4. n # First(s)
      BY <1>2, <1>6, BeforeIrreflexive, BeforeTransitive
    <3>5. n # Last(s)
      BY <3>2, <2>1, <1>6, BeforeIrreflexive, BeforeTransitive
    <3>6. n \in Resting(s, t)
      BY <3>4, <3>5, <1>2 DEF Resting
    <3>7. QED
      BY <3>2, <3>3, <3>6, <1>7 DEF NextTo
  <2>4. QED
    BY <2>1, <2>2, <2>3, BeforeTotal
<1>8. NextTo(s, t, low, l)
  <2>1. ASSUME NEW j \in Resting(s, t), Before(s, low, j), Before(s, j, l) PROVE FALSE
    BY <2>1, <1>2, <1>3, <1>6, BeforeIrreflexive, BeforeTransitive
  <2>2. ASSUME NEW j \in Resting(s, t), Before(s, l, j), Before(s, j, low) PROVE FALSE
    BY <2>2, <1>2, <1>6, BeforeIrreflexive, BeforeTransitive
  <2>3. QED
    BY <2>1, <2>2 DEF NextTo
<1>9. NextTo(s, t, n, l)
  <2>1. ASSUME NEW j \in Resting(s, t), Before(s, n, j), Before(s, j, l) PROVE FALSE
    BY <2>1, <1>2, <1>4, <1>6, BeforeTransitive
  <2>2. ASSUME NEW j \in Resting(s, t), Before(s, l, j), Before(s, j, n) PROVE FALSE
    <3>1. Before(s, low, j)
      BY <2>2, <1>2, <1>6, BeforeTransitive
    <3>2. j = n \/ Before(s, n, j)
      BY <3>1, <1>3, <1>6
    <3>3. QED
      BY <3>2, <2>2, <1>2, <1>6, BeforeIrreflexive, BeforeTransitive
  <2>3. QED
    BY <2>1, <2>2 DEF NextTo
<1>10. QED
  BY <1>5, <1>7, <1>8, <1>9

(* insert accepts a label priced between the sentinels just when its time  *)
(* is later than that of the orders it would queue next to, and panics     *)
(* else.                                                                   *)
LEMMA InsertDecides ==
  ASSUME NEW s \in Sides, NEW t, TreeInv(s, t), NEW o \in Order,
         0 < o.price_time.price, o.price_time.price < MaxU64, 0 < o.price_time.time
  PROVE  InsertOutcome(s, t, o) =
           IF \A k \in Resting(s, t) : NextTo(s, t, k, o.price_time) => k.time < o.price_time.time
           THEN "ok" ELSE "panic"
<1> DEFINE l == o.price_time
           low == Low(s, t, l)
           n == LeafOf(t, low).next
<1>1. /\ l \in Label /\ l.price \in Int /\ l.time \in Int
  BY MaxU64Assumption DEF Order, Label, U64
<1>2. Before(s, First(s), l) /\ Before(s, l, Last(s))
  BY <1>1, MaxU64Assumption DEF Before, BetterPrice, First, Last, Default, Sides
<1>3. HasLow(s, t, l)
  BY <1>1, <1>2, LowExists
<1>4. low \in Live(t) /\ IsLow(s, t, low, l)
  BY <1>3 DEF HasLow, Low
<1>5. InsertOutcome(s, t, o) = IF InsertAsserts(s, LeafOf(t, low), l) THEN "ok" ELSE "panic"
  BY <1>3 DEF InsertOutcome
<1>6. LeafOf(t, low).label = low /\ low \in Label /\ Before(s, low, l)
  BY <1>4, LiveLeaf DEF IsLow
<1>7. low # Last(s)
  BY <1>1, <1>2, <1>6, BeforeIrreflexive, BeforeTransitive
<1>8. IsNext(s, t, low, n) /\ n \in Label /\ n \in Live(t)
  BY <1>4, <1>7, LiveLeaf DEF TreeInv, Linked, IsNext
<1>9. /\ low.price \in Int /\ low.time \in Int /\ n.price \in Int /\ n.time \in Int
      /\ First(s).time = 0 /\ Last(s).time = 0
  BY <1>6, <1>8, MaxU64Assumption DEF Label, U64, First, Last, Default
<1> HIDE DEF low, n
<1>10. /\ n # l => \A k \in Resting(s, t) : NextTo(s, t, k, l) => k = low \/ k = n
       /\ low \in Resting(s, t) => NextTo(s, t, low, l)
       /\ n \in Resting(s, t) => NextTo(s, t, n, l)
       /\ n = l \/ Before(s, l, n)
  BY <1>1, <1>2, <1>4, <1>8, NeighboursOf
<1>11. InsertAsserts(s, LeafOf(t, low), l) <=> low.time < l.time /\ n.time < l.time
  <2>1. LeafOf(t, low).label = low /\ LeafOf(t, low).next = n
    BY <1>6 DEF n
  <2>2. InsertAsserts(s, LeafOf(t, low), l) => low.time < l.time /\ n.time < l.time
    BY <2>1 DEF InsertAsserts, InsertCompares, Holds
  <2>3. ASSUME low.time < l.time, n.time < l.time PROVE InsertAsserts(s, LeafOf(t, low), l)
    <3>1. BetterPrice(s, l.price, n.price)
      BY <2>3, <1>10, <1>1, <1>9 DEF Before
    <3>2. low.price = l.price \/ BetterPrice(s, low.price, l.price)
      BY <1>6 DEF Before
    <3>3. QED
      BY <3>1, <3>2, <2>1, <2>3, <1>1, <1>9
      DEF InsertAsserts, InsertCompares, Holds, BetterPrice, Sides
  <2>4. QED
    BY <2>2, <2>3
<1>12. /\ low \in Resting(s, t) \/ low.time = 0
       /\ n \in Resting(s, t) \/ n.time = 0
  BY <1>4, <1>8, <1>9 DEF Resting
<1>13. InsertAsserts(s, LeafOf(t, low), l)
         <=> \A k \in Resting(s, t) : NextTo(s, t, k, l) => k.time < l.time
  BY <1>1, <1>9, <1>10, <1>11, <1>12
<1>14. QED
  BY <1>5, <1>13

-----------------------------------------------------------------------------
(* Trees that trade                                                        *)

(* The tree of a side after v units of its best order were filled, which   *)
(* left it `rest`.                                                         *)
FilledTree(t, v, rest) == IF rest = 0 THEN Matched(t) ELSE PartiallyMatched(t, v)

FillOutcome(t, v, rest) == IF rest = 0 THEN MatchOutcome(t) ELSE PartialOutcome(t, v)

(* A fill that leaves the best order its remaining volume succeeds, takes  *)
(* the order off the book when nothing remains, and else leaves it first.  *)
LEMMA FillTree ==
  ASSUME NEW s \in Sides, NEW t, TreeInv(s, t), NEW v \in U64 \ {0}, NEW rest \in U64,
         BestLabel(t) \in Resting(s, t), LeafOf(t, BestLabel(t)).volume = rest + v
  PROVE  LET b == BestLabel(t)
             u == FilledTree(t, v, rest)
         IN  /\ FillOutcome(t, v, rest) = "ok"
             /\ TreeInv(s, u)
             /\ Resting(s, u) = IF rest = 0 THEN Resting(s, t) \ {b} ELSE Resting(s, t)
             /\ rest > 0 => LeafOf(u, b).volume = rest /\ BestLabel(u) = b
             /\ \A j \in Resting(s, t) \ {b} : LeafOf(u, j).volume = LeafOf(t, j).volume
<1> DEFINE b == BestLabel(t)
           u == FilledTree(t, v, rest)
<1>1. b \in Live(t) /\ b # First(s) /\ b # Last(s) /\ b \in Label
  BY RestingLeaf
<1>2. v \in Int /\ rest \in Int /\ v > 0 /\ rest >= 0
  BY MaxU64Assumption DEF U64
<1>3. CASE rest = 0
  <2>1. u = Matched(t) /\ FillOutcome(t, v, rest) = MatchOutcome(t)
    BY <1>3 DEF FilledTree, FillOutcome
  <2>2. /\ MatchOutcome(t) = "ok" /\ TreeInv(s, Matched(t))
        /\ Live(Matched(t)) = Live(t) \ {b}
        /\ \A j \in Live(Matched(t)) : LeafOf(Matched(t), j).volume = LeafOf(t, j).volume
    BY <1>1, MatchKeeps
  <2>3. QED
    BY <2>1, <2>2, <1>3 DEF Resting
<1>4. CASE rest > 0
  <2>1. u = PartiallyMatched(t, v) /\ FillOutcome(t, v, rest) = PartialOutcome(t, v)
    BY <1>4 DEF FilledTree, FillOutcome
  <2>2. PartialOutcome(t, v) = "ok"
    BY <1>1, <1>2, <1>4 DEF PartialOutcome
  <2>3. /\ TreeInv(s, PartiallyMatched(t, v))
        /\ Live(PartiallyMatched(t, v)) = Live(t)
        /\ LeafOf(PartiallyMatched(t, v), b).volume = LeafOf(t, b).volume - v
        /\ \A j \in Live(t) \ {b} : LeafOf(PartiallyMatched(t, v), j).volume = LeafOf(t, j).volume
    BY <2>2, PartialKeeps
  <2>4. /\ TreeInv(s, u) /\ Resting(s, u) = Resting(s, t)
        /\ LeafOf(u, b).volume = rest
        /\ \A j \in Resting(s, t) \ {b} : LeafOf(u, j).volume = LeafOf(t, j).volume
    BY <2>1, <2>3, <1>2 DEF Resting
  <2> HIDE DEF u
  <2>5. BestLabel(u) = b
    <3> DEFINE c == BestLabel(u)
    <3>1. \A j \in Resting(s, t) : j = b \/ Before(s, b, j)
      BY HeadRests
    <3>2. /\ c \in Label
          /\ c = Last(s) \/ c \in Resting(s, u)
          /\ \A j \in Resting(s, u) : c # Last(s) /\ (j = c \/ Before(s, c, j))
      BY <2>4, HeadRests
    <3>3. c \in Resting(s, t) /\ (b = c \/ Before(s, c, b))
      BY <3>2, <2>4
    <3>4. QED
      BY <3>1, <3>2, <3>3, <1>1, BeforeIrreflexive, BeforeTransitive
  <2>6. QED
    BY <2>1, <2>2, <2>4, <2>5, <1>4 DEF u
<1>5. QED
  BY <1>2, <1>3, <1>4

-----------------------------------------------------------------------------
(* The state follows the tree an instruction changed.                      *)

LEMMA StateFollows ==
  ASSUME BookInv, NEW s \in Sides, NEW op \in Operations, NEW t, TreeInv(s, t),
         book' = [book EXCEPT ![s] = t], state' = NextState(book'[s], state, s, op)
  PROVE  /\ DOMAIN book' = Sides /\ book'[s] = t
         /\ book'[Opposite(s)] = book[Opposite(s)]
         /\ TreesHold' /\ StateShape' /\ StateAgrees'
         /\ state'.n \in 0 .. FieldOrder - 1 /\ state'.best \in [Sides -> U64]
         /\ state'.op \in OpCodes
<1>1. /\ DOMAIN book = Sides /\ state.n \in 0 .. FieldOrder - 1
      /\ state.best \in [Sides -> U64] /\ DOMAIN state.root = Sides
      /\ \A r \in Sides : TreeInv(r, book[r])
      /\ \A r \in Sides : state.root[r] = Root(book[r]) /\ state.best[r] = BestPrice(book[r])
  BY DEF BookInv, TypeOK, StateShape, TreesHold, StateAgrees
<1>2. /\ DOMAIN book' = Sides /\ book'[s] = t
      /\ \A r \in Sides : r # s => book'[r] = book[r]
  BY <1>1
<1>3. book'[Opposite(s)] = book[Opposite(s)]
  BY <1>2, OppositeSide
<1>4. TreesHold'
  BY <1>1, <1>2 DEF TreesHold
<1>5. state' = [n    |-> (state.n + 1) % FieldOrder,
                root |-> [state.root EXCEPT ![s] = Root(t)],
                best |-> [state.best EXCEPT ![s] = BestPrice(t)],
                op   |-> OpCode(s, op)]
  BY <1>2 DEF NextState
<1>6. StateShape'
  BY <1>1, <1>5 DEF StateShape
<1>7. BestPrice(t) \in U64
  BY HeadRests DEF BestPrice, Label
<1>8. state'.best \in [Sides -> U64]
  BY <1>1, <1>5, <1>7
<1>9. (state.n + 1) % FieldOrder \in 0 .. FieldOrder - 1
  BY <1>1, FieldOrderAssumption
<1>10. StateAgrees'
  <2>1. ASSUME NEW r \in Sides
        PROVE  state'.root[r] = Root(book'[r]) /\ state'.best[r] = BestPrice(book'[r])
    BY <1>1, <1>2, <1>5
  <2>2. QED
    BY <2>1 DEF StateAgrees
<1>11. QED
  BY <1>2, <1>3, <1>4, <1>5, <1>6, <1>8, <1>9, <1>10 DEF OpCodes

-----------------------------------------------------------------------------
(* Reading the invariant                                                   *)

CallTypes == [pc : {"idle", "match", "aggressor", "passive", "panic"}, side : Sides, order : Order,
              volume : U64, leaf : [label : Label, volume : U64],
              result : Failures \cup {"ok"}]

LEMMA CallTyped ==
  ASSUME BookInv
  PROVE  /\ call \in CallTypes
         /\ call.side \in Sides /\ Opposite(call.side) \in Sides
         /\ call.order \in Order /\ call.order.price_time \in Label
         /\ call.order.volume \in U64 /\ call.volume \in U64
         /\ call.leaf.label \in Label /\ call.leaf.volume \in U64
BY OppositeSide DEF BookInv, TypeOK, CallTypes, Order

LEMMA NoLeafTyped == NoLeaf \in [label : Label, volume : U64] /\ 0 \in U64
BY SentinelsAreLabels, MaxU64Assumption DEF NoLeaf, Default, Label, U64

LEMMA TreeOf ==
  ASSUME BookInv, NEW s \in Sides
  PROVE  TreeInv(s, book[s])
BY DEF BookInv, TreesHold

LEMMA OrderOf ==
  ASSUME BookInv, NEW s \in Sides, NEW k \in Orders(s)
  PROVE  /\ k \in Label /\ k.price \in U64 /\ k \in Live(book[s])
         /\ 0 < k.price /\ k.price < MaxU64
         /\ VolumeOf(s, k) \in U64 /\ VolumeOf(s, k) > 0
BY TreeOf, RestingLeaf DEF Orders, VolumeOf, Label, BookInv, OrdersAreLimits

(* A live label that holds volume is that of an order.                     *)
LEMMA OrderHoldsVolume ==
  ASSUME BookInv, NEW s \in Sides, BestLabel(book[s]) \in Live(book[s]),
         LeafOf(book[s], BestLabel(book[s])).volume # 0
  PROVE  BestLabel(book[s]) \in Orders(s)
<1>1. LeafOf(book[s], Last(s)).volume = 0
  BY TreeOf, FirstAndLast DEF LastLeaf
<1>2. QED
  BY <1>1, TreeOf, HeadRests DEF Orders

(* When no call is running nothing on the book can trade.                  *)
LEMMA IdleUncrossed ==
  ASSUME BookInv, ~ Running, NEW s \in Sides,
         NEW k \in Orders(s), NEW j \in Orders(Opposite(s))
  PROVE  ~ Accepts(s, k.price, j.price)
<1>1. k.price \in U64 /\ j.price \in U64 /\ call.side \in Sides
  BY OppositeSide, OrderOf, CallTyped
<1>2. CASE s = call.side
  BY <1>2 DEF BookInv, RestUncrossed
<1>3. CASE s = Opposite(call.side)
  BY <1>1, <1>3, OppositeSide, AcceptsSymmetric DEF BookInv, RestUncrossed
<1>4. QED
  BY <1>1, <1>2, <1>3, OppositeSide

LEMMA UncrossedOrders ==
  ASSUME BookInv, ~ Running
  PROVE  BestPrice(book["Buy"]) < BestPrice(book["Sell"])
<1> DEFINE b == BestLabel(book["Buy"])
           a == BestLabel(book["Sell"])
<1>1. "Buy" \in Sides /\ "Sell" \in Sides /\ Opposite("Buy") = "Sell"
  BY DEF Sides, Opposite
<1>2. /\ b = Last("Buy") \/ b \in Orders("Buy")
      /\ a = Last("Sell") \/ a \in Orders("Sell")
  BY <1>1, TreeOf, HeadRests DEF Orders
<1>3. Last("Buy").price = 0 /\ Last("Sell").price = MaxU64
  BY DEF Last, Default
<1>4. /\ b \in Orders("Buy") => b.price \in Int /\ 0 < b.price /\ b.price < MaxU64
      /\ a \in Orders("Sell") => a.price \in Int /\ 0 < a.price /\ a.price < MaxU64
  BY <1>1, OrderOf, MaxU64Assumption DEF U64
<1>5. b \in Orders("Buy") /\ a \in Orders("Sell") => ~ (b.price >= a.price)
  BY <1>1, IdleUncrossed DEF Accepts
<1> HIDE DEF a, b
<1>6. b.price < a.price
  BY <1>2, <1>3, <1>4, <1>5, MaxU64Assumption
<1>7. QED
  BY <1>6 DEF BestPrice, a, b

-----------------------------------------------------------------------------
(* PlaceOrder                                                              *)

LEMMA PlaceFails ==
  ASSUME BookInv, NEW s \in Sides, NEW o \in Order, o.price_time.price < MaxU64,
         call.pc = "idle", PlaceOutcome(s, o) # "ok", UNCHANGED <<book, state>>,
         call' = [Idle(PlaceOutcome(s, o)) EXCEPT
                    !.pc = IF PlaceOutcome(s, o) = "panic" THEN "panic" ELSE "idle",
                    !.side = s, !.order = o]
  PROVE  BookInv'
<1>1. PlaceOutcome(s, o) \in Failures
  BY DEF PlaceOutcome, InsertOutcome, Failures
<1>2. /\ call'.pc \in {"idle", "panic"} /\ call'.side = s /\ call'.order = o
      /\ call'.result = PlaceOutcome(s, o)
      /\ call'.volume = 0 /\ call'.leaf = NoLeaf
      /\ call' = [pc |-> call'.pc, side |-> s, order |-> o, volume |-> 0, leaf |-> NoLeaf,
                  result |-> PlaceOutcome(s, o)]
  BY DEF Idle
<1>3. call' \in CallTypes
  <2>1. \A pc \in {"idle", "panic"}, result \in Failures :
          [pc |-> pc, side |-> s, order |-> o, volume |-> 0, leaf |-> NoLeaf, result |-> result]
            \in CallTypes
    BY NoLeafTyped DEF CallTypes
  <2>2. QED
    BY <2>1, <1>1, <1>2
<1>4. TypeOK' /\ StateShape' /\ TreesHold' /\ StateAgrees' /\ OrdersAreLimits'
  BY <1>3 DEF BookInv, TypeOK, CallTypes, StateShape, TreesHold, StateAgrees, OrdersAreLimits,
              Orders, VolumeOf
<1>5. RestUncrossed'
  <2>1. ~ Running
    BY DEF Running
  <2>2. \A k \in Orders(s), j \in Orders(Opposite(s)) : ~ Accepts(s, k.price, j.price)
    BY <2>1, IdleUncrossed
  <2>3. QED
    BY <1>2, <2>2 DEF RestUncrossed, Orders
<1>6. LocalsAgree' /\ CallSound'
  BY <1>2 DEF LocalsAgree, CallSound, Running
<1>7. QED
  BY <1>4, <1>5, <1>6 DEF BookInv

LEMMA PlaceSucceeds ==
  ASSUME BookInv, NEW s \in Sides, NEW o \in Order, o.price_time.price < MaxU64,
         call.pc = "idle", PlaceOutcome(s, o) = "ok",
         book' = [book EXCEPT ![s] = Inserted(s, @, o)],
         state' = NextState(book'[s], state, s, "Insertion"),
         call' = [Idle("ok") EXCEPT !.pc = "match", !.side = s, !.order = o]
  PROVE  BookInv'
<1> DEFINE t == book[s]
           u == Inserted(s, t, o)
           l == o.price_time
<1>1. ~ IsInvalid(o) /\ InsertOutcome(s, t, o) = "ok"
  BY DEF PlaceOutcome
<1>2. 0 < l.price /\ o.volume > 0 /\ o.volume \in U64 /\ l \in Label
  BY <1>1, MaxU64Assumption DEF IsInvalid, Order, Label, U64
<1>3. TreeInv(s, t) /\ DOMAIN book = Sides
  BY TreeOf DEF BookInv, TypeOK
<1>4. /\ TreeInv(s, u) /\ Live(u) = Live(t) \cup {l} /\ LeafOf(u, l).volume = o.volume
      /\ \A k \in Live(t) : LeafOf(u, k).volume = LeafOf(t, k).volume
      /\ Resting(s, u) = Resting(s, t) \cup {l}
  BY <1>1, <1>3, InsertKeeps, InsertRests
<1>5. book' = [book EXCEPT ![s] = u] /\ "Insertion" \in Operations
  BY <1>3 DEF Operations
<1> HIDE DEF u
<1>6. /\ DOMAIN book' = Sides /\ book'[s] = u
      /\ book'[Opposite(s)] = book[Opposite(s)]
      /\ TreesHold' /\ StateShape' /\ StateAgrees'
      /\ state'.n \in 0 .. FieldOrder - 1 /\ state'.best \in [Sides -> U64]
      /\ state'.op \in OpCodes
  BY <1>4, <1>5, StateFollows
<1>7. /\ call' = [pc |-> "match", side |-> s, order |-> o, volume |-> 0, leaf |-> NoLeaf,
                  result |-> "ok"]
      /\ call'.pc = "match" /\ call'.order = o /\ call'.side = s /\ call'.result = "ok"
  BY DEF Idle
<1>8. call' \in CallTypes
  BY <1>7, NoLeafTyped DEF CallTypes
<1>9. TypeOK'
  BY <1>6, <1>8 DEF TypeOK, CallTypes, TreesHold, TreeInv
<1>10. OrdersAreLimits'
  <2>1. ASSUME NEW k \in Resting(s, u)
        PROVE  0 < k.price /\ k.price < MaxU64 /\ LeafOf(u, k).volume > 0
    <3>1. CASE k = l
      BY <3>1, <1>2, <1>4
    <3>2. CASE k \in Resting(s, t)
      BY <3>2, <1>4, OrderOf DEF Orders, VolumeOf
    <3>3. QED
      BY <3>1, <3>2, <1>4
  <2>2. ASSUME NEW k \in Resting(Opposite(s), book[Opposite(s)])
        PROVE  0 < k.price /\ k.price < MaxU64 /\ LeafOf(book[Opposite(s)], k).volume > 0
    BY OppositeSide, OrderOf DEF Orders, VolumeOf
  <2>3. QED
    BY <2>1, <2>2, <1>6, OppositeSide DEF OrdersAreLimits, Orders, VolumeOf
<1>11. RestUncrossed'
  <2>1. ~ Running
    BY DEF Running
  <2>2. \A k \in Resting(s, t), j \in Resting(Opposite(s), book[Opposite(s)]) :
          ~ Accepts(s, k.price, j.price)
    BY <2>1, IdleUncrossed DEF Orders
  <2>3. QED
    BY <2>2, <1>4, <1>6, <1>7 DEF RestUncrossed, Orders, Running
<1>12. LocalsAgree'
  BY <1>2, <1>4, <1>6, <1>7 DEF LocalsAgree
<1>13. CallSound'
  BY <1>2, <1>7 DEF CallSound, Running
<1>14. QED
  BY <1>6, <1>9, <1>10, <1>11, <1>12, <1>13 DEF BookInv

-----------------------------------------------------------------------------
(* The matching loop                                                       *)

(* The loop ends only when the order is filled or the best price of the    *)
(* other side is refused, and with it every other.                         *)
LEMMA FinishKeeps ==
  ASSUME BookInv, Finish
  PROVE  BookInv'
<1> DEFINE s == call.side
           r == Opposite(s)
           o == call.order
           b == BestLabel(book[r])
<1>1. /\ s \in Sides /\ r \in Sides /\ o.price_time \in Label /\ o.volume \in U64
      /\ o.price_time.price \in U64
  BY CallTyped DEF Label
<1>2. ASSUME NEW k \in Orders(s), NEW j \in Orders(r) PROVE ~ Accepts(s, k.price, j.price)
  <2>1. SUFFICES ASSUME k = o.price_time PROVE ~ Accepts(s, k.price, j.price)
    BY DEF BookInv, RestUncrossed
  <2>2. k \in Live(book[s]) /\ k.price \in U64 /\ j \in Label
    BY <1>1, OrderOf
  <2>3. o.volume > 0
    BY <1>1, <2>1, <2>2, MaxU64Assumption DEF Finish, BookInv, LocalsAgree, U64
  <2>4. ~ Accepts(s, k.price, b.price)
    BY <2>1, <2>3 DEF Finish, Crosses, BestPrice
  <2>5. b \in Label /\ (j = b \/ Before(r, b, j))
    BY <1>1, TreeOf, HeadRests DEF Orders
  <2>6. QED
    BY <2>2, <2>4, <2>5, <1>1, BestRefused
<1>3. /\ call' = [pc |-> "idle", side |-> "Buy", order |-> NoOrder, volume |-> 0, leaf |-> NoLeaf,
                  result |-> "ok"]
      /\ UNCHANGED <<book, state>>
  BY DEF Finish, Idle
<1>4. call' \in CallTypes
  BY <1>3, NoLeafTyped, SentinelsAreLabels DEF CallTypes, NoOrder, Order, Sides
<1>5. TypeOK' /\ StateShape' /\ TreesHold' /\ StateAgrees' /\ OrdersAreLimits'
  BY <1>3, <1>4 DEF BookInv, TypeOK, CallTypes, StateShape, TreesHold, StateAgrees,
                    OrdersAreLimits, Orders, VolumeOf
<1>6. \A k \in Orders("Buy"), j \in Orders("Sell") : ~ Accepts("Buy", k.price, j.price)
  <2>1. "Buy" \in Sides /\ "Sell" \in Sides /\ Opposite("Buy") = "Sell" /\ Opposite("Sell") = "Buy"
    BY DEF Sides, Opposite
  <2>2. CASE s = "Buy"
    BY <1>2, <2>1, <2>2
  <2>3. CASE s = "Sell"
    BY <1>2, <2>1, <2>3, OrderOf, AcceptsSymmetric
  <2>4. QED
    BY <2>2, <2>3, <1>1 DEF Sides
<1>7. RestUncrossed'
  BY <1>3, <1>6 DEF RestUncrossed, Orders, Opposite
<1>8. LocalsAgree' /\ CallSound'
  BY <1>3 DEF LocalsAgree, CallSound, Running
<1>9. QED
  BY <1>5, <1>7, <1>8 DEF BookInv

(* The order being matched is the only one of its side that accepts the    *)
(* best price of the other side, so it comes first on its side.            *)
LEMMA AggressorIsBest ==
  ASSUME BookInv, call.pc = "match", Crosses(call.side, call.order, book)
  PROVE  /\ call.order.price_time \in Orders(call.side)
         /\ BestLabel(book[call.side]) = call.order.price_time
         /\ VolumeOf(call.side, call.order.price_time) = call.order.volume
         /\ BestLabel(book[Opposite(call.side)]) \in Orders(Opposite(call.side))
<1> DEFINE s == call.side
           r == Opposite(s)
           l == call.order.price_time
           a == BestLabel(book[s])
           b == BestLabel(book[r])
<1>1. /\ s \in Sides /\ r \in Sides /\ l \in Label /\ call.order.volume \in U64
      /\ l.price \in U64
  BY CallTyped DEF Label
<1>2. call.order.volume # 0 /\ Accepts(s, l.price, b.price)
  BY <1>1, MaxU64Assumption DEF Crosses, BestPrice, U64
<1>3. 0 < l.price /\ l.price < MaxU64
  BY DEF BookInv, CallSound, Running
<1>4. b \in Orders(r)
  <2>1. b = Last(r) \/ b \in Orders(r)
    BY <1>1, TreeOf, HeadRests DEF Orders
  <2>2. QED
    BY <2>1, <1>1, <1>2, <1>3, SentinelPriceRefused
<1>5. l \in Live(book[s]) /\ LeafOf(book[s], l).volume = call.order.volume
  BY <1>2 DEF BookInv, LocalsAgree
<1>6. l \in Orders(s)
  <2>1. l # First(s) /\ l # Last(s)
    BY <1>1, <1>3, MaxU64Assumption DEF First, Last, Default
  <2>2. QED
    BY <2>1, <1>5 DEF Orders, Resting
<1>7. a \in Orders(s) /\ a \in Label /\ (l = a \/ Before(s, a, l))
  BY <1>1, <1>6, TreeOf, HeadRests DEF Orders
<1>8. a = l
  <2>1. SUFFICES ASSUME a # l PROVE FALSE
    OBVIOUS
  <2>2. b \in Label /\ b.price \in U64
    BY <1>1, <1>4, OrderOf
  <2>3. ~ Accepts(s, a.price, b.price)
    BY <2>1, <1>4, <1>7 DEF BookInv, RestUncrossed
  <2>4. Before(s, l, a)
    BY <2>2, <2>3, <1>1, <1>2, <1>7, BetterAccepts
  <2>5. QED
    BY <2>1, <2>4, <1>1, <1>7, BeforeIrreflexive, BeforeTransitive
<1>9. QED
  BY <1>4, <1>5, <1>6, <1>8 DEF VolumeOf

LEMMA StartTradeKeeps ==
  ASSUME BookInv, StartTrade
  PROVE  BookInv'
<1> DEFINE s == call.side
           r == Opposite(s)
           l == call.order.price_time
           b == BestLabel(book[r])
           w == LeafOf(book[r], b).volume
           v == TradeVolume(call.order.volume, w)
<1>1. /\ s \in Sides /\ r \in Sides /\ l \in Label /\ call.order.volume \in U64
      /\ call \in CallTypes
  BY CallTyped
<1>2. /\ l \in Orders(s) /\ BestLabel(book[s]) = l /\ VolumeOf(s, l) = call.order.volume
      /\ b \in Orders(r)
  BY AggressorIsBest DEF StartTrade
<1>3. /\ b \in Live(book[r]) /\ b \in Label /\ w \in U64 /\ w > 0
      /\ call.order.volume > 0 /\ l \in Live(book[s])
  BY <1>1, <1>2, OrderOf DEF VolumeOf
<1>4. LeafOf(book[r], b).label = b
  BY <1>1, <1>3, TreeOf, LiveLeaf
<1>5. /\ v \in U64 /\ v > 0 /\ call.order.volume - v \in U64 /\ w - v \in U64
      /\ call.order.volume - v = 0 \/ w - v = 0
      /\ call.order.volume - v + v = call.order.volume /\ w - v + v = w
  <2> HIDE DEF w
  <2>1. QED
    BY <1>1, <1>3, MaxU64Assumption DEF TradeVolume, U64
<1> HIDE DEF v
<1>6. /\ call' = [call EXCEPT !.pc = "aggressor", !.order.volume = @ - v, !.volume = v,
                              !.leaf = [label |-> b, volume |-> w - v]]
      /\ UNCHANGED <<book, state>>
  BY <1>3, <1>4 DEF StartTrade, v
<1>7. /\ call'.pc = "aggressor" /\ call'.side = s /\ call'.result = call.result
      /\ call'.order = [price_time |-> l, volume |-> call.order.volume - v]
      /\ call'.volume = v /\ call'.leaf = [label |-> b, volume |-> w - v]
      /\ call' \in CallTypes
  <2> HIDE DEF w, b
  <2>1. call.order \in Order
    BY CallTyped
  <2>2. [call.order EXCEPT !.volume = @ - v] = [price_time |-> l, volume |-> call.order.volume - v]
    BY <2>1 DEF Order
  <2>3. [price_time |-> l, volume |-> call.order.volume - v] \in Order
    BY <1>1, <1>5 DEF Order
  <2>4. [label |-> b, volume |-> w - v] \in [label : Label, volume : U64]
    BY <1>3, <1>5
  <2>5. QED
    BY <2>2, <2>3, <2>4, <1>1, <1>5, <1>6 DEF CallTypes
<1>8. TypeOK' /\ StateShape' /\ TreesHold' /\ StateAgrees' /\ OrdersAreLimits'
  BY <1>6, <1>7 DEF BookInv, TypeOK, CallTypes, StateShape, TreesHold, StateAgrees,
                    OrdersAreLimits, Orders, VolumeOf
<1>9. RestUncrossed'
  BY <1>6, <1>7 DEF StartTrade, BookInv, RestUncrossed, Orders, Running
<1>10. LocalsAgree'
  BY <1>2, <1>3, <1>5, <1>6, <1>7 DEF LocalsAgree, VolumeOf
<1>11. CallSound'
  <2>1. Accepts(s, l.price, b.price)
    BY DEF StartTrade, Crosses, BestPrice
  <2>2. QED
    BY <2>1, <1>5, <1>6, <1>7 DEF StartTrade, BookInv, CallSound, Running
<1>12. QED
  BY <1>8, <1>9, <1>10, <1>11 DEF BookInv

(* A step that fills call.volume units of the best order of side s, leaves *)
(* it `rest` and goes on to pc.                                            *)
FillOf(s, op, pc, rest) ==
  LET b == BestLabel(book[s])
      u == FilledTree(book[s], call.volume, rest)
  IN  /\ b \in Orders(s)
      /\ TreeInv(s, u)
      /\ Resting(s, u) = IF rest = 0 THEN Orders(s) \ {b} ELSE Orders(s)
      /\ rest > 0 => LeafOf(u, b).volume = rest /\ BestLabel(u) = b
      /\ \A j \in Orders(s) \ {b} : LeafOf(u, j).volume = VolumeOf(s, j)
      /\ book' = [book EXCEPT ![s] = u]
      /\ state' = NextState(book'[s], state, s, op)
      /\ call' = [call EXCEPT !.pc = pc]

(* match_order and match_partially succeed on the order the locals name,   *)
(* and the state follows.                                                  *)
LEMMA SettleSucceeds ==
  ASSUME BookInv, NEW s \in Sides, NEW op \in Operations, NEW pc, NEW rest \in U64,
         call.volume > 0,
         BestLabel(book[s]) \in Live(book[s]),
         LeafOf(book[s], BestLabel(book[s])).volume = rest + call.volume,
         (rest = 0 /\ Settle(s, TRUE, op, pc)) \/ (rest # 0 /\ Settle(s, FALSE, op, pc))
  PROVE  FillOf(s, op, pc, rest)
<1> DEFINE t == book[s]
           b == BestLabel(t)
           v == call.volume
           u == FilledTree(t, v, rest)
<1>1. v \in U64 \ {0} /\ v \in Int /\ v > 0 /\ rest \in Int /\ rest >= 0
  BY CallTyped, MaxU64Assumption DEF U64
<1>2. b \in Orders(s)
  <2>1. LeafOf(t, b).volume # 0
    BY <1>1
  <2>2. QED
    BY <2>1, OrderHoldsVolume
<1>3. TreeInv(s, t) /\ DOMAIN book = Sides /\ state.root[s] = Root(t)
  BY TreeOf DEF BookInv, TypeOK, StateAgrees
<1>3a. b \in Resting(s, t) /\ LeafOf(t, b).volume = rest + v
  BY <1>2 DEF Orders
<1> HIDE DEF t, v
<1>4. /\ FillOutcome(t, v, rest) = "ok"
      /\ TreeInv(s, u)
      /\ Resting(s, u) = IF rest = 0 THEN Resting(s, t) \ {b} ELSE Resting(s, t)
      /\ rest > 0 => LeafOf(u, b).volume = rest /\ BestLabel(u) = b
      /\ \A j \in Resting(s, t) \ {b} : LeafOf(u, j).volume = LeafOf(t, j).volume
  BY <1>1, <1>3, <1>3a, FillTree
<1>5. /\ rest = 0 => SettleOutcome(s, TRUE) = "ok"
      /\ rest # 0 => SettleOutcome(s, FALSE) = "ok"
  BY <1>3, <1>4 DEF SettleOutcome, FillOutcome, t, v
<1> HIDE DEF u, b
<1>6. /\ book' = [book EXCEPT ![s] = u]
      /\ state' = NextState(book'[s], state, s, op)
      /\ call' = [call EXCEPT !.pc = pc]
  BY <1>3, <1>5 DEF Settle, Fail, FilledTree, u, t, v
<1>7. QED
  BY <1>2, <1>4, <1>6 DEF FillOf, Orders, VolumeOf, u, b, t, v

(* A fill on one side keeps everything but what the locals say of it.      *)
LEMMA FillKeeps ==
  ASSUME BookInv, NEW s \in Sides, NEW op \in Operations, NEW pc \in {"match", "passive"},
         NEW rest \in U64, call.pc \in {"aggressor", "passive"}, FillOf(s, op, pc, rest)
  PROVE  LET b == BestLabel(book[s])
         IN  /\ TypeOK' /\ StateShape' /\ TreesHold' /\ StateAgrees'
             /\ OrdersAreLimits' /\ RestUncrossed'
             /\ call' = [call EXCEPT !.pc = pc] /\ call' \in CallTypes
             /\ book'[Opposite(s)] = book[Opposite(s)]
             /\ rest = 0 => b \notin Live(book'[s])
             /\ rest > 0 => /\ b \in Live(book'[s]) /\ BestLabel(book'[s]) = b
                            /\ LeafOf(book'[s], b).volume = rest
<1> DEFINE b == BestLabel(book[s])
           r == Opposite(s)
           u == FilledTree(book[s], call.volume, rest)
<1>1. /\ b \in Orders(s) /\ TreeInv(s, u)
      /\ Resting(s, u) = IF rest = 0 THEN Orders(s) \ {b} ELSE Orders(s)
      /\ rest > 0 => LeafOf(u, b).volume = rest /\ BestLabel(u) = b
      /\ \A j \in Orders(s) \ {b} : LeafOf(u, j).volume = VolumeOf(s, j)
      /\ book' = [book EXCEPT ![s] = u]
      /\ state' = NextState(book'[s], state, s, op)
      /\ call' = [call EXCEPT !.pc = pc]
  BY DEF FillOf
<1> HIDE DEF u
<1>2. /\ DOMAIN book' = Sides /\ book'[s] = u /\ book'[r] = book[r]
      /\ TreesHold' /\ StateShape' /\ StateAgrees'
      /\ state'.n \in 0 .. FieldOrder - 1 /\ state'.best \in [Sides -> U64]
      /\ state'.op \in OpCodes
  BY <1>1, StateFollows
<1>3. /\ call' \in CallTypes /\ call'.pc = pc /\ call'.side = call.side /\ call'.order = call.order
      /\ call'.result = "ok"
  <2>1. call \in CallTypes /\ call.result = "ok"
    BY CallTyped DEF BookInv, CallSound, Running
  <2>2. QED
    BY <1>1, <2>1 DEF CallTypes
<1>4. TypeOK'
  BY <1>2, <1>3 DEF TypeOK, CallTypes, TreesHold, TreeInv
<1>5. Resting(s, u) \subseteq Orders(s) /\ Resting(r, book'[r]) = Orders(r)
  BY <1>1, <1>2 DEF Orders
<1>6. OrdersAreLimits'
  <2>1. ASSUME NEW k \in Resting(s, u)
        PROVE  0 < k.price /\ k.price < MaxU64 /\ LeafOf(u, k).volume > 0
    <3>1. k \in Orders(s)
      BY <1>5
    <3>2. 0 < k.price /\ k.price < MaxU64 /\ VolumeOf(s, k) > 0
      BY <3>1, OrderOf
    <3>3. k = b => rest > 0
      BY <1>1, MaxU64Assumption DEF U64
    <3>4. QED
      BY <3>1, <3>2, <3>3, <1>1
  <2>2. ASSUME NEW k \in Orders(r)
        PROVE  0 < k.price /\ k.price < MaxU64 /\ VolumeOf(r, k) > 0
    BY OppositeSide, OrderOf
  <2>3. QED
    BY <2>1, <2>2, <1>2, OppositeSide DEF OrdersAreLimits, Orders, VolumeOf
<1>7. RestUncrossed'
  <2>1. \A q \in Sides : Resting(q, book'[q]) \subseteq Orders(q)
    BY <1>2, <1>5, OppositeSide
  <2>2. call.side \in Sides /\ Opposite(call.side) \in Sides
    BY CallTyped
  <2>3. QED
    BY <2>1, <2>2, <1>3 DEF BookInv, RestUncrossed, Running, Orders
<1>9. rest = 0 => b \notin Live(u)
  BY <1>1, TreeOf, RestingLeaf DEF Orders, Resting
<1>10. rest > 0 => b \in Live(u)
  BY <1>1 DEF Resting
<1>11. QED
  BY <1>1, <1>2, <1>3, <1>4, <1>6, <1>7, <1>9, <1>10

LEMMA AggressorFills ==
  ASSUME BookInv, MatchAggressor
  PROVE  LET s == call.side
             r == Opposite(s)
             l == call.order.price_time
         IN  /\ s \in Sides /\ r \in Sides /\ r # s
             /\ call.order.volume \in U64 /\ call.leaf.volume \in U64 /\ call.volume \in U64
             /\ BestLabel(book[s]) = l /\ l \in Live(book[s])
             /\ LeafOf(book[s], l).volume = call.order.volume + call.volume /\ call.volume > 0
             /\ BestLabel(book[r]) = call.leaf.label /\ call.leaf.label \in Live(book[r])
             /\ LeafOf(book[r], call.leaf.label).volume = call.leaf.volume + call.volume
             /\ \E op \in Operations : FillOf(s, op, "passive", call.order.volume)
<1> DEFINE s == call.side
           r == Opposite(s)
           l == call.order.price_time
           rest == call.order.volume
<1>1. /\ s \in Sides /\ r \in Sides /\ rest \in U64 /\ r # s
      /\ call.leaf.volume \in U64 /\ call.volume \in U64
  BY CallTyped, OppositeSide
<1>2. /\ BestLabel(book[s]) = l /\ l \in Live(book[s])
      /\ LeafOf(book[s], l).volume = rest + call.volume /\ call.volume > 0
      /\ BestLabel(book[r]) = call.leaf.label /\ call.leaf.label \in Live(book[r])
      /\ LeafOf(book[r], call.leaf.label).volume = call.leaf.volume + call.volume
  BY DEF MatchAggressor, BookInv, LocalsAgree
<1>3. PICK op \in Operations :
        (rest = 0 /\ Settle(s, TRUE, op, "passive")) \/ (rest # 0 /\ Settle(s, FALSE, op, "passive"))
  <2>1. "MatchAggressive" \in Operations /\ "PartialMatchAggressive" \in Operations
    BY DEF Operations
  <2>2. rest > 0 => rest # 0
    BY <1>1, MaxU64Assumption DEF U64
  <2>3. QED
    BY <2>1, <2>2 DEF MatchAggressor
<1>4. FillOf(s, op, "passive", rest)
  BY <1>1, <1>2, <1>3, SettleSucceeds
<1>5. QED
  BY <1>1, <1>2, <1>4

LEMMA AggressorKeeps ==
  ASSUME BookInv, MatchAggressor
  PROVE  BookInv'
<1> DEFINE s == call.side
           r == Opposite(s)
           l == call.order.price_time
           rest == call.order.volume
<1>1. /\ s \in Sides /\ r \in Sides /\ rest \in U64
      /\ BestLabel(book[s]) = l /\ l \in Live(book[s])
      /\ LeafOf(book[s], l).volume = rest + call.volume /\ call.volume > 0
      /\ BestLabel(book[r]) = call.leaf.label /\ call.leaf.label \in Live(book[r])
      /\ LeafOf(book[r], call.leaf.label).volume = call.leaf.volume + call.volume
  BY AggressorFills
<1>2. PICK op \in Operations : FillOf(s, op, "passive", rest)
  BY AggressorFills
<1>3. /\ TypeOK' /\ StateShape' /\ TreesHold' /\ StateAgrees'
      /\ OrdersAreLimits' /\ RestUncrossed'
      /\ call' = [call EXCEPT !.pc = "passive"]
      /\ book'[r] = book[r]
      /\ rest = 0 => l \notin Live(book'[s])
      /\ rest > 0 => /\ l \in Live(book'[s]) /\ BestLabel(book'[s]) = l
                     /\ LeafOf(book'[s], l).volume = rest
  BY <1>1, <1>2, FillKeeps DEF MatchAggressor
<1>4. /\ call'.pc = "passive" /\ call'.side = s /\ call'.order = call.order
      /\ call'.volume = call.volume /\ call'.leaf = call.leaf /\ call'.result = call.result
  <2>1. call \in CallTypes
    BY CallTyped
  <2>2. QED
    BY <2>1, <1>3 DEF CallTypes
<1>5. LocalsAgree'
  BY <1>1, <1>3, <1>4 DEF LocalsAgree
<1>6. CallSound'
  BY <1>3, <1>4 DEF MatchAggressor, BookInv, CallSound, Running
<1>7. QED
  BY <1>3, <1>5, <1>6 DEF BookInv

LEMMA PassiveFills ==
  ASSUME BookInv, MatchPassive
  PROVE  LET s == call.side
             r == Opposite(s)
         IN  /\ s \in Sides /\ r \in Sides /\ r # s /\ Opposite(r) = s
             /\ call.order.volume \in U64 /\ call.leaf.volume \in U64
             /\ BestLabel(book[r]) = call.leaf.label
             /\ \E op \in Operations : FillOf(r, op, "match", call.leaf.volume)
<1> DEFINE s == call.side
           r == Opposite(s)
           rest == call.leaf.volume
<1>1. /\ s \in Sides /\ r \in Sides /\ rest \in U64 /\ r # s /\ Opposite(r) = s
      /\ call.order.volume \in U64
  BY CallTyped, OppositeSide
<1>2. /\ BestLabel(book[r]) = call.leaf.label /\ call.leaf.label \in Live(book[r])
      /\ LeafOf(book[r], call.leaf.label).volume = rest + call.volume /\ call.volume > 0
  BY DEF MatchPassive, BookInv, LocalsAgree
<1>3. PICK op \in Operations :
        (rest = 0 /\ Settle(r, TRUE, op, "match")) \/ (rest # 0 /\ Settle(r, FALSE, op, "match"))
  <2>1. "MatchPassive" \in Operations /\ "PartialMatchPassive" \in Operations
    BY DEF Operations
  <2>2. rest > 0 => rest # 0
    BY <1>1, MaxU64Assumption DEF U64
  <2>3. QED
    BY <2>1, <2>2 DEF MatchPassive
<1>4. FillOf(r, op, "match", rest)
  BY <1>1, <1>2, <1>3, SettleSucceeds
<1>5. QED
  BY <1>1, <1>2, <1>4

LEMMA PassiveKeeps ==
  ASSUME BookInv, MatchPassive
  PROVE  BookInv'
<1> DEFINE s == call.side
           r == Opposite(s)
           rest == call.leaf.volume
<1>1. s \in Sides /\ r \in Sides /\ rest \in U64 /\ Opposite(r) = s /\ call.order.volume \in U64
  BY PassiveFills
<1>2. PICK op \in Operations : FillOf(r, op, "match", rest)
  BY PassiveFills
<1>3. /\ TypeOK' /\ StateShape' /\ TreesHold' /\ StateAgrees'
      /\ OrdersAreLimits' /\ RestUncrossed'
      /\ call' = [call EXCEPT !.pc = "match"]
      /\ book'[s] = book[s]
  BY <1>1, <1>2, FillKeeps DEF MatchPassive
<1>4. /\ call'.pc = "match" /\ call'.side = s /\ call'.order = call.order
      /\ call'.result = call.result
  <2>1. call \in CallTypes
    BY CallTyped
  <2>2. QED
    BY <2>1, <1>3 DEF CallTypes
<1>5. LocalsAgree'
  <2>1. call.order.volume > 0 \/ call.order.volume = 0
    BY <1>1, MaxU64Assumption DEF U64
  <2>2. QED
    BY <2>1, <1>3, <1>4 DEF MatchPassive, BookInv, LocalsAgree, CallSound
<1>6. CallSound'
  BY <1>4 DEF MatchPassive, BookInv, CallSound, Running
<1>7. QED
  BY <1>3, <1>5, <1>6 DEF BookInv

-----------------------------------------------------------------------------
LEMMA OrderPlaced ==
  ASSUME NEW o \in SomeOrders
  PROVE  o \in Order /\ o.price_time \in OrderLabels /\ o.volume \in Volumes
BY OrderBookAssumption DEF SomeOrders, OrderLabels, Order, Label

LEMMA InitHolds == Init => BookInv
<1>1. SUFFICES ASSUME Init PROVE BookInv
  OBVIOUS
<1>2. DOMAIN book = Sides /\ \A s \in Sides : book[s] = New(s)
  BY <1>1 DEF Init
<1>3. TreesHold
  BY <1>2, NewKeeps DEF TreesHold
<1>4. \A s \in Sides : Orders(s) = {}
  BY <1>2, NewRests DEF Orders
<1>5. /\ state.n = 0 /\ state.op = OpCode("Buy", "Insertion")
      /\ state.root = [s \in Sides |-> Root(New(s))]
      /\ state.best = [s \in Sides |-> Last(s).price]
  BY <1>1 DEF Init, InitialState
<1>6. \A s \in Sides : BestPrice(book[s]) = Last(s).price
  <2>1. \A s \in Sides : New(s).leaves = <<FirstLeaf(s), LastLeaf(s)>>
    BY DEF New
  <2>2. ASSUME NEW s \in Sides PROVE BestPrice(book[s]) = Last(s).price
    <3>1. book[s].leaves[1] = FirstLeaf(s)
      BY <2>1, <1>2
    <3>2. FirstLeaf(s).next = Last(s)
      BY DEF FirstLeaf
    <3>3. QED
      BY <3>1, <3>2 DEF BestPrice, BestLabel, FirstPos
  <2>3. QED
    BY <2>2
<1>7. StateShape /\ StateAgrees
  BY <1>2, <1>5, <1>6 DEF StateShape, StateAgrees
<1>8. /\ call = [pc |-> "idle", side |-> "Buy", order |-> NoOrder, volume |-> 0, leaf |-> NoLeaf,
                 result |-> "ok"]
  BY <1>1 DEF Init, Idle
<1>9. call \in CallTypes
  BY <1>8, NoLeafTyped, SentinelsAreLabels DEF CallTypes, NoOrder, Order, Sides
<1>10. TypeOK
  <2>1. "Buy" \in Sides /\ "Insertion" \in Operations
    BY DEF Sides, Operations
  <2>2. state.op \in OpCodes
    BY <2>1, <1>5 DEF OpCodes
  <2>3. \A s \in Sides : Last(s).price \in U64
    BY SentinelsAreLabels DEF Label
  <2>4. QED
    BY <2>2, <2>3, <1>2, <1>3, <1>5, <1>9, FieldOrderAssumption
    DEF TypeOK, CallTypes, TreesHold, TreeInv
<1>11. OrdersAreLimits /\ RestUncrossed
  BY <1>4, <1>8, OppositeSide DEF OrdersAreLimits, RestUncrossed, Sides
<1>12. LocalsAgree /\ CallSound
  BY <1>8 DEF LocalsAgree, CallSound, Running
<1>13. QED
  BY <1>3, <1>7, <1>10, <1>11, <1>12 DEF BookInv

LEMMA StepHolds == BookInv /\ [Next]_vars => BookInv'
<1>1. SUFFICES ASSUME BookInv, [Next]_vars PROVE BookInv'
  OBVIOUS
<1>2. ASSUME NEW s \in Sides, NEW o \in SomeOrders, o.price_time.price < MaxU64, PlaceOrder(s, o)
      PROVE  BookInv'
  BY <1>1, <1>2, OrderPlaced, PlaceFails, PlaceSucceeds DEF PlaceOrder
<1>3. CASE Match
  BY <1>1, <1>3, FinishKeeps, StartTradeKeeps, AggressorKeeps, PassiveKeeps DEF Match
<1>4. CASE UNCHANGED vars
  BY <1>1, <1>4 DEF vars, BookInv, TypeOK, StateShape, TreesHold, StateAgrees, OrdersAreLimits,
                    RestUncrossed, LocalsAgree, CallSound, Orders,
                    VolumeOf, Running
<1>5. QED
  BY <1>1, <1>2, <1>3, <1>4 DEF Next

LEMMA BookInvariance == Spec => []BookInv
BY InitHolds, StepHolds, PTL DEF Spec


-----------------------------------------------------------------------------
(* The safety properties                                                   *)

(* The trees, the state and the running call keep their types; so do the   *)
(* price-time trees of imt/mod.rs under the calls of the matching loop.    *)
THEOREM TypesHold == Spec => []TypeOK
BY BookInvariance, PTL DEF BookInv

(* Whatever clients place, each tree stays one chain in price-time         *)
(* priority between its sentinels.                                         *)
THEOREM TreesStayChains == Spec => []TreesHold
BY BookInvariance, PTL DEF BookInv

(* When match_buy or match_sell ends, by a failure too, the best buy price *)
(* is below the best sell price.                                           *)
THEOREM NeverCrossed == Spec => []Uncrossed
<1>1. BookInv => Uncrossed
  BY UncrossedOrders DEF Uncrossed, Running
<1>2. QED
  BY <1>1, BookInvariance, PTL

(* The matching loop's copies of the order and of the leaf it matches are  *)
(* what the trees hold whenever the loop uses them.                        *)
THEOREM LocalsStayFresh == Spec => []LocalsAgree
BY BookInvariance, PTL DEF BookInv

(* The state committed to after every instruction has the roots and the    *)
(* best prices of both trees.                                              *)
THEOREM StateFollowsTrees == Spec => []StateAgrees
BY BookInvariance, PTL DEF BookInv

(* A valid order is refused just when it would queue next to a resting     *)
(* order whose time is not earlier, and by an assertion: find_low never    *)
(* comes back empty, and nothing else of insert or of its finalization     *)
(* fails.                                                                  *)
THEOREM StaleTimesRefused == Spec => RefusesStaleTimes
<1> DEFINE Step ==
      call.pc = "idle" /\ call'.result # "InvalidOrder" =>
        LET s == call'.side
            l == call'.order.price_time
        IN  call'.result =
              IF \A k \in Resting(s, book[s]) : NextTo(s, book[s], k, l) => k.time < l.time
              THEN "ok" ELSE "panic"
<1>1. ASSUME BookInv, NEW s \in Sides, NEW o \in SomeOrders, o.price_time.price < MaxU64,
             PlaceOrder(s, o)
      PROVE  Step
  <2>1. call'.side = s /\ call'.order = o /\ call'.result = PlaceOutcome(s, o)
    BY <1>1 DEF PlaceOrder, Idle
  <2>2. SUFFICES ASSUME PlaceOutcome(s, o) # "InvalidOrder"
                 PROVE  PlaceOutcome(s, o) =
                          IF \A k \in Resting(s, book[s]) :
                               NextTo(s, book[s], k, o.price_time) => k.time < o.price_time.time
                          THEN "ok" ELSE "panic"
    BY <2>1
  <2>3. o \in Order /\ TreeInv(s, book[s]) /\ state.root[s] = Root(book[s])
    BY <1>1, OrderPlaced, TreeOf DEF BookInv, StateAgrees
  <2>4. ~ IsInvalid(o)
    BY <2>2 DEF PlaceOutcome
  <2>5. 0 < o.price_time.price /\ 0 < o.price_time.time
    BY <2>3, <2>4, MaxU64Assumption DEF IsInvalid, Order, Label, U64
  <2>6. PlaceOutcome(s, o) = InsertOutcome(s, book[s], o)
    BY <2>3, <2>4 DEF PlaceOutcome
  <2>7. QED
    BY <1>1, <2>3, <2>5, <2>6, InsertDecides
<1>2. BookInv /\ [Next]_vars => [Step]_vars
  <2>1. Match => call.pc # "idle"
    BY DEF Match, Finish, StartTrade, MatchAggressor, MatchPassive
  <2> HIDE DEF Step
  <2>2. call.pc # "idle" => Step
    BY DEF Step
  <2>3. QED
    BY <1>1, <2>1, <2>2 DEF Next
<1> HIDE DEF Step
<1>3. Spec => [][Step]_vars
  BY <1>2, BookInvariance, PTL DEF Spec
<1>4. QED
  BY <1>3 DEF RefusesStaleTimes, Step

(* No assertion of the matching loop fails and no error leaves it, so the  *)
(* second half of a trade always follows the first: match_order and        *)
(* match_partially are called only on trees that accept the call.          *)
THEOREM TradesSucceed == Spec => TradesNeverFail
<1>1. ASSUME BookInv, Match PROVE call'.result = "ok"
  <2>1. CASE Finish
    BY <2>1 DEF Finish, Idle
  <2>2. CASE StartTrade
    <3>1. call \in CallTypes /\ call.pc = "match" /\ call.result = "ok"
      BY <1>1, <2>2, CallTyped DEF StartTrade, BookInv, CallSound, Running
    <3>2. BestLabel(book[Opposite(call.side)]) \in Live(book[Opposite(call.side)])
      BY <1>1, <2>2, AggressorIsBest DEF StartTrade, Orders, Resting
    <3>3. QED
      BY <2>2, <3>1, <3>2 DEF StartTrade, CallTypes
  <2>3. CASE MatchAggressor
    <3>1. call \in CallTypes /\ call.result = "ok"
      BY <1>1, <2>3, CallTyped DEF MatchAggressor, BookInv, CallSound, Running
    <3>2. call' = [call EXCEPT !.pc = "passive"]
      BY <1>1, <2>3, AggressorFills DEF FillOf
    <3>3. QED
      BY <3>1, <3>2 DEF CallTypes
  <2>4. CASE MatchPassive
    <3>1. call \in CallTypes /\ call.result = "ok"
      BY <1>1, <2>4, CallTyped DEF MatchPassive, BookInv, CallSound, Running
    <3>2. call' = [call EXCEPT !.pc = "match"]
      BY <1>1, <2>4, PassiveFills DEF FillOf
    <3>3. QED
      BY <3>1, <3>2 DEF CallTypes
  <2>5. QED
    BY <1>1, <2>1, <2>2, <2>3, <2>4 DEF Match
<1>2. BookInv /\ [Next]_vars => [call.pc # "idle" => call'.result = "ok"]_vars
  BY <1>1 DEF Next, PlaceOrder
<1>3. QED
  BY <1>2, BookInvariance, PTL DEF Spec, TradesNeverFail

-----------------------------------------------------------------------------
(* The order book implements the matching engine                           *)

orders == [s \in Sides |-> Settled(s)]

LEMMA SettledOrders ==
  ASSUME NEW s \in Sides, call.pc # "passive" \/ s = call.side
  PROVE  orders[s] = Unfilled(s, book[s])
BY DEF orders, Settled

LEMMA OrderVolumes ==
  ASSUME NEW s
  PROVE  /\ DOMAIN Unfilled(s, book[s]) = Orders(s)
         /\ \A k \in Orders(s) : Unfilled(s, book[s])[k] = VolumeOf(s, k)
BY DEF Unfilled, Orders, VolumeOf

LEMMA EngineStart == Init => Engine!Init
<1>1. SUFFICES ASSUME Init PROVE orders = [s \in Sides |-> [k \in {} |-> 0]]
  BY DEF Engine!Init, Engine!Sides, Sides, orders
<1>2. call.pc = "idle" /\ \A s \in Sides : book[s] = New(s)
  BY <1>1 DEF Init, Idle
<1>3. ASSUME NEW s \in Sides PROVE Settled(s) = [k \in {} |-> 0]
  BY <1>2, NewRests DEF Settled, Unfilled
<1>4. QED
  BY <1>3 DEF orders

(* Placing a valid order adds it to a book nothing on which can trade.     *)
LEMMA EnginePlace ==
  ASSUME BookInv, NEW s \in Sides, NEW o \in SomeOrders, o.price_time.price < MaxU64,
         PlaceOrder(s, o), PlaceOutcome(s, o) = "ok"
  PROVE  Engine!Place(s, o.price_time, o.volume) /\ o.price_time \notin Engine!Resting(s)
<1> DEFINE t == book[s]
           u == Inserted(s, t, o)
           l == o.price_time
           r == Opposite(s)
<1>1. /\ call.pc = "idle" /\ book' = [book EXCEPT ![s] = u]
      /\ call' = [Idle("ok") EXCEPT !.pc = "match", !.side = s, !.order = o]
  BY DEF PlaceOrder
<1>2. TreeInv(s, t) /\ DOMAIN book = Sides /\ o \in Order /\ r \in Sides /\ r # s
  BY TreeOf, OrderPlaced, OppositeSide DEF BookInv, TypeOK
<1>3. ~ IsInvalid(o) /\ InsertOutcome(s, t, o) = "ok"
  BY DEF PlaceOutcome
<1>4. /\ l \notin Resting(s, t) /\ Resting(s, u) = Resting(s, t) \cup {l}
      /\ \A j \in Resting(s, t) : j.price = l.price => j.time < l.time
  BY <1>2, <1>3, InsertRests
<1>5. /\ LeafOf(u, l).volume = o.volume
      /\ \A k \in Resting(s, t) : LeafOf(u, k).volume = LeafOf(t, k).volume
  BY <1>2, <1>3, InsertKeeps DEF Resting
<1> HIDE DEF u
<1>6. /\ book'[s] = u /\ book'[r] = book[r] /\ call'.pc = "match"
      /\ DOMAIN book' = Sides
  BY <1>1, <1>2 DEF Idle
<1>7. \A q \in Sides : orders[q] = Unfilled(q, book[q]) /\ orders'[q] = Unfilled(q, book'[q])
  BY <1>1, <1>6 DEF orders, Settled
<1>8. DOMAIN orders[s] = Resting(s, t) /\ \A j \in Resting(s, t) : orders[s][j] = LeafOf(t, j).volume
  BY <1>7, OrderVolumes DEF Orders, VolumeOf
<1>9. orders'[s] = [j \in Resting(s, t) \cup {l} |-> IF j = l THEN o.volume ELSE orders[s][j]]
  <2>1. orders'[s] = [j \in Resting(s, u) |-> LeafOf(u, j).volume]
    BY <1>6, <1>7 DEF Unfilled
  <2> HIDE DEF l
  <2>2. QED
    BY <2>1, <1>4, <1>5, <1>8
<1>10. orders'[r] = orders[r]
  BY <1>2, <1>6, <1>7
<1>11. orders' = [orders EXCEPT ![s] = [j \in DOMAIN orders[s] \cup {l} |->
                                          IF j = l THEN o.volume ELSE @[j]]]
  BY <1>8, <1>9, <1>10, OppositeSide DEF orders
<1>12. o.volume > 0
  BY <1>2, <1>3, MaxU64Assumption DEF IsInvalid, Order, U64
<1>13. ~ Engine!Crossed
  <2>1. "Buy" \in Sides /\ "Sell" \in Sides /\ Opposite("Buy") = "Sell"
    BY DEF Sides, Opposite
  <2>2. DOMAIN orders["Buy"] = Orders("Buy") /\ DOMAIN orders["Sell"] = Orders("Sell")
    BY <1>7, <2>1, OrderVolumes
  <2>3. ~ Running
    BY <1>1 DEF Running
  <2>4. \A k \in Orders("Buy"), j \in Orders("Sell") : ~ Accepts("Buy", k.price, j.price)
    BY <2>1, <2>3, IdleUncrossed
  <2>5. QED
    BY <2>2, <2>4 DEF Engine!Crossed, Engine!Resting, Engine!Accepts, Accepts, orders
<1>14. QED
  BY <1>4, <1>8, <1>11, <1>12, <1>13 DEF Engine!Place, Engine!Resting, orders

(* A match on the aggressor's side fills both best orders with the smaller *)
(* of their volumes: on the other side the fill is in match_leaf already.  *)
LEMMA EngineFills ==
  ASSUME BookInv, MatchAggressor
  PROVE  LET s == call.side
             r == Opposite(s)
             l == call.order.price_time
             m == call.leaf.label
         IN  /\ orders'[s] = Engine!Filled(orders[s], l, call.volume)
             /\ orders'[r] = Engine!Filled(orders[r], m, call.volume)
             /\ l \in Engine!Resting(s) /\ m \in Engine!Resting(r)
             /\ Engine!IsBest(s, l) /\ Engine!IsBest(r, m)
             /\ orders[s][l] \in Int /\ orders[r][m] \in Int
             /\ call.volume =
                  IF orders[s][l] < orders[r][m] THEN orders[s][l] ELSE orders[r][m]
             /\ Accepts(s, l.price, m.price)
<1> DEFINE s == call.side
           r == Opposite(s)
           l == call.order.price_time
           m == call.leaf.label
           ro == call.order.volume
           rl == call.leaf.volume
           v == call.volume
<1>1. /\ s \in Sides /\ r \in Sides /\ r # s
      /\ ro \in U64 /\ rl \in U64 /\ v \in U64 /\ v > 0
      /\ BestLabel(book[s]) = l /\ LeafOf(book[s], l).volume = ro + v
      /\ BestLabel(book[r]) = m /\ m \in Live(book[r]) /\ LeafOf(book[r], m).volume = rl + v
  BY AggressorFills
<1>2. PICK op \in Operations : FillOf(s, op, "passive", ro)
  BY AggressorFills
<1>3. /\ l \in Orders(s)
      /\ Resting(s, book'[s]) = IF ro = 0 THEN Orders(s) \ {l} ELSE Orders(s)
      /\ ro > 0 => LeafOf(book'[s], l).volume = ro
      /\ \A j \in Orders(s) \ {l} : LeafOf(book'[s], j).volume = VolumeOf(s, j)
      /\ book'[r] = book[r]
      /\ call' = [call EXCEPT !.pc = "passive"]
  <2>1. DOMAIN book = Sides
    BY DEF BookInv, TypeOK
  <2>2. QED
    BY <1>1, <1>2, <2>1 DEF FillOf
<1>4. ro \in Int /\ ro >= 0 /\ rl \in Int /\ rl >= 0 /\ v \in Int /\ (ro = 0 \/ rl = 0)
  BY <1>1, MaxU64Assumption DEF MatchAggressor, BookInv, CallSound, U64
<1>5. m \in Orders(r)
  <2>1. LeafOf(book[r], BestLabel(book[r])).volume # 0
    BY <1>1, <1>4
  <2>2. QED
    BY <2>1, <1>1, OrderHoldsVolume
<1>6. call'.pc = "passive" /\ call'.side = s /\ call'.leaf = call.leaf
  <2>1. call \in CallTypes
    BY CallTyped
  <2>2. QED
    BY <2>1, <1>3 DEF CallTypes
<1>7. orders[s] = Unfilled(s, book[s]) /\ orders[r] = Unfilled(r, book[r])
  BY <1>1, SettledOrders DEF MatchAggressor
<1>8. /\ DOMAIN orders[s] = Orders(s) /\ \A k \in Orders(s) : orders[s][k] = VolumeOf(s, k)
      /\ DOMAIN orders[r] = Orders(r) /\ \A k \in Orders(r) : orders[r][k] = VolumeOf(r, k)
  BY <1>7, OrderVolumes
<1>9. orders[s][l] = ro + v /\ orders[r][m] = rl + v
  BY <1>1, <1>3, <1>5, <1>8 DEF VolumeOf
<1>10. orders'[s] = [k \in Resting(s, book'[s]) |-> LeafOf(book'[s], k).volume]
  BY <1>1, <1>6 DEF orders, Settled, Unfilled
<1>11. orders'[r] = [k \in {k \in DOMAIN orders[r] : k # m \/ rl > 0} |->
                       IF k = m THEN rl ELSE orders[r][k]]
  BY <1>1, <1>3, <1>6, <1>7 DEF orders, Settled
<1>12. Accepts(s, l.price, m.price)
  BY DEF MatchAggressor, BookInv, CallSound
<1>13. Engine!IsBest(s, l) /\ Engine!IsBest(r, m)
  <2>1. /\ \A j \in Orders(s) : j = l \/ Before(s, l, j)
        /\ \A j \in Orders(r) : j = m \/ Before(r, m, j)
    BY <1>1, TreeOf, HeadRests DEF Orders
  <2> HIDE DEF s, r, l, m
  <2>2. QED
    BY <2>1, <1>3, <1>5, <1>8 DEF Engine!IsBest, Engine!Resting, Engine!Before, Before,
          Engine!BetterPrice, BetterPrice, orders
<1> HIDE DEF s, r, l, m, ro, rl, v
<1>14. orders'[s] = Engine!Filled(orders[s], l, v)
  <2>1. {j \in DOMAIN orders[s] : j # l \/ orders[s][l] > v} = Resting(s, book'[s])
    BY <1>3, <1>4, <1>8, <1>9
  <2>2. \A j \in Resting(s, book'[s]) :
          LeafOf(book'[s], j).volume = IF j = l THEN orders[s][j] - v ELSE orders[s][j]
    BY <1>3, <1>4, <1>8, <1>9
  <2>3. QED
    BY <2>1, <2>2, <1>4, <1>9, <1>10 DEF Engine!Filled
<1>15. orders'[r] = Engine!Filled(orders[r], m, v)
  BY <1>4, <1>9, <1>11 DEF Engine!Filled
<1>16. /\ orders[s][l] \in Int /\ orders[r][m] \in Int
       /\ v = IF orders[s][l] < orders[r][m] THEN orders[s][l] ELSE orders[r][m]
  BY <1>4, <1>9
<1>17. QED
  BY <1>3, <1>5, <1>8, <1>12, <1>13, <1>14, <1>15, <1>16
  DEF Engine!Resting, orders, s, r, l, m, v

(* The trade is one step of the engine.                                    *)
LEMMA EngineTrade ==
  ASSUME BookInv, MatchAggressor
  PROVE  Engine!Trade
<1> DEFINE s == call.side
           r == Opposite(s)
           l == call.order.price_time
           m == call.leaf.label
           v == call.volume
<1>1. /\ orders'[s] = Engine!Filled(orders[s], l, v)
      /\ orders'[r] = Engine!Filled(orders[r], m, v)
      /\ l \in Engine!Resting(s) /\ m \in Engine!Resting(r)
      /\ Engine!IsBest(s, l) /\ Engine!IsBest(r, m)
      /\ orders[s][l] \in Int /\ orders[r][m] \in Int
      /\ v = IF orders[s][l] < orders[r][m] THEN orders[s][l] ELSE orders[r][m]
      /\ Accepts(s, l.price, m.price)
  BY EngineFills
<1>2. s \in Sides /\ l.price \in U64 /\ m.price \in U64
  BY CallTyped DEF Label
<1>3. \/ s = "Buy" /\ r = "Sell"
      \/ s = "Sell" /\ r = "Buy"
  BY <1>2 DEF Opposite, Sides
<1> HIDE DEF s, r, l, m, v
<1>4. PICK b \in Engine!Resting("Buy"), a \in Engine!Resting("Sell") :
        /\ Engine!IsBest("Buy", b) /\ Engine!IsBest("Sell", a)
        /\ Accepts("Buy", b.price, a.price)
        /\ v = IF orders["Buy"][b] < orders["Sell"][a]
               THEN orders["Buy"][b] ELSE orders["Sell"][a]
        /\ orders'["Buy"] = Engine!Filled(orders["Buy"], b, v)
        /\ orders'["Sell"] = Engine!Filled(orders["Sell"], a, v)
  <2>1. CASE s = "Buy"
    BY <2>1, <1>1, <1>3
  <2>2. CASE s = "Sell"
    <3>1. Accepts("Buy", m.price, l.price)
      BY <2>2, <1>1, <1>2, AcceptsSymmetric DEF Opposite
    <3>2. QED
      BY <2>2, <3>1, <1>1, <1>3
  <2>3. QED
    BY <1>3, <2>1, <2>2
<1>5. orders' = [Buy |-> orders'["Buy"], Sell |-> orders'["Sell"]]
  BY DEF orders, Sides
<1>6. Engine!Crossed
  BY <1>4 DEF Engine!Crossed, Engine!Accepts, Accepts
<1>7. QED
  BY <1>4, <1>5, <1>6 DEF Engine!Trade, orders

(* The other side's tree catches up with a trade that has happened.        *)
LEMMA EngineCatchesUp ==
  ASSUME BookInv, MatchPassive
  PROVE  orders' = orders
<1> DEFINE s == call.side
           r == Opposite(s)
           m == call.leaf.label
           rest == call.leaf.volume
<1>1. /\ s \in Sides /\ r \in Sides /\ r # s /\ rest \in U64
      /\ BestLabel(book[r]) = m
  BY PassiveFills
<1>2. PICK op \in Operations : FillOf(r, op, "match", rest)
  BY PassiveFills
<1>3. /\ Resting(r, book'[r]) = IF rest = 0 THEN Orders(r) \ {m} ELSE Orders(r)
      /\ rest > 0 => LeafOf(book'[r], m).volume = rest
      /\ \A j \in Orders(r) \ {m} : LeafOf(book'[r], j).volume = VolumeOf(r, j)
      /\ book'[s] = book[s]
      /\ call' = [call EXCEPT !.pc = "match"]
  <2>1. DOMAIN book = Sides
    BY DEF BookInv, TypeOK
  <2>2. QED
    BY <1>1, <1>2, <2>1 DEF FillOf
<1>4. call.pc = "passive" /\ call'.pc = "match"
  <2>1. call \in CallTypes
    BY CallTyped
  <2>2. QED
    BY <2>1, <1>3 DEF CallTypes, MatchPassive
<1>5. orders[s] = Unfilled(s, book[s]) /\ orders'[s] = Unfilled(s, book'[s])
  BY <1>1, <1>4 DEF orders, Settled
<1>6. orders[r] = [k \in {k \in Orders(r) : k # m \/ rest > 0} |->
                     IF k = m THEN rest ELSE VolumeOf(r, k)]
  BY <1>1, <1>4 DEF orders, Settled, Unfilled, Orders, VolumeOf
<1>7. orders'[r] = [k \in Resting(r, book'[r]) |-> LeafOf(book'[r], k).volume]
  BY <1>1, <1>4 DEF orders, Settled, Unfilled
<1>8. rest \in Int /\ rest >= 0
  BY <1>1, MaxU64Assumption DEF U64
<1>9. orders'[r] = orders[r]
  <2> HIDE DEF r, m, rest
  <2>1. {k \in Orders(r) : k # m \/ rest > 0} = Resting(r, book'[r])
    BY <1>3, <1>8
  <2>2. \A k \in Resting(r, book'[r]) :
          LeafOf(book'[r], k).volume = IF k = m THEN rest ELSE VolumeOf(r, k)
    BY <1>3, <1>8
  <2>3. QED
    BY <2>1, <2>2, <1>6, <1>7
<1>10. \A q \in Sides : orders'[q] = orders[q]
  BY <1>1, <1>3, <1>5, <1>9, OppositeSide
<1>11. QED
  BY <1>10 DEF orders

LEMMA EngineNext == BookInv /\ [Next]_vars => [Engine!Next]_orders
<1>1. SUFFICES ASSUME BookInv, [Next]_vars PROVE Engine!Next \/ orders' = orders
  OBVIOUS
<1>2. ASSUME NEW s \in Sides, NEW o \in SomeOrders, o.price_time.price < MaxU64, PlaceOrder(s, o)
      PROVE  Engine!Next \/ orders' = orders
  <2>1. CASE PlaceOutcome(s, o) = "ok"
    <3>1. Engine!Place(s, o.price_time, o.volume) /\ o.price_time \notin Engine!Resting(s)
      BY <1>1, <1>2, <2>1, EnginePlace
    <3>2. o.price_time \in OrderLabels /\ o.volume \in Volumes
      BY OrderPlaced
    <3>3. QED
      BY <3>1, <3>2 DEF Engine!Next, Engine!Sides, Sides
  <2>2. CASE PlaceOutcome(s, o) # "ok"
    <3>1. /\ call.pc = "idle" /\ UNCHANGED book /\ call'.pc \in {"idle", "panic"}
      BY <1>2, <2>2 DEF PlaceOrder, Idle
    <3>2. QED
      BY <3>1 DEF orders, Settled
  <2>3. QED
    BY <2>1, <2>2
<1>3. CASE Finish
  BY <1>3 DEF Finish, Idle, orders, Settled
<1>4. CASE StartTrade
  <2>1. UNCHANGED book /\ call.pc = "match" /\ call'.pc # "passive"
    <3>1. call \in CallTypes
      BY <1>1, CallTyped
    <3>2. QED
      BY <3>1, <1>4 DEF StartTrade, Fail, CallTypes
  <2>2. QED
    BY <2>1 DEF orders, Settled
<1>5. CASE MatchAggressor
  BY <1>1, <1>5, EngineTrade DEF Engine!Next
<1>6. CASE MatchPassive
  BY <1>1, <1>6, EngineCatchesUp
<1>7. CASE UNCHANGED vars
  BY <1>7 DEF vars, orders, Settled
<1>8. QED
  BY <1>1, <1>2, <1>3, <1>4, <1>5, <1>6, <1>7 DEF Next, Match

(* The order book, with its trees, its state and the steps of its matching *)
(* loop, implements the matching engine: orders enter only a book that is  *)
(* not crossed, and while it is crossed the best two orders trade.         *)
THEOREM ImplementsEngine == Spec => EngineSpec
<1>1. Init => Engine!Init
  BY EngineStart
<1>2. BookInv /\ [Next]_vars => [Engine!Next]_orders
  BY EngineNext
<1>3. QED
  BY <1>1, <1>2, BookInvariance, PTL DEF Spec, EngineSpec, Engine!Spec, orders

=============================================================================
