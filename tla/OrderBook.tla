----------------------------- MODULE OrderBook -----------------------------
(***************************************************************************)
(* The order book of src/executor/order_book.rs: the trees of both sides,  *)
(* the state committed to after every instruction, and the matching loop   *)
(* that follows the insertion of an order.                                 *)
(*                                                                         *)
(* place_buy_order and place_sell_order (and match_buy and match_sell) are *)
(* the same code with the sides exchanged; here the side is a parameter.   *)
(* A call runs in steps, one per instruction it adds to the trace:         *)
(*   PlaceOrder                 the order is inserted,                     *)
(*   StartTrade, MatchAggressor, MatchPassive                              *)
(*                              one iteration of the matching loop,        *)
(*   Finish                     the loop ends and the call returns.        *)
(* call.pc says which step is next; "panic" is the end of the process.     *)
(* The assertions of a debug build are part of the steps.                  *)
(***************************************************************************)
EXTENDS Instructions

CONSTANTS
  Prices, Times, Volumes,       \* of the orders clients place
  MaxLeaves                     \* bound of the model: no tree grows beyond this

ASSUME OrderBookAssumption ==
  /\ Prices \subseteq U64 /\ Times \subseteq U64 /\ Volumes \subseteq U64
  /\ MaxLeaves \in Nat

VARIABLES
  book,         \* the tree of each side: buy_imt and sell_imt
  state,        \* [n, root, best, op]: State, with root and best by side
  call          \* the running call: [pc, side, order, volume, leaf, result]

vars == <<book, state, call>>

OrderLabels == [price : Prices, time : Times]
SomeOrders  == [price_time : OrderLabels, volume : Volumes]
NoOrder     == [price_time |-> Default, volume |-> 0]
NoLeaf      == [label |-> Default, volume |-> 0]

-----------------------------------------------------------------------------
(* Calls                                                                   *)

Idle(result) ==
  [pc |-> "idle", side |-> "Buy", order |-> NoOrder, volume |-> 0, leaf |-> NoLeaf,
   result |-> result]

Init ==
  /\ book = [s \in Sides |-> New(s)]
  /\ state = InitialState
  /\ call = Idle("ok")

(* An Err is returned to the client, a failed assertion ends the process;  *)
(* what the call did before it stays done.                                 *)
Fail(outcome) ==
  /\ outcome # "ok"
  /\ call' = [call EXCEPT !.pc = IF outcome = "panic" THEN "panic" ELSE "idle",
                          !.result = outcome]
  /\ UNCHANGED <<book, state>>

(* Order::is_invalid *)
IsInvalid(o) == o.volume = 0 \/ o.price_time.price = 0 \/ o.price_time.time = 0

PlaceOutcome(s, o) ==
  IF IsInvalid(o) THEN "InvalidOrder"
  ELSE IF InsertOutcome(s, book[s], o) # "ok" THEN InsertOutcome(s, book[s], o)
  ELSE IF state.root[s] # Root(book[s]) THEN "panic"
  ELSE "ok"

PlaceOrder(s, o) ==
  /\ call.pc = "idle"
  /\ Len(book[s].leaves) < MaxLeaves
  /\ \/ /\ PlaceOutcome(s, o) # "ok"
        /\ call' = [Idle(PlaceOutcome(s, o)) EXCEPT
                      !.pc = IF PlaceOutcome(s, o) = "panic" THEN "panic" ELSE "idle",
                      !.side = s, !.order = o]
        /\ UNCHANGED <<book, state>>
     \/ /\ PlaceOutcome(s, o) = "ok"
        /\ book' = [book EXCEPT ![s] = Inserted(s, @, o)]
        /\ state' = NextState(book'[s], state, s, "Insertion")
        /\ call' = [Idle("ok") EXCEPT !.pc = "match", !.side = s, !.order = o]

\* the order trades only at a price strictly better than its limit
Crosses_Strict(s, o, b) ==
  o.volume > 0 /\ BetterPrice(s, o.price_time.price, BestPrice(b[Opposite(s)]))

\* the loop goes on once the order is filled
Crosses_NoVolume(s, o, b) == Accepts(s, o.price_time.price, BestPrice(b[Opposite(s)]))

(* The condition of the matching loop.                                     *)
Crosses(s, o, b) ==
  o.volume > 0 /\ Accepts(s, o.price_time.price, BestPrice(b[Opposite(s)]))

Finish ==
  /\ call.pc = "match"
  /\ ~ Crosses(call.side, call.order, book)
  /\ call' = Idle("ok")
  /\ UNCHANGED <<book, state>>

\* what remains of the order instead of what is filled
TradeVolume_Remaining(v, w) == IF v < w THEN v ELSE v - w

\* the larger of the two volumes
TradeVolume_Max(v, w) == IF v < w THEN w ELSE v

TradeVolume(v, w) == IF v < w THEN v ELSE w

(* The loop reads the best leaf of the other side and reduces its copies   *)
(* of the order and of that leaf.                                          *)
StartTrade ==
  LET other == book[Opposite(call.side)]
      best  == LeafOf(other, BestLabel(other))
      v     == TradeVolume(call.order.volume, best.volume)
  IN
  /\ call.pc = "match"
  /\ Crosses(call.side, call.order, book)
  /\ \/ BestLabel(other) \notin Live(other) /\ Fail("panic")
     \/ /\ BestLabel(other) \in Live(other)
        /\ call' = [call EXCEPT !.pc = "aggressor", !.order.volume = @ - v, !.volume = v,
                                !.leaf = [label |-> best.label, volume |-> best.volume - v]]
        /\ UNCHANGED <<book, state>>

(* match_order on the tree of side s if its order is filled, else          *)
(* match_partially, then finalize_match or finalize_partial_match.         *)
SettleOutcome(s, filled) ==
  LET outcome == IF filled THEN MatchOutcome(book[s]) ELSE PartialOutcome(book[s], call.volume)
  IN  IF outcome = "ok" /\ state.root[s] # Root(book[s]) THEN "panic" ELSE outcome

Settle(s, filled, op, pc) ==
  \/ Fail(SettleOutcome(s, filled))
  \/ /\ SettleOutcome(s, filled) = "ok"
     /\ book' = [book EXCEPT ![s] = IF filled THEN Matched(@)
                                              ELSE PartiallyMatched(@, call.volume)]
     /\ state' = NextState(book'[s], state, s, op)
     /\ call' = [call EXCEPT !.pc = pc]

MatchAggressor ==
  /\ call.pc = "aggressor"
  /\ \/ call.order.volume = 0 /\ Settle(call.side, TRUE, "MatchAggressive", "passive")
     \/ call.order.volume > 0 /\ Settle(call.side, FALSE, "PartialMatchAggressive", "passive")

MatchPassive ==
  /\ call.pc = "passive"
  /\ \/ call.leaf.volume = 0 /\ Settle(Opposite(call.side), TRUE, "MatchPassive", "match")
     \/ call.leaf.volume > 0 /\ Settle(Opposite(call.side), FALSE, "PartialMatchPassive", "match")

-----------------------------------------------------------------------------
Match == Finish \/ StartTrade \/ MatchAggressor \/ MatchPassive

(* Clients that name no price as large as u64::MAX, the sentinels' price.  *)
Next ==
  \/ \E s \in Sides, o \in SomeOrders : o.price_time.price < MaxU64 /\ PlaceOrder(s, o)
  \/ Match

OpenNext ==
  \/ \E s \in Sides, o \in SomeOrders : PlaceOrder(s, o)
  \/ Match

Spec     == Init /\ [][Next]_vars /\ WF_vars(Match)
OpenSpec == Init /\ [][OpenNext]_vars

-----------------------------------------------------------------------------
(* Properties                                                              *)

Failures == {"InvalidOrder", "LowLeafNotFound", "LeafNotFound",
             "InsufficientVolumeToFill", "NotAPartialMatch", "panic"}

(* The types of the trees, of the state and of the running call.           *)
TypeOK ==
  /\ DOMAIN book = Sides /\ \A s \in Sides : TreeType(book[s])
  /\ state.n \in 0 .. FieldOrder - 1
  /\ state.best \in [Sides -> U64]
  /\ state.op \in OpCodes
  /\ call \in [pc : {"idle", "match", "aggressor", "passive", "panic"}, side : Sides, order : Order,
               volume : U64, leaf : [label : Label, volume : U64],
               result : Failures \cup {"ok"}]

(* The order book keeps the obligations of a client of both trees: however *)
(* orders are placed and matched, each tree stays one chain in price-time  *)
(* priority between its sentinels.                                         *)
TreesHold == \A s \in Sides : TreeInv(s, book[s])

(* When a call returns, and even when it fails, no resting buy order       *)
(* accepts the price of a resting sell order: the loop never stops halfway *)
(* and a failing call leaves no half-made trade.                           *)
Uncrossed ==
  call.pc \in {"idle", "panic"} => BestPrice(book["Buy"]) < BestPrice(book["Sell"])

(* The loop works on copies: `order`, passed by value to both the tree and *)
(* the loop, and match_leaf, read before the trees change.  They agree     *)
(* with the trees whenever they are used: the order match_order or         *)
(* match_partially is about to take is the one copied.                     *)
LocalsAgree ==
  LET own   == book[call.side]
      other == book[Opposite(call.side)]
      HeadIs(t, k, v) ==
        BestLabel(t) = k /\ k \in Live(t) /\ LeafOf(t, k).volume = v
  IN
  /\ call.pc = "match" =>
       IF call.order.volume = 0 THEN call.order.price_time \notin Live(own)
       ELSE /\ call.order.price_time \in Live(own)
            /\ LeafOf(own, call.order.price_time).volume = call.order.volume
  /\ call.pc = "aggressor" =>
       HeadIs(own, call.order.price_time, call.order.volume + call.volume)
  /\ call.pc = "passive" /\ call.order.volume > 0 =>
       HeadIs(own, call.order.price_time, call.order.volume)
  /\ call.pc \in {"aggressor", "passive"} =>
       /\ call.volume > 0
       /\ HeadIs(other, call.leaf.label, call.leaf.volume + call.volume)

(* The state the next instruction starts from is that of the trees: both   *)
(* roots and both best prices, of the side the last instruction changed    *)
(* and of the other one.                                                   *)
StateAgrees ==
  \A s \in Sides : state.root[s] = Root(book[s]) /\ state.best[s] = BestPrice(book[s])

(* Resting order k is where an order of label l would queue: at its place, *)
(* or next to it on either side.                                           *)
NextTo(s, t, k, l) ==
  \A j \in Resting(s, t) :
    /\ ~ (Before(s, k, j) /\ Before(s, j, l))
    /\ ~ (Before(s, l, j) /\ Before(s, j, k))

(* A valid order below the sentinels' price is refused just when a resting *)
(* order it would queue next to does not have an earlier time, and then by *)
(* an assertion: insert fails for nothing else, and not at all for orders  *)
(* whose times grow.                                                       *)
RefusesStaleTimes ==
  [][call.pc = "idle" /\ call'.result # "InvalidOrder" =>
       LET s == call'.side
           l == call'.order.price_time
       IN  call'.result =
             IF \A k \in Resting(s, book[s]) : NextTo(s, book[s], k, l) => k.time < l.time
             THEN "ok" ELSE "panic"]_vars

(* Once the order is in the tree no error is returned and no assertion     *)
(* fails: the second half of a trade never fails after the first is done,  *)
(* and match_order and match_partially are called only where they succeed. *)
TradesNeverFail == [][call.pc # "idle" => call'.result = "ok"]_vars

(* A trade changes the trees in two steps; it happens at the first, when   *)
(* the resting order's tree still shows what it had before.                *)
Settled(s) ==
  LET orders == Unfilled(s, book[s]) IN
  IF call.pc = "passive" /\ s # call.side
  THEN [k \in {k \in DOMAIN orders : k # call.leaf.label \/ call.leaf.volume > 0} |->
          IF k = call.leaf.label THEN call.leaf.volume ELSE orders[k]]
  ELSE orders

Engine == INSTANCE MatchingEngine
  WITH Labels <- OrderLabels, orders <- [s \in Sides |-> Settled(s)]

(* The order book implements the matching engine: every trade takes the    *)
(* same volume from the best buy order and the best sell order, and orders *)
(* are accepted only into a book that is not crossed.                      *)
EngineSpec == Engine!Spec

(* The loop ends: every call returns or panics.                            *)
CallsReturn == call.pc # "idle" ~> call.pc \in {"idle", "panic"}

(* The comment in IndexedMerkleTree::new, imt/mod.rs:202, "the last leaf   *)
(* can never be matched".                                                  *)
LastLeafNeverMatched == \A s \in Sides : book[s].leaves[LastPos].active

=============================================================================
