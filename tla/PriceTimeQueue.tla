--------------------------- MODULE PriceTimeQueue --------------------------
(***************************************************************************)
(* What one side of the book promises, with no tree, slot or link: a set   *)
(* of resting orders, each a label with an unfilled volume, changed by the *)
(* calls of a client.  The orders and the answer of the call that changes  *)
(* them change together: a match takes the order of highest priority or    *)
(* reduces it by what the call fills, and only a cancellation or an update *)
(* touches an order out of turn, the one it names.                         *)
(***************************************************************************)
EXTENDS PriceTime

CONSTANTS
  Side,
  Labels, Volumes       \* the labels and volumes clients use

VARIABLES
  orders,       \* the unfilled volume of every resting order, by label
  answer        \* [op, ok, label, volume]: the last call, whether it succeeded,
                \* the order it reports and the volume it enters, sets, returns or fills

vars == <<orders, answer>>

Resting == DOMAIN orders

IsBest(k) == \A j \in Resting : j = k \/ Before(Side, k, j)

Without(k) == [j \in Resting \ {k} |-> orders[j]]

Answers(op, k, v) == answer' = [op |-> op, ok |-> TRUE, label |-> k, volume |-> v]

Init ==
  /\ orders = [k \in {} |-> 0]
  /\ answer = [op |-> "new", ok |-> TRUE, label |-> Default, volume |-> 0]

(* A new order queues behind every resting order of its price.             *)
Add(k, v) ==
  /\ Answers("insert", k, v)
  /\ k \notin Resting
  /\ \A j \in Resting : j.price = k.price => j.time < k.time
  /\ orders' = [j \in Resting \cup {k} |-> IF j = k THEN v ELSE orders[j]]

Amend(k, v) ==
  /\ Answers("update", k, v)
  /\ k \in Resting
  /\ orders' = [orders EXCEPT ![k] = v]

Cancel(k) ==
  /\ Answers("cancel_at_index", k, orders[k])
  /\ orders' = Without(k)

TakeBest(k) ==
  /\ Answers("match_order", k, orders[k])
  /\ IsBest(k)
  /\ orders' = Without(k)

(* A partial fill leaves the order at the front with what is not filled.   *)
ReduceBest(k, v) ==
  /\ Answers("match_partially", k, v)
  /\ IsBest(k)
  /\ v < orders[k]
  /\ orders' = [orders EXCEPT ![k] = @ - v]

(* A call that is refused changes no order.                                *)
Refuse == ~ answer'.ok /\ UNCHANGED orders

Next ==
  \/ \E k \in Labels, v \in Volumes : Add(k, v) \/ Amend(k, v)
  \/ \E k \in Resting : Cancel(k) \/ TakeBest(k) \/ \E v \in Volumes : ReduceBest(k, v)
  \/ Refuse

Spec == Init /\ [][Next]_vars

=============================================================================
