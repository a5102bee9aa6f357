--------------------------- MODULE MatchingEngine --------------------------
(***************************************************************************)
(* What the order book promises, with no tree, proof or trace: a limit     *)
(* order enters a book that is not crossed, behind the orders of its       *)
(* price; while the best buy order accepts the price of the best sell      *)
(* order, these two trade the smaller of their volumes.                    *)
(***************************************************************************)
EXTENDS PriceTime

CONSTANTS Labels, Volumes       \* of the orders clients place

VARIABLE orders         \* the unfilled volume of every resting order, by side and label

Resting(s) == DOMAIN orders[s]

IsBest(s, k) == k \in Resting(s) /\ \A j \in Resting(s) : j = k \/ Before(s, k, j)

Crossed ==
  \E b \in Resting("Buy"), a \in Resting("Sell") : Accepts("Buy", b.price, a.price)

(* The orders f of one side with v units of k filled; a filled order       *)
(* leaves the book.                                                        *)
Filled(f, k, v) ==
  [j \in {j \in DOMAIN f : j # k \/ f[k] > v} |-> IF j = k THEN f[k] - v ELSE f[j]]

Init == orders = [s \in Sides |-> [k \in {} |-> 0]]

Place(s, k, v) ==
  /\ v > 0
  /\ ~ Crossed
  /\ \A j \in Resting(s) : j.price = k.price => j.time < k.time
  /\ orders' = [orders EXCEPT ![s] = [j \in Resting(s) \cup {k} |-> IF j = k THEN v ELSE @[j]]]

Trade ==
  /\ Crossed
  /\ \E b \in Resting("Buy"), a \in Resting("Sell") :
       /\ IsBest("Buy", b) /\ IsBest("Sell", a)
       /\ LET v == IF orders["Buy"][b] < orders["Sell"][a]
                   THEN orders["Buy"][b] ELSE orders["Sell"][a]
          IN  orders' = [Buy  |-> Filled(orders["Buy"], b, v),
                         Sell |-> Filled(orders["Sell"], a, v)]

Next ==
  \/ \E s \in Sides : \E k \in Labels \ Resting(s), v \in Volumes : Place(s, k, v)
  \/ Trade

Spec == Init /\ [][Next]_orders

=============================================================================
