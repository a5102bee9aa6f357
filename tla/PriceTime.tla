----------------------------- MODULE PriceTime -----------------------------
(***************************************************************************)
(* Prices, times and the price-time label that orders the book             *)
(* (src/types.rs, src/imt/leaf.rs PriceTime, src/imt/side.rs).             *)
(*                                                                         *)
(* A Price, a Time or a Volume is a u64 kept as eight byte limbs; here it  *)
(* is the integer those limbs denote, in 0 .. MaxU64.                      *)
(***************************************************************************)
EXTENDS Integers

CONSTANT MaxU64         \* u64::MAX, the price of one sentinel of each tree

ASSUME MaxU64Assumption == MaxU64 \in Nat \ {0}

U64   == 0 .. MaxU64
Sides == {"Buy", "Sell"}
Label == [price : U64, time : U64]

Opposite(s) == IF s = "Buy" THEN "Sell" ELSE "Buy"

-----------------------------------------------------------------------------
(* OrderSide::compare_prices: a buyer prefers the higher price, a seller   *)
(* the lower one.                                                          *)
BetterPrice(s, p, q) == IF s = "Buy" THEN p > q ELSE p < q

(* Ord for PriceTime: price by the side's preference, then earlier time.   *)
Before(s, a, b) ==
  \/ BetterPrice(s, a.price, b.price)
  \/ a.price = b.price /\ a.time < b.time

Default == [price |-> 0, time |-> 0]

(* PriceTime::first and PriceTime::last, the labels of the two sentinels.  *)
First(s) == IF s = "Buy" THEN [price |-> MaxU64, time |-> 0] ELSE Default
Last(s)  == IF s = "Buy" THEN Default ELSE [price |-> MaxU64, time |-> 0]

(* A limit price p of side s accepts price q of the other side:            *)
(* `price >= best_price()` for a buyer, `price <= best_price()` otherwise. *)
Accepts(s, p, q) == IF s = "Buy" THEN p >= q ELSE p <= q

=============================================================================
