------------------------------ MODULE Hashing ------------------------------
(***************************************************************************)
(* What a leaf's hash and a Merkle node commit to (src/imt/leaf.rs,        *)
(* src/hash.rs).  The Poseidon permutation itself is a free constructor:   *)
(* two hashes are equal only when what was hashed is.                      *)
(***************************************************************************)
EXTENDS IMTree

CONSTANT LowPrices      \* 2^56: the seven low limbs of a price take values below it

ASSUME LowPricesAssumption == LowPrices \in Nat \ {0}

(* Leaf::to_felts.  A u64 takes one cell here, eight limbs in the code.    *)
LeafFelts(leaf) ==
  <<IF leaf.active THEN 1 ELSE 0, leaf.volume,
    leaf.label.price, leaf.label.time, leaf.next.price, leaf.next.time>>

(* Leaf::hash takes the first 16 of the 41 felts of a leaf: the active     *)
(* flag, the volume and the seven low limbs of the price.  The top limb of *)
(* the price, the time and the `next` label are not hashed.                *)
LeafState(felts) == <<felts[1], felts[2], felts[3] % LowPrices>>

LeafHash(leaf) == LeafState(LeafFelts(leaf))

Hashes(leaves) == [p \in 1 .. Len(leaves) |-> LeafHash(leaves[p])]

=============================================================================
