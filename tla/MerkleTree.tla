---------------------------- MODULE MerkleTree -----------------------------
(***************************************************************************)
(* The hashes of one side's tree (src/imt/mod.rs): the levels `raw`, the   *)
(* root, and the proof each call returns, added to the machine of IMT.     *)
(*                                                                         *)
(* A proof opens one or two leaves, one after the other: each opening has  *)
(* the leaf before and after the call, its index, its siblings, and the    *)
(* path of hashes before and after.  The five proof structures of the code *)
(* differ in which leaves they open.                                       *)
(***************************************************************************)
EXTENDS IMT, Hashing

CONSTANT Height         \* MERKLE_HEIGHT

ASSUME HeightAssumption == Height \in Nat \ {0}

VARIABLES
  raw,          \* raw[l]: the hashes of level l, the leaves' first
  root,
  proof         \* [initial, openings, final]: what the last call returned

merkleVars == <<tree, call, raw, root, proof>>

Levels == 0 .. Height

Compress(left, right) == <<left, right>>

(* EMPTY_HASHES: the hash of a subtree of empty leaves, by level.          *)
EmptyHash[l \in Levels] ==
  IF l = 0 THEN LeafHash(EmptyLeaf) ELSE Compress(EmptyHash[l - 1], EmptyHash[l - 1])

-----------------------------------------------------------------------------
(* Paths.  Indices of nodes start at 0, as in the code.                    *)

Above(i, l)  == i \div (2 ^ l)
IsLeft(i, l) == Above(i, l) % 2 = 0
Sibling(i, l) == IF IsLeft(i, l) THEN Above(i, l) + 1 ELSE Above(i, l) - 1

NodeAt(r, l, i) == IF i < Len(r[l]) THEN r[l][i + 1] ELSE EmptyHash[l]

Siblings(r, i) == [l \in 0 .. Height - 1 |-> NodeAt(r, l, Sibling(i, l))]

\* left and right exchanged for a right child
HashUp_Unordered(i, sibs, h) ==
  LET path[l \in Levels] == IF l = 0 THEN h ELSE Compress(path[l - 1], sibs[l - 1])
  IN  path

(* The hashes from a leaf of hash h at index i to the root: the loop of    *)
(* finalize_update, of finalize_insert and of recompute_root.              *)
HashUp(i, sibs, h) ==
  LET path[l \in Levels] ==
        IF l = 0 THEN h
        ELSE IF IsLeft(i, l - 1) THEN Compress(path[l - 1], sibs[l - 1])
        ELSE Compress(sibs[l - 1], path[l - 1])
  IN  path

(* get_merkle_proof: the path as stored.                                   *)
StoredPath(r, i) == [l \in Levels |-> NodeAt(r, l, Above(i, l))]

\* only the nodes below the root are rewritten
Rehashed_NotRoot(r, i, leaf) ==
  LET path == HashUp(i, Siblings(r, i), LeafHash(leaf))
      At(l) == Above(i, l) + 1
  IN  [l \in Levels |-> IF l = Height /\ Len(r[l]) >= At(l) THEN r[l]
                        ELSE IF At(l) <= Len(r[l]) THEN [r[l] EXCEPT ![At(l)] = path[l]]
                        ELSE Append(r[l], path[l])]

\* the last node of a level appended again instead of rewritten
Rehashed_OffByOne(r, i, leaf) ==
  LET path == HashUp(i, Siblings(r, i), LeafHash(leaf))
      At(l) == Above(i, l) + 1
  IN  [l \in Levels |-> IF At(l) < Len(r[l]) THEN [r[l] EXCEPT ![At(l)] = path[l]]
                        ELSE Append(r[l], path[l])]

(* finalize_update and finalize_insert: every node above leaf i is set,    *)
(* or appended when its level has no such node yet.                        *)
Rehashed(r, i, leaf) ==
  LET path == HashUp(i, Siblings(r, i), LeafHash(leaf))
      At(l) == Above(i, l) + 1
  IN  [l \in Levels |-> IF At(l) <= Len(r[l]) THEN [r[l] EXCEPT ![At(l)] = path[l]]
                        ELSE Append(r[l], path[l])]

-----------------------------------------------------------------------------
(* Openings and proofs                                                     *)

\* the siblings taken after the leaf is rewritten, and with it the path
Opening_Late(r, i, before, after) ==
  [index |-> i % 2 ^ Height, before |-> before, after |-> after,
   siblings |-> Siblings(r, i),
   path |-> StoredPath(Rehashed(r, i, after), i),
   updated |-> HashUp(i, Siblings(r, i), LeafHash(after))]

(* The leaf at index i changes from `before` to `after` in the levels r.   *)
(* decompose_index keeps the Height low bits of the index.                 *)
Opening(r, i, before, after) ==
  [index |-> i % 2 ^ Height, before |-> before, after |-> after,
   siblings |-> Siblings(r, i),
   path |-> StoredPath(r, i),
   updated |-> HashUp(i, Siblings(r, i), LeafHash(after))]

(* The verifiers of the match proofs are given no first leaf: they rebuild *)
(* it from the labels of the matched leaf.                                 *)
HeadLeaf(next) == WithNext(FirstLeaf(Side), next)

Claimed(op, p) ==
  IF op \in {"match_order", "match_partially"}
  THEN LET leaf == p.openings[2].before IN
       [p.openings EXCEPT
          ![1].before = HeadLeaf(leaf.label),
          ![1].after  = HeadLeaf(IF op = "match_order" THEN leaf.next ELSE leaf.label)]
  ELSE p.openings

(* verify_merkle_proof against a root, then recompute_root.                *)
Opens(o, r) ==
  /\ o.path = HashUp(o.index, o.siblings, LeafHash(o.before))
  /\ o.path[Height] = r
  /\ o.updated = HashUp(o.index, o.siblings, LeafHash(o.after))

(* The verify method of the proof of a call; a partial match also names    *)
(* the volume it filled.                                                   *)
Verifies(op, filled, p) ==
  LET claimed == Claimed(op, p)
      n == Len(claimed)
  IN
  /\ \A i \in 1 .. n :
       Opens(claimed[i], IF i = 1 THEN p.initial ELSE claimed[i - 1].updated[Height])
  /\ claimed[n].updated[Height] = p.final
  /\ op \in {"insert", "update", "cancel_at_index"} => claimed[1].before.active
  /\ op = "insert" =>
       LET low == claimed[1].before
           new == claimed[2].after
       IN  /\ Before(Side, low.label, new.label)
           /\ Before(Side, new.label, low.next) \/ low.next = Default
  /\ op = "match_partially" => filled + claimed[2].after.volume = claimed[2].before.volume

-----------------------------------------------------------------------------
(* Actions: a call of IMT, and what it does to the hashes.                 *)

MerkleInit ==
  /\ Init
  /\ raw = LET leaves == <<LeafHash(FirstLeaf(Side)), LeafHash(LastLeaf(Side))>>
               up[l \in Levels] ==
                 IF l = 0 THEN leaves[1]
                 ELSE Compress(up[l - 1], IF l = 1 THEN leaves[2] ELSE EmptyHash[l - 1])
           IN  [l \in Levels |-> IF l = 0 THEN leaves ELSE <<up[l]>>]
  /\ root = raw[Height][1]
  /\ proof = [initial |-> root, openings |-> <<>>, final |-> root]

(* A successful call opens leaf i (0-based), then leaf j of the levels     *)
(* the first change leaves; a failed one changes no hash.                  *)
Rewrite(i, before1, after1, j, before2, after2) ==
  LET mid == Rehashed(raw, i, after1)
      o1  == Opening(raw, i, before1, after1)
      o2  == Opening(mid, j, before2, after2)
  IN  /\ raw' = Rehashed(mid, j, after2)
      /\ root' = raw'[Height][1]
      /\ proof' = [initial |-> root, openings |-> <<o1, o2>>, final |-> o2.updated[Height]]

KeepHashes == UNCHANGED <<raw, root, proof>>

Done == call'.outcome = "ok"

MerkleInsert(o) ==
  LET low  == tree.index_map[Low(Side, tree, o.price_time)]
      leaf == tree.leaves[low]
  IN
  /\ Insert(o)
  /\ \/ ~ Done /\ KeepHashes
     \/ /\ Done
        /\ Rewrite(low - 1, leaf, WithNext(leaf, o.price_time),
                   Len(raw[0]), EmptyLeaf, OrderLeaf(o, leaf.next))

MerkleUpdate(l, v) ==
  /\ Update(l, v)
  /\ \/ ~ Done /\ KeepHashes
     \/ /\ Done
        /\ LET i    == tree.index_map[l] - 1
               leaf == LeafOf(tree, l)
               o    == Opening(raw, i, leaf, WithVolume(leaf, v))
           IN  /\ raw' = Rehashed(raw, i, WithVolume(leaf, v))
               /\ root' = raw'[Height][1]
               /\ proof' = [initial |-> root, openings |-> <<o>>, final |-> o.updated[Height]]

MerkleCancel(pos) ==
  /\ CancelAtIndex(pos)
  /\ \/ ~ Done /\ KeepHashes
     \/ /\ Done
        /\ LET leaf == tree.leaves[pos]
               low  == tree.index_map[Low(Side, tree, leaf.label)]
           IN  Rewrite(low - 1, tree.leaves[low], WithNext(tree.leaves[low], leaf.next),
                       pos - 1, leaf, Inactive(leaf))

MerkleMatch ==
  /\ MatchOrder
  /\ \/ ~ Done /\ KeepHashes
     \/ /\ Done
        /\ LET head == tree.leaves[FirstPos]
               leaf == LeafOf(tree, BestLabel(tree))
           IN  Rewrite(0, head, WithNext(head, leaf.next),
                       tree.index_map[BestLabel(tree)] - 1, leaf, Inactive(leaf))

(* The first leaf is opened and left as it is.                             *)
MerklePartial(filled) ==
  /\ MatchPartially(filled)
  /\ \/ ~ Done /\ KeepHashes
     \/ /\ Done
        /\ LET i    == tree.index_map[BestLabel(tree)] - 1
               leaf == LeafOf(tree, BestLabel(tree))
               head == tree.leaves[FirstPos]
               o    == Opening(raw, i, leaf, WithVolume(leaf, leaf.volume - filled))
           IN  /\ raw' = Rehashed(raw, i, o.after)
               /\ root' = raw'[Height][1]
               /\ proof' = [initial |-> root, openings |-> <<Opening(raw, 0, head, head), o>>,
                            final |-> o.updated[Height]]

InsertOne ==
  \E l \in Labels, v \in Volumes :
    Len(tree.leaves) < MaxLeaves /\ MerkleInsert([price_time |-> l, volume |-> v])

UpdateOne ==
  \E l \in Labels \cup {Default}, v \in Volumes :
    (l \in Sentinels => l = Default) /\ MerkleUpdate(l, v)

CancelOne ==
  \E pos \in 1 .. Len(tree.leaves) :
    (pos = FirstPos \/ RestingSlot(pos)) /\ MerkleCancel(pos)

MatchOne == BestLabel(tree) # Last(Side) /\ MerkleMatch

PartialOne == \E v \in Volumes : MerklePartial(v)

MerkleNext == InsertOne \/ UpdateOne \/ CancelOne \/ MatchOne \/ PartialOne

MerkleSpec == MerkleInit /\ [][MerkleNext]_merkleVars

-----------------------------------------------------------------------------
(* Properties                                                              *)

(* The reference: the complete tree over the leaves padded with empty ones *)
Reference(hashes) ==
  LET level[l \in Levels] ==
        [i \in 0 .. 2 ^ (Height - l) - 1 |->
           IF l = 0 THEN IF i < Len(hashes) THEN hashes[i + 1] ELSE EmptyHash[0]
           ELSE Compress(level[l - 1][2 * i], level[l - 1][2 * i + 1])]
  IN  level

(* Each level stores the nodes above the leaves inserted so far, and no    *)
(* other: the levels grow together although each insert touches one node.  *)
LevelsTypeOK ==
  \A l \in Levels : Len(raw[l]) = (Len(tree.leaves) + 2 ^ l - 1) \div 2 ^ l

(* Incremental rehashing of single paths, with empty hashes for what is    *)
(* not stored, computes the complete Merkle tree of the current leaves.    *)
RawIsReference ==
  LET ref == Reference(Hashes(tree.leaves)) IN
  /\ \A l \in Levels : \A i \in 0 .. Len(raw[l]) - 1 : raw[l][i + 1] = ref[l][i]
  /\ root = ref[Height][0]

(* The openings turn the leaves `old` into the leaves `new`: each opened   *)
(* leaf is given as it was (empty, if there was none) and as it is, and no *)
(* other leaf differs.                                                     *)
Replays(openings, old, new) ==
  LET Touched(p) == {i \in 1 .. Len(openings) : openings[i].index = p - 1} IN
  /\ Len(old) <= Len(new)
  /\ \A p \in 1 .. Len(new) :
       IF Touched(p) = {} THEN p <= Len(old) /\ new[p] = old[p]
       ELSE \A i \in Touched(p) :
              /\ openings[i].before = IF p <= Len(old) THEN old[p] ELSE EmptyLeaf
              /\ openings[i].after = new[p]

(* verify accepts the proof of every successful call: the second opening   *)
(* is taken from the levels the first one left, and the first leaf is what *)
(* the verifier rebuilds.                                                  *)
ProofVerifies ==
  call.outcome = "ok" /\ call.op # "new" => Verifies(call.op, call.volume, proof)

(* A client that is given only the proofs of the calls that succeed keeps  *)
(* knowing the root and every leaf: a proof starts where the last one      *)
(* ended, whatever failed in between, opens each leaf the call changes, as *)
(* it was and as it becomes, and ends at the root of the tree; a call that *)
(* fails moves neither.                                                    *)
ProofsReplay ==
  [][IF call'.outcome = "ok"
     THEN /\ proof'.initial = proof.final
          /\ Replays(proof'.openings, tree.leaves, tree'.leaves)
          /\ proof'.final = root'
     ELSE UNCHANGED <<tree, raw, root, proof>>]_merkleVars

(* The doc of InsertionProof::final_root, imt/mod.rs:655, "final root hash *)
(* after insertion".                                                       *)
FinalRootIsRoot == call.op = "insert" /\ call.outcome = "ok" => proof.final = root

=============================================================================
