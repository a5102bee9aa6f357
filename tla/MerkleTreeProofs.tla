-------------------------- MODULE MerkleTreeProofs --------------------------
(***************************************************************************)
(* Theorems about the hashes of one side's tree, for every height and any  *)
(* number of leaves the height has room for: rehashing single paths keeps  *)
(* the complete tree, and the proof of every call verifies.                *)
(***************************************************************************)
EXTENDS MerkleTree, IMTProofs

-----------------------------------------------------------------------------
(* Paths and levels, one level at a time                                   *)

LEMMA HalfDown ==
  ASSUME NEW n \in Nat, NEW k \in Nat \ {0}
  PROVE  n \div (2 * k) = (n \div k) \div 2
OBVIOUS

LEMMA HalfUp ==
  ASSUME NEW n \in Nat, NEW k \in Nat \ {0}
  PROVE  (n + 2 * k - 1) \div (2 * k) = ((n + k - 1) \div k + 1) \div 2
OBVIOUS

(* The number of nodes of level l above n leaves.                          *)
Width(n, l) == (n + 2 ^ l - 1) \div 2 ^ l

LEMMA AboveHalves ==
  ASSUME NEW i \in Nat
  PROVE  /\ Above(i, 0) = i
         /\ \A l \in Nat : Above(i, l) \in Nat /\ Above(i, l + 1) = Above(i, l) \div 2
<1>1. Above(i, 0) = i
  <2>1. i \div 1 = i
    OBVIOUS
  <2>2. QED
    BY <2>1, PowerZero DEF Above
<1>2. ASSUME NEW l \in Nat
      PROVE  Above(i, l) \in Nat /\ Above(i, l + 1) = Above(i, l) \div 2
  <2> DEFINE k == 2 ^ l
  <2>1. k \in Nat \ {0} /\ 2 ^ (l + 1) = 2 * k
    BY PowerDouble, PowerPositive
  <2> HIDE DEF k
  <2>2. i \div k \in Nat
    BY <2>1
  <2>3. i \div (2 * k) = (i \div k) \div 2
    BY <2>1, HalfDown
  <2>4. QED
    BY <2>1, <2>2, <2>3 DEF Above, k
<1>3. QED
  BY <1>1, <1>2

LEMMA WidthHalves ==
  ASSUME NEW n \in Nat
  PROVE  /\ Width(n, 0) = n
         /\ \A l \in Nat : Width(n, l) \in Nat /\ Width(n, l + 1) = (Width(n, l) + 1) \div 2
<1>1. Width(n, 0) = n
  <2>1. (n + 1 - 1) \div 1 = n
    OBVIOUS
  <2>2. QED
    BY <2>1, PowerZero DEF Width
<1>2. ASSUME NEW l \in Nat
      PROVE  Width(n, l) \in Nat /\ Width(n, l + 1) = (Width(n, l) + 1) \div 2
  <2> DEFINE k == 2 ^ l
  <2>1. k \in Nat \ {0} /\ 2 ^ (l + 1) = 2 * k
    BY PowerDouble, PowerPositive
  <2> HIDE DEF k
  <2>2. (n + k - 1) \div k \in Nat
    BY <2>1
  <2>3. (n + 2 * k - 1) \div (2 * k) = ((n + k - 1) \div k + 1) \div 2
    BY <2>1, HalfUp
  <2>4. QED
    BY <2>1, <2>2, <2>3 DEF Width, k
<1>3. QED
  BY <1>1, <1>2

(* The nodes of level l of the complete tree.                              *)
Nodes(l) == 0 .. 2 ^ (Height - l) - 1

NextTo(j) == IF j % 2 = 0 THEN j + 1 ELSE j - 1

LEMMA NodesHalve ==
  ASSUME NEW l \in 0 .. Height - 1
  PROVE  /\ \A j \in Nodes(l) : j \div 2 \in Nodes(l + 1) /\ NextTo(j) \in Nodes(l)
         /\ \A j \in Nodes(l + 1) : 2 * j \in Nodes(l) /\ 2 * j + 1 \in Nodes(l)
<1> DEFINE k == 2 ^ (Height - (l + 1))
<1>1. Height - (l + 1) \in Nat /\ Height - l = (Height - (l + 1)) + 1
  BY HeightAssumption
<1>2. k \in Nat \ {0} /\ 2 ^ (Height - l) = 2 * k
  BY <1>1, PowerDouble, PowerPositive
<1> HIDE DEF k
<1>3. Nodes(l) = 0 .. 2 * k - 1 /\ Nodes(l + 1) = 0 .. k - 1
  BY <1>2 DEF Nodes, k
<1>4. QED
  BY <1>2, <1>3 DEF NextTo

LEMMA TopNode == Nodes(Height) = {0} /\ Nodes(0) = 0 .. 2 ^ Height - 1
<1>1. Height - Height = 0 /\ Height - 0 = Height
  BY HeightAssumption
<1>2. 0 .. 1 - 1 = {0}
  OBVIOUS
<1>3. QED
  BY <1>1, <1>2, PowerZero DEF Nodes

LEMMA NodeNumbers ==
  ASSUME NEW l \in Levels
  PROVE  l \in Nat /\ \A j \in Nodes(l) : j \in Nat
<1>1. l \in Nat /\ Height - l \in Nat
  BY HeightAssumption DEF Levels
<1>2. 2 ^ (Height - l) \in Nat
  BY <1>1, PowerPositive
<1>3. QED
  BY <1>1, <1>2 DEF Nodes

(* Statements of every level, from the leaves up.                          *)
LEMMA EveryLevel ==
  ASSUME NEW T, 0 \in T, \A l \in 0 .. Height - 1 : l \in T => l + 1 \in T
  PROVE  \A l \in Levels : l \in T
<1>1. Height \in Nat /\ \A l \in Nat : l < Height => l \in 0 .. Height - 1
  BY HeightAssumption
<1>2. QED
  BY <1>1, UpTo DEF Levels

(* The path above a leaf stays in the complete tree.                       *)
LEMMA PathInTree ==
  ASSUME NEW i \in Nodes(0)
  PROVE  /\ \A l \in Levels : Above(i, l) \in Nodes(l)
         /\ \A l \in 0 .. Height - 1 : Sibling(i, l) \in Nodes(l)
         /\ Above(i, Height) = 0
<1> DEFINE T == {l \in Levels : Above(i, l) \in Nodes(l)}
<1>1. i \in Nat /\ Height \in Nat
  BY TopNode, HeightAssumption, PowerPositive
<1>2. 0 \in T
  BY <1>1, AboveHalves DEF Levels
<1>3. ASSUME NEW l \in 0 .. Height - 1, l \in T PROVE l + 1 \in T
  <2>1. l \in Nat /\ l + 1 \in Levels
    BY <1>1 DEF Levels
  <2>2. Above(i, l + 1) = Above(i, l) \div 2
    BY <1>1, <2>1, AboveHalves
  <2>3. QED
    BY <1>3, <2>1, <2>2, NodesHalve
<1>4. \A l \in Levels : l \in T
  <2> HIDE DEF T
  <2>1. QED
    BY <1>2, <1>3, EveryLevel
<1>5. ASSUME NEW l \in 0 .. Height - 1 PROVE Sibling(i, l) \in Nodes(l)
  <2>1. l \in Levels /\ Sibling(i, l) = NextTo(Above(i, l))
    BY <1>1 DEF Levels, Sibling, IsLeft, NextTo
  <2>2. QED
    BY <1>4, <2>1, NodesHalve
<1>6. Height \in Levels
  BY <1>1 DEF Levels
<1>7. QED
  BY <1>4, <1>5, <1>6, TopNode

-----------------------------------------------------------------------------
(* The recursions of the model, level by level                             *)

(* EMPTY_HASHES, as far as level n.                                        *)
Emptied(g, n) ==
  g = [l \in 0 .. n |-> IF l = 0 THEN LeafHash(EmptyLeaf) ELSE Compress(g[l - 1], g[l - 1])]

LEMMA EmptyGrows ==
  /\ EmptyHash[0] = LeafHash(EmptyLeaf)
  /\ \A l \in 0 .. Height - 1 : EmptyHash[l + 1] = Compress(EmptyHash[l], EmptyHash[l])
<1> DEFINE T == {n \in Nat : \E g : Emptied(g, n)}
<1>1. 0 \in T
  <2> DEFINE g == [l \in 0 .. 0 |-> LeafHash(EmptyLeaf)]
  <2>1. Emptied(g, 0)
    BY DEF Emptied
  <2>2. QED
    BY <2>1
<1>2. ASSUME NEW n \in Nat, n \in T PROVE n + 1 \in T
  <2>1. PICK g : Emptied(g, n)
    BY <1>2
  <2> DEFINE h == [l \in 0 .. n + 1 |-> IF l = n + 1 THEN Compress(g[n], g[n]) ELSE g[l]]
  <2>2. /\ \A l \in 0 .. n : g[l] = IF l = 0 THEN LeafHash(EmptyLeaf)
                                    ELSE Compress(g[l - 1], g[l - 1])
        /\ \A l \in 0 .. n : h[l] = g[l]
        /\ h[n + 1] = Compress(g[n], g[n])
    BY <2>1 DEF Emptied
  <2>3. h = [l \in 0 .. n + 1 |-> h[l]]
    OBVIOUS
  <2> HIDE DEF h
  <2>4. ASSUME NEW l \in 0 .. n + 1
        PROVE  h[l] = IF l = 0 THEN LeafHash(EmptyLeaf) ELSE Compress(h[l - 1], h[l - 1])
    <3>1. CASE l = n + 1
      BY <2>2, <3>1
    <3>2. CASE l # n + 1
      BY <2>2, <3>2
    <3>3. QED
      BY <3>1, <3>2
  <2>5. Emptied(h, n + 1)
    BY <2>3, <2>4 DEF Emptied
  <2>6. QED
    BY <2>5
<1> HIDE DEF T
<1>3. Height \in T
  BY <1>1, <1>2, UpTo, HeightAssumption
<1>4. PICK g : Emptied(g, Height)
  BY <1>3 DEF T
<1>5. EmptyHash = CHOOSE e : Emptied(e, Height)
  BY DEF EmptyHash, Emptied, Levels
<1>6. Emptied(EmptyHash, Height)
  BY <1>4, <1>5
<1>7. \A l \in 0 .. Height :
        EmptyHash[l] = IF l = 0 THEN LeafHash(EmptyLeaf)
                       ELSE Compress(EmptyHash[l - 1], EmptyHash[l - 1])
  BY <1>6 DEF Emptied
<1>8. QED
  BY <1>7, HeightAssumption

(* The hash above a node, beside the node's sibling.                       *)
Parent(i, l, below, sib) ==
  IF IsLeft(i, l) THEN Compress(below, sib) ELSE Compress(sib, below)

Climbed(g, i, sibs, h, n) ==
  g = [l \in 0 .. n |-> IF l = 0 THEN h ELSE Parent(i, l - 1, g[l - 1], sibs[l - 1])]

LEMMA PathGrows ==
  ASSUME NEW i, NEW sibs, NEW h
  PROVE  LET p == HashUp(i, sibs, h) IN
         /\ p = [l \in Levels |-> p[l]] /\ p[0] = h
         /\ \A l \in 0 .. Height - 1 : p[l + 1] = Parent(i, l, p[l], sibs[l])
<1> DEFINE T == {n \in Nat : \E g : Climbed(g, i, sibs, h, n)}
           p == HashUp(i, sibs, h)
<1>1. 0 \in T
  <2> DEFINE g == [l \in 0 .. 0 |-> h]
  <2>1. Climbed(g, i, sibs, h, 0)
    BY DEF Climbed
  <2>2. QED
    BY <2>1
<1>2. ASSUME NEW n \in Nat, n \in T PROVE n + 1 \in T
  <2>1. PICK g : Climbed(g, i, sibs, h, n)
    BY <1>2
  <2> DEFINE k == [l \in 0 .. n + 1 |-> IF l = n + 1 THEN Parent(i, n, g[n], sibs[n]) ELSE g[l]]
  <2>2. /\ \A l \in 0 .. n : g[l] = IF l = 0 THEN h ELSE Parent(i, l - 1, g[l - 1], sibs[l - 1])
        /\ \A l \in 0 .. n : k[l] = g[l]
        /\ k[n + 1] = Parent(i, n, g[n], sibs[n])
    BY <2>1 DEF Climbed
  <2>3. k = [l \in 0 .. n + 1 |-> k[l]]
    OBVIOUS
  <2> HIDE DEF k
  <2>4. ASSUME NEW l \in 0 .. n + 1
        PROVE  k[l] = IF l = 0 THEN h ELSE Parent(i, l - 1, k[l - 1], sibs[l - 1])
    <3>1. CASE l = n + 1
      BY <2>2, <3>1
    <3>2. CASE l # n + 1
      BY <2>2, <3>2
    <3>3. QED
      BY <3>1, <3>2
  <2>5. Climbed(k, i, sibs, h, n + 1)
    BY <2>3, <2>4 DEF Climbed
  <2>6. QED
    BY <2>5
<1> HIDE DEF T
<1>3. Height \in T
  BY <1>1, <1>2, UpTo, HeightAssumption
<1>4. PICK g : Climbed(g, i, sibs, h, Height)
  BY <1>3 DEF T
<1>5. p = CHOOSE e : Climbed(e, i, sibs, h, Height)
  BY DEF HashUp, Climbed, Levels, Parent
<1> HIDE DEF p
<1>6. Climbed(p, i, sibs, h, Height)
  BY <1>4, <1>5
<1>7. \A l \in 0 .. Height : p[l] = IF l = 0 THEN h ELSE Parent(i, l - 1, p[l - 1], sibs[l - 1])
  BY <1>6 DEF Climbed
<1>8. p = [l \in Levels |-> p[l]]
  BY <1>6 DEF Climbed, Levels
<1>9. p[0] = h /\ \A l \in 0 .. Height - 1 : p[l + 1] = Parent(i, l, p[l], sibs[l])
  BY <1>7, HeightAssumption
<1>10. QED
  BY <1>8, <1>9 DEF p

(* A level of the complete tree, from the level below.                     *)
Layer(hashes, l, below) ==
  [i \in Nodes(l) |->
     IF l = 0 THEN IF i < Len(hashes) THEN hashes[i + 1] ELSE EmptyHash[0]
     ELSE Compress(below[2 * i], below[2 * i + 1])]

Layered(g, hashes, n) == g = [l \in 0 .. n |-> Layer(hashes, l, g[l - 1])]

LEMMA LeafLayer ==
  ASSUME NEW hashes, NEW a, NEW b
  PROVE  Layer(hashes, 0, a) = Layer(hashes, 0, b)
BY DEF Layer

LEMMA ReferenceGrows ==
  ASSUME NEW hashes
  PROVE  LET ref == Reference(hashes) IN
         /\ \A i \in Nodes(0) :
              ref[0][i] = IF i < Len(hashes) THEN hashes[i + 1] ELSE EmptyHash[0]
         /\ \A l \in 0 .. Height - 1 : \A i \in Nodes(l + 1) :
              ref[l + 1][i] = Compress(ref[l][2 * i], ref[l][2 * i + 1])
<1> DEFINE T == {n \in Nat : \E g : Layered(g, hashes, n)}
           ref == Reference(hashes)
<1>1. 0 \in T
  <2> DEFINE g == [l \in 0 .. 0 |-> Layer(hashes, 0, 0)]
  <2>1. \A l \in 0 .. 0 : Layer(hashes, 0, 0) = Layer(hashes, l, g[l - 1])
    <3>1. \A l \in 0 .. 0 : l = 0
      OBVIOUS
    <3> HIDE DEF g
    <3>2. QED
      BY <3>1, LeafLayer
  <2>2. Layered(g, hashes, 0)
    BY <2>1 DEF Layered
  <2>3. QED
    BY <2>2
<1>2. ASSUME NEW n \in Nat, n \in T PROVE n + 1 \in T
  <2>1. PICK g : Layered(g, hashes, n)
    BY <1>2
  <2> DEFINE k == [l \in 0 .. n + 1 |-> IF l = n + 1 THEN Layer(hashes, n + 1, g[n]) ELSE g[l]]
  <2>2. /\ \A l \in 0 .. n : g[l] = Layer(hashes, l, g[l - 1])
        /\ \A l \in 0 .. n : k[l] = g[l]
        /\ k[n + 1] = Layer(hashes, n + 1, g[n])
    BY <2>1 DEF Layered
  <2>3. k = [l \in 0 .. n + 1 |-> k[l]]
    OBVIOUS
  <2> HIDE DEF k
  <2>4. ASSUME NEW l \in 0 .. n + 1 PROVE k[l] = Layer(hashes, l, k[l - 1])
    <3>1. CASE l = n + 1
      BY <2>2, <3>1
    <3>2. CASE l = 0
      BY <2>2, <3>2, LeafLayer
    <3>3. CASE l # n + 1 /\ l # 0
      BY <2>2, <3>3
    <3>4. QED
      BY <3>1, <3>2, <3>3
  <2>5. Layered(k, hashes, n + 1)
    BY <2>3, <2>4 DEF Layered
  <2>6. QED
    BY <2>5
<1> HIDE DEF T
<1>3. Height \in T
  BY <1>1, <1>2, UpTo, HeightAssumption
<1>4. PICK g : Layered(g, hashes, Height)
  BY <1>3 DEF T
<1>5. ref = CHOOSE e : Layered(e, hashes, Height)
  BY DEF Reference, Layered, Levels, Layer, Nodes
<1> HIDE DEF ref
<1>6. Layered(ref, hashes, Height)
  BY <1>4, <1>5
<1>7. \A l \in 0 .. Height : ref[l] = Layer(hashes, l, ref[l - 1])
  BY <1>6 DEF Layered
<1>8. 0 \in 0 .. Height /\ \A l \in 0 .. Height - 1 : l + 1 \in 0 .. Height /\ l + 1 # 0
  BY HeightAssumption
<1>9. \A i \in Nodes(0) :
        ref[0][i] = IF i < Len(hashes) THEN hashes[i + 1] ELSE EmptyHash[0]
  BY <1>7, <1>8 DEF Layer
<1>10. ASSUME NEW l \in 0 .. Height - 1, NEW i \in Nodes(l + 1)
       PROVE  ref[l + 1][i] = Compress(ref[l][2 * i], ref[l][2 * i + 1])
  <2>1. ref[l + 1] = Layer(hashes, l + 1, ref[l])
    BY <1>7, <1>8
  <2>2. QED
    BY <1>8, <2>1 DEF Layer
<1>11. QED
  BY <1>9, <1>10 DEF ref

-----------------------------------------------------------------------------
(* The complete tree                                                       *)

(* Beyond the nodes above the leaves every subtree is empty.               *)
LEMMA EmptyBeyond ==
  ASSUME NEW hashes, Len(hashes) \in Nat
  PROVE  \A l \in Levels : \A j \in Nodes(l) :
           j >= Width(Len(hashes), l) => Reference(hashes)[l][j] = EmptyHash[l]
<1> DEFINE ref == Reference(hashes)
           n == Len(hashes)
           T == {l \in Levels : \A j \in Nodes(l) : j >= Width(n, l) => ref[l][j] = EmptyHash[l]}
<1>1. Height \in Nat \ {0}
  BY HeightAssumption
<1>2. 0 \in T
  <2>1. \A j \in Nodes(0) : ref[0][j] = IF j < n THEN hashes[j + 1] ELSE EmptyHash[0]
    BY ReferenceGrows
  <2>2. Width(n, 0) = n /\ n \in Nat /\ 0 \in Levels
    BY <1>1, WidthHalves DEF Levels
  <2>3. \A j \in Nodes(0) : j \in Nat
    BY <2>2, NodeNumbers
  <2> HIDE DEF ref, n
  <2>4. QED
    BY <2>1, <2>2, <2>3
<1>3. ASSUME NEW l \in 0 .. Height - 1, l \in T PROVE l + 1 \in T
  <2>1. l \in Nat /\ l \in Levels /\ l + 1 \in Levels
    BY <1>1 DEF Levels
  <2>2. ASSUME NEW j \in Nodes(l + 1), j >= Width(n, l + 1)
        PROVE  ref[l + 1][j] = EmptyHash[l + 1]
    <3>1. Width(n, l + 1) = (Width(n, l) + 1) \div 2 /\ Width(n, l) \in Nat
      BY <2>1, WidthHalves
    <3>2. 2 * j \in Nodes(l) /\ 2 * j + 1 \in Nodes(l) /\ j \in Int
      BY NodesHalve DEF Nodes
    <3>3. 2 * j >= Width(n, l) /\ 2 * j + 1 >= Width(n, l)
      BY <2>2, <3>1, <3>2
    <3>4. ref[l][2 * j] = EmptyHash[l] /\ ref[l][2 * j + 1] = EmptyHash[l]
      BY <1>3, <3>2, <3>3
    <3>5. ref[l + 1][j] = Compress(ref[l][2 * j], ref[l][2 * j + 1])
      BY ReferenceGrows
    <3>6. QED
      BY <3>4, <3>5, EmptyGrows
  <2>3. QED
    BY <2>1, <2>2
<1> HIDE DEF T
<1>4. \A l \in Levels : l \in T
  BY <1>2, <1>3, EveryLevel
<1>5. QED
  BY <1>4 DEF T

(* The nodes above n leaves are nodes of the complete tree.                *)
LEMMA WidthFits ==
  ASSUME NEW n \in Nat, n <= 2 ^ Height
  PROVE  \A l \in Levels : \A j \in Nat : j < Width(n, l) => j \in Nodes(l)
<1> DEFINE T == {l \in Levels : \A j \in Nat : j < Width(n, l) => j \in Nodes(l)}
<1>1. Height \in Nat \ {0} /\ 2 ^ Height \in Nat
  BY HeightAssumption, PowerPositive
<1>2. 0 \in T
  BY <1>1, WidthHalves, TopNode DEF Levels
<1>3. ASSUME NEW l \in 0 .. Height - 1, l \in T PROVE l + 1 \in T
  <2>1. l \in Nat /\ l \in Levels /\ l + 1 \in Levels
    BY <1>1 DEF Levels
  <2>2. Width(n, l + 1) = (Width(n, l) + 1) \div 2 /\ Width(n, l) \in Nat
    BY <2>1, WidthHalves
  <2>3. ASSUME NEW j \in Nat, j < Width(n, l + 1) PROVE j \in Nodes(l + 1)
    <3>1. 2 * j < Width(n, l) /\ 2 * j \in Nat /\ (2 * j) \div 2 = j
      BY <2>2, <2>3
    <3>2. 2 * j \in Nodes(l)
      BY <1>3, <3>1
    <3>3. QED
      BY <3>1, <3>2, NodesHalve
  <2>4. QED
    BY <2>1, <2>3
<1> HIDE DEF T
<1>4. \A l \in Levels : l \in T
  BY <1>2, <1>3, EveryLevel
<1>5. QED
  BY <1>4 DEF T

(* What raw holds of the tree over the leaves' hashes.                     *)
Stored(hashes) ==
  [l \in Levels |-> [k \in 1 .. Width(Len(hashes), l) |-> Reference(hashes)[l][k - 1]]]

(* Inside the tree a node is read as it is in the complete tree.           *)
LEMMA NodeRead ==
  ASSUME NEW hashes, Len(hashes) \in Nat, NEW l \in Levels, NEW j \in Nodes(l)
  PROVE  NodeAt(Stored(hashes), l, j) = Reference(hashes)[l][j]
<1> DEFINE w == Width(Len(hashes), l)
           row == [k \in 1 .. w |-> Reference(hashes)[l][k - 1]]
<1>1. w \in Nat /\ j \in Nat /\ l \in Nat
  <2>1. j \in Nat /\ l \in Nat
    BY NodeNumbers
  <2>2. QED
    BY <2>1, WidthHalves
<1>2. Stored(hashes)[l] = row
  BY DEF Stored
<1>3. Len(row) = w
  BY <1>1
<1>4. CASE j < w
  <2>1. j + 1 \in 1 .. w /\ (j + 1) - 1 = j
    BY <1>1, <1>4
  <2>2. QED
    BY <1>2, <1>3, <1>4, <2>1 DEF NodeAt
<1>5. CASE ~ (j < w)
  <2>1. Reference(hashes)[l][j] = EmptyHash[l]
    BY <1>1, <1>5, EmptyBeyond
  <2>2. QED
    BY <1>2, <1>3, <1>5, <2>1 DEF NodeAt
<1>6. QED
  BY <1>4, <1>5

(* Climbing from a leaf of a complete tree meets the tree's own nodes.     *)
LEMMA ClimbIsPath ==
  ASSUME NEW hashes, NEW i \in Nodes(0), NEW sibs,
         \A l \in 0 .. Height - 1 : sibs[l] = Reference(hashes)[l][Sibling(i, l)]
  PROVE  HashUp(i, sibs, Reference(hashes)[0][i])
           = [l \in Levels |-> Reference(hashes)[l][Above(i, l)]]
<1> DEFINE ref == Reference(hashes)
           p == HashUp(i, sibs, ref[0][i])
           T == {l \in Levels : p[l] = ref[l][Above(i, l)]}
<1>1. /\ p = [l \in Levels |-> p[l]] /\ p[0] = ref[0][i]
      /\ \A l \in 0 .. Height - 1 : p[l + 1] = Parent(i, l, p[l], sibs[l])
  BY PathGrows
<1>2. i \in Nat /\ 0 \in Levels
  BY NodeNumbers, HeightAssumption DEF Levels
<1> HIDE DEF p
<1>3. 0 \in T
  BY <1>1, <1>2, AboveHalves
<1>4. ASSUME NEW l \in 0 .. Height - 1, l \in T PROVE l + 1 \in T
  <2> DEFINE a == Above(i, l)
             b == Above(i, l + 1)
  <2>1. l \in Nat /\ l + 1 \in Levels /\ l \in Levels
    BY HeightAssumption DEF Levels
  <2>2. a \in Nat /\ b = a \div 2 /\ b \in Nodes(l + 1)
    BY <1>2, <2>1, AboveHalves, PathInTree
  <2>3. ref[l + 1][b] = Compress(ref[l][2 * b], ref[l][2 * b + 1])
    BY <2>2, ReferenceGrows
  <2>4. p[l + 1] = Parent(i, l, ref[l][a], ref[l][Sibling(i, l)])
    BY <1>1, <1>4
  <2>5. CASE IsLeft(i, l)
    <3>1. Sibling(i, l) = a + 1 /\ a % 2 = 0
      BY <2>5 DEF Sibling, IsLeft
    <3>2. a = 2 * b /\ Sibling(i, l) = 2 * b + 1
      BY <2>2, <3>1
    <3>3. QED
      BY <2>1, <2>3, <2>4, <2>5, <3>2 DEF Parent
  <2>6. CASE ~ IsLeft(i, l)
    <3>1. Sibling(i, l) = a - 1 /\ a % 2 # 0
      BY <2>6 DEF Sibling, IsLeft
    <3>2. a = 2 * b + 1 /\ Sibling(i, l) = 2 * b
      BY <2>2, <3>1
    <3>3. QED
      BY <2>1, <2>3, <2>4, <2>6, <3>2 DEF Parent
  <2>7. QED
    BY <2>5, <2>6
<1> HIDE DEF T
<1>5. \A l \in Levels : l \in T
  BY <1>3, <1>4, EveryLevel
<1>6. \A l \in Levels : p[l] = ref[l][Above(i, l)]
  BY <1>5 DEF T
<1>7. QED
  BY <1>1, <1>6 DEF p

-----------------------------------------------------------------------------
(* One leaf of the vector written, or a new one appended                   *)

Written(hashes, i, h) ==
  [k \in 1 .. (IF i < Len(hashes) THEN Len(hashes) ELSE i + 1) |->
     IF k = i + 1 THEN h ELSE hashes[k]]

LEMMA WrittenLength ==
  ASSUME NEW hashes, Len(hashes) \in Nat, NEW i \in 0 .. Len(hashes), NEW h
  PROVE  /\ Len(Written(hashes, i, h)) = IF i < Len(hashes) THEN Len(hashes) ELSE i + 1
         /\ Len(Written(hashes, i, h)) \in Nat
<1> DEFINE m == IF i < Len(hashes) THEN Len(hashes) ELSE i + 1
<1>1. m \in Nat
  OBVIOUS
<1> HIDE DEF m
<1>2. Len([k \in 1 .. m |-> IF k = i + 1 THEN h ELSE hashes[k]]) = m
  BY <1>1
<1>3. QED
  BY <1>1, <1>2 DEF Written, m

(* Nodes that are not above the leaf stay as they are.                     *)
LEMMA Elsewhere ==
  ASSUME NEW hashes, Len(hashes) \in Nat, NEW i \in 0 .. Len(hashes), NEW h
  PROVE  \A l \in Levels : \A j \in Nodes(l) : j # Above(i, l) =>
           Reference(Written(hashes, i, h))[l][j] = Reference(hashes)[l][j]
<1> DEFINE ref == Reference(hashes)
           new == Written(hashes, i, h)
           ren == Reference(new)
           T == {l \in Levels : \A j \in Nodes(l) : j # Above(i, l) => ren[l][j] = ref[l][j]}
<1>1. /\ Len(new) = IF i < Len(hashes) THEN Len(hashes) ELSE i + 1
      /\ i \in Nat /\ 0 \in Levels
  BY WrittenLength, HeightAssumption DEF Levels
<1>2. 0 \in T
  <2>1. ASSUME NEW j \in Nodes(0), j # i PROVE ren[0][j] = ref[0][j]
    <3>1. j \in Nat
      BY <1>1, NodeNumbers
    <3>2. ref[0][j] = IF j < Len(hashes) THEN hashes[j + 1] ELSE EmptyHash[0]
      BY ReferenceGrows
    <3>3. ren[0][j] = IF j < Len(new) THEN new[j + 1] ELSE EmptyHash[0]
      BY ReferenceGrows
    <3>4. j < Len(new) <=> j < Len(hashes)
      BY <1>1, <2>1, <3>1
    <3>5. j < Len(hashes) => new[j + 1] = hashes[j + 1]
      BY <2>1, <3>1 DEF Written
    <3> HIDE DEF new, ref, ren
    <3>6. QED
      BY <3>2, <3>3, <3>4, <3>5
  <2>2. Above(i, 0) = i
    BY <1>1, AboveHalves
  <2>3. QED
    BY <1>1, <2>1, <2>2
<1>3. ASSUME NEW l \in 0 .. Height - 1, l \in T PROVE l + 1 \in T
  <2>1. l \in Nat /\ l \in Levels /\ l + 1 \in Levels
    BY HeightAssumption DEF Levels
  <2>2. ASSUME NEW j \in Nodes(l + 1), j # Above(i, l + 1)
        PROVE  ren[l + 1][j] = ref[l + 1][j]
    <3>1. Above(i, l) \in Nat /\ Above(i, l + 1) = Above(i, l) \div 2
      BY <1>1, <2>1, AboveHalves
    <3>2. j \in Nat
      BY <2>1, NodeNumbers
    <3>3. 2 * j # Above(i, l) /\ 2 * j + 1 # Above(i, l)
      BY <2>2, <3>1, <3>2
    <3>4. 2 * j \in Nodes(l) /\ 2 * j + 1 \in Nodes(l)
      BY NodesHalve
    <3>5. ref[l + 1][j] = Compress(ref[l][2 * j], ref[l][2 * j + 1])
      BY ReferenceGrows
    <3>6. ren[l + 1][j] = Compress(ren[l][2 * j], ren[l][2 * j + 1])
      BY ReferenceGrows
    <3> HIDE DEF new, ref, ren
    <3>7. QED
      BY <1>3, <3>3, <3>4, <3>5, <3>6
  <2>3. QED
    BY <2>1, <2>2
<1> HIDE DEF T
<1>4. \A l \in Levels : l \in T
  BY <1>2, <1>3, EveryLevel
<1>5. QED
  BY <1>4 DEF T

LEMMA WidthGrows ==
  ASSUME NEW n \in Nat, NEW i \in 0 .. n, NEW m, m = IF i < n THEN n ELSE i + 1
  PROVE  \A l \in Levels :
           /\ Above(i, l) \in Nat /\ Width(n, l) \in Nat
           /\ Above(i, l) <= Width(n, l)
           /\ Width(m, l) = IF Above(i, l) < Width(n, l) THEN Width(n, l) ELSE Above(i, l) + 1
<1> DEFINE T == {l \in Levels :
                   /\ Above(i, l) <= Width(n, l)
                   /\ Width(m, l) = IF Above(i, l) < Width(n, l) THEN Width(n, l)
                                    ELSE Above(i, l) + 1}
<1>1. i \in Nat /\ m \in Nat /\ 0 \in Levels
  BY HeightAssumption DEF Levels
<1>2. 0 \in T
  <2>1. Above(i, 0) = i /\ Width(n, 0) = n /\ Width(m, 0) = m
    BY <1>1, AboveHalves, WidthHalves
  <2>2. QED
    BY <1>1, <2>1
<1>3. ASSUME NEW l \in 0 .. Height - 1, l \in T PROVE l + 1 \in T
  <2>1. l \in Nat /\ l \in Levels /\ l + 1 \in Levels
    BY HeightAssumption DEF Levels
  <2>2. Above(i, l) \in Nat /\ Above(i, l + 1) = Above(i, l) \div 2
    BY <1>1, <2>1, AboveHalves
  <2>3. /\ Width(n, l) \in Nat /\ Width(n, l + 1) = (Width(n, l) + 1) \div 2
        /\ Width(m, l + 1) = (Width(m, l) + 1) \div 2
    BY <1>1, <2>1, WidthHalves
  <2>4. QED
    BY <1>3, <2>1, <2>2, <2>3
<1> HIDE DEF T
<1>4. \A l \in Levels : l \in T
  BY <1>2, <1>3, EveryLevel
<1>5. \A l \in Levels : l \in Nat
  BY HeightAssumption DEF Levels
<1>6. QED
  BY <1>1, <1>4, <1>5, AboveHalves, WidthHalves DEF T

LEMMA AppendCell ==
  ASSUME NEW w \in Nat, NEW s, s = [k \in 1 .. w |-> s[k]], NEW e
  PROVE  Append(s, e) = [k \in 1 .. w + 1 |-> IF k <= w THEN s[k] ELSE e]
<1> DEFINE S == {s[k] : k \in 1 .. w} \cup {e}
           t == [k \in 1 .. w + 1 |-> IF k <= w THEN s[k] ELSE e]
<1>1. s \in [1 .. w -> S]
  <2>1. \A k \in 1 .. w : s[k] \in S
    OBVIOUS
  <2> HIDE DEF S
  <2>2. QED
    BY <2>1
<1>2. s \in Seq(S) /\ e \in S
  BY <1>1, SeqDef
<1>3. Len(s) = w
  BY <1>1, <1>2, LenProperties
<1> HIDE DEF S
<1>4. t \in [1 .. w + 1 -> S]
  BY <1>1, <1>2
<1>5. t \in Seq(S) /\ Len(t) = w + 1
  BY <1>4, SeqDef
<1>6. /\ Append(s, e) \in Seq(S) /\ Len(Append(s, e)) = w + 1
      /\ \A k \in 1 .. w : Append(s, e)[k] = s[k]
      /\ Append(s, e)[w + 1] = e
  BY <1>2, <1>3, AppendProperties
<1>7. \A k \in 1 .. w + 1 : Append(s, e)[k] = t[k]
  BY <1>6
<1> HIDE DEF t
<1>8. Append(s, e) = t
  BY <1>5, <1>6, <1>7, SeqEqual
<1>9. QED
  BY <1>8 DEF t

(* finalize_update and finalize_insert: rehashing the path above one leaf  *)
(* gives the complete tree over the leaves so written.                     *)
LEMMA RehashStored ==
  ASSUME NEW hashes, Len(hashes) \in Nat, Len(hashes) <= 2 ^ Height,
         NEW i \in 0 .. Len(hashes), i \in Nodes(0), NEW leaf
  PROVE  LET new == Written(hashes, i, LeafHash(leaf)) IN
         /\ Rehashed(Stored(hashes), i, leaf) = Stored(new)
         /\ HashUp(i, Siblings(Stored(hashes), i), LeafHash(leaf))
              = [l \in Levels |-> Reference(new)[l][Above(i, l)]]
<1> DEFINE h == LeafHash(leaf)
           new == Written(hashes, i, h)
           ref == Reference(hashes)
           ren == Reference(new)
           raw0 == Stored(hashes)
           sibs == Siblings(raw0, i)
           path == HashUp(i, sibs, h)
           n == Len(hashes)
           m == Len(new)
<1>1. i \in Nat /\ n \in Nat /\ m = IF i < n THEN n ELSE i + 1
  BY WrittenLength
<1>2. m \in Nat /\ m <= 2 ^ Height
  <2>1. i <= 2 ^ Height - 1 /\ 2 ^ Height \in Nat
    BY <1>1, TopNode, HeightAssumption, PowerPositive
  <2> HIDE DEF m, n
  <2>2. QED
    BY <1>1, <2>1 DEF n
<1>3. \A l \in Levels : \A j \in Nodes(l) : j # Above(i, l) => ren[l][j] = ref[l][j]
  BY Elsewhere
<1>4. ASSUME NEW l \in 0 .. Height - 1 PROVE sibs[l] = ren[l][Sibling(i, l)]
  <2>1. l \in Levels /\ l \in Nat
    BY HeightAssumption DEF Levels
  <2>2. Sibling(i, l) \in Nodes(l)
    BY PathInTree
  <2>3. Above(i, l) \in Nat
    BY <1>1, <2>1, AboveHalves
  <2>4. Sibling(i, l) # Above(i, l)
    BY <2>3 DEF Sibling
  <2>5. sibs[l] = NodeAt(raw0, l, Sibling(i, l))
    BY DEF Siblings
  <2>6. NodeAt(raw0, l, Sibling(i, l)) = ref[l][Sibling(i, l)]
    BY <2>1, <2>2, NodeRead
  <2>7. QED
    BY <1>3, <2>1, <2>2, <2>4, <2>5, <2>6
<1>5. ren[0][i] = h
  <2>1. ren[0][i] = IF i < m THEN new[i + 1] ELSE EmptyHash[0]
    BY ReferenceGrows
  <2>2. new[i + 1] = h
    BY <1>1 DEF Written
  <2>3. QED
    BY <1>1, <2>1, <2>2
<1> HIDE DEF sibs, new, h
<1>6. path = [l \in Levels |-> ren[l][Above(i, l)]]
  BY <1>4, <1>5, ClimbIsPath, ZenonT(60)
<1> HIDE DEF path
<1> DEFINE At(l) == Above(i, l) + 1
           row(l) == [k \in 1 .. Width(n, l) |-> ref[l][k - 1]]
           ren_row(l) == [k \in 1 .. Width(m, l) |-> ren[l][k - 1]]
<1>7. ASSUME NEW l \in Levels
      PROVE  ren_row(l) = IF At(l) <= Len(row(l)) THEN [row(l) EXCEPT ![At(l)] = path[l]]
                          ELSE Append(row(l), path[l])
  <2> DEFINE a == Above(i, l)
             w == Width(n, l)
             s == row(l)
  <2>1. /\ a \in Nat /\ w \in Nat /\ a <= w
        /\ Width(m, l) = IF a < w THEN w ELSE a + 1
    BY <1>1, WidthGrows
  <2>2. path[l] = ren[l][a]
    BY <1>6
  <2>3. Len(s) = w /\ s = [k \in 1 .. w |-> s[k]]
    BY <2>1
  <2>4. \A k \in 1 .. w : k - 1 \in Nodes(l)
    <3>1. \A k \in 1 .. w : k - 1 \in Nat /\ k - 1 < w
      BY <2>1
    <3>2. QED
      BY <1>1, <3>1, WidthFits
  <2>5. \A k \in 1 .. w : k - 1 # a => ren[l][k - 1] = s[k]
    BY <1>3, <2>4
  <2> HIDE DEF a, w, s
  <2>6. CASE a < w
    <3>1. [s EXCEPT ![a + 1] = path[l]] = [k \in 1 .. w |-> ren[l][k - 1]]
      <4>1. \A k \in 1 .. w : (k = a + 1 => k - 1 = a) /\ (k # a + 1 => k - 1 # a)
        BY <2>1
      <4>2. QED
        BY <2>2, <2>3, <2>5, <4>1
    <3>2. a + 1 <= w /\ Width(m, l) = w
      BY <2>1, <2>6
    <3>3. QED
      BY <2>3, <3>1, <3>2 DEF a, w, s
  <2>7. CASE ~ (a < w)
    <3>1. a = w /\ Width(m, l) = w + 1 /\ ~ (a + 1 <= w)
      BY <2>1, <2>7
    <3>2. Append(s, path[l]) = [k \in 1 .. w + 1 |-> IF k <= w THEN s[k] ELSE path[l]]
      BY <2>1, <2>3, AppendCell
    <3>3. \A k \in 1 .. w + 1 : ren[l][k - 1] = IF k <= w THEN s[k] ELSE path[l]
      <4>1. ASSUME NEW k \in 1 .. w + 1, k <= w PROVE ren[l][k - 1] = s[k]
        <5>1. k \in 1 .. w /\ k - 1 # a
          BY <2>1, <3>1, <4>1
        <5>2. QED
          BY <2>5, <5>1
      <4>2. ASSUME NEW k \in 1 .. w + 1, ~ (k <= w) PROVE ren[l][k - 1] = path[l]
        <5>1. k - 1 = a
          BY <2>1, <3>1, <4>2
        <5>2. QED
          BY <2>2, <5>1
      <4>3. QED
        BY <4>1, <4>2
    <3>4. Append(s, path[l]) = [k \in 1 .. w + 1 |-> ren[l][k - 1]]
      BY <3>2, <3>3
    <3>5. QED
      BY <2>3, <3>1, <3>4 DEF a, w, s
  <2>8. QED
    BY <2>6, <2>7
<1>8. Stored(new) = [l \in Levels |-> ren_row(l)]
  BY DEF Stored
<1>9. \A l \in Levels : raw0[l] = row(l)
  BY DEF Stored
<1>10. Rehashed(raw0, i, leaf)
         = [l \in Levels |-> IF At(l) <= Len(raw0[l]) THEN [raw0[l] EXCEPT ![At(l)] = path[l]]
                             ELSE Append(raw0[l], path[l])]
  BY DEF Rehashed, path, sibs, h
<1> HIDE DEF row, ren_row, raw0, At
<1>11. Rehashed(raw0, i, leaf) = Stored(new)
  BY <1>7, <1>8, <1>9, <1>10
<1>12. QED
  BY <1>6, <1>11 DEF raw0, new, h, path, sibs

-----------------------------------------------------------------------------
(* Openings                                                                *)

RootOf(hashes) == Reference(hashes)[Height][0]

LEMMA RootStored ==
  ASSUME NEW hashes, Len(hashes) \in Nat \ {0}
  PROVE  Stored(hashes)[Height][1] = RootOf(hashes)
<1> DEFINE n == Len(hashes)
           T == {l \in Levels : 1 <= Width(n, l)}
<1>1. 0 \in T
  <2>1. 0 \in Levels /\ Width(n, 0) = n
    BY WidthHalves, HeightAssumption DEF Levels
  <2>2. QED
    BY <2>1
<1>2. ASSUME NEW l \in 0 .. Height - 1, l \in T PROVE l + 1 \in T
  <2>1. l \in Nat /\ l + 1 \in Levels
    BY HeightAssumption DEF Levels
  <2>2. Width(n, l) \in Nat /\ Width(n, l + 1) = (Width(n, l) + 1) \div 2
    BY <2>1, WidthHalves
  <2>3. QED
    BY <1>2, <2>1, <2>2
<1> HIDE DEF T
<1>3. Height \in Levels /\ \A l \in Levels : l \in T
  BY <1>1, <1>2, EveryLevel, HeightAssumption DEF Levels
<1>4. 1 <= Width(n, Height) /\ Width(n, Height) \in Nat
  BY <1>3, WidthHalves, HeightAssumption DEF T
<1>5. 1 \in 1 .. Width(n, Height) /\ 1 - 1 = 0
  BY <1>4
<1>6. QED
  BY <1>3, <1>5 DEF Stored, RootOf

(* The hash of leaf i of the tree, of an empty leaf behind the last.       *)
LeafAt(hashes, i) == IF i < Len(hashes) THEN hashes[i + 1] ELSE EmptyHash[0]

(* An opening taken from the levels of a tree verifies against its root,   *)
(* and recomputes the root of the tree with the leaf written.              *)
LEMMA OpeningHolds ==
  ASSUME NEW hashes, Len(hashes) \in Nat, Len(hashes) <= 2 ^ Height,
         NEW i \in 0 .. Len(hashes), i \in Nodes(0), NEW before, NEW after,
         LeafHash(before) = LeafAt(hashes, i)
  PROVE  LET o   == Opening(Stored(hashes), i, before, after)
             new == Written(hashes, i, LeafHash(after))
         IN  /\ Opens(o, RootOf(hashes))
             /\ o.updated[Height] = RootOf(new)
<1> DEFINE raw0 == Stored(hashes)
           sibs == Siblings(raw0, i)
           o    == Opening(raw0, i, before, after)
           new  == Written(hashes, i, LeafHash(after))
           ref  == Reference(hashes)
<1>1. i % 2 ^ Height = i
  <2>1. 2 ^ Height \in Nat /\ i \in Nat /\ i <= 2 ^ Height - 1
    BY TopNode, HeightAssumption, PowerPositive
  <2>2. \A k \in Nat : i <= k - 1 => i % k = i
    BY <2>1
  <2>3. QED
    BY <2>1, <2>2
<1>2. Height \in Levels /\ Above(i, Height) = 0
  BY PathInTree, HeightAssumption DEF Levels
<1>3. HashUp(i, sibs, LeafHash(after)) = [l \in Levels |-> Reference(new)[l][Above(i, l)]]
  BY RehashStored
<1>4. StoredPath(raw0, i) = [l \in Levels |-> ref[l][Above(i, l)]]
  <2>1. \A l \in Levels : NodeAt(raw0, l, Above(i, l)) = ref[l][Above(i, l)]
    BY PathInTree, NodeRead
  <2> HIDE DEF raw0, ref
  <2>2. QED
    BY <2>1 DEF StoredPath
<1>5. HashUp(i, sibs, LeafHash(before)) = [l \in Levels |-> ref[l][Above(i, l)]]
  <2>1. LeafHash(before) = ref[0][i]
    BY ReferenceGrows DEF LeafAt
  <2>2. ASSUME NEW l \in 0 .. Height - 1 PROVE sibs[l] = ref[l][Sibling(i, l)]
    <3>1. l \in Levels /\ Sibling(i, l) \in Nodes(l)
      BY PathInTree, HeightAssumption DEF Levels
    <3>2. sibs[l] = NodeAt(raw0, l, Sibling(i, l))
      BY DEF Siblings
    <3>3. QED
      BY <3>1, <3>2, NodeRead
  <2> HIDE DEF sibs
  <2>3. QED
    BY <2>1, <2>2, ClimbIsPath
<1> HIDE DEF raw0, sibs, new, ref
<1>6. /\ o.index = i /\ o.before = before /\ o.after = after
      /\ o.siblings = sibs
      /\ o.path = StoredPath(raw0, i)
      /\ o.updated = HashUp(i, sibs, LeafHash(after))
  BY <1>1 DEF Opening, sibs
<1>7. o.path[Height] = ref[Height][0] /\ o.updated[Height] = Reference(new)[Height][0]
  BY <1>2, <1>3, <1>4, <1>6
<1>8. Opens(o, RootOf(hashes))
  <2>1. RootOf(hashes) = ref[Height][0]
    BY DEF RootOf, ref
  <2> HIDE DEF o
  <2>2. QED
    BY <1>4, <1>5, <1>6, <1>7, <2>1 DEF Opens
<1>9. QED
  BY <1>6, <1>7, <1>8 DEF raw0, new, RootOf

-----------------------------------------------------------------------------
(* The hashes of the leaves after a call                                   *)

LEMMA HashesOf ==
  ASSUME NEW v, Len(v) \in Nat
  PROVE  /\ Len(Hashes(v)) = Len(v)
         /\ \A k \in 1 .. Len(v) : Hashes(v)[k] = LeafHash(v[k])
BY DEF Hashes

LEMMA OneEdit ==
  ASSUME NEW v, NEW w, Len(v) \in Nat, NEW p \in 1 .. Len(v), Len(w) = Len(v),
         \A k \in 1 .. Len(v) : k # p => w[k] = v[k]
  PROVE  Hashes(w) = Written(Hashes(v), p - 1, LeafHash(w[p]))
<1> DEFINE n == Len(v)
           a == Hashes(v)
<1>1. Len(a) = n /\ \A k \in 1 .. n : a[k] = LeafHash(v[k])
  BY HashesOf
<1> HIDE DEF a
<1>2. p - 1 < n /\ (p - 1) + 1 = p
  OBVIOUS
<1>3. Written(a, p - 1, LeafHash(w[p]))
        = [k \in 1 .. n |-> IF k = p THEN LeafHash(w[p]) ELSE a[k]]
  BY <1>1, <1>2 DEF Written
<1>4. \A k \in 1 .. n : LeafHash(w[k]) = IF k = p THEN LeafHash(w[p]) ELSE a[k]
  BY <1>1
<1>5. Hashes(w) = [k \in 1 .. n |-> LeafHash(w[k])]
  BY DEF Hashes
<1> HIDE DEF n
<1>6. QED
  BY <1>3, <1>4, <1>5 DEF a

(* Leaf p rewritten, and leaf q rewritten or appended.                     *)
LEMMA TwoEdits ==
  ASSUME NEW v, NEW w, Len(v) \in Nat, NEW p \in 1 .. Len(v), NEW q \in 1 .. Len(v) + 1,
         p # q, Len(w) = IF q <= Len(v) THEN Len(v) ELSE q,
         \A k \in 1 .. Len(v) : k # p /\ k # q => w[k] = v[k]
  PROVE  Hashes(w)
           = Written(Written(Hashes(v), p - 1, LeafHash(w[p])), q - 1, LeafHash(w[q]))
<1> DEFINE n == Len(v)
           a == Hashes(v)
           b == Written(a, p - 1, LeafHash(w[p]))
<1>1. Len(a) = n /\ \A k \in 1 .. n : a[k] = LeafHash(v[k])
  BY HashesOf
<1> HIDE DEF a
<1>2. p - 1 < n /\ (p - 1) + 1 = p /\ p - 1 \in 0 .. Len(a)
  BY <1>1
<1>3. b = [k \in 1 .. n |-> IF k = p THEN LeafHash(w[p]) ELSE a[k]]
  BY <1>1, <1>2 DEF Written
<1>4. Len(b) = n
  BY <1>1, <1>2, WrittenLength
<1> HIDE DEF b
<1>5. (q - 1 < n <=> q <= n) /\ (q - 1) + 1 = q
  OBVIOUS
<1>6. Written(b, q - 1, LeafHash(w[q]))
        = [k \in 1 .. Len(w) |-> IF k = q THEN LeafHash(w[q]) ELSE b[k]]
  BY <1>4, <1>5 DEF Written
<1>7. ASSUME NEW k \in 1 .. Len(w)
      PROVE  LeafHash(w[k]) = IF k = q THEN LeafHash(w[q]) ELSE b[k]
  <2>1. k # q => k \in 1 .. n
    OBVIOUS
  <2>2. QED
    BY <1>1, <1>3, <2>1
<1>8. Hashes(w) = [k \in 1 .. Len(w) |-> LeafHash(w[k])]
  BY DEF Hashes
<1>9. QED
  BY <1>6, <1>7, <1>8 DEF a, b

-----------------------------------------------------------------------------
(* The machine: the levels are those of the complete tree                  *)

HashesHold ==
  /\ raw = Stored(Hashes(tree.leaves)) /\ root = RootOf(Hashes(tree.leaves))
  /\ Len(tree.leaves) \in Nat \ {0} /\ Len(tree.leaves) <= 2 ^ Height

(* A verifier that is given these openings accepts the proof.              *)
VerifierAccepts(openings, p) ==
  /\ \A k \in 1 .. Len(openings) :
       Opens(openings[k], IF k = 1 THEN p.initial ELSE openings[k - 1].updated[Height])
  /\ openings[Len(openings)].updated[Height] = p.final

(* An opening with these leaves.                                           *)
Shows(o, before, after) ==
  /\ o = [o EXCEPT !.before = before, !.after = after]
  /\ o.before = before /\ o.after = after

TwoOpenings(p, before1, after1, before2, after2) ==
  /\ Len(p.openings) = 2 /\ VerifierAccepts(p.openings, p)
  /\ p.openings = <<p.openings[1], p.openings[2]>>
  /\ Shows(p.openings[1], before1, after1) /\ Shows(p.openings[2], before2, after2)

Chains == proof'.initial = root /\ proof'.final = root'

(* A proof that chains, and shows the leaves the call changes.             *)
Follows == Chains /\ Replays(proof'.openings, tree.leaves, tree'.leaves)

(* An index the height has room for keeps all its bits.                    *)
LEMMA IndexKept ==
  ASSUME NEW i \in Nat, i < 2 ^ Height
  PROVE  i % 2 ^ Height = i
<1> DEFINE c == 2 ^ Height
<1>1. c \in Nat \ {0} /\ i < c
  BY HeightAssumption, PowerPositive
<1> HIDE DEF c
<1>2. i % c = i
  BY <1>1
<1>3. QED
  BY <1>2 DEF c

LEMMA OpeningShows ==
  ASSUME NEW r, NEW i, NEW before, NEW after
  PROVE  Shows(Opening(r, i, before, after), before, after)
<1> DEFINE o == Opening(r, i, before, after)
<1>1. o.before = before /\ o.after = after /\ o = [k \in DOMAIN o |-> o[k]]
  BY DEF Opening
<1> HIDE DEF o
<1>2. Shows(o, before, after)
  BY ONLY <1>1 DEF Shows
<1>3. QED
  BY <1>2 DEF o

LEMMA RewriteKeeps ==
  ASSUME HashesHold, NEW i \in 0 .. Len(tree.leaves) - 1, NEW before1, NEW after1,
         NEW j \in 0 .. Len(tree.leaves), NEW before2, NEW after2,
         Rewrite(i, before1, after1, j, before2, after2),
         LeafHash(before1) = Hashes(tree.leaves)[i + 1],
         LeafHash(before2)
           = LeafAt(Written(Hashes(tree.leaves), i, LeafHash(after1)), j),
         Hashes(tree'.leaves)
           = Written(Written(Hashes(tree.leaves), i, LeafHash(after1)), j, LeafHash(after2)),
         Len(tree'.leaves) \in Nat \ {0}, Len(tree'.leaves) <= 2 ^ Height,
         j < Len(tree'.leaves)
  PROVE  /\ HashesHold' /\ Chains /\ TwoOpenings(proof', before1, after1, before2, after2)
         /\ proof'.openings[1].index = i /\ proof'.openings[2].index = j
<1> DEFINE hs   == Hashes(tree.leaves)
           mid  == Written(hs, i, LeafHash(after1))
           new  == Hashes(tree'.leaves)
           mraw == Rehashed(raw, i, after1)
           o1   == Opening(raw, i, before1, after1)
           o2   == Opening(mraw, j, before2, after2)
           n    == Len(tree.leaves)
<1>1. /\ n \in Nat \ {0} /\ n <= 2 ^ Height /\ raw = Stored(hs) /\ root = RootOf(hs)
      /\ 2 ^ Height \in Nat
  BY HeightAssumption, PowerPositive DEF HashesHold
<1>2. Len(hs) = n /\ Len(new) = Len(tree'.leaves)
  BY <1>1, HashesOf
<1> HIDE DEF n
<1>3. i < n /\ i \in 0 .. n /\ i \in Nat /\ j \in Nat
  BY <1>1 DEF n
<1> HIDE DEF hs, new
<1>4. Len(mid) = n
  BY <1>1, <1>2, <1>3, WrittenLength
<1>5. i \in Nodes(0) /\ j \in Nodes(0)
  BY <1>1, <1>3, TopNode
<1>6. mraw = Stored(mid)
  BY <1>1, <1>2, <1>3, <1>5, RehashStored
<1>7. Opens(o1, root) /\ o1.updated[Height] = RootOf(mid)
  <2>1. LeafHash(before1) = LeafAt(hs, i)
    BY <1>2, <1>3 DEF LeafAt, hs
  <2>2. /\ Opens(Opening(Stored(hs), i, before1, after1), RootOf(hs))
        /\ Opening(Stored(hs), i, before1, after1).updated[Height]
             = RootOf(Written(hs, i, LeafHash(after1)))
    <3>1. Len(hs) \in Nat /\ Len(hs) <= 2 ^ Height /\ i \in 0 .. Len(hs)
      BY <1>1, <1>2, <1>3
    <3>2. QED
      BY <3>1, <1>5, <2>1, OpeningHolds
  <2>3. QED
    BY <1>1, <2>2
<1>8. LeafHash(before2) = LeafAt(mid, j) /\ new = Written(mid, j, LeafHash(after2))
  BY DEF mid, hs, new
<1>9. j \in 0 .. Len(mid)
  BY <1>4 DEF n
<1> HIDE DEF mid, mraw
<1>10. Opens(o2, RootOf(mid)) /\ o2.updated[Height] = RootOf(new)
  BY <1>1, <1>4, <1>5, <1>6, <1>8, <1>9, OpeningHolds
<1>11. Rehashed(mraw, j, after2) = Stored(new)
  BY <1>1, <1>4, <1>5, <1>6, <1>8, <1>9, RehashStored
<1>12. Shows(o1, before1, after1) /\ Shows(o2, before2, after2)
  BY OpeningShows
<1>18. o1.index = i /\ o2.index = j
  <2>1. i < 2 ^ Height /\ j < 2 ^ Height
    <3>1. n \in Nat /\ n <= 2 ^ Height /\ 2 ^ Height \in Nat /\ i < n
      BY <1>1, <1>3
    <3>2. QED
      BY <1>3, <3>1
  <2>2. i % 2 ^ Height = i /\ j % 2 ^ Height = j
    BY <1>3, <2>1, IndexKept
  <2>3. QED
    BY <2>2 DEF Opening
<1> HIDE DEF o1, o2
<1>13. /\ raw' = Stored(new) /\ root' = Stored(new)[Height][1]
       /\ proof' = [initial |-> root, openings |-> <<o1, o2>>, final |-> o2.updated[Height]]
  BY <1>11 DEF Rewrite, o1, o2, mraw
<1>14. root' = RootOf(new)
  BY <1>2, <1>13, RootStored
<1>15. HashesHold'
  BY <1>13, <1>14 DEF HashesHold, new
<1>16. TwoOpenings(proof', before1, after1, before2, after2)
  <2>1. /\ proof'.openings = <<o1, o2>> /\ proof'.initial = root
        /\ proof'.final = o2.updated[Height]
    BY <1>13
  <2>2. /\ Len(<<o1, o2>>) = 2 /\ <<o1, o2>>[1] = o1 /\ <<o1, o2>>[2] = o2
    OBVIOUS
  <2>3. \A k \in 1 .. 2 : k = 1 \/ (k = 2 /\ k - 1 = 1)
    OBVIOUS
  <2>4. VerifierAccepts(proof'.openings, proof')
    BY <1>7, <1>10, <2>1, <2>2, <2>3 DEF VerifierAccepts
  <2>5. QED
    BY <1>7, <1>10, <1>12, <2>1, <2>2, <2>4 DEF TwoOpenings
<1>17. Chains
  BY <1>10, <1>13, <1>14 DEF Chains
<1>19. proof'.openings[1] = o1 /\ proof'.openings[2] = o2
  BY <1>13
<1>20. QED
  BY <1>15, <1>16, <1>17, <1>18, <1>19

(* The verify method of each call, on two accepted openings.               *)
LEMMA OpenedVerifies ==
  ASSUME NEW p, NEW before1, NEW after1, NEW before2, NEW after2, NEW op,
         NEW filled, TwoOpenings(p, before1, after1, before2, after2),
         \/ /\ op = "insert" /\ before1.active
            /\ Before(Side, before1.label, after2.label)
            /\ Before(Side, after2.label, before1.next) \/ before1.next = Default
         \/ op = "cancel_at_index" /\ before1.active
         \/ /\ op = "match_order" /\ before1 = HeadLeaf(before2.label)
            /\ after1 = HeadLeaf(before2.next)
         \/ /\ op = "match_partially" /\ before1 = HeadLeaf(before2.label)
            /\ after1 = HeadLeaf(before2.label)
            /\ filled + after2.volume = before2.volume
  PROVE  Verifies(op, filled, p)
<1> DEFINE os == p.openings
<1>1. /\ Len(os) = 2 /\ VerifierAccepts(os, p) /\ os = <<os[1], os[2]>>
      /\ os[1] = [os[1] EXCEPT !.before = before1, !.after = after1]
      /\ os[1].before = before1 /\ os[1].after = after1
      /\ os[2].before = before2 /\ os[2].after = after2
  BY DEF TwoOpenings, Shows
<1> HIDE DEF os
<1>2. os = [os EXCEPT ![1].before = before1, ![1].after = after1]
  <2>1. os = [k \in DOMAIN os |-> os[k]] /\ 1 \in DOMAIN os
    BY <1>1
  <2>2. QED
    BY <1>1, <2>1
<1>3. Claimed(op, p) = os
  <2>1. CASE op \in {"match_order", "match_partially"}
    <3>1. Claimed(op, p)
            = [os EXCEPT ![1].before = HeadLeaf(before2.label),
                         ![1].after  = HeadLeaf(IF op = "match_order" THEN before2.next
                                                ELSE before2.label)]
      BY <1>1, <2>1 DEF Claimed, os
    <3>2. before1 = HeadLeaf(before2.label)
      BY <2>1
    <3>3. after1 = HeadLeaf(IF op = "match_order" THEN before2.next ELSE before2.label)
      BY <2>1
    <3>4. QED
      BY <1>2, <3>1, <3>2, <3>3
  <2>2. CASE op \notin {"match_order", "match_partially"}
    BY <2>2 DEF Claimed, os
  <2>3. QED
    BY <2>1, <2>2
<1>4. op # "update"
  OBVIOUS
<1>5. op \in {"insert", "cancel_at_index"} => before1.active
  OBVIOUS
<1>6. op = "insert" => /\ Before(Side, before1.label, after2.label)
                       /\ Before(Side, after2.label, before1.next) \/ before1.next = Default
  OBVIOUS
<1>7. op = "match_partially" => filled + after2.volume = before2.volume
  OBVIOUS
<1>8. QED
  BY <1>1, <1>3, <1>4, <1>5, <1>6, <1>7 DEF Verifies, VerifierAccepts

-----------------------------------------------------------------------------
(* The calls                                                               *)

MerkleInv == IInv /\ HashesHold /\ ProofVerifies /\ proof.final = root

Kept == /\ MerkleInv'
        /\ call'.outcome = "ok" => Follows
        /\ call'.outcome # "ok" => UNCHANGED <<tree, raw, root, proof>>

LEMMA InvFacts ==
  ASSUME MerkleInv
  PROVE  /\ IInv /\ HashesHold /\ TreeInv(Side, tree) /\ Side \in Sides
         /\ tree.leaves \in Seq(Leaf) /\ Len(tree.leaves) \in Nat \ {0}
         /\ Len(tree.leaves) <= 2 ^ Height /\ 2 ^ Height \in Nat
         /\ LeafHash(EmptyLeaf) = EmptyHash[0]
BY IMTAssumption, HeightAssumption, PowerPositive, EmptyGrows
DEF MerkleInv, IInv, HashesHold, TreeInv, TreeType

(* A call that fails changes no hash.                                      *)
LEMMA FailureKeeps ==
  ASSUME MerkleInv, IInv', tree' = tree, KeepHashes, call'.outcome # "ok"
  PROVE  Kept
<1>1. HashesHold'
  BY DEF MerkleInv, HashesHold, KeepHashes
<1>2. ProofVerifies'
  BY DEF ProofVerifies
<1>3. UNCHANGED <<tree, raw, root, proof>>
  BY DEF KeepHashes
<1>4. (proof.final = root)'
  BY <1>3 DEF MerkleInv
<1>5. QED
  BY <1>1, <1>2, <1>3, <1>4 DEF Kept, MerkleInv

LEMMA SuccessKeeps ==
  ASSUME IInv', HashesHold', Follows, Done,
         Verifies(call'.op, call'.volume, proof')
  PROVE  Kept
BY DEF Kept, MerkleInv, ProofVerifies, Follows, Chains, Done

(* Openings of leaf p and of leaf q, or of the slot after the last.        *)
LEMMA TwoReplayed ==
  ASSUME NEW os, Len(os) = 2, NEW old, NEW new, Len(old) \in Nat,
         NEW p \in 1 .. Len(old), NEW q \in 1 .. Len(old) + 1, p # q,
         Len(new) = IF q <= Len(old) THEN Len(old) ELSE q,
         \A k \in 1 .. Len(old) : k # p /\ k # q => new[k] = old[k],
         os[1].index = p - 1, os[1].before = old[p], os[1].after = new[p],
         os[2].index = q - 1, os[2].after = new[q],
         os[2].before = IF q <= Len(old) THEN old[q] ELSE EmptyLeaf
  PROVE  Replays(os, old, new)
<1> DEFINE Touched(k) == {i \in 1 .. Len(os) : os[i].index = k - 1}
<1>1. Len(old) <= Len(new) /\ Len(new) \in Nat
  OBVIOUS
<1>2. \A i \in 1 .. Len(os) : i = 1 \/ i = 2
  OBVIOUS
<1>3. ASSUME NEW k \in 1 .. Len(new)
      PROVE  IF Touched(k) = {} THEN k <= Len(old) /\ new[k] = old[k]
             ELSE \A i \in Touched(k) :
                    /\ os[i].before = IF k <= Len(old) THEN old[k] ELSE EmptyLeaf
                    /\ os[i].after = new[k]
  <2>1. CASE k = p
    <3>1. k <= Len(old) /\ 1 \in Touched(k) /\ \A i \in Touched(k) : i = 1
      BY <1>2, <2>1
    <3>2. QED
      BY <2>1, <3>1
  <2>2. CASE k = q
    <3>1. 2 \in Touched(k) /\ \A i \in Touched(k) : i = 2
      BY <1>2, <2>2
    <3>2. QED
      BY <2>2, <3>1
  <2>3. CASE k # p /\ k # q
    <3>1. Touched(k) = {}
      BY <1>2, <2>3
    <3>2. k \in 1 .. Len(old)
      BY <2>3
    <3>3. QED
      BY <2>3, <3>1, <3>2
  <2>4. QED
    BY <2>1, <2>2, <2>3
<1>4. QED
  BY <1>1, <1>3 DEF Replays

LEMMA OneReplayed ==
  ASSUME NEW os, Len(os) = 1, NEW old, NEW new, Len(old) \in Nat, NEW q \in 1 .. Len(old),
         Len(new) = Len(old), \A k \in 1 .. Len(old) : k # q => new[k] = old[k],
         os[1].index = q - 1, os[1].before = old[q], os[1].after = new[q]
  PROVE  Replays(os, old, new)
<1> DEFINE Touched(k) == {i \in 1 .. Len(os) : os[i].index = k - 1}
<1>1. ASSUME NEW k \in 1 .. Len(new)
      PROVE  IF Touched(k) = {} THEN k <= Len(old) /\ new[k] = old[k]
             ELSE \A i \in Touched(k) :
                    /\ os[i].before = IF k <= Len(old) THEN old[k] ELSE EmptyLeaf
                    /\ os[i].after = new[k]
  <2>1. CASE k = q
    <3>1. k <= Len(old) /\ 1 \in Touched(k) /\ \A i \in Touched(k) : i = 1
      BY <2>1
    <3>2. QED
      BY <2>1, <3>1
  <2>2. CASE k # q
    <3>1. Touched(k) = {} /\ k \in 1 .. Len(old)
      BY <2>2
    <3>2. QED
      BY <2>2, <3>1
  <2>3. QED
    BY <2>1, <2>2
<1>2. QED
  BY <1>1 DEF Replays

(* A call that writes leaf p, and writes leaf q or appends it.             *)
LEMMA CallRewrites ==
  ASSUME MerkleInv, NEW p \in 1 .. Len(tree.leaves), NEW q \in 1 .. Len(tree.leaves) + 1, p # q,
         NEW i, i = p - 1, NEW j, j = q - 1,
         Len(tree'.leaves) = IF q <= Len(tree.leaves) THEN Len(tree.leaves) ELSE q,
         Len(tree'.leaves) <= 2 ^ Height,
         \A k \in 1 .. Len(tree.leaves) : k # p /\ k # q => tree'.leaves[k] = tree.leaves[k],
         NEW before1, before1 = tree.leaves[p], NEW after1, after1 = tree'.leaves[p],
         NEW before2, before2 = IF q <= Len(tree.leaves) THEN tree.leaves[q] ELSE EmptyLeaf,
         NEW after2, after2 = tree'.leaves[q],
         Rewrite(i, before1, after1, j, before2, after2)
  PROVE  HashesHold' /\ Follows /\ TwoOpenings(proof', before1, after1, before2, after2)
<1> DEFINE n == Len(tree.leaves)
           hs == Hashes(tree.leaves)
           mid == Written(hs, i, LeafHash(after1))
<1>1. /\ n \in Nat \ {0} /\ HashesHold /\ LeafHash(EmptyLeaf) = EmptyHash[0]
      /\ n <= 2 ^ Height
  BY InvFacts
<1>2. Len(hs) = n /\ \A k \in 1 .. n : hs[k] = LeafHash(tree.leaves[k])
  BY <1>1, HashesOf
<1>3. i \in 0 .. n - 1 /\ j \in 0 .. n /\ j < Len(tree'.leaves) /\ Len(tree'.leaves) \in Nat \ {0}
  BY <1>1
<1>4. LeafHash(before1) = hs[i + 1]
  BY <1>2
<1>5. Hashes(tree'.leaves) = Written(mid, j, LeafHash(after2))
  <2>1. Hashes(tree'.leaves)
          = Written(Written(Hashes(tree.leaves), p - 1, LeafHash(tree'.leaves[p])),
                    q - 1, LeafHash(tree'.leaves[q]))
    <3> DEFINE v == tree.leaves
               w == tree'.leaves
    <3>1. /\ Len(v) \in Nat /\ Len(w) = IF q <= Len(v) THEN Len(v) ELSE q
          /\ \A k \in 1 .. Len(v) : k # p /\ k # q => w[k] = v[k]
          /\ p \in 1 .. Len(v) /\ q \in 1 .. Len(v) + 1
      BY <1>1
    <3> HIDE DEF v, w
    <3>2. Hashes(w) = Written(Written(Hashes(v), p - 1, LeafHash(w[p])), q - 1, LeafHash(w[q]))
      BY <3>1, TwoEdits
    <3>3. QED
      BY <3>2 DEF v, w
  <2>2. QED
    BY <2>1
<1>6. LeafHash(before2) = LeafAt(mid, j)
  <2> HIDE DEF hs, n
  <2>1. Len(mid) = n
    <3>1. Len(hs) \in Nat /\ i \in 0 .. Len(hs) /\ i < Len(hs)
      BY <1>1, <1>2, <1>3
    <3>2. QED
      BY <1>2, <3>1, WrittenLength
  <2>2. CASE q <= n
    <3>1. q \in 1 .. n /\ j < n /\ j + 1 = q /\ i + 1 = p
      BY <1>1, <2>2
    <3>2. mid[q] = hs[q]
      BY <1>2, <1>3, <3>1 DEF Written
    <3>3. QED
      BY <1>2, <2>1, <2>2, <3>1, <3>2 DEF LeafAt, n
  <2>3. CASE ~ (q <= n)
    <3>1. ~ (j < n)
      BY <1>1, <2>3
    <3>2. QED
      BY <1>1, <2>1, <2>3, <3>1 DEF LeafAt, n
  <2>4. QED
    BY <2>2, <2>3
<1> HIDE DEF n, hs, mid
<1>7. /\ HashesHold' /\ Chains /\ TwoOpenings(proof', before1, after1, before2, after2)
      /\ proof'.openings[1].index = i /\ proof'.openings[2].index = j
  BY <1>1, <1>3, <1>4, <1>5, <1>6, RewriteKeeps DEF n, hs, mid
<1>8. Replays(proof'.openings, tree.leaves, tree'.leaves)
  <2> DEFINE os == proof'.openings
             old == tree.leaves
             new == tree'.leaves
  <2>1. /\ Len(os) = 2
        /\ os[1].index = p - 1 /\ os[1].before = old[p] /\ os[1].after = new[p]
        /\ os[2].index = q - 1 /\ os[2].after = new[q]
        /\ os[2].before = IF q <= Len(old) THEN old[q] ELSE EmptyLeaf
    BY <1>7 DEF TwoOpenings, Shows
  <2>2. /\ Len(old) \in Nat /\ Len(new) = IF q <= Len(old) THEN Len(old) ELSE q
        /\ \A k \in 1 .. Len(old) : k # p /\ k # q => new[k] = old[k]
        /\ p \in 1 .. Len(old) /\ q \in 1 .. Len(old) + 1
    BY <1>1 DEF n
  <2> HIDE DEF os, old, new
  <2>3. Replays(os, old, new)
    BY <2>1, <2>2, TwoReplayed
  <2>4. QED
    BY <2>3 DEF os, old, new
<1>9. QED
  BY <1>7, <1>8 DEF Follows

LEMMA MerkleInsertStep ==
  ASSUME MerkleInv, NEW o \in Order, Len(tree.leaves) < 2 ^ Height, MerkleInsert(o)
  PROVE  Kept
<1> DEFINE outcome == InsertOutcome(Side, tree, o)
           l == o.price_time
           n == Len(tree.leaves)
           low == Low(Side, tree, l)
           p == tree.index_map[low]
           leaf == tree.leaves[p]
           new == OrderLeaf(o, leaf.next)
<1>1. /\ IInv /\ TreeInv(Side, tree) /\ Side \in Sides /\ tree.leaves \in Seq(Leaf)
      /\ n \in Nat \ {0} /\ raw = Stored(Hashes(tree.leaves)) /\ 2 ^ Height \in Nat
  BY InvFacts DEF HashesHold
<1>2. IInv'
  BY <1>1, InsertStep DEF MerkleInsert
<1>3. CASE ~ Done
  <2>1. KeepHashes /\ call'.outcome # "ok"
    BY <1>3 DEF MerkleInsert, Done
  <2>2. tree' = tree
    BY <2>1 DEF MerkleInsert, Insert, Fail, Succeed
  <2>3. QED
    BY <1>2, <2>1, <2>2, FailureKeeps
<1>4. CASE Done
  <2>1. /\ Rewrite(p - 1, leaf, WithNext(leaf, l), Len(raw[0]), EmptyLeaf, new)
        /\ Insert(o)
    BY <1>4 DEF MerkleInsert
  <2>2. outcome = "ok" /\ tree' = Inserted(Side, tree, o) /\ call'.op = "insert"
    BY <1>4, <2>1 DEF Insert, Fail, Succeed, Done
  <2>3. /\ low \in Live(tree) /\ IsLow(Side, tree, low, l) /\ Before(Side, l, LeafOf(tree, low).next)
    BY <1>1, <2>2, InsertBetween
  <2>4. /\ p \in 1 .. n /\ LeafOf(tree, low) = leaf /\ leaf \in Leaf
        /\ leaf.label = low /\ leaf.active
    BY <1>1, <2>3, LiveLeaf
  <2>5. l \in Label /\ leaf.next \in Label /\ new \in Leaf
    <3>1. l \in Label /\ o.volume \in U64 /\ leaf.next \in Label
      BY <2>4 DEF Order, Leaf
    <3>2. QED
      BY <3>1 DEF OrderLeaf, Leaf
  <2> DEFINE e == [tree.leaves EXCEPT ![p] = WithNext(@, l)]
  <2>6. tree'.leaves = Append(e, new)
    BY <2>2 DEF Inserted
  <2>7. WithNext(leaf, l) \in Leaf
    BY <2>4, <2>5, NextEdit
  <2> HIDE DEF new, leaf, l
  <2>8. /\ e \in Seq(Leaf) /\ Len(e) = n /\ e[p] = WithNext(leaf, l)
        /\ \A k \in 1 .. n : k # p => e[k] = tree.leaves[k]
    BY <1>1, <2>4, <2>7 DEF leaf
  <2> HIDE DEF e, p
  <2>9. /\ Len(tree'.leaves) = n + 1 /\ tree'.leaves[n + 1] = new
        /\ tree'.leaves[p] = WithNext(leaf, l)
        /\ \A k \in 1 .. n : k # p => tree'.leaves[k] = tree.leaves[k]
    <3> HIDE DEF n
    <3>1. /\ Len(Append(e, new)) = n + 1 /\ Append(e, new)[n + 1] = new
          /\ \A k \in 1 .. n : Append(e, new)[k] = e[k]
      BY <2>5, <2>8, AppendProperties
    <3>2. QED
      BY <2>4, <2>6, <2>8, <3>1
  <2>10. Len(raw[0]) = n
    <3>1. Len(Hashes(tree.leaves)) = n /\ 0 \in Levels
      BY <1>1, HashesOf, HeightAssumption DEF Levels
    <3>2. raw[0] = [k \in 1 .. Width(n, 0) |-> Reference(Hashes(tree.leaves))[0][k - 1]]
      BY <1>1, <3>1 DEF Stored
    <3>3. Width(n, 0) = n
      BY <1>1, WidthHalves
    <3>4. QED
      BY <1>1, <3>2, <3>3
  <2>11. HashesHold' /\ Follows /\ TwoOpenings(proof', leaf, WithNext(leaf, l), EmptyLeaf, new)
    <3>1. /\ n + 1 \in 1 .. n + 1 /\ p # n + 1 /\ n = (n + 1) - 1 /\ ~ (n + 1 <= n)
          /\ n + 1 <= 2 ^ Height
      BY <1>1, <2>4
    <3>2. leaf = tree.leaves[p]
      BY DEF leaf, p
    <3>3. Rewrite(p - 1, leaf, WithNext(leaf, l), n, EmptyLeaf, new)
      BY <2>1, <2>10
    <3> HIDE DEF n
    <3>4. QED
      BY <2>4, <2>9, <3>1, <3>2, <3>3, CallRewrites DEF n
  <2>12. Verifies("insert", call'.volume, proof')
    <3>1. new.label = l
      BY DEF new, OrderLeaf, l
    <3>2. Before(Side, leaf.label, l) /\ Before(Side, l, leaf.next)
      BY <2>3, <2>4 DEF IsLow
    <3>3. QED
      BY <2>4, <2>11, <3>1, <3>2, OpenedVerifies
  <2>13. QED
    BY <1>2, <1>4, <2>2, <2>11, <2>12, SuccessKeeps
<1>5. QED
  BY <1>3, <1>4

(* cancel_at_index and match_order: leaf p is pointed past leaf q.         *)
LEMMA UnlinkRewrites ==
  ASSUME MerkleInv, NEW p \in 1 .. Len(tree.leaves), NEW q \in 1 .. Len(tree.leaves), p # q,
         tree'.leaves = [tree.leaves EXCEPT ![p] = WithNext(@, tree.leaves[q].next),
                                            ![q] = Inactive(@)],
         NEW i, i = p - 1,
         Rewrite(i, tree.leaves[p], WithNext(tree.leaves[p], tree.leaves[q].next),
                 q - 1, tree.leaves[q], Inactive(tree.leaves[q]))
  PROVE  /\ HashesHold' /\ Follows
         /\ TwoOpenings(proof', tree.leaves[p], WithNext(tree.leaves[p], tree.leaves[q].next),
                        tree.leaves[q], Inactive(tree.leaves[q]))
<1> DEFINE v == tree.leaves
           w == tree'.leaves
<1>1. v \in Seq(Leaf) /\ Len(v) \in Nat \ {0} /\ Len(v) <= 2 ^ Height
  BY InvFacts
<1>2. v[q].next \in Label
  <2>1. v[q] \in Leaf
    BY <1>1
  <2>2. QED
    BY <2>1 DEF Leaf
<1>3. /\ Len(w) = Len(v) /\ w[p] = WithNext(v[p], v[q].next) /\ w[q] = Inactive(v[q])
      /\ \A k \in 1 .. Len(v) : k # p /\ k # q => w[k] = v[k]
  <2>1. w = [v EXCEPT ![p] = WithNext(@, v[q].next), ![q] = Inactive(@)]
    OBVIOUS
  <2> HIDE DEF v, w
  <2>2. p \in 1 .. Len(v) /\ q \in 1 .. Len(v)
    BY DEF v
  <2>3. QED
    BY <1>1, <1>2, <2>1, <2>2, UnlinkedLeaves
<1>4. q \in 1 .. Len(v) + 1 /\ q <= Len(v)
  BY <1>1
<1>5. /\ Len(w) = IF q <= Len(v) THEN Len(v) ELSE q
      /\ v[q] = IF q <= Len(v) THEN v[q] ELSE EmptyLeaf
      /\ Len(w) <= 2 ^ Height
  BY <1>1, <1>3, <1>4
<1>6. QED
  BY <1>3, <1>4, <1>5, CallRewrites

LEMMA MerkleCancelStep ==
  ASSUME MerkleInv, NEW pos \in 1 .. Len(tree.leaves), pos = FirstPos \/ RestingSlot(pos),
         MerkleCancel(pos)
  PROVE  Kept
<1> DEFINE leaf == tree.leaves[pos]
           low  == Low(Side, tree, leaf.label)
           p    == tree.index_map[low]
<1>1. IInv /\ TreeInv(Side, tree) /\ Side \in Sides
  BY InvFacts
<1>2. IInv'
  BY <1>1, CancelStep DEF MerkleCancel
<1>3. CASE ~ Done
  <2>1. KeepHashes /\ call'.outcome # "ok"
    BY <1>3 DEF MerkleCancel, Done
  <2>2. tree' = tree
    BY <2>1 DEF MerkleCancel, CancelAtIndex, Fail, Succeed
  <2>3. QED
    BY <1>2, <2>1, <2>2, FailureKeeps
<1>4. CASE Done
  <2>1. /\ Rewrite(p - 1, tree.leaves[p], WithNext(tree.leaves[p], leaf.next),
                   pos - 1, leaf, Inactive(leaf))
        /\ CancelAtIndex(pos)
    BY <1>4 DEF MerkleCancel
  <2>2. /\ CancelOutcome(Side, tree, pos) = "ok" /\ tree' = Cancelled(Side, tree, pos)
        /\ call'.op = "cancel_at_index"
    BY <1>4, <2>1 DEF CancelAtIndex, Fail, Succeed, Done
  <2>3. PICK k \in Orders : tree.index_map[k] = pos
    BY <2>2 DEF RestingSlot, CancelOutcome
  <2>4. k \in Live(tree) /\ leaf.label = k
    BY <1>1, <2>3, LiveLeaf DEF Orders
  <2>5. low \in Live(tree) /\ Before(Side, low, k)
    BY <2>2, <2>4 DEF CancelOutcome, HasLow, Low, IsLow
  <2>6. p \in 1 .. Len(tree.leaves) /\ tree.leaves[p].label = low /\ tree.leaves[p].active
    BY <1>1, <2>5, LiveLeaf
  <2>7. p # pos
    BY <1>1, <2>4, <2>5, <2>6, LiveLeaf, BeforeIrreflexive
  <2>8. tree'.leaves = [tree.leaves EXCEPT ![p] = WithNext(@, tree.leaves[pos].next),
                                           ![pos] = Inactive(@)]
    BY <2>2 DEF Cancelled
  <2> HIDE DEF p
  <2>9. /\ HashesHold' /\ Follows
        /\ TwoOpenings(proof', tree.leaves[p], WithNext(tree.leaves[p], leaf.next),
                       leaf, Inactive(leaf))
    BY <2>1, <2>6, <2>7, <2>8, UnlinkRewrites
  <2>10. Verifies("cancel_at_index", call'.volume, proof')
    BY <2>6, <2>9, OpenedVerifies
  <2>11. QED
    BY <1>2, <1>4, <2>2, <2>9, <2>10, SuccessKeeps
<1>5. QED
  BY <1>3, <1>4

(* What the verifier of a match rebuilds of the first leaf is that leaf.   *)
LEMMA HeadRebuilt ==
  ASSUME NEW t, TreeInv(Side, t), Side \in Sides
  PROVE  /\ t.leaves[FirstPos] = HeadLeaf(BestLabel(t))
         /\ \A n \in Label : WithNext(t.leaves[FirstPos], n) = HeadLeaf(n)
<1> DEFINE head == t.leaves[FirstPos]
           first == FirstLeaf(Side)
<1>1. /\ head \in Leaf /\ head.active /\ head.label = First(Side) /\ head.volume = 0
      /\ head.next = BestLabel(t)
  BY FirstAndLast, LiveLeaf DEF TreeInv, SentinelsKept, BestLabel
<1>2. /\ first \in Leaf /\ first.active /\ first.label = First(Side) /\ first.volume = 0
  BY SentinelsAreLabels, MaxU64Assumption DEF FirstLeaf, Leaf, U64
<1>3. head.next \in Label
  BY <1>1 DEF Leaf
<1> HIDE DEF head, first
<1>4. \A x, y \in Leaf :
        /\ x.active = y.active /\ x.label = y.label /\ x.volume = y.volume /\ x.next = y.next
        => x = y
  BY DEF Leaf
<1>5. ASSUME NEW n \in Label PROVE WithNext(head, n) = HeadLeaf(n)
  <2>1. HeadLeaf(n) = WithNext(first, n)
    BY DEF HeadLeaf, first
  <2>2. head.active = first.active
    BY <1>1, <1>2 DEF Leaf
  <2> DEFINE x == WithNext(head, n)
             y == WithNext(first, n)
  <2>3. /\ x \in Leaf /\ x.active = head.active /\ x.label = head.label
        /\ x.volume = head.volume /\ x.next = n
    BY <1>1, NextEdit
  <2>4. /\ y \in Leaf /\ y.active = first.active /\ y.label = first.label
        /\ y.volume = first.volume /\ y.next = n
    BY <1>2, NextEdit
  <2> HIDE DEF x, y
  <2>5. x = y
    BY <1>1, <1>2, <1>4, <2>2, <2>3, <2>4
  <2>6. QED
    BY <2>1, <2>5 DEF x, y
<1>6. WithNext(head, head.next) = head
  BY <1>1, <1>3, <1>4, NextEdit
<1>7. QED
  BY <1>1, <1>3, <1>5, <1>6 DEF head

LEMMA BestSlot ==
  ASSUME NEW t, TreeInv(Side, t), Side \in Sides, BestLabel(t) \in Live(t)
  PROVE  LET q == t.index_map[BestLabel(t)]
         IN  /\ FirstPos \in 1 .. Len(t.leaves) /\ q \in 1 .. Len(t.leaves) /\ FirstPos # q
             /\ LeafOf(t, BestLabel(t)) = t.leaves[q] /\ t.leaves[q].label = BestLabel(t)
<1>1. Before(Side, First(Side), BestLabel(t)) /\ BestLabel(t) \in Label
  BY HeadIsNext, LiveLeaf DEF IsNext
<1>2. BestLabel(t) # First(Side)
  BY <1>1, BeforeIrreflexive
<1>3. t.index_map[First(Side)] = FirstPos /\ First(Side) \in Live(t)
  BY FirstAndLast DEF TreeInv, SentinelsKept
<1>4. t.index_map[BestLabel(t)] # FirstPos
  BY <1>2, <1>3, SlotsDistinct
<1>5. QED
  BY <1>3, <1>4, LiveLeaf

LEMMA MerkleMatchStep ==
  ASSUME MerkleInv, BestLabel(tree) # Last(Side), MerkleMatch
  PROVE  Kept
<1> DEFINE head == tree.leaves[FirstPos]
           b    == BestLabel(tree)
           q    == tree.index_map[b]
           leaf == tree.leaves[q]
<1>1. IInv /\ TreeInv(Side, tree) /\ Side \in Sides
  BY InvFacts
<1>2. MatchOutcome(tree) = "ok" /\ b \in Live(tree)
  BY <1>1, MatchKeeps
<1>3. IInv'
  BY <1>1, MatchStep DEF MerkleMatch
<1>4. /\ MatchOrder /\ call'.outcome = "ok" /\ tree' = Matched(tree)
      /\ call'.op = "match_order"
  BY <1>2 DEF MerkleMatch, MatchOrder, Fail, Succeed
<1>5. /\ FirstPos \in 1 .. Len(tree.leaves) /\ q \in 1 .. Len(tree.leaves) /\ FirstPos # q
      /\ LeafOf(tree, b) = leaf /\ leaf.label = b
  BY <1>1, <1>2, BestSlot
<1>6. Rewrite(0, head, WithNext(head, leaf.next), q - 1, leaf, Inactive(leaf))
  BY <1>4, <1>5 DEF MerkleMatch, Done
<1>7. tree'.leaves = [tree.leaves EXCEPT ![FirstPos] = WithNext(@, tree.leaves[q].next),
                                         ![q] = Inactive(@)]
  BY <1>4 DEF Matched
<1>8. 0 = FirstPos - 1
  BY DEF FirstPos
<1>9. head = HeadLeaf(leaf.label) /\ WithNext(head, leaf.next) = HeadLeaf(leaf.next)
  <2>1. leaf.next \in Label
    BY <1>1, <1>2, <1>5, LiveLeaf DEF Leaf
  <2>2. QED
    BY <1>1, <1>5, <2>1, HeadRebuilt
<1> HIDE DEF q
<1>10. /\ HashesHold' /\ Follows
       /\ TwoOpenings(proof', head, WithNext(head, leaf.next), leaf, Inactive(leaf))
  BY <1>5, <1>6, <1>7, <1>8, UnlinkRewrites
<1>11. Verifies("match_order", call'.volume, proof')
  BY <1>9, <1>10, OpenedVerifies
<1>12. QED
  BY <1>3, <1>4, <1>10, <1>11, SuccessKeeps DEF Done

(* match_partially and update: leaf q gets another volume.                 *)
LEMMA VolumeWritten ==
  ASSUME MerkleInv, NEW q \in 1 .. Len(tree.leaves), NEW v \in U64,
         tree'.leaves = [tree.leaves EXCEPT ![q] = WithVolume(@, v)]
  PROVE  /\ Len(tree'.leaves) = Len(tree.leaves)
         /\ tree'.leaves[q] = WithVolume(tree.leaves[q], v)
         /\ \A k \in 1 .. Len(tree.leaves) : k # q => tree'.leaves[k] = tree.leaves[k]
<1>1. tree.leaves \in Seq(Leaf) /\ Len(tree.leaves) \in Nat
  BY InvFacts
<1>2. tree.leaves[q] \in Leaf
  BY <1>1
<1>3. WithVolume(tree.leaves[q], v) \in Leaf
  BY <1>2, VolumeEdit
<1>4. QED
  BY <1>1, <1>2, <1>3

(* Rehashing a leaf that did not change leaves every level as it was.      *)
LEMMA RehashSame ==
  ASSUME MerkleInv, NEW p \in 1 .. Len(tree.leaves), NEW i, i = p - 1
  PROVE  Rehashed(raw, i, tree.leaves[p]) = raw
<1> DEFINE v  == tree.leaves
           hs == Hashes(v)
<1>1. /\ raw = Stored(hs) /\ Len(v) \in Nat \ {0} /\ Len(v) <= 2 ^ Height
      /\ 2 ^ Height \in Nat
  BY InvFacts DEF HashesHold
<1>2. Len(hs) = Len(v)
  BY <1>1, HashesOf
<1>3. i \in 0 .. Len(v) /\ i \in Nodes(0)
  BY <1>1, TopNode
<1>4. Written(hs, i, LeafHash(v[p])) = hs
  BY <1>1, OneEdit
<1> HIDE DEF v, hs
<1>5. Rehashed(raw, i, v[p]) = Stored(Written(hs, i, LeafHash(v[p])))
  BY <1>1, <1>2, <1>3, RehashStored
<1>6. QED
  BY <1>1, <1>4, <1>5 DEF v

LEMMA MerklePartialStep ==
  ASSUME MerkleInv, NEW filled \in U64, MerklePartial(filled)
  PROVE  Kept
<1> DEFINE head == tree.leaves[FirstPos]
           b    == BestLabel(tree)
           q    == tree.index_map[b]
           leaf == tree.leaves[q]
           left == WithVolume(leaf, leaf.volume - filled)
<1>1. IInv /\ TreeInv(Side, tree) /\ Side \in Sides
  BY InvFacts
<1>2. IInv'
  BY <1>1, PartialStep DEF MerklePartial
<1>3. CASE ~ Done
  <2>1. KeepHashes /\ call'.outcome # "ok"
    BY <1>3 DEF MerklePartial, Done
  <2>2. tree' = tree
    BY <2>1 DEF MerklePartial, MatchPartially, Fail, Succeed
  <2>3. QED
    BY <1>2, <2>1, <2>2, FailureKeeps
<1>4. CASE Done
  <2>1. MatchPartially(filled)
    BY DEF MerklePartial
  <2>2. /\ PartialOutcome(tree, filled) = "ok" /\ tree' = PartiallyMatched(tree, filled)
        /\ call'.op = "match_partially" /\ call'.volume = filled
    BY <1>4, <2>1 DEF MatchPartially, Fail, Succeed, Done
  <2>3. b \in Live(tree) /\ LeafOf(tree, b).volume - filled \in U64
    BY <1>1, <2>2, PartialKeeps
  <2>4. /\ FirstPos \in 1 .. Len(tree.leaves) /\ q \in 1 .. Len(tree.leaves) /\ FirstPos # q
        /\ LeafOf(tree, b) = leaf /\ leaf.label = b
    BY <1>1, <2>3, BestSlot
  <2>5. tree'.leaves = [tree.leaves EXCEPT ![q] = WithVolume(@, leaf.volume - filled)]
    BY <2>2 DEF PartiallyMatched
  <2>6. /\ Len(tree'.leaves) = Len(tree.leaves) /\ tree'.leaves[q] = left
        /\ \A k \in 1 .. Len(tree.leaves) : k # q => tree'.leaves[k] = tree.leaves[k]
    <3>1. leaf.volume - filled \in U64
      BY <2>3, <2>4
    <3> HIDE DEF q
    <3>2. QED
      BY <2>4, <2>5, <3>1, VolumeWritten
  <2>7. Rehashed(raw, 0, head) = raw
    BY <2>4, RehashSame DEF FirstPos
  <2>8. Rewrite(0, head, head, q - 1, leaf, left)
    <3> DEFINE o == Opening(raw, q - 1, leaf, left)
    <3>1. /\ raw' = Rehashed(raw, q - 1, o.after) /\ root' = raw'[Height][1]
          /\ proof' = [initial |-> root, openings |-> <<Opening(raw, 0, head, head), o>>,
                       final |-> o.updated[Height]]
      BY <1>4, <2>4 DEF MerklePartial
    <3>2. o.after = left
      BY DEF Opening
    <3> HIDE DEF o, left
    <3>3. raw' = Rehashed(Rehashed(raw, 0, head), q - 1, left)
      BY <2>7, <3>1, <3>2
    <3>4. o = Opening(Rehashed(raw, 0, head), q - 1, leaf, left)
      BY <2>7 DEF o
    <3>5. QED
      BY <3>1, <3>3, <3>4 DEF Rewrite
  <2>9. HashesHold' /\ Follows /\ TwoOpenings(proof', head, head, leaf, left)
    <3>1. /\ 0 = FirstPos - 1 /\ q \in 1 .. Len(tree.leaves) + 1 /\ q <= Len(tree.leaves)
          /\ Len(tree.leaves) <= 2 ^ Height
      BY <2>4, InvFacts DEF FirstPos
    <3>2. head = tree'.leaves[FirstPos]
      BY <2>4, <2>6
    <3> HIDE DEF left, q
    <3>3. QED
      BY <2>4, <2>6, <2>8, <3>1, <3>2, CallRewrites
  <2>10. head = HeadLeaf(leaf.label)
    BY <1>1, <2>4, HeadRebuilt
  <2>13. filled + left.volume = leaf.volume
    <3>1. leaf.volume \in U64 /\ left.volume = leaf.volume - filled
      BY <1>1, <2>3, <2>4, LiveLeaf DEF Leaf, WithVolume
    <3>2. leaf.volume \in Int /\ filled \in Int
      BY <3>1 DEF U64
    <3> HIDE DEF leaf, left
    <3>3. QED
      BY <3>1, <3>2
  <2>11. Verifies("match_partially", call'.volume, proof')
    <3> HIDE DEF left
    <3>1. QED
      BY <2>2, <2>9, <2>10, <2>13, OpenedVerifies
  <2>12. QED
    BY <1>2, <1>4, <2>2, <2>9, <2>11, SuccessKeeps
<1>5. QED
  BY <1>3, <1>4

LEMMA MerkleUpdateStep ==
  ASSUME MerkleInv, NEW l \in Labels \cup {Default}, NEW v \in U64,
         l \in Sentinels => l = Default, MerkleUpdate(l, v)
  PROVE  Kept
<1> DEFINE q    == tree.index_map[l]
           i    == q - 1
           leaf == tree.leaves[q]
           new  == WithVolume(leaf, v)
           o    == Opening(raw, i, leaf, new)
           hs   == Hashes(tree.leaves)
           n    == Len(tree.leaves)
<1>1. /\ IInv /\ TreeInv(Side, tree) /\ Side \in Sides
      /\ n \in Nat \ {0} /\ n <= 2 ^ Height /\ 2 ^ Height \in Nat
      /\ raw = Stored(hs) /\ root = RootOf(hs)
  BY InvFacts DEF HashesHold
<1>2. IInv'
  BY <1>1, UpdateStep DEF MerkleUpdate
<1>3. CASE ~ Done
  <2>1. KeepHashes /\ call'.outcome # "ok"
    BY <1>3 DEF MerkleUpdate, Done
  <2>2. tree' = tree
    BY <2>1 DEF MerkleUpdate, Update, Fail, Succeed
  <2>3. QED
    BY <1>2, <2>1, <2>2, FailureKeeps
<1>4. CASE Done
  <2>1. Update(l, v)
    BY DEF MerkleUpdate
  <2>2. UpdateOutcome(tree, l) = "ok" /\ tree' = Updated(tree, l, v) /\ call'.op = "update"
    BY <1>4, <2>1 DEF Update, Fail, Succeed, Done
  <2>3. l \in Live(tree)
    BY <2>2 DEF UpdateOutcome
  <2>4. q \in 1 .. n /\ LeafOf(tree, l) = leaf /\ leaf.active
    BY <1>1, <2>3, LiveLeaf
  <2>5. tree'.leaves = [tree.leaves EXCEPT ![q] = WithVolume(@, v)]
    BY <2>2 DEF Updated
  <2>6. /\ raw' = Rehashed(raw, i, new) /\ root' = raw'[Height][1]
        /\ proof' = [initial |-> root, openings |-> <<o>>, final |-> o.updated[Height]]
    BY <1>4, <2>4 DEF MerkleUpdate
  <2>21. o.index = q - 1 /\ o.before = leaf /\ o.after = new
    <3>1. i \in Nat /\ i < 2 ^ Height
      <4> HIDE DEF q
      <4>1. QED
        BY <1>1, <2>4
    <3> HIDE DEF leaf, new
    <3>2. i % 2 ^ Height = i
      BY <3>1, IndexKept
    <3>3. QED
      BY <3>2 DEF Opening
  <2> HIDE DEF q
  <2>7. /\ Len(tree'.leaves) = n /\ tree'.leaves[q] = new
        /\ \A k \in 1 .. n : k # q => tree'.leaves[k] = tree.leaves[k]
    BY <2>4, <2>5, VolumeWritten
  <2>8. Hashes(tree'.leaves) = Written(hs, i, LeafHash(new))
    <3> DEFINE old == tree.leaves
               w == tree'.leaves
    <3>1. /\ Len(old) \in Nat /\ q \in 1 .. Len(old) /\ Len(w) = Len(old)
          /\ \A k \in 1 .. Len(old) : k # q => w[k] = old[k]
      BY <1>1, <2>4, <2>7
    <3> HIDE DEF old, w
    <3>2. Hashes(w) = Written(Hashes(old), q - 1, LeafHash(w[q]))
      BY <3>1, OneEdit
    <3>3. QED
      BY <2>7, <3>2 DEF old, w
  <2>9. /\ Len(hs) = n /\ hs[i + 1] = LeafHash(leaf) /\ i < n /\ i \in 0 .. n /\ i \in Nat
    BY <1>1, <2>4, HashesOf
  <2>10. i \in Nodes(0)
    BY <1>1, <2>9, TopNode
  <2>11. LeafHash(leaf) = LeafAt(hs, i)
    BY <2>9 DEF LeafAt
  <2> DEFINE ns == Hashes(tree'.leaves)
  <2> HIDE DEF new, leaf, hs, n, i, ns
  <2>12. raw' = Stored(ns)
    BY <1>1, <2>6, <2>8, <2>9, <2>10, RehashStored DEF ns
  <2>13. Opens(o, root) /\ o.updated[Height] = RootOf(ns)
    BY <1>1, <2>8, <2>9, <2>10, <2>11, OpeningHolds DEF ns
  <2>14. Len(ns) = Len(tree'.leaves) /\ Len(tree'.leaves) = n
    BY <1>1, <2>7, HashesOf DEF ns
  <2>15. root' = RootOf(ns)
    BY <1>1, <2>6, <2>12, <2>14, RootStored
  <2>16. HashesHold'
    BY <1>1, <2>12, <2>14, <2>15 DEF HashesHold, ns
  <2>17. o.before = leaf
    BY DEF Opening
  <2> HIDE DEF o
  <2>18. Follows
    <3>1. Chains
      BY <2>6, <2>13, <2>15 DEF Chains
    <3>2. /\ proof'.openings = <<o>> /\ Len(<<o>>) = 1 /\ <<o>>[1] = o
          /\ \A k \in 1 .. 1 : k = 1
      BY <2>6
    <3> DEFINE os == proof'.openings
               old == tree.leaves
               w == tree'.leaves
    <3>3. /\ Len(os) = 1 /\ os[1].index = q - 1
          /\ os[1].before = old[q] /\ os[1].after = w[q]
      BY <2>7, <2>21, <3>2 DEF leaf
    <3>4. /\ Len(old) \in Nat /\ Len(w) = Len(old) /\ q \in 1 .. Len(old)
          /\ \A k \in 1 .. Len(old) : k # q => w[k] = old[k]
      BY <1>1, <2>4, <2>7 DEF n
    <3> HIDE DEF os, old, w
    <3>5. Replays(os, old, w)
      BY <3>3, <3>4, OneReplayed
    <3>6. QED
      BY <3>1, <3>5 DEF Follows, os, old, w
  <2>19. Verifies("update", call'.volume, proof')
    <3>1. /\ proof'.openings = <<o>> /\ proof'.initial = root
          /\ proof'.final = o.updated[Height]
      BY <2>6
    <3>2. Claimed("update", proof') = <<o>>
      BY <3>1 DEF Claimed
    <3>3. Len(<<o>>) = 1 /\ <<o>>[1] = o /\ \A k \in 1 .. 1 : k = 1
      OBVIOUS
    <3>4. o.before.active
      BY <2>4, <2>17 DEF leaf, q
    <3>5. QED
      BY <2>13, <3>1, <3>2, <3>3, <3>4 DEF Verifies
  <2>20. QED
    BY <1>2, <1>4, <2>2, <2>16, <2>18, <2>19, SuccessKeeps
<1>5. QED
  BY <1>3, <1>4

-----------------------------------------------------------------------------
(* The first tree                                                          *)

(* The recursion of MerkleInit: the hashes above the first leaf, with the  *)
(* last leaf beside it.                                                    *)
FirstPath(g, a, b) ==
  g = [l \in Levels |->
         IF l = 0 THEN a ELSE Compress(g[l - 1], IF l = 1 THEN b ELSE EmptyHash[l - 1])]

LEMMA FirstPathExists ==
  ASSUME NEW a, NEW b
  PROVE  \E g : FirstPath(g, a, b)
<1> DEFINE sibs == [l \in 0 .. Height - 1 |-> IF l = 0 THEN b ELSE EmptyHash[l]]
           p    == HashUp(0, sibs, a)
<1>2. \A l \in 0 .. Height - 1 : sibs[l] = IF l = 0 THEN b ELSE EmptyHash[l]
  OBVIOUS
<1> HIDE DEF sibs
<1>1. /\ p = [l \in Levels |-> p[l]] /\ p[0] = a
      /\ \A l \in 0 .. Height - 1 : p[l + 1] = Parent(0, l, p[l], sibs[l])
  BY PathGrows
<1> HIDE DEF p
<1>3. ASSUME NEW l \in 0 .. Height - 1 PROVE IsLeft(0, l)
  <2>1. l \in Nat
    OBVIOUS
  <2>2. 2 ^ l \in Nat \ {0}
    BY <2>1, PowerPositive
  <2>3. \A k \in Nat \ {0} : 0 \div k = 0 /\ (0 \div k) % 2 = 0
    OBVIOUS
  <2>4. QED
    BY <2>2, <2>3 DEF IsLeft, Above
<1>4. ASSUME NEW l \in Levels
      PROVE  p[l] = IF l = 0 THEN a
                    ELSE Compress(p[l - 1], IF l = 1 THEN b ELSE EmptyHash[l - 1])
  <2>1. CASE l = 0
    BY <1>1, <2>1
  <2>2. CASE l # 0
    <3>1. l - 1 \in 0 .. Height - 1 /\ (l - 1) + 1 = l /\ (l - 1 = 0 <=> l = 1)
      BY <2>2, HeightAssumption DEF Levels
    <3>2. p[l] = Parent(0, l - 1, p[l - 1], sibs[l - 1])
      BY <1>1, <3>1
    <3>3. QED
      BY <1>2, <1>3, <2>2, <3>1, <3>2 DEF Parent
  <2>3. QED
    BY <2>1, <2>2
<1>5. FirstPath(p, a, b)
  BY <1>1, <1>4 DEF FirstPath
<1>6. QED
  BY <1>5

LEMMA FirstLevels ==
  ASSUME NEW hs, NEW a, NEW b, Len(hs) = 2, hs[1] = a, hs[2] = b,
         NEW up, FirstPath(up, a, b)
  PROVE  Stored(hs) = [l \in Levels |-> IF l = 0 THEN <<a, b>> ELSE <<up[l]>>]
<1> DEFINE ref == Reference(hs)
           T == {l \in Levels : up[l] = ref[l][0] /\ Width(2, l) = IF l = 0 THEN 2 ELSE 1}
<1>1. \A l \in Levels :
        up[l] = IF l = 0 THEN a ELSE Compress(up[l - 1], IF l = 1 THEN b ELSE EmptyHash[l - 1])
  BY DEF FirstPath
<1>2. Height \in Nat \ {0} /\ 0 \in Levels
  BY HeightAssumption DEF Levels
<1>3. 0 \in Nodes(0) /\ 1 \in Nodes(0)
  <2>1. 1 <= Height /\ Height < 2 ^ Height /\ 2 ^ Height \in Nat
    BY <1>2, PowerPositive
  <2>2. \A k \in Nat : Height < k => 0 \in 0 .. k - 1 /\ 1 \in 0 .. k - 1
    BY <1>2
  <2>3. QED
    BY <2>1, <2>2, TopNode
<1>4. ref[0][0] = a /\ ref[0][1] = b
  <2>1. ref[0][0] = IF 0 < Len(hs) THEN hs[0 + 1] ELSE EmptyHash[0]
    BY <1>3, ReferenceGrows
  <2>2. ref[0][1] = IF 1 < Len(hs) THEN hs[1 + 1] ELSE EmptyHash[0]
    BY <1>3, ReferenceGrows
  <2>3. QED
    BY <2>1, <2>2
<1>5. 0 \in T
  BY <1>1, <1>2, <1>4, WidthHalves
<1>6. ASSUME NEW l \in 0 .. Height - 1, l \in T PROVE l + 1 \in T
  <2>1. l \in Nat /\ l \in Levels /\ l + 1 \in Levels /\ (l + 1) - 1 = l
    BY <1>2 DEF Levels
  <2>2. Width(2, l + 1) = (Width(2, l) + 1) \div 2
    BY <2>1, WidthHalves
  <2>3. Width(2, l + 1) = 1
    BY <1>6, <2>1, <2>2
  <2>4. 0 \in Nodes(l + 1) /\ 0 \in Nodes(l) /\ 1 \in Nodes(l)
    <3>1. Height - (l + 1) \in Nat
      BY <1>2
    <3>2. 2 ^ (Height - (l + 1)) \in Nat \ {0}
      BY <3>1, PowerPositive
    <3>3. 0 \in Nodes(l + 1)
      BY <3>2 DEF Nodes
    <3>4. 2 * 0 = 0 /\ 2 * 0 + 1 = 1
      OBVIOUS
    <3>5. QED
      BY <3>3, <3>4, NodesHalve
  <2>5. ref[l][1] = IF l + 1 = 1 THEN b ELSE EmptyHash[l]
    <3>1. CASE l = 0
      BY <1>4, <3>1
    <3>2. CASE l # 0
      <4>1. 1 >= Width(Len(hs), l) /\ Len(hs) \in Nat /\ l + 1 # 1
        BY <1>6, <2>1, <3>2
      <4>2. ref[l][1] = EmptyHash[l]
        BY <2>1, <2>4, <4>1, EmptyBeyond
      <4>3. QED
        BY <4>1, <4>2
    <3>3. QED
      BY <3>1, <3>2
  <2>6. ref[l + 1][0] = Compress(ref[l][0], ref[l][1])
    <3>1. ref[l + 1][0] = Compress(ref[l][2 * 0], ref[l][2 * 0 + 1])
      BY <2>4, ReferenceGrows
    <3>2. 2 * 0 = 0 /\ 2 * 0 + 1 = 1
      OBVIOUS
    <3>3. QED
      BY <3>1, <3>2
  <2>7. up[l + 1] = Compress(up[l], IF l + 1 = 1 THEN b ELSE EmptyHash[l])
    BY <1>1, <2>1
  <2>8. QED
    BY <1>6, <2>1, <2>3, <2>5, <2>6, <2>7
<1> HIDE DEF T
<1>7. \A l \in Levels : l \in T
  BY <1>5, <1>6, EveryLevel
<1>8. ASSUME NEW l \in Levels
      PROVE  [k \in 1 .. Width(Len(hs), l) |-> ref[l][k - 1]]
               = IF l = 0 THEN <<a, b>> ELSE <<up[l]>>
  <2>1. up[l] = ref[l][0] /\ Width(2, l) = IF l = 0 THEN 2 ELSE 1
    BY <1>7 DEF T
  <2> HIDE DEF ref
  <2>2. CASE l = 0
    <3>1. \A k \in 1 .. 2 : ref[0][k - 1] = <<a, b>>[k]
      BY <1>4
    <3>2. [k \in 1 .. 2 |-> ref[0][k - 1]] = <<a, b>>
      BY <3>1
    <3>3. QED
      BY <2>1, <2>2, <3>2
  <2>3. CASE l # 0
    <3>1. \A k \in 1 .. 1 : ref[l][k - 1] = <<up[l]>>[k]
      BY <2>1
    <3>2. [k \in 1 .. 1 |-> ref[l][k - 1]] = <<up[l]>>
      BY <3>1
    <3>3. QED
      BY <2>1, <2>3, <3>2
  <2>4. QED
    BY <2>2, <2>3
<1>9. QED
  BY <1>8 DEF Stored

LEMMA MerkleStart == MerkleInit => MerkleInv
<1> SUFFICES ASSUME MerkleInit PROVE MerkleInv
  OBVIOUS
<1> DEFINE a == LeafHash(FirstLeaf(Side))
           b == LeafHash(LastLeaf(Side))
           hs == Hashes(tree.leaves)
           up == CHOOSE g : FirstPath(g, a, b)
<1>1. Init
  BY DEF MerkleInit
<1>2. IInv
  BY <1>1, InitEstablishes
<1>3. FirstPath(up, a, b)
  BY FirstPathExists
<1>4. tree.leaves = <<FirstLeaf(Side), LastLeaf(Side)>>
  BY <1>1 DEF Init, New
<1>5. Len(tree.leaves) = 2 /\ Len(hs) = 2 /\ hs[1] = a /\ hs[2] = b
  <2>1. Len(tree.leaves) = 2 /\ tree.leaves[1] = FirstLeaf(Side) /\ tree.leaves[2] = LastLeaf(Side)
    BY <1>4
  <2>2. QED
    BY <2>1, HashesOf
<1>6. raw = [l \in Levels |-> IF l = 0 THEN <<a, b>> ELSE <<up[l]>>]
  <2>1. raw = LET leaves == <<a, b>>
                  f[l \in Levels] ==
                    IF l = 0 THEN leaves[1]
                    ELSE Compress(f[l - 1], IF l = 1 THEN leaves[2] ELSE EmptyHash[l - 1])
              IN  [l \in Levels |-> IF l = 0 THEN leaves ELSE <<f[l]>>]
    BY DEF MerkleInit
  <2>2. <<a, b>>[1] = a /\ <<a, b>>[2] = b
    OBVIOUS
  <2> HIDE DEF a, b
  <2>3. QED
    BY <2>1, <2>2 DEF FirstPath
<1> HIDE DEF hs, up, a, b
<1>7. raw = Stored(hs)
  BY <1>3, <1>5, <1>6, FirstLevels
<1>8. root = RootOf(hs)
  BY <1>5, <1>7, RootStored DEF MerkleInit
<1>9. 2 <= 2 ^ Height
  BY HeightAssumption, PowerPositive
<1>10. HashesHold
  BY <1>5, <1>7, <1>8, <1>9 DEF HashesHold, hs
<1>11. ProofVerifies
  BY <1>1 DEF ProofVerifies, Init
<1>12. proof.final = root
  BY DEF MerkleInit
<1>13. QED
  BY <1>2, <1>10, <1>11, <1>12 DEF MerkleInv

-----------------------------------------------------------------------------
(* The results                                                             *)

LEMMA MerkleStepKeeps ==
  ASSUME MaxLeaves <= 2 ^ Height, MerkleInv, MerkleNext
  PROVE  Kept
<1>1. Volumes \subseteq U64 /\ MaxLeaves \in Nat
  BY IMTAssumption
<1>2. Len(tree.leaves) \in Nat /\ 2 ^ Height \in Nat
  BY InvFacts
<1>3. CASE InsertOne
  <2>1. PICK l \in Labels, v \in Volumes :
          Len(tree.leaves) < MaxLeaves /\ MerkleInsert([price_time |-> l, volume |-> v])
    BY <1>3 DEF InsertOne
  <2>2. Len(tree.leaves) < 2 ^ Height
    BY <1>1, <1>2, <2>1
  <2>3. QED
    BY <2>1, <2>2, OrderAccepted, MerkleInsertStep
<1>4. CASE UpdateOne
  BY <1>1, <1>4, MerkleUpdateStep DEF UpdateOne
<1>5. CASE CancelOne
  BY <1>5, MerkleCancelStep DEF CancelOne
<1>6. CASE MatchOne
  BY <1>6, MerkleMatchStep DEF MatchOne
<1>7. CASE PartialOne
  BY <1>1, <1>7, MerklePartialStep DEF PartialOne
<1>8. QED
  BY <1>3, <1>4, <1>5, <1>6, <1>7 DEF MerkleNext

LEMMA MerkleNextKeeps ==
  ASSUME MaxLeaves <= 2 ^ Height
  PROVE  MerkleInv /\ [MerkleNext]_merkleVars => MerkleInv'
<1> SUFFICES ASSUME MerkleInv, [MerkleNext]_merkleVars PROVE MerkleInv'
  OBVIOUS
<1>1. CASE MerkleNext
  BY <1>1, MerkleStepKeeps DEF Kept
<1>2. CASE UNCHANGED merkleVars
  <2>1. tree' = tree /\ call' = call /\ raw' = raw /\ root' = root /\ proof' = proof
    BY <1>2 DEF merkleVars
  <2>2. IInv' /\ HashesHold' /\ ProofVerifies' /\ (proof.final = root)'
    BY <2>1 DEF MerkleInv, IInv, TypeOK, HashesHold, ProofVerifies
  <2>3. QED
    BY <2>2 DEF MerkleInv
<1>3. QED
  BY <1>1, <1>2

LEMMA MerkleInvariance ==
  ASSUME MaxLeaves <= 2 ^ Height
  PROVE  MerkleSpec => []MerkleInv
BY MerkleStart, MerkleNextKeeps, PTL DEF MerkleSpec

(* Every level of raw holds the nodes above the leaves and no other, for   *)
(* every height and every history of calls: one path per call is enough.   *)
THEOREM LevelsHold ==
  ASSUME MaxLeaves <= 2 ^ Height
  PROVE  MerkleSpec => []LevelsTypeOK
<1>1. MerkleInv => LevelsTypeOK
  <2> SUFFICES ASSUME MerkleInv, NEW l \in Levels
               PROVE  Len(raw[l]) = (Len(tree.leaves) + 2 ^ l - 1) \div 2 ^ l
    BY DEF LevelsTypeOK
  <2> DEFINE n == Len(tree.leaves)
             hs == Hashes(tree.leaves)
  <2>1. n \in Nat /\ raw = Stored(hs)
    BY InvFacts DEF HashesHold
  <2>2. Len(hs) = n
    BY <2>1, HashesOf
  <2> HIDE DEF hs, n
  <2>3. raw[l] = [k \in 1 .. Width(n, l) |-> Reference(hs)[l][k - 1]]
    BY <2>1, <2>2 DEF Stored
  <2>4. l \in Nat /\ Width(n, l) \in Nat
    BY <2>1, NodeNumbers, WidthHalves
  <2>5. Len(raw[l]) = Width(n, l)
    BY <2>3, <2>4
  <2>6. QED
    BY <2>5 DEF Width, n
<1>2. QED
  BY <1>1, MerkleInvariance, PTL

(* Rehashing the path above each written leaf, with the hashes of empty    *)
(* subtrees for what is not stored, keeps raw and root those of the        *)
(* complete Merkle tree over the current leaves, at every height with room *)
(* for them.                                                               *)
THEOREM RawHolds ==
  ASSUME MaxLeaves <= 2 ^ Height
  PROVE  MerkleSpec => []RawIsReference
<1>1. MerkleInv => RawIsReference
  <2> SUFFICES ASSUME MerkleInv PROVE RawIsReference
    OBVIOUS
  <2> DEFINE n == Len(tree.leaves)
             hs == Hashes(tree.leaves)
  <2>1. n \in Nat /\ raw = Stored(hs) /\ root = RootOf(hs)
    BY InvFacts DEF HashesHold
  <2>2. Len(hs) = n
    BY <2>1, HashesOf
  <2> HIDE DEF hs, n
  <2>3. ASSUME NEW l \in Levels, NEW i \in 0 .. Len(raw[l]) - 1
        PROVE  raw[l][i + 1] = Reference(hs)[l][i]
    <3>1. l \in Nat /\ Width(n, l) \in Nat
      BY <2>1, NodeNumbers, WidthHalves
    <3>2. raw[l] = [k \in 1 .. Width(n, l) |-> Reference(hs)[l][k - 1]]
      BY <2>1, <2>2 DEF Stored
    <3>3. Len(raw[l]) = Width(n, l)
      BY <3>1, <3>2
    <3>4. i + 1 \in 1 .. Width(n, l) /\ (i + 1) - 1 = i
      BY <3>1, <3>3
    <3>5. QED
      BY <3>2, <3>4
  <2>4. root = Reference(hs)[Height][0]
    BY <2>1 DEF RootOf
  <2>5. QED
    BY <2>3, <2>4 DEF RawIsReference, hs
<1>2. QED
  BY <1>1, MerkleInvariance, PTL

(* The verify method of every proof the tree returns accepts it, whatever  *)
(* calls came before: the openings are taken from the right levels, and    *)
(* the first leaf the verifier of a match rebuilds is the first leaf.      *)
THEOREM ProofsAccepted ==
  ASSUME MaxLeaves <= 2 ^ Height
  PROVE  MerkleSpec => []ProofVerifies
<1>1. MerkleInv => ProofVerifies
  BY DEF MerkleInv
<1>2. QED
  BY <1>1, MerkleInvariance, PTL

(* Whoever is given only the proofs of the calls that succeed keeps the    *)
(* root and every leaf: a proof starts where the last one ended, opens each *)
(* leaf the call changes, as it was and as it becomes, and ends at the     *)
(* root of the tree; a call that fails moves neither the tree nor a hash.  *)
THEOREM ProofsReplayed ==
  ASSUME MaxLeaves <= 2 ^ Height
  PROVE  MerkleSpec => ProofsReplay
<1> DEFINE Step == IF call'.outcome = "ok"
                   THEN /\ proof'.initial = proof.final
                        /\ Replays(proof'.openings, tree.leaves, tree'.leaves)
                        /\ proof'.final = root'
                   ELSE UNCHANGED <<tree, raw, root, proof>>
<1>1. MerkleInv /\ [MerkleNext]_merkleVars => [Step]_merkleVars
  <2> SUFFICES ASSUME MerkleInv, MerkleNext PROVE Step
    OBVIOUS
  <2>1. Kept /\ proof.final = root
    BY MerkleStepKeeps DEF MerkleInv
  <2>2. QED
    BY <2>1 DEF Kept, Follows, Chains
<1> HIDE DEF Step
<1>2. MerkleSpec => [][Step]_merkleVars
  BY <1>1, MerkleInvariance, PTL DEF MerkleSpec
<1>3. QED
  BY <1>2 DEF ProofsReplay, Step

=============================================================================
