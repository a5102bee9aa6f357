--------------------------- MODULE OperationTables --------------------------
(***************************************************************************)
(* The operations of an execution trace (src/executor/record.rs): each     *)
(* event records a row of its table and, for an addition or a comparison,  *)
(* counts the byte lookups of that row; the components in LimbTables and   *)
(* Poseidon prove the tables.                                              *)
(***************************************************************************)
EXTENDS LimbTables, Poseidon

CONSTANTS Operands,       \* the numbers the first event is recorded for
          LaterOperands,  \* those of the events of a longer trace
          HashInputs,     \* hashes and leaves are made of these
          MaxRows         \* bound on the rows of a trace

ASSUME OperationTablesAssumption ==
  /\ Operands \subseteq 0 .. Weight[NLimbs] - 1 /\ LaterOperands \subseteq Operands
  /\ HashInputs \subseteq Nat /\ MaxRows \in Nat

VARIABLES
  rows,   \* the operations recorded, with the table of each
  bytes   \* byte_operations: a multiplicity per offset, for each table

vars == <<rows, bytes>>

-----------------------------------------------------------------------------
(* The events                                                              *)

Offset(a, b) == a * Base + b

(* Limbs are checked in pairs, the first and second, the third and fourth. *)
RangeEvents(values, o) ==
  Cardinality({k \in 1 .. Len(values) \div 2 : Offset(values[2 * k - 1], values[2 * k]) = o})

Init ==
  /\ rows = <<>>
  /\ bytes = [table \in {"LessThanU8", "RangeCheckU8"} |-> [o \in Offsets |-> 0]]

AddAddEvent(a, b) ==
  LET felts == AddRow(a, b) IN
  /\ rows' = Append(rows, [kind |-> "Add", felts |-> felts])
  /\ bytes' = [bytes EXCEPT !["RangeCheckU8"] =
                 [o \in Offsets |-> @[o] + RangeEvents(SubSeq(felts, 1, 3 * NLimbs), o)]]

AddLessThanEventInternal(a, b, strict) ==
  LET felts == LessThanRow(a, b, strict)
      o     == Offset(Cell(felts, LessThanColumn.A_COMPARISON_BYTE),
                      Cell(felts, LessThanColumn.B_COMPARISON_BYTE))
  IN
  /\ rows' = Append(rows, [kind |-> IF strict THEN "StrictLessThan" ELSE "LessThan",
                           felts |-> felts])
  /\ bytes' = [bytes EXCEPT !["LessThanU8"][o] = @ + 1]

(* add_merkle_hash_event, and add_leaf_hash_event of the felts of a leaf,   *)
(* of which it takes the first 16.                                         *)
AddMerkleHashEvent(a, b) ==
  /\ rows' = Append(rows, [kind |-> "Poseidon", felts |-> a \o b \o <<1>>])
  /\ UNCHANGED bytes

AddLeafHashEvent(leaf_felts) ==
  /\ rows' = Append(rows, [kind |-> "Poseidon", felts |-> SubSeq(leaf_felts, 1, N_STATE) \o <<1>>])
  /\ UNCHANGED bytes

(* A longer trace takes its events from LaterOperands only.                *)
Numbers(row) == {ToU64(SubSeq(row.felts, 1, NLimbs)), ToU64(SubSeq(row.felts, NLimbs + 1, 2 * NLimbs))}

OperandPairs ==
  IF rows = <<>> THEN Operands \X Operands
  ELSE IF rows[1].kind # "Poseidon" /\ Numbers(rows[1]) \subseteq LaterOperands
       THEN LaterOperands \X LaterOperands
  ELSE {}

AddEvent == \E p \in OperandPairs : AddAddEvent(FromU64(p[1]), FromU64(p[2]))
LessThanEvent ==
  \E p \in OperandPairs : AddLessThanEventInternal(FromU64(p[1]), FromU64(p[2]), FALSE)
StrictLessThanEvent ==
  \E p \in OperandPairs : AddLessThanEventInternal(FromU64(p[1]), FromU64(p[2]), TRUE)

HashesOnly == \A k \in DOMAIN rows : rows[k].kind = "Poseidon"

Felts(n, x) == [i \in 1 .. n |-> (x * i) % FieldOrder]

MerkleHashEvent ==
  /\ HashesOnly
  /\ \E x, y \in HashInputs : AddMerkleHashEvent(Felts(N_HASH, x), Felts(N_HASH, y))
LeafHashEvent ==
  /\ HashesOnly
  /\ \E x \in HashInputs : AddLeafHashEvent(Felts(2 * N_STATE + 9, x))

Next ==
  /\ Len(rows) < MaxRows
  /\ \/ AddEvent
     \/ LessThanEvent
     \/ StrictLessThanEvent
     \/ MerkleHashEvent
     \/ LeafHashEvent

TablesSpec == Init /\ [][Next]_vars

-----------------------------------------------------------------------------
(* Properties.  Those of a single row look at the first, which is any row  *)
(* there can be.                                                           *)

Examined == {rows[k] : k \in {k \in DOMAIN rows : Len(rows) = 1 /\ rows[k].kind # "Poseidon"}}

First(row)  == SubSeq(row.felts, 1, NLimbs)
Second(row) == SubSeq(row.felts, NLimbs + 1, 2 * NLimbs)

(* Limb by limb, the carries of Add, the borrows of Sub and the comparison *)
(* of Ord give what the numbers give, and each panics exactly when the     *)
(* result is not a u64 (types.rs).                                         *)
ArithmeticAgrees ==
  \A row \in Examined :
    LET a == First(row)  b == Second(row)  m == ToU64(a)  n == ToU64(b)
    IN  /\ FromU64(m) = a /\ FromU64(n) = b
        /\ AddPanics(a, b) <=> m + n >= Weight[NLimbs]
        /\ ~AddPanics(a, b) => Add(a, b) = FromU64(m + n)
        /\ SubPanics(a, b) <=> m < n
        /\ ~SubPanics(a, b) => Sub(a, b) = FromU64(m - n)
        /\ LessThan(a, b) <=> m < n

(* Completeness: whatever the operands, equal ones and sums that wrap      *)
(* included, the row that record.rs writes is accepted by the constraints  *)
(* of its component and gives the right result; and so is the row its      *)
(* table is padded with.                                                   *)
RowsAccepted ==
  \A row \in Examined :
    LET m == ToU64(First(row))  n == ToU64(Second(row))
    IN  /\ Accepted(row) /\ Accepted(Padding(row))
        /\ CASE row.kind = "Add"            -> ToU64(AddOp(row.felts).c) = (m + n) % Weight[NLimbs]
             [] row.kind = "LessThan"       -> LessThanOp(row.felts).c = 1 <=> m <= n
             [] row.kind = "StrictLessThan" -> LessThanOp(row.felts).c = 1 <=> m < n

(* Soundness: of all the rows on these operands, whatever their flags,     *)
(* carries and results, the constraints and the byte tables accept only    *)
(* sums that are right modulo 2^64, and a comparison that answers 1 only   *)
(* when it is true (1 is the answer every user of the relation looks up).  *)
AcceptedIsTrue ==
  \A row \in Examined :
    LET m == ToU64(First(row))  n == ToU64(Second(row))
    IN  IF row.kind = "Add"
        THEN \A c \in [Index -> Limb], carry \in [1 .. NLimbs - 1 -> {0, 1}] :
               AddAccepted([AddOp(row.felts) EXCEPT !.c = c, !.carry = carry])
                 => ToU64(c) = (m + n) % Weight[NLimbs]
        ELSE \A flags \in [Index -> {0, 1}], aCmp, bCmp \in Limb :
               LessThanAccepted([LessThanOp(row.felts) EXCEPT
                                   !.flags = flags, !.aCmp = aCmp, !.bCmp = bCmp, !.c = 1],
                                Strict(row))
                 => IF Strict(row) THEN m < n ELSE m <= n

(* "It Has to be ensured that the LogUp Entries are added in the same      *)
(* order as the Interaction Trace" (components/bytes/constraints.rs:42):   *)
(* in every row, padded ones and those of the bytes table included, the    *)
(* columns written are the entries of the constraints in pairs, as many as *)
(* INTERACTION_COLS says.                                                  *)
PairsMatchColumns ==
  /\ \A row \in Examined : \A r \in {row, Padding(row)} :
       /\ Columns(r) = InPairs(Entries(r))
       /\ Len(Columns(r)) = InteractionCols(r.kind)
  /\ \A o \in Offsets : BytesColumns(bytes, o) = InPairs(BytesEntries(bytes, o))

(* The lookups of the rows, each padded once.                              *)
Used(recorded) ==
  LET used[k \in 0 .. Len(recorded)] ==
        IF k = 0 THEN NoLookups
        ELSE IF recorded[k].kind = "Poseidon" THEN used[k - 1]
        ELSE Tally(Tally(used[k - 1], Entries(recorded[k])), Entries(Padding(recorded[k])))
  IN  used[Len(recorded)]

(* What is left of them after the bytes table has yielded every offset.    *)
Balance ==
  LET left[o \in 0 .. Base * Base] ==
        IF o = 0 THEN Used(rows) ELSE Tally(left[o - 1], BytesEntries(bytes, o - 1))
  IN  left[Base * Base]

(* The multiplicities counted by offset while the events are recorded are  *)
(* those the rows use: the byte relations cancel over all the tables.      *)
BytesBalance == \A v \in DOMAIN Balance : v[1] \notin ByteRelations

(* A row of the poseidon table, filled up with padding.                    *)
Ops == [k \in 1 .. InstancesPerRow |-> IF k <= Len(rows) THEN rows[k].felts ELSE PaddingOp]

IsHashRow == rows # <<>> /\ HashesOnly /\ Len(rows) <= InstancesPerRow

(* The row that `trace` writes satisfies the constraints and yields each   *)
(* recorded state with the hash that src/hash.rs computes, and nothing for *)
(* padding; the columns of the interaction trace, which finds states and   *)
(* hashes by offsets of its own, are those entries.                        *)
HashesYielded ==
  IsHashRow =>
    LET row == MainRow(Ops) IN
    /\ PoseidonHolds(row)
    /\ PoseidonEntries(row) =
         [k \in 1 .. InstancesPerRow |->
            Entry("poseidon", InitialState(Ops[k]) \o HashLeaf(InitialState(Ops[k])),
                  IF k <= Len(rows) THEN -1 ELSE 0)]
    /\ PoseidonColumns(row) = Unbatched(PoseidonEntries(row))

(* The initial state determines the row: cells that leave the permutation *)
(* in one place and follow it from there on are refused, whatever the      *)
(* place, so no other hash of the state is accepted.                       *)
Strayed(state, k, i, d) ==
  LET first[r \in 0 .. N_ROUNDS] ==
        IF r = 0 THEN <<state>>
        ELSE LET before == first[r - 1]
                 after  == Round(before[r], r)
             IN  Append(before, [j \in 1 .. N_STATE |->
                                  IF r = k /\ j = i THEN Plus(after[j], d) ELSE after[j]])
  IN  first[N_ROUNDS]

HashesAreTrue ==
  IsHashRow /\ Len(rows) = 1 =>
    \A k \in 1 .. N_ROUNDS : \A i \in 1 .. (IF IsFull(k) THEN N_STATE ELSE 1), d \in 1 .. FieldOrder - 1 :
      LET op == rows[1].felts
      IN  ~ Evaluate(Written(op, Strayed(InitialState(op), k, i, d))).holds

=============================================================================
