----------------------------- MODULE LimbTables -----------------------------
(***************************************************************************)
(* The tables that prove the arithmetic: an addition or a comparison is a  *)
(* row written by src/executor/record.rs, accepted by the constraints of   *)
(* src/components/addition and src/components/less_than, and looked up in  *)
(* the table of src/components/bytes.                                      *)
(*                                                                         *)
(* A row is the sequence of felts of the code; they stay far below the     *)
(* field's order, so they are integers here.                               *)
(***************************************************************************)
EXTENDS Limbs, Relations

CONSTANT Lanes   \* N_LANES, 16 in the code

ASSUME LanesAssumption == Lanes \in Nat \ {0} /\ Base % Lanes = 0

-----------------------------------------------------------------------------
(* Layouts: the offsets of the columns, which count from 0                 *)

AddColumn == [A |-> 0, B |-> NLimbs, C |-> 2 * NLimbs, CARRY |-> 3 * NLimbs,
              IS_REAL |-> 4 * NLimbs - 1]

LessThanColumn == [A |-> 0, B |-> NLimbs, C |-> 2 * NLimbs, FLAGS |-> 2 * NLimbs + 1,
                   A_COMPARISON_BYTE |-> 3 * NLimbs + 1, B_COMPARISON_BYTE |-> 3 * NLimbs + 2,
                   IS_REAL |-> 3 * NLimbs + 3]

Cell(felts, offset)     == felts[offset + 1]
Cells(felts, offset, n) == SubSeq(felts, offset + 1, offset + n)

(* AddOp::from_eval and LessThanOp::from_eval read the cells one after the *)
(* other.                                                                  *)
AddOp(felts) ==
  LET N == NLimbs IN
  [a |-> SubSeq(felts, 1, N), b |-> SubSeq(felts, N + 1, 2 * N),
   c |-> SubSeq(felts, 2 * N + 1, 3 * N), carry |-> SubSeq(felts, 3 * N + 1, 4 * N - 1),
   is_real |-> felts[4 * N]]

LessThanOp(felts) ==
  LET N == NLimbs IN
  [a |-> SubSeq(felts, 1, N), b |-> SubSeq(felts, N + 1, 2 * N), c |-> felts[2 * N + 1],
   flags |-> SubSeq(felts, 2 * N + 2, 3 * N + 1),
   aCmp |-> felts[3 * N + 2], bCmp |-> felts[3 * N + 3], is_real |-> felts[3 * N + 4]]

-----------------------------------------------------------------------------
(* The rows that record.rs writes                                          *)

AddRow(a, b) ==
  LET carry == Carries(a, b) IN
  a \o b \o [i \in Index |-> (a[i] + b[i] + carry[i - 1]) % Base]
    \o [i \in 1 .. NLimbs - 1 |-> carry[i]] \o <<1>>

Flag_FromBottom(a, b, i) == a[i] # b[i] /\ \A j \in Index : j < i => a[j] = b[j]
Flag(a, b, i) == Differs(a, b, i)

\* The comparison bytes are 0 when no limb is flagged.
Picked(x, flags) == Sum([i \in Index |-> x[i] * flags[i]])

LessThanRow(a, b, strict) ==
  LET flags == [i \in Index |-> IF Flag(a, b, i) THEN 1 ELSE 0]
      aCmp  == Picked(a, flags)
      bCmp  == Picked(b, flags)
      less  == IF aCmp < bCmp \/ (~strict /\ a = b) THEN 1 ELSE 0
  IN  a \o b \o <<less>> \o flags \o <<aCmp, bCmp, 1>>

(* What `trace` pads a table with: zeros for additions, the first row of   *)
(* the table, not real, for comparisons.                                   *)
Padding(row) ==
  [row EXCEPT !.felts =
     IF row.kind = "Add" THEN [i \in DOMAIN row.felts |-> 0]
     ELSE [row.felts EXCEPT ![LessThanColumn.IS_REAL + 1] = 0]]

-----------------------------------------------------------------------------
(* What the constraints of a row demand                                    *)

AddHolds(op) ==
  /\ op.is_real \in {0, 1}
  /\ \A i \in Index :
       LET overflow == op.a[i] + op.b[i] - op.c[i] + (IF i = 1 THEN 0 ELSE op.carry[i - 1])
       IN  /\ overflow \in {0, Base}
           /\ i < NLimbs => /\ op.carry[i] \in {0, 1}
                            /\ op.carry[i] * (overflow - Base) = 0
                            /\ (op.carry[i] - 1) * overflow = 0

\* The i-th running sum of the flags, from the top limb down.
Visited(flags, i) == Sum([j \in Index |-> IF j >= i THEN flags[j] ELSE 0])

FlagsHold_AnyPosition(op) ==
  /\ \A i \in Index : op.flags[i] \in {0, 1}
  /\ Sum(op.flags) \in {0, 1}
FlagsHold(op) ==
  /\ \A i \in Index : /\ op.flags[i] \in {0, 1}
                      /\ (1 - Visited(op.flags, i)) * (op.a[i] - op.b[i]) = 0
  /\ Sum(op.flags) \in {0, 1}

LessThanHolds(op, strict) ==
  /\ op.is_real \in {0, 1}
  /\ FlagsHold(op)
  /\ op.aCmp = Picked(op.a, op.flags) /\ op.bCmp = Picked(op.b, op.flags)
  /\ op.c \in {0, 1}
  /\ Sum(op.flags) = 0 => op.c = (IF strict THEN 0 ELSE 1)

(* The entries of a row, in the order the constraints add them.            *)
AddEntries(op) ==
  LET values == op.a \o op.b \o op.c IN
  [k \in 1 .. (3 * NLimbs) \div 2 |->
     Entry("range_check_u8", <<values[2 * k - 1], values[2 * k]>>, op.is_real)]
  \o <<Entry("add", values, -op.is_real)>>

LessThanUse_Result(op, strict) == <<op.aCmp, op.bCmp, op.c>>
LessThanUse(op, strict) ==
  <<op.aCmp, op.bCmp, IF strict THEN op.c ELSE Sum(op.flags) * op.c>>

LessThanEntries(op, strict) ==
  <<Entry("less_than_u8", LessThanUse(op, strict), op.is_real),
    Entry(IF strict THEN "strict_less_than" ELSE "less_than",
          op.a \o op.b \o <<op.c>>, -op.is_real)>>

(* The preprocessed table of the bytes component lists every pair of limbs *)
(* by offset.                                                              *)
Offsets == 0 .. Base * Base - 1
BytesRow(o) ==
  LET a == o \div Base  b == o % Base IN [a |-> a, b |-> b, c |-> IF a < b THEN 1 ELSE 0]

BytesEntries(bytes, o) ==
  LET row == BytesRow(o) IN
  <<Entry("less_than_u8", <<row.a, row.b, row.c>>, -bytes["LessThanU8"][o]),
    Entry("range_check_u8", <<row.a, row.b>>, -bytes["RangeCheckU8"][o])>>

ByteRelations == {"less_than_u8", "range_check_u8"}

(* The lookups of a row are found in the table.                            *)
LookedUp(entries) ==
  \A i \in DOMAIN entries : \E o \in Offsets :
    LET row == BytesRow(o) IN
    /\ entries[i].relation = "less_than_u8" => entries[i].values = <<row.a, row.b, row.c>>
    /\ entries[i].relation = "range_check_u8" => entries[i].values = <<row.a, row.b>>

AddAccepted(op) == AddHolds(op) /\ LookedUp(AddEntries(op))
LessThanAccepted(op, strict) == LessThanHolds(op, strict) /\ LookedUp(LessThanEntries(op, strict))

Strict(row) == row.kind = "StrictLessThan"

Accepted(row) ==
  IF row.kind = "Add" THEN AddAccepted(AddOp(row.felts))
  ELSE LessThanAccepted(LessThanOp(row.felts), Strict(row))

Entries(row) ==
  IF row.kind = "Add" THEN AddEntries(AddOp(row.felts))
  ELSE LessThanEntries(LessThanOp(row.felts), Strict(row))

-----------------------------------------------------------------------------
(* The interaction traces                                                  *)

(* Six columns of two range checks in the code, then the result.           *)
AddColumns(felts) ==
  LET is_real  == Cell(felts, AddColumn.IS_REAL)
      value(i) == Cell(felts, AddColumn.A + i)
      check(i) == Entry("range_check_u8", <<value(i), value(i + 1)>>, is_real)
  IN
  [k \in 1 .. (3 * NLimbs) \div 4 |-> {check(4 * (k - 1)), check(4 * (k - 1) + 2)}]
  \o <<{Entry("add", Cells(felts, AddColumn.A, 3 * NLimbs), -is_real)}>>

\* equal bytes are not singled out
ByteResult_AsIs(felts, strict) == Cell(felts, LessThanColumn.C)

(* The result of the byte comparison: 0 for equal bytes.                   *)
ByteResult(felts, strict) ==
  IF /\ ~ strict
     /\ Cell(felts, LessThanColumn.A_COMPARISON_BYTE) = Cell(felts, LessThanColumn.B_COMPARISON_BYTE)
  THEN 0
  ELSE Cell(felts, LessThanColumn.C)

LessThanColumns(felts, strict) ==
  LET is_real == Cell(felts, LessThanColumn.IS_REAL)
      a_byte  == Cell(felts, LessThanColumn.A_COMPARISON_BYTE)
      b_byte  == Cell(felts, LessThanColumn.B_COMPARISON_BYTE)
  IN
  <<{Entry("less_than_u8", <<a_byte, b_byte, ByteResult(felts, strict)>>, is_real),
     Entry(IF strict THEN "strict_less_than" ELSE "less_than",
           Cells(felts, LessThanColumn.A, NLimbs) \o Cells(felts, LessThanColumn.B, NLimbs)
             \o <<Cell(felts, LessThanColumn.C)>>, -is_real)}>>

Columns(row) ==
  IF row.kind = "Add" THEN AddColumns(row.felts) ELSE LessThanColumns(row.felts, Strict(row))

(* The rows of the bytes table are made by vectors of lanes.               *)
BytesColumns(bytes, o) ==
  LET vec_row == o \div Lanes
      a       == vec_row \div (Base \div Lanes)
      b       == (vec_row % (Base \div Lanes)) * Lanes + (o % Lanes)
  IN
  <<{Entry("less_than_u8", <<a, b, IF a < b THEN 1 ELSE 0>>, -bytes["LessThanU8"][o]),
     Entry("range_check_u8", <<a, b>>, -bytes["RangeCheckU8"][o])}>>

(* INTERACTION_COLS                                                        *)
InteractionCols(kind) == IF kind = "Add" THEN (3 * NLimbs) \div 4 + 1 ELSE 1

=============================================================================
