---------------------------- MODULE Instructions ----------------------------
(***************************************************************************)
(* The states and opcodes of src/executor/state.rs and                     *)
(* src/executor/instruction.rs: an instruction takes the order book from   *)
(* one state to the next and carries what its constraints need to see.     *)
(***************************************************************************)
EXTENDS Hashing

CONSTANT FieldOrder     \* 2^31 - 1: state.n is an element of this field

ASSUME FieldOrderAssumption == FieldOrder \in Nat \ {0}

Operations == {"Insertion", "MatchAggressive", "MatchPassive",
               "PartialMatchAggressive", "PartialMatchPassive"}

(* OrderSide::op_code, and Opcode::to_field for the same operations.       *)
BuyCode == [Insertion |-> 0, MatchAggressive |-> 6, MatchPassive |-> 8,
            PartialMatchAggressive |-> 10, PartialMatchPassive |-> 12]

OpCode(s, op) == IF s = "Buy" THEN BuyCode[op] ELSE BuyCode[op] + 1

OpCodes == {OpCode(s, op) : s \in Sides, op \in Operations}

(* OrderSide::complement_op_code *)
ComplementOpCode(s, op) == IF s = "Buy" THEN OpCode(s, op) + 1 ELSE OpCode(s, op) - 1

(* The root commits to the hashes of the leaves (MerkleTree).              *)
Root(t) == Hashes(t.leaves)

(* State, with root and best price by side.                                *)
InitialState ==
  [n    |-> 0,
   root |-> [s \in Sides |-> Root(New(s))],
   best |-> [s \in Sides |-> Last(s).price],
   op   |-> OpCode("Buy", "Insertion")]

\* the best price of the state is not read again after the change
NextState_StaleBest(t, st, s, op) ==
  [n    |-> (st.n + 1) % FieldOrder,
   root |-> [st.root EXCEPT ![s] = Root(t)],
   best |-> st.best,
   op   |-> OpCode(s, op)]

(* The state after an operation on side s that left the tree t.            *)
NextState(t, st, s, op) ==
  [n    |-> (st.n + 1) % FieldOrder,
   root |-> [st.root EXCEPT ![s] = Root(t)],
   best |-> [st.best EXCEPT ![s] = BestPrice(t)],
   op   |-> OpCode(s, op)]

=============================================================================
