------------------------------- MODULE Limbs -------------------------------
(* The u64 arithmetic of the prover: a Price, Time or Volume is an array of  *)
(* little-endian limbs below Base, eight bytes in the code (src/types.rs).   *)
EXTENDS Integers, Sequences

CONSTANTS Base,    \* 256 in the code
          NLimbs   \* N_U64_LIMBS, 8 in the code

ASSUME LimbsAssumption == /\ Base \in Nat \ {0, 1}
                          /\ NLimbs \in Nat \ {0} /\ NLimbs % 4 = 0

Index == 1 .. NLimbs
Limb == 0 .. Base - 1

\* The weight of limb i + 1: Base^i.
Weight[i \in 0 .. NLimbs] == IF i = 0 THEN 1 ELSE Base * Weight[i - 1]

FromU64(n) == [i \in Index |-> (n \div Weight[i - 1]) % Base]

\* Sums(f)[i] is the sum of the first i values.
Sums(f) ==
  LET s[i \in 0 .. NLimbs] == IF i = 0 THEN 0 ELSE s[i - 1] + f[i] IN s
Sum(f) == Sums(f)[NLimbs]

Worth(x) == [i \in Index |-> x[i] * Weight[i - 1]]
ToU64(x) == Sum(Worth(x))

Carries(a, b) ==
  LET carry[i \in 0 .. NLimbs] ==
        IF i > 0 /\ a[i] + b[i] + carry[i - 1] >= Base THEN 1 ELSE 0
  IN  carry

AddPanics(a, b) == Carries(a, b)[NLimbs] # 0
Add(a, b) ==
  LET carry == Carries(a, b)
  IN  [i \in Index |-> a[i] + b[i] + carry[i - 1] - Base * carry[i]]

Borrows_Unchained(a, b) ==
  [i \in 0 .. NLimbs |-> IF i > 0 /\ a[i] < b[i] THEN 1 ELSE 0]
Borrows(a, b) ==
  LET borrow[i \in 0 .. NLimbs] ==
        IF i > 0 /\ a[i] < b[i] + borrow[i - 1] THEN 1 ELSE 0
  IN  borrow

SubPanics(a, b) == Borrows(a, b)[NLimbs] # 0
Sub(a, b) ==
  LET borrow == Borrows(a, b)
  IN  [i \in Index |-> a[i] + Base * borrow[i] - b[i] - borrow[i - 1]]

\* Ord::cmp walks the limbs from the top and stops at the first difference.
Differs(a, b, i) == a[i] # b[i] /\ \A j \in Index : j > i => a[j] = b[j]
LessThan(a, b) == \E i \in Index : Differs(a, b, i) /\ a[i] < b[i]

=============================================================================
