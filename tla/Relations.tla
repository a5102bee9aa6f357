------------------------------ MODULE Relations -----------------------------
(***************************************************************************)
(* Lookups between the tables of the proof: a row adds entries to          *)
(* relations, the entries are batched into columns of fractions, and over  *)
(* all tables they have to cancel.  Entries and batches are those of the   *)
(* stwo library as src/components calls it; the sum is VexInteractionClaim *)
(* ::logup_sum (src/lib.rs).                                               *)
(***************************************************************************)
EXTENDS Integers, Sequences, FiniteSets

(* RelationEntry: values are used with a positive multiplicity and yielded *)
(* with a negative one.                                                    *)
Entry(relation, values, mult) == [relation |-> relation, values |-> values, mult |-> mult]

-----------------------------------------------------------------------------
(* The columns of fractions that the constraints make of their entries: a  *)
(* column is the set of the fractions it adds up.                          *)

(* finalize_logup: a column for each entry.                                *)
Unbatched(entries) == [i \in DOMAIN entries |-> {entries[i]}]

(* finalize_logup_in_pairs                                                 *)
InPairs(entries) ==
  [c \in 1 .. (Len(entries) + 1) \div 2 |->
     {entries[i] : i \in {2 * c - 1, 2 * c} \cap DOMAIN entries}]

(* finalize_logup_batched: entry i is in column batch[i].                  *)
Batched(entries, batch) ==
  [c \in 1 .. Cardinality({batch[i] : i \in DOMAIN batch}) |->
     {entries[i] : i \in {i \in DOMAIN batch : batch[i] = c - 1}}]

-----------------------------------------------------------------------------
(* Sums: <<relation, values>> -> uses minus yields, zeros left out.        *)

NoLookups == [values \in {} |-> 0]

Key(entry) == <<entry.relation, entry.values>>

Net(f, v) == IF v \in DOMAIN f THEN f[v] ELSE 0

(* The multiplicities of v in the first n entries.                         *)
Totals(entries, v) ==
  LET total[n \in 0 .. Len(entries)] ==
        IF n = 0 THEN 0
        ELSE total[n - 1] + IF Key(entries[n]) = v THEN entries[n].mult ELSE 0
  IN total

Total(entries, v) == Totals(entries, v)[Len(entries)]

Tally(f, entries) ==
  LET keys == DOMAIN f \cup {Key(entries[i]) : i \in DOMAIN entries} IN
  [v \in {v \in keys : Net(f, v) + Total(entries, v) # 0} |-> Net(f, v) + Total(entries, v)]

=============================================================================
