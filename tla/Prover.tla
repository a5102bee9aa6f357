------------------------------- MODULE Prover -------------------------------
(***************************************************************************)
(* From a session of the order book to a verified proof (src/prover.rs,    *)
(* src/lib.rs, src/components/mod.rs).                                     *)
(*                                                                         *)
(* Of a session the model keeps the lengths of the tables and the states   *)
(* the instructions run from and to, as their numbers (State.n): what the  *)
(* rows hold is the subject of ExecutionTrace, which shows that all other  *)
(* lookups cancel.  Of a committed tree it keeps the owner and the log     *)
(* size of each group of columns, of the Fiat-Shamir channel what has been *)
(* mixed into it.                                                          *)
(***************************************************************************)
EXTENDS Tables

CONSTANTS LogBlowup,       \* fri_config.log_blowup_factor of the default PcsConfig
          MaxRows,         \* bound on the rows of a match table
          MaxResting,      \* bound on the orders that rest on a side
          LatestExchange   \* bound on the instructions before a trace is exchanged

ASSUME ProverAssumption ==
  /\ LogBlowup \in Nat /\ MaxRows \in Nat /\ MaxResting \in Nat /\ LatestExchange \in Nat

(* One instruction of each of the ten kinds, 36 paths together, hashes     *)
(* enough for a row of the poseidon table: 756 and 8 in the code.          *)
ASSUME InstancesAssumption == InstancesPerRow <= 36 * (Height + 1)

Sides == {"Buy", "Sell"}
Opposite(s) == IF s = "Buy" THEN "Sell" ELSE "Buy"

VARIABLES
  book,      \* resting: orders by side; aggressor: who may trade; n: number of the state
  trace,     \* lens: rows by table; from: the state it begins at; initial, final: as stored in it
  stage,     \* where prove_vex and verify_vex are, or how they ended
  channel,   \* what has been mixed into the channel
  proof      \* trees, claim and interaction claim

sessionVars == <<book, trace>>
vars == <<book, trace, stage, channel, proof>>

(* ExecutionTrace::new stores zeros, which are the felts of no state.      *)
NoState == -1

NewTrace(n, initial) == [lens |-> NoRows, from |-> n, initial |-> initial, final |-> NoState]

NoProof == [trees |-> <<>>, claim |-> <<>>, interaction |-> <<>>]

Init ==
  /\ book = [resting |-> [s \in Sides |-> 0], aggressor |-> "none", n |-> 0]
  /\ trace = NewTrace(0, 0)
  /\ stage = "recording"
  /\ channel = <<>>
  /\ proof = NoProof

-----------------------------------------------------------------------------
(* The session                                                             *)

(* An order is inserted and may then trade with the other side, whose      *)
(* orders may match it or not.                                             *)
PlaceOrder(s) ==
  /\ stage = "recording"
  /\ book.resting[s] < MaxResting
  /\ book' = [resting |-> [book.resting EXCEPT ![s] = @ + 1], aggressor |-> s, n |-> book.n + 1]
  /\ trace' = [trace EXCEPT !.lens = Added(@, "Insertion", s)]
  /\ UNCHANGED <<stage, channel, proof>>

(* A trade is an instruction on each side, the aggressive one first; it    *)
(* fills the aggressor, the passive order, or both.                        *)
Trade(own, other) ==
  LET s == book.aggressor
      lens == Added(Added(trace.lens, own, s), other, Opposite(s))
  IN
  /\ stage = "recording"
  /\ s \in Sides /\ book.resting[Opposite(s)] > 0
  /\ lens[TableOf[own][s]] <= MaxRows
  /\ book' = [resting   |-> [book.resting EXCEPT
                               ![s]           = @ - (IF own \in Partial THEN 0 ELSE 1),
                               ![Opposite(s)] = @ - (IF other \in Partial THEN 0 ELSE 1)],
              aggressor |-> IF own \in Partial THEN s ELSE "none",
              n         |-> book.n + 2]
  /\ trace' = [trace EXCEPT !.lens = lens]
  /\ UNCHANGED <<stage, channel, proof>>

TradeBoth      == Trade("MatchAggressive", "MatchPassive")
TradeAggressor == Trade("MatchAggressive", "PartialMatchPassive")
TradePassive   == Trade("PartialMatchAggressive", "MatchPassive")

(* Between calls the client may put a new trace in the place of the one    *)
(* recorded so far; only OrderBook::new stores an initial state, here the  *)
(* client may.                                                             *)
Exchange ==
  /\ stage = "recording"
  /\ book.n \in 1 .. LatestExchange
  /\ \E initial \in {NoState, book.n} : trace' = NewTrace(book.n, initial)
  /\ book' = [book EXCEPT !.aggressor = "none"]
  /\ UNCHANGED <<stage, channel, proof>>

-----------------------------------------------------------------------------
(* prove_vex                                                               *)

\* the degree of the constraints left out
Twiddles_MaxOnly(lens) == MaxLogSize(lens) + LogBlowup

(* The log size of the largest domain the twiddles serve.                  *)
Twiddles(lens) == MaxLogSize(lens) + LogBlowup + 2

Columns(order, Log(_)) == [i \in DOMAIN order |-> [owner |-> order[i], log |-> Log(order[i])]]

Fits(tree) == \A i \in DOMAIN tree : tree[i].log + LogBlowup <= Twiddles(trace.lens)

Fail(how) == stage' = how /\ UNCHANGED <<channel, proof>>

(* The bytes table, then an is_first column for every other table.         *)
PreprocessedTree(lens) ==
  <<[owner |-> "Bytes", log |-> BytesLogSize]>>
    \o Columns(PreprocessedOrder, LAMBDA t : LogSize(t, lens[t]))

(* The client stores the final state, or forgets to.                       *)
CommitPreprocessed ==
  /\ stage = "recording"
  /\ \E final \in {NoState, book.n} : trace' = [trace EXCEPT !.final = final]
  /\ IF Fits(PreprocessedTree(trace.lens))
     THEN /\ channel' = channel \o <<<<"root", PreprocessedTree(trace.lens)>>>>
          /\ proof' = [proof EXCEPT !.trees = <<PreprocessedTree(trace.lens)>>]
          /\ stage' = "preprocessed"
     ELSE Fail("panic")
  /\ UNCHANGED book

ClaimLog(lens, t) == IF t = "Bytes" THEN BytesLogSize ELSE TraceLogSize(t, lens[t])

(* VexClaim::mix_into, then the draw of the interaction elements.          *)
MixedClaim(claim) == [i \in DOMAIN ClaimOrder |-> <<"log size", claim.logs[ClaimOrder[i]]>>]

CommitMain ==
  LET lens  == trace.lens
      claim == [initial |-> trace.initial, final |-> trace.final,
                logs    |-> [t \in Range(MainOrder) |-> ClaimLog(lens, t)]]
      tree  == Columns(MainOrder, LAMBDA t : claim.logs[t])
  IN
  /\ stage = "preprocessed"
  /\ IF (\A t \in Tables : Traceable(t, lens[t])) /\ Fits(tree)
     THEN /\ channel' = channel \o MixedClaim(claim) \o <<<<"root", tree>>, <<"draw", "elements">>>>
          /\ proof' = [proof EXCEPT !.trees = Append(@, tree), !.claim = claim]
          /\ stage' = "main"
     ELSE Fail("panic")
  /\ UNCHANGED sessionVars

\* the final state is not part of the sum
LogupSumIsZero_NoFinal(interaction, claim) == claim.initial = interaction.from

(* VexInteractionClaim::logup_sum: the processor uses the state each       *)
(* instruction runs from and yields the one it runs to, which leaves the   *)
(* first use and the last yield; the claim yields the initial state and    *)
(* uses the final one.                                                     *)
LogupSumIsZero(interaction, claim) ==
  \/ claim.initial = interaction.from /\ claim.final = interaction.to
  \/ claim.initial = claim.final /\ interaction.from = interaction.to

MixedInteraction == [i \in DOMAIN InteractionClaimOrder |-> <<"claimed sum", InteractionClaimOrder[i]>>]

CommitInteraction ==
  LET interaction == [from |-> trace.from, to |-> book.n]
      tree == Columns(InteractionOrder, LAMBDA t : proof.claim.logs[t])
  IN
  /\ stage = "main"
  /\ IF ~ LogupSumIsZero(interaction, proof.claim) THEN Fail("InvalidLogupSum")
     ELSE IF ~ Fits(tree) THEN Fail("panic")
     ELSE /\ channel' = channel \o MixedInteraction \o <<<<"root", tree>>>>
          /\ proof' = [proof EXCEPT !.trees = Append(@, tree), !.interaction = interaction]
          /\ stage' = "interaction"
  /\ UNCHANGED sessionVars

Owners(tree) == [i \in DOMAIN tree |-> tree[i].owner]

(* Each component finds its own columns: those of the main and interaction *)
(* trees are allocated to the components one after the other and sampled   *)
(* in the order of `provers`; preprocessed ones are numbered as they are   *)
(* first read, and only the bytes component reads any.                     *)
Aligned(p) ==
  /\ ProversOrder = AllocationOrder
  /\ p.trees[1][1].owner = "Bytes"
  /\ \A i \in 2 .. 3 : Owners(p.trees[i]) = AllocationOrder

(* prover::prove of stwo: the twiddles have to serve the composition       *)
(* polynomial, whose columns have the largest degree bound.                *)
Prove ==
  LET logs == proof.claim.logs IN
  /\ stage = "interaction"
  /\ stage' = IF \E t \in DOMAIN logs :
                   DegreeBound(t, logs[t]) + LogBlowup > Twiddles(trace.lens)  THEN "panic"
              ELSE IF ~ Aligned(proof)                                         THEN "Stark"
              ELSE "proved"
  /\ UNCHANGED <<sessionVars, channel, proof>>

-----------------------------------------------------------------------------
(* verify_vex                                                              *)

(* VexClaim::log_sizes, the same for the three trees.                      *)
ClaimedSizes(claim) == [i \in DOMAIN SizesOrder |-> claim.logs[SizesOrder[i]]]

Sizes(tree) == [i \in DOMAIN tree |-> tree[i].log]

(* What verify_vex mixes into its own channel.                             *)
Replay(p) ==
  <<<<"root", p.trees[1]>>>> \o MixedClaim(p.claim)
    \o <<<<"root", p.trees[2]>>, <<"draw", "elements">>>>
    \o MixedInteraction \o <<<<"root", p.trees[3]>>>>

(* An opening verifies only against the sizes that were committed and with *)
(* the randomness that was drawn.                                          *)
Verify ==
  /\ stage = "proved"
  /\ stage' = IF ~ LogupSumIsZero(proof.interaction, proof.claim) THEN "rejected"
              ELSE IF /\ \A i \in DOMAIN proof.trees : Sizes(proof.trees[i]) = ClaimedSizes(proof.claim)
                      /\ Replay(proof) = channel
                      /\ Aligned(proof)                          THEN "verified"
              ELSE "rejected"
  /\ UNCHANGED <<sessionVars, channel, proof>>

-----------------------------------------------------------------------------
Next ==
  \/ \E s \in Sides : PlaceOrder(s)
  \/ TradeBoth
  \/ TradeAggressor
  \/ TradePassive
  \/ Exchange
  \/ CommitPreprocessed
  \/ CommitMain
  \/ CommitInteraction
  \/ Prove
  \/ Verify

ProverSpec == Init /\ [][Next]_vars

-----------------------------------------------------------------------------
(* Properties                                                              *)

(* What the prover commits to in one order and with one set of sizes, the  *)
(* claims, the components and the verifier find again in theirs: a proof   *)
(* that is attempted is never refused by stwo, one that is returned is     *)
(* never rejected (prove_vex, verify_vex, VexClaim, VexComponents).        *)
ProofsVerify == stage \notin {"Stark", "rejected"}

Lanes == 2^LogLanes

ShortTable(lens) == \E i \in DOMAIN Instructions : lens[Instructions[i]] <= Lanes \div 2

(* A few hashes above a poseidon table of a power of 2 rows.               *)
Overhang(len) ==
  LET rows == len \div InstancesPerRow IN
  len % InstancesPerRow # 0 /\ rows > 0 /\ rows = 2^Log2(rows)

(* prove_vex panics only on a trace in which one of the ten kinds of       *)
(* instruction is rare, or with an overhang in the poseidon table: the     *)
(* tables of operations are never the short ones, the columns committed    *)
(* ahead have the sizes of the tables, and the twiddles serve every domain.*)
PanicsOnlyOnTables ==
  stage = "panic" => ShortTable(trace.lens) \/ Overhang(trace.lens["Poseidon"])

(* A proof claims exactly the states that the recorded instructions run    *)
(* between, whatever trace the client took and whatever it stored in it;   *)
(* a sum that is not zero is the client's mistake.                         *)
ClaimsAreRecorded ==
  /\ stage \in {"proved", "verified"} =>
       proof.claim.initial = trace.from /\ proof.claim.final = book.n
  /\ stage = "InvalidLogupSum" => trace.initial # trace.from \/ trace.final # book.n

(* "pad the operations to the next power of 2" (components/poseidon/mod.rs *)
(* :154): a session in which nothing is rare can be padded.                *)
PoseidonPads ==
  stage # "recording" /\ ~ ShortTable(trace.lens)
    => Padding("Poseidon", trace.lens["Poseidon"]) >= 0

=============================================================================
