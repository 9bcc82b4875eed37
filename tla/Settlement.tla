----------------------------- MODULE Settlement -----------------------------
(***************************************************************************)
(* aevum-core's settlement blocks: sealed by finalize, signed by a         *)
(* committee, and accepted into a chain by verify_full.  The code holds    *)
(* the block type and its verification; who proposes, signs and collects   *)
(* is not in the repository and modelled as its interface permits:         *)
(*   - anyone may circulate a block, also one changed after finalize;      *)
(*   - a member signs signing_message() of a block it finds internally     *)
(*     valid, one block per epoch;                                         *)
(*   - a block arrives with any list of signatures, some of them twice.    *)
(*                                                                         *)
(* A hash is the record of what is hashed: blake3 is taken to be injective *)
(* and its domains separated.                                              *)
(***************************************************************************)
EXTENDS Integers, Sequences, FiniteSets

CONSTANTS
  Nodes,               \* those who accept blocks
  Members,             \* public keys that sign
  committee_pubkeys,   \* the list verify_full is given: keys may repeat
  threshold,
  genesis,             \* its block_hash and chain_id
  Versions,
  Times,               \* timestamp, duration, start and end of an epoch
  Roots,               \* the six data roots
  Figures,             \* the three counts, fees, rewards and supply
  MaxEpochs,           \* bound: length of a chain
  MaxBlocks            \* bound: blocks in circulation

Committee == {committee_pubkeys[j] : j \in 1..Len(committee_pubkeys)}

ASSUME CommitteeAssumption ==
  /\ IsFiniteSet(Members)
  /\ committee_pubkeys \in Seq(Members)
  /\ {threshold, MaxEpochs, MaxBlocks} \subseteq Nat

VARIABLES
  blocks,              \* the blocks in circulation, without their signatures
  signatures,          \* the signatures in circulation
  signed,              \* history: which member signed which block
  chain                \* chain[n]: the blocks n has accepted

settlementVars == <<blocks, signatures, signed, chain>>
-----------------------------------------------------------------------------
(******************* Hashes, sealing and verification **********************)

\* Hash::zero(), which no hash equals.
ZeroHash == [zero |-> TRUE]

compute_epoch_root(b) == [merkle |-> b.roots]

\* Mutant: the figures are not committed to.
CommitmentWithoutFigures(b) ==
  [epoch_id |-> b.epoch_id, epoch_root |-> b.epoch_root]
compute_commitment(b) ==
  [epoch_id |-> b.epoch_id, epoch_root |-> b.epoch_root, figures |-> b.figures]

compute_hash(b) ==
  [version |-> b.version, chain_id |-> b.chain_id, epoch_id |-> b.epoch_id,
   height |-> b.height, previous |-> b.previous_settlement_hash,
   times |-> b.times, commitment |-> b.epoch_commitment]

signing_message(b) == <<b.epoch_commitment, b.block_hash>>

\* Each field is computed from the ones before it.
finalize(b) ==
  LET rooted == [b EXCEPT !.epoch_root = compute_epoch_root(b)]
      committed == [rooted EXCEPT !.epoch_commitment = compute_commitment(rooted)]
  IN  [committed EXCEPT !.block_hash = compute_hash(committed)]

verify_internal(b) ==
  /\ b.block_hash = compute_hash(b)
  /\ b.epoch_root = compute_epoch_root(b)
  /\ b.epoch_commitment = compute_commitment(b)

verify_chain(b, prev) ==
  /\ b.previous_settlement_hash = prev.block_hash
  /\ b.epoch_id = prev.epoch_id + 1
  /\ b.height = prev.height + 1
  /\ b.chain_id = prev.chain_id
  /\ b.version = prev.version

verify_genesis_link(b) ==
  /\ b.epoch_id = 0
  /\ b.height = 1
  /\ b.previous_settlement_hash = genesis.block_hash
  /\ b.chain_id = genesis.chain_id

\* PublicKey::verify.
Verifies(pk, msg, sig) == sig = [key |-> pk, msg |-> msg]

\* The positions in the committee of the keys that are not used yet and verify
\* the i-th signature.  Mutant: keys are used again.
MatchesAgain(used, msg, sigs, i) ==
  {j \in 1..Len(committee_pubkeys) : Verifies(committee_pubkeys[j], msg, sigs[i])}
Matches(used, msg, sigs, i) ==
  {j \in 1..Len(committee_pubkeys) :
     /\ committee_pubkeys[j] \notin used
     /\ Verifies(committee_pubkeys[j], msg, sigs[i])}

\* The two nested loops: each signature uses up the first key that matches it,
\* until threshold signatures were found valid.
CountSignature(so_far, msg, sigs, i) ==
  LET matches == Matches(so_far.used, msg, sigs, i)
      first == CHOOSE j \in matches : \A k \in matches : j <= k
  IN  IF so_far.valid >= threshold \/ matches = {}
        THEN so_far
        ELSE [used |-> so_far.used \cup {committee_pubkeys[first]},
              valid |-> so_far.valid + 1]
ValidSignatures(b, sigs) ==
  LET loop[i \in 0..Len(sigs)] ==
        IF i = 0 THEN [used |-> {}, valid |-> 0]
        ELSE CountSignature(loop[i - 1], signing_message(b), sigs, i)
  IN  loop[Len(sigs)].valid

verify_committee_signatures(b, sigs) ==
  /\ threshold # 0
  /\ threshold <= Len(committee_pubkeys)
  /\ Len(sigs) <= Len(committee_pubkeys)
  /\ ValidSignatures(b, sigs) >= threshold

\* The block before is the last of the accepted ones, or else genesis.
verify_full(b, sigs, accepted) ==
  /\ verify_internal(b)
  /\ IF accepted = <<>> THEN verify_genesis_link(b)
     ELSE verify_chain(b, accepted[Len(accepted)])
  /\ verify_committee_signatures(b, sigs)
-----------------------------------------------------------------------------
(************************** The system around it ***************************)

\* The lists of signatures a block may arrive with: signatures of it and of
\* its rivals, in any order, repeated, missing or one too many.
SignatureLists(b) ==
  LET about == {s \in signatures : s.msg[1].epoch_id = b.epoch_id}
  IN  UNION {[1..k -> about] : k \in 0..(Len(committee_pubkeys) + 1)}

SettlementInit ==
  /\ blocks = {}
  /\ signatures = {}
  /\ signed = {}
  /\ chain = [n \in Nodes |-> <<>>]

\* A block on top of what n has accepted, sealed.
Propose(n, version, times, roots, figures) ==
  LET next == Len(chain[n]) + 1
      draft == [version |-> version, chain_id |-> genesis.chain_id,
                epoch_id |-> next - 1, height |-> next,
                previous_settlement_hash |->
                  IF chain[n] = <<>> THEN genesis.block_hash
                  ELSE chain[n][Len(chain[n])].block_hash,
                times |-> times, roots |-> roots, figures |-> figures,
                epoch_root |-> ZeroHash, epoch_commitment |-> ZeroHash, block_hash |-> ZeroHash]
  IN  /\ Cardinality(blocks) < MaxBlocks
      /\ next <= MaxEpochs
      /\ blocks' = blocks \cup {finalize(draft)}
      /\ UNCHANGED <<signatures, signed, chain>>

\* A copy of b with other figures or roots, which nobody sealed again.
Alter(b, roots, figures) ==
  /\ Cardinality(blocks) < MaxBlocks
  /\ blocks' = blocks \cup {[b EXCEPT !.roots = roots, !.figures = figures]}
  /\ UNCHANGED <<signatures, signed, chain>>

Sign(m, b) ==
  /\ verify_internal(b)
  /\ \A p \in signed : p[1] = m => p[2].epoch_id # b.epoch_id
  /\ signatures' = signatures \cup {[key |-> m, msg |-> signing_message(b)]}
  /\ signed' = signed \cup {<<m, b>>}
  /\ UNCHANGED <<blocks, chain>>

Accept(n, b) ==
  /\ {sigs \in SignatureLists(b) : verify_full(b, sigs, chain[n])} # {}
  /\ chain' = [chain EXCEPT ![n] = Append(@, b)]
  /\ UNCHANGED <<blocks, signatures, signed>>

SettlementNext ==
  \/ \E n \in Nodes, v \in Versions, t \in Times, r \in Roots, f \in Figures :
       Propose(n, v, t, r, f)
  \/ \E b \in blocks, r \in Roots, f \in Figures : Alter(b, r, f)
  \/ \E m \in Members, b \in blocks : Sign(m, b)
  \/ \E n \in Nodes, b \in blocks : Accept(n, b)

SettlementSpec == SettlementInit /\ [][SettlementNext]_settlementVars
-----------------------------------------------------------------------------
\* Every field of an accepted block is what at least threshold distinct members
\* of the committee signed: there is no field left that could be changed once
\* the block is sealed (finalize, signing_message, verify_full).
ContentsAreCertified ==
  \A n \in Nodes : \A i \in 1..Len(chain[n]) :
    Cardinality({m \in Committee : <<m, chain[n][i]>> \in signed}) >= threshold

\* With a threshold of more than half of the committee, two nodes never accept
\* different blocks for one epoch, and each chain is numbered and linked without
\* a gap from genesis on (verify_chain, verify_genesis_link).
ChainsAgree ==
  2 * threshold > Cardinality(Committee) =>
    \A n, o \in Nodes : \A i \in 1..Len(chain[n]) :
      /\ i \in 1..Len(chain[o]) => chain[n][i] = chain[o][i]
      /\ chain[n][i].epoch_id = i - 1 /\ chain[n][i].height = i
      /\ chain[n][i].version = chain[n][1].version
      /\ chain[n][i].previous_settlement_hash =
           IF i = 1 THEN genesis.block_hash ELSE chain[n][i - 1].block_hash
=============================================================================
