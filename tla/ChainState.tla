----------------------------- MODULE ChainState -----------------------------
(***************************************************************************)
(* aevum-core's chain_state: the node's copy of the ledger and the         *)
(* bookkeeping that decides which block may be applied to it.  Every       *)
(* operation takes the lock once and is atomic; producing a block is not:  *)
(* the producer reads the tip, previews the block it built on it and       *)
(* applies the finished block in three separate steps.                     *)
(*                                                                         *)
(* A block is a record: the hash it carries, the hash computed from its    *)
(* contents, its parent's hash and height, whether it carries a settlement *)
(* checkpoint, and whether its only transaction is a coinbase.  What a     *)
(* block does to the UTXOs, the spent nullifiers, the roots and the supply *)
(* is decided by state_transition, which is not part of the repository: it *)
(* may refuse a block, and the ledger it returns, which replaces the old   *)
(* one as a whole, is named by the sequence of the blocks executed so far. *)
(***************************************************************************)
EXTENDS Collections

CONSTANTS
  Blocks,              \* the blocks that exist
  Local,               \* those of them that this node produces
  Hashes,
  Zero,                \* Hash::zero()
  MAX_REORG_DEPTH,
  EPOCH_LENGTH_BLOCKS,
  Heights,             \* bound: the heights finalize_up_to is called with
  MaxLedger            \* bound: blocks executed before the model stops

ASSUME BlocksAssumption ==
  /\ Zero \in Hashes
  /\ Blocks \subseteq [hash : Hashes, computed : Hashes \ {Zero}, prev : Hashes,
                       height : Nat, checkpoint : BOOLEAN, lone_coinbase : BOOLEAN]
  /\ Local \subseteq Blocks

\* The node's own blocks carry the hash computed from their contents, and no
\* two blocks' contents hash to the same value.
ASSUME HashAssumption ==
  /\ \A b \in Local : b.hash = b.computed
  /\ \A b, c \in Blocks : b.computed = c.computed /\ b.hash = c.hash => b = c

ASSUME DepthAssumption ==
  /\ MAX_REORG_DEPTH \in Nat
  /\ EPOCH_LENGTH_BLOCKS \in Nat \ {0}
  /\ Heights \subseteq Nat
  /\ MaxLedger \in Nat

VARIABLES
  ledger,                \* utxos, spent_nullifiers, roots and supply: the
                         \* blocks executed so far
  height,
  last_block_hash,
  canonical_tip,
  canonical_height,
  last_finalized_height,
  applied_blocks,        \* height |-> hash of the block applied there
  genesis_applied,
  epoch_anchor_hash,
  current_epoch,
  candidates,            \* local blocks whose parent the producer has read
  previews,              \* local block |-> the ledger it was previewed on
  recorded               \* history: whether a presence record was applied

tipVars == <<height, last_block_hash, canonical_tip, canonical_height>>
epochVars == <<epoch_anchor_hash, current_epoch>>
producerVars == <<candidates, previews>>
vars == <<ledger, tipVars, last_finalized_height, applied_blocks,
          genesis_applied, epochVars, producerVars, recorded>>
-----------------------------------------------------------------------------
Init ==
  /\ ledger = <<>>
  /\ height = 0
  /\ last_block_hash = Zero
  /\ canonical_tip = Zero
  /\ canonical_height = 0
  /\ last_finalized_height = 0
  /\ applied_blocks = [h \in {} |-> Zero]
  /\ genesis_applied = FALSE
  /\ epoch_anchor_hash = Zero
  /\ current_epoch = 0
  /\ candidates = {}
  /\ previews = [b \in {} |-> <<>>]
  /\ recorded = FALSE

\* A producer reads last_block_hash() and builds a block on it.
BuildCandidate(b) ==
  /\ b \in Local \ candidates
  /\ b.prev = last_block_hash
  /\ candidates' = candidates \cup {b}
  /\ UNCHANGED <<ledger, tipVars, last_finalized_height, applied_blocks,
                 genesis_applied, epochVars, previews, recorded>>

\* preview_block executes the candidate on a copy of the ledger, whatever the
\* ledger is by now; from_candidate seals the resulting root into the block.
PreviewBlock(b) ==
  /\ b \in candidates \ DOMAIN previews
  /\ previews' = Put(previews, {b}, ledger)
  /\ UNCHANGED <<ledger, tipVars, last_finalized_height, applied_blocks,
                 genesis_applied, epochVars, candidates, recorded>>

\* A block that can be handed to the node: a foreign one, or one whose
\* production is complete.
Offered(b) == b \in Local => b \in DOMAIN previews

\* state_transition accepts b: the ledger becomes that of one more block.
Execute(b) ==
  /\ Len(ledger) < MaxLedger
  /\ ledger' = Append(ledger, b)

\* Mutant: the canonical height follows every block.
SetTipsAlways(b) ==
  /\ height' = b.height
  /\ last_block_hash' = b.hash
  /\ canonical_tip' = IF b.prev = canonical_tip \/ b.height > canonical_height
                      THEN b.hash ELSE canonical_tip
  /\ canonical_height' = b.height

\* The canonical tip follows a block that extends it or is higher.
SetTips(b) ==
  LET moves == b.prev = canonical_tip \/ b.height > canonical_height
  IN /\ height' = b.height
     /\ last_block_hash' = b.hash
     /\ canonical_tip' = IF moves THEN b.hash ELSE canonical_tip
     /\ canonical_height' = IF moves THEN b.height ELSE canonical_height
SetEpoch(b) ==
  /\ epoch_anchor_hash' = IF b.checkpoint THEN b.hash ELSE epoch_anchor_hash
  /\ current_epoch' = IF b.checkpoint THEN b.height \div EPOCH_LENGTH_BLOCKS
                      ELSE current_epoch

\* The reorganisation a block asks for is not too deep.
ShallowReorg(b) == b.height < canonical_height =>
                     canonical_height - b.height <= MAX_REORG_DEPTH

\* Mutants: an off-by-one at the finalized height, a parent that is not
\* compared, and depth measured from height.
AcceptsFinalizedHeight(b) ==
  /\ b.height >= last_finalized_height
  /\ b.height >= height
  /\ ShallowReorg(b)
  /\ b.prev \in {canonical_tip, last_block_hash}
  /\ b.height \notin DOMAIN applied_blocks
AcceptsAnyParent(b) ==
  /\ b.height > last_finalized_height
  /\ b.height >= height
  /\ ShallowReorg(b)
  /\ b.height \notin DOMAIN applied_blocks
AcceptsDeepReorg(b) ==
  /\ b.height > last_finalized_height
  /\ b.height >= height
  /\ b.prev \in {canonical_tip, last_block_hash}
  /\ b.height \notin DOMAIN applied_blocks

\* The checks of apply_block_checked on a block above genesis.
Accepts(b) ==
  /\ b.height > last_finalized_height
  /\ b.height >= height
  /\ ShallowReorg(b)
  /\ b.prev \in {canonical_tip, last_block_hash}
  /\ b.height \notin DOMAIN applied_blocks

ApplyBlockChecked(b) ==
  /\ Offered(b)
  /\ b.computed = b.hash
  /\ b.height # 0
  /\ genesis_applied
  /\ Accepts(b)
  /\ Execute(b)
  /\ SetTips(b)
  /\ SetEpoch(b)
  /\ applied_blocks' = Put(applied_blocks, {b.height}, b.hash)
  /\ UNCHANGED <<last_finalized_height, genesis_applied, producerVars, recorded>>

\* apply_genesis: the ledger starts over.  It does not clear spent_nullifiers,
\* which hold nothing yet: no block is executed before genesis.
ApplyGenesis(b) ==
  /\ Offered(b)
  /\ b.computed = b.hash
  /\ b.height = 0
  /\ ~genesis_applied
  /\ b.prev = Zero
  /\ b.lone_coinbase
  /\ MaxLedger > 0
  /\ ledger' = <<b>>
  /\ height' = 0
  /\ last_block_hash' = b.hash
  /\ canonical_tip' = b.hash
  /\ canonical_height' = 0
  /\ applied_blocks' = Put(applied_blocks, {0}, b.hash)
  /\ genesis_applied' = TRUE
  /\ epoch_anchor_hash' = b.hash
  /\ UNCHANGED <<last_finalized_height, current_epoch, producerVars, recorded>>

\* apply_presence_record executes whatever block it is given.
ApplyPresenceRecord(b) ==
  /\ Offered(b)
  /\ genesis_applied
  /\ Execute(b)
  /\ SetTips(b)
  /\ SetEpoch(b)
  /\ recorded' = TRUE
  /\ UNCHANGED <<last_finalized_height, applied_blocks, genesis_applied, producerVars>>

FinalizeUpTo(h) ==
  /\ h > last_finalized_height
  /\ last_finalized_height' = h
  /\ UNCHANGED <<ledger, tipVars, applied_blocks, genesis_applied, epochVars,
                 producerVars, recorded>>

Next ==
  \/ \E b \in Blocks : \/ BuildCandidate(b)
                       \/ PreviewBlock(b)
                       \/ ApplyBlockChecked(b)
                       \/ ApplyGenesis(b)
                       \/ ApplyPresenceRecord(b)
  \/ \E h \in Heights : FinalizeUpTo(h)

Spec == Init /\ [][Next]_vars
-----------------------------------------------------------------------------
TypeOK ==
  /\ ledger \in Seq(Blocks)
  /\ height \in Nat
  /\ last_block_hash \in Hashes
  /\ canonical_tip \in Hashes
  /\ canonical_height \in Nat
  /\ last_finalized_height \in Nat
  /\ IsMap(applied_blocks, Nat, Hashes)
  /\ genesis_applied \in BOOLEAN
  /\ epoch_anchor_hash \in Hashes
  /\ current_epoch \in Nat
  /\ candidates \subseteq Local
  /\ IsMap(previews, Local, Seq(Blocks))
  /\ DOMAIN previews \subseteq candidates
  /\ recorded \in BOOLEAN

Positions == 1..Len(ledger)

\* The ledger on which its i-th block was executed.
Before(i) == [j \in 1..(i - 1) |-> ledger[j]]

\* Until a presence record is applied, the blocks executed through
\* apply_block_checked form one hash-linked chain of rising heights, and
\* applied_blocks lists exactly that chain.
HistoryIsLinked ==
  ~recorded =>
    /\ \A i \in Positions : i + 1 \in Positions =>
         /\ ledger[i + 1].prev = ledger[i].hash
         /\ ledger[i + 1].height > ledger[i].height
    /\ DOMAIN applied_blocks = {ledger[i].height : i \in Positions}
    /\ \A i \in Positions : applied_blocks[ledger[i].height] = ledger[i].hash

\* Whatever was applied, the canonical tip and the epoch anchor are blocks this
\* node has executed, and canonical_height and current_epoch are theirs.
AnchorsAreExecuted ==
  genesis_applied =>
    /\ \E i \in Positions : /\ ledger[i].hash = canonical_tip
                            /\ ledger[i].height = canonical_height
    /\ \E i \in Positions :
         /\ ledger[i].hash = epoch_anchor_hash
         /\ \/ i = 1 /\ current_epoch = 0
            \/ /\ ledger[i].checkpoint
               /\ current_epoch = ledger[i].height \div EPOCH_LENGTH_BLOCKS

\* Until a presence record is applied, a block this node produced is executed on
\* the very ledger it was previewed on, although the tip is read, the preview
\* computed and the block applied under three separate locks: a block overtaken
\* in between is refused.
PreviewIsFresh ==
  ~recorded =>
    \A i \in Positions : ledger[i] \in Local =>
      previews[ledger[i]] = Before(i)

\* What is recorded at or below the finalized height stays as it is; only genesis
\* may still be added there, by a node that was told of finality first.
FinalizedHistoryIsFixed ==
  [][\A h \in 1..last_finalized_height :
       /\ h \in DOMAIN applied_blocks <=> h \in DOMAIN applied_blocks'
       /\ h \in DOMAIN applied_blocks => applied_blocks'[h] = applied_blocks[h]]_vars

\* A checked block never takes the canonical chain back by more than
\* MAX_REORG_DEPTH, however far presence records have let the tips drift apart.
ReorgIsBounded ==
  [][(\A b \in Blocks : ~ApplyPresenceRecord(b)) =>
       canonical_height' + MAX_REORG_DEPTH >= canonical_height]_vars

\* Until a presence record is applied, the epoch never goes back.
EpochNeverRegresses == [][~recorded' => current_epoch' >= current_epoch]_vars
=============================================================================
