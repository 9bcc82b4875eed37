-------------------------- MODULE ChainStateProofs --------------------------
(***************************************************************************)
(* The chain state's safety properties, for any set of blocks, any         *)
(* reorganisation depth and any epoch length.  That checked blocks form a  *)
(* chain rests on the two tips being one as long as no presence record is  *)
(* applied (TipsAgree); that a preview is fresh when its block is executed *)
(* rests on the chain never returning to an earlier tip (BuiltOnHistory).  *)
(***************************************************************************)
EXTENDS Chains, TLAPS

\* Before genesis nothing has happened but finality and production.
Pristine ==
  /\ genesis_applied => Len(ledger) > 0
  /\ ~genesis_applied => /\ ledger = <<>>
                         /\ last_block_hash = Zero
                         /\ DOMAIN applied_blocks = {}
                         /\ canonical_height = 0
                         /\ current_epoch = 0
                         /\ ~recorded

\* Without presence records, the last block executed is the canonical tip.
TipsAgree ==
  genesis_applied /\ ~recorded =>
    /\ canonical_tip = last_block_hash
    /\ canonical_height = height
    /\ last_block_hash = ledger[Len(ledger)].hash
    /\ height = ledger[Len(ledger)].height
    /\ \A i \in Positions : ledger[i].hash = ledger[i].computed
    /\ \A i \in Positions : i # Len(ledger) => ledger[i].height < height

\* Without presence records, a candidate's parent is Zero or a block executed at
\* some position i, and its preview ran on a prefix of the ledger of at least i
\* blocks.
BuiltAt(b, i) ==
  /\ b.prev = IF i = 0 THEN Zero ELSE ledger[i].hash
  /\ b \in DOMAIN previews =>
       /\ Len(previews[b]) \in i..Len(ledger)
       /\ \A j \in 1..Len(previews[b]) : previews[b][j] = ledger[j]
BuiltOnHistory ==
  ~recorded => /\ \A b \in candidates : \E i \in 0..Len(ledger) : BuiltAt(b, i)
               /\ \A i \in Positions : ledger[i] \in Local => ledger[i] \in DOMAIN previews

Inv ==
  /\ TypeOK
  /\ Pristine
  /\ TipsAgree
  /\ HistoryIsLinked
  /\ AnchorsAreExecuted
  /\ BuiltOnHistory
  /\ PreviewIsFresh
-----------------------------------------------------------------------------
\* The fields of a block.
LEMMA BlockType ==
  ASSUME NEW b \in Blocks
  PROVE  /\ b.hash \in Hashes /\ b.computed \in Hashes \ {Zero}
         /\ b.prev \in Hashes /\ b.height \in Nat
         /\ b.checkpoint \in BOOLEAN /\ b.lone_coinbase \in BOOLEAN
BY BlocksAssumption

\* The epoch of a height is a natural number.
LEMMA EpochType ==
  ASSUME NEW h \in Nat
  PROVE  h \div EPOCH_LENGTH_BLOCKS \in Nat
BY DepthAssumption

\* A higher block is in no earlier epoch.
LEMMA EpochMonotone ==
  ASSUME NEW h \in Nat, NEW k \in Nat, h <= k
  PROVE  h \div EPOCH_LENGTH_BLOCKS <= k \div EPOCH_LENGTH_BLOCKS
<1> DEFINE E == EPOCH_LENGTH_BLOCKS
           p == h \div E
           q == k \div E
<1>1. E \in Nat /\ E > 0 /\ p \in Nat /\ q \in Nat
  BY DepthAssumption
<1>2. E * p <= h /\ k < E * q + E
  BY <1>1
<1> HIDE DEF E, p, q
<1>3. ASSUME p > q PROVE FALSE
  <2>1. PICK d \in Nat : p = q + 1 + d
    <3>1. p - q - 1 \in Nat /\ p = q + 1 + (p - q - 1)
      BY <1>1, <1>3
    <3> QED
      BY <3>1
  <2>2. E * p = E * q + E + E * d /\ E * d >= 0
    BY <1>1, <2>1
  <2>3. E * p \in Nat /\ E * q \in Nat /\ E * d \in Nat
    BY <1>1, <2>1
  <2> QED
    BY <1>1, <1>2, <2>2, <2>3
<1> QED
  BY <1>1, <1>3 DEF p, q, E

\* One more block at the end of the ledger.
LEMMA Appended ==
  ASSUME ledger \in Seq(Blocks), NEW b \in Blocks, ledger' = Append(ledger, b)
  PROVE  /\ ledger' \in Seq(Blocks)
         /\ Len(ledger') = Len(ledger) + 1
         /\ Len(ledger) \in Nat
         /\ Positions' = Positions \cup {Len(ledger) + 1}
         /\ Len(ledger) + 1 \notin Positions
         /\ \A i \in Positions : ledger'[i] = ledger[i] /\ ledger[i] \in Blocks
         /\ ledger'[Len(ledger) + 1] = b
BY DEF Positions

\* A new chain state satisfies the invariant (ChainState::new).
LEMMA InitEstablishesInv == Init => Inv
<1> SUFFICES ASSUME Init PROVE Inv
  OBVIOUS
<1>1. TypeOK
  <2>1. IsMap(applied_blocks, Nat, Hashes)
    BY DEF Init, IsMap
  <2>2. IsMap(previews, Local, Seq(Blocks)) /\ DOMAIN previews \subseteq candidates
    BY DEF Init, IsMap
  <2>3. ledger \in Seq(Blocks)
    BY DEF Init
  <2>4. /\ height \in Nat /\ last_block_hash \in Hashes /\ canonical_tip \in Hashes
        /\ canonical_height \in Nat /\ last_finalized_height \in Nat
        /\ genesis_applied \in BOOLEAN /\ epoch_anchor_hash \in Hashes
        /\ current_epoch \in Nat /\ candidates \subseteq Local /\ recorded \in BOOLEAN
    BY BlocksAssumption DEF Init
  <2> QED
    BY <2>1, <2>2, <2>3, <2>4 DEF TypeOK
<1>2. Len(ledger) = 0 /\ Positions = {}
  BY DEF Init, Positions
<1>3. Pristine /\ TipsAgree /\ AnchorsAreExecuted
  BY DEF Init, Pristine, TipsAgree, AnchorsAreExecuted
<1>4. HistoryIsLinked /\ BuiltOnHistory /\ PreviewIsFresh
  BY <1>2 DEF Init, HistoryIsLinked, BuiltOnHistory, PreviewIsFresh
<1> QED
  BY <1>1, <1>3, <1>4 DEF Inv

\* finalize_up_to moves only the finalized height.
LEMMA FinalizePreservesInv ==
  ASSUME Inv, NEW h \in Heights, FinalizeUpTo(h)
  PROVE  Inv'
<1>1. TypeOK'
  BY DepthAssumption DEF Inv, TypeOK, FinalizeUpTo, tipVars, epochVars, producerVars
<1>2. (/\ Pristine /\ TipsAgree /\ HistoryIsLinked /\ AnchorsAreExecuted
       /\ BuiltOnHistory /\ PreviewIsFresh)'
  BY DEF Inv, FinalizeUpTo, tipVars, epochVars, producerVars, Pristine, TipsAgree,
         HistoryIsLinked, AnchorsAreExecuted, BuiltOnHistory,
         BuiltAt, PreviewIsFresh, Before, Positions
<1> QED
  BY <1>1, <1>2 DEF Inv

\* A candidate is built on the tip its producer has just read.
LEMMA CandidatePreservesInv ==
  ASSUME Inv, NEW b \in Blocks, BuildCandidate(b)
  PROVE  Inv'
<1> USE DEF BuildCandidate, tipVars, epochVars
<1>1. TypeOK'
  BY DEF Inv, TypeOK
<1>2. (/\ Pristine /\ TipsAgree /\ HistoryIsLinked /\ AnchorsAreExecuted
       /\ PreviewIsFresh)'
  BY DEF Inv, Pristine, TipsAgree, HistoryIsLinked, AnchorsAreExecuted,
         PreviewIsFresh, Before, Positions
<1>3. ASSUME ~recorded PROVE \E i \in 0..Len(ledger) : BuiltAt(b, i)
  <2>0. Len(ledger) \in Nat /\ b \notin DOMAIN previews
    BY DEF Inv, TypeOK
  <2>1. CASE genesis_applied
    <3>1. b.prev = ledger[Len(ledger)].hash /\ Len(ledger) # 0
      BY <1>3, <2>1, <2>0 DEF Inv, TipsAgree, Pristine
    <3> QED
      BY <3>1, <2>0 DEF BuiltAt
  <2>2. CASE ~genesis_applied
    BY <2>2, <2>0 DEF Inv, Pristine, BuiltAt
  <2> QED
    BY <2>1, <2>2
<1>4. BuiltOnHistory'
  <2>1. ASSUME ~recorded', NEW c \in candidates'
        PROVE  \E i \in 0..Len(ledger) : BuiltAt(c, i)
    BY <2>1, <1>3 DEF Inv, BuiltOnHistory
  <2>2. ledger' = ledger /\ previews' = previews /\ recorded' = recorded
    OBVIOUS
  <2>3. \A c, i : BuiltAt(c, i)' <=> BuiltAt(c, i)
    BY <2>2 DEF BuiltAt
  <2> QED
    BY <2>1, <2>2, <2>3 DEF Inv, BuiltOnHistory, Positions
<1> QED
  BY <1>1, <1>2, <1>4 DEF Inv

\* preview_block changes nothing but the preview: if its block is already part of
\* the history, it was offered before, which needs a preview.
LEMMA PreviewPreservesInv ==
  ASSUME Inv, NEW b \in Blocks, PreviewBlock(b)
  PROVE  Inv'
<1> USE DEF PreviewBlock, tipVars, epochVars
<1>1. TypeOK'
  BY DEF Inv, TypeOK, IsMap, Put
<1>2. (/\ Pristine /\ TipsAgree /\ HistoryIsLinked /\ AnchorsAreExecuted)'
  BY DEF Inv, Pristine, TipsAgree, HistoryIsLinked, AnchorsAreExecuted,
         Positions
<1>3. /\ DOMAIN previews' = DOMAIN previews \cup {b}
      /\ previews'[b] = ledger
      /\ b \notin DOMAIN previews
      /\ \A c \in DOMAIN previews : previews'[c] = previews[c]
  BY DEF Inv, TypeOK, IsMap, Put
<1>4. PreviewIsFresh'
  <2>1. ASSUME ~recorded, NEW i \in Positions, ledger[i] \in Local
        PROVE  previews'[ledger[i]] = previews[ledger[i]]
    BY <2>1, <1>3 DEF Inv, BuiltOnHistory
  <2>2. ledger' = ledger /\ recorded' = recorded
    OBVIOUS
  <2>3. \A i : Before(i)' = Before(i)
    BY <2>2, Zenon DEF Before
  <2> HIDE DEF PreviewBlock
  <2> QED
    BY <2>1, <2>2, <2>3 DEF Inv, PreviewIsFresh, Positions
<1>5. BuiltOnHistory'
  <2>1. ASSUME ~recorded', NEW c \in candidates'
        PROVE  \E i \in 0..Len(ledger) : BuiltAt(c, i)'
    <3>1. PICK i \in 0..Len(ledger) : BuiltAt(c, i)
      BY <2>1 DEF Inv, BuiltOnHistory
    <3>2. Len(ledger) \in Nat
      BY DEF Inv, TypeOK
    <3>3. BuiltAt(c, i)'
      <4>1. CASE c = b
        <5>1. previews'[c] = ledger /\ ledger' = ledger
          BY <4>1, <1>3
        <5>2. Len(ledger) \in i..Len(ledger)
          BY <3>1, <3>2
        <5> QED
          BY <5>1, <5>2, <3>1 DEF BuiltAt
      <4>2. CASE c # b
        BY <4>2, <3>1, <1>3 DEF BuiltAt
      <4> QED
        BY <4>1, <4>2
    <3> QED
      BY <3>3
  <2> QED
    BY <2>1, <1>3 DEF Inv, BuiltOnHistory, Positions
<1> QED
  BY <1>1, <1>2, <1>4, <1>5 DEF Inv
-----------------------------------------------------------------------------
(************************** Executing a block ******************************)

\* The effect of an execution, checked or not, on everything but the chain.
LEMMA ExecutePreserves ==
  ASSUME Inv, NEW b \in Blocks, genesis_applied, Execute(b), SetTips(b), SetEpoch(b)
  PROVE  /\ ledger' \in Seq(Blocks)
         /\ height' \in Nat /\ last_block_hash' \in Hashes
         /\ canonical_tip' \in Hashes /\ canonical_height' \in Nat
         /\ epoch_anchor_hash' \in Hashes /\ current_epoch' \in Nat
         /\ Len(ledger') > 0
         /\ AnchorsAreExecuted'
<1>1. ledger \in Seq(Blocks) /\ ledger' = Append(ledger, b) /\ Len(ledger) > 0
  BY DEF Execute, Inv, TypeOK, Pristine
<1> DEFINE n == Len(ledger)
<1>2. /\ ledger' \in Seq(Blocks) /\ Len(ledger') = n + 1 /\ n \in Nat
      /\ Positions' = Positions \cup {n + 1} /\ n + 1 \notin Positions
      /\ \A i \in Positions : ledger'[i] = ledger[i] /\ ledger[i] \in Blocks
      /\ ledger'[n + 1] = b
  BY <1>1, Appended
<1>4. /\ height' \in Nat /\ last_block_hash' \in Hashes
      /\ canonical_tip' \in Hashes /\ canonical_height' \in Nat
  BY BlockType DEF SetTips, Inv, TypeOK
<1>5. epoch_anchor_hash' \in Hashes /\ current_epoch' \in Nat
  BY BlockType, EpochType DEF SetEpoch, Inv, TypeOK
<1> HIDE DEF n
<1>6. \E i \in Positions' : /\ ledger'[i].hash = canonical_tip'
                             /\ ledger'[i].height = canonical_height'
  <2>1. CASE canonical_tip' = b.hash /\ canonical_height' = b.height
    BY <2>1, <1>2
  <2>2. CASE canonical_tip' = canonical_tip /\ canonical_height' = canonical_height
    BY <2>2, <1>2 DEF Inv, AnchorsAreExecuted
  <2> QED
    BY <2>1, <2>2 DEF SetTips
<1>7. \E i \in Positions' :
        /\ ledger'[i].hash = epoch_anchor_hash'
        /\ \/ i = 1 /\ current_epoch' = 0
           \/ /\ ledger'[i].checkpoint
              /\ current_epoch' = ledger'[i].height \div EPOCH_LENGTH_BLOCKS
  <2>1. CASE b.checkpoint
    BY <2>1, <1>2 DEF SetEpoch
  <2>2. CASE ~b.checkpoint
    BY <2>2, <1>2 DEF SetEpoch, Inv, AnchorsAreExecuted
  <2> QED
    BY <2>1, <2>2
<1>8. AnchorsAreExecuted'
  BY <1>6, <1>7 DEF AnchorsAreExecuted
<1> QED
  BY <1>1, <1>2, <1>4, <1>5, <1>8 DEF n

\* A presence record ends every promise that depends on their absence.
LEMMA PresencePreservesInv ==
  ASSUME Inv, NEW b \in Blocks, ApplyPresenceRecord(b)
  PROVE  Inv'
<1> USE DEF ApplyPresenceRecord, producerVars
<1>1. /\ ledger' \in Seq(Blocks)
      /\ height' \in Nat /\ last_block_hash' \in Hashes
      /\ canonical_tip' \in Hashes /\ canonical_height' \in Nat
      /\ epoch_anchor_hash' \in Hashes /\ current_epoch' \in Nat
      /\ Len(ledger') > 0 /\ AnchorsAreExecuted'
  BY ExecutePreserves
<1>2. TypeOK'
  BY <1>1 DEF Inv, TypeOK
<1>3. (Pristine /\ TipsAgree /\ HistoryIsLinked /\ BuiltOnHistory /\ PreviewIsFresh)'
  BY <1>1 DEF Pristine, TipsAgree, HistoryIsLinked, BuiltOnHistory, PreviewIsFresh
<1> QED
  BY <1>1, <1>2, <1>3 DEF Inv
-----------------------------------------------------------------------------
(***************************** Checked blocks ******************************)

\* apply_genesis starts the history with one block.
LEMMA GenesisPreservesInv ==
  ASSUME Inv, NEW b \in Blocks, ApplyGenesis(b)
  PROVE  Inv'
<1> USE DEF producerVars
<1>1. /\ ~genesis_applied /\ genesis_applied' /\ ledger = <<>> /\ ledger' = <<b>>
      /\ ~recorded /\ recorded' = recorded
      /\ DOMAIN applied_blocks = {}
      /\ candidates' = candidates /\ previews' = previews
      /\ current_epoch = 0 /\ current_epoch' = 0
  BY DEF ApplyGenesis, Inv, Pristine
<1>2. /\ height' = 0 /\ last_block_hash' = b.hash /\ canonical_tip' = b.hash
      /\ canonical_height' = 0 /\ epoch_anchor_hash' = b.hash
      /\ b.height = 0 /\ b.computed = b.hash
      /\ b \in Local => b \in DOMAIN previews
      /\ applied_blocks' = Put(applied_blocks, {0}, b.hash)
      /\ last_finalized_height' = last_finalized_height
  BY DEF ApplyGenesis, Offered
<1>3. /\ ledger' \in Seq(Blocks) /\ Len(ledger') = 1 /\ ledger'[1] = b
      /\ Positions' = {1}
  BY <1>1 DEF Positions
<1>4. DOMAIN applied_blocks' = {0} /\ applied_blocks'[0] = b.hash
  BY <1>1, <1>2 DEF Put
<1>5. TypeOK'
  <2>1. IsMap(applied_blocks', Nat, Hashes)
    BY <1>1, <1>2, BlockType DEF Put, IsMap
  <2> QED
    BY <2>1, <1>1, <1>2, <1>3, BlockType DEF Inv, TypeOK
<1>6. (Pristine /\ TipsAgree)'
  BY <1>1, <1>2, <1>3 DEF Pristine, TipsAgree
<1>7. HistoryIsLinked'
  BY <1>2, <1>3, <1>4 DEF HistoryIsLinked
<1>8. AnchorsAreExecuted'
  BY <1>1, <1>2, <1>3 DEF AnchorsAreExecuted
<1>10. ASSUME NEW c \in candidates
       PROVE  BuiltAt(c, 0)' /\ (c \in DOMAIN previews => previews[c] = <<>>)
  <2>1. BuiltAt(c, 0)
    BY <1>1 DEF Inv, BuiltOnHistory
  <2>2. c \in DOMAIN previews => previews[c] \in Seq(Blocks)
    BY DEF Inv, TypeOK, IsMap
  <2>3. c \in DOMAIN previews => previews[c] = <<>>
    BY <2>1, <2>2, <1>1 DEF BuiltAt
  <2> QED
    BY <2>1, <2>3, <1>1, <1>3 DEF BuiltAt
<1>11. BuiltOnHistory'
  BY <1>1, <1>2, <1>3, <1>10 DEF BuiltOnHistory
<1>12. PreviewIsFresh'
  <2>1. Before(1)' = <<>>
    BY DEF Before
  <2>2. b \in Local => previews'[b] = <<>>
    BY <1>1, <1>2, <1>10 DEF Inv, TypeOK
  <2> QED
    BY <2>1, <2>2, <1>3 DEF PreviewIsFresh
<1> QED
  BY <1>5, <1>6, <1>7, <1>8, <1>11, <1>12 DEF Inv

\* A checked block extends the chain, as long as there is one.
LEMMA CheckedExtendsChain ==
  ASSUME Inv, NEW b \in Blocks, ApplyBlockChecked(b), ~recorded
  PROVE  /\ b.prev = ledger[Len(ledger)].hash
         /\ canonical_tip' = b.hash /\ canonical_height' = b.height
         /\ b.height > height
         /\ b \in candidates => BuiltAt(b, Len(ledger))
<1>1. /\ genesis_applied /\ Len(ledger) > 0 /\ Len(ledger) \in Nat
      /\ ledger[Len(ledger)] \in Blocks
  BY DEF Inv, Pristine, TypeOK, ApplyBlockChecked
<1>2. b.prev = last_block_hash /\ b.prev = canonical_tip
  BY <1>1 DEF Inv, TipsAgree, ApplyBlockChecked, Accepts
<1>3. b.prev = ledger[Len(ledger)].hash
  BY <1>1, <1>2 DEF Inv, TipsAgree
<1>4. canonical_tip' = b.hash /\ canonical_height' = b.height
  BY <1>2 DEF ApplyBlockChecked, SetTips
<1>5. b.height > height
  <2>1. height \in DOMAIN applied_blocks
    BY <1>1 DEF Inv, TipsAgree, HistoryIsLinked, Positions
  <2>2. b.height # height /\ b.height >= height
    BY <2>1 DEF ApplyBlockChecked, Accepts
  <2> QED
    BY <2>2, BlockType DEF Inv, TypeOK
<1>6. ASSUME b \in candidates PROVE BuiltAt(b, Len(ledger))
  <2>1. PICK i \in 0..Len(ledger) : BuiltAt(b, i)
    BY <1>6 DEF Inv, BuiltOnHistory
  <2>2. CASE i = Len(ledger)
    BY <2>1, <2>2
  <2>3. CASE i = 0
    <3>1. b.prev = Zero
      BY <2>1, <2>3 DEF BuiltAt
    <3>2. ledger[Len(ledger)].hash = ledger[Len(ledger)].computed
      BY <1>1 DEF Inv, TipsAgree, Positions
    <3> QED
      BY <1>1, <1>3, <3>1, <3>2, BlockType
  <2>4. CASE i # 0 /\ i # Len(ledger)
    <3>1. i \in Positions /\ ledger[i] \in Blocks /\ Len(ledger) \in Positions
      BY <2>4, <1>1 DEF Inv, TypeOK, Positions
    <3>2. ledger[i].hash = ledger[Len(ledger)].hash
      BY <2>1, <2>4, <1>3 DEF BuiltAt
    <3>3. /\ ledger[i].computed = ledger[i].hash
          /\ ledger[Len(ledger)].computed = ledger[Len(ledger)].hash
          /\ ledger[i].height < ledger[Len(ledger)].height
      BY <2>4, <3>1, <1>1 DEF Inv, TipsAgree
    <3>4. ledger[i] = ledger[Len(ledger)]
      BY <3>1, <3>2, <3>3, <1>1, HashAssumption
    <3> QED
      BY <3>3, <3>4, <1>1, BlockType
  <2> QED
    BY <2>2, <2>3, <2>4
<1> QED
  BY <1>3, <1>4, <1>5, <1>6

\* A block accepted by apply_block_checked extends the history by one link.
LEMMA CheckedPreservesInv ==
  ASSUME Inv, NEW b \in Blocks, ApplyBlockChecked(b)
  PROVE  Inv'
<1> DEFINE n == Len(ledger)
<1>1. /\ genesis_applied /\ genesis_applied' /\ recorded' = recorded
      /\ candidates' = candidates /\ previews' = previews
      /\ last_finalized_height' = last_finalized_height
      /\ height' = b.height /\ last_block_hash' = b.hash
      /\ b.computed = b.hash /\ b.height \notin DOMAIN applied_blocks
      /\ applied_blocks' = Put(applied_blocks, {b.height}, b.hash)
      /\ b \in Local => b \in DOMAIN previews
  BY DEF ApplyBlockChecked, Accepts, SetTips, Offered, producerVars
<1>2. /\ ledger' \in Seq(Blocks)
      /\ height' \in Nat /\ last_block_hash' \in Hashes
      /\ canonical_tip' \in Hashes /\ canonical_height' \in Nat
      /\ epoch_anchor_hash' \in Hashes /\ current_epoch' \in Nat
      /\ Len(ledger') > 0 /\ AnchorsAreExecuted'
  BY ExecutePreserves DEF ApplyBlockChecked
<1>3. /\ Len(ledger') = n + 1 /\ n \in Nat /\ n > 0
      /\ Positions' = Positions \cup {n + 1} /\ n + 1 \notin Positions
      /\ \A i \in Positions : ledger'[i] = ledger[i] /\ ledger[i] \in Blocks
      /\ ledger'[n + 1] = b
      /\ Positions = 1..n
  BY Appended, <1>1 DEF ApplyBlockChecked, Execute, Inv, TypeOK, Pristine, Positions
<1> HIDE DEF n
<1>4. /\ DOMAIN applied_blocks' = DOMAIN applied_blocks \cup {b.height}
      /\ applied_blocks'[b.height] = b.hash
      /\ \A h \in DOMAIN applied_blocks : applied_blocks'[h] = applied_blocks[h]
      /\ IsMap(applied_blocks', Nat, Hashes)
  BY <1>1, BlockType DEF Put, IsMap, Inv, TypeOK
<1>5. TypeOK'
  BY <1>1, <1>2, <1>4 DEF Inv, TypeOK
<1>6. Pristine'
  BY <1>1, <1>2 DEF Pristine
<1>7. ASSUME recorded
      PROVE  (TipsAgree /\ HistoryIsLinked /\ BuiltOnHistory /\ PreviewIsFresh)'
  BY <1>7, <1>1 DEF TipsAgree, HistoryIsLinked, BuiltOnHistory, PreviewIsFresh
<1>8. ASSUME ~recorded
      PROVE  (TipsAgree /\ HistoryIsLinked /\ BuiltOnHistory /\ PreviewIsFresh)'
  <2>1. /\ b.prev = ledger[n].hash
        /\ canonical_tip' = b.hash /\ canonical_height' = b.height
        /\ b.height > height
        /\ b \in candidates => BuiltAt(b, n)
    BY <1>8, CheckedExtendsChain DEF n
  <2>2. /\ \A i \in Positions : ledger[i].hash = ledger[i].computed
        /\ \A i \in Positions : i # n => ledger[i].height < height
        /\ height = ledger[n].height /\ n \in Positions /\ height \in Nat
        /\ \A i \in Positions : ledger[i].height \in Nat
    BY <1>1, <1>3, <1>8, BlockType DEF Inv, TypeOK, TipsAgree, n
  <2>3. \A i \in Positions : ledger[i].height < b.height
    BY <2>1, <2>2, BlockType
  <2>4. TipsAgree'
    BY <2>1, <2>2, <2>3, <1>1, <1>3 DEF TipsAgree
  <2>5. HistoryIsLinked'
    <3>1. /\ \A i \in Positions : i + 1 \in Positions =>
               /\ ledger[i + 1].prev = ledger[i].hash
               /\ ledger[i + 1].height > ledger[i].height
          /\ DOMAIN applied_blocks = {ledger[i].height : i \in Positions}
          /\ \A i \in Positions : applied_blocks[ledger[i].height] = ledger[i].hash
      BY <1>8 DEF Inv, HistoryIsLinked
    <3>2. ASSUME NEW i \in Positions', i + 1 \in Positions'
          PROVE  /\ ledger'[i + 1].prev = ledger'[i].hash
                 /\ ledger'[i + 1].height > ledger'[i].height
      <4>1. CASE i = n
        BY <4>1, <1>3, <2>1, <2>2
      <4>2. CASE i # n
        <5>1. i \in Positions /\ i + 1 \in Positions
          BY <4>2, <3>2, <1>3
        <5>2. ledger'[i] = ledger[i] /\ ledger'[i + 1] = ledger[i + 1]
          BY <5>1, <1>3
        <5>3. ledger[i + 1].prev = ledger[i].hash /\ ledger[i + 1].height > ledger[i].height
          BY <5>1, <3>1
        <5> QED
          BY <5>2, <5>3
      <4> QED
        BY <4>1, <4>2
    <3>3. DOMAIN applied_blocks' = {ledger'[i].height : i \in Positions'}
      <4>1. {ledger'[i].height : i \in Positions'}
              = {ledger[i].height : i \in Positions} \cup {b.height}
        BY <1>3
      <4>2. DOMAIN applied_blocks' = DOMAIN applied_blocks \cup {b.height}
        BY <1>4
      <4> QED
        BY <3>1, <4>1, <4>2
    <3>4. \A i \in Positions' : applied_blocks'[ledger'[i].height] = ledger'[i].hash
      BY <3>1, <1>3, <1>4
    <3> QED
      BY <3>2, <3>3, <3>4 DEF HistoryIsLinked
  <2>6. ASSUME NEW c \in candidates
        PROVE  \E i \in 0..Len(ledger') : BuiltAt(c, i)'
    <3>1. PICK i \in 0..n : BuiltAt(c, i)
      BY <1>8 DEF Inv, BuiltOnHistory, n
    <3>2. i \in 0..Len(ledger') /\ (i # 0 => i \in Positions)
      BY <1>3
    <3>3. c.prev = IF i = 0 THEN Zero ELSE ledger'[i].hash
      BY <3>1, <3>2, <1>3 DEF BuiltAt
    <3>4. ASSUME c \in DOMAIN previews
          PROVE  /\ Len(previews[c]) \in i..Len(ledger')
                 /\ \A j \in 1..Len(previews[c]) : previews[c][j] = ledger'[j]
      BY <3>1, <3>4, <1>3 DEF BuiltAt, n
    <3> QED
      BY <3>2, <3>3, <3>4, <1>1 DEF BuiltAt
  <2>7. BuiltOnHistory'
    <3>1. \A i \in Positions' : ledger'[i] \in Local => ledger'[i] \in DOMAIN previews'
      BY <1>8, <1>1, <1>3 DEF Inv, BuiltOnHistory
    <3> QED
      BY <2>6, <3>1, <1>1 DEF BuiltOnHistory
  <2>8. PreviewIsFresh'
    <3>1. ASSUME NEW i \in Positions, ledger[i] \in Local
          PROVE  previews[ledger[i]] = Before(i)'
      <4>1. previews[ledger[i]] = Before(i)
        BY <3>1, <1>8 DEF Inv, PreviewIsFresh
      <4>2. Before(i)' = Before(i)
        BY <1>3 DEF Before
      <4> QED
        BY <4>1, <4>2
    <3>2. PICK m \in Nat : m = n
      BY <1>3
    <3>3. ASSUME b \in Local PROVE previews[b] = Before(m + 1)'
      <4>1. b \in candidates /\ b \in DOMAIN previews /\ previews[b] \in Seq(Blocks)
        BY <3>3, <1>1 DEF Inv, TypeOK, IsMap
      <4>2. /\ Len(previews[b]) = m
            /\ \A j \in 1..m : previews[b][j] = ledger[j]
        BY <3>2, <4>1, <2>1, <1>3 DEF BuiltAt, n
      <4>3. (m + 1) - 1 = m /\ \A j \in 1..m : ledger'[j] = ledger[j]
        BY <3>2, <1>3
      <4>4. Before(m + 1)' = [j \in 1..m |-> ledger[j]]
        BY <4>3 DEF Before
      <4>5. previews[b] = [j \in 1..m |-> previews[b][j]]
        BY <4>1, <4>2
      <4> QED
        BY <4>2, <4>4, <4>5
    <3>4. ASSUME NEW i \in Positions', ledger'[i] \in Local
          PROVE  previews'[ledger'[i]] = Before(i)'
      <4>1. CASE i \in Positions
        BY <4>1, <3>1, <3>4, <1>1, <1>3
      <4>2. CASE i = m + 1
        BY <4>2, <3>2, <3>3, <3>4, <1>1, <1>3
      <4> QED
        BY <4>1, <4>2, <3>2, <1>3
    <3> QED
      BY <3>4 DEF PreviewIsFresh
  <2> QED
    BY <2>4, <2>5, <2>7, <2>8
<1> QED
  BY <1>2, <1>5, <1>6, <1>7, <1>8 DEF Inv

\* Every operation of the chain state preserves the invariant.
LEMMA NextPreservesInv ==
  ASSUME Inv, [Next]_vars
  PROVE  Inv'
<1>1. ASSUME UNCHANGED vars PROVE Inv'
  <2> USE <1>1 DEF vars, tipVars, epochVars, producerVars
  <2>1. TypeOK'
    BY DEF Inv, TypeOK
  <2>2. (/\ Pristine /\ TipsAgree /\ HistoryIsLinked /\ AnchorsAreExecuted
         /\ BuiltOnHistory /\ PreviewIsFresh)'
    BY DEF Inv, Pristine, TipsAgree, HistoryIsLinked, AnchorsAreExecuted,
           BuiltOnHistory, BuiltAt, PreviewIsFresh, Before, Positions
  <2> QED
    BY <2>1, <2>2 DEF Inv
<1> QED
  BY <1>1, FinalizePreservesInv, CandidatePreservesInv, PreviewPreservesInv,
     PresencePreservesInv, GenesisPreservesInv, CheckedPreservesInv DEF Next
-----------------------------------------------------------------------------
(******************************** Theorems *********************************)

\* The inductive invariant holds in every reachable state of the chain state.
THEOREM InvHolds == Spec => []Inv
<1>1. Inv /\ [Next]_vars => Inv'
  BY NextPreservesInv
<1> QED
  BY <1>1, InitEstablishesInv, PTL DEF Spec

\* The fields of ChainStateInner keep their types under every operation.
THEOREM TypeCorrect == Spec => []TypeOK
<1>1. Inv => TypeOK
  BY DEF Inv
<1> QED
  BY <1>1, InvHolds, PTL

\* Blocks accepted by apply_block_checked form one hash-linked chain.
THEOREM HistoryAlwaysLinked == Spec => []HistoryIsLinked
<1>1. Inv => HistoryIsLinked
  BY DEF Inv
<1> QED
  BY <1>1, InvHolds, PTL

\* The canonical tip and the epoch anchor are executed blocks.
THEOREM AnchorsAlwaysExecuted == Spec => []AnchorsAreExecuted
<1>1. Inv => AnchorsAreExecuted
  BY DEF Inv
<1> QED
  BY <1>1, InvHolds, PTL

\* A block produced in two phases runs on the ledger it was previewed on.
THEOREM PreviewAlwaysFresh == Spec => []PreviewIsFresh
<1>1. Inv => PreviewIsFresh
  BY DEF Inv
<1> QED
  BY <1>1, InvHolds, PTL

\* No operation rewrites what is recorded at or below the finalized height.
THEOREM FinalizedAlwaysFixed == Spec => FinalizedHistoryIsFixed
<1> DEFINE Fixed == \A h \in 1..last_finalized_height :
                      /\ h \in DOMAIN applied_blocks <=> h \in DOMAIN applied_blocks'
                      /\ h \in DOMAIN applied_blocks => applied_blocks'[h] = applied_blocks[h]
<1>1. Inv /\ [Next]_vars => [Fixed]_vars
  <2> SUFFICES ASSUME Inv, Next PROVE Fixed
    OBVIOUS
  <2>0. last_finalized_height \in Nat
    BY DEF Inv, TypeOK
  <2>1. ASSUME NEW b \in Blocks, ApplyBlockChecked(b) PROVE Fixed
    <3>1. b.height > last_finalized_height /\ b.height \in Nat
          /\ applied_blocks' = Put(applied_blocks, {b.height}, b.hash)
      BY <2>1, BlockType DEF ApplyBlockChecked, Accepts
    <3>2. \A h \in 1..last_finalized_height : h # b.height
      BY <3>1, <2>0
    <3> QED
      BY <3>1, <3>2 DEF Put
  <2>2. ASSUME NEW b \in Blocks, ApplyGenesis(b) PROVE Fixed
    <3>1. applied_blocks' = Put(applied_blocks, {0}, b.hash)
      BY <2>2 DEF ApplyGenesis
    <3> QED
      BY <3>1, <2>0 DEF Put
  <2>3. ASSUME applied_blocks' = applied_blocks PROVE Fixed
    BY <2>3
  <2> QED
    BY <2>1, <2>2, <2>3 DEF Next, BuildCandidate, PreviewBlock, ApplyPresenceRecord, FinalizeUpTo
<1> QED
  BY <1>1, InvHolds, PTL DEF Spec, FinalizedHistoryIsFixed

\* A checked block reorganises at most MAX_REORG_DEPTH heights.
THEOREM ReorgAlwaysBounded == Spec => ReorgIsBounded
<1> DEFINE Bounded == (\A b \in Blocks : ~ApplyPresenceRecord(b)) =>
                        canonical_height' + MAX_REORG_DEPTH >= canonical_height
<1>1. Inv /\ [Next]_vars => [Bounded]_vars
  <2> SUFFICES ASSUME Inv, Next, \A b \in Blocks : ~ApplyPresenceRecord(b)
               PROVE  canonical_height' + MAX_REORG_DEPTH >= canonical_height
    OBVIOUS
  <2>0. canonical_height \in Nat /\ MAX_REORG_DEPTH \in Nat
    BY DepthAssumption DEF Inv, TypeOK
  <2>1. ASSUME NEW b \in Blocks, ApplyBlockChecked(b)
        PROVE  canonical_height' + MAX_REORG_DEPTH >= canonical_height
    BY <2>0, <2>1, BlockType DEF ApplyBlockChecked, Accepts, ShallowReorg, SetTips
  <2>2. ASSUME NEW b \in Blocks, ApplyGenesis(b)
        PROVE  canonical_height' + MAX_REORG_DEPTH >= canonical_height
    <3>1. canonical_height = 0
      BY <2>2 DEF ApplyGenesis, Inv, Pristine
    <3> QED
      BY <3>1, <2>0, <2>2 DEF ApplyGenesis
  <2>3. ASSUME canonical_height' = canonical_height
        PROVE  canonical_height' + MAX_REORG_DEPTH >= canonical_height
    BY <2>0, <2>3
  <2> QED
    BY <2>1, <2>2, <2>3 DEF Next, BuildCandidate, PreviewBlock, FinalizeUpTo, tipVars
<1> QED
  BY <1>1, InvHolds, PTL DEF Spec, ReorgIsBounded

\* The epoch only moves forward while no presence record is applied.
THEOREM EpochAlwaysAdvances == Spec => EpochNeverRegresses
<1>1. Inv /\ [Next]_vars => [~recorded' => current_epoch' >= current_epoch]_vars
  <2> SUFFICES ASSUME Inv, Next, ~recorded' PROVE current_epoch' >= current_epoch
    OBVIOUS
  <2>0. current_epoch \in Nat
    BY DEF Inv, TypeOK
  <2>1. ASSUME NEW b \in Blocks, ApplyBlockChecked(b), b.checkpoint
        PROVE  current_epoch' >= current_epoch
    <3>1. /\ ~recorded /\ genesis_applied
          /\ current_epoch' = b.height \div EPOCH_LENGTH_BLOCKS
      BY <2>1 DEF ApplyBlockChecked, SetEpoch
    <3>2. b.height > height /\ b.height \in Nat /\ height \in Nat
      BY <2>1, <3>1, CheckedExtendsChain, BlockType DEF Inv, TypeOK
    <3>3. b.height \div EPOCH_LENGTH_BLOCKS \in Nat
      BY <3>2, EpochType
    <3>4. PICK i \in Positions :
            \/ current_epoch = 0
            \/ current_epoch = ledger[i].height \div EPOCH_LENGTH_BLOCKS
      BY <3>1 DEF Inv, AnchorsAreExecuted
    <3>5. ledger[i].height \in Nat /\ ledger[i].height <= b.height
      <4>1. ledger[i] \in Blocks
        BY DEF Inv, TypeOK, Positions
      <4>2. ledger[i].height \in Nat
        BY <4>1, BlockType
      <4>3. ledger[i].height <= height
        BY <4>2, <3>1, <3>2 DEF Inv, TipsAgree
      <4> QED
        BY <4>2, <4>3, <3>2
    <3>6. ledger[i].height \div EPOCH_LENGTH_BLOCKS <= b.height \div EPOCH_LENGTH_BLOCKS
      BY <3>2, <3>5, EpochMonotone
    <3> QED
      BY <3>1, <3>3, <3>4, <3>6
  <2>2. ASSUME current_epoch' = current_epoch PROVE current_epoch' >= current_epoch
    BY <2>0, <2>2
  <2> QED
    BY <2>1, <2>2 DEF Next, BuildCandidate, PreviewBlock, ApplyBlockChecked, SetEpoch,
                      ApplyGenesis, ApplyPresenceRecord, FinalizeUpTo, epochVars
<1> QED
  BY <1>1, InvHolds, PTL DEF Spec, EpochNeverRegresses

\* Both chains keep to their own specifications when composed, so that what is
\* proved of ChainState here and of Settlement in SettlementProofs holds of the
\* composition.
THEOREM ChainsRunBoth == ChainsSpec => Spec /\ SettlementSpec
<1>1. ChainsInit => Init /\ SettlementInit
  BY DEF ChainsInit
<1>2. [ChainsNext]_<<part, vars, settlementVars>>
      => [Next]_vars /\ [SettlementNext]_settlementVars
  BY DEF ChainsNext
<1> QED
  BY <1>1, <1>2, PTL DEF ChainsSpec, Spec, SettlementSpec
=============================================================================
