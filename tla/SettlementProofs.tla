-------------------------- MODULE SettlementProofs --------------------------
(***************************************************************************)
(* What the nodes accept is certified and agreed upon, for any committee,  *)
(* threshold, blocks and lists of signatures.                              *)
(*                                                                         *)
(* The loop of verify_committee_signatures counts each key at most once,   *)
(* whatever the list (CountedByDistinctKeys); its existence as a function  *)
(* and what it preserves are shown by induction on the length of the list. *)
(* A signature names one block, because the hashes cover every field and a *)
(* member only signs what verifies (MessageNamesBlock).  Two blocks of one *)
(* epoch with a majority behind each share a member, who signs once.       *)
(***************************************************************************)
EXTENDS Settlement, CollectionLemmas

NoneCounted == [used |-> {}, valid |-> 0]

\* A loop over positions that carries a value has a result for any length.
LEMMA LoopExists ==
  ASSUME NEW msg, NEW sigs, NEW n \in Nat
  PROVE  \E f : f = [i \in 0..n |->
                       IF i = 0 THEN NoneCounted ELSE CountSignature(f[i - 1], msg, sigs, i)]
<1> DEFINE IsLoop(f, k) ==
             f = [i \in 0..k |->
                    IF i = 0 THEN NoneCounted ELSE CountSignature(f[i - 1], msg, sigs, i)]
           Lengths == {k \in Nat : \E f : IsLoop(f, k)}
<1>1. 0 \in Lengths
  <2> DEFINE f == [i \in 0..0 |-> NoneCounted]
  <2>1. IsLoop(f, 0)
    OBVIOUS
  <2> QED
    BY <2>1
<1>2. ASSUME NEW k \in Nat, k \in Lengths
      PROVE  k + 1 \in Lengths
  <2>1. PICK f : IsLoop(f, k)
    BY <1>2
  <2> DEFINE last == CountSignature(f[k], msg, sigs, k + 1)
             g == [i \in 0..(k + 1) |-> IF i <= k THEN f[i] ELSE last]
  <2>2. \A i \in 0..k : f[i] = IF i = 0 THEN NoneCounted
                               ELSE CountSignature(f[i - 1], msg, sigs, i)
    BY <2>1
  <2>3. \A i \in 0..k : g[i] = f[i]
    OBVIOUS
  <2>4. g[k + 1] = last
    OBVIOUS
  <2>5. \A i \in 0..(k + 1) : g[i] = IF i = 0 THEN NoneCounted
                                     ELSE CountSignature(g[i - 1], msg, sigs, i)
    <3> SUFFICES ASSUME NEW i \in 0..(k + 1)
                 PROVE  g[i] = IF i = 0 THEN NoneCounted
                               ELSE CountSignature(g[i - 1], msg, sigs, i)
      OBVIOUS
    <3> HIDE DEF g
    <3>1. CASE i = 0
      BY <2>2, <2>3, <3>1
    <3>2. CASE i \in 1..k
      <4>1. g[i] = f[i] /\ g[i - 1] = f[i - 1] /\ i # 0 /\ i \in 0..k
        BY <2>3, <3>2
      <4> QED
        BY <2>2, <4>1
    <3>3. CASE i = k + 1
      <4>1. g[i - 1] = f[k] /\ i # 0
        BY <2>3, <3>3
      <4> QED
        BY <2>4, <3>3, <4>1
    <3> QED
      BY <3>1, <3>2, <3>3
  <2>6. IsLoop(g, k + 1)
    BY <2>5
  <2>7. k + 1 \in Nat
    OBVIOUS
  <2> QED
    BY <2>6, <2>7
<1> HIDE DEF Lengths
<1>3. Nat \subseteq Lengths
  BY <1>1, <1>2, SetInduction
<1> QED
  BY <1>3 DEF Lengths

\* What verify_committee_signatures counts is the last value of the loop.
LEMMA LoopResult ==
  ASSUME NEW b, NEW sigs, Len(sigs) \in Nat
  PROVE  \E f : /\ f[0] = NoneCounted
                /\ \A i \in 1..Len(sigs) :
                     f[i] = CountSignature(f[i - 1], signing_message(b), sigs, i)
                /\ ValidSignatures(b, sigs) = f[Len(sigs)].valid
<1> DEFINE msg == signing_message(b)
           n == Len(sigs)
           f == CHOOSE g : g = [i \in 0..n |->
                                  IF i = 0 THEN NoneCounted
                                  ELSE CountSignature(g[i - 1], msg, sigs, i)]
<1>1. ValidSignatures(b, sigs) = f[n].valid
  BY DEF ValidSignatures, NoneCounted
<1> HIDE DEF msg, n
<1>2. f = [i \in 0..n |-> IF i = 0 THEN NoneCounted
                          ELSE CountSignature(f[i - 1], msg, sigs, i)]
  BY LoopExists DEF n
<1> HIDE DEF f
<1>3. f[0] = NoneCounted /\ \A i \in 1..n : f[i] = CountSignature(f[i - 1], msg, sigs, i)
  BY <1>2 DEF n
<1> QED
  BY <1>1, <1>3 DEF msg, n

\* Each signature counted is that of another key of the committee.
LEMMA CountedByDistinctKeys ==
  ASSUME NEW b, NEW sigs, Len(sigs) \in Nat,
         NEW S, \A i \in 1..Len(sigs) : sigs[i] \in S
  PROVE  \E K \in SUBSET {m \in Committee : [key |-> m, msg |-> signing_message(b)] \in S} :
           IsFiniteSet(K) /\ Cardinality(K) = ValidSignatures(b, sigs)
<1> DEFINE msg == signing_message(b)
           signers == {m \in Committee : [key |-> m, msg |-> msg] \in S}
           Sound(c) == /\ c.used \in SUBSET signers
                       /\ IsFiniteSet(c.used)
                       /\ c.valid = Cardinality(c.used)
<1>1. PICK f : /\ f[0] = NoneCounted
               /\ \A i \in 1..Len(sigs) : f[i] = CountSignature(f[i - 1], msg, sigs, i)
               /\ ValidSignatures(b, sigs) = f[Len(sigs)].valid
  BY LoopResult
<1>2. Sound(NoneCounted)
  BY FS_EmptySet DEF NoneCounted
<1>3. ASSUME NEW c, Sound(c), NEW i \in 1..Len(sigs)
      PROVE  Sound(CountSignature(c, msg, sigs, i))
  <2> DEFINE matches == Matches(c.used, msg, sigs, i)
             first == CHOOSE j \in matches : \A k \in matches : j <= k
             next == [used |-> c.used \cup {committee_pubkeys[first]}, valid |-> c.valid + 1]
  <2>1. CASE c.valid >= threshold \/ matches = {}
    BY <1>3, <2>1 DEF CountSignature
  <2>2. CASE ~ (c.valid >= threshold \/ matches = {})
    <3>1. matches \in SUBSET Nat /\ matches # {}
      BY <2>2, CommitteeAssumption, LenProperties DEF Matches
    <3>2. first \in matches
      <4> HIDE DEF matches
      <4>1. \E j \in matches : \A k \in matches : j <= k
        BY <3>1, SmallestElement
      <4> QED
        BY <4>1
    <3> HIDE DEF first
    <3>3. /\ first \in 1..Len(committee_pubkeys)
          /\ committee_pubkeys[first] \notin c.used
          /\ sigs[i] = [key |-> committee_pubkeys[first], msg |-> msg]
      BY <3>2 DEF Matches, Verifies
    <3>4. committee_pubkeys[first] \in signers
      BY <3>3 DEF Committee
    <3> HIDE DEF matches, signers
    <3>5. CountSignature(c, msg, sigs, i) = next
      BY <2>2 DEF CountSignature, matches, first
    <3>6. IsFiniteSet(next.used) /\ Cardinality(next.used) = Cardinality(c.used) + 1
      BY <1>3, <3>3, FS_AddElement
    <3>7. next.used \in SUBSET signers
      BY <1>3, <3>4
    <3>8. next.valid = Cardinality(next.used)
      BY <1>3, <3>6
    <3> QED
      BY <3>5, <3>6, <3>7, <3>8
  <2> QED
    BY <2>1, <2>2
<1> DEFINE Steps == {i \in Nat : i <= Len(sigs) => Sound(f[i])}
<1> HIDE DEF Sound, msg
<1>4. 0 \in Steps
  BY <1>1, <1>2
<1>5. \A i \in Nat : i \in Steps => i + 1 \in Steps
  <2> SUFFICES ASSUME NEW i \in Nat, i \in Steps, i + 1 <= Len(sigs)
               PROVE  Sound(f[i + 1])
    OBVIOUS
  <2>1. i <= Len(sigs) /\ i + 1 \in 1..Len(sigs) /\ (i + 1) - 1 = i
    OBVIOUS
  <2> QED
    BY <1>1, <1>3, <2>1
<1> HIDE DEF Steps
<1>6. Nat \subseteq Steps
  BY <1>4, <1>5, SetInduction
<1>7. Sound(f[Len(sigs)])
  BY <1>6 DEF Steps
<1> QED
  BY <1>1, <1>7 DEF Sound, msg
-----------------------------------------------------------------------------
\* A block has its fields and no others.
Fields == {"version", "chain_id", "epoch_id", "height", "previous_settlement_hash",
           "times", "roots", "figures", "epoch_root", "epoch_commitment", "block_hash"}
IsBlock(b) == b = [x \in Fields |-> b[x]]

\* Two blocks that verify and are signed alike are the same block: the hashes
\* cover every field.
LEMMA MessageNamesBlock ==
  ASSUME NEW b, NEW c, IsBlock(b), IsBlock(c), verify_internal(b), verify_internal(c),
         signing_message(b) = signing_message(c)
  PROVE  b = c
<1>1. b.epoch_commitment = c.epoch_commitment /\ b.block_hash = c.block_hash
  BY DEF signing_message
<1>2. compute_hash(b) = compute_hash(c)
  BY <1>1 DEF verify_internal
<1>3. /\ b.version = c.version /\ b.chain_id = c.chain_id /\ b.epoch_id = c.epoch_id
      /\ b.height = c.height /\ b.times = c.times
      /\ b.previous_settlement_hash = c.previous_settlement_hash
  BY <1>2 DEF compute_hash
<1>4. compute_commitment(b) = compute_commitment(c)
  BY <1>1 DEF verify_internal
<1>5. b.epoch_root = c.epoch_root /\ b.figures = c.figures
  BY <1>4 DEF compute_commitment
<1>6. compute_epoch_root(b) = compute_epoch_root(c)
  BY <1>5 DEF verify_internal
<1>7. b.roots = c.roots
  BY <1>6 DEF compute_epoch_root
<1>8. \A x \in Fields : b[x] = c[x]
  BY <1>1, <1>3, <1>5, <1>7 DEF Fields
<1> QED
  BY <1>8 DEF IsBlock

BlocksWellFormed == \A b \in blocks : IsBlock(b)

\* A signature stands for a member that signed a block that verifies.
SignedBlocks ==
  /\ signed \subseteq Members \X blocks
  /\ \A p \in signed : verify_internal(p[2])
  /\ signatures = {[key |-> p[1], msg |-> signing_message(p[2])] : p \in signed}

OncePerEpoch ==
  \A p, q \in signed : p[1] = q[1] /\ p[2].epoch_id = q[2].epoch_id => p = q

Signers(b) == {m \in Committee : <<m, b>> \in signed}

\* The i-th block of the chain c follows from the one before.
Linked(c, i) ==
  /\ c[i].epoch_id = i - 1 /\ c[i].height = i
  /\ c[i].version = c[1].version
  /\ c[i].chain_id = genesis.chain_id
  /\ c[i].previous_settlement_hash =
       IF i = 1 THEN genesis.block_hash ELSE c[i - 1].block_hash

ChainsWellFormed ==
  \A n \in Nodes : /\ chain[n] \in Seq(blocks)
                   /\ \A i \in 1..Len(chain[n]) : Linked(chain[n], i)

Inv ==
  /\ chain = [n \in Nodes |-> chain[n]]
  /\ BlocksWellFormed
  /\ SignedBlocks
  /\ OncePerEpoch
  /\ ChainsWellFormed
  /\ ContentsAreCertified

\* Before the first proposal the invariant holds.
LEMMA InitEstablishesInv == SettlementInit => Inv
<1> SUFFICES ASSUME SettlementInit PROVE Inv
  OBVIOUS
<1>1. /\ blocks = {} /\ signatures = {} /\ signed = {} /\ chain = [n \in Nodes |-> <<>>]
  BY DEF SettlementInit
<1>2. \A n \in Nodes : chain[n] = <<>> /\ Len(chain[n]) = 0 /\ chain[n] \in Seq(blocks)
  BY <1>1, EmptySeq
<1> QED
  BY <1>1, <1>2
  DEF Inv, BlocksWellFormed, SignedBlocks, OncePerEpoch, ChainsWellFormed,
      ContentsAreCertified

\* New blocks in circulation disturb nothing.
LEMMA MoreBlocks ==
  ASSUME Inv, BlocksWellFormed', blocks \subseteq blocks',
         UNCHANGED <<signatures, signed, chain>>
  PROVE  Inv'
<1>1. SignedBlocks'
  BY DEF Inv, SignedBlocks
<1>2. OncePerEpoch'
  BY DEF Inv, OncePerEpoch
<1>3. ChainsWellFormed'
  <2>1. \A n \in Nodes : chain[n] \in Seq(blocks')
    BY DEF Inv, ChainsWellFormed
  <2> QED
    BY <2>1 DEF Inv, ChainsWellFormed
<1>4. ContentsAreCertified'
  BY DEF Inv, ContentsAreCertified
<1> QED
  BY <1>1, <1>2, <1>3, <1>4 DEF Inv

\* A proposal is one more block in circulation.
LEMMA ProposePreservesInv ==
  ASSUME Inv, NEW n \in Nodes, NEW version, NEW times, NEW roots, NEW figures,
         Propose(n, version, times, roots, figures)
  PROVE  Inv'
<1> DEFINE next == Len(chain[n]) + 1
           previous == IF chain[n] = <<>> THEN genesis.block_hash
                       ELSE chain[n][Len(chain[n])].block_hash
           draft == [version |-> version, chain_id |-> genesis.chain_id,
                     epoch_id |-> next - 1, height |-> next,
                     previous_settlement_hash |-> previous,
                     times |-> times, roots |-> roots, figures |-> figures,
                     epoch_root |-> ZeroHash, epoch_commitment |-> ZeroHash, block_hash |-> ZeroHash]
<1>1. blocks' = blocks \cup {finalize(draft)} /\ UNCHANGED <<signatures, signed, chain>>
  BY DEF Propose
<1> HIDE DEF next, previous
<1>2. IsBlock(draft)
  BY DEF IsBlock, Fields
<1> HIDE DEF draft
<1>3. IsBlock(finalize(draft))
  <2> DEFINE rooted == [draft EXCEPT !.epoch_root = compute_epoch_root(draft)]
             committed == [rooted EXCEPT !.epoch_commitment = compute_commitment(rooted)]
  <2>1. IsBlock(rooted)
    BY <1>2 DEF IsBlock
  <2> HIDE DEF rooted
  <2>2. IsBlock(committed)
    BY <2>1 DEF IsBlock
  <2> HIDE DEF committed
  <2>3. IsBlock([committed EXCEPT !.block_hash = compute_hash(committed)])
    BY <2>2 DEF IsBlock
  <2> QED
    BY <2>3 DEF finalize, committed, rooted
<1>4. BlocksWellFormed'
  BY <1>1, <1>3 DEF Inv, BlocksWellFormed
<1> QED
  BY <1>1, <1>4, MoreBlocks

\* An altered block is one more in circulation.
LEMMA AlterPreservesInv ==
  ASSUME Inv, NEW b \in blocks, NEW roots, NEW figures, Alter(b, roots, figures)
  PROVE  Inv'
<1> DEFINE c == [b EXCEPT !.roots = roots, !.figures = figures]
<1>1. blocks' = blocks \cup {c} /\ UNCHANGED <<signatures, signed, chain>>
  BY DEF Alter
<1>2. IsBlock(c)
  BY DEF Inv, BlocksWellFormed, IsBlock
<1> HIDE DEF c
<1>3. BlocksWellFormed'
  BY <1>1, <1>2 DEF Inv, BlocksWellFormed
<1> QED
  BY <1>1, <1>3, MoreBlocks

\* A member signs one verified block per epoch.
LEMMA SignPreservesInv ==
  ASSUME Inv, NEW m \in Members, NEW b \in blocks, Sign(m, b)
  PROVE  Inv'
<1>1. /\ verify_internal(b)
      /\ \A p \in signed : p[1] = m => p[2].epoch_id # b.epoch_id
      /\ signatures' = signatures \cup {[key |-> m, msg |-> signing_message(b)]}
      /\ signed' = signed \cup {<<m, b>>}
      /\ UNCHANGED <<blocks, chain>>
  BY DEF Sign
<1>2. SignedBlocks'
  <2> DEFINE Sig(p) == [key |-> p[1], msg |-> signing_message(p[2])]
  <2>1. Sig(<<m, b>>) = [key |-> m, msg |-> signing_message(b)]
    OBVIOUS
  <2>2. signatures = {Sig(p) : p \in signed}
    BY DEF Inv, SignedBlocks
  <2> HIDE DEF Sig
  <2>3. signatures' = {Sig(p) : p \in signed'}
    BY <1>1, <2>1, <2>2
  <2>4. signed' \subseteq Members \X blocks' /\ \A p \in signed' : verify_internal(p[2])
    BY <1>1 DEF Inv, SignedBlocks
  <2> QED
    BY <2>3, <2>4 DEF SignedBlocks, Sig
<1>3. OncePerEpoch'
  BY <1>1 DEF Inv, OncePerEpoch
<1>4. BlocksWellFormed' /\ ChainsWellFormed'
  BY <1>1 DEF Inv, BlocksWellFormed, ChainsWellFormed
<1>5. ContentsAreCertified'
  <2> SUFFICES ASSUME NEW n \in Nodes, NEW i \in 1..Len(chain[n])
               PROVE  Cardinality(Signers(chain[n][i])') >= threshold
    BY <1>1 DEF ContentsAreCertified, Signers
  <2> DEFINE x == chain[n][i]
  <2>1. Cardinality(Signers(x)) >= threshold
    BY DEF Inv, ContentsAreCertified, Signers
  <2>2. Committee \subseteq Members
    BY CommitteeAssumption, ElementOfSeq DEF Committee
  <2>3. Signers(x) \in SUBSET Signers(x)' /\ Signers(x)' \subseteq Members
    BY <1>1, <2>2 DEF Signers
  <2>4. IsFiniteSet(Signers(x)') /\ IsFiniteSet(Signers(x))
    BY <2>3, CommitteeAssumption, FS_Subset
  <2>5. Cardinality(Signers(x)) <= Cardinality(Signers(x)')
    BY <2>3, <2>4, FS_Subset
  <2>6. /\ Cardinality(Signers(x)) \in Nat /\ Cardinality(Signers(x)') \in Nat
        /\ threshold \in Nat
    BY <2>4, FS_CardinalityType, CommitteeAssumption
  <2> QED
    BY <1>1, <2>1, <2>5, <2>6
<1> QED
  BY <1>1, <1>2, <1>3, <1>4, <1>5 DEF Inv

\* A block that verify_full accepts was signed by threshold members.
LEMMA AcceptedIsCertified ==
  ASSUME Inv, NEW b \in blocks, NEW sigs \in SignatureLists(b), NEW accepted,
         verify_full(b, sigs, accepted)
  PROVE  Cardinality(Signers(b)) >= threshold
<1> DEFINE Carries(m) == [key |-> m, msg |-> signing_message(b)] \in signatures
<1>1. Len(sigs) \in Nat /\ \A i \in 1..Len(sigs) : sigs[i] \in signatures
  <2>1. PICK k \in 0..(Len(committee_pubkeys) + 1) : sigs \in [1..k -> signatures]
    BY DEF SignatureLists
  <2>2. k \in Nat
    BY <2>1, CommitteeAssumption, LenProperties
  <2>3. sigs \in Seq(signatures)
    BY <2>1, <2>2, SeqDef
  <2> QED
    BY <2>3, LenProperties, ElementOfSeq
<1>2. PICK K \in SUBSET {m \in Committee : Carries(m)} :
        IsFiniteSet(K) /\ Cardinality(K) = ValidSignatures(b, sigs)
  BY <1>1, CountedByDistinctKeys
<1>3. \A m \in K : m \in Committee /\ <<m, b>> \in signed
  <2> SUFFICES ASSUME NEW m \in K PROVE <<m, b>> \in signed
    BY <1>2
  <2>1. [key |-> m, msg |-> signing_message(b)] \in signatures
    BY <1>2
  <2>2. PICK p \in signed : [key |-> m, msg |-> signing_message(b)]
                              = [key |-> p[1], msg |-> signing_message(p[2])]
    BY <2>1 DEF Inv, SignedBlocks
  <2>3. p[1] = m /\ signing_message(p[2]) = signing_message(b)
    BY <2>2
  <2>4. p[2] \in blocks /\ verify_internal(p[2]) /\ p = <<p[1], p[2]>>
    BY DEF Inv, SignedBlocks
  <2>5. IsBlock(p[2]) /\ IsBlock(b) /\ verify_internal(b)
    BY <2>4 DEF Inv, BlocksWellFormed, verify_full
  <2>6. p[2] = b
    BY <2>3, <2>4, <2>5, MessageNamesBlock
  <2> QED
    BY <2>3, <2>4, <2>6
<1>4. K \in SUBSET Signers(b)
  BY <1>3 DEF Signers
<1>5. IsFiniteSet(Signers(b))
  <2>1. Committee \subseteq Members
    BY CommitteeAssumption, ElementOfSeq DEF Committee
  <2> QED
    BY <2>1, CommitteeAssumption, FS_Subset DEF Signers
<1>6. /\ Cardinality(K) <= Cardinality(Signers(b))
      /\ Cardinality(K) \in Nat /\ Cardinality(Signers(b)) \in Nat
  BY <1>2, <1>4, <1>5, FS_Subset, FS_CardinalityType
<1>7. ValidSignatures(b, sigs) >= threshold /\ threshold \in Nat
  BY CommitteeAssumption DEF verify_full, verify_committee_signatures
<1> QED
  BY <1>2, <1>6, <1>7

\* A block that is accepted is certified, and extends the chain.
LEMMA AcceptPreservesInv ==
  ASSUME Inv, NEW n \in Nodes, NEW b \in blocks, Accept(n, b)
  PROVE  Inv'
<1>1. PICK sigs \in SignatureLists(b) : verify_full(b, sigs, chain[n])
  BY DEF Accept
<1>2. /\ chain' = [chain EXCEPT ![n] = Append(@, b)]
      /\ UNCHANGED <<blocks, signatures, signed>>
  BY DEF Accept
<1>3. Cardinality(Signers(b)) >= threshold
  BY <1>1, AcceptedIsCertified
<1> DEFINE c == chain[n]
           d == chain'[n]
<1>4. chain = [o \in Nodes |-> chain[o]] /\ c \in Seq(blocks)
  BY DEF Inv, ChainsWellFormed
<1>5. /\ chain' = [o \in Nodes |-> chain'[o]]
      /\ d = Append(c, b)
      /\ \A o \in Nodes \ {n} : chain'[o] = chain[o]
  BY <1>2, <1>4
<1> HIDE DEF c, d
<1>6. /\ d \in Seq(blocks)
      /\ Len(c) \in Nat /\ Len(d) = Len(c) + 1
      /\ \A i \in 1..Len(c) : d[i] = c[i]
      /\ d[Len(c) + 1] = b
  BY <1>4, <1>5, AppendProperties, LenProperties
<1>7. \A i \in 1..Len(c) : Linked(c, i)
  BY DEF Inv, ChainsWellFormed, c
<1>8. Linked(d, Len(c) + 1)
  <2>1. CASE c = <<>>
    <3>1. Len(c) = 0
      BY <2>1
    <3>2. verify_genesis_link(b)
      BY <1>1, <2>1 DEF verify_full, c
    <3> QED
      BY <1>6, <3>1, <3>2 DEF Linked, verify_genesis_link
  <2>2. CASE c # <<>>
    <3> DEFINE k == Len(c)
    <3>1. k \in Nat \ {0}
      BY <1>4, <1>6, <2>2, EmptySeq
    <3>2. verify_chain(b, c[k])
      BY <1>1, <2>2 DEF verify_full, c
    <3>3. Linked(c, k)
      BY <1>7, <3>1
    <3>4. d[k] = c[k] /\ d[1] = c[1] /\ d[k + 1] = b
      BY <1>6, <3>1
    <3> HIDE DEF k
    <3>5. (k + 1) - 1 = k /\ k + 1 # 1 /\ (k - 1) + 1 = k
      BY <3>1
    <3> QED
      BY <3>1, <3>2, <3>3, <3>4, <3>5 DEF Linked, verify_chain, k
  <2> QED
    BY <2>1, <2>2
<1>9. \A i \in 1..Len(d) : Linked(d, i)
  <2> SUFFICES ASSUME NEW i \in 1..Len(c) PROVE Linked(d, i)
    BY <1>6, <1>8
  <2>1. Linked(c, i)
    BY <1>7
  <2>2. d[i] = c[i] /\ d[1] = c[1]
    BY <1>6
  <2>3. i # 1 => d[i - 1] = c[i - 1]
    BY <1>6
  <2> QED
    BY <2>1, <2>2, <2>3 DEF Linked
<1>10. ChainsWellFormed'
  BY <1>2, <1>5, <1>6, <1>9 DEF Inv, ChainsWellFormed, d
<1>11. ContentsAreCertified'
  <2> SUFFICES ASSUME NEW o \in Nodes, NEW i \in 1..Len(chain'[o])
               PROVE  Cardinality(Signers(chain'[o][i])) >= threshold
    BY <1>2 DEF ContentsAreCertified, Signers
  <2>0. \A p \in Nodes : \A j \in 1..Len(chain[p]) :
          Cardinality(Signers(chain[p][j])) >= threshold
    BY DEF Inv, ContentsAreCertified, Signers
  <2>1. CASE o # n
    BY <1>5, <2>0, <2>1
  <2>2. CASE o = n /\ i \in 1..Len(c)
    BY <1>6, <2>0, <2>2 DEF c, d
  <2>3. CASE o = n /\ i = Len(c) + 1
    BY <1>3, <1>6, <2>3 DEF d
  <2> QED
    BY <1>6, <2>1, <2>2, <2>3 DEF d
<1>12. BlocksWellFormed' /\ SignedBlocks' /\ OncePerEpoch'
  BY <1>2 DEF Inv, BlocksWellFormed, SignedBlocks, OncePerEpoch
<1> QED
  BY <1>5, <1>10, <1>11, <1>12 DEF Inv

\* Every step keeps the invariant.
LEMMA NextPreservesInv ==
  ASSUME Inv, [SettlementNext]_settlementVars
  PROVE  Inv'
<1>1. CASE \E n \in Nodes, v \in Versions, t \in Times, r \in Roots, f \in Figures :
             Propose(n, v, t, r, f)
  BY <1>1, ProposePreservesInv
<1>2. CASE \E b \in blocks, r \in Roots, f \in Figures : Alter(b, r, f)
  BY <1>2, AlterPreservesInv
<1>3. CASE \E m \in Members, b \in blocks : Sign(m, b)
  BY <1>3, SignPreservesInv
<1>4. CASE \E n \in Nodes, b \in blocks : Accept(n, b)
  BY <1>4, AcceptPreservesInv
<1>5. CASE UNCHANGED settlementVars
  BY <1>5 DEF settlementVars, Inv, BlocksWellFormed, SignedBlocks, OncePerEpoch, ChainsWellFormed,
              ContentsAreCertified
<1> QED
  BY <1>1, <1>2, <1>3, <1>4, <1>5 DEF SettlementNext

\* Two sets of threshold members each have one in common, who signed only one
\* block of the epoch.
LEMMA CertifiedBlocksAgree ==
  ASSUME Inv, 2 * threshold > Cardinality(Committee),
         NEW b, NEW c, b.epoch_id = c.epoch_id,
         Cardinality(Signers(b)) >= threshold, Cardinality(Signers(c)) >= threshold
  PROVE  b = c
<1> DEFINE B == Signers(b)
           C == Signers(c)
<1>1. IsFiniteSet(Committee)
  <2>1. Committee \subseteq Members
    BY CommitteeAssumption, ElementOfSeq DEF Committee
  <2> QED
    BY <2>1, CommitteeAssumption, FS_Subset
<1>2. B \in SUBSET Committee /\ C \in SUBSET Committee /\ B \cup C \in SUBSET Committee
  BY DEF Signers
<1>3. IsFiniteSet(B) /\ IsFiniteSet(C) /\ IsFiniteSet(B \cap C)
  BY <1>1, <1>2, FS_Subset
<1>4. Cardinality(B \cup C) <= Cardinality(Committee)
  BY <1>1, <1>2, FS_Subset
<1>5. Cardinality(B \cup C) = Cardinality(B) + Cardinality(C) - Cardinality(B \cap C)
  BY <1>3, FS_Union
<1>6. /\ Cardinality(B) \in Nat /\ Cardinality(C) \in Nat /\ Cardinality(B \cap C) \in Nat
      /\ Cardinality(Committee) \in Nat /\ threshold \in Nat
  BY <1>1, <1>3, FS_CardinalityType, CommitteeAssumption
<1> HIDE DEF B, C
<1>7. Cardinality(B) >= threshold /\ Cardinality(C) >= threshold
  BY DEF B, C
<1>8. Cardinality(B \cap C) # 0
  BY <1>4, <1>5, <1>6, <1>7
<1>9. PICK m : m \in B \cap C
  BY <1>3, <1>8, FS_EmptySet
<1>10. <<m, b>> \in signed /\ <<m, c>> \in signed
  BY <1>9 DEF B, C, Signers
<1>11. <<m, b>> = <<m, c>>
  BY <1>10 DEF Inv, OncePerEpoch
<1> QED
  BY <1>11

\* The invariant holds of every behaviour.
THEOREM InvHolds == SettlementSpec => []Inv
<1>1. Inv /\ [SettlementNext]_settlementVars => Inv'
  BY NextPreservesInv
<1> QED
  BY <1>1, InitEstablishesInv, PTL DEF SettlementSpec

\* verify_full accepts a block only if threshold distinct members of the
\* committee signed exactly this block, whatever list of signatures it came with
\* and whatever was altered after finalize.
THEOREM ContentsAlwaysCertified == SettlementSpec => []ContentsAreCertified
<1>1. Inv => ContentsAreCertified
  BY DEF Inv
<1> QED
  BY <1>1, InvHolds, PTL

\* With a threshold of more than half of the committee, no two nodes' chains
\* disagree, and each is numbered and linked from genesis on.
THEOREM ChainsAlwaysAgree == SettlementSpec => []ChainsAgree
<1>1. Inv => ChainsAgree
  <2> SUFFICES ASSUME Inv, 2 * threshold > Cardinality(Committee),
                      NEW n \in Nodes, NEW o \in Nodes, NEW i \in 1..Len(chain[n])
               PROVE  /\ i \in 1..Len(chain[o]) => chain[n][i] = chain[o][i]
                      /\ Linked(chain[n], i)
    BY DEF ChainsAgree, Linked
  <2>1. Linked(chain[n], i)
    BY DEF Inv, ChainsWellFormed
  <2>2. ASSUME i \in 1..Len(chain[o]) PROVE chain[n][i] = chain[o][i]
    <3>1. Linked(chain[o], i)
      BY <2>2 DEF Inv, ChainsWellFormed
    <3>2. chain[n][i].epoch_id = chain[o][i].epoch_id
      BY <2>1, <3>1 DEF Linked
    <3>3. /\ Cardinality(Signers(chain[n][i])) >= threshold
          /\ Cardinality(Signers(chain[o][i])) >= threshold
      BY <2>2 DEF Inv, ContentsAreCertified, Signers
    <3> QED
      BY <3>2, <3>3, CertifiedBlocksAgree
  <2> QED
    BY <2>1, <2>2
<1> QED
  BY <1>1, InvHolds, PTL
=============================================================================
