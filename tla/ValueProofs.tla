----------------------------- MODULE ValueProofs -----------------------------
(***************************************************************************)
(* The emission, the escrowed rewards, the provenance of satoshis and the  *)
(* value on L2, for any rewards, shares, splits, owners, accounts and      *)
(* transactions.                                                           *)
(*                                                                         *)
(* Economics: as long as halving leaves no remainder the sum of the        *)
(* rewards is a geometric series, by induction over the blocks of a period *)
(* and over the periods; after that both sides have reached the supply.    *)
(* What emitted grew by since genesis is what was paid: the reward that it *)
(* counts for genesis is covered by the genesis supply, so that it reaches *)
(* its limit no earlier, and an amount that is agreed to did not saturate. *)
(*                                                                         *)
(* Escrow: a list of payees is summed entry by entry, once for what the    *)
(* entries are worth and once for what one payee gets; the parts rounded   *)
(* down leave less than a unit for all but one of them.                    *)
(*                                                                         *)
(* DNA ranges: that the ranges held partition the supply says nothing of   *)
(* the ranges they were split from.  Identities are unique, and every      *)
(* lineage ends in an emission, because a range held lies strictly within  *)
(* whatever archived range it meets.                                       *)
(*                                                                         *)
(* L2: the sum of the balances is followed through the four writes of a    *)
(* transaction, each of which sees the balances the one before has left,   *)
(* so that it makes no difference which of the parties are the same        *)
(* account.                                                                *)
(***************************************************************************)
EXTENDS Value, CollectionLemmas
-----------------------------------------------------------------------------
(******************************* DNA ranges ********************************)

IsRange(r) ==
  DOMAIN r = {"range_id", "root_id", "origin", "start", "end", "layer", "birth",
              "parent_range_id", "bridge_tx", "creation_tx", "owner",
              "transfer_count", "proof"}

\* A well formed range, on L2 only with a bridge.
WellFormed(r) ==
  /\ IsRange(r)
  /\ r.start \in Nat /\ r.end \in Nat
  /\ verify(r)
  /\ r.layer = "L2" => r.bridge_tx # <<>>

Disjoint(r, s) == r.end < s.start \/ s.end < r.start
Within(r, s) == s.start <= r.start /\ r.end <= s.end
StrictlyWithin(r, s) == Within(r, s) /\ (s.start < r.start \/ r.end < s.end)

\* p is what r was split from.
IsParent(p, r) ==
  /\ verify_lineage(p, r)
  /\ StrictlyWithin(r, p)
  /\ r.transfer_count = p.transfer_count + 1
  /\ r.origin = p.origin /\ r.birth = p.birth
  /\ p.layer = "L2" => r.layer = "L2" /\ r.bridge_tx # <<>>

HasOrigin(r) ==
  \/ r.parent_range_id = <<>> /\ r.transfer_count = 0
  \/ \E p \in archive : IsParent(p, r)

RangesWellFormed ==
  /\ issued \in Nat
  /\ \A r \in All : WellFormed(r) /\ r.end < issued
LiveCovers == \A n \in 0 .. issued - 1 : \E r \in live : r.start <= n /\ n <= r.end
LiveIsDisjoint == \A r, s \in live : r # s => Disjoint(r, s)
LiveRefinesArchive == \A r \in live, s \in archive : Disjoint(r, s) \/ StrictlyWithin(r, s)
ArchiveIsDistinct ==
  \A r, s \in archive : r.start = s.start /\ r.end = s.end => r = s
Ancestry == \A r \in All : HasOrigin(r)

DnaInv ==
  /\ RangesWellFormed
  /\ LiveCovers
  /\ LiveIsDisjoint
  /\ LiveRefinesArchive
  /\ ArchiveIsDistinct
  /\ Ancestry

\* What sealing leaves alone, and that it makes a range that verifies.
LEMMA SealedFields ==
  ASSUME NEW r, IsRange(r)
  PROVE  LET s == Sealed(r)
         IN /\ IsRange(s)
            /\ s.range_id = id(s) /\ s.proof = hash(s)
            /\ s.start = r.start /\ s.end = r.end
            /\ s.root_id = r.root_id /\ s.origin = r.origin /\ s.birth = r.birth
            /\ s.layer = r.layer /\ s.bridge_tx = r.bridge_tx
            /\ s.parent_range_id = r.parent_range_id
            /\ s.transfer_count = r.transfer_count
<1> DEFINE named == [r EXCEPT !.range_id = id(r)]
           s == [named EXCEPT !.proof = hash(named)]
<1>1. s = Sealed(r)
  BY DEF Sealed
<1>2. /\ IsRange(named) /\ named.range_id = id(r)
      /\ \A x \in DOMAIN r \ {"range_id"} : named[x] = r[x]
  BY DEF IsRange
<1> HIDE DEF named
<1>3. /\ IsRange(s) /\ s.proof = hash(named)
      /\ \A x \in DOMAIN r \ {"proof"} : s[x] = named[x]
  BY <1>2 DEF IsRange
<1> HIDE DEF s
<1>4. /\ named.start = r.start /\ named.end = r.end
      /\ named.root_id = r.root_id /\ named.origin = r.origin /\ named.birth = r.birth
      /\ named.layer = r.layer /\ named.bridge_tx = r.bridge_tx
      /\ named.parent_range_id = r.parent_range_id /\ named.owner = r.owner
      /\ named.transfer_count = r.transfer_count
  BY <1>2 DEF IsRange
<1>5. /\ s.start = named.start /\ s.end = named.end
      /\ s.root_id = named.root_id /\ s.origin = named.origin /\ s.birth = named.birth
      /\ s.layer = named.layer /\ s.bridge_tx = named.bridge_tx
      /\ s.parent_range_id = named.parent_range_id /\ s.owner = named.owner
      /\ s.transfer_count = named.transfer_count /\ s.range_id = named.range_id
  BY <1>3 DEF IsRange
<1>6. s.range_id = id(s) /\ s.proof = hash(s)
  BY <1>2, <1>3, <1>4, <1>5 DEF id, hash
<1> QED
  BY <1>1, <1>3, <1>4, <1>5, <1>6

\* What a range is when it is issued.
LEMMA EmittedFields ==
  ASSUME NEW root, NEW origin, NEW start \in Nat, NEW end \in Nat, start <= end,
         NEW birth, NEW owner
  PROVE  LET s == Emitted(root, origin, start, end, birth, owner)
         IN /\ WellFormed(s)
            /\ s.start = start /\ s.end = end
            /\ s.parent_range_id = <<>> /\ s.transfer_count = 0
<1> DEFINE r == [range_id |-> <<>>, root_id |-> root, origin |-> origin, start |-> start,
                 end |-> end, layer |-> "L1", birth |-> birth, parent_range_id |-> <<>>,
                 bridge_tx |-> <<>>, creation_tx |-> <<>>, owner |-> owner,
                 transfer_count |-> 0, proof |-> <<>>]
<1>1. IsRange(r)
  BY DEF IsRange
<1>2. /\ r.start = start /\ r.end = end /\ r.layer = "L1"
      /\ r.parent_range_id = <<>> /\ r.transfer_count = 0
  OBVIOUS
<1>3. Emitted(root, origin, start, end, birth, owner) = Sealed(r)
  BY DEF Emitted
<1> HIDE DEF r
<1> QED
  BY <1>1, <1>2, <1>3, SealedFields DEF WellFormed, verify

\* What a part keeps of the range it is split from.
LEMMA ChildFields ==
  ASSUME NEW r, WellFormed(r), NEW start \in Nat, NEW end \in Nat, start <= end,
         NEW owner, NEW tx
  PROVE  LET s == child(r, start, end, owner, tx)
         IN /\ WellFormed(s)
            /\ s.start = start /\ s.end = end
            /\ verify_lineage(r, s)
            /\ s.origin = r.origin /\ s.birth = r.birth
            /\ s.transfer_count = r.transfer_count + 1
            /\ s.layer = r.layer /\ s.bridge_tx = r.bridge_tx
<1> DEFINE t == [r EXCEPT !.start = start, !.end = end, !.parent_range_id = <<r.range_id>>,
                          !.creation_tx = <<tx>>, !.owner = owner,
                          !.transfer_count = @ + 1]
<1>1. /\ IsRange(t) /\ t.start = start /\ t.end = end
      /\ t.parent_range_id = <<r.range_id>>
      /\ t.transfer_count = r.transfer_count + 1
      /\ t.root_id = r.root_id /\ t.origin = r.origin /\ t.birth = r.birth
      /\ t.layer = r.layer /\ t.bridge_tx = r.bridge_tx
  BY DEF WellFormed, IsRange
<1>2. child(r, start, end, owner, tx) = Sealed(t)
  BY DEF child
<1> HIDE DEF t
<1> QED
  BY <1>1, <1>2, SealedFields DEF WellFormed, verify, verify_lineage

\* The bridge changes nothing of a range but its layer, bridge and proof.
LEMMA BridgedFields ==
  ASSUME NEW r, WellFormed(r), NEW bridge
  PROVE  LET s == Bridged(r, bridge)
         IN /\ WellFormed(s)
            /\ s.start = r.start /\ s.end = r.end
            /\ s.parent_range_id = r.parent_range_id /\ s.root_id = r.root_id
            /\ s.origin = r.origin /\ s.birth = r.birth
            /\ s.transfer_count = r.transfer_count
            /\ s.layer = "L2" /\ s.bridge_tx # <<>>
<1> DEFINE t == [r EXCEPT !.layer = "L2", !.bridge_tx = <<bridge>>]
<1>1. /\ IsRange(t) /\ t.start = r.start /\ t.end = r.end
      /\ t.parent_range_id = r.parent_range_id
      /\ t.transfer_count = r.transfer_count
      /\ t.root_id = r.root_id /\ t.origin = r.origin /\ t.birth = r.birth
      /\ t.layer = "L2" /\ t.bridge_tx = <<bridge>>
  BY DEF WellFormed, IsRange
<1>2. Bridged(r, bridge) = Sealed(t)
  BY DEF Bridged
<1>3. <<bridge>> # <<>>
  OBVIOUS
<1>4. r.start \in Nat /\ r.end \in Nat /\ r.start <= r.end
  BY DEF WellFormed, verify
<1> HIDE DEF t
<1> DEFINE s == Sealed(t)
<1>5. /\ IsRange(s) /\ s.range_id = id(s) /\ s.proof = hash(s)
      /\ s.start = r.start /\ s.end = r.end
      /\ s.parent_range_id = r.parent_range_id /\ s.root_id = r.root_id
      /\ s.origin = r.origin /\ s.birth = r.birth
      /\ s.transfer_count = r.transfer_count
      /\ s.layer = "L2" /\ s.bridge_tx = <<bridge>>
  BY <1>1, SealedFields
<1> HIDE DEF s
<1>6. WellFormed(s)
  BY <1>3, <1>4, <1>5 DEF WellFormed, verify
<1>7. Bridged(r, bridge) = s
  BY <1>2 DEF s
<1> QED
  BY <1>3, <1>5, <1>6, <1>7

\* The genesis range satisfies the invariant.
LEMMA DnaInitEstablishesInv ==
  ASSUME DnaInit
  PROVE  DnaInv
<1>1. PICK root \in RootIds, owner \in Owners :
        live = {Emitted(root, "Genesis", 0, GENESIS_SUPPLY - 1, 0, owner)}
  BY DEF DnaInit
<1> DEFINE e == Emitted(root, "Genesis", 0, GENESIS_SUPPLY - 1, 0, owner)
<1>2. GENESIS_SUPPLY \in Nat /\ GENESIS_SUPPLY > 0
  BY SupplyAssumption
<1>3. /\ WellFormed(e) /\ e.start = 0 /\ e.end = GENESIS_SUPPLY - 1
      /\ e.parent_range_id = <<>> /\ e.transfer_count = 0
  BY <1>2, EmittedFields
<1> HIDE DEF e
<1>4. live = {e} /\ archive = {} /\ issued = GENESIS_SUPPLY
  BY <1>1 DEF DnaInit, e
<1> QED
  BY <1>2, <1>3, <1>4
  DEF DnaInv, RangesWellFormed, LiveCovers, LiveIsDisjoint, LiveRefinesArchive,
      ArchiveIsDistinct, Ancestry, HasOrigin, All

\* A new epoch emits satoshis no range had.
LEMMA NewEpochPreservesInv ==
  ASSUME DnaInv, NEW root, NEW origin, NEW reward \in EpochRewards, NEW owner,
         new_epoch(root, origin, reward, owner)
  PROVE  DnaInv'
<1> DEFINE e == Emitted(root, origin, issued, issued + reward - 1, epoch + 1, owner)
<1>1. issued \in Nat /\ reward \in Nat \ {0}
  BY SupplyAssumption DEF DnaInv, RangesWellFormed
<1>2. /\ WellFormed(e) /\ e.start = issued /\ e.end = issued + reward - 1
      /\ e.parent_range_id = <<>> /\ e.transfer_count = 0
  BY <1>1, EmittedFields
<1> HIDE DEF e
<1>3. live' = live \cup {e} /\ archive' = archive /\ issued' = issued + reward
  BY DEF new_epoch, e
<1>4. \A r \in All : WellFormed(r) /\ r.start \in Nat /\ r.end \in Nat /\ r.end < issued
  BY DEF DnaInv, RangesWellFormed, WellFormed
<1>5. RangesWellFormed'
  BY <1>1, <1>2, <1>3, <1>4 DEF RangesWellFormed, All
<1>6. LiveCovers'
  <2> SUFFICES ASSUME NEW n \in 0 .. issued' - 1
               PROVE  \E r \in live' : r.start <= n /\ n <= r.end
    BY DEF LiveCovers
  <2>1. CASE n < issued
    <3>1. n \in 0 .. issued - 1
      BY <1>1, <1>3, <2>1
    <3> QED
      BY <1>3, <3>1 DEF DnaInv, LiveCovers
  <2>2. CASE ~ (n < issued)
    BY <1>1, <1>2, <1>3, <2>2
  <2> QED
    BY <2>1, <2>2
<1>7. LiveIsDisjoint'
  BY <1>1, <1>2, <1>3, <1>4 DEF DnaInv, LiveIsDisjoint, Disjoint, All
<1>8. LiveRefinesArchive'
  BY <1>1, <1>2, <1>3, <1>4 DEF DnaInv, LiveRefinesArchive, Disjoint, All
<1>9. ArchiveIsDistinct'
  BY <1>3 DEF DnaInv, ArchiveIsDistinct
<1>10. Ancestry'
  BY <1>2, <1>3 DEF DnaInv, Ancestry, HasOrigin, All
<1> QED
  BY <1>5, <1>6, <1>7, <1>8, <1>9, <1>10 DEF DnaInv

\* A split leaves two ranges for one, of the same satoshis.
LEMMA SplitPreservesInv ==
  ASSUME DnaInv, NEW r \in live, NEW point \in 0..MaxSupply, NEW left, NEW right, NEW tx,
         split(r, point, left, right, tx)
  PROVE  DnaInv'
<1> DEFINE a == child(r, r.start, point - 1, left, tx)
           b == child(r, point, r.end, right, tx)
<1>1. \A x \in All : WellFormed(x) /\ x.start \in Nat /\ x.end \in Nat /\ x.end < issued
  BY DEF DnaInv, RangesWellFormed, WellFormed
<1>2. point \in Nat /\ r.start < point /\ point <= r.end
  BY SupplyAssumption DEF split, Splits
<1>3. WellFormed(r) /\ r.start \in Nat /\ r.end \in Nat /\ r.end < issued /\ r.start <= r.end
  BY <1>1 DEF All, WellFormed, verify
<1>4. point - 1 \in Nat /\ r.start <= point - 1
  BY <1>2, <1>3
<1>5. /\ WellFormed(a) /\ a.start = r.start /\ a.end = point - 1
      /\ verify_lineage(r, a) /\ a.origin = r.origin /\ a.birth = r.birth
      /\ a.transfer_count = r.transfer_count + 1
      /\ a.layer = r.layer /\ a.bridge_tx = r.bridge_tx
  BY <1>3, <1>4, ChildFields
<1>6. /\ WellFormed(b) /\ b.start = point /\ b.end = r.end
      /\ verify_lineage(r, b) /\ b.origin = r.origin /\ b.birth = r.birth
      /\ b.transfer_count = r.transfer_count + 1
      /\ b.layer = r.layer /\ b.bridge_tx = r.bridge_tx
  BY <1>2, <1>3, ChildFields
<1>7. /\ live' = (live \ {r}) \cup {a, b}
      /\ archive' = archive \cup {r}
      /\ issued' = issued
  BY DEF split
<1> HIDE DEF a, b
<1>8. StrictlyWithin(a, r) /\ StrictlyWithin(b, r) /\ Disjoint(a, b) /\ Disjoint(b, a)
  BY <1>2, <1>3, <1>4, <1>5, <1>6 DEF StrictlyWithin, Within, Disjoint
<1>9. RangesWellFormed'
  BY <1>1, <1>2, <1>3, <1>4, <1>5, <1>6, <1>7 DEF DnaInv, RangesWellFormed, All
<1>10. LiveCovers'
  <2> SUFFICES ASSUME NEW n \in 0 .. issued - 1
               PROVE  \E s \in live' : s.start <= n /\ n <= s.end
    BY <1>7 DEF LiveCovers
  <2>1. PICK s \in live : s.start <= n /\ n <= s.end
    BY DEF DnaInv, LiveCovers
  <2>2. CASE s # r
    BY <1>7, <2>1, <2>2
  <2>3. CASE s = r
    <3>1. n \in Int
      OBVIOUS
    <3>2. (a.start <= n /\ n <= a.end) \/ (b.start <= n /\ n <= b.end)
      BY <1>2, <1>3, <1>5, <1>6, <2>1, <2>3, <3>1
    <3> QED
      BY <1>7, <3>2
  <2> QED
    BY <2>2, <2>3
<1>11. \A s \in live \ {r} : Disjoint(s, a) /\ Disjoint(s, b) /\ Disjoint(a, s) /\ Disjoint(b, s)
  <2> SUFFICES ASSUME NEW s \in live \ {r}
               PROVE  Disjoint(s, a) /\ Disjoint(s, b) /\ Disjoint(a, s) /\ Disjoint(b, s)
    OBVIOUS
  <2>1. Disjoint(s, r)
    BY DEF DnaInv, LiveIsDisjoint
  <2>2. s.start \in Nat /\ s.end \in Nat
    BY <1>1 DEF All
  <2> QED
    BY <1>2, <1>3, <1>4, <1>5, <1>6, <2>1, <2>2 DEF Disjoint
<1>12. LiveIsDisjoint'
  BY <1>7, <1>8, <1>11 DEF DnaInv, LiveIsDisjoint
<1>13. LiveRefinesArchive'
  <2> SUFFICES ASSUME NEW x \in live', NEW y \in archive'
               PROVE  Disjoint(x, y) \/ StrictlyWithin(x, y)
    BY DEF LiveRefinesArchive
  <2>1. CASE x \in live \ {r} /\ y \in archive
    BY <2>1 DEF DnaInv, LiveRefinesArchive
  <2>2. CASE x \in live \ {r} /\ y = r
    BY <2>2 DEF DnaInv, LiveIsDisjoint
  <2>3. CASE x \in {a, b} /\ y = r
    BY <2>3, <1>8
  <2>4. CASE x \in {a, b} /\ y \in archive
    <3>1. Disjoint(r, y) \/ StrictlyWithin(r, y)
      BY <2>4 DEF DnaInv, LiveRefinesArchive
    <3>2. y.start \in Nat /\ y.end \in Nat
      BY <1>1, <2>4 DEF All
    <3> QED
      BY <1>2, <1>3, <1>4, <1>5, <1>6, <2>4, <3>1, <3>2
      DEF Disjoint, StrictlyWithin, Within
  <2> QED
    BY <1>7, <2>1, <2>2, <2>3, <2>4
<1>14. \A y \in archive : ~ (y.start = r.start /\ y.end = r.end)
  <2> SUFFICES ASSUME NEW y \in archive, y.start = r.start, y.end = r.end PROVE FALSE
    OBVIOUS
  <2>1. Disjoint(r, y) \/ StrictlyWithin(r, y)
    BY DEF DnaInv, LiveRefinesArchive
  <2> QED
    BY <1>3, <2>1 DEF Disjoint, StrictlyWithin, Within
<1>15. ArchiveIsDistinct'
  BY <1>7, <1>14 DEF DnaInv, ArchiveIsDistinct
<1>16. Ancestry'
  <2> SUFFICES ASSUME NEW x \in All' PROVE HasOrigin(x)'
    BY DEF Ancestry
  <2>1. CASE x \in All
    BY <1>7, <2>1 DEF DnaInv, Ancestry, HasOrigin
  <2>2. CASE x \in {a, b}
    <3>1. r.layer = "L2" => r.bridge_tx # <<>>
      BY <1>3 DEF WellFormed
    <3>2. IsParent(r, x)
      BY <1>5, <1>6, <1>8, <2>2, <3>1 DEF IsParent
    <3> QED
      BY <1>7, <3>2 DEF HasOrigin
  <2> QED
    BY <1>7, <2>1, <2>2 DEF All
<1> QED
  BY <1>9, <1>10, <1>12, <1>13, <1>15, <1>16 DEF DnaInv

\* A bridged range has the satoshis and the lineage it had.
LEMMA BridgePreservesInv ==
  ASSUME DnaInv, NEW r \in live, NEW bridge, bridge_to_l2(r, bridge)
  PROVE  DnaInv'
<1> DEFINE b == Bridged(r, bridge)
<1>1. \A x \in All : WellFormed(x) /\ x.end < issued
  BY DEF DnaInv, RangesWellFormed
<1>2. /\ WellFormed(b)
      /\ b.start = r.start /\ b.end = r.end
      /\ b.parent_range_id = r.parent_range_id /\ b.root_id = r.root_id
      /\ b.origin = r.origin /\ b.birth = r.birth
      /\ b.transfer_count = r.transfer_count
      /\ b.layer = "L2" /\ b.bridge_tx # <<>>
  BY <1>1, BridgedFields DEF All
<1>3. live' = (live \ {r}) \cup {b} /\ archive' = archive /\ issued' = issued
  BY DEF bridge_to_l2
<1> HIDE DEF b
<1>4. RangesWellFormed'
  BY <1>1, <1>2, <1>3 DEF DnaInv, RangesWellFormed, All
<1>5. LiveCovers'
  <2> SUFFICES ASSUME NEW n \in 0 .. issued - 1
               PROVE  \E s \in live' : s.start <= n /\ n <= s.end
    BY <1>3 DEF LiveCovers
  <2>1. PICK s \in live : s.start <= n /\ n <= s.end
    BY DEF DnaInv, LiveCovers
  <2> QED
    BY <1>2, <1>3, <2>1
<1>6. LiveIsDisjoint'
  BY <1>2, <1>3 DEF DnaInv, LiveIsDisjoint, Disjoint
<1>7. LiveRefinesArchive'
  BY <1>2, <1>3 DEF DnaInv, LiveRefinesArchive, Disjoint, StrictlyWithin, Within
<1>8. ArchiveIsDistinct'
  BY <1>3 DEF DnaInv, ArchiveIsDistinct
<1>9. Ancestry'
  <2> SUFFICES ASSUME NEW x \in All' PROVE HasOrigin(x)'
    BY DEF Ancestry
  <2>1. CASE x \in All
    BY <1>3, <2>1 DEF DnaInv, Ancestry, HasOrigin
  <2>2. CASE x = b
    <3>1. HasOrigin(r)
      BY DEF DnaInv, Ancestry, All
    <3>2. HasOrigin(b)
      BY <1>2, <3>1 DEF HasOrigin, IsParent, verify_lineage, StrictlyWithin, Within
    <3> QED
      BY <1>3, <2>2, <3>2 DEF HasOrigin
  <2> QED
    BY <1>3, <2>1, <2>2 DEF All
<1> QED
  BY <1>4, <1>5, <1>6, <1>7, <1>8, <1>9 DEF DnaInv

\* Every step of the ranges keeps their invariant.
LEMMA DnaNextPreservesInv ==
  ASSUME DnaInv, DnaNext
  PROVE  DnaInv'
<1>1. CASE \E root \in RootIds, origin \in {"EpochMining", "EpochRemainder"},
              reward \in EpochRewards, owner \in Owners :
              new_epoch(root, origin, reward, owner)
  BY <1>1, NewEpochPreservesInv
<1>2. CASE \E r \in live, point \in 0..MaxSupply, left, right \in Owners, tx \in SplitTxs :
              split(r, point, left, right, tx)
  BY <1>2, SplitPreservesInv
<1>3. CASE \E r \in live, bridge \in Bridges : bridge_to_l2(r, bridge)
  BY <1>3, BridgePreservesInv
<1> QED
  BY <1>1, <1>2, <1>3 DEF DnaNext

\* The invariant says what the properties do.
LEMMA DnaInvImpliesPartition ==
  ASSUME DnaInv
  PROVE  SupplyIsPartitioned
<1>1. \A r \in live : WellFormed(r) /\ r.start \in Nat /\ r.end \in Nat /\ r.end < issued
  BY DEF DnaInv, RangesWellFormed, WellFormed, All
<1>2. issued \in Nat
  BY DEF DnaInv, RangesWellFormed
<1>3. \A r \in live : verify(r)
  BY <1>1 DEF WellFormed
<1>4. ASSUME NEW n PROVE n \in UNION {Satoshis(r) : r \in live} <=> n \in 0 .. issued - 1
  <2>1. ASSUME n \in UNION {Satoshis(r) : r \in live} PROVE n \in 0 .. issued - 1
    BY <1>1, <1>2, <2>1 DEF Satoshis
  <2>2. ASSUME n \in 0 .. issued - 1 PROVE n \in UNION {Satoshis(r) : r \in live}
    <3>1. PICK r \in live : r.start <= n /\ n <= r.end
      BY <2>2 DEF DnaInv, LiveCovers
    <3>2. n \in Satoshis(r)
      BY <1>1, <1>2, <2>2, <3>1 DEF Satoshis
    <3> QED
      BY <3>2
  <2> QED
    BY <2>1, <2>2
<1>5. \A r, s \in live : r # s => Satoshis(r) \cap Satoshis(s) = {}
  <2> SUFFICES ASSUME NEW r \in live, NEW s \in live, r # s,
                      NEW n \in Satoshis(r), n \in Satoshis(s)
               PROVE  FALSE
    OBVIOUS
  <2>1. Disjoint(r, s)
    BY DEF DnaInv, LiveIsDisjoint
  <2> QED
    BY <1>1, <2>1 DEF Disjoint, Satoshis
<1>6. UNION {Satoshis(r) : r \in live} = 0 .. issued - 1
  BY <1>4
<1> QED
  BY <1>3, <1>5, <1>6 DEF SupplyIsPartitioned

\* The invariant leads every range back to an emission.
LEMMA DnaInvImpliesLineage ==
  ASSUME DnaInv
  PROVE  LineageReachesEmission
<1> SUFFICES ASSUME NEW r \in All, ~ (r.parent_range_id = <<>> /\ r.transfer_count = 0)
             PROVE  /\ Cardinality(Parents(r)) = 1
                    /\ \A p \in Parents(r) :
                         /\ Satoshis(r) \subseteq Satoshis(p) /\ Satoshis(r) # Satoshis(p)
                         /\ r.transfer_count = p.transfer_count + 1
                         /\ r.origin = p.origin /\ r.birth = p.birth
                         /\ p.layer = "L2" => r.layer = "L2" /\ r.bridge_tx # <<>>
  BY DEF LineageReachesEmission
<1>1. PICK p \in archive : IsParent(p, r)
  BY DEF DnaInv, Ancestry, HasOrigin
<1>2. \A x \in All : WellFormed(x)
  BY DEF DnaInv, RangesWellFormed
<1>3. \A q \in Parents(r) : q = p
  <2> SUFFICES ASSUME NEW q \in archive, verify_lineage(q, r) PROVE q = p
    BY DEF Parents
  <2>1. <<q.range_id>> = <<p.range_id>>
    BY <1>1, Zenon DEF IsParent, verify_lineage
  <2>2. q.range_id = p.range_id
    BY <2>1
  <2>3. id(q) = id(p)
    BY <1>2, <2>2 DEF WellFormed, verify, All
  <2>4. q.start = p.start /\ q.end = p.end
    BY <2>3 DEF id
  <2> QED
    BY <2>4 DEF DnaInv, ArchiveIsDistinct
<1>4. Parents(r) = {p}
  BY <1>1, <1>3 DEF IsParent, Parents
<1>5. Satoshis(r) \subseteq Satoshis(p) /\ Satoshis(r) # Satoshis(p)
  <2>1. r.start \in Nat /\ r.end \in Nat /\ p.start \in Nat /\ p.end \in Nat /\ p.start <= p.end
    BY <1>2 DEF WellFormed, verify, All
  <2>2. StrictlyWithin(r, p)
    BY <1>1 DEF IsParent
  <2>3. Satoshis(r) \subseteq Satoshis(p)
    BY <2>1, <2>2 DEF StrictlyWithin, Within, Satoshis
  <2>4. p.start \in Satoshis(p) /\ p.end \in Satoshis(p)
    BY <2>1 DEF Satoshis
  <2>5. p.start \notin Satoshis(r) \/ p.end \notin Satoshis(r)
    BY <2>1, <2>2 DEF StrictlyWithin, Satoshis
  <2> QED
    BY <2>3, <2>4, <2>5
<1>6. Cardinality(Parents(r)) = 1
  BY <1>4, FS_Singleton
<1> QED
  BY <1>1, <1>4, <1>5, <1>6 DEF IsParent
-----------------------------------------------------------------------------
(************************** L2 execution engine ****************************)

\* The balances b, as a total over the accounts.
BalancesIn(b) == [u \in Accounts |-> BalanceIn(b, u)]
TotalOf(b) == Weight(Accounts, BalancesIn(b))

Amounts == 0..MAX_U64
IsBalances(b) == IsMap(b, Accounts, Amounts)

\* The fees of the transactions S.
FeesOf(S) == Weight(S, [tx \in S |-> tx.fee])

ExecutedOnce ==
  /\ executed \subseteq Txs
  /\ IsFiniteSet(executed)
  /\ processed = {tx.tx_hash : tx \in executed}

L2Inv ==
  /\ IsBalances(balances)
  /\ IsMap(nonces, Accounts, Amounts)
  /\ credited \in Nat
  /\ \E T : utxos \in Seq(T)
  /\ ExecutedOnce
  /\ ValueIsConserved
  /\ NoncesInOrder

\* A balance is an amount, present or not.
LEMMA BalanceType ==
  ASSUME NEW b, IsBalances(b), NEW u
  PROVE  BalanceIn(b, u) \in Amounts
BY AccountsAssumption DEF IsBalances, IsMap, BalanceIn, Amounts

\* Writing one balance changes that one alone, and the total by the difference.
LEMMA PutBalance ==
  ASSUME NEW b, IsBalances(b), NEW u \in Accounts, NEW x \in Amounts
  PROVE  LET c == Put(b, {u}, x)
         IN /\ IsBalances(c)
            /\ TotalOf(b) \in Nat
            /\ BalanceIn(b, u) \in Nat /\ BalanceIn(b, u) <= TotalOf(b)
            /\ TotalOf(c) = TotalOf(b) - BalanceIn(b, u) + x
<1> DEFINE c == Put(b, {u}, x)
<1>1. IsBalances(c)
  BY DEF IsBalances, IsMap, Put
<1>2. BalanceIn(c, u) = x /\ \A z \in Accounts \ {u} : BalanceIn(c, z) = BalanceIn(b, z)
  BY DEF BalanceIn, Put
<1> HIDE DEF c
<1>3. \A z \in Accounts : BalanceIn(b, z) \in Nat /\ BalanceIn(c, z) \in Nat
  BY <1>1, BalanceType, AccountsAssumption DEF Amounts
<1>4. /\ \A z \in Accounts : BalancesIn(b)[z] \in Nat /\ BalancesIn(c)[z] \in Nat
      /\ \A z \in Accounts \ {u} : BalancesIn(b)[z] = BalancesIn(c)[z]
      /\ BalancesIn(b)[u] = BalanceIn(b, u) /\ BalancesIn(c)[u] = x
  BY <1>2, <1>3 DEF BalancesIn
<1>5. /\ TotalOf(b) \in Nat /\ BalanceIn(b, u) <= TotalOf(b)
      /\ TotalOf(c) = TotalOf(b) - BalanceIn(b, u) + x
  BY <1>4, WeightChange, AccountsAssumption DEF TotalOf
<1> QED
  BY <1>1, <1>3, <1>5 DEF c

\* Crediting adds to the total what is credited, unless the account would
\* exceed u64::MAX.
LEMMA CreditTotal ==
  ASSUME NEW b, IsBalances(b), NEW u \in Accounts, NEW x \in Amounts
  PROVE  LET c == Credit(b, u, x)
         IN /\ IsBalances(c)
            /\ TotalOf(b) \in Nat
            /\ TotalOf(b) + x <= MAX_U64 => TotalOf(c) = TotalOf(b) + x
<1> DEFINE y == SaturatingAdd(BalanceIn(b, u), x)
<1>1. BalanceIn(b, u) \in Nat /\ x \in Nat /\ MAX_U64 \in Nat
  BY BalanceType, AccountsAssumption DEF Amounts
<1>2. y \in Amounts /\ (BalanceIn(b, u) + x <= MAX_U64 => y = BalanceIn(b, u) + x)
  BY <1>1 DEF SaturatingAdd, Amounts
<1>3. Credit(b, u, x) = Put(b, {u}, y)
  BY DEF Credit
<1> HIDE DEF y
<1>4. /\ IsBalances(Credit(b, u, x)) /\ TotalOf(b) \in Nat
      /\ BalanceIn(b, u) <= TotalOf(b)
      /\ TotalOf(Credit(b, u, x)) = TotalOf(b) - BalanceIn(b, u) + y
  BY <1>2, <1>3, PutBalance
<1> QED
  BY <1>1, <1>2, <1>4 DEF Amounts

\* Debiting takes from the total what is debited, if the account has it.
LEMMA DebitTotal ==
  ASSUME NEW b, IsBalances(b), NEW u \in Accounts, NEW x \in Amounts
  PROVE  LET c == Debit(b, u, x)
         IN /\ IsBalances(c)
            /\ TotalOf(b) \in Nat /\ BalanceIn(b, u) <= TotalOf(b)
            /\ x <= BalanceIn(b, u) => TotalOf(c) = TotalOf(b) - x
<1> DEFINE y == SaturatingSub(BalanceIn(b, u), x)
<1>1. BalanceIn(b, u) \in Amounts /\ x \in Nat /\ MAX_U64 \in Nat
  BY BalanceType, AccountsAssumption DEF Amounts
<1>2. y \in Amounts /\ (x <= BalanceIn(b, u) => y = BalanceIn(b, u) - x)
  BY <1>1 DEF SaturatingSub, Amounts
<1>3. Debit(b, u, x) = Put(b, {u}, y)
  BY DEF Debit
<1> HIDE DEF y
<1>4. /\ IsBalances(Debit(b, u, x)) /\ TotalOf(b) \in Nat
      /\ BalanceIn(b, u) <= TotalOf(b)
      /\ TotalOf(Debit(b, u, x)) = TotalOf(b) - BalanceIn(b, u) + y
  BY <1>2, <1>3, PutBalance
<1> QED
  BY <1>1, <1>2, <1>4 DEF Amounts

\* The two shares of a fee are the fee.
LEMMA SharesOfAFee ==
  ASSUME NEW fees \in Amounts
  PROVE  /\ founder_cut(fees) \in Amounts /\ community_cut(fees) \in Amounts
         /\ founder_cut(fees) + community_cut(fees) = fees
<1>1. fees \in Nat /\ fees <= MAX_U64 /\ MAX_U64 \in Nat
  BY AccountsAssumption DEF Amounts
<1>2. FOUNDER_SHARE_BPS \in Nat /\ FOUNDER_SHARE_BPS <= 10000
  BY ShareAssumption
<1> DEFINE product == fees * FOUNDER_SHARE_BPS
           cut == product \div 10000
<1>3. product \in Nat /\ product <= 10000 * fees
  BY <1>1, <1>2
<1> HIDE DEF product
<1>4. cut \in Int /\ product % 10000 \in Nat /\ product = 10000 * cut + (product % 10000)
      /\ product % 10000 < 10000
  BY <1>3, DivMod
<1> HIDE DEF cut
<1>5. cut \in Nat /\ cut <= fees
  BY <1>1, <1>3, <1>4
<1>6. founder_cut(fees) = cut
  BY DEF founder_cut, cut, product
<1> QED
  BY <1>1, <1>5, <1>6 DEF community_cut, SaturatingSub, Amounts

\* A transfer leaves the total as it was, whoever the parties are.
LEMMA SettledTotal ==
  ASSUME IsBalances(balances), NEW tx \in Txs, balance(tx.from) >= Required(tx)
  PROVE  /\ IsBalances(Settled(tx))
         /\ TotalOf(balances) < MAX_U64 => TotalOf(Settled(tx)) = TotalOf(balances)
<1> DEFINE paid == Debit(balances, tx.from, Required(tx))
           received == Credit(paid, tx.to, tx.amount)
           founded == Credit(received, founder, founder_cut(tx.fee))
           settled == Credit(founded, community_fund, community_cut(tx.fee))
<1>1. /\ tx.from \in Accounts /\ tx.to \in Accounts
      /\ founder \in Accounts /\ community_fund \in Accounts
      /\ tx.amount \in Amounts /\ tx.fee \in Amounts
  BY TxsAssumption, AccountsAssumption DEF Amounts
<1>2. /\ Required(tx) \in Amounts
      /\ Required(tx) < MAX_U64 => Required(tx) = tx.amount + tx.fee
  BY <1>1, AccountsAssumption DEF Required, SaturatingAdd, Amounts
<1>3. Required(tx) <= BalanceIn(balances, tx.from)
  BY <1>1, <1>2, BalanceType, AccountsAssumption DEF balance, Amounts
<1>4. /\ IsBalances(paid)
      /\ TotalOf(balances) \in Nat /\ BalanceIn(balances, tx.from) <= TotalOf(balances)
      /\ TotalOf(paid) = TotalOf(balances) - Required(tx)
  BY <1>1, <1>2, <1>3, DebitTotal
<1>5. Settled(tx) = settled
  BY DEF Settled
<1> HIDE DEF paid
<1>6. /\ IsBalances(received) /\ TotalOf(paid) \in Nat
      /\ TotalOf(paid) + tx.amount <= MAX_U64 => TotalOf(received) = TotalOf(paid) + tx.amount
  BY <1>1, <1>4, CreditTotal
<1> HIDE DEF received
<1>7. /\ founder_cut(tx.fee) \in Amounts /\ community_cut(tx.fee) \in Amounts
      /\ founder_cut(tx.fee) + community_cut(tx.fee) = tx.fee
  BY <1>1, SharesOfAFee
<1>8. /\ IsBalances(founded) /\ TotalOf(received) \in Nat
      /\ TotalOf(received) + founder_cut(tx.fee) <= MAX_U64
           => TotalOf(founded) = TotalOf(received) + founder_cut(tx.fee)
  BY <1>1, <1>6, <1>7, CreditTotal
<1> HIDE DEF founded
<1>9. /\ IsBalances(settled) /\ TotalOf(founded) \in Nat
      /\ TotalOf(founded) + community_cut(tx.fee) <= MAX_U64
           => TotalOf(settled) = TotalOf(founded) + community_cut(tx.fee)
  BY <1>1, <1>8, <1>7, CreditTotal
<1> HIDE DEF settled
<1>10. \A t, bal, req, amt, fe, f, c, m, p, q, g, s \in Nat :
         /\ t < m /\ bal <= t /\ req <= bal /\ req = amt + fe /\ f + c = fe
         /\ p = t - req
         /\ p + amt <= m => q = p + amt
         /\ q + f <= m => g = q + f
         /\ g + c <= m => s = g + c
         => s = t
  OBVIOUS
<1>11. ASSUME TotalOf(balances) < MAX_U64
       PROVE  TotalOf(settled) = TotalOf(balances)
  <2>1. TotalOf(settled) \in Nat
    BY <1>1, <1>9, CreditTotal
  <2>2. BalanceIn(balances, tx.from) \in Nat /\ MAX_U64 \in Nat
    BY BalanceType, AccountsAssumption DEF Amounts
  <2>3. Required(tx) \in Nat /\ tx.amount \in Nat /\ tx.fee \in Nat
        /\ founder_cut(tx.fee) \in Nat /\ community_cut(tx.fee) \in Nat
    BY <1>1, <1>2, <1>7 DEF Amounts
  <2>4. Required(tx) = tx.amount + tx.fee
    BY <1>2, <1>3, <1>4, <1>11, <2>2, <2>3
  <2> QED
    BY <1>3, <1>4, <1>6, <1>7, <1>8, <1>9, <1>10, <1>11, <2>1, <2>2, <2>3, <2>4
<1> QED
  BY <1>5, <1>9, <1>11

\* The engine begins without accounts.
LEMMA L2InitEstablishesInv ==
  ASSUME L2Init
  PROVE  L2Inv
<1>1. /\ balances = [u \in {} |-> 0] /\ nonces = [u \in {} |-> 0] /\ processed = {}
      /\ utxos = <<>> /\ tx_count = 0 /\ total_fees = 0 /\ credited = 0 /\ executed = {}
  BY DEF L2Init
<1>2. IsBalances(balances) /\ IsMap(nonces, Accounts, Amounts)
  BY <1>1 DEF IsBalances, IsMap
<1>3. utxos \in Seq({}) /\ Len(utxos) = 0
  BY <1>1, EmptySeq
<1>4. ExecutedOnce
  BY <1>1, FS_EmptySet DEF ExecutedOnce
<1>5. ValueIsConserved
  <2>1. \A u \in Accounts : Balances[u] = 0
    BY <1>1 DEF Balances, balance, BalanceIn
  <2>2. Weight(Accounts, Balances) = 0
    BY <2>1, WeightOfNothing
  <2> QED
    BY <1>1, <2>2 DEF ValueIsConserved
<1>6. NoncesInOrder
  <2>1. \A u : SentBy(u) = {} /\ nonce(u) = 0
    BY <1>1 DEF SentBy, nonce
  <2>2. Cardinality({}) = 0
    BY FS_EmptySet
  <2>3. Weight(executed, [tx \in executed |-> tx.fee]) = 0
    BY <1>1, WeightEmpty
  <2>4. \A u \in Accounts : Cardinality(SentBy(u)) < MAX_U64 =>
          /\ nonce(u) = Cardinality(SentBy(u))
          /\ {tx.nonce : tx \in SentBy(u)} = 0..(nonce(u) - 1)
    BY <2>1, <2>2
  <2>5. processed = {utxos[i].tx_hash : i \in 1..Len(utxos)}
    BY <1>1, <1>3
  <2> QED
    BY <1>1, <1>3, <2>2, <2>3, <2>4, <2>5, AccountsAssumption DEF NoncesInOrder
<1> QED
  BY <1>1, <1>2, <1>3, <1>4, <1>5, <1>6 DEF L2Inv

\* A credit adds to the total what it adds to credited.
LEMMA CreditPreservesInv ==
  ASSUME L2Inv, NEW u \in Accounts, NEW x \in Deposits, credit(u, x)
  PROVE  L2Inv'
<1>1. x \in Amounts /\ x \in Nat /\ MAX_U64 \in Nat /\ credited \in Nat
  BY AccountsAssumption DEF L2Inv, Amounts
<1>2. balances' = Credit(balances, u, x) /\ credited' = credited + x
  BY DEF credit
<1>3. UNCHANGED <<nonces, processed, utxos, tx_count, total_fees, executed>>
  BY DEF credit
<1>4. /\ IsBalances(balances')
      /\ TotalOf(balances) \in Nat
      /\ TotalOf(balances) + x <= MAX_U64 => TotalOf(balances') = TotalOf(balances) + x
  BY <1>1, <1>2, CreditTotal DEF L2Inv
<1>5. credited < MAX_U64 => TotalOf(balances) = credited
  BY DEF L2Inv, ValueIsConserved, Balances, balance, TotalOf, BalancesIn
<1>6. ValueIsConserved'
  <2>1. credited' < MAX_U64 => TotalOf(balances') = credited'
    BY <1>1, <1>2, <1>4, <1>5
  <2> QED
    BY <2>1 DEF ValueIsConserved, Balances, balance, TotalOf, BalancesIn
<1>7. NoncesInOrder'
  BY <1>3 DEF L2Inv, NoncesInOrder, SentBy, nonce
<1>8. ExecutedOnce'
  BY <1>3 DEF L2Inv, ExecutedOnce
<1> QED
  BY <1>1, <1>2, <1>3, <1>4, <1>6, <1>7, <1>8 DEF L2Inv, IsBalances, IsMap

\* A processed transaction has its sender's next nonce, and is processed once.
LEMMA ProcessKeepsNonces ==
  ASSUME L2Inv, NEW tx \in Txs, process_transaction(tx)
  PROVE  NoncesInOrder' /\ ExecutedOnce'
<1> DEFINE utxo == NewUtxo(tx.to, tx.amount, tx.tx_hash, tx.dna)
<1>1. /\ processed' = processed \cup {tx.tx_hash}
      /\ total_fees' = SaturatingAdd(total_fees, tx.fee)
      /\ nonces' = Put(nonces, {tx.from}, SaturatingAdd(nonce(tx.from), 1))
      /\ utxos' = Append(utxos, utxo)
      /\ tx_count' = SaturatingAdd(tx_count, 1)
      /\ executed' = executed \cup {tx}
  BY DEF process_transaction
<1>2. tx \notin executed /\ tx.nonce = nonce(tx.from) /\ tx.fee \in Nat /\ MAX_U64 \in Nat
  BY TxsAssumption, AccountsAssumption
  DEF process_transaction, Accepts, L2Inv, ExecutedOnce
<1>3. IsFiniteSet(executed) /\ Cardinality(executed) \in Nat
  BY FS_CardinalityType DEF L2Inv, ExecutedOnce
<1>4. IsFiniteSet(executed') /\ Cardinality(executed') = Cardinality(executed) + 1
  BY <1>1, <1>2, <1>3, FS_AddElement
<1>5. ExecutedOnce'
  BY <1>1, <1>4 DEF L2Inv, ExecutedOnce
<1>6. ASSUME NEW u \in Accounts, Cardinality(SentBy(u)') < MAX_U64
      PROVE  /\ nonce(u)' = Cardinality(SentBy(u)')
             /\ {t.nonce : t \in SentBy(u)'} = 0..(nonce(u)' - 1)
  <2>1. CASE u # tx.from
    <3>1. SentBy(u)' = SentBy(u)
      BY <1>1, <2>1 DEF SentBy
    <3>2. nonce(u)' = nonce(u)
      BY <1>1, <2>1 DEF nonce, Put
    <3> QED
      BY <1>6, <3>1, <3>2 DEF L2Inv, NoncesInOrder
  <2>2. CASE u = tx.from
    <3>1. SentBy(u)' = SentBy(u) \cup {tx} /\ tx \notin SentBy(u)
      BY <1>1, <1>2, <2>2 DEF SentBy
    <3>2. IsFiniteSet(SentBy(u)) /\ Cardinality(SentBy(u)) \in Nat
      BY <1>3, FS_Subset, FS_CardinalityType DEF SentBy
    <3>3. Cardinality(SentBy(u)') = Cardinality(SentBy(u)) + 1
      BY <3>1, <3>2, FS_AddElement
    <3>4. /\ nonce(u) = Cardinality(SentBy(u))
          /\ {t.nonce : t \in SentBy(u)} = 0..(nonce(u) - 1)
      BY <1>2, <1>6, <3>2, <3>3 DEF L2Inv, NoncesInOrder
    <3>5. nonce(u)' = nonce(u) + 1
      BY <1>1, <1>2, <1>6, <2>2, <3>2, <3>3, <3>4 DEF nonce, Put, SaturatingAdd
    <3>6. {t.nonce : t \in SentBy(u)'} = {t.nonce : t \in SentBy(u)} \cup {nonce(u)}
      BY <1>2, <2>2, <3>1
    <3>7. \A n \in Nat : (0..(n - 1)) \cup {n} = 0..n
      OBVIOUS
    <3> DEFINE n == nonce(u)
               new == {t.nonce : t \in SentBy(u)'}
    <3>8. n \in Nat /\ nonce(u)' = n + 1 /\ new = (0..(n - 1)) \cup {n}
      BY <3>2, <3>4, <3>5, <3>6
    <3> HIDE DEF n, new
    <3>9. new = 0..n /\ (n + 1) - 1 = n
      BY <3>7, <3>8
    <3> QED
      BY <3>2, <3>3, <3>4, <3>5, <3>8, <3>9 DEF new
  <2> QED
    BY <2>1, <2>2
<1>7. PICK T : utxos \in Seq(T)
  BY DEF L2Inv
<1>8. /\ Len(utxos) \in Nat /\ Len(utxos') = Len(utxos) + 1
      /\ \A i \in 1..Len(utxos) : utxos'[i] = utxos[i]
      /\ utxos'[Len(utxos) + 1] = utxo
  <2>1. utxos \in Seq(T \cup {utxo})
    BY <1>7
  <2> QED
    BY <1>1, <2>1, AppendProperties, LenProperties
<1>9. utxo.tx_hash = tx.tx_hash
  BY DEF NewUtxo
<1> HIDE DEF utxo
<1>10. processed' = {utxos'[i].tx_hash : i \in 1..Len(utxos')}
  <2>1. processed = {utxos[i].tx_hash : i \in 1..Len(utxos)}
    BY DEF L2Inv, NoncesInOrder
  <2>2. 1..Len(utxos') = (1..Len(utxos)) \cup {Len(utxos) + 1}
    BY <1>8
  <2>3. {utxos'[i].tx_hash : i \in 1..Len(utxos')}
          = {utxos[i].tx_hash : i \in 1..Len(utxos)} \cup {tx.tx_hash}
    BY <1>8, <1>9, <2>2
  <2> QED
    BY <1>1, <2>1, <2>3
<1>11. Len(utxos') = Cardinality(executed')
  BY <1>4, <1>8 DEF L2Inv, NoncesInOrder
<1>12. tx_count' = IF Len(utxos') < MAX_U64 THEN Len(utxos') ELSE MAX_U64
  <2>1. tx_count = IF Len(utxos) < MAX_U64 THEN Len(utxos) ELSE MAX_U64
    BY DEF L2Inv, NoncesInOrder
  <2> QED
    BY <1>1, <1>2, <1>8, <2>1 DEF SaturatingAdd
<1>13. /\ FeesOf(executed) \in Nat
       /\ FeesOf(executed') = FeesOf(executed) + tx.fee
  <2> DEFINE f == [t \in executed |-> t.fee]
             g == [t \in executed' |-> t.fee]
  <2>1. \A t \in executed \cup {tx} : t.fee \in Nat
    BY TxsAssumption, AccountsAssumption DEF L2Inv, ExecutedOnce
  <2>2. /\ \A t \in executed : f[t] = g[t] /\ f[t] \in Nat
        /\ \A t \in executed \cup {tx} : g[t] \in Nat
        /\ g[tx] = tx.fee
    BY <1>1, <2>1
  <2>3. FeesOf(executed) = Weight(executed, f) /\ FeesOf(executed') = Weight(executed', g)
    BY DEF FeesOf
  <2> HIDE DEF f, g
  <2>4. Weight(executed, f) = Weight(executed, g) /\ Weight(executed, f) \in Nat
    BY <1>3, <2>2, WeightAgrees, WeightType
  <2>5. Weight(executed \cup {tx}, g) = Weight(executed, g) + g[tx]
    BY <1>2, <1>3, <2>2, WeightGain
  <2> QED
    BY <1>1, <2>2, <2>3, <2>4, <2>5
<1>14. total_fees' = IF FeesOf(executed') < MAX_U64 THEN FeesOf(executed') ELSE MAX_U64
  <2>1. total_fees = IF FeesOf(executed) < MAX_U64 THEN FeesOf(executed) ELSE MAX_U64
    BY DEF L2Inv, NoncesInOrder, FeesOf
  <2> QED
    BY <1>1, <1>2, <1>13, <2>1 DEF SaturatingAdd
<1>15. NoncesInOrder'
  BY <1>6, <1>10, <1>11, <1>12, <1>14 DEF NoncesInOrder, FeesOf
<1> QED
  BY <1>5, <1>15

\* Processing a transaction keeps the invariant of the engine.
LEMMA ProcessPreservesInv ==
  ASSUME L2Inv, NEW tx \in Txs, process_transaction(tx)
  PROVE  L2Inv'
<1>1. NoncesInOrder' /\ ExecutedOnce'
  BY ProcessKeepsNonces
<1>2. balances' = Settled(tx) /\ credited' = credited /\ balance(tx.from) >= Required(tx)
  BY DEF process_transaction, Accepts
<1>3. /\ IsBalances(balances')
      /\ TotalOf(balances) < MAX_U64 => TotalOf(balances') = TotalOf(balances)
  BY <1>2, SettledTotal DEF L2Inv
<1>4. ValueIsConserved'
  <2>1. credited < MAX_U64 => TotalOf(balances) = credited
    BY DEF L2Inv, ValueIsConserved, Balances, balance, TotalOf, BalancesIn
  <2>2. credited' < MAX_U64 => TotalOf(balances') = credited'
    BY <1>2, <1>3, <2>1
  <2> QED
    BY <2>2 DEF ValueIsConserved, Balances, balance, TotalOf, BalancesIn
<1>5. IsMap(nonces', Accounts, Amounts)
  <2>1. tx.from \in Accounts
    BY TxsAssumption
  <2>2. SaturatingAdd(nonce(tx.from), 1) \in Amounts
    BY AccountsAssumption DEF L2Inv, IsMap, nonce, SaturatingAdd, Amounts
  <2>3. nonces' = Put(nonces, {tx.from}, SaturatingAdd(nonce(tx.from), 1))
    BY DEF process_transaction
  <2> QED
    BY <2>1, <2>2, <2>3 DEF L2Inv, IsMap, Put
<1>6. \E T : utxos' \in Seq(T)
  <2> DEFINE utxo == NewUtxo(tx.to, tx.amount, tx.tx_hash, tx.dna)
  <2>1. PICK T : utxos \in Seq(T)
    BY DEF L2Inv
  <2>2. utxos' = Append(utxos, utxo)
    BY DEF process_transaction
  <2> HIDE DEF utxo
  <2>3. utxos' \in Seq(T \cup {utxo})
    BY <2>1, <2>2, AppendProperties
  <2> QED
    BY <2>3
<1>7. credited' \in Nat
  BY <1>2 DEF L2Inv
<1> QED
  BY <1>1, <1>3, <1>4, <1>5, <1>6, <1>7 DEF L2Inv, IsBalances, IsMap
-----------------------------------------------------------------------------
(******************************** Economics ********************************)

\* The reward after p halvings.
Reward(p) == Shr(INITIAL_REWARD, p)

\* L is a number of halvings as EmissionAssumption has it.
IsLimit(L) ==
  /\ L \in Nat /\ L < MAX_HALVINGS
  /\ \A k \in 1..L : Reward(k - 1) = 2 * Reward(k)
  /\ (2 * INITIAL_REWARD - Reward(L)) * HALVING_INTERVAL >= MAX_SUPPLY

\* Rewards and their sums are natural numbers, and a block adds its reward.
LEMMA RewardFacts ==
  /\ INITIAL_REWARD \in Nat /\ MAX_SUPPLY \in Nat /\ MAX_HALVINGS \in Nat /\ MaxHeight \in Nat
  /\ HALVING_INTERVAL \in Nat \ {0}
  /\ Reward(0) = INITIAL_REWARD
  /\ \A p \in Nat : Reward(p) \in Nat
  /\ \A h \in Nat : halving(h) \in Nat /\ block_reward(h) \in Nat
<1>1. /\ INITIAL_REWARD \in Nat /\ MAX_SUPPLY \in Nat /\ MAX_HALVINGS \in Nat
      /\ MaxHeight \in Nat /\ HALVING_INTERVAL \in Nat \ {0}
  BY EconomicsAssumption
<1>2. Reward(0) = INITIAL_REWARD /\ \A p \in Nat : Reward(p) \in Nat
  BY <1>1, ShrUnfolds DEF Reward
<1>3. \A h \in Nat : halving(h) \in Nat
  BY <1>1 DEF halving
<1>4. \A h \in Nat : block_reward(h) \in Nat
  BY <1>1, <1>2, <1>3 DEF block_reward, Reward
<1> QED
  BY <1>1, <1>2, <1>3, <1>4

\* The sum of rewards grows by the reward of each block.
LEMMA SumOfRewardsUnfolds ==
  /\ SumOfRewards(0) = 0
  /\ \A h \in Nat : /\ SumOfRewards(h) \in Nat
                    /\ SumOfRewards(h + 1) = SumOfRewards(h) + block_reward(h)
<1> DEFINE f(h) == [k \in 1..h |-> block_reward(k - 1)]
<1>1. \A h \in Nat : \A k \in 1..h : f(h)[k] \in Nat /\ f(h)[k] = block_reward(k - 1)
  BY RewardFacts
<1>2. \A h \in Nat : SumOfRewards(h) = SumTo(f(h), h)
  BY DEF SumOfRewards
<1> HIDE DEF f
<1>3. SumOfRewards(0) = 0
  BY <1>1, <1>2, SumUnfolds
<1>4. ASSUME NEW h \in Nat
      PROVE  /\ SumOfRewards(h) \in Nat
             /\ SumOfRewards(h + 1) = SumOfRewards(h) + block_reward(h)
  <2> DEFINE g == f(h)
             w == f(h + 1)
             n == h + 1
  <2>1. n \in Nat /\ n > 0 /\ n - 1 = h
    OBVIOUS
  <2>2. \A k \in 1..n : w[k] \in Nat /\ w[k] \in Int /\ w[k] = block_reward(k - 1)
    BY <1>1
  <2>3. \A k \in 1..h : g[k] \in Nat /\ g[k] = w[k]
    BY <1>1, <2>2
  <2>4. w[n] = block_reward(h)
    BY <2>2
  <2>5. SumOfRewards(h) = SumTo(g, h) /\ SumOfRewards(n) = SumTo(w, n)
    BY <1>2, <2>1
  <2> HIDE DEF g, w, n
  <2>6. SumTo(g, h) = SumTo(w, h) /\ SumTo(g, h) \in Nat
    BY <2>3, SumAgrees
  <2>7. SumTo(w, n) = SumTo(w, n - 1) + w[n]
    BY <2>1, <2>2, SumUnfolds
  <2> QED
    BY <2>1, <2>4, <2>5, <2>6, <2>7 DEF n
<1> QED
  BY <1>3, <1>4

\* A height is so many full periods and less than one more.
LEMMA HeightSplit ==
  ASSUME NEW h \in Nat
  PROVE  /\ halving(h) \in Nat /\ h % HALVING_INTERVAL \in Nat
         /\ h % HALVING_INTERVAL < HALVING_INTERVAL
         /\ h = HALVING_INTERVAL * halving(h) + (h % HALVING_INTERVAL)
<1>1. halving(h) \in Nat /\ HALVING_INTERVAL \in Nat \ {0} /\ h \in Int
  BY RewardFacts
<1>2. \A a \in Int, b \in Nat \ {0} :
        a % b \in Nat /\ a % b < b /\ a = b * (a \div b) + (a % b)
  BY DivMod
<1> QED
  BY <1>1, <1>2 DEF halving

\* The height r blocks into period p.
LEMMA Period ==
  ASSUME NEW p \in Nat, NEW r \in Nat, r < HALVING_INTERVAL
  PROVE  /\ p * HALVING_INTERVAL + r \in Nat
         /\ halving(p * HALVING_INTERVAL + r) = p
         /\ (p * HALVING_INTERVAL + r) % HALVING_INTERVAL = r
<1> DEFINE N == HALVING_INTERVAL
           h == p * N + r
<1>1. N \in Nat \ {0}
  BY RewardFacts
<1>2. h \in Nat
  BY <1>1
<1>3. h \div N \in Int /\ h % N \in Nat /\ h % N < N /\ h = N * (h \div N) + (h % N)
  BY <1>1, <1>2, DivMod
<1> DEFINE q == h \div N
           m == h % N
<1> HIDE DEF q, m
<1>4. q \in Int /\ m \in Nat /\ m < N /\ p * N + r = N * q + m
  BY <1>3 DEF q, m
<1>5. N * (p - q) = m - r
  BY <1>1, <1>4
<1>6. p = q
  <2>1. ASSUME p > q PROVE FALSE
    <3>1. 1 <= p - q /\ 1 \in Int /\ p - q \in Int /\ N \in Nat
      BY <1>1, <1>4, <2>1
    <3>2. \A c, d \in Int : c <= d => N * c <= N * d
      BY <1>1, TimesMonotone
    <3>3. N * 1 <= N * (p - q)
      BY <3>1, <3>2
    <3> QED
      BY <1>1, <1>4, <1>5, <3>3
  <2>2. ASSUME p < q PROVE FALSE
    <3>1. p - q <= -1 /\ -1 \in Int /\ p - q \in Int /\ N \in Nat
      BY <1>1, <1>4, <2>2
    <3>2. \A c, d \in Int : c <= d => N * c <= N * d
      BY <1>1, TimesMonotone
    <3>3. N * (p - q) <= N * (-1)
      BY <3>1, <3>2
    <3> QED
      BY <1>1, <1>4, <1>5, <3>3
  <2> QED
    BY <1>4, <2>1, <2>2
<1>7. m = r
  BY <1>1, <1>4, <1>6
<1> QED
  BY <1>2, <1>6, <1>7 DEF q, m, halving

\* While halving leaves no remainder, p full periods and r blocks of the next
\* are rewarded what the geometric series says.
LEMMA SumWhileEven ==
  ASSUME NEW L, IsLimit(L)
  PROVE  \A p \in Nat, r \in Nat : p <= L /\ r <= HALVING_INTERVAL =>
           SumOfRewards(p * HALVING_INTERVAL + r) =
             2 * INITIAL_REWARD * HALVING_INTERVAL
             - 2 * (Reward(p) * HALVING_INTERVAL) + Reward(p) * r
<1> DEFINE N == HALVING_INTERVAL
           whole == 2 * INITIAL_REWARD * N
           Closed(p, r) == SumOfRewards(p * N + r) = whole - 2 * (Reward(p) * N) + Reward(p) * r
           Good == {p \in Nat : p <= L => \A r \in Nat : r <= N => Closed(p, r)}
<1>1. /\ N \in Nat \ {0} /\ whole \in Nat /\ L \in Nat /\ L < MAX_HALVINGS
      /\ \A p \in Nat : Reward(p) \in Nat
  BY RewardFacts DEF IsLimit
<1>2. ASSUME NEW p \in Nat, p <= L, Closed(p, 0)
      PROVE  \A r \in Nat : r <= N => Closed(p, r)
  <2> DEFINE Far == {r \in Nat : r <= N => Closed(p, r)}
             w == Reward(p)
             h(r) == p * N + r
             c == whole - 2 * (w * N)
  <2>1. w \in Nat /\ c \in Int
    BY <1>1
  <2>2. 0 \in Far
    BY <1>2
  <2>3. ASSUME NEW r \in Nat, r \in Far PROVE r + 1 \in Far
    <3> SUFFICES ASSUME r + 1 <= N PROVE Closed(p, r + 1)
      OBVIOUS
    <3>1. r < N /\ r <= N
      BY <1>1
    <3>2. h(r) \in Nat /\ halving(h(r)) = p
      BY <3>1, Period
    <3>3. h(r + 1) = h(r) + 1
      BY <1>1
    <3>4. SumOfRewards(h(r)) = c + w * r
      BY <2>3, <3>1
    <3>5. block_reward(h(r)) = w
      <4>1. ~(p >= MAX_HALVINGS)
        BY <1>1, <1>2, RewardFacts
      <4> HIDE DEF h
      <4> QED
        BY <3>2, <4>1 DEF block_reward, Reward
    <3>6. SumOfRewards(h(r) + 1) = SumOfRewards(h(r)) + block_reward(h(r))
      <4> HIDE DEF h
      <4> QED
        BY <3>2, SumOfRewardsUnfolds
    <3> HIDE DEF h, w, c
    <3>7. w * (r + 1) = w * r + w /\ w * r \in Int
      BY <2>1
    <3>8. SumOfRewards(h(r + 1)) = c + w * (r + 1)
      BY <2>1, <3>3, <3>4, <3>5, <3>6, <3>7
    <3> QED
      BY <3>8 DEF h, w, c
  <2> HIDE DEF Far
  <2>4. Nat \subseteq Far
    BY <2>2, <2>3, SetInduction
  <2> HIDE DEF Closed
  <2> QED
    BY <2>4 DEF Far
<1>3. 0 \in Good
  <2>1. Closed(0, 0)
    <3>1. Reward(0) = INITIAL_REWARD /\ INITIAL_REWARD \in Nat /\ SumOfRewards(0) = 0
      BY RewardFacts, SumOfRewardsUnfolds
    <3>2. 0 * N + 0 = 0 /\ whole - 2 * (INITIAL_REWARD * N) + INITIAL_REWARD * 0 = 0
      BY <1>1, <3>1
    <3> QED
      BY <3>1, <3>2
  <2> HIDE DEF Closed
  <2> QED
    BY <1>1, <1>2, <2>1
<1>4. ASSUME NEW p \in Nat, p \in Good PROVE p + 1 \in Good
  <2> SUFFICES ASSUME p + 1 <= L PROVE \A r \in Nat : r <= N => Closed(p + 1, r)
    OBVIOUS
  <2> DEFINE v == Reward(p)
             w == Reward(p + 1)
  <2>1. p <= L /\ p + 1 \in 1..L /\ p + 1 \in Nat
    BY <1>1
  <2>2. v = 2 * w
    <3>1. (p + 1) - 1 = p
      OBVIOUS
    <3> QED
      BY <2>1, <3>1 DEF IsLimit
  <2>3. SumOfRewards(p * N + N) = whole - 2 * (v * N) + v * N
    BY <1>1, <1>4, <2>1
  <2>4. v \in Nat /\ w \in Nat /\ p * N + N = (p + 1) * N + 0
    BY <1>1, <2>1
  <2> HIDE DEF v, w
  <2>5. whole - 2 * (v * N) + v * N = whole - 2 * (w * N) + w * 0
    BY <1>1, <2>2, <2>4
  <2>6. Closed(p + 1, 0)
    BY <2>3, <2>4, <2>5 DEF w
  <2> HIDE DEF Closed
  <2> QED
    BY <1>2, <2>1, <2>6
<1>5. Nat \subseteq Good
  <2> HIDE DEF Good
  <2> QED
    BY <1>3, <1>4, SetInduction
<1> HIDE DEF Closed
<1>6. \A p \in Nat, r \in Nat : p <= L /\ r <= N => Closed(p, r)
  BY <1>5
<1> QED
  BY <1>6 DEF Closed

\* What is left of the series after each halving.
LEMMA TwiceShifted ==
  ASSUME NEW L, IsLimit(L), NEW twice, twice = 2 * INITIAL_REWARD * HALVING_INTERVAL
  PROVE  /\ twice \in Nat
         /\ \A p \in Nat : Shr(twice, p) \in Nat
         /\ \A p \in Nat : p <= L => Shr(twice, p) = 2 * (Reward(p) * HALVING_INTERVAL)
         /\ \A p \in Nat : p > L => Shr(twice, p) <= Reward(L) * HALVING_INTERVAL
<1> DEFINE N == HALVING_INTERVAL
           Even == {p \in Nat : p <= L => Shr(twice, p) = 2 * (Reward(p) * N)}
           Small == {p \in Nat : p > L => Shr(twice, p) <= Reward(L) * N}
<1>1. /\ N \in Nat \ {0} /\ twice \in Nat /\ L \in Nat
      /\ \A p \in Nat : Reward(p) \in Nat
      /\ twice = 2 * (Reward(0) * N)
  BY RewardFacts DEF IsLimit
<1>2. /\ Shr(twice, 0) = twice
      /\ \A p \in Nat : Shr(twice, p) \in Nat /\ Shr(twice, p + 1) = Shr(twice, p) \div 2
  BY <1>1, ShrUnfolds
<1>3. 0 \in Even
  BY <1>1, <1>2
<1>4. ASSUME NEW p \in Nat, p \in Even PROVE p + 1 \in Even
  <2> SUFFICES ASSUME p + 1 <= L PROVE Shr(twice, p + 1) = 2 * (Reward(p + 1) * N)
    OBVIOUS
  <2> DEFINE v == Reward(p)
             w == Reward(p + 1)
             x == v * N
  <2>1. p <= L /\ p + 1 \in 1..L /\ p + 1 \in Nat /\ (p + 1) - 1 = p
    BY <1>1
  <2>2. v = 2 * w /\ v \in Nat /\ w \in Nat
    BY <1>1, <2>1 DEF IsLimit
  <2>3. Shr(twice, p + 1) = (2 * x) \div 2
    BY <1>2, <1>4, <2>1
  <2> HIDE DEF v, w
  <2>4. x \in Nat /\ x = 2 * (w * N)
    BY <1>1, <2>2
  <2> HIDE DEF x
  <2>5. (2 * x) \div 2 = x
    BY <2>4
  <2> QED
    BY <2>3, <2>4, <2>5 DEF w
<1>5. Nat \subseteq Even
  <2> HIDE DEF Even
  <2> QED
    BY <1>3, <1>4, SetInduction
<1>6. 0 \in Small
  BY <1>1
<1>7. ASSUME NEW p \in Nat, p \in Small PROVE p + 1 \in Small
  <2> SUFFICES ASSUME p + 1 > L PROVE Shr(twice, p + 1) <= Reward(L) * N
    OBVIOUS
  <2> DEFINE x == Reward(L) * N
             y == Shr(twice, p)
  <2>1. x \in Nat /\ y \in Nat /\ Shr(twice, p + 1) = y \div 2
    BY <1>1, <1>2
  <2>2. y <= x \/ y = 2 * x
    <3>1. CASE p = L
      BY <1>5, <3>1
    <3>2. CASE p > L
      BY <1>7, <3>2
    <3> QED
      BY <1>1, <3>1, <3>2
  <2> HIDE DEF x, y
  <2>3. y \div 2 <= x
    BY <2>1, <2>2
  <2> QED
    BY <2>1, <2>3 DEF x
<1>8. Nat \subseteq Small
  <2> HIDE DEF Small
  <2> QED
    BY <1>6, <1>7, SetInduction
<1> QED
  BY <1>1, <1>2, <1>5, <1>8

\* More blocks are rewarded no less.
LEMMA SumMonotone ==
  ASSUME NEW a \in Nat, NEW b \in Nat, a <= b
  PROVE  SumOfRewards(a) <= SumOfRewards(b)
<1> DEFINE Above == {d \in Nat : SumOfRewards(a) <= SumOfRewards(a + d)}
<1>1. 0 \in Above
  <2>1. a + 0 = a /\ SumOfRewards(a) \in Nat
    BY SumOfRewardsUnfolds
  <2> QED
    BY <2>1
<1>2. ASSUME NEW d \in Nat, d \in Above PROVE d + 1 \in Above
  <2>1. a + d \in Nat /\ a + (d + 1) = (a + d) + 1
    OBVIOUS
  <2> DEFINE h == a + d
  <2> HIDE DEF h
  <2>2. /\ SumOfRewards(h + 1) = SumOfRewards(h) + block_reward(h)
        /\ block_reward(h) \in Nat /\ SumOfRewards(h) \in Nat /\ SumOfRewards(a) \in Nat
    BY <2>1, SumOfRewardsUnfolds, RewardFacts DEF h
  <2> QED
    BY <1>2, <2>1, <2>2 DEF h
<1>3. Nat \subseteq Above
  <2> HIDE DEF Above
  <2> QED
    BY <1>1, <1>2, SetInduction
<1>4. b - a \in Nat /\ a + (b - a) = b
  OBVIOUS
<1> QED
  BY <1>3, <1>4

\* The closed form computes the sum, up to the supply.
LEMMA EmittedIsSum ==
  \A h \in Nat : emitted(h) = Lesser(SumOfRewards(h), MAX_SUPPLY)
<1> DEFINE N == HALVING_INTERVAL
           M == MAX_SUPPLY
           twice == 2 * INITIAL_REWARD * N
<1>1. PICK L : IsLimit(L)
  <2>1. \A L \in 0..(MAX_HALVINGS - 1) : L \in Nat /\ L < MAX_HALVINGS
    BY RewardFacts
  <2> QED
    BY <2>1, EmissionAssumption DEF IsLimit, Reward
<1>2. /\ twice \in Nat
      /\ \A p \in Nat : Shr(twice, p) \in Nat
      /\ \A p \in Nat : p <= L => Shr(twice, p) = 2 * (Reward(p) * N)
      /\ \A p \in Nat : p > L => Shr(twice, p) <= Reward(L) * N
  BY <1>1, TwiceShifted
<1>3. /\ N \in Nat \ {0} /\ M \in Nat /\ L \in Nat /\ L < MAX_HALVINGS /\ MAX_HALVINGS \in Nat
      /\ \A p \in Nat : Reward(p) \in Nat
      /\ INITIAL_REWARD \in Nat
      /\ (2 * INITIAL_REWARD - Reward(L)) * N >= M
  BY <1>1, RewardFacts DEF IsLimit
<1>4. Reward(L) * N \in Nat /\ twice - Reward(L) * N >= M
  BY <1>3
<1> SUFFICES ASSUME NEW h \in Nat
             PROVE  emitted(h) = Lesser(SumOfRewards(h), M)
  OBVIOUS
<1> DEFINE full == N * MAX_HALVINGS
           capped == Lesser(h, full)
           p == halving(capped)
           complete == IF p >= MAX_HALVINGS THEN twice ELSE twice - Shr(twice, p)
           partial == block_reward(capped) * (capped % N)
<1>5. emitted(h) = Lesser(complete + partial, M)
  BY DEF emitted
<1>6. full \in Nat /\ capped \in Nat
  BY <1>3 DEF Lesser
<1>7. h = N * halving(h) + (h % N) /\ halving(h) \in Nat /\ h % N \in Nat /\ h % N < N
  BY HeightSplit
<1> DEFINE q == halving(h)
           r == h % N
<1>8. /\ q \in Nat /\ r \in Nat /\ r < N /\ h = q * N + r
  BY <1>3, <1>7
<1>9. CASE q <= L
  <2> HIDE DEF q, r, twice
  <2>1. N * (q + 1) <= N * MAX_HALVINGS
    <3>1. q + 1 <= MAX_HALVINGS /\ q + 1 \in Int /\ MAX_HALVINGS \in Int /\ N \in Nat
      BY <1>3, <1>8, <1>9
    <3>2. \A c, d \in Int : c <= d => N * c <= N * d
      BY <1>3, TimesMonotone
    <3> QED
      BY <3>1, <3>2
  <2>2. h < full
    <3>1. N * (q + 1) = q * N + N /\ q * N \in Nat
      BY <1>3, <1>8
    <3> DEFINE x == q * N
    <3> HIDE DEF x
    <3>2. N * (q + 1) = x + N /\ x \in Nat /\ h = x + r
      BY <1>8, <3>1 DEF x
    <3> DEFINE y == N * (q + 1)
    <3>3. y <= full
      BY <2>1
    <3> HIDE DEF y, full
    <3> QED
      BY <1>3, <1>6, <1>8, <3>2, <3>3 DEF y
  <2>3. capped = h
    BY <1>6, <2>2 DEF Lesser
  <2> HIDE DEF full, capped
  <2>4. p = q /\ capped % N = r
    BY <2>3 DEF q, r
  <2>5. block_reward(capped) = Reward(q)
    BY <1>3, <1>8, <1>9, <2>4 DEF block_reward, Reward
  <2>6. complete = twice - 2 * (Reward(q) * N)
    BY <1>2, <1>3, <1>8, <1>9, <2>4
  <2>7. SumOfRewards(q * N + r) = twice - 2 * (Reward(q) * N) + Reward(q) * r
    <3>1. r <= N
      BY <1>3, <1>8
    <3> QED
      BY <1>1, <1>8, <1>9, <3>1, SumWhileEven DEF twice
  <2>8. complete + partial = SumOfRewards(h)
    BY <1>8, <2>4, <2>5, <2>6, <2>7
  <2> QED
    BY <1>5, <2>8
<1>10. CASE q > L
  <2> DEFINE l == L * N + N
  <2>1. l \in Nat
    BY <1>3
  <2>2. l <= h /\ l <= full
    <3>1. \A c, d \in Int : c <= d => N * c <= N * d
      BY <1>3, TimesMonotone
    <3>2. l = N * (L + 1)
      BY <1>3
    <3>3. N * (L + 1) <= N * q /\ N * (L + 1) <= N * MAX_HALVINGS
      <4> HIDE DEF q
      <4>1. L + 1 <= q /\ L + 1 <= MAX_HALVINGS /\ L + 1 \in Int
            /\ q \in Int /\ MAX_HALVINGS \in Int
        BY <1>3, <1>8, <1>10
      <4> QED
        BY <3>1, <4>1
    <3>4. h = N * q + r /\ N * q \in Int
      BY <1>3, <1>7, <1>8
    <3> DEFINE x == N * q
    <3>5. l <= x /\ x \in Int /\ h = x + r /\ l <= full
      BY <3>2, <3>3, <3>4
    <3> HIDE DEF x, l, q, r, full
    <3> QED
      BY <1>8, <2>1, <3>5
  <2>3. SumOfRewards(h) >= M
    <3>1. SumOfRewards(l) = twice - 2 * (Reward(L) * N) + Reward(L) * N
      <4>1. N \in Nat /\ N <= N /\ L <= L
        BY <1>3
      <4> QED
        BY <1>1, <1>3, <4>1, SumWhileEven
    <3>2. SumOfRewards(l) >= M
      BY <1>2, <1>3, <1>4, <3>1
    <3> HIDE DEF l
    <3>3. SumOfRewards(l) <= SumOfRewards(h) /\ SumOfRewards(l) \in Nat /\ SumOfRewards(h) \in Nat
      BY <2>1, <2>2, SumMonotone, SumOfRewardsUnfolds
    <3> QED
      BY <1>3, <3>2, <3>3
  <2>4. l <= capped
    BY <1>6, <2>1, <2>2 DEF Lesser
  <2>5. p \in Nat /\ p > L
    <3> HIDE DEF capped
    <3>1. /\ p \in Nat /\ capped % N \in Nat /\ capped % N < N
          /\ capped = N * p + (capped % N)
      BY <1>6, HeightSplit
    <3> HIDE DEF p
    <3>2. ASSUME p <= L PROVE FALSE
      <4>1. N * p <= N * L
        <5>1. \A c, d \in Int : c <= d => N * c <= N * d
          BY <1>3, TimesMonotone
        <5> QED
          BY <1>3, <3>1, <3>2, <5>1
      <4> DEFINE x == N * p
                 y == N * L
                 m == capped % N
      <4>2. x \in Int /\ y \in Int /\ x <= y /\ l = y + N
        BY <1>3, <3>1, <4>1
      <4>3. capped = x + m /\ m \in Nat /\ m < N
        BY <3>1
      <4> HIDE DEF x, y, l, m
      <4> QED
        BY <1>3, <1>6, <2>1, <2>4, <4>2, <4>3
    <3> QED
      BY <1>3, <3>1, <3>2
  <2>6. partial \in Nat
    <3> HIDE DEF capped
    <3>1. block_reward(capped) \in Nat /\ capped % N \in Nat
      BY <1>6, HeightSplit, RewardFacts
    <3> QED
      BY <3>1
  <2>7. complete \in Int /\ complete >= M
    <3> DEFINE x == Reward(L) * N
               y == Shr(twice, p)
    <3>1. x \in Nat /\ y \in Nat /\ y <= x /\ twice \in Nat /\ twice - x >= M
      BY <1>2, <1>4, <2>5
    <3> HIDE DEF x, twice, p
    <3>2. twice - y >= M /\ twice >= M
      <4> HIDE DEF y
      <4> QED
        BY <1>3, <3>1
    <3> QED
      BY <3>1, <3>2
  <2> HIDE DEF complete, partial
  <2>8. emitted(h) = M
    BY <1>3, <1>5, <2>6, <2>7 DEF Lesser
  <2>9. SumOfRewards(h) \in Nat
    BY SumOfRewardsUnfolds
  <2>10. Lesser(SumOfRewards(h), M) = M
    <3> DEFINE z == SumOfRewards(h)
    <3> HIDE DEF z
    <3>1. z \in Nat /\ z >= M
      BY <2>3, <2>9 DEF z
    <3>2. Lesser(z, M) = M
      BY <1>3, <3>1 DEF Lesser
    <3> QED
      BY <3>2 DEF z
  <2> QED
    BY <2>8, <2>10
<1> QED
  <2> HIDE DEF q
  <2> QED
    BY <1>3, <1>8, <1>9, <1>10


\* The supply is that of genesis, what emitted grew by and the fees, within the
\* limit; and emitted has grown by no more than that leaves.
EconomicsInv ==
  /\ height \in Nat /\ height >= 1 /\ fees_minted \in Nat
  /\ supply = genesis_amount + (emitted(height) - emitted(1)) + fees_minted
  /\ supply <= MAX_SUPPLY

\* create_coinbase takes at least one unit of fees and divides it fully.
LEMMA FeeIsTaken ==
  ASSUME NEW paid \in Nat
  PROVE  fee(paid).net \in Nat /\ fee(paid).dev \in Nat
         /\ fee(paid).net + fee(paid).dev >= 1
<1> DEFINE share == TimesAmount(paid, FEE_BPS) \div 10000
           gross == IF share >= 1 THEN share ELSE 1
           dev == TimesAmount(gross, DEV_SHARE_BPS) \div 10000
<1>0. FEE_BPS \in Nat /\ DEV_SHARE_BPS \in Nat /\ AMOUNT_MAX \in Nat
  BY EconomicsAssumption
<1>1. ASSUME NEW a \in Nat, NEW b \in Nat
      PROVE  TimesAmount(a, b) \div 10000 \in Nat
  <2>1. a * b \in Nat
    BY <1>1
  <2>2. TimesAmount(a, b) \in Nat
    BY <1>0, <2>1 DEF TimesAmount, Lesser
  <2> QED
    BY <2>2
<1>2. share \in Nat
  BY <1>0, <1>1
<1> HIDE DEF share
<1>3. gross \in Nat /\ gross >= 1
  BY <1>2
<1> HIDE DEF gross
<1>4. dev \in Nat
  BY <1>0, <1>1, <1>3
<1>5. fee(paid) = [net |-> SaturatingSub(gross, dev), dev |-> dev]
  BY DEF fee, gross, share
<1> HIDE DEF dev
<1> QED
  BY <1>3, <1>4, <1>5 DEF SaturatingSub

\* After genesis nothing else is supplied.
LEMMA EconomicsInitEstablishesInv ==
  ASSUME EconomicsInit
  PROVE  EconomicsInv
<1>1. emitted(1) = Lesser(SumOfRewards(1), MAX_SUPPLY) /\ SumOfRewards(1) \in Nat
      /\ MAX_SUPPLY \in Nat
  BY EmittedIsSum, SumOfRewardsUnfolds, RewardFacts
<1>2. emitted(1) \in Nat
  BY <1>1 DEF Lesser
<1>3. genesis_amount \in Nat /\ genesis_amount <= MAX_SUPPLY
  BY GenesisAssumption
<1> QED
  BY <1>2, <1>3 DEF EconomicsInit, EconomicsInv

\* The block at height 0 is rewarded no more than what genesis supplies.
LEMMA GenesisCoversFirstReward ==
  /\ genesis_amount \in Nat /\ emitted(1) = SumOfRewards(1)
  /\ SumOfRewards(1) \in Nat /\ SumOfRewards(1) <= genesis_amount
<1>1. /\ MAX_SUPPLY \in Nat /\ genesis_amount \in Nat
      /\ INITIAL_REWARD <= genesis_amount /\ genesis_amount <= MAX_SUPPLY
  BY GenesisAssumption, RewardFacts
<1>2. /\ SumOfRewards(0) = 0 /\ SumOfRewards(1) = SumOfRewards(0) + block_reward(0)
      /\ block_reward(0) \in Nat
  <2>1. 0 \in Nat /\ 0 + 1 = 1
    OBVIOUS
  <2> QED
    BY <2>1, SumOfRewardsUnfolds, RewardFacts
<1>3. block_reward(0) <= INITIAL_REWARD
  <2>1. halving(0) = 0
    BY RewardFacts DEF halving
  <2>2. Shr(INITIAL_REWARD, 0) = INITIAL_REWARD /\ INITIAL_REWARD \in Nat
    BY RewardFacts DEF Reward
  <2> QED
    BY <2>1, <2>2 DEF block_reward
<1>4. emitted(1) = Lesser(SumOfRewards(1), MAX_SUPPLY)
  BY EmittedIsSum
<1>5. SumOfRewards(1) \in Nat /\ SumOfRewards(1) <= genesis_amount
  BY <1>1, <1>2, <1>3, RewardFacts
<1> QED
  BY <1>1, <1>4, <1>5 DEF Lesser

\* A coinbase that is agreed to pays what was checked: nothing saturated.
LEMMA CoinbasePaysTotal ==
  ASSUME NEW h \in Nat, NEW fees \in Nat, supply \in Nat, MayCreateCoinbase(h, fees)
  PROVE  /\ miner_reward(h, fees) = block_reward(h) + fee(fees).net
         /\ supply + block_reward(h) + fee(fees).net + fee(fees).dev <= MAX_SUPPLY
<1> DEFINE r == block_reward(h)
           n == fee(fees).net
           d == fee(fees).dev
<1>1. r \in Nat /\ n \in Nat /\ d \in Nat /\ MAX_SUPPLY \in Nat
  BY FeeIsTaken, RewardFacts
<1>2. AMOUNT_MAX \in Nat /\ MAX_SUPPLY < AMOUNT_MAX
  BY EconomicsAssumption
<1>3. /\ miner_reward(h, fees) = AddAmounts(r, n)
      /\ AddAmounts(supply, AddAmounts(miner_reward(h, fees), d)) <= MAX_SUPPLY
  BY DEF miner_reward, MayCreateCoinbase, CoinbaseTotal
<1> HIDE DEF r, n, d
<1>4. AddAmounts(miner_reward(h, fees), d) \in Nat /\ miner_reward(h, fees) \in Nat
  BY <1>1, <1>2, <1>3 DEF AddAmounts, Lesser
<1>5. supply + AddAmounts(miner_reward(h, fees), d) <= MAX_SUPPLY
  <2> DEFINE t == AddAmounts(miner_reward(h, fees), d)
  <2>1. t \in Nat /\ AddAmounts(supply, t) <= MAX_SUPPLY
    BY <1>3, <1>4
  <2> HIDE DEF t
  <2>2. supply + t <= MAX_SUPPLY
    BY <1>1, <1>2, <2>1 DEF AddAmounts, Lesser
  <2> QED
    BY <2>2 DEF t
<1>6. AddAmounts(miner_reward(h, fees), d) = miner_reward(h, fees) + d
  BY <1>1, <1>2, <1>4, <1>5 DEF AddAmounts, Lesser
<1>7. miner_reward(h, fees) = r + n
  BY <1>1, <1>2, <1>3, <1>4, <1>5, <1>6 DEF AddAmounts, Lesser
<1> QED
  BY <1>1, <1>4, <1>5, <1>6, <1>7 DEF r, n, d

\* Every step emits what the invariant says.
LEMMA EconomicsNextPreservesInv ==
  ASSUME EconomicsInv, EconomicsNext
  PROVE  EconomicsInv'
<1>1. PICK fees \in FeesOfABlock : Mine(fees)
  BY DEF EconomicsNext
<1> DEFINE h == height
           f == fee(fees).net + fee(fees).dev
           r == block_reward(h)
           z == SumOfRewards(h)
           g == SumOfRewards(1)
           e == emitted(h)
           d == emitted(h + 1)
<1>2. fees \in Nat /\ h \in Nat /\ h + 1 \in Nat /\ h + 1 >= 1 /\ height' = h + 1
  BY <1>1, EconomicsAssumption DEF EconomicsInv, Mine
<1>3. /\ fee(fees).net \in Nat /\ fee(fees).dev \in Nat /\ f \in Nat
      /\ r \in Nat /\ MAX_SUPPLY \in Nat
  <2>1. fee(fees).net \in Nat /\ fee(fees).dev \in Nat
    BY <1>2, FeeIsTaken
  <2>2. r \in Nat /\ MAX_SUPPLY \in Nat
    BY <1>2, RewardFacts
  <2> QED
    BY <2>1, <2>2
<1>4. /\ z \in Nat /\ SumOfRewards(h + 1) = z + r
      /\ e = Lesser(z, MAX_SUPPLY) /\ d = Lesser(SumOfRewards(h + 1), MAX_SUPPLY)
  BY <1>2, SumOfRewardsUnfolds, EmittedIsSum
<1>5. /\ genesis_amount \in Nat /\ g \in Nat /\ g <= genesis_amount /\ emitted(1) = g
  BY GenesisCoversFirstReward
<1>6. supply = genesis_amount + (e - g) + fees_minted /\ fees_minted \in Nat
  BY <1>5 DEF EconomicsInv
<1>7. e \in Nat
  BY <1>3, <1>4 DEF Lesser
<1>8. supply \in Nat
  BY <1>5, <1>6, <1>7
<1>9. /\ supply + r + f <= MAX_SUPPLY /\ supply' = supply + r + f
      /\ fees_minted' = fees_minted + f
  <2>1. MayCreateCoinbase(h, fees)
    BY <1>1 DEF Mine
  <2>2. /\ miner_reward(h, fees) = r + fee(fees).net
        /\ supply + r + fee(fees).net + fee(fees).dev <= MAX_SUPPLY
    BY <1>2, <1>8, <2>1, CoinbasePaysTotal
  <2>3. /\ supply' = supply + miner_reward(h, fees) + fee(fees).dev
        /\ fees_minted' = fees_minted + fee(fees).net + fee(fees).dev
    BY <1>1 DEF Mine
  <2> HIDE DEF r
  <2> QED
    BY <1>3, <1>6, <1>8, <2>2, <2>3
<1> HIDE DEF f, r, z, e, d, g
<1>10. d = e + r
  <2>1. e + r <= MAX_SUPPLY
    BY <1>3, <1>5, <1>6, <1>7, <1>8, <1>9
  <2> QED
    BY <1>3, <1>4, <1>7, <2>1 DEF Lesser
<1>11. /\ supply' = genesis_amount + (d - g) + fees_minted'
       /\ supply' <= MAX_SUPPLY /\ fees_minted' \in Nat
  BY <1>3, <1>5, <1>6, <1>7, <1>8, <1>9, <1>10
<1>12. emitted(height)' = d /\ emitted(1)' = g
  <2>1. emitted(height)' = emitted(height') /\ emitted(1)' = emitted(1)
    BY DEF emitted, block_reward, halving, Lesser
  <2> QED
    BY <1>2, <1>5, <2>1 DEF d
<1> QED
  BY <1>2, <1>11, <1>12 DEF EconomicsInv

\* The invariant says of the supply what EmissionIsExact does.
LEMMA EconomicsInvImpliesExact ==
  ASSUME EconomicsInv
  PROVE  EmissionIsExact
<1>1. \A h \in 0..MaxHeight : emitted(h) = Lesser(SumOfRewards(h), MAX_SUPPLY)
  BY EmittedIsSum, RewardFacts
<1> QED
  BY <1>1 DEF EconomicsInv, EmissionIsExact
-----------------------------------------------------------------------------
(********************************* Escrow **********************************)

\* Lists of payees with what each gets or holds, and the sum over a list of what
\* val says an entry counts.
Payees == Miners \cup {customer}
Ledgers == Seq(Payees \X Nat)
Counts == [Payees \X Nat -> Nat]
Counted(s, val) == [i \in 1..Len(s) |-> val[s[i]]]
SumBy(s, val) == Weight(1..Len(s), Counted(s, val))

\* Every entry counts what it is worth, or only those of k do.
InFull == [p \in Payees \X Nat |-> p[2]]
OnlyOf(k) == [p \in Payees \X Nat |-> IF p[1] = k THEN p[2] ELSE 0]

\* The entries of a list count naturals.
LEMMA CountedType ==
  ASSUME NEW s \in Ledgers, NEW val \in Counts
  PROVE  /\ Len(s) \in Nat
         /\ IsFiniteSet(1..Len(s))
         /\ \A i \in 1..Len(s) : s[i] \in Payees \X Nat
         /\ \A i \in 1..Len(s) : Counted(s, val)[i] = val[s[i]] /\ val[s[i]] \in Nat
         /\ SumBy(s, val) \in Nat
<1>1. Len(s) \in Nat /\ \A i \in 1..Len(s) : s[i] \in Payees \X Nat
  BY LenProperties, ElementOfSeq DEF Ledgers
<1>2. \A i \in 1..Len(s) : Counted(s, val)[i] = val[s[i]] /\ val[s[i]] \in Nat
  BY <1>1 DEF Counts, Counted
<1>3. IsFiniteSet(1..Len(s))
  BY <1>1, FS_Interval
<1>4. SumBy(s, val) \in Nat
  BY <1>2, <1>3, WeightType DEF SumBy
<1> QED
  BY <1>1, <1>2, <1>3, <1>4

\* Total and PaidTo are such sums.
LEMMA SumsOfALedger ==
  ASSUME NEW s \in Ledgers, NEW k
  PROVE  /\ InFull \in Counts /\ OnlyOf(k) \in Counts
         /\ Total(s) = SumBy(s, InFull)
         /\ PaidTo(k, s) = SumBy(s, OnlyOf(k))
<1>1. InFull \in Counts /\ OnlyOf(k) \in Counts
  BY DEF InFull, OnlyOf, Counts
<1>2. Len(s) \in Nat /\ \A i \in 1..Len(s) : s[i] \in Payees \X Nat
  BY <1>1, CountedType
<1>3. Counted(s, InFull) = [i \in 1..Len(s) |-> s[i][2]]
  BY <1>2 DEF Counted, InFull
<1>4. Counted(s, OnlyOf(k)) = [i \in 1..Len(s) |-> IF s[i][1] = k THEN s[i][2] ELSE 0]
  BY <1>2 DEF Counted, OnlyOf
<1>5. \A val \in Counts : SumTo(Counted(s, val), Len(s)) = SumBy(s, val)
  <2> SUFFICES ASSUME NEW val \in Counts
               PROVE  SumTo(Counted(s, val), Len(s)) = SumBy(s, val)
    OBVIOUS
  <2>1. \A i \in 1..Len(s) : Counted(s, val)[i] \in Nat
    BY CountedType
  <2> QED
    BY <1>2, <2>1, SumIsWeight DEF SumBy
<1> QED
  BY <1>1, <1>3, <1>4, <1>5 DEF Total, PaidTo

\* One entry more.
LEMMA SumOfAppend ==
  ASSUME NEW s \in Ledgers, NEW val \in Counts, NEW p \in Payees \X Nat
  PROVE  /\ Append(s, p) \in Ledgers
         /\ SumBy(Append(s, p), val) = SumBy(s, val) + val[p]
<1> DEFINE t == Append(s, p)
           n == Len(s)
           w == Counted(t, val)
<1>1. t \in Ledgers /\ Len(t) = n + 1 /\ n \in Nat
      /\ (\A i \in 1..n : t[i] = s[i]) /\ t[n + 1] = p
  BY AppendProperties, LenProperties DEF Ledgers
<1> HIDE DEF t, n
<1>2. \A i \in 1..(n + 1) : w[i] = val[t[i]] /\ val[t[i]] \in Nat
  BY <1>1, CountedType
<1>3. \A i \in 1..n : Counted(s, val)[i] = w[i]
  BY <1>1, <1>2, CountedType, SMTT(30) DEF n
<1>4. w[n + 1] = val[p]
  BY <1>1, <1>2
<1> HIDE DEF w
<1>5. 1..(n + 1) = (1..n) \cup {n + 1} /\ n + 1 \notin 1..n /\ IsFiniteSet(1..n)
  <2>1. IsFiniteSet(1..n)
    BY <1>1, FS_Interval
  <2>2. 1..(n + 1) = (1..n) \cup {n + 1} /\ n + 1 \notin 1..n
    BY <1>1
  <2> QED
    BY <2>1, <2>2
<1>6. \A x \in (1..n) \cup {n + 1} : w[x] \in Nat
  BY <1>2, <1>5
<1>7. Weight((1..n) \cup {n + 1}, w) = Weight(1..n, w) + w[n + 1]
  BY <1>5, <1>6, WeightGain, ZenonT(60)
<1>8. Weight(1..n, w) = SumBy(s, val)
  BY <1>3, WeightAgrees DEF SumBy, n
<1>9. SumBy(t, val) = Weight((1..n) \cup {n + 1}, w)
  BY <1>1, <1>5 DEF SumBy, w
<1> QED
  BY <1>1, <1>4, <1>7, <1>8, <1>9 DEF t

\* Another entry at position i.
LEMMA SumOfReplace ==
  ASSUME NEW s \in Ledgers, NEW val \in Counts, NEW p \in Payees \X Nat, NEW i \in 1..Len(s)
  PROVE  LET t == [j \in 1..Len(s) |-> IF j = i THEN p ELSE s[j]]
         IN  /\ t \in Ledgers
             /\ SumBy(t, val) = SumBy(s, val) - val[s[i]] + val[p]
<1> DEFINE D == 1..Len(s)
           t == [j \in 1..Len(s) |-> IF j = i THEN p ELSE s[j]]
           v == Counted(s, val)
           w == Counted(t, val)
<1>1. Len(s) \in Nat /\ IsFiniteSet(D) /\ \A j \in D : s[j] \in Payees \X Nat
  BY CountedType
<1>2. t \in [1..Len(s) -> Payees \X Nat]
  BY <1>1
<1>3. t \in Ledgers /\ Len(t) = Len(s)
  <2> HIDE DEF t
  <2>1. t \in Seq(Payees \X Nat)
    BY <1>1, <1>2, SeqDef
  <2>2. Len(t) = Len(s)
    BY <1>1, <1>2, LenProperties
  <2> QED
    BY <2>1, <2>2 DEF Ledgers
<1>4. \A j \in D : v[j] = val[s[j]] /\ v[j] \in Nat
  BY CountedType
<1>5. \A j \in D : w[j] = val[t[j]] /\ w[j] \in Nat
  <2> HIDE DEF t
  <2> QED
    BY <1>3, CountedType
<1>6. (\A j \in D \ {i} : v[j] = w[j]) /\ w[i] = val[p] /\ v[i] = val[s[i]] /\ i \in D
  <2> HIDE DEF v, w
  <2> QED
    BY <1>4, <1>5
<1>7. \A j \in D : v[j] \in Nat /\ w[j] \in Nat
  BY <1>4, <1>5
<1>8. SumBy(s, val) = Weight(D, v) /\ SumBy(t, val) = Weight(D, w)
  BY <1>3 DEF SumBy
<1> HIDE DEF D, t, v, w
<1>9. /\ Weight(D, v) \in Nat /\ v[i] <= Weight(D, v)
      /\ Weight(D, w) = Weight(D, v) - v[i] + w[i]
  <2>1. IsFiniteSet(D)
    BY <1>1
  <2>2. (\A j \in D \ {i} : v[j] = w[j]) /\ i \in D
    BY <1>6
  <2>3. ASSUME NEW y \in D, \A j \in D \ {y} : v[j] = w[j]
        PROVE  /\ Weight(D, v) \in Nat /\ v[y] <= Weight(D, v)
               /\ Weight(D, w) = Weight(D, v) - v[y] + w[y]
    BY <1>7, <2>1, <2>3, WeightChange, SMTT(30)
  <2> QED
    BY <2>2, <2>3
<1> QED
  BY <1>3, <1>6, <1>8, <1>9 DEF t

\* Entries that count nothing may be left out.
LEMMA SumOfRetained ==
  ASSUME NEW s \in Ledgers, NEW val \in Counts, NEW K \in SUBSET (1..Len(s)),
         \A i \in (1..Len(s)) \ K : val[s[i]] = 0
  PROVE  /\ RetainAt(s, K) \in Ledgers
         /\ SumBy(RetainAt(s, K), val) = SumBy(s, val)
<1> DEFINE r == RetainAt(s, K)
           v == Counted(r, val)
           w == Counted(s, val)
<1>1. r \in Ledgers
  BY RetainAtProperties DEF Ledgers
<1>2. Len(s) \in Nat /\ Len(r) \in Nat
      /\ \A i \in 1..Len(s) : w[i] = val[s[i]] /\ w[i] \in Nat
  BY <1>1, CountedType
<1>3. \A j \in 1..Len(r) : v[j] = val[r[j]] /\ v[j] \in Nat
  <2> HIDE DEF r
  <2> QED
    BY <1>1, CountedType
<1>4. \A i \in (1..Len(s)) \ K : w[i] = 0
  BY <1>2
<1>5. \A j \in 1..Len(r), i \in K : r[j] = s[i] => v[j] = w[i]
  <2> HIDE DEF r, v, w
  <2> QED
    BY <1>2, <1>3
<1>6. SumBy(r, val) = Weight(1..Len(r), v) /\ SumBy(s, val) = Weight(1..Len(s), w)
  BY DEF SumBy
<1> HIDE DEF v, w
<1>7. Weight(1..Len(r), v) = Weight(1..Len(s), w)
  <2>1. Len(s) \in Nat
    BY <1>2
  <2>2. /\ \A i \in 1..Len(s) : w[i] \in Nat
        /\ \A i \in (1..Len(s)) \ K : w[i] = 0
        /\ \A j \in 1..Len(RetainAt(s, K)) : v[j] \in Nat
        /\ \A j \in 1..Len(RetainAt(s, K)), i \in K :
               RetainAt(s, K)[j] = s[i] => v[j] = w[i]
    BY <1>2, <1>3, <1>4, <1>5
  <2> QED
    BY <2>1, <2>2, RetainAtWeight
<1> QED
  BY <1>1, <1>6, <1>7

\* Find returns the position of the key, or 0 if there is none.
LEMMA FindFacts ==
  ASSUME NEW s, Len(s) \in Nat, NEW k
  PROVE  /\ Find(s, k) \in 0..Len(s)
         /\ Find(s, k) = 0 => \A i \in 1..Len(s) : s[i][1] # k
         /\ Find(s, k) # 0 => s[Find(s, k)][1] = k
<1> DEFINE at == {i \in 1..Len(s) : s[i][1] = k}
<1>1. CASE at = {}
  BY <1>1 DEF Find
<1>2. CASE at # {}
  <2>1. at \in SUBSET Nat
    OBVIOUS
  <2> HIDE DEF at
  <2>2. \E i \in at : \A j \in at : i <= j
    BY <1>2, <2>1, SmallestElement
  <2>3. (CHOOSE i \in at : \A j \in at : i <= j) \in at
    BY <2>2
  <2>4. Find(s, k) = CHOOSE i \in at : \A j \in at : i <= j
    BY <1>2 DEF Find, at
  <2>5. Find(s, k) \in 1..Len(s) /\ s[Find(s, k)][1] = k
    BY <2>3, <2>4 DEF at
  <2> QED
    BY <2>5
<1> QED
  BY <1>1, <1>2

\* Where nothing wraps, AddTo adds to the sum what it adds to the entry.
LEMMA AddToSums ==
  ASSUME NEW s \in Ledgers, NEW k \in Payees, NEW n \in Nat, NEW q,
         \A i \in 1..Len(s) : s[i][2] + n < U64
  PROVE  /\ AddTo(s, k, n) \in Ledgers
         /\ Total(AddTo(s, k, n)) = Total(s) + n
         /\ PaidTo(q, AddTo(s, k, n)) = PaidTo(q, s) + (IF k = q THEN n ELSE 0)
<1> DEFINE t == AddTo(s, k, n)
           i == Find(s, k)
           p == <<k, n>>
<1>1. Len(s) \in Nat /\ \A j \in 1..Len(s) : s[j] \in Payees \X Nat
  BY SumsOfALedger, CountedType
<1>2. /\ i \in 0..Len(s)
      /\ i # 0 => s[i][1] = k
  BY <1>1, FindFacts
<1>3. InFull \in Counts /\ OnlyOf(q) \in Counts
  BY SumsOfALedger
<1>4. CASE i = 0
  <2>1. t = Append(s, p)
    BY <1>4 DEF AddTo
  <2>2. p \in Payees \X Nat
    OBVIOUS
  <2> HIDE DEF t, p
  <2>3. /\ t \in Ledgers
        /\ SumBy(t, InFull) = SumBy(s, InFull) + InFull[p]
        /\ SumBy(t, OnlyOf(q)) = SumBy(s, OnlyOf(q)) + OnlyOf(q)[p]
    BY <1>3, <2>1, <2>2, SumOfAppend
  <2>4. InFull[p] = n /\ OnlyOf(q)[p] = IF k = q THEN n ELSE 0
    BY <2>2 DEF InFull, OnlyOf, p
  <2>5. /\ Total(t) = SumBy(t, InFull) /\ Total(s) = SumBy(s, InFull)
        /\ PaidTo(q, t) = SumBy(t, OnlyOf(q)) /\ PaidTo(q, s) = SumBy(s, OnlyOf(q))
    BY <2>3, SumsOfALedger
  <2> QED
    BY <2>3, <2>4, <2>5 DEF t
<1>5. CASE i # 0
  <2> DEFINE o == <<k, s[i][2] + n>>
  <2>1. i \in 1..Len(s) /\ s[i] \in Payees \X Nat /\ s[i][2] \in Nat /\ s[i][1] = k
    BY <1>1, <1>2, <1>5
  <2>2. Wrapped(s[i][2] + n) = s[i][2] + n
    BY <2>1, EscrowAssumption, ModOfSmall DEF Wrapped
  <2>3. o \in Payees \X Nat
    BY <2>1
  <2>4. t = [j \in 1..Len(s) |-> IF j = i THEN o ELSE s[j]]
    BY <1>5, <2>2 DEF AddTo
  <2> HIDE DEF i, t, o
  <2>5. /\ t \in Ledgers
        /\ SumBy(t, InFull) = SumBy(s, InFull) - InFull[s[i]] + InFull[o]
        /\ SumBy(t, OnlyOf(q)) = SumBy(s, OnlyOf(q)) - OnlyOf(q)[s[i]] + OnlyOf(q)[o]
    BY <1>3, <2>1, <2>3, <2>4, SumOfReplace
  <2>6. InFull[o] = InFull[s[i]] + n /\ InFull[s[i]] \in Nat
    BY <2>1, <2>3 DEF InFull, o
  <2>7. OnlyOf(q)[o] = OnlyOf(q)[s[i]] + (IF k = q THEN n ELSE 0) /\ OnlyOf(q)[s[i]] \in Nat
    BY <2>1, <2>3 DEF OnlyOf, o
  <2>8. SumBy(s, InFull) \in Nat /\ SumBy(s, OnlyOf(q)) \in Nat
    BY <1>3, CountedType
  <2>9. /\ Total(t) = SumBy(t, InFull) /\ Total(s) = SumBy(s, InFull)
        /\ PaidTo(q, t) = SumBy(t, OnlyOf(q)) /\ PaidTo(q, s) = SumBy(s, OnlyOf(q))
    BY <2>5, SumsOfALedger
  <2>10. Total(t) = Total(s) + n
    BY <2>5, <2>6, <2>8, <2>9
  <2>11. PaidTo(q, t) = PaidTo(q, s) + (IF k = q THEN n ELSE 0)
    BY <2>5, <2>7, <2>8, <2>9
  <2> QED
    BY <2>5, <2>10, <2>11 DEF t
<1> QED
  BY <1>4, <1>5

\* A percentage of an amount, in 1/10000, is at most the amount.
LEMMA Percentage ==
  ASSUME NEW a \in Nat, NEW x \in Nat, x <= 10000 * a
  PROVE  Wrapped(x) \div 10000 \in Nat /\ Wrapped(x) \div 10000 <= a
<1> DEFINE y == Wrapped(x)
           z == y \div 10000
<1>2. y \in Nat /\ y <= x
  <2>1. U64 \in Nat \ {0}
    BY EscrowAssumption
  <2>2. x \div U64 \in Int /\ x % U64 \in Nat /\ x = U64 * (x \div U64) + (x % U64)
    BY <2>1, DivMod
  <2>3. x \div U64 >= 0
    BY <2>1
  <2>4. U64 * (x \div U64) >= 0
    BY <2>1, <2>2, <2>3
  <2>5. x % U64 <= x
    <3> DEFINE r == x % U64
               b == U64 * (x \div U64)
    <3>1. r \in Nat /\ b >= 0 /\ x = b + r /\ b \in Int
      BY <2>1, <2>2, <2>4
    <3> HIDE DEF r, b
    <3>2. r <= x
      BY <3>1
    <3> QED
      BY <3>2 DEF r
  <2> QED
    BY <2>2, <2>5 DEF Wrapped
<1> HIDE DEF y
<1>3. z \in Nat /\ 10000 * z <= y
  BY <1>2
<1> HIDE DEF z
<1>4. z <= a
  BY <1>2, <1>3
<1> QED
  BY <1>3, <1>4 DEF z, y

\* An entry is worth at most the total.
LEMMA EntryBound ==
  ASSUME NEW s \in Ledgers
  PROVE  Total(s) \in Nat /\ \A i \in 1..Len(s) : s[i][2] \in Nat /\ s[i][2] <= Total(s)
<1> DEFINE D == 1..Len(s)
           v == Counted(s, InFull)
<1>1. /\ IsFiniteSet(D)
      /\ \A i \in D : s[i] \in Payees \X Nat
      /\ \A i \in D : v[i] = InFull[s[i]] /\ v[i] \in Nat
      /\ Total(s) \in Nat /\ Total(s) = Weight(D, v)
  BY SumsOfALedger, CountedType DEF SumBy
<1>2. \A i \in D : v[i] = s[i][2]
  BY <1>1 DEF InFull
<1> HIDE DEF D, v
<1>3. \A y \in D : v[y] <= Weight(D, v)
  BY <1>1, WeightChange
<1> QED
  BY <1>1, <1>2, <1>3 DEF D

\* The entry of each key, in a list with one entry per key, is all it is paid.
DistinctKeys(s) == \A i, j \in 1..Len(s) : s[i][1] = s[j][1] => i = j
LEMMA PaidOnce ==
  ASSUME NEW s \in Ledgers, DistinctKeys(s), NEW k
  PROVE  PaidTo(k, s) = IF Find(s, k) = 0 THEN 0 ELSE s[Find(s, k)][2]
<1> DEFINE D == 1..Len(s)
           v == Counted(s, OnlyOf(k))
           y == Find(s, k)
<1>1. /\ Len(s) \in Nat /\ IsFiniteSet(D)
      /\ \A i \in D : s[i] \in Payees \X Nat
      /\ \A i \in D : v[i] = OnlyOf(k)[s[i]] /\ v[i] \in Nat
      /\ PaidTo(k, s) = Weight(D, v)
  BY SumsOfALedger, CountedType DEF SumBy
<1>2. \A i \in D : v[i] = IF s[i][1] = k THEN s[i][2] ELSE 0
  BY <1>1 DEF OnlyOf
<1>3. /\ y \in 0..Len(s)
      /\ y = 0 => \A i \in 1..Len(s) : s[i][1] # k
      /\ y # 0 => s[y][1] = k
  BY <1>1, FindFacts
<1> HIDE DEF v, y
<1>4. CASE y = 0
  <2>1. \A i \in D : v[i] = 0
    BY <1>2, <1>3, <1>4
  <2> HIDE DEF D
  <2> QED
    BY <1>1, <1>4, <2>1, WeightOfNothing DEF y
<1>5. CASE y # 0
  <2>1. y \in D /\ v[y] = s[y][2]
    BY <1>2, <1>3, <1>5
  <2>2. \A i \in D \ {y} : v[i] = 0
    BY <1>2, <1>3, <1>5 DEF DistinctKeys
  <2>3. \A i \in D : v[i] \in Nat
    BY <1>1
  <2> HIDE DEF D
  <2>4. Weight(D, v) = Weight(D \ {y}, v) + Weight({y}, v)
    BY <1>1, <2>1, <2>3, WeightDifference
  <2>5. Weight(D \ {y}, v) = 0
    BY <2>2, WeightOfNothing
  <2>6. Weight({y}, v) = v[y] /\ v[y] \in Nat
    BY <2>1, <2>3, WeightSingleton
  <2> QED
    BY <1>1, <1>5, <2>1, <2>4, <2>5, <2>6 DEF y
<1> QED
  BY <1>4, <1>5

\* The share of an amount, rounded down, loses less than a unit.
LEMMA RoundedPart ==
  ASSUME NEW x \in Nat, NEW T \in Nat \ {0}
  PROVE  x \div T \in Nat /\ T * (x \div T) <= x /\ x <= T * (x \div T) + (T - 1)
<1>1. x \div T \in Int /\ x % T \in Nat /\ x % T < T /\ x = T * (x \div T) + (x % T)
  BY DivMod
<1>2. x \div T >= 0
  OBVIOUS
<1> DEFINE q == x \div T
           r == x % T
           b == T * q
<1>3. b \in Int /\ q \in Int
  BY <1>1
<1> HIDE DEF q, r, b
<1>4. r \in Nat /\ r < T /\ x = b + r
  BY <1>1 DEF q, r, b
<1>5. b <= x /\ x <= b + (T - 1)
  BY <1>3, <1>4
<1> QED
  BY <1>1, <1>2, <1>5 DEF b, q

\* Parts in proportion to shares, each rounded down, add up to the whole less
\* than a unit for all but one of them.
LEMMA PartsSum ==
  ASSUME NEW n \in Nat, NEW S, \A i \in 1..n : S[i] \in Nat,
         NEW whole \in Nat, NEW T \in Nat \ {0}, T = SumTo(S, n),
         NEW P, \A i \in 1..n : P[i] = (whole * S[i]) \div T
  PROVE  /\ SumTo(P, n) \in Nat /\ SumTo(P, n) <= whole
         /\ whole - SumTo(P, n) <= n - 1
<1> DEFINE A(k) == SumTo(S, k)
           B(k) == SumTo(P, k)
           Ok(k) == /\ A(k) \in Nat /\ B(k) \in Nat
                    /\ T * B(k) <= whole * A(k)
                    /\ whole * A(k) <= T * B(k) + k * (T - 1)
           Good == {k \in Nat : k <= n => Ok(k)}
<1>1. \A i \in 1..n : /\ whole * S[i] \in Nat /\ P[i] \in Nat
                      /\ T * P[i] <= whole * S[i]
                      /\ whole * S[i] <= T * P[i] + (T - 1)
  <2> SUFFICES ASSUME NEW i \in 1..n
               PROVE  /\ whole * S[i] \in Nat /\ P[i] \in Nat
                      /\ T * P[i] <= whole * S[i]
                      /\ whole * S[i] <= T * P[i] + (T - 1)
    OBVIOUS
  <2> DEFINE x == whole * S[i]
  <2>1. x \in Nat /\ P[i] = x \div T
    OBVIOUS
  <2> HIDE DEF x
  <2>2. x \div T \in Nat /\ T * (x \div T) <= x /\ x <= T * (x \div T) + (T - 1)
    BY <2>1, RoundedPart
  <2> QED
    BY <2>1, <2>2 DEF x
<1>2. 0 \in Good
  <2>1. A(0) = 0 /\ B(0) = 0
    BY SumUnfolds
  <2> HIDE DEF A, B
  <2> QED
    BY <2>1
<1>3. ASSUME NEW k \in Nat, k <= n => Ok(k), k + 1 <= n
      PROVE  Ok(k + 1)
  <2>1. k + 1 \in 1..n /\ k <= n
    BY <1>3
  <2> DEFINE s == S[k + 1]
             p == P[k + 1]
             a == A(k)
             b == B(k)
  <2>2. s \in Nat /\ p \in Nat /\ T * p <= whole * s /\ whole * s <= T * p + (T - 1)
    BY <1>1, <2>1
  <2>3. A(k + 1) = a + s
    <3>1. \A i \in 1..(k + 1) : S[i] \in Int
      BY <2>1
    <3>2. (k + 1) - 1 = k /\ k + 1 \in Nat /\ k + 1 > 0
      OBVIOUS
    <3> QED
      BY <3>1, <3>2, SumUnfolds
  <2>4. B(k + 1) = b + p
    <3>1. \A i \in 1..(k + 1) : P[i] \in Int
      BY <1>1, <2>1
    <3>2. (k + 1) - 1 = k /\ k + 1 \in Nat /\ k + 1 > 0
      OBVIOUS
    <3> QED
      BY <3>1, <3>2, SumUnfolds
  <2>5. /\ a \in Nat /\ b \in Nat /\ T * b <= whole * a
        /\ whole * a <= T * b + k * (T - 1)
    BY <1>3, <2>1
  <2> HIDE DEF A, B, a, b, s, p
  <2>6. /\ whole * (a + s) = whole * a + whole * s
        /\ T * (b + p) = T * b + T * p
        /\ (k + 1) * (T - 1) = k * (T - 1) + (T - 1)
    BY <2>2, <2>5
  <2>7. /\ T * (b + p) <= whole * (a + s)
        /\ whole * (a + s) <= T * (b + p) + (k + 1) * (T - 1)
    <3> DEFINE ws == whole * s
               wa == whole * a
               tb == T * b
               tp == T * p
               kt == k * (T - 1)
    <3>1. ws \in Int /\ wa \in Int /\ tb \in Int /\ tp \in Int /\ kt \in Int
      BY <2>2, <2>5
    <3>2. tp <= ws /\ ws <= tp + (T - 1) /\ tb <= wa /\ wa <= tb + kt
      BY <2>2, <2>5
    <3> HIDE DEF ws, wa, tb, tp, kt
    <3>3. tb + tp <= wa + ws /\ wa + ws <= tb + tp + (kt + (T - 1))
      BY <3>1, <3>2
    <3> QED
      BY <2>6, <3>3 DEF ws, wa, tb, tp, kt
  <2> QED
    BY <2>2, <2>3, <2>4, <2>5, <2>7
<1>4. Ok(n)
  <2> HIDE DEF Ok
  <2>1. 0 \in Good /\ \A k \in Nat : k \in Good => k + 1 \in Good
    BY <1>2, <1>3
  <2> HIDE DEF Good
  <2>2. Nat \subseteq Good
    BY <2>1, SetInduction
  <2>3. n \in Good
    BY <2>2
  <2> QED
    BY <2>3 DEF Good
<1> DEFINE b == B(n)
<1>5. b \in Nat /\ T * b <= whole * T /\ whole * T <= T * b + n * (T - 1) /\ A(n) = T
  BY <1>4
<1> HIDE DEF A, B, b
<1>6. b <= whole
  <2> SUFFICES ASSUME b > whole PROVE FALSE
    BY <1>5
  <2>1. T * b >= T * (whole + 1)
    <3>1. whole + 1 <= b /\ whole + 1 \in Int /\ b \in Int
      BY <1>5
    <3>2. \A c, d \in Int : c <= d => T * c <= T * d
      BY TimesMonotone
    <3> QED
      BY <3>1, <3>2
  <2> QED
    BY <1>5, <2>1
<1>7. n > 0
  <2>1. n = 0 => SumTo(S, n) = 0
    BY SumUnfolds
  <2> QED
    BY <2>1
<1>8. whole - b <= n - 1
  <2> SUFFICES ASSUME whole - b >= n PROVE FALSE
    BY <1>5, <1>7
  <2>1. T * (whole - b) <= n * (T - 1)
    BY <1>5
  <2>2. T * n <= T * (whole - b)
    <3>1. n <= whole - b /\ n \in Int /\ whole - b \in Int
      BY <1>5
    <3>2. \A c, d \in Int : c <= d => T * c <= T * d
      BY TimesMonotone
    <3> QED
      BY <3>1, <3>2
  <2>3. T * n = n * (T - 1) + n
    OBVIOUS
  <2> QED
    BY <1>5, <1>7, <2>1, <2>2, <2>3
<1> QED
  BY <1>5, <1>6, <1>8 DEF b, B

\* What the calls keep: amounts are u64s, and no miner has two entries.
EscrowInv ==
  /\ contract \in [total_reward : 0..(U64 - 1), status : {"Funded", "Completed", "Refunded"},
                   miner_shares : Seq(Miners \X (0..(U64 - 1))), winner : Miners \cup {NoOne}]
  /\ DistinctKeys(contract.miner_shares)

\* A new contract has no shares.
LEMMA EscrowInitEstablishesInv ==
  ASSUME EscrowInit
  PROVE  EscrowInv
<1>1. <<>> \in Seq(Miners \X (0..(U64 - 1))) /\ Len(<<>>) = 0
  BY EmptySeq
<1>2. DistinctKeys(<<>>)
  BY <1>1 DEF DistinctKeys
<1>3. PICK r \in TotalRewards :
        contract = [total_reward |-> r, status |-> "Funded", miner_shares |-> <<>>,
                    winner |-> NoOne]
  BY DEF EscrowInit
<1>4. r \in 0..(U64 - 1)
  BY EscrowAssumption
<1> QED
  BY <1>1, <1>2, <1>3, <1>4 DEF EscrowInv

\* AddTo adds to the one entry of its key, or gives it one.
LEMMA AddToKeys ==
  ASSUME NEW V, NEW s \in Seq(Miners \X V), DistinctKeys(s), NEW k \in Miners, NEW n \in V,
         \A x \in V : Wrapped(x + n) \in V
  PROVE  AddTo(s, k, n) \in Seq(Miners \X V) /\ DistinctKeys(AddTo(s, k, n))
<1> DEFINE t == AddTo(s, k, n)
           i == Find(s, k)
<1>1. Len(s) \in Nat /\ \A j \in 1..Len(s) : s[j] \in Miners \X V
  BY LenProperties, ElementOfSeq
<1>2. /\ i \in 0..Len(s)
      /\ i = 0 => \A j \in 1..Len(s) : s[j][1] # k
      /\ i # 0 => s[i][1] = k
  BY <1>1, FindFacts
<1>3. CASE i = 0
  <2> DEFINE p == <<k, n>>
  <2>1. t = Append(s, p) /\ p \in Miners \X V /\ p[1] = k
    BY <1>3 DEF AddTo
  <2> HIDE DEF t, p, i
  <2>2. /\ t \in Seq(Miners \X V) /\ Len(t) = Len(s) + 1
        /\ \A j \in 1..Len(s) : t[j] = s[j]
        /\ t[Len(s) + 1] = p
    BY <2>1, AppendProperties
  <2>3. DistinctKeys(t)
    BY <1>1, <1>2, <1>3, <2>1, <2>2 DEF DistinctKeys
  <2> QED
    BY <2>2, <2>3 DEF t
<1>4. CASE i # 0
  <2> DEFINE p == <<k, Wrapped(s[i][2] + n)>>
  <2>1. i \in 1..Len(s) /\ s[i][1] = k /\ s[i][2] \in V
    BY <1>1, <1>2, <1>4
  <2>2. p \in Miners \X V /\ p[1] = k
    BY <2>1
  <2>3. t = [j \in 1..Len(s) |-> IF j = i THEN p ELSE s[j]]
    BY <1>4 DEF AddTo
  <2> HIDE DEF t, p, i
  <2>4. t \in [1..Len(s) -> Miners \X V]
    BY <1>1, <2>2, <2>3
  <2>5. t \in Seq(Miners \X V) /\ Len(t) = Len(s)
    BY <1>1, <2>4, SeqDef, LenProperties
  <2>6. \A j \in 1..Len(s) : t[j][1] = s[j][1]
    BY <2>1, <2>2, <2>3
  <2>7. DistinctKeys(t)
    BY <2>5, <2>6 DEF DistinctKeys
  <2> QED
    BY <2>5, <2>7 DEF t
<1> QED
  BY <1>3, <1>4

\* Every step of a contract keeps its invariant.
LEMMA EscrowNextPreservesInv ==
  ASSUME EscrowInv, EscrowNext
  PROVE  EscrowInv'
<1> DEFINE V == 0..(U64 - 1)
           shares == contract.miner_shares
<1>1. ASSUME NEW m \in Miners, NEW n \in Shares, add_share(m, n)
      PROVE  EscrowInv'
  <2>1. n \in V /\ \A x \in V : Wrapped(x + n) \in V
    <3>1. U64 \in Nat \ {0} /\ n \in V
      BY EscrowAssumption
    <3>2. \A x \in V : x + n \in Int
      BY <3>1
    <3>3. \A y \in Int : y % U64 \in V
      BY <3>1, DivMod
    <3> QED
      BY <3>1, <3>2, <3>3 DEF Wrapped
  <2>2. shares \in Seq(Miners \X V) /\ DistinctKeys(shares)
    BY DEF EscrowInv
  <2>3. contract' = [contract EXCEPT !.miner_shares = AddTo(shares, m, n)]
    BY <1>1 DEF add_share
  <2> HIDE DEF V, shares
  <2>4. AddTo(shares, m, n) \in Seq(Miners \X V) /\ DistinctKeys(AddTo(shares, m, n))
    BY <2>1, <2>2, AddToKeys
  <2> QED
    BY <2>3, <2>4 DEF EscrowInv, V
<1>2. ASSUME NEW w \in Miners, set_winner(w)
      PROVE  EscrowInv'
  BY <1>2 DEF EscrowInv, set_winner
<1>3. ASSUME refund
      PROVE  EscrowInv'
  BY <1>3 DEF EscrowInv, refund
<1> QED
  BY <1>1, <1>2, <1>3 DEF EscrowNext

\* The amounts that the reward is first divided into.
LEMMA Division ==
  ASSUME EscrowInv
  PROVE  /\ remaining \in Nat /\ remaining < U64
         /\ winner_bonus \in Nat /\ base \in Nat /\ remaining = base + winner_bonus
         /\ contract.winner = NoOne => winner_bonus = 0
<1>1. contract.total_reward \in Nat /\ contract.total_reward < U64 /\ U64 \in Nat
  BY EscrowAssumption DEF EscrowInv
<1>2. \A a \in Nat, percent \in 0..10000 : a * percent \in Nat /\ a * percent <= 10000 * a
  BY SMTT(30)
<1>3. pool_fee \in Nat /\ pool_fee <= contract.total_reward
  <2> DEFINE a == contract.total_reward
             x == a * pool_fee_percent
  <2>1. pool_fee = Wrapped(x) \div 10000 /\ a \in Nat
    BY <1>1 DEF pool_fee
  <2> HIDE DEF a
  <2>2. x \in Nat /\ x <= 10000 * a
    <3>1. pool_fee_percent \in 0..10000
      BY EscrowAssumption
    <3>2. a \in Nat
      BY <2>1
    <3> QED
      BY <1>2, <3>1, <3>2
  <2> HIDE DEF x
  <2>3. pool_fee \in Nat /\ pool_fee <= a
    BY <2>1, <2>2, Percentage
  <2> QED
    BY <2>3 DEF a
<1>4. remaining \in Nat /\ remaining < U64
  BY <1>1, <1>3 DEF remaining
<1>5. winner_bonus \in Nat /\ winner_bonus <= remaining
  <2> DEFINE x == remaining * winner_bonus_percent
  <2>1. x \in Nat /\ x <= 10000 * remaining
    <3>1. winner_bonus_percent \in 0..10000
      BY EscrowAssumption
    <3> QED
      BY <1>2, <1>4, <3>1, SMTT(30)
  <2>2. winner_bonus = 0 \/ winner_bonus = Wrapped(x) \div 10000
    BY DEF winner_bonus
  <2> HIDE DEF x
  <2> QED
    BY <1>4, <2>1, <2>2, Percentage, SMTT(30)
<1> QED
  BY <1>4, <1>5 DEF base, winner_bonus

\* Each miner's part of the base before rounding leaves anything out.
Parts ==
  [i \in 1..Len(contract.miner_shares) |->
     <<contract.miner_shares[i][1],
       Wrapped(base * contract.miner_shares[i][2]) \div total_shares>>]

\* The parts add up to the base but for rounding, and each miner has its own.
LEMMA PartsAreExact ==
  ASSUME EscrowInv, total_shares > 0, NoOverflow
  PROVE  /\ Parts \in Ledgers /\ Len(Parts) = Len(contract.miner_shares)
         /\ Total(Parts) <= base /\ base - Total(Parts) <= Len(Parts) - 1
         /\ \A k : PaidTo(k, Parts) =
                     LET i == Find(contract.miner_shares, k)
                     IN  IF i = 0 THEN 0
                         ELSE (base * contract.miner_shares[i][2]) \div total_shares
<1> DEFINE shares == contract.miner_shares
           n == Len(shares)
           S == [i \in 1..n |-> shares[i][2]]
           P == [i \in 1..n |-> (base * shares[i][2]) \div total_shares]
<1>1. /\ n \in Nat /\ DistinctKeys(shares)
      /\ \A i \in 1..n : shares[i] \in Miners \X (0..(U64 - 1))
  BY LenProperties, ElementOfSeq DEF EscrowInv
<1>2. \A i \in 1..n : shares[i][1] \in Miners /\ shares[i][2] \in Nat
  BY <1>1, EscrowAssumption
<1>3. base \in Nat /\ U64 \in Nat \ {0}
  BY Division, EscrowAssumption
<1>4. total_shares = SumTo(S, n) /\ total_shares \in Nat \ {0}
  <2>1. Total(shares) = SumTo(S, n)
    BY DEF Total
  <2>2. SumTo(S, n) \in Nat
    <3>1. \A i \in 1..n : S[i] \in Nat
      BY <1>2
    <3>2. IsFiniteSet(1..n)
      BY <1>1, FS_Interval
    <3> HIDE DEF S, n
    <3>3. SumTo(S, n) = Weight(1..n, S)
      BY <1>1, <3>1, SumIsWeight
    <3> QED
      BY <3>1, <3>2, <3>3, WeightType
  <2>3. SumTo(S, n) < U64
    BY <2>1 DEF NoOverflow
  <2> HIDE DEF S, n
  <2>4. total_shares = SumTo(S, n)
    BY <1>3, <2>1, <2>2, <2>3, ModOfSmall DEF total_shares, Wrapped
  <2> QED
    BY <2>2, <2>4
<1>5. \A i \in 1..n : base * shares[i][2] \in Nat /\ Wrapped(base * shares[i][2]) = base * shares[i][2]
  <2> SUFFICES ASSUME NEW i \in 1..n
               PROVE  base * shares[i][2] \in Nat /\ Wrapped(base * shares[i][2]) = base * shares[i][2]
    OBVIOUS
  <2> DEFINE x == base * shares[i][2]
  <2>1. x < U64
    BY DEF NoOverflow
  <2>2. x \in Nat
    BY <1>2, <1>3
  <2> HIDE DEF x
  <2>3. Wrapped(x) = x
    BY <1>3, <2>1, <2>2, ModOfSmall DEF Wrapped
  <2> QED
    BY <2>2, <2>3 DEF x
<1>6. Parts = [i \in 1..n |-> <<shares[i][1], P[i]>>]
  BY <1>5 DEF Parts
<1>7. \A i \in 1..n : S[i] \in Nat /\ P[i] = (base * S[i]) \div total_shares /\ P[i] \in Nat
  <2> SUFFICES ASSUME NEW i \in 1..n
               PROVE  S[i] \in Nat /\ P[i] = (base * S[i]) \div total_shares /\ P[i] \in Nat
    OBVIOUS
  <2> DEFINE x == base * shares[i][2]
  <2>1. x \in Nat /\ P[i] = x \div total_shares /\ S[i] \in Nat /\ x = base * S[i]
    BY <1>2, <1>5
  <2> HIDE DEF x, P, S
  <2>2. x \div total_shares \in Nat
    BY <1>4, <2>1, RoundedPart
  <2> QED
    BY <2>1, <2>2
<1>8. \A k : IF Find(shares, k) = 0 THEN TRUE
             ELSE P[Find(shares, k)] = (base * shares[Find(shares, k)][2]) \div total_shares
  <2>1. \A k : Find(shares, k) \in 0..n
    BY <1>1, FindFacts
  <2>2. \A k : Find(shares, k) # 0 => Find(shares, k) \in 1..n
    BY <1>1, <2>1
  <2> QED
    BY <2>2
<1> HIDE DEF P, S
<1>9. Parts \in Ledgers /\ Len(Parts) = n
  <2>1. Parts \in [1..n -> Payees \X Nat]
    BY <1>2, <1>6, <1>7 DEF Payees
  <2> HIDE DEF Parts
  <2> QED
    BY <1>1, <2>1, SeqDef, LenProperties DEF Ledgers
<1>10. SumTo(P, n) \in Nat /\ SumTo(P, n) <= base /\ base - SumTo(P, n) <= n - 1
  <2>1. /\ \A i \in 1..n : S[i] \in Nat
        /\ \A i \in 1..n : P[i] = (base * S[i]) \div total_shares
    BY <1>7
  <2> HIDE DEF n
  <2> QED
    BY <1>1, <1>3, <1>4, <2>1, PartsSum
<1>11. Total(Parts) = SumTo(P, n)
  <2>1. [i \in 1..n |-> Parts[i][2]] = P
    BY <1>6 DEF P
  <2> QED
    BY <1>9, <2>1 DEF Total
<1>12. \A k : Find(Parts, k) = Find(shares, k)
  <2>1. \A i \in 1..n : Parts[i][1] = shares[i][1]
    BY <1>6
  <2>2. \A k : {i \in 1..n : Parts[i][1] = k} = {i \in 1..n : shares[i][1] = k}
    BY <2>1
  <2> HIDE DEF Parts
  <2>3. ASSUME NEW k
        PROVE  Find(Parts, k) = Find(shares, k)
    <3> DEFINE at == {i \in 1..n : Parts[i][1] = k}
               to == {i \in 1..n : shares[i][1] = k}
               least(a) == IF a = {} THEN 0 ELSE CHOOSE i \in a : \A j \in a : i <= j
    <3>1. at = to
      BY <2>2
    <3>2. Find(Parts, k) = least(at) /\ Find(shares, k) = least(to)
      BY <1>9 DEF Find
    <3> HIDE DEF at, to, least
    <3> QED
      BY <3>1, <3>2
  <2> QED
    BY <2>3
<1>13. DistinctKeys(Parts)
  <2>1. \A i \in 1..n : Parts[i][1] = shares[i][1]
    BY <1>6
  <2> HIDE DEF Parts
  <2> QED
    BY <1>1, <1>9, <2>1 DEF DistinctKeys
<1>14. \A k : PaidTo(k, Parts) = IF Find(shares, k) = 0 THEN 0 ELSE P[Find(shares, k)]
  <2> SUFFICES ASSUME NEW k
               PROVE  PaidTo(k, Parts) = IF Find(shares, k) = 0 THEN 0 ELSE P[Find(shares, k)]
    OBVIOUS
  <2>1. Find(shares, k) # 0 => Find(shares, k) \in 1..n
    BY <1>1, FindFacts
  <2>2. \A i \in 1..n : Parts[i][2] = P[i]
    BY <1>6
  <2>3. PaidTo(k, Parts) = IF Find(Parts, k) = 0 THEN 0 ELSE Parts[Find(Parts, k)][2]
    BY <1>9, <1>13, PaidOnce
  <2> QED
    BY <1>12, <2>1, <2>2, <2>3
<1> QED
  BY <1>8, <1>9, <1>10, <1>11, <1>14

\* The reward is divided without remainder, to each its part.
LEMMA EscrowInvImpliesExact ==
  ASSUME EscrowInv
  PROVE  PayoutsAreExact
<1> SUFFICES ASSUME total_shares > 0, NoOverflow
             PROVE  /\ Total(distribute_reward) = remaining
                    /\ \A k \in Miners \ {customer} : Received(k) = Part(k)
                    /\ Received(customer) - Part(customer) \in 0..(Len(contract.miner_shares) - 1)
  BY DEF PayoutsAreExact
<1> DEFINE n == Len(contract.miner_shares)
           kept == {i \in 1..Len(Parts) : Parts[i][2] > 0}
           first == MinerPayouts
           second == WithBonus(first)
           left == remaining - Total(second)
           of(k) == LET i == Find(contract.miner_shares, k)
                    IN  IF i = 0 THEN 0
                        ELSE (base * contract.miner_shares[i][2]) \div total_shares
<1>1. /\ remaining \in Nat /\ remaining < U64 /\ U64 \in Nat \ {0}
      /\ winner_bonus \in Nat /\ base \in Nat /\ remaining = base + winner_bonus
      /\ contract.winner = NoOne => winner_bonus = 0
  BY Division, EscrowAssumption
<1>2. /\ Parts \in Ledgers /\ Len(Parts) = n
      /\ Total(Parts) <= base /\ base - Total(Parts) <= n - 1
      /\ \A k : PaidTo(k, Parts) = of(k)
  BY PartsAreExact
<1>3. \A k : PaidTo(k, Parts) \in Nat
  BY <1>2, SumsOfALedger, CountedType
<1>4. /\ first \in Ledgers /\ Total(first) = Total(Parts)
      /\ \A k : PaidTo(k, first) = PaidTo(k, Parts)
  <2>1. first = RetainAt(Parts, kept)
    BY DEF MinerPayouts, Parts
  <2>2. kept \in SUBSET (1..Len(Parts))
    OBVIOUS
  <2>3. \A i \in (1..Len(Parts)) \ kept : Parts[i] \in Payees \X Nat /\ Parts[i][2] = 0
    <3>1. \A i \in 1..Len(Parts) : Parts[i] \in Payees \X Nat /\ Parts[i][2] \in Nat
      BY <1>2, SumsOfALedger, CountedType, EntryBound
    <3> HIDE DEF Parts
    <3> QED
      BY <3>1
  <2>4. \A k, i : i \in (1..Len(Parts)) \ kept => InFull[Parts[i]] = 0 /\ OnlyOf(k)[Parts[i]] = 0
    <3> HIDE DEF Parts, kept
    <3> QED
      BY <2>3 DEF InFull, OnlyOf
  <2> HIDE DEF Parts, kept, first
  <2>5. /\ first \in Ledgers
        /\ SumBy(first, InFull) = SumBy(Parts, InFull)
        /\ \A k : SumBy(first, OnlyOf(k)) = SumBy(Parts, OnlyOf(k))
    <3>1. \A val \in Counts : (\A i \in (1..Len(Parts)) \ kept : val[Parts[i]] = 0) =>
            first \in Ledgers /\ SumBy(first, val) = SumBy(Parts, val)
      BY <1>2, <2>1, <2>2, SumOfRetained
    <3>2. InFull \in Counts /\ \A k : OnlyOf(k) \in Counts
      BY <1>2, SumsOfALedger
    <3> QED
      BY <2>4, <3>1, <3>2
  <2> QED
    BY <1>2, <2>5, SumsOfALedger
<1> HIDE DEF first, of
<1>5. Total(first) \in Nat /\ \A i \in 1..Len(first) : first[i][2] + winner_bonus < U64
  <2>1. Total(first) \in Nat /\ \A i \in 1..Len(first) : first[i][2] \in Nat /\ first[i][2] <= Total(first)
    BY <1>4, EntryBound
  <2> QED
    BY <1>1, <1>2, <1>4, <2>1
<1>6. /\ second \in Ledgers /\ Total(second) = Total(first) + winner_bonus
      /\ \A k : PaidTo(k, second) =
                  PaidTo(k, first) + (IF k = contract.winner THEN winner_bonus ELSE 0)
  <2>1. CASE winner_bonus = 0
    <3>1. second = first
      BY <2>1 DEF WithBonus
    <3>2. \A k : PaidTo(k, first) \in Nat
      BY <1>3, <1>4
    <3> QED
      BY <1>4, <1>5, <2>1, <3>1, <3>2
  <2>2. CASE winner_bonus # 0
    <3>1. contract.winner \in Payees
      BY <1>1, <2>2 DEF EscrowInv, Payees
    <3>2. second = AddTo(first, contract.winner, winner_bonus)
      BY <2>2 DEF WithBonus
    <3> HIDE DEF second
    <3>3. /\ second \in Ledgers /\ Total(second) = Total(first) + winner_bonus
          /\ \A k : PaidTo(k, second) =
                      PaidTo(k, first) + (IF contract.winner = k THEN winner_bonus ELSE 0)
      BY <1>1, <1>4, <1>5, <3>1, <3>2, AddToSums
    <3> QED
      BY <3>3
  <2> QED
    BY <2>1, <2>2
<1> HIDE DEF second
<1>7. left = base - Total(Parts) /\ left \in 0..(n - 1) /\ left < U64
  BY <1>1, <1>2, <1>4, <1>5, <1>6
<1>8. Wrapped(left) = left
  BY <1>1, <1>7, ModOfSmall DEF Wrapped
<1>9. contract.miner_shares # <<>> /\ total_shares # 0
  <2>1. Len(<<>>) = 0
    BY EmptySeq
  <2> QED
    BY <1>7, <2>1
<1>10. distribute_reward = IF left > 0 THEN Append(second, <<customer, left>>) ELSE second
  BY <1>8, <1>9 DEF distribute_reward, second, first
<1>11. /\ Total(distribute_reward) = Total(second) + left
       /\ \A k : Received(k) = PaidTo(k, second) + (IF k = customer THEN left ELSE 0)
  <2>1. CASE left = 0
    <3>1. distribute_reward = second
      BY <1>10, <2>1
    <3>2. \A k : PaidTo(k, second) \in Nat /\ Total(second) \in Nat
      BY <1>6, EntryBound, SumsOfALedger, CountedType
    <3> QED
      BY <2>1, <3>1, <3>2 DEF Received
  <2>2. CASE left # 0
    <3> DEFINE p == <<customer, left>>
               t == Append(second, p)
    <3>1. distribute_reward = t
      BY <1>7, <1>10, <2>2
    <3>2. p \in Payees \X Nat
      BY <1>7 DEF Payees
    <3>3. InFull[p] = left /\ \A k : OnlyOf(k)[p] = IF k = customer THEN left ELSE 0
      <4> HIDE DEF left
      <4> QED
        BY <3>2 DEF InFull, OnlyOf
    <3> HIDE DEF p, left
    <3>4. /\ t \in Ledgers
          /\ SumBy(t, InFull) = SumBy(second, InFull) + InFull[p]
          /\ \A k : SumBy(t, OnlyOf(k)) = SumBy(second, OnlyOf(k)) + OnlyOf(k)[p]
      BY <1>6, <3>2, SumsOfALedger, SumOfAppend
    <3> HIDE DEF t
    <3>5. /\ Total(t) = Total(second) + left
          /\ \A k : PaidTo(k, t) = PaidTo(k, second) + (IF k = customer THEN left ELSE 0)
      BY <1>6, <3>3, <3>4, SumsOfALedger
    <3> QED
      BY <3>1, <3>5 DEF Received
  <2> QED
    BY <2>1, <2>2
<1>12. \A k : Part(k) \in Int
             /\ Received(k) = Part(k) + (IF k = customer THEN left ELSE 0)
  <2>1. \A k : Part(k) = of(k) + (IF k = contract.winner THEN winner_bonus ELSE 0)
    BY DEF Part, of
  <2>2. \A k : of(k) \in Nat /\ PaidTo(k, first) = of(k)
    BY <1>2, <1>3, <1>4
  <2> HIDE DEF left
  <2> QED
    BY <1>1, <1>6, <1>11, <2>1, <2>2
<1>13. Total(distribute_reward) = remaining
  BY <1>1, <1>4, <1>5, <1>6, <1>7, <1>11
<1> HIDE DEF left
<1> QED
  BY <1>7, <1>12, <1>13
-----------------------------------------------------------------------------
(******************************** The parts ********************************)

ValueInv == EconomicsInv /\ EscrowInv /\ DnaInv /\ L2Inv

\* A step of another part leaves the economics alone.
LEMMA EconomicsUntouched ==
  ASSUME EconomicsInv, UNCHANGED economicsVars
  PROVE  EconomicsInv'
BY DEF EconomicsInv, economicsVars, emitted, block_reward, halving, Lesser

\* A step of another part leaves the contract alone.
LEMMA EscrowUntouched ==
  ASSUME EscrowInv, UNCHANGED escrowVars
  PROVE  EscrowInv'
BY DEF EscrowInv, escrowVars, DistinctKeys

\* A step of another part leaves the ranges alone.
LEMMA DnaUntouched ==
  ASSUME DnaInv, UNCHANGED dnaVars
  PROVE  DnaInv'
BY DEF DnaInv, dnaVars, RangesWellFormed, LiveCovers, LiveIsDisjoint, LiveRefinesArchive,
       ArchiveIsDistinct, Ancestry, HasOrigin, All

\* A step of another part leaves the engine alone.
LEMMA L2Untouched ==
  ASSUME L2Inv, UNCHANGED l2Vars
  PROVE  L2Inv'
BY DEF L2Inv, l2Vars, IsBalances, IsMap, ExecutedOnce, ValueIsConserved, Balances, balance,
       NoncesInOrder, SentBy, nonce

\* A step moves one part, by its own lemma, and leaves the others alone.
LEMMA ValueNextPreservesInv ==
  ASSUME ValueInv, [ValueNext]_valueVars
  PROVE  ValueInv'
<1>1. DnaNext \/ UNCHANGED dnaVars
  BY DEF ValueNext, valueVars
<1>2. DnaInv'
  BY <1>1, DnaNextPreservesInv, DnaUntouched DEF ValueInv
<1>3. L2Next \/ UNCHANGED l2Vars
  BY DEF ValueNext, valueVars
<1>4. L2Next => L2Inv'
  BY CreditPreservesInv, ProcessPreservesInv DEF ValueInv, L2Next
<1>5. L2Inv'
  BY <1>3, <1>4, L2Untouched DEF ValueInv
<1>6. (EconomicsNext \/ UNCHANGED economicsVars) /\ (EscrowNext \/ UNCHANGED escrowVars)
  BY DEF ValueNext, valueVars
<1>7. EconomicsInv'
  BY <1>6, EconomicsNextPreservesInv, EconomicsUntouched DEF ValueInv
<1>8. EscrowInv'
  BY <1>6, EscrowNextPreservesInv, EscrowUntouched DEF ValueInv
<1> QED
  BY <1>2, <1>5, <1>7, <1>8 DEF ValueInv

\* The invariant holds of every behaviour of the parts.
THEOREM ValueInvHolds == ValueSpec => []ValueInv
<1>1. ValueInit => ValueInv
  BY EconomicsInitEstablishesInv, EscrowInitEstablishesInv, DnaInitEstablishesInv,
     L2InitEstablishesInv DEF ValueInit, ValueInv
<1>2. ValueInv /\ [ValueNext]_valueVars => ValueInv'
  BY ValueNextPreservesInv
<1> QED
  BY <1>1, <1>2, PTL DEF ValueSpec

\* emitted's closed form is the sum of the block rewards at every height, across
\* every halving, and create_coinbase never mints beyond it but for the fees.
THEOREM EmissionAlwaysExact == ValueSpec => []EmissionIsExact
<1>1. ValueInv => EmissionIsExact
  BY EconomicsInvImpliesExact DEF ValueInv
<1> QED
  BY <1>1, ValueInvHolds, PTL

\* Whatever the calls of add_share and set_winner, distribute_reward divides the
\* reward less the pool fee without remainder, to each miner its part.
THEOREM PayoutsAlwaysExact == ValueSpec => []PayoutsAreExact
<1>1. ValueInv => PayoutsAreExact
  BY EscrowInvImpliesExact DEF ValueInv
<1> QED
  BY <1>1, ValueInvHolds, PTL

\* However ranges are emitted, split by split and bridged by bridge_to_l2, those
\* held verify and partition what was issued.
THEOREM SupplyAlwaysPartitioned == ValueSpec => []SupplyIsPartitioned
<1>1. ValueInv => SupplyIsPartitioned
  BY DnaInvImpliesPartition DEF ValueInv
<1> QED
  BY <1>1, ValueInvHolds, PTL

\* verify_lineage leads every range back to an emission through exactly one
\* range at a time, and nothing split from an L2 range is back on L1.
THEOREM LineageAlwaysReaches == ValueSpec => []LineageReachesEmission
<1>1. ValueInv => LineageReachesEmission
  BY DnaInvImpliesLineage DEF ValueInv
<1> QED
  BY <1>1, ValueInvHolds, PTL

\* Below u64::MAX process_transaction neither mints nor burns, whoever of the
\* four parties coincide and however the fee is divided.
THEOREM ValueAlwaysConserved == ValueSpec => []ValueIsConserved
<1>1. ValueInv => ValueIsConserved
  BY DEF ValueInv, L2Inv
<1> QED
  BY <1>1, ValueInvHolds, PTL

\* An account's transactions run in the order of their nonces, none twice, and
\* outputs, tx_count and total_fees account for exactly those.
THEOREM NoncesAlwaysInOrder == ValueSpec => []NoncesInOrder
<1>1. ValueInv => NoncesInOrder
  BY DEF ValueInv, L2Inv
<1> QED
  BY <1>1, ValueInvHolds, PTL
=============================================================================
