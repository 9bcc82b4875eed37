------------------------------ MODULE DnaRange ------------------------------
(***************************************************************************)
(* aevum-core's dna_range: the provenance of satoshis.  A range is a value *)
(* that names an interval of the supply, its emission, its owner and the   *)
(* range it was split from; a split turns one into two, the bridge moves   *)
(* one to L2.                                                              *)
(*                                                                         *)
(* The ledger that holds the ranges is not part of the repository.  It is  *)
(* assumed to emit consecutive intervals, to replace a range it splits by  *)
(* its two parts, and to keep what was split for audits.  Hashes are       *)
(* modelled as what is hashed: blake3 is taken to be injective.  birth     *)
(* stands for birth_epoch and the fields copied with it (birth_height,     *)
(* birth_timestamp, miner); last_transfer_block is left out.               *)
(***************************************************************************)
EXTENDS Integers, Sequences, FiniteSets

CONSTANTS
  Owners,
  SplitTxs,          \* hashes of the transactions that split ranges
  Bridges,           \* hashes of the bridge transactions
  RootIds,           \* root ids
  GENESIS_SUPPLY,
  EpochRewards,      \* the amounts issued per epoch
  MaxSupply,         \* bound: satoshis issued
  MaxSplits          \* bound: ranges split

ASSUME SupplyAssumption ==
  /\ {GENESIS_SUPPLY, MaxSupply, MaxSplits} \subseteq Nat
  /\ GENESIS_SUPPLY > 0
  /\ EpochRewards \subseteq Nat \ {0}

VARIABLES
  live,              \* the ranges held
  archive,           \* the ranges that were split
  issued,            \* satoshis issued: the next interval starts here
  epoch              \* epochs issued

dnaVars == <<live, archive, issued, epoch>>

All == live \cup archive
-----------------------------------------------------------------------------
amount(r) == r.end - r.start + 1

\* What range_id and proof are hashes of.  Absent options are empty sequences
\* and add nothing to the hash; layer and transfer_count enter neither.
id(r) == <<r.root_id, r.parent_range_id, r.start, r.end>>
hash(r) == <<r.origin, r.root_id, r.start, r.end, r.birth, r.parent_range_id,
             r.bridge_tx, r.owner>>
Sealed(r) ==
  LET named == [r EXCEPT !.range_id = id(r)]
  IN [named EXCEPT !.proof = hash(named)]

\* A range as it is issued, by new_genesis or new_epoch.
Emitted(root, origin, start, end, birth, owner) ==
  Sealed([range_id |-> <<>>, root_id |-> root, origin |-> origin, start |-> start,
          end |-> end, layer |-> "L1", birth |-> birth, parent_range_id |-> <<>>,
          bridge_tx |-> <<>>, creation_tx |-> <<>>, owner |-> owner,
          transfer_count |-> 0, proof |-> <<>>])

\* A part of r.  Mutant: the part forgets which bridge r crossed.
ChildUnbridged(r, start, end, owner, tx) ==
  Sealed([r EXCEPT !.start = start, !.end = end, !.parent_range_id = <<r.range_id>>,
                   !.layer = "L1", !.bridge_tx = <<>>,
                   !.creation_tx = <<tx>>, !.owner = owner,
                   !.transfer_count = @ + 1])
child(r, start, end, owner, tx) ==
  Sealed([r EXCEPT !.start = start, !.end = end, !.parent_range_id = <<r.range_id>>,
                   !.creation_tx = <<tx>>, !.owner = owner,
                   !.transfer_count = @ + 1])

verify(r) == r.range_id = id(r) /\ r.proof = hash(r) /\ r.start <= r.end
verify_split(r, a, b) ==
  /\ a.start = r.start
  /\ b.end = r.end
  /\ a.end + 1 = b.start
  /\ amount(r) = amount(a) + amount(b)
verify_lineage(r, c) == c.parent_range_id = <<r.range_id>> /\ c.root_id = r.root_id

\* split refuses a point that would leave a part empty.  Mutant: it does not.
SplitsAnywhere(r, point) == r.start <= point /\ point <= r.end
Splits(r, point) == r.start < point /\ point <= r.end
-----------------------------------------------------------------------------
DnaInit ==
  /\ \E root \in RootIds, owner \in Owners :
       live = {Emitted(root, "Genesis", 0, GENESIS_SUPPLY - 1, 0, owner)}
  /\ archive = {}
  /\ issued = GENESIS_SUPPLY
  /\ epoch = 0

new_epoch(root, origin, reward, owner) ==
  /\ issued + reward <= MaxSupply
  /\ live' = live \cup {Emitted(root, origin, issued, issued + reward - 1, epoch + 1, owner)}
  /\ issued' = issued + reward
  /\ epoch' = epoch + 1
  /\ UNCHANGED archive

split(r, point, left, right, tx) ==
  LET a == child(r, r.start, point - 1, left, tx)
      b == child(r, point, r.end, right, tx)
  IN /\ Cardinality(archive) < MaxSplits
     /\ Splits(r, point)
     /\ verify_split(r, a, b)
     /\ live' = (live \ {r}) \cup {a, b}
     /\ archive' = archive \cup {r}
     /\ UNCHANGED <<issued, epoch>>

\* bridge_to_l2 changes the range in place, whatever layer it is on.
Bridged(r, bridge) == Sealed([r EXCEPT !.layer = "L2", !.bridge_tx = <<bridge>>])
bridge_to_l2(r, bridge) ==
  /\ live' = (live \ {r}) \cup {Bridged(r, bridge)}
  /\ UNCHANGED <<archive, issued, epoch>>

DnaNext ==
  \/ \E root \in RootIds, origin \in {"EpochMining", "EpochRemainder"},
        reward \in EpochRewards, owner \in Owners : new_epoch(root, origin, reward, owner)
  \/ \E r \in live, point \in 0..MaxSupply, left, right \in Owners, tx \in SplitTxs :
        split(r, point, left, right, tx)
  \/ \E r \in live, bridge \in Bridges : bridge_to_l2(r, bridge)
-----------------------------------------------------------------------------
Satoshis(r) == r.start .. r.end

\* However ranges are split and bridged, the ranges held partition what was
\* issued: every satoshi has exactly one owner, no range is empty, and each
\* passes verify().
SupplyIsPartitioned ==
  /\ \A r \in live : verify(r)
  /\ UNION {Satoshis(r) : r \in live} = 0 .. issued - 1
  /\ \A r, s \in live : r # s => Satoshis(r) \cap Satoshis(s) = {}

Parents(r) == {p \in archive : verify_lineage(p, r)}

\* Every range leads back to an emission: unless it is one, exactly one archived
\* range, whatever its layer or owner, passes verify_lineage with it, which
\* contains it, was transferred once less, and has the same origin and birth;
\* and nothing split from an L2 range is back on L1 or without its bridge.
LineageReachesEmission ==
  \A r \in All :
    \/ r.parent_range_id = <<>> /\ r.transfer_count = 0
    \/ /\ Cardinality(Parents(r)) = 1
       /\ \A p \in Parents(r) :
            /\ Satoshis(r) \subseteq Satoshis(p) /\ Satoshis(r) # Satoshis(p)
            /\ r.transfer_count = p.transfer_count + 1
            /\ r.origin = p.origin /\ r.birth = p.birth
            /\ p.layer = "L2" => r.layer = "L2" /\ r.bridge_tx # <<>>
=============================================================================
