----------------------------- MODULE StateRoot ------------------------------
(***************************************************************************)
(* The root of a state, computed by the producer of a block as a preview   *)
(* and by a node that executes the block, each from its own lists of UTXOs *)
(* and spent nullifiers, in whatever order it came by them.                *)
(***************************************************************************)
EXTENDS Merkle, Collections

CONSTANTS
  Utxos,               \* [nullifier, amount, owner]: consensus_bytes covers all of it
  Nullifiers,          \* of spent UTXOs: numbers, in the order of their bytes
  U64_MAX,             \* sums that exceed it are refused
  UTXOS_MAX,           \* bounds: the length of the lists
  SPENT_MAX

ASSUME StateRootAssumption ==
  /\ U64_MAX \in Nat
  /\ IsFiniteSet(Utxos) /\ IsFiniteSet(Nullifiers)
  /\ \A u \in Utxos : /\ DOMAIN u = {"nullifier", "amount", "owner"}
                      /\ u.nullifier \in Nat /\ u.amount \in 0..U64_MAX
  /\ Nullifiers \subseteq Nat

VARIABLES
  preview,             \* the producer's arguments: [utxos, spent, supply]
  executed             \* the executing node's

rootVars == <<preview, executed>>
-----------------------------------------------------------------------------
EmptyTree == [empty |-> TRUE]
NoDuplicates(s) == \A i, j \in 1..Len(s) : i # j => s[i] # s[j]
NullifiersOf(utxos) == [i \in 1..Len(utxos) |-> utxos[i].nullifier]
SumOf(utxos) == SumTo([i \in 1..Len(utxos) |-> utxos[i].amount], Len(utxos))

\* The leaves in the order of their keys.
Upto(keys, i) ==
  {j \in 1..Len(keys) : keys[j] < keys[i] \/ (keys[j] = keys[i] /\ j <= i)}
Sorted(leaves, keys) ==
  [r \in 1..Len(keys) |->
     leaves[CHOOSE i \in 1..Len(keys) : Cardinality(Upto(keys, i)) = r]]
RootOf(leaves, keys) ==
  IF leaves = <<>> THEN EmptyTree ELSE MerkleRoot(Sorted(leaves, keys))
SpentLeaves(spent) == [i \in 1..Len(spent) |-> [spent |-> spent[i]]]
compute_merkle_roots(utxos, spent) ==
  [utxo_root |-> RootOf(utxos, NullifiersOf(utxos)),
   nullifier_root |-> RootOf(SpentLeaves(spent), spent)]

\* Mutant: the spent nullifiers are not looked at.
ChecksUtxosOnly(a) ==
  /\ SumOf(a.utxos) <= U64_MAX
  /\ a.supply = SumOf(a.utxos)
  /\ NoDuplicates(NullifiersOf(a.utxos))
Checks(a) ==
  /\ SumOf(a.utxos) <= U64_MAX
  /\ a.supply = SumOf(a.utxos)
  /\ NoDuplicates(NullifiersOf(a.utxos))
  /\ NoDuplicates(a.spent)

\* The height, the DNA root and the oracle root are the same for both.
StateError == [error |-> TRUE]
compute_state_root(a) ==
  IF Checks(a)
    THEN [total_supply |-> a.supply, roots |-> compute_merkle_roots(a.utxos, a.spent)]
    ELSE StateError
compute_state_preview(a) ==
  IF Checks(a)
    THEN [total_supply |-> a.supply, roots |-> compute_merkle_roots(a.utxos, a.spent)]
    ELSE StateError
-----------------------------------------------------------------------------
\* The lists of each state in one order: whatever the other node's order, it is
\* compared with this one.
States ==
  {[utxos |-> SetToSeq(us), spent |-> SetToSeq(ns)] :
      us \in {S \in SUBSET Utxos : Cardinality(S) <= UTXOS_MAX}, ns \in SUBSET Nullifiers}
RootInit(states) ==
  /\ \E s \in states : preview = [utxos |-> s.utxos, spent |-> s.spent,
                                  supply |-> SumOf(s.utxos)]
  /\ executed = [utxos |-> <<>>, spent |-> <<>>, supply |-> 0]

\* The executing node creates and spends; how much it counts as issued is the
\* caller's affair.
Create(u, supply) ==
  /\ Len(executed.utxos) < UTXOS_MAX
  /\ executed' = [executed EXCEPT !.utxos = Append(@, u), !.supply = supply]
  /\ UNCHANGED preview
Spend(n) ==
  /\ Len(executed.spent) < SPENT_MAX
  /\ executed' = [executed EXCEPT !.spent = Append(@, n)]
  /\ UNCHANGED preview

RootNext ==
  \/ \E u \in Utxos, supply \in 0..U64_MAX : Create(u, supply)
  \/ \E n \in Nullifiers : Spend(n)
-----------------------------------------------------------------------------
\* The two roots agree exactly if the two states do: the same UTXOs, the same
\* nullifiers spent and a supply that is their sum, in whatever order either
\* list is, though a Merkle root by itself does not tell three leaves from
\* four with the last repeated.
RootIdentifiesState ==
  LET sorted == compute_state_preview(preview)
      mine == compute_state_root(executed)
  IN  /\ mine # StateError /\ sorted # StateError =>
           (mine = sorted <=> /\ ToSet(executed.utxos) = ToSet(preview.utxos)
                              /\ ToSet(executed.spent) = ToSet(preview.spent))
      /\ mine # StateError => /\ executed.supply = SumOf(executed.utxos)
                              /\ Cardinality(ToSet(executed.utxos)) = Len(executed.utxos)
=============================================================================
