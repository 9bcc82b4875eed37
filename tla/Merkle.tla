------------------------------- MODULE Merkle -------------------------------
(***************************************************************************)
(* The Merkle tree blocks and state roots are hashed with: a level of odd  *)
(* length pairs its last node with itself.  Hashes are taken to be         *)
(* injective: a node is its two children.                                  *)
(***************************************************************************)
EXTENDS Integers, Sequences, SequencesExt

Halved(level) ==
  [i \in 1..((Len(level) + 1) \div 2) |->
     [left |-> level[2 * i - 1],
      right |-> level[IF 2 * i <= Len(level) THEN 2 * i ELSE 2 * i - 1]]]

\* A level is halved until one node is left; as many rounds as leaves suffice.
MerkleRoot(leaves) ==
  LET level[k \in 0..Len(leaves)] ==
        IF k = 0 THEN leaves
        ELSE LET below == level[k - 1]
             IN  IF Len(below) = 1 THEN below ELSE Halved(below)
  IN  level[Len(leaves)][1]
=============================================================================
