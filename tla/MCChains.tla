------------------------------ MODULE MCChains ------------------------------
(***************************************************************************)
(* ChainState: two rival genesis blocks; on the first, three children at   *)
(* heights 1, 3 and 4 (the second produced here); a local block on the     *)
(* lowest; two blocks that extend the highest one but claim a height below *)
(* it; and a block that carries another one's hash.                        *)
(*                                                                         *)
(* Settlement: a committee of three that needs two signatures, and two     *)
(* nodes that each accept up to two settlements.  The nodes are            *)
(* interchangeable.                                                        *)
(***************************************************************************)
EXTENDS Chains, TLC

Sealed(hash, prev, h, checkpoint, lone_coinbase) ==
  [hash |-> hash, computed |-> hash, prev |-> prev, height |-> h,
   checkpoint |-> checkpoint, lone_coinbase |-> lone_coinbase]

MCLocal == {Sealed("local3", "g", 3, FALSE, FALSE),
            Sealed("local2", "child1", 2, TRUE, FALSE)}
MCForeign == {Sealed("child1", "g", 1, FALSE, FALSE),
              Sealed("child4", "g", 4, TRUE, FALSE),
              Sealed("back3", "child4", 3, TRUE, FALSE),
              Sealed("back1", "child4", 1, FALSE, FALSE),
              [Sealed("child1", "g", 1, FALSE, TRUE) EXCEPT !.computed = "other"]}
MCGenesisBlocks == {Sealed("g", "0", 0, FALSE, TRUE), Sealed("h", "0", 0, FALSE, TRUE)}
MCBlocks == MCGenesisBlocks \cup MCLocal \cup MCForeign
MCHashes == {b.hash : b \in MCBlocks} \cup {b.computed : b \in MCBlocks} \cup {"0"}

CONSTANTS n1, n2
MCNodes == {n1, n2}
NodeSymmetry == Permutations(MCNodes)

MCMembers == {"m1", "m2", "m3"}
MCCommittee == <<"m1", "m2", "m3">>
MCGenesis == [block_hash |-> [genesis |-> TRUE], chain_id |-> 2]
=============================================================================
