------------------------------ MODULE MCValue -------------------------------
(***************************************************************************)
(* Economics: three blocks per halving and a supply that is used up in the *)
(* third period, after genesis and fees, one of which saturates.           *)
(*                                                                         *)
(* Escrow: two miners and a customer who also mines, with shares that      *)
(* divide the reward unevenly, and some so many that the product with the  *)
(* reward leaves u64.                                                      *)
(*                                                                         *)
(* DNA ranges: three satoshis at genesis and one more in an epoch, so that *)
(* a part can be split again, down to single satoshis, and every range be  *)
(* bridged twice.  The two emissions carry the same root id.  Owners are   *)
(* interchangeable, and so are bridge transactions.                        *)
(*                                                                         *)
(* L2: two users, the founder and the community fund.  Transfers to        *)
(* another user, to oneself, by the founder, to the fund, with a fee whose *)
(* shares do not divide evenly, and one whose amount plus fee exceeds u64; *)
(* and three that are not valid: of amount 0, altered after it was signed, *)
(* and signed by another.                                                  *)
(***************************************************************************)
EXTENDS Value, TLC

MCMiners == {"alice", "bob", "carol"}

MCSymmetry == Permutations(Owners) \cup Permutations(Bridges)

MCAccounts == {"alice", "bob", "founder", "fund"}

\* Sealed and signed by its sender.
Tx(from, to, amt, fees, n) ==
  sign(new_unsigned(from, to, amt, fees, n, "dna"), from)

MCTxs ==
  {Tx("alice", "bob", 20, 11, 0), Tx("alice", "alice", 10, 0, 0),
   Tx("alice", "founder", 5, 10, 1), Tx("alice", "bob", 1, 0, 2),
   Tx("bob", "alice", 10, 1, 0), Tx("founder", "founder", 7, 3, 0),
   Tx("bob", "fund", 9, 0, 1), Tx("fund", "bob", 90, 90, 0),
   Tx("bob", "alice", 0, 5, 0),
   [Tx("bob", "alice", 20, 0, 0) EXCEPT !.amount = 30],
   sign(Tx("fund", "alice", 20, 0, 0), "alice")}
=============================================================================
