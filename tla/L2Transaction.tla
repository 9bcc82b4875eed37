--------------------------- MODULE L2Transaction ---------------------------
(***************************************************************************)
(* aevum-l2's transactions and outputs: how a transaction is sealed and    *)
(* signed, what makes it valid, and the shares of its fee.  A hash is the  *)
(* record of what is hashed, a signature the key and the message.  The     *)
(* version, timestamp, taint, restriction level and binding salt, which    *)
(* are only carried along and hashed, are one value, dna.                  *)
(***************************************************************************)
EXTENDS Collections

CONSTANT FOUNDER_SHARE_BPS

ASSUME ShareAssumption == FOUNDER_SHARE_BPS \in 0..10000

compute_hash(tx) ==
  [from |-> tx.from, to |-> tx.to, amount |-> tx.amount, fee |-> tx.fee,
   nonce |-> tx.nonce, dna |-> tx.dna]

\* A transaction with its hash and the zero signature.
new_unsigned(from, to, amount, fee, nonce, dna) ==
  LET tx == [from |-> from, to |-> to, amount |-> amount, fee |-> fee,
             nonce |-> nonce, dna |-> dna]
  IN  [from |-> from, to |-> to, amount |-> amount, fee |-> fee, nonce |-> nonce,
       dna |-> dna, tx_hash |-> compute_hash(tx), signature |-> [zero |-> TRUE]]

\* Only the hash is signed, as it stands.
sign(tx, key) == [tx EXCEPT !.signature = [key |-> key, msg |-> tx.tx_hash]]

verify_signature(tx) == tx.signature = [key |-> tx.from, msg |-> tx.tx_hash]

is_valid(tx) ==
  /\ tx.amount # 0
  /\ compute_hash(tx) = tx.tx_hash
  /\ verify_signature(tx)

founder_cut(fee) == (fee * FOUNDER_SHARE_BPS) \div 10000
community_cut(fee) == SaturatingSub(fee, founder_cut(fee))

\* L2Utxo::new: the engine makes one output per transaction, so that the output
\* index is always 0; nothing ever spends it.
NewUtxo(owner, amount, tx_hash, dna) ==
  [owner |-> owner, amount |-> amount, tx_hash |-> tx_hash, dna |-> dna]
=============================================================================
