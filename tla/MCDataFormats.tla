--------------------------- MODULE MCDataFormats ----------------------------
(***************************************************************************)
(* WireView: blocks of up to two transactions, without and with inputs,    *)
(* outputs and witnesses of differing lengths, cut anywhere or with any    *)
(* one cell changed to any value that occurs.                              *)
(*                                                                         *)
(* Blocks: a genesis block and one above it with a checkpoint; a           *)
(* heartbeat, a coinbase whose unsent parts the decoder resets, a          *)
(* transaction in two versions that differ in the unhashed parts, one with *)
(* a lock, and one that spends nothing; one each with too many inputs,     *)
(* outputs and witnesses for the wire, and one each with a key and a type  *)
(* that do not decode.                                                     *)
(*                                                                         *)
(* StateRoot: two UTXOs with one nullifier, two whose sum leaves u64, and  *)
(* enough nullifiers for a level of three and one with a leaf repeated.    *)
(*                                                                         *)
(* Presence: every graph of three records, every map that holds some; also *)
(* parents that are not sorted, or listed twice.                           *)
(*                                                                         *)
(* Merge: every run of up to three entries with every run of up to two,    *)
(* over two keys and two sequence numbers, sorted or not, with errors in   *)
(* any place, and a third run of one entry.                                *)
(*                                                                         *)
(* Bloom: filters of one to three words of four bits, with one to five     *)
(* hashes that wrap.                                                       *)
(***************************************************************************)
EXTENDS DataFormats

WireTx(type, sigs, proofs, witnesses, fee, hash) ==
  [tx_type |-> type, sigs |-> sigs, proofs |-> proofs, witnesses |-> witnesses,
   fee |-> fee, tx_hash |-> hash]
MCWireTxs ==
  {WireTx(1, <<>>, <<0>>, <<>>, 0, 1), WireTx(0, <<2>>, <<1, 0>>, <<>>, 3, 2),
   WireTx(0, <<0, 1>>, <<2>>, <<>>, 1, 5), WireTx(2, <<>>, <<>>, <<1, 2>>, 0, 3)}

BlockTx(type, inputs, outputs, fee, tick, lock) ==
  [tx_type |-> type, inputs |-> inputs, outputs |-> outputs, fee |-> fee,
   poh_tick |-> tick, locktime |-> lock, heartbeat_witnesses |-> <<>>,
   keys_valid |-> TRUE, unhashed |-> 0, unsent |-> 0]
MCHeartbeat == BlockTx(Heartbeat, <<>>, <<>>, 0, 0, 0)
MCSpend == BlockTx(Standard, <<1>>, <<2, 2>>, 1, 1, 0)
MCBlockTxs ==
  {[MCHeartbeat EXCEPT !.heartbeat_witnesses = <<1>>],
   [MCHeartbeat EXCEPT !.heartbeat_witnesses = <<1, 2>>],
   [BlockTx(Coinbase, <<>>, <<3>>, 0, 0, 0) EXCEPT !.unsent = 1],
   BlockTx(Coinbase, <<>>, <<1, 1, 1>>, 0, 0, 0),
   MCSpend, [MCSpend EXCEPT !.unhashed = 1], [MCSpend EXCEPT !.keys_valid = FALSE],
   BlockTx(Standard, <<2>>, <<1>>, 0, 2, 1), BlockTx(Standard, <<3, 2>>, <<1>>, 0, 2, 0),
   BlockTx(Standard, <<>>, <<>>, 1, 1, 0), BlockTx(3, <<1>>, <<1>>, 1, 1, 0)}
Header(prev, height, start, end, presence, checkpoint) ==
  [prev_hash |-> prev, height |-> height, poh_tick_start |-> start, poh_tick_end |-> end,
   is_presence_block |-> presence, settlement_checkpoint |-> checkpoint]
MCHeaders == {Header(0, 0, 1, 1, TRUE, NoCheckpoint), Header(1, 1, 1, 2, FALSE, 1)}

Utxo(nullifier, amount, owner) ==
  [nullifier |-> nullifier, amount |-> amount, owner |-> owner]
MCUtxos == {Utxo(1, 1, "a"), Utxo(1, 1, "b"), Utxo(2, 2, "a"), Utxo(6, 1, "a")}

MCParentLists ==
  {<<>>, <<1>>, <<2>>, <<3>>, <<1, 2>>, <<1, 3>>, <<2, 3>>, <<1, 2, 3>>, <<2, 1>>, <<3, 3>>}

RunItem == [key : {1, 2}, seq : {1, 2}] \cup {Failed}
Run(length) == UNION {[1..n -> RunItem] : n \in 0..length}
MCRuns == {<<r1, r2, <<[key |-> 1, seq |-> 1]>>>> : r1 \in Run(3), r2 \in Run(2)}

MCBloomKeys == {"a", "b", "c"}
MCHashKey == [a |-> <<3, 4>>, b |-> <<14, 7>>, c |-> <<0, 0>>]
=============================================================================
