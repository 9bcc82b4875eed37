------------------------------- MODULE Blocks -------------------------------
(***************************************************************************)
(* A block from its producer to a node that receives it: sealed in one     *)
(* step (from_candidate) or in two (new, finalize_state), delivered as a   *)
(* BlockWire whose contents may have changed on the way while it still     *)
(* claims the same hash, decoded by wire_decode and checked by             *)
(* validate_internal.                                                      *)
(***************************************************************************)
EXTENDS Merkle, FiniteSets, FiniteSetsExt

CONSTANTS
  BlockTxs,            \* transactions a producer has or that arrive in their place
  Headers,             \* [prev_hash, height, poh_tick_start, poh_tick_end, is_presence_block, settlement_checkpoint]
  StateRoots,          \* of states; 0 is Hash::zero()
  Supplies,
  BASE_BYTES,          \* 256
  TX_BYTES,            \* 512
  MAX_BLOCK_BYTES,     \* also MAX_WIRE_BLOCK_SIZE
  MAX_TRANSACTIONS,    \* also MAX_TXS_PER_BLOCK
  MAX_TX_INPUTS,       \* 1024, and the same number of outputs
  MAX_TX_OUTPUTS,
  MAX_WITNESSES,       \* 32
  WIRE_VERSION,        \* 9
  WireVersions,        \* that arrive
  SUM_MODULUS,         \* 2^64: out_sum wraps
  CANDIDATE_MAX        \* bound: transactions the producer has for a block

Standard == 0
Coinbase == 1
Heartbeat == 2
NoCheckpoint == 0

\* inputs are their nullifiers, outputs their amounts; keys_valid is whether the
\* keys of both are points of the curve.  unhashed is what the hash of a
\* transaction leaves out: the signatures of its inputs, and of its outputs the
\* proof, the view key, the encrypted amount, its tag, the transaction's hash
\* and the DNA.  unsent is what the wire leaves out, too: the scheme and the
\* version of the proofs and dna_range_id.
TxRecords ==
  [tx_type : Nat, inputs : Seq(Nat), outputs : Seq(Nat), fee : Nat, poh_tick : Nat,
   locktime : Nat, heartbeat_witnesses : Seq(Nat), keys_valid : BOOLEAN,
   unhashed : Nat, unsent : Nat]

ASSUME BlocksAssumption ==
  /\ {BASE_BYTES, TX_BYTES, MAX_BLOCK_BYTES, MAX_TRANSACTIONS, CANDIDATE_MAX} \subseteq Nat
  /\ {MAX_TX_INPUTS, MAX_TX_OUTPUTS, MAX_WITNESSES} \subseteq Nat
  /\ SUM_MODULUS \in Nat \ {0}
  /\ BlockTxs \subseteq TxRecords

VARIABLES
  sealed,              \* the producer's block, NoBlock before there is one
  received             \* the block decoded last

blocksVars == <<sealed, received>>
-----------------------------------------------------------------------------
is_coinbase(t) == t.tx_type = Coinbase
is_heartbeat(t) == t.tx_type = Heartbeat

\* Also the tx_hash that every transaction of a block holds: constructors and
\* the decoder end with compute_hash.  Mutant: it covers dna_range_id as well.
HashOfUnsent(t) == [t EXCEPT !.unhashed = 0]
recompute_hash(t) == [t EXCEPT !.unhashed = 0, !.unsent = 0]

ZeroHash == [zero |-> TRUE]
compute_transactions_root(ts) ==
  IF ts = <<>> THEN ZeroHash ELSE MerkleRoot([i \in 1..Len(ts) |-> recompute_hash(ts[i])])

\* A block is [header, transactions, transactions_root, state_root,
\* total_supply, block_size, block_hash].
compute_hash(b) ==
  [header |-> b.header, transactions_root |-> b.transactions_root,
   state_root |-> b.state_root, total_supply |-> b.total_supply]
WithHash(b) == [b EXCEPT !.block_hash = compute_hash(b)]

NoBlock == [height |-> -1]
Seal(header, ts, root, supply) ==
  WithHash([header |-> header, transactions |-> ts,
            transactions_root |-> compute_transactions_root(ts),
            state_root |-> root, total_supply |-> supply,
            block_size |-> BASE_BYTES + Len(ts) * TX_BYTES, block_hash |-> ZeroHash])
NewBlock(header, ts, root, supply) ==
  Seal([header EXCEPT !.is_presence_block = TRUE, !.settlement_checkpoint = NoCheckpoint],
       ts, root, supply)
from_candidate(header, ts, root, supply) ==
  IF (root = 0 \/ supply = 0) /\ header.height > 0
    THEN NoBlock
    ELSE Seal(header, ts, root, supply)

\* What BoundedVec lets through when a transaction is deserialized, what then has
\* a type and keys, and what it becomes.
WithinBounds(t) ==
  /\ Len(t.inputs) <= MAX_TX_INPUTS
  /\ Len(t.outputs) <= MAX_TX_OUTPUTS
  /\ Len(t.heartbeat_witnesses) <= MAX_WITNESSES
HasTypeAndKeys(t) == t.tx_type \in {Standard, Coinbase, Heartbeat} /\ t.keys_valid
TxWireDecode(t) == [t EXCEPT !.unsent = 0]

\* The decoder's block is sealed anew from what the wire carries, and kept if
\* it has the hash the wire claims.
wire_decode(version, w) ==
  IF \/ Len(w.transactions) > MAX_TRANSACTIONS
     \/ version # WIRE_VERSION
     \/ w.block_size > MAX_BLOCK_BYTES
     \/ \E i \in 1..Len(w.transactions) :
          ~WithinBounds(w.transactions[i]) \/ ~HasTypeAndKeys(w.transactions[i])
    THEN NoBlock
    ELSE LET txs == [i \in 1..Len(w.transactions) |-> TxWireDecode(w.transactions[i])]
             b == from_candidate(w.header, txs, w.state_root, w.total_supply)
         IN  IF b # NoBlock /\ b.block_hash = w.block_hash THEN b ELSE NoBlock

is_genesis(b) == b.header.height = 0 /\ b.header.prev_hash = 0

\* The nullifiers a block's transactions of kind Standard spend, each as
\* <<transaction, input>>.
SpendsOf(b) ==
  UNION {{<<i, j>> : j \in 1..Len(b.transactions[i].inputs)} :
           i \in {k \in 1..Len(b.transactions) : b.transactions[k].tx_type = Standard}}
\* Mutant: a nullifier may come twice.
AnyNullifiers(b) == \A s \in SpendsOf(b) : b.transactions[s[1]].inputs[s[2]] # 0
NullifiersOK(b) ==
  /\ \A s \in SpendsOf(b) : b.transactions[s[1]].inputs[s[2]] # 0
  /\ \A s, r \in SpendsOf(b) :
       s # r => b.transactions[s[1]].inputs[s[2]] # b.transactions[r[1]].inputs[r[2]]
StandardOK(b, t) ==
  /\ t.poh_tick \in b.header.poh_tick_start..b.header.poh_tick_end
  /\ ~(FoldLeft(LAMBDA n, o : n + o, 0, t.outputs) % SUM_MODULUS = 0 /\ t.fee = 0)
  /\ t.locktime > 0 => t.locktime <= b.header.height

validate_internal(b) ==
  /\ b.block_hash = compute_hash(b)
  /\ b.block_size <= MAX_BLOCK_BYTES
  /\ Len(b.transactions) \in 1..MAX_TRANSACTIONS
  /\ b.header.poh_tick_end >= b.header.poh_tick_start
  /\ b.transactions_root = compute_transactions_root(b.transactions)
  /\ {i \in 1..Len(b.transactions) : is_heartbeat(b.transactions[i])}
       = IF is_genesis(b) THEN {} ELSE {1}
  /\ Cardinality({i \in 1..Len(b.transactions) : is_coinbase(b.transactions[i])}) = 1
  /\ NullifiersOK(b)
  /\ \A i \in 1..Len(b.transactions) :
       b.transactions[i].tx_type = Standard => StandardOK(b, b.transactions[i])
-----------------------------------------------------------------------------
BlocksInit == sealed = NoBlock /\ received = NoBlock

\* The producer calls new, or from_candidate with a preview.  Its transactions
\* have a type and keys, as Rust's types see to.
Produce(header, ts, root, supply) ==
  /\ sealed = NoBlock
  /\ sealed' \in {NewBlock(header, ts, root, supply),
                  from_candidate(header, ts, root, supply)} \ {NoBlock}
  /\ UNCHANGED received

finalize_state(root, supply) ==
  /\ sealed # NoBlock /\ received = NoBlock
  /\ sealed' = WithHash([sealed EXCEPT !.state_root = root, !.total_supply = supply])
  /\ UNCHANGED received

\* What may become of the transactions on the way: one is replaced or lost,
\* two change places, the last ones come again.
Swapped(ts, i, j) == [ts EXCEPT ![i] = ts[j], ![j] = ts[i]]
Exchanged(ts) ==
  {ReplaceAt(ts, i, t) : i \in 1..Len(ts), t \in BlockTxs}
    \cup {Swapped(ts, i, j) : i, j \in 1..Len(ts)}
Resized(ts) ==
  {RemoveAt(ts, i) : i \in 1..Len(ts)}
    \cup {ts \o SubSeq(ts, i, Len(ts)) : i \in 1..Len(ts)}
Altered(ts) == {ts} \cup Exchanged(ts) \cup Resized(ts)

Deliver(version, header, ts, supply) ==
  /\ LET b == wire_decode(version, [sealed EXCEPT !.header = header, !.transactions = ts,
                                                  !.total_supply = supply])
     IN  b # NoBlock /\ received' = b
  /\ UNCHANGED sealed

BlocksNext ==
  \/ \E header \in Headers, root \in StateRoots, supply \in Supplies :
       \E ts \in UNION {[1..n -> {t \in BlockTxs : HasTypeAndKeys(t)}] : n \in 0..CANDIDATE_MAX} :
         Produce(header, ts, root, supply)
  \/ \E root \in StateRoots, supply \in Supplies : finalize_state(root, supply)
  \/ /\ sealed # NoBlock
     /\ \E version \in WireVersions, header \in Headers,
           ts \in Altered(sealed.transactions), supply \in Supplies :
          Deliver(version, header, ts, supply)
-----------------------------------------------------------------------------
\* A hash names one block.  Whatever a node decodes and accepts under the hash of
\* a block that the producer finds valid is the same block, apart from what the
\* hashes of its transactions leave out, though the Merkle root alone does not
\* tell a list from one whose tail comes twice.  Blocks with a transaction that
\* spends nothing are left out: if it is their last, they have a twin that passes
\* too.
HashNamesOneBlock ==
  ( /\ received # NoBlock
    /\ validate_internal(received) /\ validate_internal(sealed)
    /\ \A i \in 1..Len(received.transactions) :
         received.transactions[i].tx_type = Standard => received.transactions[i].inputs # <<>> )
  => /\ received.header = sealed.header
     /\ received.state_root = sealed.state_root
     /\ received.total_supply = sealed.total_supply
     /\ Len(received.transactions) = Len(sealed.transactions)
     /\ \A i \in 1..Len(sealed.transactions) :
          recompute_hash(received.transactions[i]) = recompute_hash(sealed.transactions[i])

\* Producer and receiver agree.  Whichever way it was sealed, a block that the
\* producer finds valid, that has a state and whose transactions keep to the
\* wire's bounds, which validate_internal does not check, arrives under the
\* same hash and is found valid, although the decoder computes size, roots and
\* hashes anew and some fields do not come along.
ValidBlocksArrive ==
  ( /\ sealed # NoBlock /\ validate_internal(sealed)
    /\ sealed.header.height = 0 \/ (sealed.state_root # 0 /\ sealed.total_supply # 0)
    /\ \A i \in 1..Len(sealed.transactions) : WithinBounds(sealed.transactions[i]) )
  => LET b == wire_decode(WIRE_VERSION, sealed)
     IN  b # NoBlock /\ validate_internal(b) /\ b.block_hash = sealed.block_hash
=============================================================================
