------------------------------ MODULE WireView ------------------------------
(***************************************************************************)
(* The zero-copy decoder of a received block: BlockView::parse reads the   *)
(* header, BlockTxIter the transactions one by one.  The buffer holds an   *)
(* encoded block that was cut short or has one field changed on the way.   *)
(* Neighbouring fields of fixed width that are read or skipped together    *)
(* are one cell; a variable-length field is its length and that many cells.*)
(***************************************************************************)
EXTENDS Integers, Sequences, SequencesExt, Collections

CONSTANTS
  EXPECTED_WIRE_VERSION,   \* 5
  Cells,                   \* the values of a changed cell
  WireTxs,                 \* [tx_type, sigs, proofs, witnesses, fee, tx_hash]
  BLOCK_TXS_MAX            \* bound: transactions in a block

\* sigs, proofs and witnesses are the lengths of the transaction's signatures,
\* proofs and witnesses, in order.
ASSUME WireAssumption ==
  /\ EXPECTED_WIRE_VERSION \in Nat /\ Cells \subseteq Nat
  /\ \A t \in WireTxs :
       /\ {t.sigs, t.proofs, t.witnesses} \subseteq Seq(Nat)
       /\ {t.tx_type, t.fee, t.tx_hash} \subseteq Nat

VARIABLES
  txs,                     \* the transactions that were encoded
  data,                    \* the buffer
  damage,                  \* history: the cells before it are as encoded
  cursor,                  \* BlockTxIter: its position, None before the header is read
  remaining,
  views,                   \* history: what next has returned
  stopped                  \* the caller has had None

wireVars == <<txs, data, damage, cursor, remaining, views, stopped>>
-----------------------------------------------------------------------------
\* The encoders of the module's tests; a cell nobody interprets is 0.
Opaque(n) == [i \in 1..n |-> 0]
Item(len, before, after) == Opaque(before) \o <<len>> \o Opaque(len) \o Opaque(after)
Each(lens, before, after) ==
  FlattenSeq([i \in 1..Len(lens) |-> Item(lens[i], before, after)])
make_tx_wire(t) ==
  <<EXPECTED_WIRE_VERSION, 0, t.tx_type>>
    \o <<Len(t.sigs)>> \o Each(t.sigs, 1, 1)
    \o <<Len(t.proofs)>> \o Each(t.proofs, 1, 1)
    \o <<t.fee, t.tx_hash, 0>>
    \o <<Len(t.witnesses)>> \o Each(t.witnesses, 0, 0)
make_block_wire(n) == <<EXPECTED_WIRE_VERSION, 0, n>>
BLOCK_HEADER_SIZE == 3
Trailer == Opaque(1)
Encoded(ts) ==
  make_block_wire(Len(ts)) \o FlattenSeq([i \in 1..Len(ts) |-> make_tx_wire(ts[i])])
    \o Trailer
-----------------------------------------------------------------------------
\* A cursor is a position, or None once a read has failed: every caller of it
\* returns None then.
None == -1
skip(d, p, n) == IF p = None \/ p + n > Len(d) THEN None ELSE p + n

\* A count or a length, 0 where the read fails.
u32(d, p) == IF skip(d, p, 1) = None THEN 0 ELSE d[p + 1]

\* A field of variable length between two groups of fixed width.  Mutant: the
\* length is read, the field is not skipped.
SkipLengthOnly(d, p, before, after) ==
  LET len == skip(d, p, before) IN skip(d, skip(d, len, 1), after)
SkipItem(d, p, before, after) ==
  LET len == skip(d, p, before)
  IN  skip(d, skip(d, skip(d, len, 1), u32(d, len)), after)

SkipItems(d, p, count, before, after) ==
  LET behind[i \in 0..count] == IF i = 0 THEN p ELSE SkipItem(d, behind[i - 1], before, after)
  IN  behind[count]

skip_inputs(d, p, count) == SkipItems(d, p, count, 1, 1)
skip_outputs(d, p, count) == SkipItems(d, p, count, 1, 1)
skip_witnesses(d, p) == SkipItems(d, skip(d, p, 1), u32(d, p), 0, 0)

\* Where TxView::parse and check_min_fee find the fields of a transaction.
Layout(d) ==
  LET inputs == skip(d, 0, 3)
      outputs == skip_inputs(d, skip(d, inputs, 1), u32(d, inputs))
      fee == skip_outputs(d, skip(d, outputs, 1), u32(d, outputs))
  IN  [inputs |-> inputs, outputs |-> outputs, fee |-> fee,
       end |-> skip_witnesses(d, skip(d, fee, 3))]
VersionOK(d) == d # <<>> /\ d[1] = EXPECTED_WIRE_VERSION

\* TxView::parse; a view of length None is no view.
NoView == [parsed_len |-> None]
TxView(d) ==
  LET at == Layout(d)
  IN  IF ~VersionOK(d) \/ at.end = None
        THEN NoView
        ELSE [tx_type |-> d[3], input_count |-> d[at.inputs + 1],
              output_count |-> d[at.outputs + 1], fee |-> d[at.fee + 1],
              tx_hash |-> d[at.fee + 2], parsed_len |-> at.end]

check_min_fee(d, min_fee) ==
  LET at == Layout(d)
  IN  VersionOK(d) /\ skip(d, at.fee, 1) # None /\ d[at.fee + 1] >= min_fee
-----------------------------------------------------------------------------
\* The first n cells, or all of them with cell i replaced.
Cut(n) == /\ data = SubSeq(Encoded(txs), 1, n)
          /\ damage = n
Changed(i, c) == /\ data = [Encoded(txs) EXCEPT ![i] = c]
                 /\ damage = i - 1

WireBlocks == UNION {[1..n -> WireTxs] : n \in 0..BLOCK_TXS_MAX}
WireInit(blocks) ==
  /\ txs \in blocks
  /\ \/ \E n \in 0..Len(Encoded(txs)) : Cut(n)
     \/ \E i \in 1..Len(Encoded(txs)), c \in Cells : c # Encoded(txs)[i] /\ Changed(i, c)
  /\ cursor = None
  /\ remaining = 0
  /\ views = <<>>
  /\ stopped = FALSE

\* BlockView::parse, and BlockTxIter::new behind the header.
Open ==
  /\ cursor = None /\ ~stopped
  /\ IF VersionOK(data) /\ BLOCK_HEADER_SIZE <= Len(data)
       THEN /\ cursor' = BLOCK_HEADER_SIZE
            /\ remaining' = data[3]
            /\ UNCHANGED stopped
       ELSE /\ stopped' = TRUE
            /\ UNCHANGED <<cursor, remaining>>
  /\ UNCHANGED <<txs, data, damage, views>>

\* BlockTxIter::next.
next ==
  /\ cursor # None /\ ~stopped
  /\ LET view == TxView(SubSeq(data, cursor + 1, Len(data)))
         end == skip(data, cursor, view.parsed_len)
     IN  IF remaining = 0 \/ view = NoView
           THEN stopped' = TRUE /\ UNCHANGED <<cursor, remaining, views>>
           ELSE /\ cursor' = end
                /\ remaining' = remaining - 1
                /\ views' = Append(views, view)
                /\ UNCHANGED stopped
  /\ UNCHANGED <<txs, data, damage>>

WireNext == Open \/ next
-----------------------------------------------------------------------------
\* The view of a transaction as it was encoded, and where its encoding ends.
ViewOf(t) ==
  [tx_type |-> t.tx_type, input_count |-> Len(t.sigs), output_count |-> Len(t.proofs),
   fee |-> t.fee, tx_hash |-> t.tx_hash, parsed_len |-> Len(make_tx_wire(t))]
EndOf(i) == Len(Encoded(SubSeq(txs, 1, i))) - Len(Trailer)

\* Where the i-th view ends.
ViewEnd(i) ==
  BLOCK_HEADER_SIZE + SumTo([k \in 1..Len(views) |-> views[k].parsed_len], i)

\* The views lie one behind the other in the buffer, and those of transactions
\* wholly before the damage are exactly these transactions; the iterator does
\* not stop before the first that is damaged, and check_min_fee finds the fee
\* the view reports.
ViewsAreExact ==
  LET intact == {i \in 1..Len(txs) : EndOf(i) <= damage}
  IN  /\ cursor # None => cursor = ViewEnd(Len(views)) /\ cursor <= Len(data)
      /\ \A i \in intact \cap 1..Len(views) : views[i] = ViewOf(txs[i])
      /\ stopped => \A i \in intact : i <= Len(views)
      /\ \A i \in 1..Len(views) :
           LET raw == SubSeq(data, ViewEnd(i - 1) + 1, ViewEnd(i))
           IN  /\ check_min_fee(raw, views[i].fee)
               /\ ~check_min_fee(raw, views[i].fee + 1)
=============================================================================
