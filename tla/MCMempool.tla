----------------------------- MODULE MCMempool -----------------------------
(***************************************************************************)
(* A small mempool for TLC: two fee buckets; a cheap transaction, a rival  *)
(* that double-spends with it and pays more, a plain one without inputs    *)
(* like those of the unit tests, a rich one, and one larger than the whole *)
(* pool.  Each limit is the one that turns some transaction away.          *)
(***************************************************************************)
EXTENDS Mempool

MCTxs == {"cheap", "plain", "rich", "rival", "huge"}
MCFee == [cheap |-> 1, plain |-> 1, rich |-> 3, rival |-> 2, huge |-> 1]
MCEstimatedSize ==
  [cheap |-> 1, plain |-> 1, rich |-> 2, rival |-> 1, huge |-> 9]
MCNullifiers == {"n1", "n2", "n3"}
MCInputs == [cheap |-> {"n1"}, plain |-> {}, rich |-> {"n2", "n3"},
             rival |-> {"n1"}, huge |-> {"n2"}]

\* Limits that do not bind, a count limit of zero, and a byte limit that binds.
MCBlockLimits == {[max_tx |-> 2, max_bytes |-> 4],
                  [max_tx |-> 0, max_bytes |-> 4],
                  [max_tx |-> 2, max_bytes |-> 2]}
=============================================================================
