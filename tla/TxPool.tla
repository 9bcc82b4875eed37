------------------------------- MODULE TxPool -------------------------------
(***************************************************************************)
(* What a transaction pool promises, whatever structures keep it: a set of *)
(* pending transactions that never holds two spenders of one nullifier and *)
(* never outgrows its limits, from which block building takes transactions *)
(* one at a time.  Module Mempool is shown to implement it.                *)
(***************************************************************************)
EXTENDS Collections

CONSTANTS
  Txs,        \* transactions, named by their hash
  Inputs,     \* Inputs[t]: the nullifiers t spends
  TxBytes,    \* TxBytes[t]: the size the pool accounts for t
  MaxCount,   \* most transactions pending at once
  MaxWeight   \* most bytes pending at once

VARIABLES
  pool,       \* the pending transactions
  block       \* the transactions of the block built last, or being built

poolVars == <<pool, block>>

Init == pool = {} /\ block = <<>>

\* Two transactions that cannot both be in one block.
Conflict(t, u) == Inputs[t] \cap Inputs[u] # {}

Admit(t) ==
  /\ t \notin pool
  /\ \A u \in pool : ~Conflict(t, u)
  /\ Cardinality(pool) < MaxCount
  /\ Weight(pool, TxBytes) + TxBytes[t] <= MaxWeight
  /\ pool' = pool \cup {t}
  /\ UNCHANGED block

\* Pending transactions are given up: removed by hash or timed out.
Discard(S) == pool' = pool \ S /\ UNCHANGED block

StartBlock == block' = <<>> /\ UNCHANGED pool

Take(t) ==
  /\ t \in pool
  /\ pool' = pool \ {t}
  /\ block' = Append(block, t)

Next ==
  \/ \E t \in Txs : Admit(t) \/ Take(t)
  \/ \E S \in SUBSET pool : Discard(S)
  \/ StartBlock

Spec == Init /\ [][Next]_poolVars
=============================================================================
