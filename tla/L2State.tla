------------------------------ MODULE L2State ------------------------------
(***************************************************************************)
(* aevum-l2's execution engine: account balances, nonces, the transactions *)
(* already processed, and the counters that stats() reports.  It is used   *)
(* through &mut, so every call is atomic.  All arithmetic is u64 and       *)
(* saturates.                                                              *)
(*                                                                         *)
(* A transaction is a record of module L2Transaction, and some of those    *)
(* submitted were altered after they were sealed, or signed by another.    *)
(***************************************************************************)
EXTENDS L2Transaction

CONSTANTS
  Accounts,
  founder,
  community_fund,
  Txs,                 \* the transactions submitted
  MAX_U64,
  Deposits,            \* the amounts credit is called with
  MaxCredited          \* bound: no further credit once this much was credited

ASSUME AccountsAssumption ==
  /\ IsFiniteSet(Accounts)
  /\ {founder, community_fund} \subseteq Accounts
  /\ MAX_U64 \in Nat
  /\ Deposits \subseteq 0..MAX_U64
  /\ MaxCredited \in Nat
ASSUME TxsAssumption == \A tx \in Txs :
  /\ {tx.from, tx.to} \subseteq Accounts
  /\ {tx.amount, tx.fee, tx.nonce} \subseteq 0..MAX_U64

VARIABLES
  balances,            \* account |-> balance
  nonces,              \* account |-> next nonce
  processed,           \* hashes of the transactions processed
  utxos,               \* the outputs created
  tx_count,
  total_fees,
  credited,            \* history: the sum of all deposits
  executed             \* history: the transactions processed

l2Vars == <<balances, nonces, processed, utxos, tx_count, total_fees, credited, executed>>
-----------------------------------------------------------------------------
\* u64::saturating_add.
SaturatingAdd(a, b) == IF a + b <= MAX_U64 THEN a + b ELSE MAX_U64

BalanceIn(b, u) == IF u \in DOMAIN b THEN b[u] ELSE 0
balance(u) == BalanceIn(balances, u)
nonce(u) == IF u \in DOMAIN nonces THEN nonces[u] ELSE 0

\* The balances b after x is added to, or taken from, u's.
Credit(b, u, x) == Put(b, {u}, SaturatingAdd(BalanceIn(b, u), x))
Debit(b, u, x) == Put(b, {u}, SaturatingSub(BalanceIn(b, u), x))

L2Init ==
  /\ balances = [u \in {} |-> 0]
  /\ nonces = [u \in {} |-> 0]
  /\ processed = {}
  /\ utxos = <<>>
  /\ tx_count = 0
  /\ total_fees = 0
  /\ credited = 0
  /\ executed = {}

credit(u, amount) ==
  /\ credited < MaxCredited
  /\ balances' = Credit(balances, u, amount)
  /\ credited' = credited + amount
  /\ UNCHANGED <<nonces, processed, utxos, tx_count, total_fees, executed>>

Required(tx) == SaturatingAdd(tx.amount, tx.fee)

\* build_context refuses a transaction unless all of these hold.
\* Mutant: the nonce is only a lower bound.
AcceptsLaterNonce(tx) ==
  /\ is_valid(tx)
  /\ tx.tx_hash \notin processed
  /\ tx.nonce >= nonce(tx.from)
  /\ balance(tx.from) >= Required(tx)
Accepts(tx) ==
  /\ is_valid(tx)
  /\ tx.tx_hash \notin processed
  /\ tx.nonce = nonce(tx.from)
  /\ balance(tx.from) >= Required(tx)

\* The four balance updates, each reading what the one before wrote, since the
\* parties may coincide.  Mutant: the receiver's is read before the sender pays.
SettledFromCopies(tx) ==
  LET paid == Debit(balances, tx.from, Required(tx))
      received == Put(paid, {tx.to}, SaturatingAdd(balance(tx.to), tx.amount))
      founded == Credit(received, founder, founder_cut(tx.fee))
  IN Credit(founded, community_fund, community_cut(tx.fee))
Settled(tx) ==
  LET paid == Debit(balances, tx.from, Required(tx))
      received == Credit(paid, tx.to, tx.amount)
      founded == Credit(received, founder, founder_cut(tx.fee))
  IN Credit(founded, community_fund, community_cut(tx.fee))

process_transaction(tx) ==
  /\ Accepts(tx)
  /\ processed' = processed \cup {tx.tx_hash}
  /\ balances' = Settled(tx)
  /\ total_fees' = SaturatingAdd(total_fees, tx.fee)
  /\ nonces' = Put(nonces, {tx.from}, SaturatingAdd(nonce(tx.from), 1))
  /\ utxos' = Append(utxos, NewUtxo(tx.to, tx.amount, tx.tx_hash, tx.dna))
  /\ tx_count' = SaturatingAdd(tx_count, 1)
  /\ executed' = executed \cup {tx}
  /\ UNCHANGED credited

L2Next ==
  \/ \E u \in Accounts, amount \in Deposits : credit(u, amount)
  \/ \E tx \in Txs : process_transaction(tx)
-----------------------------------------------------------------------------
Balances == [u \in Accounts |-> balance(u)]

\* As long as all deposits together stay below u64::MAX, no transfer mints or
\* burns anything, whoever of sender, receiver, founder and fund coincide: the
\* balances always sum to what was deposited.  (An account that holds exactly
\* u64::MAX can pay an amount and fee that together exceed it, because the sum
\* it must hold saturates.)
ValueIsConserved == credited < MAX_U64 => Weight(Accounts, Balances) = credited

SentBy(u) == {tx \in executed : tx.from = u}

\* An account's transactions are executed in the order of their nonces, none
\* missing and none twice (until a nonce reaches u64::MAX).  There is exactly one
\* output for each, and tx_count and total_fees are their number and their fees.
NoncesInOrder ==
  /\ \A u \in Accounts : Cardinality(SentBy(u)) < MAX_U64 =>
       /\ nonce(u) = Cardinality(SentBy(u))
       /\ {tx.nonce : tx \in SentBy(u)} = 0..(nonce(u) - 1)
  /\ processed = {utxos[i].tx_hash : i \in 1..Len(utxos)}
  /\ Len(utxos) = Cardinality(executed)
  /\ tx_count = IF Len(utxos) < MAX_U64 THEN Len(utxos) ELSE MAX_U64
  /\ LET fees == Weight(executed, [tx \in executed |-> tx.fee])
     IN total_fees = IF fees < MAX_U64 THEN fees ELSE MAX_U64
=============================================================================
