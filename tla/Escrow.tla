------------------------------- MODULE Escrow -------------------------------
(***************************************************************************)
(* aevum-core's escrow contract: a customer's reward for a compute task,   *)
(* the miners' shares, a winner, and the division of the reward among      *)
(* them.  The contract is used through &mut, so every call is atomic.      *)
(* Arithmetic is u64 and wraps, as in a release build.                     *)
(***************************************************************************)
EXTENDS Collections

CONSTANTS
  customer,
  Miners,                \* whose shares are counted; the customer may be one
  TotalRewards,          \* the rewards a contract may be funded with
  Shares,                \* the numbers of shares add_share is called with
  winner_bonus_percent,  \* in 1/10000, like the pool fee
  pool_fee_percent,
  U64,                   \* 2^64
  NoOne,                 \* the absent winner
  MaxCalls               \* bound: calls of add_share

ASSUME EscrowAssumption ==
  /\ IsFiniteSet(Miners) /\ NoOne \notin Miners /\ customer # NoOne
  /\ winner_bonus_percent \in 0..10000 /\ pool_fee_percent \in 0..10000
  /\ U64 \in Nat \ {0} /\ MaxCalls \in Nat
  /\ TotalRewards \subseteq 0..(U64 - 1) /\ Shares \subseteq 0..(U64 - 1)

VARIABLES contract, calls

escrowVars == <<contract, calls>>
-----------------------------------------------------------------------------
Wrapped(n) == n % U64

\* The sum of the second components: of shares, or of payouts.
Total(pairs) == SumTo([i \in 1..Len(pairs) |-> pairs[i][2]], Len(pairs))

\* The first position with key k, or 0.
Find(pairs, k) ==
  LET at == {i \in 1..Len(pairs) : pairs[i][1] = k}
  IN  IF at = {} THEN 0 ELSE CHOOSE i \in at : \A j \in at : i <= j

\* Add n to k's entry, or append one.
AddTo(pairs, k, n) ==
  LET i == Find(pairs, k)
  IN  IF i = 0 THEN Append(pairs, <<k, n>>)
      ELSE [j \in 1..Len(pairs) |-> IF j = i THEN <<k, Wrapped(pairs[i][2] + n)>> ELSE pairs[j]]

EscrowInit ==
  /\ contract \in {[total_reward |-> r, status |-> "Funded", miner_shares |-> <<>>,
                    winner |-> NoOne] : r \in TotalRewards}
  /\ calls = 0

add_share(miner, shares) ==
  /\ calls < MaxCalls
  /\ contract' = [contract EXCEPT !.miner_shares = AddTo(@, miner, shares)]
  /\ calls' = calls + 1

\* Nothing keeps the winner from being set again, or among no miners.
set_winner(w) ==
  /\ contract' = [contract EXCEPT !.winner = w, !.status = "Completed"]
  /\ UNCHANGED calls

\* The status changes; the customer is paid total_reward less the pool fee.
refund ==
  /\ contract' = [contract EXCEPT !.status = "Refunded"]
  /\ UNCHANGED calls

EscrowNext ==
  \/ \E m \in Miners, s \in Shares : add_share(m, s)
  \/ \E w \in Miners : set_winner(w)
  \/ refund
-----------------------------------------------------------------------------
pool_fee == Wrapped(contract.total_reward * pool_fee_percent) \div 10000
remaining == contract.total_reward - pool_fee
winner_bonus ==
  IF contract.winner = NoOne THEN 0
  ELSE Wrapped(remaining * winner_bonus_percent) \div 10000
base == remaining - winner_bonus
total_shares == Wrapped(Total(contract.miner_shares))

\* Each miner's part of the base, rounded down; nothing is paid for a part of 0.
MinerPayouts ==
  LET parts == [i \in 1..Len(contract.miner_shares) |->
        <<contract.miner_shares[i][1],
          Wrapped(base * contract.miner_shares[i][2]) \div total_shares>>]
  IN  RetainAt(parts, {i \in 1..Len(parts) : parts[i][2] > 0})

\* The winner's bonus is added to its payout.  Mutant: it replaces it.
BonusInstead(payouts) ==
  IF winner_bonus = 0 THEN payouts
  ELSE Append(SelectSeq(payouts, LAMBDA p : p[1] # contract.winner),
              <<contract.winner, winner_bonus>>)
WithBonus(payouts) ==
  IF winner_bonus = 0 THEN payouts
  ELSE AddTo(payouts, contract.winner, winner_bonus)

\* What is left of the base goes back to the customer.
distribute_reward ==
  IF contract.miner_shares = <<>> \/ total_shares = 0 THEN <<>>
  ELSE LET payouts == WithBonus(MinerPayouts)
           left == Wrapped(remaining - Total(payouts))
       IN  IF left > 0 THEN Append(payouts, <<customer, left>>) ELSE payouts
-----------------------------------------------------------------------------
\* Shares small enough for their sum and for base * shares to stay within u64.
NoOverflow ==
  /\ Total(contract.miner_shares) < U64
  /\ \A i \in 1..Len(contract.miner_shares) : base * contract.miner_shares[i][2] < U64

\* Part(k): what k's shares and k's victory earn it.
Part(k) ==
  LET i == Find(contract.miner_shares, k)
  IN  (IF i = 0 THEN 0 ELSE (base * contract.miner_shares[i][2]) \div total_shares)
      + (IF k = contract.winner THEN winner_bonus ELSE 0)
PaidTo(k, pairs) ==
  SumTo([i \in 1..Len(pairs) |-> IF pairs[i][1] = k THEN pairs[i][2] ELSE 0], Len(pairs))
Received(k) == PaidTo(k, distribute_reward)

\* Once someone holds shares, the payouts are exactly the reward less the pool
\* fee.  Each miner receives its part, whatever the order and number of
\* add_share calls and whoever won, and the customer gets back only what
\* rounding leaves, less than a unit per miner.
PayoutsAreExact ==
  total_shares > 0 /\ NoOverflow =>
    /\ Total(distribute_reward) = remaining
    /\ \A k \in Miners \ {customer} : Received(k) = Part(k)
    /\ Received(customer) - Part(customer) \in 0..(Len(contract.miner_shares) - 1)
=============================================================================
