------------------------------ MODULE Economics ------------------------------
(***************************************************************************)
(* aevum-core's monetary rules: the block reward and its halvings, the     *)
(* closed form of the emission, the split of fees, and the coinbase that   *)
(* is refused when it would exceed the supply.  They are pure functions;   *)
(* Mine is the producer that calls create_coinbase block after block from  *)
(* the one after genesis on and passes in the supply so far.               *)
(***************************************************************************)
EXTENDS Collections

CONSTANTS
  INITIAL_REWARD,
  HALVING_INTERVAL,
  MAX_SUPPLY,
  FEE_BPS,
  DEV_SHARE_BPS,
  MAX_HALVINGS,        \* 63 in the code: there is no reward from here on
  AMOUNT_MAX,          \* u64::MAX, where sums and products of amounts saturate
  genesis_amount,      \* the supply that the genesis block brings
  FeesOfABlock,        \* what the transactions of a block may pay
  MaxHeight            \* bound: the heights considered

ASSUME EconomicsAssumption ==
  /\ {INITIAL_REWARD, MAX_SUPPLY, MAX_HALVINGS, MaxHeight} \subseteq Nat
  /\ HALVING_INTERVAL \in Nat \ {0}
  /\ FEE_BPS \in 0..10000 /\ DEV_SHARE_BPS \in 0..10000
  /\ FeesOfABlock \subseteq Nat
  /\ AMOUNT_MAX \in Nat /\ MAX_SUPPLY < AMOUNT_MAX

\* Genesis is refused without a supply (genesis.rs:40, config.rs:115).  The code's
\* is 2,100 initial rewards, and no more than MAX_SUPPLY.
ASSUME GenesisAssumption ==
  /\ genesis_amount \in Nat \ {0}
  /\ INITIAL_REWARD <= genesis_amount /\ genesis_amount <= MAX_SUPPLY

\* The supply is used up while halving the reward leaves no remainder, at the
\* latest with the period after L halvings.  L is 0 with the code's constants.
ASSUME EmissionAssumption ==
  \E L \in 0..(MAX_HALVINGS - 1) :
    /\ \A k \in 1..L : Shr(INITIAL_REWARD, k - 1) = 2 * Shr(INITIAL_REWARD, k)
    /\ (2 * INITIAL_REWARD - Shr(INITIAL_REWARD, L)) * HALVING_INTERVAL >= MAX_SUPPLY

VARIABLES
  height,              \* the next block's
  supply,              \* the genesis supply and what all coinbases have paid out
  fees_minted          \* history: the part of it that create_coinbase took as fees

economicsVars == <<height, supply, fees_minted>>
-----------------------------------------------------------------------------
Lesser(a, b) == IF a <= b THEN a ELSE b

halving(h) == h \div HALVING_INTERVAL

block_reward(h) ==
  IF halving(h) >= MAX_HALVINGS THEN 0 ELSE Shr(INITIAL_REWARD, halving(h))

\* The sum of a geometric series over the full periods below h, and the
\* current reward for the blocks since.  Mutant: the current period's reward is
\* that of the period before.
EmittedAtOldReward(h) ==
  LET capped == Lesser(h, HALVING_INTERVAL * MAX_HALVINGS)
      full_periods == halving(capped)
      twice == 2 * INITIAL_REWARD * HALVING_INTERVAL
      complete_sum == IF full_periods >= MAX_HALVINGS THEN twice
                      ELSE twice - Shr(twice, full_periods)
      partial == Shr(INITIAL_REWARD, SaturatingSub(full_periods, 1))
                 * (capped % HALVING_INTERVAL)
  IN  Lesser(complete_sum + partial, MAX_SUPPLY)
emitted(h) ==
  LET capped == Lesser(h, HALVING_INTERVAL * MAX_HALVINGS)
      full_periods == halving(capped)
      twice == 2 * INITIAL_REWARD * HALVING_INTERVAL
      complete_sum == IF full_periods >= MAX_HALVINGS THEN twice
                      ELSE twice - Shr(twice, full_periods)
      partial == block_reward(capped) * (capped % HALVING_INTERVAL)
  IN  Lesser(complete_sum + partial, MAX_SUPPLY)

\* saturating_add and saturating_mul of u64.
AddAmounts(a, b) == Lesser(a + b, AMOUNT_MAX)
TimesAmount(a, b) == Lesser(a * b, AMOUNT_MAX)

\* At least one unit is taken, also from no fees at all.
fee(amount) ==
  LET share == TimesAmount(amount, FEE_BPS) \div 10000
      gross == IF share >= 1 THEN share ELSE 1
      dev == TimesAmount(gross, DEV_SHARE_BPS) \div 10000
  IN  [net |-> SaturatingSub(gross, dev), dev |-> dev]

\* The outputs of create_coinbase, to the miner and to the developers, their
\* total, and whether it agrees to pay that.
miner_reward(h, fees) == AddAmounts(block_reward(h), fee(fees).net)
CoinbaseTotal(h, fees) == AddAmounts(miner_reward(h, fees), fee(fees).dev)
MayCreateCoinbase(h, fees) ==
  /\ supply <= MAX_SUPPLY
  /\ AddAmounts(supply, CoinbaseTotal(h, fees)) <= MAX_SUPPLY

EconomicsInit == height = 1 /\ supply = genesis_amount /\ fees_minted = 0

Mine(fees) ==
  /\ height < MaxHeight
  /\ MayCreateCoinbase(height, fees)
  /\ supply' = supply + miner_reward(height, fees) + fee(fees).dev
  /\ fees_minted' = fees_minted + fee(fees).net + fee(fees).dev
  /\ height' = height + 1

EconomicsNext == \E fees \in FeesOfABlock : Mine(fees)
-----------------------------------------------------------------------------
\* The sum of the rewards of the blocks below height h.
SumOfRewards(h) == SumTo([k \in 1..h |-> block_reward(k - 1)], h)

\* The closed form of emitted is what the blocks are rewarded, at every height
\* and across every halving, until it stops at MAX_SUPPLY; and the supply is that
\* of genesis, what emitted grew by since the block after it, and the fees:
\* within MAX_SUPPLY, although the checks saturate and emitted counts a reward
\* for genesis instead of its supply.
EmissionIsExact ==
  /\ \A h \in 0..MaxHeight : emitted(h) = Lesser(SumOfRewards(h), MAX_SUPPLY)
  /\ supply = genesis_amount + (emitted(height) - emitted(1)) + fees_minted
  /\ supply <= MAX_SUPPLY

\* What the test emitted_matches_brute_force asserts of one height, here the last
\* considered, for a chain that has not passed it: something was emitted by
\* then, and less than MAX_SUPPLY.
EmissionIsUnfinished ==
  height <= MaxHeight => emitted(MaxHeight) > 0 /\ emitted(MaxHeight) < MAX_SUPPLY
=============================================================================
