# Aevum: TLA+ models, model checks and proofs

This project models the parts of the Aevum node that keep state and make
decisions: the mempool and the HTTP server over it, request authentication, the
chain state, blocks and their wire formats, state roots, the peer registry, the
DHT, the L2 execution engine, the trust model, the DNA ranges, the settlement
chain, the rules of rewards and escrow, and the merging iterator and Bloom filter
of the database.  TLC checks each model on a small instance, and TLAPS proves every
safety property that a run checks for every instance.  Module, definition and
source line correspond as listed in `PROJECT.json` under `map`; line numbers below
refer to files under `src/crates/`.

## 1. The system

| Component | State it keeps | Operations | Hard behaviour |
|---|---|---|---|
| Mempool (`aevum-node/src/mempool.rs`) | fee buckets of refs, index, nullifier claims, bodies, byte count, fee floor, statistics, behind one `RwLock` | `insert`, `build_block`, `remove_transactions`, `evict_stale`, `adjust_fee_floor` | four structures that must agree; refs that outlive their transaction; a loop that may not end; limits |
| Chain state (`aevum-core/src/chain_state.rs`) | UTXOs, spent nullifiers, roots, supply, height, two tips, finalized height, applied blocks, epoch | `preview_block`, `apply_block_checked`, `apply_genesis`, `apply_presence_record`, `finalize_up_to` | a tip read, a preview and an application under three locks; unchecked presence records; finality before genesis; reorganisations |
| Peer registry (`aevum-p2p/src/peers.rs`) | four concurrent maps, three atomic counters | `can_accept`, `register_peer`, `remove_peer`, `send_to`, `broadcast`, `update_peer_height`, `try_reserve_outbound_slot`, `mark_connect_failed` | no lock around the whole: every operation interleaves with every other between any two accesses; wrapping counters |
| DHT (`aevum-p2p/src/dht.rs`) | 256 buckets of nodes | `add_or_update`, `cleanup`, `find_closest` | full buckets, callers' clocks, an early-stopping search |
| L2 engine (`aevum-l2/src/l2_state.rs`, `l2_transaction.rs`) | balances, nonces, processed hashes, outputs, statistics | `credit`, `process_transaction` | coinciding parties, saturating arithmetic, replays |
| Trust model (`aevum-consensus/src/trust.rs`) | delegates, epoch, trust root | `delegate`, `revoke`, `advance_epoch`, `can_join`, `verify_root` | rounding of the quorum, two rules for endorsements |
| DNA ranges (`aevum-core/src/dna_range.rs`) | values held by a ledger that is not in the repository | `new_genesis`, `new_epoch`, `split`, `bridge_to_l2`, `verify*` | intervals at their ends, identity across splits and bridging |
| HTTP API (`aevum-node/src/http_server.rs`) | metrics; the mempool it shares | `submit_tx` and read-only handlers | a limit checked under another lock than the insertion, a metric read and stored in two steps, waiting behind `build_block` |
| Request authentication (`aevum-api/src/auth.rs`) | nonce cache, clock | `tick`, `verify` | eviction of nonces within their validity, a clock that jumps |
| Blocks, wire formats (`aevum-core/src/block.rs`, `wire.rs`, `wire_zero_copy.rs`) | values; a cursor over a buffer | `from_candidate`, `new`, `finalize_state`, `validate_internal`, `wire_decode`; `BlockView`, `BlockTxIter`, `check_min_fee` | Merkle trees with repeated tails, variable-length fields in damaged buffers |
| State roots (`aevum-core/src/state_root.rs`) | values | `compute_state_root`, `compute_state_preview` | the same state listed in different orders |
| Settlement blocks (`aevum-core/src/settlement.rs`) | sealed blocks, a chain of them | `finalize`, `verify_internal`, `verify_chain`, `verify_committee_signatures`, `verify_full` | hashes of hashes, repeated and reordered signatures, rival blocks |
| Economics, escrow (`aevum-core/src/economics.rs`, `escrow.rs`) | a contract | `block_reward`, `emitted`, `fee`, `create_coinbase`; `add_share`, `set_winner`, `refund`, `distribute_reward` | a closed form across halvings, rounding, overflow |
| Presence records (`aevum-core/src/presence.rs`) | values | constructors, `finalize`, `verify*`, `verify_dag_acyclic` | cycles through a record that is not yet in the map |
| Merging iterator, Bloom filter (`aevum-db/src/merge.rs`, `bloom.rs`) | heap and runs; bits and a file of them | `next_entry`; `add`, `may_contain`, `to_bytes`, `from_bytes`, `from_raw` | runs that fail or descend, files cut short |
| Addresses, compute tasks, configuration, errors, traits | values | encoding, validation | none that interleaves |

Interactions.  `submit_tx` checks a transaction's hash and gives it to the
mempool; block production takes transactions from the mempool, builds a
candidate on the chain state's last block, previews it and applies the finished
block.  Trust decides who may be a delegate, and settlement blocks carry the
signatures of a committee.  The DHT finds addresses that the peer registry
dials.  The orchestrator that connects all of this, `state_transition`,
`PeerStorage`, the cryptography and twelve of the crates named in the
repository's README have no source in it; where a model needs one of them it is
marked external and allowed to do whatever its interface permits.

What makes each component correct is stated in section 3 with its checks.  What
is hard to test is listed in `PROJECT.json` under `hazards`, at its source line.

## 2. Modules

`Collections` holds the operations of `std` the models share (maps as functions,
queues as sequences, sums, shifts).  Where one recurs it is a recursive function
and no `RECURSIVE` operator, so that `CollectionLemmas` can prove what it returns.

| Module | Models | Composed with |
|---|---|---|
| `TxPool` | what a transaction pool promises | implemented by `Mempool` |
| `Mempool`, `MCMempool` | the mempool | `INSTANCE TxPool` as refinement |
| `ChainState`, `ChainStateProofs` | the chain state and a block producer | |
| `Settlement`, `SettlementProofs` | settlement blocks, a committee and the nodes that accept | |
| `Chains`, `MCChains` | the two chains a node keeps | `ChainState` and `Settlement` |
| `PeersManager`, `PeersProofs`, `MCPeersManager` | the peer registry and its callers | |
| `HttpServer` | `submit_tx`, run by several workers | extends `Mempool`, whose lock, block building and removal it meets |
| `Auth` | request authentication | |
| `Gateway`, `GatewayProofs`, `MCGateway` | the two ways into a node | `HttpServer` and `Auth` |
| `Dht` | the Kademlia table | |
| `TrustModel` | the delegates | |
| `Membership`, `MembershipProofs`, `MCMembership` | whom a node knows and trusts | `TrustModel` and `Dht` |
| `L2Transaction`, `L2State` | the L2 engine | `L2State` extends `L2Transaction` |
| `DnaRange` | the provenance of satoshis | |
| `Economics`, `Escrow` | block rewards and escrow | |
| `Value`, `ValueProofs`, `MCValue` | where value is created, divided and moved | `Economics`, `Escrow`, `DnaRange`, `L2State` |
| `Merkle` | the tree blocks and state roots share | |
| `Blocks` | a block from its producer to the node that decodes and checks it | extends `Merkle` |
| `StateRoot` | the state root of a producer and of an executing node | extends `Merkle` |
| `WireView` | the zero-copy decoder | |
| `Presence` | the walk over presence records | |
| `Merge`, `Bloom` | the merging iterator and the Bloom filter | |
| `DataFormats`, `FormatsProofs`, `MCDataFormats` | the parts that turn data into other data | the six modules above |

`Chains`, `Gateway`, `Membership`, `Value` and `DataFormats` put components side by side
that share no state: a behaviour moves one of them while the others rest in an
initial state, so that one run checks them all without multiplying their states.

An operator marked as a mutant, defined just before the definition it varies, is
a plausible bug of that definition; `PROJECT.json` pairs each checked property
with a mutant that breaks it.

How state and actions correspond to the code:

* **Mempool.**  One variable per field of `MempoolInner`; a transaction is its
  hash, and fee, size and inputs are functions of it, because `submit_tx` only
  admits a transaction whose hash it has recomputed.  Each operation holds the
  write lock throughout and is one action, except `build_block`, whose loops are
  stepped (`NextBucket`, `SkipOrphan`, `RetryOversized`, `TakeFront`) while
  `building` keeps every other operation out.  The counters that only count
  rejections, evictions and blocks are left out: nothing reads them.  A rejected
  insert changes nothing else, so that it is a stuttering step.
* **ChainState.**  A block is a record of the fields the checks look at.  The
  ledger (UTXOs, spent nullifiers, roots, supply) is named by the sequence of blocks executed,
  which is what a deterministic `state_transition` makes it a function of.  The
  producer is three actions, `BuildCandidate`, `PreviewBlock` and
  `ApplyBlockChecked`; `recorded` remembers whether a presence record was
  applied, because the code makes no promises about linkage once one was.
* **PeersManager.**  A thread's operation is the list of accesses it still has
  to make, in program order; each access to one map entry or counter is one
  step.  `touched` and `raced` are history variables that say which nodes and
  IPs two operations used at the same time.  Instants are abstracted to the age
  classes the code distinguishes.  The callers (accept, dial, give up) are
  assumed as described in the module, since they are not in the repository.
* **Dht.**  An id is the set of its one bits and XOR is symmetric difference;
  `find_closest` is an operator, and its loop is given by the number of rounds.
* **L2State, TrustModel, DnaRange.**  Used through `&mut` or by value: one
  action per call.  Hashes are what they are hashes of (injectivity of blake3 is
  the assumption).  Transactions of the L2 engine are sealed and signed as
  `l2_transaction.rs` does it; some of those submitted were altered since.
* **Settlement.**  A block is a record of the fields that are hashed together;
  `finalize` and the `verify` functions are operators, the two nested loops of
  `verify_committee_signatures` one recursive function, whose body is
  `CountSignature`.  The proposers, the
  members and the nodes are external: a member signs one valid block per epoch,
  anything may circulate, and a block arrives with any list of signatures of it
  and its rivals.
* **Economics, Escrow.**  The monetary rules are operators, which saturate where the
  code does; `Mine` calls `create_coinbase` at one height after another, from the
  block after genesis and its supply on.  A contract is a record with one
  action per `&mut` operation; `distribute_reward` is an operator of its state.
* **HttpServer.**  A worker's `submit_tx` is one step per call that takes the
  mempool's lock or stores the metric (`Receive`, `CheckFull`, `InsertSubmitted`,
  `ReadLen`, `StoreMetric`); while `building`, the lock is taken.  `outdated` and
  `metric_outdated` are history variables that say which lengths the pool has
  left behind.  `NodeStep` is the rest of the node, whose code is not in the
  repository: it builds blocks and removes transactions.
* **Auth.**  `verify` takes `&mut self` and is one action.  A signature is the key
  and payload it was made for; body, chain id, endpoint and version are one
  content.  `accepted` is the history of the nonces let through, by sender.
* **Blocks.**  Hashes are what they are hashes of, so that the Merkle root is a
  tree and a list with its tail repeated really can have the root of another.
  The fields of a transaction that `recompute_hash` leaves out are one field,
  `unhashed`, if the wire carries them, and `unsent` if it does not and the decoder
  sets them to a constant; whether keys are valid is a field, too.  `Deliver` changes anything in a block but the hash it claims.
* **StateRoot.**  The arguments of the two functions are what changes; the order
  of the lists is the order in which UTXOs were created and spent.  Sorting puts an
  entry where the number of keys up to its own says.
* **WireView.**  A buffer is a sequence of cells; neighbouring fields of fixed
  width that are read or skipped together are one cell, counts and lengths are
  cells of their own, and a variable-length field is as many cells as its length.
  Encoders are the ones of the module's tests.  `damage` is where the buffer
  stops being what was encoded.
* **Presence.**  The walk is stepped pop by pop over lists of parents, which may
  name a record twice or none that is in the map.  `OnCycle` is the definition it is
  measured against: every set that holds a record's parents, and with a record its
  parents, holds the record itself.
* **Merge, Bloom.**  One action per call.  A run is a sequence of entries or
  errors; the heap is the set of drawn entries, since its order is total, and
  `returned` the history of what each run contributed.  The filter is the set of its one bits; a file is a filter of which `from_bytes` gets
  the first n bytes.

## 3. Runs

| Run | States | Shows |
|---|---|---|
| `mempool` | 262,695 | the structures agree (`BooksBalance`, `ClaimsAreExact`, `EveryPooledTxIsQueued`), blocks are sound (`BlockIsSound`) and in fee order (`RicherBucketsFirst`), the mempool implements `TxPool`, and `build_block` returns when its byte limit cannot bind (`RoomyBuildReturns`) |
| `chains` | 80,308 | linked history, executed anchors, fresh previews, fixed finalized history, bounded reorganisation; every field of an accepted settlement was signed by enough members (`ContentsAreCertified`) and two nodes accept the same linked chain (`ChainsAgree`) |
| `peers` | 700,436 | counters settle once all operations have returned; no more dialling slots stay taken than dials are under way, and those taken exceed the limit by at most a slot per further thread (`SlotsAreKept`); on IPs without a race per-IP counts are exact and every route leads to a registered peer (not that every peer has one); `broadcast` spares living peers and retries are spaced unless operations raced |
| `gateway` | 122,887 | the pool exceeds the configured size by a transaction per worker at most (`OvershootIsBounded`); the metric is the pool's length unless the pool changed after that length was read (`UnracedMetricIsExact`); every request is answered (`RequestsAreAnswered`); a nonce passes twice only when as many others of its sender as the cache holds passed in between (`ReplayNeedsAFullCache`) |
| `value` | 64,228 | the closed form of the emission is the sum of the rewards up to the supply limit, and the supply is that of genesis, the emission since and the fees (`EmissionIsExact`); escrow pays out exactly the reward less the pool fee, to each its part (`PayoutsAreExact`); ranges partition the supply and lead back to their emission; L2 value is conserved and nonces are used in order without gaps |
| `membership` | 1,438 | quorums intersect; whom `can_join` admits `delegate` admits on some endorser's word, exactly if it is no delegate yet and there is room, and on which endorsers' word (`JoinMeansDelegable`); buckets are sound; a search that returns fewer nodes than asked has missed none, over all 16 targets |
| `formats` | 775,711 | views of undamaged transactions are exact and complete (`ViewsAreExact`); two valid blocks with one hash are one block (`HashNamesOneBlock`); a block valid at its producer and within the wire's bounds decodes under its hash and is valid at the receiver (`ValidBlocksArrive`); roots agree exactly if states do (`RootIdentifiesState`); the walk finds exactly the cycles of the map (`WalkFindsCycles`); the merge is ordered and loses nothing that could be read (`MergeIsFaithful`); a key added is found, also after a round trip (`NoFalseNegatives`) |
| `mempool_build_returns` | violation | `build_block` loops for ever on a front transaction that does not fit |
| `mempool_evicts_only_stale` | violation | `evict_stale` drops a fresh transaction because of a stale ref to the same hash |
| `dht_closest` | violation | `find_closest` misses closer nodes |
| `presence_adding` | violation | `verify_dag_acyclic` passes a record that closes a cycle when it is added |
| `economics_unfinished` | violation | `emitted(500_000)` is `MAX_SUPPLY`, where a unit test asserts less |

The five violations are disagreements between the code and a comment or a test;
`findings` quotes both sides.

**Bounds.**  *mempool*: five transactions in two buckets, of which two double-spend,
one is oversized and one has no inputs; a pool of two, two instants with a TTL of
zero (a ref may have exactly its TTL or outlive it), block limits that bind in
bytes, in count at zero, or not at all; `MaxRefs` bounds the refs of a bucket to two, enough for an orphan in front
of a re-inserted transaction.  *chains*: two rival genesis blocks, skipped
heights, blocks that claim a height below their parent's, a forged hash, finality
up to height 2, four executed blocks; of settlements, two of three members must
sign; two nodes, which are interchangeable, two epochs, three blocks in
circulation, so that a rival and an altered block compete with a good one; lists of
up to four signatures, one more than the committee has keys.  *peers*: two threads, two nodes, two
addresses, all limits 1, four operations in total: enough for three operations
to set a scene and a fourth to race with the last of them; counters wrap at 8.
*gateway*: two workers and three requests, a configured limit of no transaction
at all and a pool of three, so that both workers pass the check together; two
senders, three nonces, caches of none to two, four accepted requests, times on
both sides of the window.  *value*: u64 is 0..99 for L2, deposits of 49 and 50, so
that sums reach the limit exactly without passing it; four satoshis in two
emissions, two splits, two owners, two bridges; three blocks per halving and a
supply that ends exactly in the third period, while the reward still divides
evenly, as in the code, and fees of which one saturates; three calls of `add_share`, among them shares of 0
and shares whose product with the reward leaves u64.  *membership*: six delegates
at most, quorum between 3 and 4, so that both clamps act; 4-bit ids in 2-bit
bytes, six ids (one of them ours), three in a bucket of two, three times.
*formats*:
blocks of up to two transactions, cut at every cell or with any one cell changed;
candidates of up to three transactions out of nine, so that a tail can come twice,
three of which exceed a bound of the wire, and two more that do not decode;
four UTXOs of which two share a nullifier, and up to four spent nullifiers of
three, so that a repeated leaf meets an odd level; every graph of three records;
every pair of runs of up to three and two entries over two keys and two sequence
numbers, with errors anywhere; filters of one to three words of four bits.
Deadlock is not checked where the bound on operations, deposits, requests or
executed blocks makes the model stop, or where data has been processed to its end
(`chains`, `peers`, `gateway`, `value`, `formats`); everywhere
else it is.

**Fairness.**  `Mempool!FairSpec` states weak fairness of `BuildPass`, the thread
inside `build_block`: it holds the lock and its loop contains nothing that blocks,
so the scheduler runs it.  `HttpServer!HttpFairness` adds strong fairness of each
worker: it is the lock that a worker waits for between two blocks, and
`parking_lot`'s lock is eventually fair, so that one who keeps finding it free gets
it.  No fairness is assumed of callers, requests, clocks or the network.

**Observations without a run.**  Without the exception for racing IPs,
`UnracedIpsAreExact` fails: `decrement_ip` may remove an entry that a concurrent
registration has just raised.  `ValueIsConserved` needs its premise: an account
that holds exactly `u64::MAX` can pay an amount and fee that exceed it.
The
module comment of `trust.rs` says "quorum = 2/3 network_size"; the code rounds
down and caps the result, so that three of five are a quorum, and nine of any
number from fifteen on.  With the constants of `economics.rs` the supply of
37,100 block rewards is used up within the first halving interval of 350,000
blocks; `create_coinbase` then refuses instead of paying what is left.  `emitted`
counts a reward for the block of genesis and not the supply it brings, so that it is
not the supply.  A block without fees still mints one unit as its fee.  The
transaction `create_coinbase` returns comes from `new_raw` and is of kind
`Standard`, which `validate_internal` does not count as the block's coinbase.  `PayoutsAreExact` needs its
premise: a product of base and shares above u64 makes the parts wrong, and so does
a sum of shares above u64, although no single `add_share` has wrapped: the parts are
then divided by too small a total and exceed the reward.
`can_accept` and `register_peer` are separate calls, so that `MAX_PEERS` and
`MAX_PER_IP` can be exceeded by concurrent acceptors.  Registering an inbound peer
releases a dialling slot it never took, so that more dials than `MAX_CONNECTING`
may run; `SlotsAreKept` bounds the slots taken.  `OvershootIsBounded` holds
because `submit_tx` is the only caller of `insert` in the repository, and
`NodeStep` inserts nothing.  `can_join` looks neither at the limit of delegates nor
at who speaks: where the bootstrap key endorses without being a delegate, only its
own word makes `delegate` agree.  `FinalizedHistoryIsFixed` is about recorded
blocks: `apply_presence_record` executes a block at a finalized height without
recording it.  A node the DHT saw after `now` counts as dead, in
`ShortAnswersAreComplete` too.  A transaction with more than 1,024 inputs or outputs
or 32 witnesses passes `validate_internal` in its producer's block, which no other
node decodes; `docs/PROOF_OF_PRESENCE.md` pays rewards in "batches of 10,000 outputs
per block", which then takes ten transactions.  Decoding sets the scheme of every
proof to Halo2 and `dna_range_id` to none, whatever they were.  `HashNamesOneBlock` needs its premise: a block that ends in a standard
transaction without inputs has a twin with that tail repeated, the same hash and
no nullifier to tell them apart.  The hash of a transaction covers neither the
signatures of its inputs nor the proofs, encrypted amounts and DNA of its outputs.
The zero-copy decoder expects wire version 5, `wire.rs` writes 9.
`MAX_TRANSACTIONS` never binds: the computed block size passes `MAX_BLOCK_BYTES`
first.  `BloomFilter::from_bytes` says "Returns None if data is corrupted or too
short" and accepts data cut at a word boundary: it takes the number of words from
the length, and keys then hash to other bits of a smaller filter.
`NoFalseNegatives` excepts these files.  `AuthConfigV2::chain_id` is not read; the payload is bound to the chain id
the request names.  The merging iterator reports no error of a run.

## 4. Proofs

All proofs are checked by `tlapm` with Z3, Zenon and LS4, from the named
assumptions on constants only; TLC evaluates these on every run.

* **GatewayProofs, the mempool.**  `Inv` conjoins `TypeOK`, `BooksBalance`, `ClaimsAreExact`,
  `EveryPooledTxIsQueued`, `BlockIsSound` and `RicherBucketsFirst`.  None is
  inductive alone: the byte count is right only if bodies and index agree, a
  taken transaction conflicts with nothing only because claims are exact, and
  evicting by hash keeps every pooled transaction queued only because a ref is
  never younger than the index entry.  Each action is one lemma;
  `RemovalKeepsTheBooks` serves the three that remove.  From `Inv` follow the six
  invariants and `MempoolImplementsTxPool`: each step is a step of `TxPool` under
  the mapping `pool <- DOMAIN index`, `block <- out`, or a stutter.  The
  assumption is that transactions are finite in number and limits are naturals.
* **ChainStateProofs.**  `Inv` adds three facts to the checked invariants:
  nothing is executed before genesis (`Pristine`), without presence records the
  two tips agree (`TipsAgree`), and every candidate was built on a block of the
  history, at or before the point at which it was previewed (`BuiltOnHistory`).
  The last is what makes `PreviewIsFresh` inductive: a block that is accepted
  names the last block as its parent, so nothing can have been executed since its
  parent was read.  The three action properties follow from `Inv` step by step.
  Assumptions: a node's own blocks carry their computed hash, and hashes do not
  collide (`HashAssumption`).
  `ChainsRunBoth` carries these results and those of SettlementProofs over to the
  module the run checks.
* **GatewayProofs, the two entrances.**  Between a worker's look at the
  pool's length and its insertion the others go on, so that no step keeps a bound on
  the length alone.  What every step keeps is a bound on the length plus the number
  of workers that have found room and not used it yet (`RoomIsShared`).
  `UnracedMetricIsExact` rests on the lengths the workers carry: each is the pool's
  length unless marked outdated (`LengthsAreExplained`).  `ReplayNeedsAFullCache`
  follows from the fact that what is remembered of a sender is exactly the end of
  what was accepted from it (`CacheIsTheEnd`).  `GatewayRunsTheMempool` shows that
  the server moves the mempool by the mempool's own steps only, which carries
  everything proved of the mempool over.
* **PeersProofs.**  None of the five properties says anything while an operation is
  under way, so none is inductive.  `Inv` says what holds in between, in terms of the
  accesses each thread still has to make (its plan): a counter equals the number of
  peers plus the subtractions and minus the additions planned, modulo the word size
  (`CountersAreExplained`); a taken slot belongs to a dial or will be given back, and
  slots taken plus threads admitted to one stay within the overshoot
  (`SlotsAreExplained`); on an unraced IP, the count and the routes differ from the
  peers by what one single thread has planned (`IpsAreExplained`,
  `RoutesAreExplained`).  That no second thread can interfere there rests on
  `PlansAreTouched` (a plan works on what its thread has touched) and
  `RacesAreMarked`; `PlansAreOrdered` says in which order accesses may come, and that
  no plan has two of a kind, except for a broadcast's.  `DeadAreClosed` and
  `AttemptsAreDue` carry a check over to the step that relies on it.  Each action is
  one lemma.  Assumptions: threads, nodes and addresses are finite in number, and
  there are fewer nodes than a word can count.
* **MembershipProofs.**  `TypeOK` and `RootIsCurrent` are inductive together;
  `QuorumIsMajority` is the arithmetic behind `QuorumsIntersect`, for every
  `min_quorum >= 3`.  `BucketsAreSound` with the finiteness of buckets is inductive;
  `UpdatesAreSound` says what an update does to one bucket.
  `ShortAnswersAreComplete`: a search ends early only with enough nodes
  (`RoundsEnd`), XOR distance is a strict total order because two ids differ in a
  highest bit (`CloserIsAnOrder`), and the first n of an ordered finite set are n or
  all of it (`NearestCount`).  `MembershipRunsBoth` carries the results over to the
  module the run checks.
* **ValueProofs, emission.**  Where a halving leaves a remainder, the closed form
  and the rewards round differently, so that the equation needs
  `EmissionAssumption`: the supply is used up while halving still divides evenly.
  With the code's constants it is used up before the first halving.  Up to
  that point the sum of the rewards is a geometric series (`SumWhileEven`, by
  induction over the blocks of a period and over the periods, and `TwiceShifted` for
  the shift of the closed form); from there on both sides are at `MAX_SUPPLY`, since
  the sum grows (`SumMonotone`).  `EconomicsInv` adds that the supply is that of
  genesis, what `emitted` grew by since, and the fees.  It needs that genesis supplies
  at least one initial reward (`GenesisAssumption`; 2,100 in the code): only then does
  `emitted`, which counts a reward for genesis, not reach its limit first
  (`GenesisCoversFirstReward`).  A coinbase that is agreed to pays what was checked,
  because the limit is below u64::MAX (`CoinbasePaysTotal`).
* **ValueProofs, escrow.**  `EscrowInv` is that no miner is listed twice
  (`DistinctKeys`), which `add_share` keeps.  A list of payees is summed by a weight
  of its entries, once by what they are worth and once by what one payee gets
  (`SumBy`), so that one set of lemmas (`SumOfAppend`, `SumOfReplace`,
  `SumOfRetained`, `AddToSums`) gives the total and each payee's part, the bonus and
  the remainder for the customer included.  `PartsSum`: rounded down, the parts lose
  less than a unit for all miners but one.
* **ValueProofs, ranges and L2.**  `DnaInv`: the ranges held cover what was issued without
  overlapping, each lies strictly within any archived range it meets, no two
  archived ranges have the same ends, and each range is an emission or has a parent
  in the archive.  Partition alone would not do: that exactly one archived range
  passes `verify_lineage` needs the identities to be distinct, which they are because
  splitting is strict.  `L2Inv`: balances and nonces stay within u64, executed
  transactions have distinct hashes, and value and nonces as stated; the sum of the
  balances is followed through the four writes of a transaction one by one
  (`PutBalance`), so that coinciding parties are no special case.
* **SettlementProofs.**  `Inv`: every signature in circulation stands for a member
  that signed a block that verifies, a member signed once per epoch, and chains are
  linked.  `CountedByDistinctKeys`, by induction over the list of signatures, says
  that what `verify_committee_signatures` counts is the number of distinct keys that
  signed; `MessageNamesBlock` that a signed message names one block in all its fields;
  from both, `ContentsAreCertified`, and with a majority threshold
  `CertifiedBlocksAgree`, `ChainsAgree`.
* **FormatsProofs.**  `NoFalseNegatives`: every bit of a filter lies in its words
  (`BitsInWords`), a filter of which no word was lost finds what was added (`Finds`),
  and so does the saved one.  `WalkFindsCycles`: everything seen is an ancestor of the
  record (`SeenAreAncestors`), the parents of everything visited are seen
  (`ParentsAreSeen`), and the record is only ever popped first (`RecordComesFirst`); a
  walk that ends with "yes" has therefore a set of ancestors without the record.
  `MergeIsFaithful`: the heap holds the front of every run still drawn from
  (`HeapHoldsTheFronts`), nothing still to come from a run in order is below what was
  returned last (`HeapIsAhead`), and of equal keys nothing newer is left
  (`NewestAhead`).
* **FormatsProofs, Merkle trees.**  The levels of a tree are halved until one node is
  left (`LevelsExist`, `TowerExists`).  Lists with one root are twins (`EqualRoots`,
  down the levels by `TwinsBelow`): they agree as far as both go, and the longer
  ends with something the shorter has, too.  `HashNamesOneBlock`: the longer of two
  twins would have a transaction twice, and the last one of it would be a second
  heartbeat or coinbase, or spend a nullifier again (`RepeatSpendsNothing`,
  `LongerTwin`); `BlocksInv` only says that blocks are sealed.  `ValidBlocksArrive`:
  what decoding resets enters no hash (`DecodedFacts`) and no check
  (`DecodedValidity`).  `RootIdentifiesState`: sorted leaves under distinct keys are a function of
  the set of leaves (`SortedByRank`, `SameSorted`), and have no twin but themselves
  (`SameRoots`); the supply is the same because a sum does not depend on the order
  (`SameSum`).
* **FormatsProofs, zero-copy decoder.**  Two facts about one call.  A buffer that
  begins with an encoded transaction is viewed as that transaction (`TxViewExact`:
  every count and length is read where the encoder put it, `HoldsFlat`,
  `SkipItemsExact`, `LayoutExact`).  And whatever the cells are, a view that is
  returned ends within the buffer and depends on no cell behind its end
  (`LayoutCut`), so that `check_min_fee` finds in the view's own cells the fee the
  view reports (`MinFeeExact`).  `WireInv` then follows the iterator: each view is
  what is read behind the one before (`AreViews`), so that as long as transactions are
  intact the views end where these end (`NextIsExact`), and with an intact header
  the count and the views still add up to the transactions, so that the iterator
  stops behind everything intact.  `WireAssumption` says that fields are numbers.
* **CollectionLemmas.**  Sums as cardinalities (`WeightUnion`, `WeightDifference`,
  `WeightChange`) and as recursive functions (`SumUnfolds`, `SumIsWeight`), what `retain` keeps (`RetainAtProperties`), quotients and
  remainders, and induction.  The induction theorems of the library take an operator,
  which the installed provers cannot instantiate; `SmallestElement` and
  `SetInduction` say the same of sets of naturals, so that a set comprehension takes
  the operator's place.

`TypeOK`, `RootIsCurrent` and `EpochNeverRegresses` are proved and not part of a
run: the runs are kept for what takes several steps to go wrong.

Model-checked only: liveness (`RoomyBuildReturns`, `RequestsAreAnswered`), because
TLAPS does not reason about fairness.  Every other property of a passing run is
stated by a theorem.

## 5. Plan

Modelling is complete as far as section 6 says, and every safety property that a run
checks is proved.  Left are the two hazards without a property in `PROJECT.json`,
for which the code makes no promise that could be stated.

## 6. Not modelled

Of the transactions, the constructors, and `verify_heartbeat` and
`verify_signature`, which nothing in the repository calls.  Of the wire formats,
single fields that are copied.  Of presence records, what hashes, signs or checks
one record.  `address.rs`: encodings.  Of `genesis.rs`, the hash; that genesis has a
supply is where `Economics` starts.  `inherit_dna` and `calculate_fee` of the L2 engine, the
descriptions and checks of compute tasks (`compute.rs`, `compute_namespace.rs`) and
the API's `handlers.rs`: functions of given data that keep no state and have no
caller in the repository.  Configuration, errors, traits and constants
(`config.rs`, `error.rs`, `traits.rs`, `spec.rs`).  The crates without source.
Relaxed memory ordering is not modelled: each counter of the peer registry and
each metric is accessed on its own, and no property relates the order of accesses
to two of them within one thread.
