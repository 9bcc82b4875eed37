------------------------------ MODULE Mempool ------------------------------
(***************************************************************************)
(* aevum-node's mempool: fee buckets of TxRefs, an index, the nullifiers   *)
(* claimed by pooled transactions and the transactions themselves, all     *)
(* behind one RwLock.  Each public operation takes the write lock once, so *)
(* it is one atomic action; build_block is the exception: its loop is      *)
(* stepped pass by pass while it keeps the lock, because whether the loop  *)
(* ends is itself in question.                                             *)
(*                                                                         *)
(* A transaction is its hash: submit_tx only passes on a transaction whose *)
(* hash it has recomputed, so fee, size and inputs are functions of it.    *)
(***************************************************************************)
EXTENDS Collections

CONSTANTS
  Txs,                \* transaction hashes
  Fee,                \* Fee[t]
  EstimatedSize,      \* EstimatedSize[t]: estimated_size(t), in bytes
  Nullifiers,         \* nullifiers of transaction inputs
  Inputs,             \* Inputs[t]: the nullifiers of t's inputs
  FEE_BUCKETS,        \* number of buckets (64 in the code)
  MIN_FEE,
  MAX_MEMPOOL_TX,
  MAX_MEMPOOL_BYTES,
  TX_TTL,
  BlockLimits,        \* the records [max_tx, max_bytes] callers pass to build_block
  MaxClock,           \* bound: the clock stops here
  MaxWatermark,       \* bound: congestion raises the fee floor no further
  MaxRefs             \* bound: refs a bucket may hold before insert is not tried

ASSUME TxsAssumption ==
  /\ IsFiniteSet(Txs)
  /\ Fee \in [Txs -> Nat]
  /\ EstimatedSize \in [Txs -> Nat]
  /\ Inputs \in [Txs -> SUBSET Nullifiers]

ASSUME LimitsAssumption ==
  /\ FEE_BUCKETS \in Nat \ {0}
  /\ {MIN_FEE, MAX_MEMPOOL_TX, MAX_MEMPOOL_BYTES, TX_TTL} \subseteq Nat
  /\ BlockLimits \subseteq [max_tx : Nat, max_bytes : Nat]
  /\ {MaxClock, MaxWatermark, MaxRefs} \subseteq Nat

VARIABLES
  buckets,            \* buckets[b]: the queue of TxRefs of fee bucket b
  index,              \* the pooled hashes, each with the instant of its insertion
  nullifiers,         \* the claimed nullifiers, each with the claiming hash
  tx_store,           \* the hashes whose transaction body is stored
  total_bytes,
  min_fee_watermark,
  stats,              \* the figures of MempoolStats that copy other state
  clock,              \* Instant::now()
  building,           \* whether build_block holds the write lock
  limit,              \* its arguments
  cursor,             \* the bucket its loop is draining
  bytes,              \* the bytes it has selected
  out                 \* the transactions it has selected; afterwards, its result

pool == <<buckets, index, nullifiers, tx_store, total_bytes>>
builder == <<building, limit, cursor, bytes, out>>
vars == <<pool, min_fee_watermark, stats, clock, builder>>

Buckets == 0..(FEE_BUCKETS - 1)
TxRef == [hash : Txs, inserted_at : Nat]
Pooled == DOMAIN index
-----------------------------------------------------------------------------
(***************************** Pure helpers ********************************)

\* Floor of log2(fee), capped at the last bucket; fee 0 goes with fee 1.
bucket_of(fee) == Cardinality({i \in 1..(FEE_BUCKETS - 1) : 2^i <= fee})

\* The size accounted for every transaction: an oversized one counts as the
\* whole pool.
size == [t \in Txs |-> IF EstimatedSize[t] < MAX_MEMPOOL_BYTES
                         THEN EstimatedSize[t] ELSE MAX_MEMPOOL_BYTES]

\* The nullifiers of the inputs of the transactions S.
Spent(S) == UNION {Inputs[t] : t \in S}

\* Every operation that changes the pool ends by copying its extent to stats.
RefreshedStats(idx, total) ==
  [stats EXCEPT !.total_tx = Cardinality(DOMAIN idx), !.total_bytes = total]
-----------------------------------------------------------------------------
Init ==
  /\ buckets = [b \in Buckets |-> <<>>]
  /\ index = [t \in {} |-> 0]
  /\ nullifiers = [n \in {} |-> 0]
  /\ tx_store = {}
  /\ total_bytes = 0
  /\ min_fee_watermark = MIN_FEE
  /\ stats = [total_tx |-> 0, total_bytes |-> 0, fee_watermark |-> 0]
  /\ clock = 0
  /\ building = FALSE
  /\ limit = [max_tx |-> 0, max_bytes |-> 0]
  /\ cursor = 0
  /\ bytes = 0
  /\ out = <<>>

\* insert admits t; otherwise it returns false with the pool untouched.
AdmitsIgnoringNullifiers(t) ==
  /\ Fee[t] >= min_fee_watermark
  /\ t \notin Pooled
  /\ Cardinality(Pooled) < MAX_MEMPOOL_TX
  /\ total_bytes + size[t] <= MAX_MEMPOOL_BYTES
AdmitsOneMoreThanFits(t) ==
  /\ Fee[t] >= min_fee_watermark
  /\ t \notin Pooled
  /\ Inputs[t] \cap DOMAIN nullifiers = {}
  /\ Cardinality(Pooled) <= MAX_MEMPOOL_TX
  /\ total_bytes + size[t] <= MAX_MEMPOOL_BYTES
Admits(t) ==
  /\ Fee[t] >= min_fee_watermark
  /\ t \notin Pooled
  /\ Inputs[t] \cap DOMAIN nullifiers = {}
  /\ Cardinality(Pooled) < MAX_MEMPOOL_TX
  /\ total_bytes + size[t] <= MAX_MEMPOOL_BYTES

Insert(t) ==
  /\ ~building
  /\ Len(buckets[bucket_of(Fee[t])]) < MaxRefs
  /\ Admits(t)
  /\ index' = Put(index, {t}, clock)
  /\ buckets' = [buckets EXCEPT ![bucket_of(Fee[t])] =
                   Append(@, [hash |-> t, inserted_at |-> clock])]
  /\ nullifiers' = Put(nullifiers, Inputs[t], t)
  /\ tx_store' = tx_store \cup {t}
  /\ total_bytes' = total_bytes + size[t]
  /\ stats' = RefreshedStats(index', total_bytes')
  /\ UNCHANGED <<min_fee_watermark, clock, builder>>

\* The hashes S leave the index and the store, and free their nullifiers.
RemoveLeavingNullifiers(S) ==
  /\ index' = Drop(index, S)
  /\ total_bytes' = SaturatingSub(total_bytes, Weight(S \cap Pooled, size))
  /\ tx_store' = tx_store \ S
  /\ UNCHANGED nullifiers
RemoveFromPool(S) ==
  /\ index' = Drop(index, S)
  /\ total_bytes' = SaturatingSub(total_bytes, Weight(S \cap Pooled, size))
  /\ tx_store' = tx_store \ S
  /\ nullifiers' = Drop(nullifiers, Spent(S \cap tx_store))

\* S holds the hashes of the argument that the index knows, the others are
\* skipped; the TxRefs of S stay behind in the buckets.
remove_transactions(S) ==
  /\ ~building
  /\ RemoveFromPool(S)
  /\ stats' = RefreshedStats(index', total_bytes')
  /\ UNCHANGED <<buckets, min_fee_watermark, clock, builder>>

\* The positions of bucket b whose ref outlived its TTL.
StalePositions(b) ==
  {i \in 1..Len(buckets[b]) : clock - buckets[b][i].inserted_at > TX_TTL}
StaleHashesOfTopBucket ==
  {buckets[FEE_BUCKETS - 1][i].hash : i \in StalePositions(FEE_BUCKETS - 1)}
StaleHashes ==
  UNION {{buckets[b][i].hash : i \in StalePositions(b)} : b \in Buckets}

\* Stale refs leave their buckets, and whatever is pooled under the hash of a
\* stale ref leaves the pool: a transaction removed and inserted again in the
\* meantime goes too, however fresh it is.
evict_stale ==
  /\ ~building
  /\ buckets' = [b \in Buckets |->
       RetainAt(buckets[b], (1..Len(buckets[b])) \ StalePositions(b))]
  /\ RemoveFromPool(StaleHashes)
  /\ stats' = RefreshedStats(index', total_bytes')
  /\ UNCHANGED <<min_fee_watermark, clock, builder>>

\* The fee floor one lower, but never below MIN_FEE.
LoweredFloor ==
  LET lower == SaturatingSub(min_fee_watermark, 1)
  IN  IF lower > MIN_FEE THEN lower ELSE MIN_FEE

adjust_fee_floor(congestion) ==
  /\ ~building
  /\ \/ /\ congestion
        /\ min_fee_watermark < MaxWatermark
        /\ min_fee_watermark' = min_fee_watermark + 1
     \/ /\ ~congestion
        /\ min_fee_watermark' = LoweredFloor
  /\ stats' = [stats EXCEPT !.fee_watermark = min_fee_watermark']
  /\ UNCHANGED <<pool, clock, builder>>
-----------------------------------------------------------------------------
(***************** build_block, one pass of its loops per step *************)

\* The first bucket drained is the richest one.
FirstBucketCheapest == 0
FirstBucket == FEE_BUCKETS - 1

BuildBlock(l) ==
  /\ ~building
  /\ building' = TRUE
  /\ limit' = l
  /\ cursor' = FirstBucket
  /\ bytes' = 0
  /\ out' = <<>>
  /\ UNCHANGED <<pool, min_fee_watermark, stats, clock>>

Front == Head(buckets[cursor])
Popped == [buckets EXCEPT ![cursor] = Tail(@)]

\* The bucket is drained: go to the next lower one, or return after the last.
NextBucket ==
  /\ building
  /\ buckets[cursor] = <<>>
  /\ IF cursor > 0
       THEN cursor' = cursor - 1 /\ UNCHANGED <<building, stats>>
       ELSE /\ building' = FALSE
            /\ stats' = RefreshedStats(index, total_bytes)
            /\ UNCHANGED cursor
  /\ UNCHANGED <<pool, min_fee_watermark, clock, limit, bytes, out>>

\* The front ref's transaction is no longer pooled: the ref is dropped.
PeekOrphan ==
  /\ building
  /\ buckets[cursor] # <<>>
  /\ Front.hash \notin Pooled
  /\ UNCHANGED vars
SkipOrphan ==
  /\ building
  /\ buckets[cursor] # <<>>
  /\ Front.hash \notin Pooled
  /\ buckets' = Popped
  /\ UNCHANGED <<index, nullifiers, tx_store, total_bytes, min_fee_watermark,
                 stats, clock, builder>>

\* The front transaction does not fit: its ref is pushed back to the front and
\* the loop goes round, to pop the same ref again.
FitsAlone(t) == size[t] <= limit.max_bytes
Fits(t) == bytes + size[t] <= limit.max_bytes
RetryOversized ==
  /\ building
  /\ buckets[cursor] # <<>>
  /\ Front.hash \in Pooled
  /\ ~Fits(Front.hash)
  /\ UNCHANGED vars

\* The front transaction moves from the pool to the block, which is returned
\* once it has max_tx transactions.  Its body is always in tx_store, by
\* BooksBalance, so that the code's test for it never fails.
TakeFront ==
  /\ building
  /\ buckets[cursor] # <<>>
  /\ LET t == Front.hash IN
       /\ t \in Pooled
       /\ Fits(t)
       /\ RemoveFromPool({t})
       /\ buckets' = Popped
       /\ bytes' = bytes + size[t]
       /\ out' = Append(out, t)
       /\ building' = (Len(out') < limit.max_tx)
       /\ stats' = IF building' THEN stats
                   ELSE RefreshedStats(index', total_bytes')
  /\ UNCHANGED <<min_fee_watermark, clock, limit, cursor>>

BuildPass == NextBucket \/ SkipOrphan \/ RetryOversized \/ TakeFront
-----------------------------------------------------------------------------
Tick ==
  /\ clock < MaxClock
  /\ clock' = clock + 1
  /\ UNCHANGED <<pool, min_fee_watermark, stats, builder>>

Next ==
  \/ \E t \in Txs : Insert(t)
  \/ \E S \in SUBSET Pooled : remove_transactions(S)
  \/ evict_stale
  \/ \E congestion \in BOOLEAN : adjust_fee_floor(congestion)
  \/ \E l \in BlockLimits : BuildBlock(l)
  \/ NextBucket
  \/ SkipOrphan
  \/ RetryOversized
  \/ TakeFront
  \/ Tick

Spec == Init /\ [][Next]_vars

\* The thread inside build_block keeps running its loop: nothing in it blocks.
FairSpec == Spec /\ WF_vars(BuildPass)
-----------------------------------------------------------------------------
TypeOK ==
  /\ buckets \in [Buckets -> Seq(TxRef)]
  /\ IsMap(index, Txs, Nat)
  /\ IsMap(nullifiers, Nullifiers, Txs)
  /\ tx_store \subseteq Txs
  /\ {total_bytes, min_fee_watermark, clock, bytes} \subseteq Nat
  /\ min_fee_watermark >= MIN_FEE
  /\ stats \in [total_tx : Nat, total_bytes : Nat, fee_watermark : Nat]
  /\ building \in BOOLEAN
  /\ limit \in [max_tx : Nat, max_bytes : Nat]
  /\ cursor \in Buckets
  /\ out \in Seq(Txs)

\* The four structures insert, build_block, remove_transactions and
\* evict_stale update one after the other never disagree: every indexed
\* transaction has its body, total_bytes is the size of exactly those, the
\* limits hold, and outside build_block so do the figures stats() reports.
BooksBalance ==
  /\ tx_store = Pooled
  /\ total_bytes = Weight(Pooled, size)
  /\ total_bytes <= MAX_MEMPOOL_BYTES
  /\ Cardinality(Pooled) <= MAX_MEMPOOL_TX
  /\ ~building => /\ stats.total_tx = Cardinality(Pooled)
                  /\ stats.total_bytes = total_bytes

\* The nullifier map is exactly what the pooled transactions spend, each claim
\* by its one spender: no double spend can sit in the pool, and no nullifier
\* stays claimed by a transaction that has left.
ClaimsAreExact ==
  /\ DOMAIN nullifiers = Spent(Pooled)
  /\ \A t \in Pooled : \A n \in Inputs[t] : nullifiers[n] = t

\* build_block can find every pooled transaction: refs sit in the bucket of
\* their fee, and that bucket holds a ref to it, stamped no later than the
\* insertion, whatever orphaned refs surround it.
EveryPooledTxIsQueued ==
  /\ \A b \in Buckets : \A i \in 1..Len(buckets[b]) :
       bucket_of(Fee[buckets[b][i].hash]) = b
  /\ \A t \in Pooled : \E i \in 1..Len(buckets[bucket_of(Fee[t])]) :
       LET ref == buckets[bucket_of(Fee[t])][i]
       IN  ref.hash = t /\ ref.inserted_at <= index[t]

\* The block built so far could be mined: no transaction twice, no nullifier
\* spent twice, nothing in it still pending or spent by what is pending, and
\* within the caller's limits (build_block tests max_tx only after a
\* transaction is in, so max_tx = 0 yields a block of one).
BlockIsSound ==
  /\ \A i, j \in 1..Len(out) :
       i # j => out[i] # out[j] /\ Inputs[out[i]] \cap Inputs[out[j]] = {}
  /\ building => \A i \in 1..Len(out) : \A t \in Pooled :
       out[i] # t /\ Inputs[out[i]] \cap Inputs[t] = {}
  /\ bytes = Weight({out[i] : i \in 1..Len(out)}, size)
  /\ bytes <= limit.max_bytes
  /\ building => Len(out) < limit.max_tx \/ Len(out) = 0
  /\ Len(out) <= limit.max_tx \/ Len(out) <= 1

\* While build_block drains a bucket, every pending transaction that pays a
\* higher bucket's fee has been taken, and what was taken came in the order
\* of falling buckets.
RicherBucketsFirst ==
  /\ building => /\ \A t \in Pooled : bucket_of(Fee[t]) <= cursor
                 /\ \A i \in 1..Len(out) : bucket_of(Fee[out[i]]) >= cursor
  /\ \A i, j \in 1..Len(out) :
       i < j => bucket_of(Fee[out[i]]) >= bucket_of(Fee[out[j]])

\* The mempool implements the abstract pool.
Abstract == INSTANCE TxPool WITH
  TxBytes <- size, MaxCount <- MAX_MEMPOOL_TX, MaxWeight <- MAX_MEMPOOL_BYTES,
  pool <- Pooled, block <- out
ImplementsTxPool == Abstract!Spec

\* build_block returns whenever its byte limit cannot bind, as in the tests,
\* which pass MAX_MEMPOOL_BYTES.
RoomyBuildReturns ==
  building /\ limit.max_bytes >= MAX_MEMPOOL_BYTES ~> ~building

\* build_block removes k transactions in O(k): it returns.
BuildReturns == building ~> ~building

\* evict_stale drops what has outlived its TTL and nothing younger.
EvictsOnlyStale ==
  [][evict_stale => \A t \in Pooled \ Pooled' : clock - index[t] > TX_TTL]_vars

=============================================================================
