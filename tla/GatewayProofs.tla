---------------------------- MODULE GatewayProofs ----------------------------
(***************************************************************************)
(* The safety invariants of the mempool and of the node's two entrances,   *)
(* for any transactions, fees and sizes, any number of workers and         *)
(* senders, any limits and any size of the cache.                          *)
(*                                                                         *)
(* The mempool: none of its invariants is inductive alone.  The books are  *)
(* only kept because the nullifier claims are exact, the block under       *)
(* construction is only sound because the pool it comes from is, and the   *)
(* bucket order holds only because every pooled transaction is queued.     *)
(* Their conjunction Inv is inductive.                                     *)
(*                                                                         *)
(* The server: between a worker's look at the pool's length and its        *)
(* insertion the other workers go on, so that the length alone obeys no    *)
(* bound that a step would keep.  The length plus the number of workers    *)
(* that are about to insert does.  The metric likewise is only explained   *)
(* by the lengths the workers carry.                                       *)
(*                                                                         *)
(* Authentication: what is remembered of a sender is exactly the end of    *)
(* what was accepted from it.                                              *)
(***************************************************************************)
EXTENDS Gateway, CollectionLemmas
-----------------------------------------------------------------------------
(******************************* The mempool *******************************)

Inv ==
  /\ TypeOK
  /\ BooksBalance
  /\ ClaimsAreExact
  /\ EveryPooledTxIsQueued
  /\ BlockIsSound
  /\ RicherBucketsFirst
-----------------------------------------------------------------------------
(****************************** Pure helpers *******************************)

\* Every fee has a bucket.
LEMMA BucketOfType ==
  ASSUME NEW fee
  PROVE  bucket_of(fee) \in Buckets
<1> DEFINE below == {i \in 1..(FEE_BUCKETS - 1) : 2^i <= fee}
<1>1. FEE_BUCKETS - 1 \in Nat
  BY LimitsAssumption
<1>2. IsFiniteSet(1..(FEE_BUCKETS - 1))
      /\ Cardinality(1..(FEE_BUCKETS - 1)) = FEE_BUCKETS - 1
  BY <1>1, FS_Interval
<1>3. below \in SUBSET (1..(FEE_BUCKETS - 1))
  OBVIOUS
<1>4. IsFiniteSet(below) /\ Cardinality(below) <= FEE_BUCKETS - 1
  <2> HIDE DEF below
  <2> QED
    BY <1>2, <1>3, FS_Subset
<1>5. Cardinality(below) \in Nat
  BY <1>4, FS_CardinalityType
<1> HIDE DEF below
<1>6. Cardinality(below) \in 0..(FEE_BUCKETS - 1)
  BY <1>1, <1>4, <1>5
<1> QED
  BY <1>6 DEF bucket_of, Buckets, below

\* No transaction is accounted for more than the whole pool.
LEMMA SizeType ==
  ASSUME NEW t \in Txs
  PROVE  size[t] \in Nat /\ size[t] <= MAX_MEMPOOL_BYTES
BY TxsAssumption, LimitsAssumption DEF size

\* What is pooled is finite and has a weight.
LEMMA SubsetFacts ==
  ASSUME NEW S \in SUBSET Txs
  PROVE  /\ IsFiniteSet(S)
         /\ Cardinality(S) \in Nat
         /\ Weight(S, size) \in Nat
         /\ \A x \in S : size[x] \in Nat
<1>1. IsFiniteSet(S)
  BY TxsAssumption, FS_Subset
<1>2. \A x \in S : size[x] \in Nat
  BY SizeType
<1> QED
  BY <1>1, <1>2, FS_CardinalityType, WeightType

\* The common effect of remove_transactions, evict_stale and build_block on
\* index, store, claims and byte count.
LEMMA RemovalKeepsTheBooks ==
  ASSUME TypeOK, tx_store = Pooled, total_bytes = Weight(Pooled, size),
         ClaimsAreExact, NEW S \in SUBSET Txs, RemoveFromPool(S)
  PROVE  /\ Pooled' = Pooled \ S
         /\ IsMap(index', Txs, Nat)
         /\ \A t \in Pooled' : index'[t] = index[t]
         /\ IsMap(nullifiers', Nullifiers, Txs)
         /\ tx_store' = Pooled'
         /\ total_bytes' = Weight(Pooled', size)
         /\ total_bytes' \in Nat
         /\ total_bytes' <= total_bytes
         /\ Cardinality(Pooled') <= Cardinality(Pooled)
         /\ ClaimsAreExact'
<1>1. /\ Pooled' = Pooled \ S
      /\ IsMap(index', Txs, Nat)
      /\ \A t \in Pooled' : index'[t] = index[t]
  <2>1. IsMap(index, Txs, Nat) /\ index' = Drop(index, S)
    BY DEF TypeOK, RemoveFromPool
  <2> QED
    BY <2>1 DEF IsMap, Drop, Pooled
<1>2. Pooled \in SUBSET Txs
  BY DEF TypeOK, IsMap, Pooled
<1>3. tx_store' = Pooled'
  BY <1>1 DEF RemoveFromPool
<1>4. /\ IsFiniteSet(Pooled)
      /\ \A x \in Pooled : size[x] \in Nat
      /\ Weight(Pooled, size) \in Nat
      /\ Weight(S \cap Pooled, size) \in Nat
      /\ Weight(Pooled \ S, size) \in Nat
  BY <1>2, SubsetFacts
<1>5. total_bytes' = Weight(Pooled', size)
  <2> DEFINE gone == S \cap Pooled
  <2>1. Pooled \ S = Pooled \ gone /\ gone \in SUBSET Pooled
    OBVIOUS
  <2>2. Weight(Pooled \ gone, size) =
          SaturatingSub(Weight(Pooled, size), Weight(gone, size))
    <3> HIDE DEF gone
    <3> QED
      BY <2>1, <1>4, WeightDifference
  <2>3. total_bytes' = SaturatingSub(Weight(Pooled, size), Weight(gone, size))
    BY DEF RemoveFromPool
  <2> QED
    BY <2>1, <2>2, <2>3, <1>1, Zenon
<1>6. total_bytes' \in Nat /\ total_bytes' <= total_bytes
  BY <1>4 DEF RemoveFromPool, SaturatingSub
<1>7. Cardinality(Pooled') <= Cardinality(Pooled)
  BY <1>1, <1>4, FS_Subset
<1>8. /\ IsMap(nullifiers', Nullifiers, Txs)
      /\ DOMAIN nullifiers' = DOMAIN nullifiers \ Spent(S \cap Pooled)
      /\ \A n \in DOMAIN nullifiers' : nullifiers'[n] = nullifiers[n]
  <2>1. /\ IsMap(nullifiers, Nullifiers, Txs)
        /\ nullifiers' = Drop(nullifiers, Spent(S \cap Pooled))
    BY DEF TypeOK, RemoveFromPool
  <2> QED
    BY <2>1 DEF IsMap, Drop
<1>9. DOMAIN nullifiers' = Spent(Pooled')
  BY <1>1, <1>8 DEF ClaimsAreExact, Spent
<1>10. \A t \in Pooled' : \A n \in Inputs[t] : nullifiers'[n] = t
  BY <1>1, <1>8, <1>9 DEF ClaimsAreExact, Spent
<1> QED
  BY <1>1, <1>3, <1>5, <1>6, <1>7, <1>8, <1>9, <1>10 DEF ClaimsAreExact

\* The effect of an accepted insert on index, store, claims and byte count.
LEMMA InsertKeepsTheBooks ==
  ASSUME TypeOK, BooksBalance, ClaimsAreExact, NEW t \in Txs, Insert(t)
  PROVE  /\ t \notin Pooled
         /\ Pooled' = Pooled \cup {t}
         /\ IsMap(index', Txs, Nat)
         /\ index'[t] = clock
         /\ \A u \in Pooled : index'[u] = index[u]
         /\ IsMap(nullifiers', Nullifiers, Txs)
         /\ tx_store' = Pooled'
         /\ total_bytes' = Weight(Pooled', size)
         /\ total_bytes' \in Nat
         /\ total_bytes' <= MAX_MEMPOOL_BYTES
         /\ Cardinality(Pooled') <= MAX_MEMPOOL_TX
         /\ ClaimsAreExact'
<1>1. /\ t \notin Pooled
      /\ Inputs[t] \cap DOMAIN nullifiers = {}
      /\ Cardinality(Pooled) < MAX_MEMPOOL_TX
      /\ total_bytes + size[t] <= MAX_MEMPOOL_BYTES
  BY DEF Insert, Admits
<1>2. /\ IsMap(index, Txs, Nat)
      /\ IsMap(nullifiers, Nullifiers, Txs)
      /\ clock \in Nat
      /\ Inputs[t] \in SUBSET Nullifiers
  BY TxsAssumption DEF TypeOK
<1>3. /\ Pooled' = Pooled \cup {t}
      /\ IsMap(index', Txs, Nat)
      /\ index'[t] = clock
      /\ \A u \in Pooled : index'[u] = index[u]
  <2>1. index' = Put(index, {t}, clock)
    BY DEF Insert
  <2> QED
    BY <2>1, <1>1, <1>2 DEF IsMap, Put, Pooled
<1>4. /\ IsMap(nullifiers', Nullifiers, Txs)
      /\ DOMAIN nullifiers' = DOMAIN nullifiers \cup Inputs[t]
      /\ \A n \in Inputs[t] : nullifiers'[n] = t
      /\ \A n \in DOMAIN nullifiers : nullifiers'[n] = nullifiers[n]
  <2>1. nullifiers' = Put(nullifiers, Inputs[t], t)
    BY DEF Insert
  <2> QED
    BY <2>1, <1>1, <1>2 DEF IsMap, Put
<1>5. ClaimsAreExact'
  BY <1>1, <1>3, <1>4 DEF ClaimsAreExact, Spent
<1>6. tx_store' = Pooled'
  BY <1>3 DEF Insert, BooksBalance
<1>7. Pooled \in SUBSET Txs
  BY <1>2 DEF IsMap, Pooled
<1>8. Cardinality(Pooled') <= MAX_MEMPOOL_TX
  <2>1. Cardinality(Pooled \cup {t}) = Cardinality(Pooled) + 1
    BY <1>1, <1>7, SubsetFacts, FS_AddElement
  <2>2. Cardinality(Pooled) \in Nat
    BY <1>7, SubsetFacts
  <2> QED
    BY <2>1, <2>2, <1>1, <1>3, LimitsAssumption
<1>9. total_bytes' = Weight(Pooled', size)
  <2>1. IsFiniteSet(Pooled) /\ IsFiniteSet({t}) /\ Pooled \cap {t} = {}
    BY <1>1, <1>7, SubsetFacts, FS_Singleton
  <2>2. \A x \in Pooled \cup {t} : size[x] \in Nat
    BY <1>7, SizeType
  <2>3. Weight(Pooled \cup {t}, size) = Weight(Pooled, size) + Weight({t}, size)
    BY <2>1, <2>2, WeightUnion
  <2>4. Weight({t}, size) = size[t]
    BY <2>2, WeightSingleton
  <2>5. total_bytes' = Weight(Pooled, size) + size[t]
    BY DEF Insert, BooksBalance
  <2> QED
    BY <2>3, <2>4, <2>5, <1>3, Zenon
<1>10. total_bytes' \in Nat /\ total_bytes' <= MAX_MEMPOOL_BYTES
  BY <1>1, SizeType DEF Insert, TypeOK
<1> QED
  BY <1>1, <1>3, <1>4, <1>5, <1>6, <1>8, <1>9, <1>10
-----------------------------------------------------------------------------
(************************* Preservation by each step ***********************)

\* The initial state satisfies every part of the invariant.
LEMMA InitEstablishesInv ==
  ASSUME Init
  PROVE  Inv
<1>1. Pooled = {} /\ DOMAIN nullifiers = {} /\ Len(out) = 0
  BY DEF Init, Pooled
<1>2. {out[i] : i \in 1..Len(out)} = {}
  BY <1>1
<1>3. Weight({}, size) = 0 /\ Cardinality({}) = 0
  BY WeightEmpty, FS_EmptySet
<1>4. TypeOK
  <2>1. 0 \in Buckets
    BY LimitsAssumption DEF Buckets
  <2>2. buckets \in [Buckets -> Seq(TxRef)] /\ out \in Seq(Txs)
    BY DEF Init
  <2>3. IsMap(index, Txs, Nat) /\ IsMap(nullifiers, Nullifiers, Txs)
    BY DEF Init, IsMap
  <2>4. MIN_FEE \in Nat
    BY LimitsAssumption
  <2> QED
    BY <2>1, <2>2, <2>3, <2>4 DEF Init, TypeOK
<1>5. BooksBalance
  BY <1>1, <1>3, LimitsAssumption DEF Init, BooksBalance
<1>6. ClaimsAreExact
  BY <1>1 DEF ClaimsAreExact, Spent
<1>7. EveryPooledTxIsQueued
  BY <1>1 DEF Init, EveryPooledTxIsQueued
<1>8. BlockIsSound
  <2>1. bytes = Weight({out[i] : i \in 1..Len(out)}, size)
    BY <1>2, <1>3 DEF Init
  <2> QED
    BY <2>1, <1>1 DEF Init, BlockIsSound
<1>9. RicherBucketsFirst
  BY <1>1 DEF Init, RicherBucketsFirst
<1> QED
  BY <1>4, <1>5, <1>6, <1>7, <1>8, <1>9 DEF Inv

\* insert.
LEMMA InsertPreservesInv ==
  ASSUME Inv, NEW t \in Txs, Insert(t)
  PROVE  Inv'
<1> USE DEF Inv
<1>1. /\ UNCHANGED <<min_fee_watermark, clock, builder>>
      /\ ~building /\ ~building'
  BY DEF Insert, builder
<1> DEFINE b == bucket_of(Fee[t])
           ref == [hash |-> t, inserted_at |-> clock]
<1>2. b \in Buckets /\ ref \in TxRef
  BY BucketOfType DEF TypeOK, TxRef
<1>3. buckets' = [buckets EXCEPT ![b] = Append(@, ref)]
  BY DEF Insert
<1>4. stats' \in [total_tx : Nat, total_bytes : Nat, fee_watermark : Nat]
      /\ stats'.total_tx = Cardinality(Pooled')
      /\ stats'.total_bytes = total_bytes'
  <2>1. stats' = [stats EXCEPT !.total_tx = Cardinality(Pooled'),
                              !.total_bytes = total_bytes']
    BY DEF Insert, RefreshedStats, Pooled
  <2>2. Pooled' \in SUBSET Txs
    BY InsertKeepsTheBooks DEF TypeOK, IsMap, Pooled
  <2>3. Cardinality(Pooled') \in Nat /\ total_bytes' \in Nat
    BY <2>2, SubsetFacts, InsertKeepsTheBooks
  <2> QED
    BY <2>1, <2>3 DEF TypeOK
<1>5. TypeOK'
  <2>1. buckets' \in [Buckets -> Seq(TxRef)]
    BY <1>2, <1>3 DEF TypeOK
  <2> QED
    BY <1>1, <1>4, <2>1, InsertKeepsTheBooks DEF TypeOK, builder, IsMap, Pooled
<1>6. BooksBalance' /\ ClaimsAreExact'
  BY <1>4, InsertKeepsTheBooks DEF BooksBalance
<1>7. EveryPooledTxIsQueued'
  <2> DEFINE n == Len(buckets[b])
  <2>1. /\ \A c \in Buckets \ {b} : buckets'[c] = buckets[c]
        /\ buckets'[b] = Append(buckets[b], ref)
        /\ buckets[b] \in Seq(TxRef)
    BY <1>2, <1>3 DEF TypeOK
  <2>2. /\ n \in Nat /\ Len(buckets'[b]) = n + 1
        /\ buckets'[b][n + 1] = ref
        /\ \A i \in 1..n : buckets'[b][i] = buckets[b][i]
    BY <1>2, <2>1
  <2> HIDE DEF b
  <2>3. \A c \in Buckets : \A i \in 1..Len(buckets'[c]) :
          bucket_of(Fee[buckets'[c][i].hash]) = c
    <3>1. ASSUME NEW i \in 1..Len(buckets'[b])
          PROVE  bucket_of(Fee[buckets'[b][i].hash]) = b
      <4>1. CASE i = n + 1
        BY <4>1, <2>2 DEF b
      <4>2. CASE i \in 1..n
        BY <4>2, <2>2, <1>2 DEF EveryPooledTxIsQueued
      <4> QED
        BY <4>1, <4>2, <2>2
    <3> QED
      BY <3>1, <2>1 DEF EveryPooledTxIsQueued
  <2>4. ASSUME NEW u \in Pooled'
        PROVE  \E i \in 1..Len(buckets'[bucket_of(Fee[u])]) :
                 /\ buckets'[bucket_of(Fee[u])][i].hash = u
                 /\ buckets'[bucket_of(Fee[u])][i].inserted_at <= index'[u]
    <3>1. CASE u = t
      <4>1. index'[t] = clock /\ clock \in Nat
        BY InsertKeepsTheBooks DEF TypeOK
      <4> QED
        BY <3>1, <4>1, <2>2 DEF b
    <3>2. CASE u # t
      <4>1. u \in Pooled /\ index'[u] = index[u]
        BY <3>2, InsertKeepsTheBooks
      <4>2. PICK i \in 1..Len(buckets[bucket_of(Fee[u])]) :
              /\ buckets[bucket_of(Fee[u])][i].hash = u
              /\ buckets[bucket_of(Fee[u])][i].inserted_at <= index[u]
        BY <4>1 DEF EveryPooledTxIsQueued
      <4>3. CASE bucket_of(Fee[u]) = b
        BY <4>1, <4>2, <4>3, <2>2
      <4>4. CASE bucket_of(Fee[u]) # b
        BY <4>1, <4>2, <4>4, <2>1, BucketOfType
      <4> QED
        BY <4>3, <4>4
    <3> QED
      BY <3>1, <3>2
  <2> QED
    BY <2>3, <2>4 DEF EveryPooledTxIsQueued
<1>8. BlockIsSound' /\ RicherBucketsFirst'
  BY <1>1 DEF BlockIsSound, RicherBucketsFirst, builder
<1> QED
  BY <1>5, <1>6, <1>7, <1>8

\* stats' is refreshed after a removal.
LEMMA RefreshedAfterRemoval ==
  ASSUME TypeOK, tx_store = Pooled, total_bytes = Weight(Pooled, size),
         ClaimsAreExact, NEW S \in SUBSET Txs, RemoveFromPool(S),
         stats' = RefreshedStats(index', total_bytes')
  PROVE  /\ stats' \in [total_tx : Nat, total_bytes : Nat, fee_watermark : Nat]
         /\ stats'.total_tx = Cardinality(Pooled')
         /\ stats'.total_bytes = total_bytes'
<1>1. stats' = [stats EXCEPT !.total_tx = Cardinality(Pooled'),
                            !.total_bytes = total_bytes']
  BY DEF RefreshedStats, Pooled
<1>2. Pooled' \in SUBSET Txs /\ total_bytes' \in Nat
  BY RemovalKeepsTheBooks DEF IsMap, Pooled
<1>3. Cardinality(Pooled') \in Nat
  BY <1>2, SubsetFacts
<1> QED
  BY <1>1, <1>2, <1>3 DEF TypeOK

\* remove_transactions.
LEMMA RemovePreservesInv ==
  ASSUME Inv, NEW S \in SUBSET Pooled, remove_transactions(S)
  PROVE  Inv'
<1> USE DEF Inv
<1>1. /\ UNCHANGED <<buckets, min_fee_watermark, clock, builder>>
      /\ ~building /\ ~building'
      /\ RemoveFromPool(S)
      /\ stats' = RefreshedStats(index', total_bytes')
  BY DEF remove_transactions, builder
<1>2. /\ S \in SUBSET Txs
      /\ tx_store = Pooled /\ total_bytes = Weight(Pooled, size)
  BY DEF TypeOK, IsMap, Pooled, BooksBalance
<1>3. /\ Pooled' = Pooled \ S
      /\ IsMap(index', Txs, Nat)
      /\ \A t \in Pooled' : index'[t] = index[t]
      /\ IsMap(nullifiers', Nullifiers, Txs)
      /\ tx_store' = Pooled'
      /\ total_bytes' = Weight(Pooled', size)
      /\ total_bytes' \in Nat
      /\ total_bytes' <= total_bytes
      /\ Cardinality(Pooled') <= Cardinality(Pooled)
      /\ ClaimsAreExact'
  BY <1>1, <1>2, RemovalKeepsTheBooks
<1>4. /\ stats' \in [total_tx : Nat, total_bytes : Nat, fee_watermark : Nat]
      /\ stats'.total_tx = Cardinality(Pooled')
      /\ stats'.total_bytes = total_bytes'
  BY <1>1, <1>2, RefreshedAfterRemoval
<1>5. TypeOK'
  BY <1>1, <1>3, <1>4 DEF TypeOK, builder, IsMap, Pooled
<1>6. BooksBalance'
  <2>1. /\ Cardinality(Pooled) \in Nat /\ Cardinality(Pooled') \in Nat
        /\ total_bytes \in Nat
    BY <1>3, SubsetFacts DEF TypeOK, IsMap, Pooled
  <2> QED
    BY <2>1, <1>3, <1>4, LimitsAssumption DEF BooksBalance
<1>7. EveryPooledTxIsQueued'
  BY <1>1, <1>3 DEF EveryPooledTxIsQueued
<1>8. BlockIsSound' /\ RicherBucketsFirst'
  BY <1>1 DEF BlockIsSound, RicherBucketsFirst, builder
<1> QED
  BY <1>3, <1>5, <1>6, <1>7, <1>8

\* evict_stale: a transaction that stays has no stale ref, so its refs stay.
LEMMA EvictPreservesInv ==
  ASSUME Inv, evict_stale
  PROVE  Inv'
<1> USE DEF Inv
<1> DEFINE S == StaleHashes
           kept(b) == (1..Len(buckets[b])) \ StalePositions(b)
<1>1. /\ UNCHANGED <<min_fee_watermark, clock, builder>>
      /\ ~building /\ ~building'
      /\ buckets' = [b \in Buckets |-> RetainAt(buckets[b], kept(b))]
      /\ RemoveFromPool(S)
      /\ stats' = RefreshedStats(index', total_bytes')
  BY DEF evict_stale, builder
<1>2. /\ S \in SUBSET Txs
      /\ tx_store = Pooled /\ total_bytes = Weight(Pooled, size)
  <2>1. \A b \in Buckets : \A i \in StalePositions(b) : buckets[b][i].hash \in Txs
    <3> SUFFICES ASSUME NEW b \in Buckets, NEW i \in 1..Len(buckets[b])
                 PROVE  buckets[b][i].hash \in Txs
      BY DEF StalePositions
    <3>1. buckets[b] \in Seq(TxRef)
      BY DEF TypeOK
    <3>2. buckets[b][i] \in TxRef
      BY <3>1, ElementOfSeq
    <3> QED
      BY <3>2 DEF TxRef
  <2> QED
    BY <2>1 DEF StaleHashes, BooksBalance
<1>3. /\ Pooled' = Pooled \ S
      /\ IsMap(index', Txs, Nat)
      /\ \A t \in Pooled' : index'[t] = index[t]
      /\ IsMap(nullifiers', Nullifiers, Txs)
      /\ tx_store' = Pooled'
      /\ total_bytes' = Weight(Pooled', size)
      /\ total_bytes' \in Nat
      /\ total_bytes' <= total_bytes
      /\ Cardinality(Pooled') <= Cardinality(Pooled)
      /\ ClaimsAreExact'
  <2> HIDE DEF S
  <2> QED
    BY <1>1, <1>2, RemovalKeepsTheBooks
<1>4. /\ stats' \in [total_tx : Nat, total_bytes : Nat, fee_watermark : Nat]
      /\ stats'.total_tx = Cardinality(Pooled')
      /\ stats'.total_bytes = total_bytes'
  <2> HIDE DEF S
  <2> QED
    BY <1>1, <1>2, RefreshedAfterRemoval
<1>5. \A b \in Buckets :
        /\ buckets'[b] \in Seq(TxRef)
        /\ \A i \in kept(b) : \E j \in 1..Len(buckets'[b]) : buckets'[b][j] = buckets[b][i]
        /\ \A j \in 1..Len(buckets'[b]) : \E i \in kept(b) : buckets'[b][j] = buckets[b][i]
  <2> SUFFICES ASSUME NEW b \in Buckets
               PROVE  /\ buckets'[b] \in Seq(TxRef)
                      /\ \A i \in kept(b) : \E j \in 1..Len(buckets'[b]) :
                           buckets'[b][j] = buckets[b][i]
                      /\ \A j \in 1..Len(buckets'[b]) : \E i \in kept(b) :
                           buckets'[b][j] = buckets[b][i]
    OBVIOUS
  <2>1. buckets[b] \in Seq(TxRef) /\ kept(b) \in SUBSET (1..Len(buckets[b]))
    BY DEF TypeOK
  <2>2. buckets'[b] = RetainAt(buckets[b], kept(b))
    BY <1>1
  <2> DEFINE s == buckets[b]
             K == kept(b)
  <2>3. /\ RetainAt(s, K) \in Seq(TxRef)
        /\ \A i \in K : \E j \in 1..Len(RetainAt(s, K)) : RetainAt(s, K)[j] = s[i]
        /\ \A j \in 1..Len(RetainAt(s, K)) : \E i \in K : RetainAt(s, K)[j] = s[i]
    <3> HIDE DEF s, K
    <3> QED
      BY <2>1, RetainAtProperties DEF s, K
  <2> QED
    BY <2>2, <2>3, Zenon
<1>6. TypeOK'
  <2>1. buckets' \in [Buckets -> Seq(TxRef)]
    BY <1>1, <1>5
  <2> QED
    BY <2>1, <1>1, <1>3, <1>4 DEF TypeOK, builder, IsMap, Pooled
<1>7. BooksBalance'
  <2>1. /\ Cardinality(Pooled) \in Nat /\ Cardinality(Pooled') \in Nat
        /\ total_bytes \in Nat
    BY <1>3, SubsetFacts DEF TypeOK, IsMap, Pooled
  <2> QED
    BY <2>1, <1>3, <1>4, LimitsAssumption DEF BooksBalance
<1>8. EveryPooledTxIsQueued'
  <2>1. \A b \in Buckets : \A j \in 1..Len(buckets'[b]) :
          bucket_of(Fee[buckets'[b][j].hash]) = b
    BY <1>5 DEF EveryPooledTxIsQueued
  <2>2. ASSUME NEW t \in Pooled'
        PROVE  \E j \in 1..Len(buckets'[bucket_of(Fee[t])]) :
                 /\ buckets'[bucket_of(Fee[t])][j].hash = t
                 /\ buckets'[bucket_of(Fee[t])][j].inserted_at <= index'[t]
    <3> DEFINE b == bucket_of(Fee[t])
    <3>1. t \in Pooled /\ t \notin StaleHashes /\ b \in Buckets
      BY <1>3, BucketOfType
    <3>2. PICK i \in 1..Len(buckets[b]) :
            buckets[b][i].hash = t /\ buckets[b][i].inserted_at <= index[t]
      BY <3>1 DEF EveryPooledTxIsQueued
    <3>3. i \in kept(b)
      BY <3>1, <3>2 DEF StaleHashes
    <3>4. PICK j \in 1..Len(buckets'[b]) : buckets'[b][j] = buckets[b][i]
      BY <3>1, <3>3, <1>5
    <3> QED
      BY <3>2, <3>4, <1>3
  <2> QED
    BY <2>1, <2>2 DEF EveryPooledTxIsQueued
<1>9. BlockIsSound' /\ RicherBucketsFirst'
  BY <1>1 DEF BlockIsSound, RicherBucketsFirst, builder
<1> QED
  BY <1>3, <1>6, <1>7, <1>8, <1>9

\* adjust_fee_floor touches the watermark and its copy only.
LEMMA AdjustPreservesInv ==
  ASSUME Inv, NEW congestion \in BOOLEAN, adjust_fee_floor(congestion)
  PROVE  Inv'
<1> USE DEF Inv
<1>1. /\ UNCHANGED <<buckets, index, nullifiers, tx_store, total_bytes, clock>>
      /\ UNCHANGED <<building, limit, cursor, bytes, out>>
      /\ Pooled' = Pooled
      /\ stats' = [stats EXCEPT !.fee_watermark = min_fee_watermark']
  BY DEF adjust_fee_floor, pool, builder, Pooled
<1>2. min_fee_watermark' \in Nat /\ min_fee_watermark' >= MIN_FEE
  <2>1. MIN_FEE \in Nat /\ min_fee_watermark \in Nat /\ min_fee_watermark >= MIN_FEE
    BY LimitsAssumption DEF TypeOK
  <2>2. \/ min_fee_watermark' = min_fee_watermark + 1
        \/ min_fee_watermark' = LoweredFloor
    BY DEF adjust_fee_floor
  <2>3. LoweredFloor \in Nat /\ LoweredFloor >= MIN_FEE
    BY <2>1 DEF LoweredFloor, SaturatingSub
  <2> QED
    BY <2>1, <2>2, <2>3
<1>3. /\ stats' \in [total_tx : Nat, total_bytes : Nat, fee_watermark : Nat]
      /\ stats'.total_tx = stats.total_tx
      /\ stats'.total_bytes = stats.total_bytes
  BY <1>1, <1>2 DEF TypeOK
<1>4. TypeOK'
  BY <1>1, <1>2, <1>3 DEF TypeOK
<1>5. BooksBalance' /\ ClaimsAreExact'
  BY <1>1, <1>3 DEF BooksBalance, ClaimsAreExact
<1>6. EveryPooledTxIsQueued' /\ BlockIsSound' /\ RicherBucketsFirst'
  BY <1>1 DEF EveryPooledTxIsQueued, BlockIsSound, RicherBucketsFirst
<1> QED
  BY <1>4, <1>5, <1>6

\* Time passes.
LEMMA TickPreservesInv ==
  ASSUME Inv, Tick
  PROVE  Inv'
<1> USE DEF Inv
<1>1. /\ UNCHANGED <<buckets, index, nullifiers, tx_store, total_bytes>>
      /\ UNCHANGED <<building, limit, cursor, bytes, out>>
      /\ UNCHANGED <<min_fee_watermark, stats>>
      /\ Pooled' = Pooled
      /\ clock' = clock + 1
  BY DEF Tick, pool, builder, Pooled
<1>2. TypeOK'
  BY <1>1 DEF TypeOK
<1>3. BooksBalance' /\ ClaimsAreExact'
  BY <1>1 DEF BooksBalance, ClaimsAreExact
<1>4. EveryPooledTxIsQueued'
  BY <1>1 DEF EveryPooledTxIsQueued
<1>5. BlockIsSound' /\ RicherBucketsFirst'
  BY <1>1 DEF BlockIsSound, RicherBucketsFirst
<1> QED
  BY <1>2, <1>3, <1>4, <1>5

\* build_block starts at the last bucket with an empty block.
LEMMA BuildBlockPreservesInv ==
  ASSUME Inv, NEW l \in BlockLimits, BuildBlock(l)
  PROVE  Inv'
<1> USE DEF Inv
<1>1. /\ UNCHANGED <<buckets, index, nullifiers, tx_store, total_bytes>>
      /\ UNCHANGED <<min_fee_watermark, stats, clock>>
      /\ Pooled' = Pooled
      /\ building' = TRUE /\ limit' = l /\ cursor' = FEE_BUCKETS - 1
      /\ bytes' = 0 /\ out' = <<>>
  BY DEF BuildBlock, FirstBucket, pool, Pooled
<1>2. l \in [max_tx : Nat, max_bytes : Nat]
  BY LimitsAssumption
<1>3. cursor' \in Buckets /\ \A b \in Buckets : b <= cursor'
  BY <1>1, LimitsAssumption DEF Buckets
<1>4. TypeOK'
  BY <1>1, <1>2, <1>3 DEF TypeOK
<1>5. BooksBalance' /\ ClaimsAreExact' /\ EveryPooledTxIsQueued'
  BY <1>1 DEF BooksBalance, ClaimsAreExact, EveryPooledTxIsQueued
<1>6. BlockIsSound'
  <2>1. {out'[i] : i \in 1..Len(out')} = {} /\ Len(out') = 0
    BY <1>1
  <2>2. bytes' = Weight({out'[i] : i \in 1..Len(out')}, size)
    BY <2>1, <1>1, WeightEmpty
  <2> QED
    BY <2>1, <2>2, <1>1, <1>2 DEF BlockIsSound
<1>7. RicherBucketsFirst'
  <2>1. Len(out') = 0 /\ building'
    BY <1>1
  <2>2. \A t \in Pooled' : bucket_of(Fee[t]) <= cursor'
    BY <1>3, BucketOfType
  <2> QED
    BY <2>1, <2>2 DEF RicherBucketsFirst
<1> QED
  BY <1>4, <1>5, <1>6, <1>7

\* build_block leaves a drained bucket: nothing pooled belonged to it any more.
LEMMA NextBucketPreservesInv ==
  ASSUME Inv, NextBucket
  PROVE  Inv'
<1> USE DEF Inv
<1>1. /\ UNCHANGED <<buckets, index, nullifiers, tx_store, total_bytes>>
      /\ UNCHANGED <<min_fee_watermark, clock, limit, bytes, out>>
      /\ Pooled' = Pooled
      /\ building
      /\ buckets[cursor] = <<>>
  BY DEF NextBucket, pool, Pooled
<1>2. cursor \in Nat /\ cursor \in Buckets
  BY LimitsAssumption DEF TypeOK, Buckets
<1>3. \A t \in Pooled : bucket_of(Fee[t]) # cursor
  BY <1>1 DEF EveryPooledTxIsQueued
<1>4. CASE cursor > 0
  <2>1. cursor' = cursor - 1 /\ UNCHANGED <<building, stats>>
    BY <1>4 DEF NextBucket
  <2>2. cursor' \in Buckets
    BY <2>1, <1>2, <1>4, LimitsAssumption DEF Buckets
  <2>3. TypeOK'
    BY <1>1, <2>1, <2>2 DEF TypeOK
  <2>4. BooksBalance' /\ ClaimsAreExact' /\ EveryPooledTxIsQueued' /\ BlockIsSound'
    BY <1>1, <2>1 DEF BooksBalance, ClaimsAreExact, EveryPooledTxIsQueued, BlockIsSound
  <2>5. \A t : bucket_of(Fee[t]) \in Int
    BY BucketOfType, LimitsAssumption DEF Buckets
  <2>6. RicherBucketsFirst'
    <3> HIDE DEF Inv
    <3>1. /\ \A t \in Pooled : bucket_of(Fee[t]) <= cursor
          /\ \A i \in 1..Len(out) : bucket_of(Fee[out[i]]) >= cursor
          /\ \A i, j \in 1..Len(out) :
               i < j => bucket_of(Fee[out[i]]) >= bucket_of(Fee[out[j]])
      BY <1>1 DEF RicherBucketsFirst, Inv
    <3>2. \A t \in Pooled : bucket_of(Fee[t]) <= cursor - 1
      BY <1>2, <1>3, <2>5, <3>1
    <3>3. \A i \in 1..Len(out) : bucket_of(Fee[out[i]]) >= cursor - 1
      BY <1>2, <2>5, <3>1
    <3> QED
      BY <1>1, <2>1, <3>1, <3>2, <3>3 DEF RicherBucketsFirst
  <2> QED
    BY <2>3, <2>4, <2>6
<1>5. CASE ~(cursor > 0)
  <2>1. /\ cursor' = cursor /\ building' = FALSE
        /\ stats' = [stats EXCEPT !.total_tx = Cardinality(Pooled),
                                  !.total_bytes = total_bytes]
    BY <1>5 DEF NextBucket, RefreshedStats, Pooled
  <2>2. Cardinality(Pooled) \in Nat
    BY SubsetFacts DEF TypeOK, IsMap, Pooled
  <2>3. TypeOK'
    BY <1>1, <2>1, <2>2 DEF TypeOK
  <2>4. BooksBalance'
    BY <1>1, <2>1 DEF BooksBalance, TypeOK
  <2>5. ClaimsAreExact' /\ EveryPooledTxIsQueued'
    BY <1>1, <2>1 DEF ClaimsAreExact, EveryPooledTxIsQueued
  <2>6. BlockIsSound' /\ RicherBucketsFirst'
    BY <1>1, <2>1 DEF BlockIsSound, RicherBucketsFirst
  <2> QED
    BY <2>3, <2>4, <2>5, <2>6
<1> QED
  BY <1>4, <1>5

\* Popping the front ref of the current bucket leaves every transaction that
\* stays pooled queued, provided the front one does not stay.
LEMMA PopKeepsQueued ==
  ASSUME TypeOK, EveryPooledTxIsQueued, buckets[cursor] # <<>>,
         buckets' = Popped, Front.hash \notin Pooled', Pooled' \subseteq Pooled,
         \A t \in Pooled' : index'[t] = index[t]
  PROVE  /\ buckets' \in [Buckets -> Seq(TxRef)]
         /\ EveryPooledTxIsQueued'
<1> DEFINE q == buckets[cursor]
<1>1. cursor \in Buckets /\ q \in Seq(TxRef) /\ q # <<>>
  BY DEF TypeOK
<1>2. /\ Tail(q) \in Seq(TxRef)
      /\ Len(q) \in Nat /\ Len(q) > 0
      /\ Len(Tail(q)) = Len(q) - 1
      /\ \A i \in 1..Len(Tail(q)) : Tail(q)[i] = q[i + 1]
      /\ Head(q) = q[1]
  <2> HIDE DEF q
  <2> QED
    BY <1>1
<1>3. buckets' = [buckets EXCEPT ![cursor] = Tail(q)]
  BY DEF Popped
<1>4. buckets' \in [Buckets -> Seq(TxRef)]
  BY <1>1, <1>2, <1>3 DEF TypeOK
<1>5. buckets'[cursor] = Tail(q) /\ \A c \in Buckets \ {cursor} : buckets'[c] = buckets[c]
  BY <1>1, <1>3 DEF TypeOK
<1>6. \A b \in Buckets : \A i \in 1..Len(buckets'[b]) :
        bucket_of(Fee[buckets'[b][i].hash]) = b
  <2>1. ASSUME NEW i \in 1..Len(Tail(q))
        PROVE  bucket_of(Fee[Tail(q)[i].hash]) = cursor
    <3>1. i + 1 \in 1..Len(q) /\ Tail(q)[i] = q[i + 1]
      BY <1>2
    <3> QED
      BY <3>1, <1>1 DEF EveryPooledTxIsQueued
  <2> HIDE DEF q
  <2> SUFFICES ASSUME NEW b \in Buckets, NEW i \in 1..Len(buckets'[b])
               PROVE  bucket_of(Fee[buckets'[b][i].hash]) = b
    OBVIOUS
  <2>2. CASE b # cursor
    BY <2>2, <1>5 DEF EveryPooledTxIsQueued
  <2>3. CASE b = cursor
    BY <2>1, <2>3, <1>5
  <2> QED
    BY <2>2, <2>3
<1>7. ASSUME NEW t \in Pooled'
      PROVE  \E i \in 1..Len(buckets'[bucket_of(Fee[t])]) :
               /\ buckets'[bucket_of(Fee[t])][i].hash = t
               /\ buckets'[bucket_of(Fee[t])][i].inserted_at <= index'[t]
  <2>1. PICK i \in 1..Len(buckets[bucket_of(Fee[t])]) :
          /\ buckets[bucket_of(Fee[t])][i].hash = t
          /\ buckets[bucket_of(Fee[t])][i].inserted_at <= index[t]
    BY DEF EveryPooledTxIsQueued
  <2>2. CASE bucket_of(Fee[t]) = cursor
    <3>1. i # 1
      BY <2>1, <2>2, <1>2 DEF Front
    <3>2. i - 1 \in 1..Len(Tail(q)) /\ Tail(q)[i - 1] = q[i]
      BY <3>1, <2>1, <2>2, <1>2
    <3> QED
      BY <3>2, <2>1, <2>2, <1>5
  <2>3. CASE bucket_of(Fee[t]) # cursor
    BY <2>1, <2>3, <1>5, BucketOfType
  <2> QED
    BY <2>2, <2>3
<1> QED
  BY <1>4, <1>6, <1>7 DEF EveryPooledTxIsQueued

\* build_block drops an orphaned ref.
LEMMA SkipOrphanPreservesInv ==
  ASSUME Inv, SkipOrphan
  PROVE  Inv'
<1> USE DEF Inv
<1>1. /\ UNCHANGED <<index, nullifiers, tx_store, total_bytes>>
      /\ UNCHANGED <<min_fee_watermark, stats, clock>>
      /\ UNCHANGED <<building, limit, cursor, bytes, out>>
      /\ Pooled' = Pooled
      /\ buckets[cursor] # <<>>
      /\ buckets' = Popped
      /\ Front.hash \notin Pooled
  BY DEF SkipOrphan, builder, Pooled
<1>2. buckets' \in [Buckets -> Seq(TxRef)] /\ EveryPooledTxIsQueued'
  BY <1>1, PopKeepsQueued
<1>3. TypeOK'
  BY <1>1, <1>2 DEF TypeOK
<1>4. BooksBalance' /\ ClaimsAreExact'
  BY <1>1 DEF BooksBalance, ClaimsAreExact
<1>5. BlockIsSound' /\ RicherBucketsFirst'
  BY <1>1 DEF BlockIsSound, RicherBucketsFirst
<1> QED
  BY <1>2, <1>3, <1>4, <1>5

\* build_block moves the front transaction from the pool to the block.  It was
\* pooled together with everything already taken, so it spends nothing twice,
\* and it came from the current bucket.
LEMMA TakeFrontPreservesInv ==
  ASSUME Inv, TakeFront
  PROVE  Inv'
<1> USE DEF Inv
<1> DEFINE t == Front.hash
           n == Len(out)
<1>1. /\ UNCHANGED <<min_fee_watermark, clock, limit, cursor>>
      /\ building /\ buckets[cursor] # <<>>
      /\ t \in Pooled /\ Fits(t)
      /\ RemoveFromPool({t})
      /\ buckets' = Popped
      /\ bytes' = bytes + size[t]
      /\ out' = Append(out, t)
      /\ building' = (Len(out') < limit.max_tx)
      /\ stats' = IF building' THEN stats ELSE RefreshedStats(index', total_bytes')
  BY DEF TakeFront
<1>2. /\ Pooled \in SUBSET Txs /\ t \in Txs
      /\ tx_store = Pooled /\ total_bytes = Weight(Pooled, size)
  BY <1>1 DEF TypeOK, IsMap, Pooled, BooksBalance
<1>3. bucket_of(Fee[t]) = cursor
  <2>1. cursor \in Buckets /\ buckets[cursor] \in Seq(TxRef)
    BY DEF TypeOK
  <2>2. 1 \in 1..Len(buckets[cursor]) /\ Front = buckets[cursor][1]
    BY <1>1, <2>1 DEF Front
  <2> QED
    BY <2>1, <2>2 DEF EveryPooledTxIsQueued
<1> HIDE DEF t
<1>4. /\ Pooled' = Pooled \ {t}
      /\ IsMap(index', Txs, Nat)
      /\ \A u \in Pooled' : index'[u] = index[u]
      /\ IsMap(nullifiers', Nullifiers, Txs)
      /\ tx_store' = Pooled'
      /\ total_bytes' = Weight(Pooled', size)
      /\ total_bytes' \in Nat
      /\ total_bytes' <= total_bytes
      /\ Cardinality(Pooled') <= Cardinality(Pooled)
      /\ ClaimsAreExact'
  BY <1>1, <1>2, RemovalKeepsTheBooks
<1>5. /\ stats' \in [total_tx : Nat, total_bytes : Nat, fee_watermark : Nat]
      /\ ~building' => /\ stats'.total_tx = Cardinality(Pooled')
                       /\ stats'.total_bytes = total_bytes'
  <2>1. CASE building'
    BY <2>1, <1>1 DEF TypeOK
  <2>2. CASE ~building'
    BY <2>2, <1>1, <1>2, RefreshedAfterRemoval
  <2> QED
    BY <2>1, <2>2
<1>6. buckets' \in [Buckets -> Seq(TxRef)] /\ EveryPooledTxIsQueued'
  BY <1>1, <1>4, PopKeepsQueued DEF t
<1>7. /\ n \in Nat /\ Len(out') = n + 1
      /\ out' \in Seq(Txs)
      /\ out'[n + 1] = t
      /\ \A i \in 1..n : out'[i] = out[i]
  BY <1>1, <1>2 DEF TypeOK
<1>8. bytes \in Nat /\ size[t] \in Nat /\ bytes' \in Nat
  BY <1>1, <1>2, SizeType DEF TypeOK
<1>9. TypeOK'
  <2>1. building' \in BOOLEAN /\ tx_store' \subseteq Txs
    BY <1>1, <1>2, <1>4
  <2>2. {total_bytes', min_fee_watermark', clock', bytes'} \subseteq Nat
        /\ min_fee_watermark' >= MIN_FEE
    BY <1>1, <1>4, <1>8 DEF TypeOK
  <2>3. limit' \in [max_tx : Nat, max_bytes : Nat] /\ cursor' \in Buckets
    BY <1>1 DEF TypeOK
  <2> QED
    BY <2>1, <2>2, <2>3, <1>4, <1>5, <1>6, <1>7 DEF TypeOK
<1>10. BooksBalance'
  <2>1. /\ Cardinality(Pooled) \in Nat /\ Cardinality(Pooled') \in Nat
        /\ total_bytes \in Nat
    BY <1>2, <1>4, SubsetFacts DEF TypeOK
  <2> QED
    BY <2>1, <1>4, <1>5, LimitsAssumption DEF BooksBalance
<1>11. \A u \in Pooled' : u # t /\ Inputs[u] \cap Inputs[t] = {}
  BY <1>1, <1>4 DEF ClaimsAreExact
<1>12. \A i \in 1..n : out[i] # t /\ Inputs[out[i]] \cap Inputs[t] = {}
  BY <1>1 DEF BlockIsSound
<1>13. BlockIsSound'
  <2>1. \A i, j \in 1..Len(out') :
          i # j => out'[i] # out'[j] /\ Inputs[out'[i]] \cap Inputs[out'[j]] = {}
    <3> SUFFICES ASSUME NEW i \in 1..(n + 1), NEW j \in 1..(n + 1), i # j
                 PROVE  out'[i] # out'[j] /\ Inputs[out'[i]] \cap Inputs[out'[j]] = {}
      BY <1>7
    <3>1. CASE i \in 1..n /\ j \in 1..n
      BY <3>1, <1>7 DEF BlockIsSound
    <3>2. CASE i = n + 1 /\ j \in 1..n
      BY <3>2, <1>7, <1>12
    <3>3. CASE j = n + 1 /\ i \in 1..n
      BY <3>3, <1>7, <1>12
    <3> QED
      BY <3>1, <3>2, <3>3, <1>7
  <2>2. \A i \in 1..Len(out') : \A u \in Pooled' :
          out'[i] # u /\ Inputs[out'[i]] \cap Inputs[u] = {}
    <3> SUFFICES ASSUME NEW i \in 1..(n + 1), NEW u \in Pooled'
                 PROVE  out'[i] # u /\ Inputs[out'[i]] \cap Inputs[u] = {}
      BY <1>7
    <3>1. CASE i \in 1..n
      BY <3>1, <1>1, <1>4, <1>7 DEF BlockIsSound
    <3>2. CASE i = n + 1
      BY <3>2, <1>7, <1>11
    <3> QED
      BY <3>1, <3>2, <1>7
  <2>3. bytes' = Weight({out'[i] : i \in 1..Len(out')}, size)
    <3> DEFINE taken == {out[i] : i \in 1..n}
    <3>1. {out'[i] : i \in 1..Len(out')} = taken \cup {t}
      <4>1. 1..Len(out') = (1..n) \cup {n + 1}
        BY <1>7
      <4> QED
        BY <4>1, <1>7
    <3>2. taken \in SUBSET Txs /\ {t} \in SUBSET Txs /\ taken \cap {t} = {}
      BY <1>2, <1>12 DEF TypeOK
    <3>3. IsFiniteSet(taken) /\ IsFiniteSet({t})
      BY <3>2, SubsetFacts
    <3>4. \A x \in taken \cup {t} : size[x] \in Nat
      BY <3>2, SizeType
    <3>5. bytes = Weight(taken, size)
      BY DEF BlockIsSound
    <3> HIDE DEF taken
    <3>6. Weight(taken \cup {t}, size) = Weight(taken, size) + Weight({t}, size)
      BY <3>2, <3>3, <3>4, WeightUnion
    <3>7. Weight({t}, size) = size[t]
      BY <3>4, WeightSingleton
    <3> QED
      BY <3>1, <3>5, <3>6, <3>7, <1>1, Zenon
  <2>4. bytes' <= limit'.max_bytes
    BY <1>1 DEF Fits
  <2>5. Len(out') <= limit'.max_tx \/ Len(out') <= 1
    <3>1. n < limit.max_tx \/ n = 0
      BY <1>1 DEF BlockIsSound
    <3>2. limit.max_tx \in Nat
      BY DEF TypeOK
    <3> QED
      BY <3>1, <3>2, <1>1, <1>7
  <2>6. building' => Len(out') < limit'.max_tx
    BY <1>1
  <2> QED
    BY <2>1, <2>2, <2>3, <2>4, <2>5, <2>6 DEF BlockIsSound
<1>14. RicherBucketsFirst'
  <2>1. \A u \in Pooled' : bucket_of(Fee[u]) <= cursor'
    BY <1>1, <1>4 DEF RicherBucketsFirst
  <2>2. \A i \in 1..n : bucket_of(Fee[out[i]]) >= cursor
    BY <1>1 DEF RicherBucketsFirst
  <2>3. cursor \in Int
    BY LimitsAssumption DEF TypeOK, Buckets
  <2>4. \A i \in 1..(n + 1) : bucket_of(Fee[out'[i]]) >= cursor
    <3> SUFFICES ASSUME NEW i \in 1..(n + 1)
                 PROVE  bucket_of(Fee[out'[i]]) >= cursor
      OBVIOUS
    <3>1. CASE i \in 1..n
      BY <3>1, <2>2, <1>7
    <3>2. CASE i = n + 1
      BY <3>2, <2>3, <1>3, <1>7 DEF t
    <3> QED
      BY <3>1, <3>2, <1>7
  <2>5. ASSUME NEW i \in 1..(n + 1), NEW j \in 1..(n + 1), i < j
        PROVE  bucket_of(Fee[out'[i]]) >= bucket_of(Fee[out'[j]])
    <3>1. CASE j \in 1..n
      <4>1. i \in 1..n
        BY <2>5, <3>1, <1>7
      <4> QED
        BY <2>5, <3>1, <4>1, <1>7 DEF RicherBucketsFirst
    <3>2. CASE j = n + 1
      BY <2>4, <3>2, <1>3, <1>7 DEF t
    <3> QED
      BY <3>1, <3>2, <1>7
  <2> QED
    BY <2>1, <2>4, <2>5, <1>1, <1>7 DEF RicherBucketsFirst
<1> QED
  BY <1>4, <1>6, <1>9, <1>10, <1>13, <1>14
-----------------------------------------------------------------------------
(******************************** Theorems *********************************)

\* Every step of the mempool preserves the invariant.
LEMMA NextPreservesInv ==
  ASSUME Inv, [Next]_vars
  PROVE  Inv'
<1>1. ASSUME NEW t \in Txs, Insert(t) PROVE Inv'
  BY <1>1, InsertPreservesInv
<1>2. ASSUME NEW S \in SUBSET Pooled, remove_transactions(S) PROVE Inv'
  BY <1>2, RemovePreservesInv
<1>3. CASE evict_stale
  BY <1>3, EvictPreservesInv
<1>4. ASSUME NEW congestion \in BOOLEAN, adjust_fee_floor(congestion) PROVE Inv'
  BY <1>4, AdjustPreservesInv
<1>5. ASSUME NEW l \in BlockLimits, BuildBlock(l) PROVE Inv'
  BY <1>5, BuildBlockPreservesInv
<1>6. CASE NextBucket
  BY <1>6, NextBucketPreservesInv
<1>7. CASE SkipOrphan
  BY <1>7, SkipOrphanPreservesInv
<1>8. CASE TakeFront
  BY <1>8, TakeFrontPreservesInv
<1>9. CASE Tick
  BY <1>9, TickPreservesInv
<1>10. CASE UNCHANGED vars
  <2>1. /\ UNCHANGED <<buckets, index, nullifiers, tx_store, total_bytes>>
        /\ UNCHANGED <<min_fee_watermark, stats, clock>>
        /\ UNCHANGED <<building, limit, cursor, bytes, out>>
        /\ Pooled' = Pooled
    BY <1>10 DEF vars, pool, builder, Pooled
  <2>2. TypeOK' /\ BooksBalance' /\ ClaimsAreExact'
    BY <2>1 DEF Inv, TypeOK, BooksBalance, ClaimsAreExact
  <2>3. EveryPooledTxIsQueued'
    BY <2>1 DEF Inv, EveryPooledTxIsQueued
  <2>4. BlockIsSound' /\ RicherBucketsFirst'
    BY <2>1 DEF Inv, BlockIsSound, RicherBucketsFirst
  <2> QED
    BY <2>2, <2>3, <2>4 DEF Inv
<1>11. CASE RetryOversized
  BY <1>10, <1>11 DEF RetryOversized
<1> QED
  BY <1>1, <1>2, <1>3, <1>4, <1>5, <1>6, <1>7, <1>8, <1>9, <1>10, <1>11 DEF Next

\* The conjunction of the invariants holds in every reachable state.
THEOREM InvHolds == Spec => []Inv
<1>1. Init => Inv
  BY InitEstablishesInv
<1>2. Inv /\ [Next]_vars => Inv'
  BY NextPreservesInv
<1> QED
  BY <1>1, <1>2, PTL DEF Spec

\* Every structure of the mempool keeps its type, cursor and watermark included.
THEOREM TypeCorrect == Spec => []TypeOK
<1>1. Inv => TypeOK
  BY DEF Inv
<1> QED
  BY <1>1, InvHolds, PTL

\* Index, store, byte count, limits and stats agree after every operation.
THEOREM BooksAlwaysBalance == Spec => []BooksBalance
<1>1. Inv => BooksBalance
  BY DEF Inv
<1> QED
  BY <1>1, InvHolds, PTL

\* The nullifier map is always exactly what the pooled transactions spend.
THEOREM ClaimsAlwaysExact == Spec => []ClaimsAreExact
<1>1. Inv => ClaimsAreExact
  BY DEF Inv
<1> QED
  BY <1>1, InvHolds, PTL

\* No pooled transaction is ever out of build_block's reach.
THEOREM PooledAlwaysQueued == Spec => []EveryPooledTxIsQueued
<1>1. Inv => EveryPooledTxIsQueued
  BY DEF Inv
<1> QED
  BY <1>1, InvHolds, PTL

\* build_block never selects a double spend and respects its limits.
THEOREM BlocksAlwaysSound == Spec => []BlockIsSound
<1>1. Inv => BlockIsSound
  BY DEF Inv
<1> QED
  BY <1>1, InvHolds, PTL

\* build_block drains the buckets in the order of falling fees.
THEOREM RicherAlwaysFirst == Spec => []RicherBucketsFirst
<1>1. Inv => RicherBucketsFirst
  BY DEF Inv
<1> QED
  BY <1>1, InvHolds, PTL

\* Every step of the mempool is a step of the abstract pool or leaves it alone.
LEMMA StepRefines ==
  ASSUME Inv, Inv', [Next]_vars
  PROVE  [Abstract!Next]_(Abstract!poolVars)
<1> DEFINE Skip == Pooled' = Pooled /\ out' = out
<1> USE DEF Inv
<1>1. ASSUME NEW t \in Txs, Insert(t) PROVE Abstract!Admit(t)
  <2>1. t \notin Pooled /\ Pooled' = Pooled \cup {t}
    BY <1>1, InsertKeepsTheBooks
  <2>2. \A u \in Pooled : ~Abstract!Conflict(t, u)
    BY <1>1 DEF Insert, Admits, ClaimsAreExact, Spent, Abstract!Conflict
  <2>3. /\ Cardinality(Pooled) < MAX_MEMPOOL_TX
        /\ Weight(Pooled, size) + size[t] <= MAX_MEMPOOL_BYTES
        /\ out' = out
    BY <1>1 DEF Insert, Admits, BooksBalance, builder
  <2>4. \A U : Abstract!Cardinality(U) = Cardinality(U)
    BY Zenon DEF Abstract!Cardinality, Cardinality
  <2>5. Abstract!Weight(Pooled, size) = Weight(Pooled, size)
    BY <2>4, Zenon DEF Abstract!Weight, Abstract!Units, Weight, Units
  <2> QED
    BY <2>1, <2>2, <2>3, <2>4, <2>5 DEF Abstract!Admit
<1>2. ASSUME NEW S \in SUBSET Pooled, remove_transactions(S)
      PROVE  Abstract!Discard(S)
  BY <1>2 DEF remove_transactions, RemoveFromPool, Drop, Pooled, builder,
              Abstract!Discard
<1>3. ASSUME evict_stale
      PROVE  \E S \in SUBSET Pooled : Abstract!Discard(S)
  <2>1. Pooled' = Pooled \ (StaleHashes \cap Pooled) /\ out' = out
    BY <1>3 DEF evict_stale, RemoveFromPool, Drop, Pooled, builder
  <2> QED
    BY <2>1 DEF Abstract!Discard
<1>4. ASSUME NEW l \in BlockLimits, BuildBlock(l) PROVE Abstract!StartBlock
  BY <1>4 DEF BuildBlock, pool, Pooled, Abstract!StartBlock
<1>5. ASSUME TakeFront PROVE \E t \in Txs : Abstract!Take(t)
  <2>1. /\ Front.hash \in Pooled
        /\ Pooled' = Pooled \ {Front.hash}
        /\ out' = Append(out, Front.hash)
    BY <1>5 DEF TakeFront, RemoveFromPool, Drop, Pooled
  <2>2. Front.hash \in Txs
    BY <2>1 DEF TypeOK, IsMap, Pooled
  <2> QED
    BY <2>1, <2>2 DEF Abstract!Take
<1>6. ASSUME NEW congestion \in BOOLEAN, adjust_fee_floor(congestion) PROVE Skip
  BY <1>6 DEF adjust_fee_floor, pool, builder, Pooled
<1>7. ASSUME NextBucket \/ SkipOrphan \/ RetryOversized \/ Tick \/ UNCHANGED vars
      PROVE  Skip
  BY <1>7 DEF NextBucket, SkipOrphan, RetryOversized, Tick, vars, pool, builder, Pooled
<1> QED
  BY <1>1, <1>2, <1>3, <1>4, <1>5, <1>6, <1>7 DEF Next, Abstract!Next, Abstract!poolVars

\* The bucketed, indexed, lock-protected mempool implements the abstract pool.
THEOREM MempoolImplementsTxPool == Spec => ImplementsTxPool
<1>1. Init => Abstract!Init
  BY DEF Init, Pooled, Abstract!Init
<1>2. Inv /\ Inv' /\ [Next]_vars => [Abstract!Next]_(Abstract!poolVars)
  BY StepRefines
<1> QED
  BY <1>1, <1>2, InvHolds, PTL DEF Spec, ImplementsTxPool, Abstract!Spec
-----------------------------------------------------------------------------
(*************************** The two entrances *****************************)

Stages == {"idle", "check", "insert", "read", "store"}

\* The workers that have found room and not used it yet.
Inserting == {w \in Workers : stage[w] = "insert"}

HttpTypeOK ==
  /\ stage \in [Workers -> Stages]
  /\ submitted \in [Workers -> Txs \cup {None}]
  /\ \A w \in Workers : stage[w] \in {"check", "insert"} => submitted[w] \in Txs
  /\ read_len \in [Workers -> Nat]
  /\ mempool_size \in Nat
  /\ outdated \subseteq Workers
  /\ metric_outdated \in BOOLEAN

RoomIsShared ==
  mempool_len + Cardinality(Inserting) <= mempool_max_tx + Cardinality(Workers)

LengthsAreExplained ==
  \A w \in Workers : stage[w] = "store" /\ w \notin outdated => read_len[w] = mempool_len

HttpInv == HttpTypeOK /\ RoomIsShared /\ LengthsAreExplained /\ UnracedMetricIsExact

\* What the cache holds of sender k: the end of what was accepted from it, up
\* to its capacity.
Cached(k) == IF k \in DOMAIN nonces THEN nonces[k] ELSE <<>>

AuthTypeOK ==
  /\ nonce_cache_size \in Nat
  /\ DOMAIN nonces \subseteq Keys
  /\ accepted \in [Keys -> Seq(Nonces)]
  /\ \A k \in Keys : Cached(k) \in Seq(Nonces)

CacheIsTheEnd ==
  \A k \in Keys :
    /\ Len(Cached(k)) = IF Len(accepted[k]) < Capacity THEN Len(accepted[k]) ELSE Capacity
    /\ \A i \in 1..Len(Cached(k)) :
         Cached(k)[i] = accepted[k][Len(accepted[k]) - Len(Cached(k)) + i]

AuthInv == AuthTypeOK /\ CacheIsTheEnd /\ ReplayNeedsAFullCache
-----------------------------------------------------------------------------
(****************************** Authentication *****************************)

\* Nothing is remembered and nothing was accepted.
LEMMA AuthInitEstablishesInv == AuthInit => AuthInv
<1> SUFFICES ASSUME AuthInit PROVE AuthInv
  OBVIOUS
<1>1. nonce_cache_size \in Nat /\ Capacity \in Nat /\ Capacity >= 1
  BY AuthAssumption DEF AuthInit, Capacity
<1>2. /\ DOMAIN nonces = {}
      /\ \A k \in Keys : Cached(k) = <<>> /\ accepted[k] = <<>>
  BY DEF AuthInit, Cached
<1>3. AuthTypeOK
  <2>1. <<>> \in Seq(Nonces)
    BY EmptySeq
  <2>2. accepted \in [Keys -> Seq(Nonces)]
    BY <2>1 DEF AuthInit
  <2> QED
    BY <2>1, <2>2, <1>1, <1>2 DEF AuthTypeOK
<1>4. CacheIsTheEnd
  BY <1>1, <1>2 DEF CacheIsTheEnd
<1>5. ReplayNeedsAFullCache
  BY <1>2 DEF ReplayNeedsAFullCache
<1> QED
  BY <1>3, <1>4, <1>5 DEF AuthInv

\* The queue of one sender before and after a nonce is pushed: it stays the
\* end of what was accepted, and no longer than its capacity.
LEMMA PushedIsTheEnd ==
  ASSUME NEW q \in Seq(Nonces), NEW a \in Seq(Nonces), NEW n \in Nonces,
         nonce_cache_size \in Nat,
         Len(q) = IF Len(a) < Capacity THEN Len(a) ELSE Capacity,
         \A i \in 1..Len(q) : q[i] = a[Len(a) - Len(q) + i]
  PROVE  LET p == Pushed(q, n)
             b == Append(a, n)
         IN  /\ p \in Seq(Nonces)
             /\ Len(p) = IF Len(b) < Capacity THEN Len(b) ELSE Capacity
             /\ \A i \in 1..Len(p) : p[i] = b[Len(b) - Len(p) + i]
<1> DEFINE p == Pushed(q, n)
           b == Append(a, n)
           full == Len(q) >= nonce_cache_size /\ q # <<>>
           r == IF full THEN Tail(q) ELSE q
<1>1. Len(a) \in Nat /\ Len(q) \in Nat /\ Capacity \in Nat /\ Capacity >= 1
  BY LenProperties DEF Capacity
<1>2. /\ b \in Seq(Nonces)
      /\ Len(b) = Len(a) + 1
      /\ b[Len(a) + 1] = n
      /\ \A i \in 1..Len(a) : b[i] = a[i]
  BY AppendProperties
<1>3. CASE full
  <2>1. q # <<>> /\ r = Tail(q)
    BY <1>3
  <2>2. /\ r \in Seq(Nonces)
        /\ Len(r) = Len(q) - 1
        /\ \A i \in 1..Len(r) : r[i] = q[i + 1]
    BY <2>1, HeadTailProperties
  <2>3. Len(q) = Capacity /\ Len(a) >= Capacity
    BY <1>1, <1>3 DEF Capacity
  <2>4. /\ p = Append(r, n)
        /\ p \in Seq(Nonces)
        /\ Len(p) = Len(q)
        /\ p[Len(q)] = n
        /\ \A i \in 1..(Len(q) - 1) : p[i] = r[i]
    <3>1. p = Append(r, n)
      BY DEF Pushed
    <3> HIDE DEF r, p
    <3> QED
      BY <3>1, <2>2, AppendProperties, <1>1
  <2> HIDE DEF p, b, r
  <2>5. \A i \in 1..Len(p) : p[i] = b[Len(b) - Len(p) + i]
    <3> SUFFICES ASSUME NEW i \in 1..Len(p)
                 PROVE  p[i] = b[Len(b) - Len(p) + i]
      OBVIOUS
    <3>1. CASE i = Len(q)
      BY <3>1, <2>4, <1>2, <1>1
    <3>2. CASE i # Len(q)
      <4> DEFINE x == Len(a) - Len(q) + (i + 1)
      <4>1. i \in Nat /\ i \in 1..Len(q)
        BY <2>4, <1>1
      <4>2. i \in 1..(Len(q) - 1) /\ i + 1 \in 1..Len(q) /\ i \in 1..Len(r)
        BY <3>2, <4>1, <2>2, <1>1
      <4>3. x \in 1..Len(a) /\ x = Len(b) - Len(p) + i
        <5>1. Len(b) = Len(a) + 1 /\ Len(p) = Len(q) /\ Len(a) >= Len(q)
          BY <2>3, <2>4, <1>2
        <5> QED
          BY <5>1, <4>1, <4>2, <1>1
      <4>4. p[i] = r[i] /\ r[i] = q[i + 1]
        BY <4>2, <2>2, <2>4
      <4>5. q[i + 1] = a[x]
        BY <4>2
      <4>6. b[x] = a[x]
        BY <4>3, <1>2
      <4> QED
        BY <4>3, <4>4, <4>5, <4>6
    <3> QED
      BY <3>1, <3>2
  <2>6. Len(p) = IF Len(b) < Capacity THEN Len(b) ELSE Capacity
    BY <2>3, <2>4, <1>1, <1>2
  <2> QED
    BY <2>4, <2>5, <2>6 DEF p, b
<1>4. CASE ~full
  <2>1. p = Append(q, n)
    BY <1>4 DEF Pushed
  <2>2. Len(q) = Len(a) /\ Len(a) < Capacity
    <3>1. CASE q = <<>>
      BY <3>1, <1>1
    <3>2. CASE Len(q) < nonce_cache_size
      BY <3>2, <1>1 DEF Capacity
    <3> QED
      BY <3>1, <3>2, <1>4, <1>1
  <2>3. /\ p \in Seq(Nonces)
        /\ Len(p) = Len(q) + 1
        /\ p[Len(q) + 1] = n
        /\ \A i \in 1..Len(q) : p[i] = q[i]
    BY <2>1, AppendProperties
  <2> HIDE DEF p, b
  <2>4. \A i \in 1..Len(p) : p[i] = b[Len(b) - Len(p) + i]
    BY <2>2, <2>3, <1>1, <1>2
  <2>5. Len(p) = IF Len(b) < Capacity THEN Len(b) ELSE Capacity
    BY <2>2, <2>3, <1>1, <1>2
  <2> QED
    BY <2>3, <2>4, <2>5 DEF p, b
<1> QED
  BY <1>3, <1>4

\* verify accepts a request only when the end of what was accepted from the
\* sender lacks its nonce, and then puts the nonce there.
LEMMA AcceptPreservesInv ==
  ASSUME AuthInv, NEW req \in Requests, ~contains(req.public_key, req.nonce),
         insert(req.public_key, req.nonce), Accept(req), UNCHANGED nonce_cache_size
  PROVE  AuthInv'
<1> DEFINE k == req.public_key
           n == req.nonce
           L == Len(accepted[k])
           C == Len(Cached(k))
<1>0. k \in Keys /\ n \in Nonces
  BY DEF Requests
<1>1. /\ nonce_cache_size \in Nat /\ nonce_cache_size' = nonce_cache_size
      /\ Capacity \in Nat /\ Capacity >= 1 /\ Capacity' = Capacity
  BY DEF AuthInv, AuthTypeOK, Capacity
<1>2. /\ accepted[k] \in Seq(Nonces) /\ Cached(k) \in Seq(Nonces)
      /\ L \in Nat /\ C \in Nat
  BY <1>0, LenProperties DEF AuthInv, AuthTypeOK
<1>3. /\ C = IF L < Capacity THEN L ELSE Capacity
      /\ \A i \in 1..C : Cached(k)[i] = accepted[k][L - C + i]
  BY <1>0 DEF AuthInv, CacheIsTheEnd
<1>4. /\ accepted'[k] = Append(accepted[k], n)
      /\ \A j \in Keys : j # k => accepted'[j] = accepted[j]
      /\ accepted' \in [Keys -> Seq(Nonces)]
  <2>1. accepted \in [Keys -> Seq(Nonces)]
    BY DEF AuthInv, AuthTypeOK
  <2>2. Append(accepted[k], n) \in Seq(Nonces)
    BY <1>2, <1>0, AppendProperties
  <2>3. accepted' = [accepted EXCEPT ![k] = Append(accepted[k], n)]
    BY DEF Accept
  <2> QED
    BY <2>1, <2>2, <2>3, <1>0
<1>5. /\ Cached(k)' = Pushed(Cached(k), n)
      /\ \A j \in Keys : j # k => Cached(j)' = Cached(j)
      /\ (DOMAIN nonces)' \subseteq Keys
  BY <1>0 DEF insert, Put, Cached, AuthInv, AuthTypeOK
<1>6. /\ Cached(k)' \in Seq(Nonces)
      /\ Len(Cached(k)') = IF Len(accepted'[k]) < Capacity THEN Len(accepted'[k]) ELSE Capacity
      /\ \A i \in 1..Len(Cached(k)') :
           Cached(k)'[i] = accepted'[k][Len(accepted'[k]) - Len(Cached(k)') + i]
  <2> DEFINE q == Cached(k)
             a == accepted[k]
  <2>1. /\ q \in Seq(Nonces) /\ a \in Seq(Nonces) /\ n \in Nonces
        /\ nonce_cache_size \in Nat
        /\ Len(q) = IF Len(a) < Capacity THEN Len(a) ELSE Capacity
        /\ \A i \in 1..Len(q) : q[i] = a[Len(a) - Len(q) + i]
    BY <1>0, <1>1, <1>2, <1>3
  <2>2. Cached(k)' = Pushed(q, n) /\ accepted'[k] = Append(a, n)
    BY <1>4, <1>5
  <2> HIDE DEF q, a, n
  <2>3. LET p == Pushed(q, n)
            b == Append(a, n)
        IN  /\ p \in Seq(Nonces)
            /\ Len(p) = IF Len(b) < Capacity THEN Len(b) ELSE Capacity
            /\ \A i \in 1..Len(p) : p[i] = b[Len(b) - Len(p) + i]
    BY <2>1, PushedIsTheEnd
  <2> QED
    BY <2>2, <2>3, Zenon
<1>7. \A i \in 1..C : Cached(k)[i] # n
  BY <1>2 DEF contains, Cached
<1>8. AuthTypeOK'
  <2>1. \A j \in Keys : Cached(j)' \in Seq(Nonces)
    BY <1>5, <1>6 DEF AuthInv, AuthTypeOK
  <2> QED
    BY <2>1, <1>1, <1>4, <1>5 DEF AuthTypeOK
<1>9. CacheIsTheEnd'
  <2> SUFFICES ASSUME NEW j \in Keys
               PROVE  (/\ Len(Cached(j)) = IF Len(accepted[j]) < Capacity
                                             THEN Len(accepted[j]) ELSE Capacity
                       /\ \A i \in 1..Len(Cached(j)) :
                            Cached(j)[i] = accepted[j][Len(accepted[j]) - Len(Cached(j)) + i])'
    BY DEF CacheIsTheEnd
  <2>1. CASE j = k
    BY <2>1, <1>1, <1>6
  <2>2. CASE j # k
    BY <2>2, <1>1, <1>4, <1>5 DEF AuthInv, CacheIsTheEnd
  <2> QED
    BY <2>1, <2>2
<1>10. ReplayNeedsAFullCache'
  <2> SUFFICES ASSUME NEW s \in Keys, NEW i \in 1..Len(accepted'[s]),
                      NEW j \in 1..Len(accepted'[s]),
                      i < j, accepted'[s][i] = accepted'[s][j]
               PROVE  j - i > Capacity
    BY <1>1 DEF ReplayNeedsAFullCache
  <2>1. CASE s # k
    BY <2>1, <1>4 DEF AuthInv, ReplayNeedsAFullCache
  <2>2. CASE s = k
    <3>1. /\ Len(accepted'[k]) = L + 1
          /\ accepted'[k][L + 1] = n
          /\ \A x \in 1..L : accepted'[k][x] = accepted[k][x]
      BY <1>0, <1>2, <1>4, AppendProperties
    <3>2. CASE j <= L
      <4>1. i \in 1..L /\ j \in 1..L /\ accepted[k][i] = accepted[k][j]
        BY <3>1, <3>2, <2>2, <1>2
      <4> QED
        BY <4>1, <1>0 DEF AuthInv, ReplayNeedsAFullCache
    <3>3. CASE j = L + 1
      <4>1. i \in 1..L /\ accepted[k][i] = n
        BY <3>1, <3>3, <2>2, <1>2
      <4>2. ~(i > L - C)
        <5> SUFFICES ASSUME i > L - C PROVE FALSE
          OBVIOUS
        <5> HIDE DEF L, C
        <5>1. i - (L - C) \in 1..C
          BY <4>1, <1>2
        <5>2. Cached(k)[i - (L - C)] = accepted[k][L - C + (i - (L - C))]
          BY <5>1, <1>3
        <5>3. L - C + (i - (L - C)) = i
          BY <1>2, <4>1
        <5> QED
          BY <5>1, <5>2, <5>3, <4>1, <1>7
      <4>3. C = IF L < Capacity THEN L ELSE Capacity
        BY <1>3
      <4> HIDE DEF L, C
      <4> QED
        BY <4>1, <4>2, <4>3, <3>3, <1>1, <1>2
    <3> QED
      BY <3>1, <3>2, <3>3, <2>2, <1>2
  <2> QED
    BY <2>1, <2>2
<1> QED
  BY <1>8, <1>9, <1>10 DEF AuthInv

\* A step that leaves the cache alone leaves its invariant alone.
LEMMA AuthUntouched ==
  ASSUME AuthInv, UNCHANGED <<nonce_cache_size, nonces, accepted>>
  PROVE  AuthInv'
<1>1. Capacity' = Capacity /\ \A k : Cached(k)' = Cached(k)
  BY DEF Capacity, Cached
<1> QED
  BY <1>1 DEF AuthInv, AuthTypeOK, CacheIsTheEnd, ReplayNeedsAFullCache

\* Every step of the authentication keeps its invariant.
LEMMA AuthNextPreservesInv == AuthInv /\ AuthNext => AuthInv'
<1> SUFFICES ASSUME AuthInv, AuthNext PROVE AuthInv'
  OBVIOUS
<1>1. CASE \E time \in Clock : tick(time)
  BY <1>1, AuthUntouched DEF tick
<1>2. ASSUME NEW req \in Requests, verify(req) PROVE AuthInv'
  <2>1. CASE Verdict(req) = "Valid"
    <3>1. ~contains(req.public_key, req.nonce)
      BY <2>1 DEF Verdict
    <3>2. /\ insert(req.public_key, req.nonce)
          /\ Accept(req)
          /\ UNCHANGED nonce_cache_size
      BY <1>2, <2>1 DEF verify
    <3> QED
      BY <3>1, <3>2, AcceptPreservesInv
  <2>2. CASE Verdict(req) # "Valid"
    BY <1>2, <2>2, AuthUntouched DEF verify
  <2> QED
    BY <2>1, <2>2
<1> QED
  BY <1>1, <1>2 DEF AuthNext
-----------------------------------------------------------------------------
(******************************* HTTP server *******************************)

\* The sets that are counted are finite.
LEMMA HttpFinite ==
  ASSUME TypeOK
  PROVE  /\ IsFiniteSet(Pooled) /\ mempool_len \in Nat
         /\ \A S \in SUBSET Workers : /\ IsFiniteSet(S)
                                      /\ Cardinality(S) \in Nat
                                      /\ Cardinality(S) <= Cardinality(Workers)
         /\ Cardinality(Workers) \in Nat
<1>1. Pooled \in SUBSET Txs
  BY DEF TypeOK, IsMap, Pooled
<1>2. IsFiniteSet(Pooled) /\ mempool_len \in Nat
  BY <1>1, SubsetFacts DEF mempool_len
<1> QED
  BY <1>2, HttpAssumption, FS_Subset, FS_CardinalityType

\* A step that leaves the pooled transactions alone leaves their number alone.
LEMMA SameLength ==
  ASSUME UNCHANGED vars
  PROVE  Pooled' = Pooled /\ mempool_len' = mempool_len
BY DEF vars, pool, Pooled, mempool_len

\* No workers, no transactions.
LEMMA HttpInitEstablishesInv == Init /\ HttpInit => HttpInv
<1> SUFFICES ASSUME Init, HttpInit PROVE HttpInv
  OBVIOUS
<1>1. Inserting = {} /\ Pooled = {}
  BY DEF Inserting, HttpInit, Init, Pooled
<1>2. mempool_len = 0 /\ Cardinality(Inserting) = 0
  BY <1>1, FS_EmptySet DEF mempool_len
<1>3. Cardinality(Workers) \in Nat /\ mempool_max_tx \in Nat
  BY HttpAssumption, FS_CardinalityType
<1>4. HttpTypeOK
  BY DEF HttpInit, HttpTypeOK, Stages
<1>5. RoomIsShared
  BY <1>2, <1>3 DEF RoomIsShared
<1>6. LengthsAreExplained /\ UnracedMetricIsExact
  BY <1>2 DEF HttpInit, LengthsAreExplained, UnracedMetricIsExact
<1> QED
  BY <1>4, <1>5, <1>6 DEF HttpInv

\* Receiving a request keeps the invariant of the server.
LEMMA ReceivePreservesInv ==
  ASSUME TypeOK, HttpInv, NEW w \in Workers, NEW body \in Bodies, Receive(w, body)
  PROVE  HttpInv'
<1>1. Pooled' = Pooled /\ mempool_len' = mempool_len
  BY SameLength DEF Receive
<1>2. HttpTypeOK'
  <2>1. CASE WellFormed(body)
    <3>1. body.tx \in Txs
      <4>1. body.decodes
        BY <2>1 DEF WellFormed
      <4>2. body # [decodes |-> FALSE]
        BY <4>1
      <4>3. body \in [decodes : {TRUE}, tx : Txs, intact : BOOLEAN]
        BY <4>2, Zenon DEF Bodies
      <4> QED
        BY <4>3
    <3> QED
      BY <2>1, <3>1 DEF Receive, HttpInv, HttpTypeOK, Stages
  <2>2. CASE ~WellFormed(body)
    BY <2>2 DEF Receive, HttpInv, HttpTypeOK
  <2> QED
    BY <2>1, <2>2
<1>3. Inserting' = Inserting
  BY DEF Inserting, Receive, HttpInv, HttpTypeOK
<1>4. RoomIsShared'
  BY <1>1, <1>3 DEF HttpInv, RoomIsShared
<1>5. LengthsAreExplained' /\ UnracedMetricIsExact'
  BY <1>1 DEF Receive, HttpInv, HttpTypeOK, LengthsAreExplained, UnracedMetricIsExact
<1> QED
  BY <1>2, <1>4, <1>5 DEF HttpInv

\* The one step that makes a worker insert finds the pool within the limit.
LEMMA CheckFullPreservesInv ==
  ASSUME TypeOK, HttpInv, NEW w \in Workers, CheckFull(w)
  PROVE  HttpInv'
<1>1. Pooled' = Pooled /\ mempool_len' = mempool_len
  BY SameLength DEF CheckFull
<1>2. HttpTypeOK'
  BY DEF CheckFull, Answer, Goto, HttpInv, HttpTypeOK, Stages
<1>3. RoomIsShared'
  <2>1. CASE mempool_len > mempool_max_tx
    <3>1. Inserting' = Inserting
      BY <2>1 DEF Inserting, CheckFull, Answer, HttpInv, HttpTypeOK
    <3> QED
      BY <3>1, <1>1 DEF HttpInv, RoomIsShared
  <2>2. CASE ~(mempool_len > mempool_max_tx)
    <3>1. Inserting' \in SUBSET Workers
      BY DEF Inserting
    <3>2. Cardinality(Inserting') \in Nat /\ Cardinality(Inserting') <= Cardinality(Workers)
      BY <3>1, HttpFinite
    <3>3. mempool_len \in Nat /\ mempool_max_tx \in Nat /\ Cardinality(Workers) \in Nat
      BY HttpFinite, HttpAssumption
    <3> QED
      BY <2>2, <3>2, <3>3, <1>1 DEF RoomIsShared
  <2> QED
    BY <2>1, <2>2
<1>4. LengthsAreExplained' /\ UnracedMetricIsExact'
  BY <1>1 DEF CheckFull, Answer, Goto, HttpInv, HttpTypeOK, LengthsAreExplained,
              UnracedMetricIsExact
<1> QED
  BY <1>2, <1>3, <1>4 DEF HttpInv

\* Whoever changes the pool marks every length read before as outdated.
LEMMA WatchKeepsTheMetric ==
  ASSUME HttpInv, Watch, UNCHANGED <<read_len, mempool_size>>,
         \A w \in Workers : stage'[w] = "store" => stage[w] = "store"
  PROVE  LengthsAreExplained' /\ UnracedMetricIsExact'
<1>1. CASE Pooled' = Pooled
  <2>1. mempool_len' = mempool_len
    BY <1>1 DEF mempool_len
  <2> QED
    BY <1>1, <2>1 DEF Watch, HttpInv, LengthsAreExplained, UnracedMetricIsExact
<1>2. CASE Pooled' # Pooled
  BY <1>2 DEF Watch, LengthsAreExplained, UnracedMetricIsExact
<1> QED
  BY <1>1, <1>2

\* An insertion uses up the room its worker had found.
LEMMA InsertSubmittedPreservesInv ==
  ASSUME Inv, HttpInv, NEW w \in Workers, InsertSubmitted(w)
  PROVE  HttpInv'
<1>0. TypeOK
  BY DEF Inv
<1>1. HttpTypeOK'
  BY DEF InsertSubmitted, Goto, Watch, HttpInv, HttpTypeOK, Stages
<1>2. RoomIsShared'
  <2>1. w \in Inserting /\ Inserting' = Inserting \ {w} /\ Inserting \in SUBSET Workers
    BY DEF Inserting, InsertSubmitted, Goto, HttpInv, HttpTypeOK
  <2>2. /\ IsFiniteSet(Inserting) /\ Cardinality(Inserting) \in Nat
        /\ mempool_len \in Nat /\ mempool_max_tx \in Nat /\ Cardinality(Workers) \in Nat
    BY <1>0, <2>1, HttpFinite, HttpAssumption
  <2>3. Cardinality(Inserting') = Cardinality(Inserting) - 1
    BY <2>1, <2>2, FS_RemoveElement
  <2>4. mempool_len' \in Nat /\ mempool_len' <= mempool_len + 1
    <3>1. CASE Insert(submitted[w])
      <4>1. Pooled' = Pooled \cup {submitted[w]}
        BY <3>1 DEF Insert, Put, Pooled
      <4>2. /\ IsFiniteSet(Pooled \cup {submitted[w]})
            /\ Cardinality(Pooled \cup {submitted[w]}) \in Nat
            /\ Cardinality(Pooled \cup {submitted[w]}) <= Cardinality(Pooled) + 1
        <5>1. IsFiniteSet(Pooled) /\ Cardinality(Pooled) \in Nat
          BY <1>0, HttpFinite DEF mempool_len
        <5>2. CASE submitted[w] \in Pooled
          <6> DEFINE S == Pooled \cup {submitted[w]}
          <6>1. S = Pooled
            BY <5>2
          <6> HIDE DEF S
          <6>2. IsFiniteSet(S) /\ Cardinality(S) \in Nat /\ Cardinality(S) <= Cardinality(Pooled) + 1
            BY <5>1, <6>1
          <6> QED
            BY <6>2 DEF S
        <5>3. CASE submitted[w] \notin Pooled
          <6>1. /\ IsFiniteSet(Pooled \cup {submitted[w]})
                /\ Cardinality(Pooled \cup {submitted[w]}) = Cardinality(Pooled) + 1
            BY <5>1, <5>3, FS_AddElement
          <6> QED
            BY <5>1, <6>1
        <5> QED
          BY <5>2, <5>3
      <4> QED
        BY <4>1, <4>2 DEF mempool_len
    <3>2. CASE UNCHANGED vars
      BY <3>2, <2>2, SameLength
    <3> QED
      BY <3>1, <3>2 DEF InsertSubmitted
  <2> QED
    BY <2>2, <2>3, <2>4 DEF HttpInv, RoomIsShared
<1>3. LengthsAreExplained' /\ UnracedMetricIsExact'
  <2>1. \A v \in Workers : stage'[v] = "store" => stage[v] = "store"
    BY DEF InsertSubmitted, Goto, HttpInv, HttpTypeOK
  <2>2. Watch /\ UNCHANGED <<read_len, mempool_size>>
    BY DEF InsertSubmitted
  <2> QED
    BY <2>1, <2>2, WatchKeepsTheMetric
<1> QED
  BY <1>1, <1>2, <1>3 DEF HttpInv

\* Reading the length for the metrics keeps it.
LEMMA ReadLenPreservesInv ==
  ASSUME TypeOK, HttpInv, NEW w \in Workers, ReadLen(w)
  PROVE  HttpInv'
<1>1. Pooled' = Pooled /\ mempool_len' = mempool_len /\ mempool_len \in Nat
  BY SameLength, HttpFinite DEF ReadLen
<1>2. HttpTypeOK'
  BY <1>1 DEF ReadLen, Goto, HttpInv, HttpTypeOK, Stages
<1>3. Inserting' = Inserting
  BY DEF Inserting, ReadLen, Goto, HttpInv, HttpTypeOK
<1>4. RoomIsShared'
  BY <1>1, <1>3 DEF HttpInv, RoomIsShared
<1>5. LengthsAreExplained' /\ UnracedMetricIsExact'
  BY <1>1 DEF ReadLen, Goto, HttpInv, HttpTypeOK, LengthsAreExplained,
              UnracedMetricIsExact
<1> QED
  BY <1>2, <1>4, <1>5 DEF HttpInv

\* Storing a metric keeps it.
LEMMA StoreMetricPreservesInv ==
  ASSUME TypeOK, HttpInv, NEW w \in Workers, StoreMetric(w)
  PROVE  HttpInv'
<1>1. Pooled' = Pooled /\ mempool_len' = mempool_len /\ mempool_len \in Nat
  BY SameLength, HttpFinite DEF StoreMetric
<1>2. HttpTypeOK'
  BY <1>1 DEF StoreMetric, Answer, HttpInv, HttpTypeOK, Stages
<1>3. Inserting' = Inserting
  BY DEF Inserting, StoreMetric, Answer, HttpInv, HttpTypeOK
<1>4. RoomIsShared'
  BY <1>1, <1>3 DEF HttpInv, RoomIsShared
<1>5. LengthsAreExplained' /\ UnracedMetricIsExact'
  BY <1>1 DEF StoreMetric, Answer, HttpInv, HttpTypeOK, LengthsAreExplained,
              UnracedMetricIsExact
<1> QED
  BY <1>2, <1>4, <1>5 DEF HttpInv

\* The rest of the node only takes transactions out.
LEMMA NodeStepPreservesInv ==
  ASSUME Inv, HttpInv, NodeStep
  PROVE  HttpInv'
<1>0. TypeOK
  BY DEF Inv
<1>1. Pooled' \in SUBSET Pooled
  <2>1. ASSUME NEW S \in SUBSET Pooled, remove_transactions(S)
        PROVE  Pooled' \subseteq Pooled
    BY <2>1 DEF remove_transactions, RemoveFromPool, Drop, Pooled
  <2>2. ASSUME NEW l \in BlockLimits, BuildBlock(l)
        PROVE  Pooled' \subseteq Pooled
    BY <2>2 DEF BuildBlock, pool, Pooled
  <2>3. CASE BuildPass
    BY <2>3 DEF BuildPass, NextBucket, SkipOrphan, RetryOversized, TakeFront,
                RemoveFromPool, Drop, vars, pool, Pooled
  <2> QED
    BY <2>1, <2>2, <2>3 DEF NodeStep
<1>2. mempool_len' \in Nat /\ mempool_len' <= mempool_len /\ mempool_len \in Nat
  <2>1. IsFiniteSet(Pooled) /\ mempool_len \in Nat
    BY <1>0, HttpFinite
  <2>2. /\ IsFiniteSet(Pooled') /\ Cardinality(Pooled') <= Cardinality(Pooled)
        /\ Cardinality(Pooled') \in Nat
    BY <1>1, <2>1, FS_Subset, FS_CardinalityType
  <2> QED
    BY <2>1, <2>2 DEF mempool_len
<1>3. HttpTypeOK'
  BY DEF NodeStep, Watch, HttpInv, HttpTypeOK
<1>4. RoomIsShared'
  <2>1. Inserting' = Inserting /\ Inserting \in SUBSET Workers
    BY DEF Inserting, NodeStep
  <2>2. /\ Cardinality(Inserting) \in Nat
        /\ mempool_max_tx \in Nat /\ Cardinality(Workers) \in Nat
    BY <1>0, <2>1, HttpFinite, HttpAssumption
  <2> QED
    BY <1>2, <2>1, <2>2 DEF HttpInv, RoomIsShared
<1>5. LengthsAreExplained' /\ UnracedMetricIsExact'
  BY WatchKeepsTheMetric DEF NodeStep
<1> QED
  BY <1>3, <1>4, <1>5 DEF HttpInv

\* Every step of the server keeps its invariant.
LEMMA HttpNextPreservesInv == Inv /\ HttpInv /\ HttpNext => HttpInv'
BY ReceivePreservesInv, CheckFullPreservesInv, InsertSubmittedPreservesInv,
   ReadLenPreservesInv, StoreMetricPreservesInv, NodeStepPreservesInv
   DEF Inv, HttpNext, WorkerStep

\* What the server does to the mempool are steps of the mempool.
LEMMA HttpStepsThePool ==
  ASSUME HttpInv, HttpNext
  PROVE  [Next]_vars
<1>1. ASSUME NEW w \in Workers, NEW body \in Bodies, Receive(w, body)
      PROVE  UNCHANGED vars
  BY <1>1 DEF Receive
<1>2. ASSUME NEW w \in Workers, WorkerStep(w)
      PROVE  [Next]_vars
  <2>1. CASE InsertSubmitted(w)
    <3>1. submitted[w] \in Txs
      BY <2>1 DEF InsertSubmitted, HttpInv, HttpTypeOK
    <3> QED
      BY <2>1, <3>1 DEF InsertSubmitted, Next
  <2>2. CASE CheckFull(w) \/ ReadLen(w) \/ StoreMetric(w)
    BY <2>2 DEF CheckFull, ReadLen, StoreMetric
  <2> QED
    BY <1>2, <2>1, <2>2 DEF WorkerStep
<1>3. CASE NodeStep
  BY <1>3 DEF NodeStep, Next, BuildPass
<1> QED
  BY <1>1, <1>2, <1>3 DEF HttpNext
-----------------------------------------------------------------------------
(******************************** Theorems *********************************)

\* The invariant of the whole entrance.
GatewayInv == Inv /\ HttpInv /\ AuthInv

\* A step of another part leaves the server alone.
LEMMA HttpUntouched ==
  ASSUME HttpInv, UNCHANGED <<vars, httpVars>>
  PROVE  HttpInv'
<1>1. mempool_len' = mempool_len
  BY SameLength
<1>2. Inserting' = Inserting
  BY DEF Inserting, httpVars
<1> QED
  BY <1>1, <1>2 DEF HttpInv, HttpTypeOK, RoomIsShared, LengthsAreExplained,
                    UnracedMetricIsExact, httpVars

\* A step of the gateway is a step of the mempool or leaves it alone, and
\* preserves the invariant.
LEMMA GatewayStep ==
  ASSUME GatewayInv, [GatewayNext]_gatewayVars
  PROVE  [Next]_vars /\ GatewayInv'
<1>1. CASE HttpNext /\ UNCHANGED authVars
  <2>1. [Next]_vars
    BY <1>1, HttpStepsThePool DEF GatewayInv
  <2>2. HttpInv'
    BY <1>1, HttpNextPreservesInv DEF GatewayInv
  <2>3. AuthInv'
    BY <1>1, AuthUntouched DEF GatewayInv, authVars
  <2> QED
    BY <2>1, <2>2, <2>3, NextPreservesInv DEF GatewayInv
<1>2. CASE AuthNext /\ UNCHANGED <<vars, httpVars>>
  BY <1>2, AuthNextPreservesInv, HttpUntouched, NextPreservesInv DEF GatewayInv
<1>3. CASE UNCHANGED gatewayVars
  <2>1. UNCHANGED vars /\ UNCHANGED httpVars /\ UNCHANGED authVars
    BY <1>3 DEF gatewayVars
  <2> QED
    BY <2>1, AuthUntouched, HttpUntouched, NextPreservesInv DEF GatewayInv, authVars
<1> QED
  BY <1>1, <1>2, <1>3 DEF GatewayNext

\* The invariant holds of the gateway, however many workers and senders.
THEOREM GatewayInvHolds == GatewaySpec => []GatewayInv
<1>1. GatewayInit => GatewayInv
  BY InitEstablishesInv, HttpInitEstablishesInv, AuthInitEstablishesInv
     DEF GatewayInit, GatewayInv
<1>2. GatewayInv /\ [GatewayNext]_gatewayVars => GatewayInv'
  BY GatewayStep
<1> QED
  BY <1>1, <1>2, PTL DEF GatewaySpec

\* submit_tx's workers, interleaved call by call, and the rest of the node make
\* no step the mempool's own specification does not allow: every property
\* proved of the mempool alone holds of the mempool behind the server.
THEOREM GatewayRunsTheMempool == GatewaySpec => Spec
<1>1. GatewayInit => Init
  BY DEF GatewayInit
<1>2. GatewayInv /\ [GatewayNext]_gatewayVars => [Next]_vars
  BY GatewayStep
<1> QED
  BY <1>1, <1>2, GatewayInvHolds, PTL DEF GatewaySpec, Spec

\* The check of the pool's length in submit_tx, made under another lock than the
\* insertion, lets the pool exceed the configured limit by no more than one
\* transaction for each worker, whatever the number of workers.
THEOREM OvershootAlwaysBounded == GatewaySpec => []OvershootIsBounded
<1>1. GatewayInv => OvershootIsBounded
  <2> SUFFICES ASSUME GatewayInv PROVE OvershootIsBounded
    OBVIOUS
  <2>1. TypeOK /\ RoomIsShared
    BY DEF GatewayInv, Inv, HttpInv
  <2>2. Inserting \in SUBSET Workers
    BY DEF Inserting
  <2>3. /\ Cardinality(Inserting) \in Nat /\ mempool_len \in Nat
        /\ mempool_max_tx \in Nat /\ Cardinality(Workers) \in Nat
    BY <2>1, <2>2, HttpFinite, HttpAssumption
  <2> QED
    BY <2>1, <2>3 DEF RoomIsShared, OvershootIsBounded
<1> QED
  BY <1>1, GatewayInvHolds, PTL

\* The metric submit_tx stores is the pool's size unless the pool changed after
\* that length was read, before or after it was stored.
THEOREM UnracedMetricAlwaysExact == GatewaySpec => []UnracedMetricIsExact
<1>1. GatewayInv => UnracedMetricIsExact
  BY DEF GatewayInv, HttpInv
<1> QED
  BY <1>1, GatewayInvHolds, PTL

\* verify accepts a nonce again only after as many other requests of the same
\* sender as the cache holds, whatever requests are refused in between and
\* however the clock is set.
THEOREM ReplayAlwaysNeedsAFullCache == GatewaySpec => []ReplayNeedsAFullCache
<1>1. GatewayInv => ReplayNeedsAFullCache
  BY DEF GatewayInv, AuthInv
<1> QED
  BY <1>1, GatewayInvHolds, PTL
=============================================================================
