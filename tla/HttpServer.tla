----------------------------- MODULE HttpServer -----------------------------
(***************************************************************************)
(* aevum-node's HTTP server over the mempool it shares with the rest of    *)
(* the node.  Each worker runs submit_tx for one request at a time; its    *)
(* calls to the mempool take the lock one by one, and between them other   *)
(* workers, block building, removal and eviction go on.                    *)
(***************************************************************************)
EXTENDS Mempool

CONSTANTS
  Workers,
  None,                \* no transaction
  TxType,              \* TxType[t]: "Standard", "Coinbase" or "Heartbeat"
  mempool_max_tx,      \* the node's configuration, not the pool's own limit
  MaxRequests          \* bound: requests received

ASSUME HttpAssumption ==
  /\ IsFiniteSet(Workers) /\ None \notin Txs
  /\ TxType \in [Txs -> {"Standard", "Coinbase", "Heartbeat"}]
  /\ {mempool_max_tx, MaxRequests} \subseteq Nat
  /\ MaxRequests <= MaxRefs    \* so that the bound on refs never stops a worker

VARIABLES
  stage,               \* stage[w]: the call w makes next; "idle" without a request
  submitted,           \* submitted[w]: the transaction of its request, or None
  read_len,            \* read_len[w]: the length it is about to store, or 0
  mempool_size,        \* the metric
  requests,            \* requests received
  outdated,            \* history: workers whose read_len the pool has left behind
  metric_outdated      \* history: whether the metric is such a length, or older

httpVars == <<stage, submitted, read_len, mempool_size, requests, outdated,
              metric_outdated>>
-----------------------------------------------------------------------------
mempool_len == Cardinality(Pooled)

\* A request body: no transaction can be decoded from it, or a transaction
\* whose hash is that of its contents, or is not.
Bodies == {[decodes |-> FALSE]} \cup [decodes : {TRUE}, tx : Txs, intact : BOOLEAN]

\* The checks before the pool is looked at.
WellFormed(body) ==
  /\ body.decodes
  /\ body.intact
  /\ TxType[body.tx] = "Standard" => Inputs[body.tx] # {}

HttpInit ==
  /\ stage = [w \in Workers |-> "idle"]
  /\ submitted = [w \in Workers |-> None]
  /\ read_len = [w \in Workers |-> 0]
  /\ mempool_size = 0
  /\ requests = 0
  /\ outdated = {}
  /\ metric_outdated = FALSE

\* The pool may have changed under those who have read its length.
Watch ==
  IF Pooled' = Pooled
    THEN UNCHANGED <<outdated, metric_outdated>>
    ELSE /\ outdated' = {w \in Workers : stage[w] = "store"}
         /\ metric_outdated' = TRUE

Goto(w, s) == stage' = [stage EXCEPT ![w] = s] /\ UNCHANGED submitted
Answer(w) ==
  /\ stage' = [stage EXCEPT ![w] = "idle"]
  /\ submitted' = [submitted EXCEPT ![w] = None]

\* submit_tx up to its first look at the pool; a malformed request is answered.
Receive(w, body) ==
  /\ stage[w] = "idle"
  /\ requests < MaxRequests
  /\ requests' = requests + 1
  /\ IF WellFormed(body)
       THEN /\ stage' = [stage EXCEPT ![w] = "check"]
            /\ submitted' = [submitted EXCEPT ![w] = body.tx]
       ELSE UNCHANGED <<stage, submitted>>
  /\ UNCHANGED <<vars, read_len, mempool_size, outdated, metric_outdated>>

\* mempool.len() > config.mempool_max_tx answers 429.  Mutants: the pool is not
\* looked at; the request waits for room.
CheckNothing(w) ==
  /\ stage[w] = "check"
  /\ ~building
  /\ Goto(w, "insert")
  /\ UNCHANGED <<vars, read_len, mempool_size, requests, outdated, metric_outdated>>
CheckWaiting(w) ==
  /\ stage[w] = "check"
  /\ ~building
  /\ mempool_len < mempool_max_tx
  /\ Goto(w, "insert")
  /\ UNCHANGED <<vars, read_len, mempool_size, requests, outdated, metric_outdated>>
CheckFull(w) ==
  /\ stage[w] = "check"
  /\ ~building
  /\ IF mempool_len > mempool_max_tx THEN Answer(w) ELSE Goto(w, "insert")
  /\ UNCHANGED <<vars, read_len, mempool_size, requests, outdated, metric_outdated>>

\* mempool.insert, accepted or not.
InsertSubmitted(w) ==
  /\ stage[w] = "insert"
  /\ \/ Insert(submitted[w])
     \/ ~building /\ ~Admits(submitted[w]) /\ UNCHANGED vars
  /\ Goto(w, "read")
  /\ Watch
  /\ UNCHANGED <<read_len, mempool_size, requests>>

ReadLen(w) ==
  /\ stage[w] = "read"
  /\ ~building
  /\ Goto(w, "store")
  /\ read_len' = [read_len EXCEPT ![w] = mempool_len]
  /\ outdated' = outdated \ {w}
  /\ UNCHANGED <<vars, mempool_size, requests, metric_outdated>>

\* The metric is stored and the answer sent.  Mutant: the metric is
\* raised by one instead.
StoreIncrement(w) ==
  /\ stage[w] = "store"
  /\ Answer(w)
  /\ mempool_size' = mempool_size + 1
  /\ read_len' = [read_len EXCEPT ![w] = 0]
  /\ metric_outdated' = (w \in outdated)
  /\ outdated' = outdated \ {w}
  /\ UNCHANGED <<vars, requests>>
StoreMetric(w) ==
  /\ stage[w] = "store"
  /\ Answer(w)
  /\ mempool_size' = read_len[w]
  /\ read_len' = [read_len EXCEPT ![w] = 0]
  /\ metric_outdated' = (w \in outdated)
  /\ outdated' = outdated \ {w}
  /\ UNCHANGED <<vars, requests>>

WorkerStep(w) ==
  CheckFull(w) \/ InsertSubmitted(w) \/ ReadLen(w) \/ StoreMetric(w)

\* The rest of the node, as far as it changes the pool or keeps the lock: block
\* building and removal.  For the server an eviction is a removal too.
NodeStep ==
  /\ \/ \E S \in SUBSET Pooled : S # {} /\ remove_transactions(S)
     \/ \E l \in BlockLimits : BuildBlock(l)
     \/ BuildPass
  /\ Watch
  /\ UNCHANGED <<stage, submitted, read_len, mempool_size, requests>>

HttpNext ==
  \/ \E w \in Workers : \E body \in Bodies : Receive(w, body)
  \/ \E w \in Workers : WorkerStep(w)
  \/ NodeStep

\* parking_lot's lock is eventually fair, so that a worker that keeps finding
\* it free between two blocks gets it.
HttpFairness ==
  /\ WF_<<vars, httpVars>>(BuildPass /\ NodeStep)
  /\ \A w \in Workers : SF_<<vars, httpVars>>(WorkerStep(w))
-----------------------------------------------------------------------------
\* The length is checked under another lock than the insertion, and with > for
\* >=, so that the configured limit is exceeded, but by no more than one
\* transaction for each worker, submit_tx being the repository's only caller of
\* insert.
OvershootIsBounded == mempool_len <= mempool_max_tx + Cardinality(Workers)

\* The metric is the pool's size unless the pool changed at any time after that
\* length was read: while a worker carried it to the store, or since.  A request
\* alone leaves it exact; a removal or a block makes it stale until the next.
UnracedMetricIsExact == ~metric_outdated => mempool_size = mempool_len

\* Every request is answered, as long as no block limit makes build_block keep
\* the lock for ever.
RequestsAreAnswered ==
  (\A l \in BlockLimits : l.max_bytes >= MAX_MEMPOOL_BYTES) =>
    \A w \in Workers : stage[w] # "idle" ~> stage[w] = "idle"
=============================================================================
