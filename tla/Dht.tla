-------------------------------- MODULE Dht --------------------------------
(***************************************************************************)
(* aevum-p2p's Kademlia table: nodes filed into buckets by their distance  *)
(* from our id, and the search for the nodes closest to a target.  It is   *)
(* used through &mut, so every call is atomic.                             *)
(*                                                                         *)
(* An id is the set of its one bits, a bit being <<byte, position>>; the   *)
(* XOR of two ids is their symmetric difference.  A bucket is the set of   *)
(* its nodes: its order decides only which of several equally old nodes    *)
(* add_or_update replaces, and the model replaces any of them.             *)
(***************************************************************************)
EXTENDS Integers, FiniteSets

CONSTANTS
  BYTES,              \* bytes of an id (32 in the code)
  BITS,               \* bits of a byte (8)
  K,                  \* most nodes in a bucket
  our_id,
  Ids,                \* the ids of the nodes met
  Addrs,
  Times,              \* bound: the times callers pass as now
  timeout_secs

Bit == (0 .. BYTES - 1) \X (0 .. BITS - 1)
Id == SUBSET Bit
K_BUCKETS == BYTES * BITS
Buckets == 0 .. K_BUCKETS - 1
DhtNode == [node_id : Ids, addr : Addrs, last_seen : Times]

ASSUME IdsAssumption ==
  /\ BYTES \in Nat \ {0} /\ BITS \in Nat \ {0} /\ K \in Nat \ {0}
  /\ our_id \in Id /\ Ids \subseteq Id /\ IsFiniteSet(Ids)
ASSUME TimesAssumption == Times \subseteq Nat /\ timeout_secs \in Nat

VARIABLE buckets      \* buckets[i]: the nodes of bucket i

All == UNION {buckets[i] : i \in Buckets}
-----------------------------------------------------------------------------
distance(a, b) == (a \ b) \cup (b \ a)

\* Byte 0 is the most significant one, and so is the last position in a byte.
Outranks(p, q) == p[1] < q[1] \/ (p[1] = q[1] /\ p[2] > q[2])
Highest(d) == CHOOSE p \in d : \A q \in d \ {p} : Outranks(p, q)

\* The bucket of a distance is found from its highest bit; bytes count from the
\* most significant one, positions from the least significant one.
bucket_index(d) ==
  IF d = {} THEN 0
  ELSE LET i == Highest(d)[1] * BITS + Highest(d)[2]
       IN IF i < K_BUCKETS THEN i ELSE K_BUCKETS - 1

\* a is closer to target than b.
Closer(a, b, target) ==
  /\ a # b
  /\ Highest(distance(a, b)) \in distance(b, target)

\* now - last_seen < timeout_secs in u64: a node seen after now is dead, because
\* the subtraction wraps around (a debug build panics instead).
Living(n, now) == n.last_seen <= now /\ now - n.last_seen < timeout_secs
-----------------------------------------------------------------------------
DhtInit == buckets = [i \in Buckets |-> {}]

\* The bucket has room for one more.  Mutant: for one too many.
HasRoomForOneMore(b) == Cardinality(b) <= K
HasRoom(b) == Cardinality(b) < K

Oldest(b) == {n \in b : \A m \in b : n.last_seen <= m.last_seen}

\* What a bucket may become: a known node is updated in place, a new one is
\* added, or takes the place of an oldest one.
Updates(b, node) ==
  LET known == {n \in b : n.node_id = node.node_id}
  IN IF known # {} THEN {(b \ known) \cup {node}}
     ELSE IF HasRoom(b) THEN {b \cup {node}}
     ELSE {(b \ {old}) \cup {node} : old \in Oldest(b)}

add_or_update(node_id, addr, now) ==
  LET i == bucket_index(distance(our_id, node_id))
      node == [node_id |-> node_id, addr |-> addr, last_seen |-> now]
  IN /\ node_id # our_id
     /\ \E b \in Updates(buckets[i], node) : buckets' = [buckets EXCEPT ![i] = b]

cleanup(now) ==
  buckets' = [i \in Buckets |-> {n \in buckets[i] : Living(n, now)}]

DhtNext ==
  \/ \E id \in Ids, a \in Addrs, now \in Times : add_or_update(id, a, now)
  \/ \E now \in Times : cleanup(now)

DhtSpec == DhtInit /\ [][DhtNext]_buckets
-----------------------------------------------------------------------------
(***************************** The search **********************************)

\* The buckets visited in r rounds, each of which goes one further to the left
\* and one further to the right of the target's.
Window(target, r) ==
  LET i == bucket_index(distance(target, our_id))
  IN {j \in Buckets : i - r < j /\ j <= i + r}

Collected(target, r, now) ==
  {n \in UNION {buckets[j] : j \in Window(target, r)} : Living(n, now)}

\* The loop ends when it has enough nodes or has run out of buckets on both
\* sides.  Mutant: or on one side.
EndsOnOneSide(target, count, r, now) ==
  \/ Cardinality(Collected(target, r, now)) >= count
  \/ r > 0 /\ (0 \in Window(target, r) \/ K_BUCKETS - 1 \in Window(target, r))
Ends(target, count, r, now) ==
  \/ Cardinality(Collected(target, r, now)) >= count
  \/ Window(target, r) = Buckets
Rounds(target, count, now) ==
  CHOOSE r \in 0 .. K_BUCKETS :
    /\ Ends(target, count, r, now)
    /\ \A q \in 0 .. r - 1 : ~Ends(target, count, q, now)

\* The first count of S by distance from target.
Nearest(S, target, count) ==
  {n \in S : Cardinality({m \in S : Closer(m.node_id, n.node_id, target)}) < count}

find_closest(target, count, now) ==
  Nearest(Collected(target, Rounds(target, count, now), now), target, count)
-----------------------------------------------------------------------------
\* Every node is filed once, under the distance of its id, never under ours;
\* no bucket holds more than K.
BucketsAreSound ==
  /\ buckets \in [Buckets -> SUBSET DhtNode]
  /\ \A i \in Buckets :
       /\ Cardinality(buckets[i]) <= K
       /\ \A n \in buckets[i] : /\ n.node_id # our_id
                                /\ i = bucket_index(distance(our_id, n.node_id))
  /\ \A n, m \in All : n.node_id = m.node_id => n = m

\* find_closest, which stops early, never misses a living node it still had room
\* for: it returns count living nodes, or else all there are.
ShortAnswersAreComplete ==
  \A target \in Id, count \in 0 .. Cardinality(Ids), now \in Times :
    LET living == {n \in All : Living(n, now)}
        found == find_closest(target, count, now)
    IN /\ found \subseteq living
       /\ Cardinality(found) <= count
       /\ Cardinality(found) < count => found = living

\* "Find K closest LIVING nodes to target_id" (dht.rs, find_closest).
AnswersAreClosest ==
  \A target \in Id, count \in 0 .. Cardinality(Ids), now \in Times :
    find_closest(target, count, now) =
      Nearest({n \in All : Living(n, now)}, target, count)
=============================================================================
