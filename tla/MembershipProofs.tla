-------------------------- MODULE MembershipProofs --------------------------
(***************************************************************************)
(* The trust model's properties for any set of keys, any limit and any     *)
(* quorum bounds with min_quorum at least 3; and the Kademlia table's, for *)
(* ids of any length, any bucket size, and whatever times callers pass.    *)
(***************************************************************************)
EXTENDS Membership, CollectionLemmas
-----------------------------------------------------------------------------
(******************************* Trust model *******************************)

TrustInv == TypeOK /\ RootIsCurrent

\* Delegates are finitely many.
LEMMA DelegatesFinite ==
  ASSUME TypeOK
  PROVE  IsFiniteSet(delegates) /\ Cardinality(delegates) \in Nat
<1>1. IsFiniteSet(delegates)
  BY KeysAssumption, FS_Subset DEF TypeOK
<1> QED
  BY <1>1, FS_CardinalityType

\* Both constructors establish the invariant (default and new_genesis).
LEMMA InitEstablishesInv == Init => TrustInv
<1> SUFFICES ASSUME Init PROVE TrustInv
  OBVIOUS
<1>1. delegates \subseteq Keys /\ RootIsCurrent /\ current_epoch \in 0..MaxEpoch
      /\ trust_root \in [epoch : Nat, delegates : SUBSET Keys]
  BY KeysAssumption, QuorumAssumption DEF Init, RootIsCurrent, Commitment
<1>2. Cardinality(delegates) <= max_delegates
  <2>1. CASE delegates = {}
    BY <2>1, FS_EmptySet, QuorumAssumption
  <2>2. CASE delegates = {genesis_bootstrap}
    BY <2>2, FS_Singleton, QuorumAssumption
  <2> QED
    BY <2>1, <2>2 DEF Init
<1> QED
  BY <1>1, <1>2 DEF TrustInv, TypeOK

\* delegate, revoke and advance_epoch preserve the invariant.
LEMMA NextPreservesInv ==
  ASSUME TrustInv, [Next]_vars
  PROVE  TrustInv'
<1>0. TypeOK /\ RootIsCurrent
  BY DEF TrustInv
<1>1. ASSUME NEW from \in Keys, NEW to \in Keys, NEW E \in SUBSET Keys,
             delegate(from, to, E)
      PROVE  TrustInv'
  <2>1. /\ delegates' = delegates \cup {to} /\ to \notin delegates
        /\ Cardinality(delegates) < max_delegates
        /\ current_epoch' = current_epoch
        /\ trust_root' = Commitment(current_epoch, delegates')
    BY <1>1 DEF delegate, MayDelegate, is_delegate
  <2>2. Cardinality(delegates') = Cardinality(delegates) + 1
    BY <2>1, <1>0, DelegatesFinite, FS_AddElement
  <2>3. Cardinality(delegates') <= max_delegates
    BY <2>1, <2>2, <1>0, DelegatesFinite, QuorumAssumption
  <2>4. current_epoch \in Nat
    BY <1>0, QuorumAssumption DEF TypeOK
  <2> QED
    BY <1>0, <2>1, <2>3, <2>4 DEF TrustInv, TypeOK, RootIsCurrent, Commitment
<1>2. ASSUME NEW pk \in Keys, revoke(pk) PROVE TrustInv'
  <2>1. /\ delegates' = delegates \ {pk}
        /\ current_epoch' = current_epoch
        /\ trust_root' = Commitment(current_epoch, delegates')
    BY <1>2 DEF revoke
  <2>2. Cardinality(delegates') <= Cardinality(delegates) /\ Cardinality(delegates') \in Nat
    <3>1. delegates' \in SUBSET delegates
      BY <2>1
    <3>2. IsFiniteSet(delegates') /\ Cardinality(delegates') <= Cardinality(delegates)
      BY <3>1, <1>0, DelegatesFinite, FS_Subset
    <3> QED
      BY <3>2, FS_CardinalityType
  <2>3. Cardinality(delegates') <= max_delegates
    BY <2>2, <1>0, DelegatesFinite, QuorumAssumption DEF TypeOK
  <2>4. current_epoch \in Nat
    BY <1>0, QuorumAssumption DEF TypeOK
  <2> QED
    BY <1>0, <2>1, <2>3, <2>4 DEF TrustInv, TypeOK, RootIsCurrent, Commitment
<1>3. ASSUME advance_epoch PROVE TrustInv'
  BY <1>0, <1>3, QuorumAssumption DEF advance_epoch, TrustInv, TypeOK, RootIsCurrent, Commitment
<1>4. ASSUME UNCHANGED vars PROVE TrustInv'
  BY <1>0, <1>4 DEF vars, TrustInv, TypeOK, RootIsCurrent, Commitment
<1> QED
  BY <1>1, <1>2, <1>3, <1>4 DEF Next

\* A quorum is more than half of a network smaller than twice max_quorum.
LEMMA QuorumIsMajority ==
  ASSUME TypeOK, Cardinality(delegates) < 2 * max_quorum
  PROVE  quorum \in Nat /\ 2 * quorum > Cardinality(delegates)
<1> DEFINE n == Cardinality(delegates)
<1>1. n \in Nat
  BY DelegatesFinite
<1>2. network_size \in Nat /\ network_size >= n /\ network_size >= 1
      /\ network_size = IF n >= 1 THEN n ELSE 1
  BY <1>1 DEF network_size, Larger
<1>3. PICK k \in Nat : k = (network_size * 2) \div 3
  BY <1>2
<1>4. 3 * k > 2 * network_size - 3
  BY <1>2, <1>3
<1>5. quorum = Smaller(Larger(k, min_quorum), max_quorum)
  BY <1>3 DEF quorum
<1> HIDE DEF n
<1>6. quorum \in Nat /\ (quorum = max_quorum \/ (quorum >= k /\ quorum >= 3))
  BY <1>5, QuorumAssumption DEF Smaller, Larger
<1>7. CASE quorum = max_quorum
  BY <1>7, <1>1, <1>6
<1>8. CASE quorum >= k /\ quorum >= 3
  BY <1>1, <1>2, <1>4, <1>6, <1>8 DEF n
<1> QED
  BY <1>6, <1>7, <1>8 DEF n

\* The trust model's types and the limit on delegates.
THEOREM TypeCorrect == Spec => []TypeOK
<1>1. TrustInv /\ [Next]_vars => TrustInv'
  BY NextPreservesInv
<1>2. TrustInv => TypeOK
  BY DEF TrustInv
<1> QED
  BY <1>1, <1>2, InitEstablishesInv, PTL DEF Spec

\* verify_root never fails between calls.
THEOREM RootAlwaysCurrent == Spec => []RootIsCurrent
<1>1. TrustInv /\ [Next]_vars => TrustInv'
  BY NextPreservesInv
<1>2. TrustInv => RootIsCurrent
  BY DEF TrustInv
<1> QED
  BY <1>1, <1>2, InitEstablishesInv, PTL DEF Spec

\* No two disjoint groups of delegates both reach a quorum, in a network of fewer
\* than 2 * max_quorum delegates.
THEOREM QuorumsAlwaysIntersect == Spec => []QuorumsIntersect
<1>1. TypeOK => QuorumsIntersect
  <2> SUFFICES ASSUME TypeOK, Cardinality(delegates) < 2 * max_quorum,
                      NEW A \in SUBSET delegates, NEW B \in SUBSET delegates,
                      Cardinality(A) >= quorum, Cardinality(B) >= quorum,
                      A \cap B = {}
               PROVE  FALSE
    BY DEF QuorumsIntersect
  <2>1. IsFiniteSet(delegates) /\ Cardinality(delegates) \in Nat
    BY DelegatesFinite
  <2>2. IsFiniteSet(A) /\ IsFiniteSet(B) /\ A \cup B \in SUBSET delegates
    BY <2>1, FS_Subset
  <2>3. Cardinality(A) \in Nat /\ Cardinality(B) \in Nat
    BY <2>2, FS_CardinalityType
  <2>4. Cardinality(A \cup B) = Cardinality(A) + Cardinality(B)
    <3>1. Cardinality(A \cap B) = 0
      BY FS_EmptySet
    <3>2. Cardinality(A \cup B) = Cardinality(A) + Cardinality(B) - Cardinality(A \cap B)
      BY <2>2, FS_Union
    <3> QED
      BY <3>1, <3>2, <2>3
  <2>5. Cardinality(A \cup B) <= Cardinality(delegates)
    BY <2>1, <2>2, FS_Subset
  <2>6. quorum \in Nat /\ 2 * quorum > Cardinality(delegates)
    BY QuorumIsMajority
  <2> QED
    BY <2>1, <2>3, <2>4, <2>5, <2>6
<1> QED
  BY <1>1, TypeCorrect, PTL

\* Where can_join answers Ok, delegate succeeds for some endorser exactly if there
\* is room for a delegate that is none yet, and for each endorser exactly if it is
\* the bootstrap key or all endorsers are delegates.
THEOREM JoinAlwaysDelegable == Spec => []JoinMeansDelegable
<1>1. TypeOK => JoinMeansDelegable
  <2> SUFFICES ASSUME TypeOK, NEW c \in Keys, NEW E \in SUBSET Keys, can_join(c, E)
               PROVE  /\ (\E from \in E \cup {c} : MayDelegate(from, c, E))
                           <=> ~is_delegate(c) /\ Cardinality(delegates) < max_delegates
                      /\ ~is_genesis(c) /\ Cardinality(delegates) < max_delegates =>
                           \A from \in E :
                             MayDelegate(from, c, E) <=> is_genesis(from) \/ E \subseteq delegates
    BY DEF JoinMeansDelegable
  <2>1. \A from : MayDelegate(from, c, E) =>
                    ~is_delegate(c) /\ Cardinality(delegates) < max_delegates
    BY DEF MayDelegate
  <2>2. CASE is_genesis(c)
    <3>1. ~is_delegate(c) /\ Cardinality(delegates) < max_delegates => MayDelegate(c, c, E)
      BY <2>2 DEF MayDelegate, can_endorse
    <3> QED
      BY <2>1, <2>2, <3>1
  <2>3. CASE ~is_genesis(c)
    <3>1. /\ ~is_delegate(c) /\ Cardinality(E) >= quorum
          /\ \A v \in E : is_genesis(v) \/ is_delegate(v)
      BY <2>3 DEF can_join, can_endorse
    <3>2. E # {}
      <4>1. Cardinality(delegates) \in Nat
        BY DelegatesFinite
      <4>2. network_size \in Nat
        BY <4>1 DEF network_size, Larger
      <4>3. quorum >= 3 /\ quorum \in Nat
        BY <4>2, QuorumAssumption DEF quorum, Larger, Smaller
      <4> QED
        BY <3>1, <4>3, FS_EmptySet
    <3>3. ASSUME NEW from \in E, Cardinality(delegates) < max_delegates
          PROVE  MayDelegate(from, c, E) <=> is_genesis(from) \/ E \subseteq delegates
      <4>1. E \cup {from} = E
        OBVIOUS
      <4>2. (\A v \in E : is_delegate(v)) <=> E \subseteq delegates
        BY DEF is_delegate
      <4> QED
        BY <3>1, <3>3, <4>1, <4>2 DEF MayDelegate, can_endorse
    <3>4. \E from \in E : is_genesis(from) \/ E \subseteq delegates
      BY <3>1, <3>2 DEF is_delegate
    <3>5. Cardinality(delegates) < max_delegates => \E from \in E : MayDelegate(from, c, E)
      BY <3>3, <3>4
    <3> QED
      BY <2>1, <3>1, <3>3, <3>5
  <2> QED
    BY <2>2, <2>3
<1> QED
  BY <1>1, TypeCorrect, PTL
-----------------------------------------------------------------------------
(********************************** DHT ************************************)

\* What a step preserves.  A full bucket is told by its cardinality, so that
\* buckets must be known to be finite.
DhtInv ==
  /\ BucketsAreSound
  /\ \A i \in Buckets : IsFiniteSet(buckets[i])

\* A bucket that holds at most K nodes, each node id at most once, still does
\* after an update, and holds no other node than before but the new one.
LEMMA UpdatesAreSound ==
  ASSUME NEW b, NEW node, IsFiniteSet(b), Cardinality(b) <= K,
         \A n, m \in b : n.node_id = m.node_id => n = m,
         NEW c \in Updates(b, node)
  PROVE  /\ IsFiniteSet(c)
         /\ Cardinality(c) <= K
         /\ c \subseteq b \cup {node}
         /\ \A n, m \in c : n.node_id = m.node_id => n = m
<1> DEFINE known == {n \in b : n.node_id = node.node_id}
<1>k. K \in Nat \ {0}
  BY IdsAssumption
<1>n. Cardinality(b) \in Nat
  BY FS_CardinalityType
<1>1. CASE known # {}
  <2>1. PICK old \in b : old.node_id = node.node_id
    BY <1>1
  <2>2. known = {old}
    BY <2>1
  <2>3. c = (b \ {old}) \cup {node}
    BY <1>1, <2>2 DEF Updates
  <2>4. IsFiniteSet(b \ {old}) /\ Cardinality(b \ {old}) = Cardinality(b) - 1
    BY <2>1, FS_RemoveElement
  <2>5. IsFiniteSet(c) /\ Cardinality(c) <= Cardinality(b)
    <3>1. /\ IsFiniteSet((b \ {old}) \cup {node})
          /\ Cardinality((b \ {old}) \cup {node}) =
               IF node \in b \ {old} THEN Cardinality(b \ {old})
               ELSE Cardinality(b \ {old}) + 1
      BY <2>4, FS_AddElement
    <3> QED BY <2>3, <2>4, <3>1, <1>n
  <2>6. \A n, m \in c : n.node_id = m.node_id => n = m
    BY <2>1, <2>3
  <2>7. Cardinality(c) \in Nat
    BY <2>5, FS_CardinalityType
  <2> QED BY <2>3, <2>5, <2>6, <2>7, <1>n, <1>k
<1>2. CASE known = {} /\ HasRoom(b)
  <2>1. c = b \cup {node}
    BY <1>2 DEF Updates
  <2>2. /\ IsFiniteSet(b \cup {node})
        /\ Cardinality(b \cup {node}) =
             IF node \in b THEN Cardinality(b) ELSE Cardinality(b) + 1
    BY FS_AddElement
  <2>3. Cardinality(c) <= K
    BY <1>2, <2>1, <2>2, <1>n, <1>k DEF HasRoom
  <2> QED BY <1>2, <2>1, <2>2, <2>3
<1>3. CASE known = {} /\ ~HasRoom(b)
  <2>1. PICK old \in Oldest(b) : c = (b \ {old}) \cup {node}
    BY <1>3 DEF Updates
  <2>2. old \in b
    BY DEF Oldest
  <2>3. IsFiniteSet(b \ {old}) /\ Cardinality(b \ {old}) = Cardinality(b) - 1
    BY <2>2, FS_RemoveElement
  <2>4. /\ IsFiniteSet((b \ {old}) \cup {node})
        /\ Cardinality((b \ {old}) \cup {node}) =
             IF node \in b \ {old} THEN Cardinality(b \ {old})
             ELSE Cardinality(b \ {old}) + 1
    BY <2>3, FS_AddElement
  <2>5. IsFiniteSet(c) /\ Cardinality(c) <= K
    BY <2>1, <2>3, <2>4, <1>n, <1>k
  <2> QED BY <1>3, <2>1, <2>5
<1> QED BY <1>1, <1>2, <1>3

\* An empty table satisfies the invariant (Dht::new).
LEMMA DhtInitEstablishesInv == DhtInit => DhtInv
<1> SUFFICES ASSUME DhtInit PROVE DhtInv
  OBVIOUS
<1>1. IsFiniteSet({}) /\ Cardinality({}) = 0
  BY FS_EmptySet
<1>2. \A i \in Buckets : buckets[i] = {}
  BY DEF DhtInit
<1>3. All = {}
  BY <1>2 DEF All
<1>4. buckets \in [Buckets -> SUBSET DhtNode]
  BY DEF DhtInit
<1>5. 0 <= K
  BY IdsAssumption
<1> QED BY <1>1, <1>2, <1>3, <1>4, <1>5 DEF DhtInv, BucketsAreSound

\* add_or_update changes one bucket, the one its node belongs in.
LEMMA AddPreservesInv ==
  ASSUME DhtInv, NEW id \in Ids, NEW a \in Addrs, NEW now \in Times,
         add_or_update(id, a, now)
  PROVE  DhtInv'
<1> DEFINE i == bucket_index(distance(our_id, id))
           node == [node_id |-> id, addr |-> a, last_seen |-> now]
<1>t. buckets \in [Buckets -> SUBSET DhtNode]
  BY DEF DhtInv, BucketsAreSound
<1>1. PICK c \in Updates(buckets[i], node) : buckets' = [buckets EXCEPT ![i] = c]
  BY DEF add_or_update
<1>2. id # our_id
  BY DEF add_or_update
<1>3. CASE i \notin Buckets
  <2>1. buckets' = buckets
    BY <1>t, <1>1, <1>3
  <2> QED BY <2>1 DEF DhtInv, BucketsAreSound, All
<1>4. CASE i \in Buckets
  <2>1. \A n, m \in buckets[i] : n.node_id = m.node_id => n = m
    BY <1>4 DEF DhtInv, BucketsAreSound, All
  <2>2. /\ IsFiniteSet(c) /\ Cardinality(c) <= K
        /\ c \subseteq buckets[i] \cup {node}
        /\ \A n, m \in c : n.node_id = m.node_id => n = m
    <3>1. IsFiniteSet(buckets[i]) /\ Cardinality(buckets[i]) <= K
      BY <1>4 DEF DhtInv, BucketsAreSound
    <3> HIDE DEF i, node
    <3> QED BY <2>1, <3>1, UpdatesAreSound
  <2>3. node \in DhtNode /\ node.node_id = id
    BY DEF DhtNode
  <2>4. /\ buckets'[i] = c
        /\ \A j \in Buckets \ {i} : buckets'[j] = buckets[j]
    BY <1>t, <1>1, <1>4
  <2>5. buckets' \in [Buckets -> SUBSET DhtNode]
    BY <1>t, <1>1, <1>4, <2>2, <2>3
  <2>6. \A j \in Buckets :
          /\ IsFiniteSet(buckets'[j])
          /\ Cardinality(buckets'[j]) <= K
          /\ \A n \in buckets'[j] :
               n.node_id # our_id /\ j = bucket_index(distance(our_id, n.node_id))
    <3> SUFFICES ASSUME NEW j \in Buckets
                 PROVE  /\ IsFiniteSet(buckets'[j])
                        /\ Cardinality(buckets'[j]) <= K
                        /\ \A n \in buckets'[j] :
                             /\ n.node_id # our_id
                             /\ j = bucket_index(distance(our_id, n.node_id))
      OBVIOUS
    <3>1. /\ IsFiniteSet(buckets[j]) /\ Cardinality(buckets[j]) <= K
          /\ \A n \in buckets[j] :
               n.node_id # our_id /\ j = bucket_index(distance(our_id, n.node_id))
      BY DEF DhtInv, BucketsAreSound
    <3>2. CASE j = i
      BY <3>1, <3>2, <1>2, <2>2, <2>3, <2>4
    <3>3. CASE j # i
      BY <3>1, <3>3, <2>4
    <3> QED BY <3>2, <3>3
  <2>7. \A n, m \in All' : n.node_id = m.node_id => n = m
    <3> SUFFICES ASSUME NEW n \in All', NEW m \in All', n.node_id = m.node_id
                 PROVE  n = m
      OBVIOUS
    <3>1. PICK j \in Buckets : n \in buckets'[j]
      BY DEF All
    <3>2. PICK k \in Buckets : m \in buckets'[k]
      BY DEF All
    <3>3. j = k
      BY <3>1, <3>2, <2>6
    <3>4. CASE j = i
      BY <3>1, <3>2, <3>3, <3>4, <2>2, <2>4
    <3>5. CASE j # i
      <4>1. n \in buckets[j] /\ m \in buckets[j]
        BY <3>1, <3>2, <3>3, <3>5, <2>4
      <4> QED BY <4>1 DEF DhtInv, BucketsAreSound, All
    <3> QED BY <3>4, <3>5
  <2> QED BY <2>5, <2>6, <2>7 DEF DhtInv, BucketsAreSound
<1> QED BY <1>3, <1>4

\* cleanup only takes nodes out.
LEMMA CleanupPreservesInv ==
  ASSUME DhtInv, NEW now \in Times, cleanup(now)
  PROVE  DhtInv'
<1>1. \A i \in Buckets : buckets'[i] \subseteq buckets[i]
  BY DEF cleanup
<1>2. \A i \in Buckets :
        IsFiniteSet(buckets'[i]) /\ Cardinality(buckets'[i]) <= K
  <2> SUFFICES ASSUME NEW i \in Buckets
               PROVE  IsFiniteSet(buckets'[i]) /\ Cardinality(buckets'[i]) <= K
    OBVIOUS
  <2>1. IsFiniteSet(buckets[i]) /\ Cardinality(buckets[i]) <= K
    BY DEF DhtInv, BucketsAreSound
  <2>2. IsFiniteSet(buckets'[i]) /\ Cardinality(buckets'[i]) <= Cardinality(buckets[i])
    BY <1>1, <2>1, FS_Subset
  <2>3. Cardinality(buckets'[i]) \in Nat /\ Cardinality(buckets[i]) \in Nat /\ K \in Nat
    BY <2>1, <2>2, FS_CardinalityType, IdsAssumption
  <2> QED BY <2>1, <2>2, <2>3
<1>3. buckets' \in [Buckets -> SUBSET DhtNode]
  BY DEF cleanup, DhtInv, BucketsAreSound
<1>4. All' \subseteq All
  BY <1>1 DEF All
<1> QED BY <1>1, <1>2, <1>3, <1>4 DEF DhtInv, BucketsAreSound

\* Every step of the DHT keeps its invariant.
LEMMA DhtNextPreservesInv ==
  ASSUME DhtInv, [DhtNext]_buckets
  PROVE  DhtInv'
<1>1. CASE \E id \in Ids, a \in Addrs, now \in Times : add_or_update(id, a, now)
  BY <1>1, AddPreservesInv
<1>2. CASE \E now \in Times : cleanup(now)
  BY <1>2, CleanupPreservesInv
<1>3. CASE UNCHANGED buckets
  BY <1>3 DEF DhtInv, BucketsAreSound, All
<1> QED
  BY <1>1, <1>2, <1>3 DEF DhtNext

\* The table stays sound whatever nodes are met, updated, displaced and cleaned
\* up, and whatever times the callers pass (dht.rs, add_or_update and cleanup).
THEOREM BucketsAlwaysSound == DhtSpec => []BucketsAreSound
<1>1. DhtInv /\ [DhtNext]_buckets => DhtInv'
  BY DhtNextPreservesInv
<1>2. DhtInv => BucketsAreSound
  BY DEF DhtInv
<1> QED
  BY <1>1, <1>2, DhtInitEstablishesInv, PTL DEF DhtSpec
-----------------------------------------------------------------------------
(******************************* The search ********************************)

\* A distance other than zero has a highest bit, which is the only one.
LEMMA HighestBit ==
  ASSUME NEW d \in Id, d # {}
  PROVE  /\ Highest(d) \in d
         /\ \A q \in d \ {Highest(d)} : Outranks(Highest(d), q)
<1>1. BITS \in Nat /\ BYTES \in Nat
  BY IdsAssumption
<1>2. \A q \in d : q \in (0 .. BYTES - 1) \X (0 .. BITS - 1)
  BY DEF Id, Bit
<1>3. \A q \in d : q = <<q[1], q[2]>> /\ q[1] \in Nat /\ q[2] \in 0 .. BITS - 1
  BY <1>1, <1>2
<1> DEFINE bytes == {q[1] : q \in d}
<1>4. bytes \in SUBSET Nat /\ bytes # {}
  BY <1>3
<1> HIDE DEF bytes
<1>5. PICK x \in bytes : \A y \in bytes : x <= y
  BY <1>4, SmallestElement
<1> DEFINE positions == {y \in 0 .. BITS - 1 : <<x, y>> \in d}
<1>6. positions # {}
  <2>1. PICK q \in d : x = q[1]
    BY <1>5 DEF bytes
  <2>2. q[2] \in positions
    BY <1>3, <2>1
  <2> QED
    BY <2>2
<1>7. positions \in SUBSET Nat /\ IsFiniteSet(positions)
  <2>1. IsFiniteSet(0 .. BITS - 1)
    BY <1>1, FS_Interval
  <2>2. positions \in SUBSET (0 .. BITS - 1)
    OBVIOUS
  <2>3. positions \in SUBSET Nat
    BY <1>1
  <2> HIDE DEF positions
  <2> QED
    BY <2>1, <2>2, <2>3, FS_Subset
<1>8. \A y \in positions : <<x, y>> \in d
  OBVIOUS
<1>9. \A y \in 0 .. BITS - 1 : <<x, y>> \in d => y \in positions
  OBVIOUS
<1> HIDE DEF positions
<1>10. PICK y \in positions : \A z \in positions : z <= y
  BY <1>6, <1>7, LargestElement
<1> DEFINE p == <<x, y>>
<1>11. p \in d
  BY <1>8, <1>10
<1>12. \A q \in d \ {p} : Outranks(p, q)
  <2> SUFFICES ASSUME NEW q \in d \ {p} PROVE Outranks(p, q)
    OBVIOUS
  <2>1. q = <<q[1], q[2]>> /\ q[1] \in Nat /\ q[2] \in Nat /\ x \in Nat /\ y \in Nat
    BY <1>3, <1>4, <1>5, <1>7, <1>10
  <2>2. x <= q[1]
    BY <1>5 DEF bytes
  <2>3. q[1] = x => q[2] <= y /\ q[2] # y
    <3> SUFFICES ASSUME q[1] = x PROVE q[2] <= y /\ q[2] # y
      OBVIOUS
    <3>1. q = <<x, q[2]>> /\ q[2] \in 0 .. BITS - 1
      BY <1>3
    <3>2. q[2] \in positions
      BY <1>9, <3>1
    <3>3. q[2] # y
      BY <3>1
    <3> QED
      BY <1>10, <3>2, <3>3
  <2> QED
    BY <2>1, <2>2, <2>3 DEF Outranks
<1> QED
  BY <1>11, <1>12 DEF Highest

\* No two bits outrank each other, and of two the one or the other does.
LEMMA OutranksIsAnOrder ==
  ASSUME NEW p \in Bit, NEW q \in Bit
  PROVE  /\ ~ (Outranks(p, q) /\ Outranks(q, p))
         /\ p # q => Outranks(p, q) \/ Outranks(q, p)
         /\ \A r \in Bit : Outranks(p, q) /\ Outranks(q, r) => Outranks(p, r)
<1>1. BITS \in Nat /\ BYTES \in Nat
  BY IdsAssumption
<1>2. \A r \in Bit : r = <<r[1], r[2]>> /\ r[1] \in Nat /\ r[2] \in Nat
  BY <1>1 DEF Bit
<1> QED
  BY <1>2 DEF Outranks

\* Every distance has a bucket.
LEMMA BucketIndexType ==
  ASSUME NEW d \in Id
  PROVE  bucket_index(d) \in Buckets
<1>1. BITS \in Nat \ {0} /\ BYTES \in Nat \ {0}
  BY IdsAssumption
<1>2. K_BUCKETS \in Nat \ {0}
  BY <1>1 DEF K_BUCKETS
<1>3. CASE d = {}
  BY <1>2, <1>3 DEF bucket_index, Buckets
<1>4. CASE d # {}
  <2> DEFINE p == Highest(d)
  <2>1. p \in Bit
    BY <1>4, HighestBit DEF Id
  <2>2. p[1] \in Nat /\ p[2] \in Nat
    BY <1>1, <2>1 DEF Bit
  <2> HIDE DEF p
  <2> DEFINE i == p[1] * BITS + p[2]
  <2>3. i \in Nat
    BY <1>1, <2>2
  <2> HIDE DEF i
  <2>4. bucket_index(d) = IF i < K_BUCKETS THEN i ELSE K_BUCKETS - 1
    BY <1>4 DEF bucket_index, i, p
  <2> QED
    BY <1>2, <2>3, <2>4 DEF Buckets
<1> QED
  BY <1>3, <1>4

\* Of two ids one is closer to any target, and closeness is transitive.
LEMMA CloserIsAnOrder ==
  ASSUME NEW a \in Id, NEW b \in Id, NEW target \in Id
  PROVE  /\ ~ Closer(a, a, target)
         /\ a # b => Closer(a, b, target) \/ Closer(b, a, target)
         /\ \A c \in Id : Closer(a, b, target) /\ Closer(b, c, target)
                            => Closer(a, c, target)
<1>1. ~ Closer(a, a, target)
  BY DEF Closer
<1>2. ASSUME a # b PROVE Closer(a, b, target) \/ Closer(b, a, target)
  <2> DEFINE d == distance(a, b)
  <2>1. d \in Id /\ d # {} /\ d = distance(b, a)
    BY <1>2 DEF distance, Id
  <2>2. Highest(d) \in d
    BY <2>1, HighestBit
  <2>3. Highest(d) \in distance(b, target) \/ Highest(d) \in distance(a, target)
    BY <2>2 DEF distance
  <2> QED
    BY <1>2, <2>1, <2>3 DEF Closer
<1>3. ASSUME NEW c \in Id, Closer(a, b, target), Closer(b, c, target)
      PROVE  Closer(a, c, target)
  <2> DEFINE ab == distance(a, b)
             bc == distance(b, c)
             ac == distance(a, c)
             p == Highest(ab)
             q == Highest(bc)
             top == IF Outranks(p, q) THEN p ELSE q
  <2>1. ab \in Id /\ ab # {} /\ bc \in Id /\ bc # {} /\ ac \in Id
    BY <1>3 DEF distance, Id, Closer
  <2>2. /\ p \in ab /\ p \in Bit /\ \A r \in ab \ {p} : Outranks(p, r)
        /\ q \in bc /\ q \in Bit /\ \A r \in bc \ {q} : Outranks(q, r)
    BY <2>1, HighestBit DEF Id
  <2>3. p \in distance(b, target) /\ q \in distance(c, target)
    BY <1>3 DEF Closer
  <2> HIDE DEF p, q
  <2>4. p # q
    BY <2>2, <2>3 DEF distance
  <2>5. (Outranks(p, q) /\ ~ Outranks(q, p)) \/ (Outranks(q, p) /\ ~ Outranks(p, q))
    BY <2>2, <2>4, OutranksIsAnOrder
  <2>6. top \in ac /\ top \in distance(c, target)
    <3>1. CASE Outranks(p, q)
      <4>1. p \notin bc
        BY <2>2, <2>4, <2>5, <3>1
      <4> QED
        BY <2>2, <2>3, <3>1, <4>1 DEF distance
    <3>2. CASE ~ Outranks(p, q)
      <4>1. q \notin ab
        BY <2>2, <2>4, <2>5, <3>2
      <4> QED
        BY <2>2, <2>3, <3>2, <4>1 DEF distance
    <3> QED
      BY <3>1, <3>2
  <2>7. \A r \in ac \ {top} : Outranks(top, r)
    <3> SUFFICES ASSUME NEW r \in ac, r # top PROVE Outranks(top, r)
      OBVIOUS
    <3>1. r \in ab \/ r \in bc
      BY DEF distance
    <3>2. r \in Bit
      BY <2>1 DEF Id
    <3>3. (r = p \/ Outranks(p, r)) \/ (r = q \/ Outranks(q, r))
      BY <2>2, <3>1
    <3>4. CASE Outranks(p, q)
      BY <2>2, <3>2, <3>3, <3>4, OutranksIsAnOrder
    <3>5. CASE ~ Outranks(p, q)
      BY <2>2, <2>5, <3>2, <3>3, <3>5, OutranksIsAnOrder
    <3> QED
      BY <3>4, <3>5
  <2>8. Highest(ac) = top
    <3>1. /\ Highest(ac) \in ac
          /\ \A r \in ac \ {Highest(ac)} : Outranks(Highest(ac), r)
      BY <2>1, <2>6, HighestBit
    <3>2. Highest(ac) \in Bit /\ top \in Bit
      BY <2>2, <2>1, <3>1 DEF Id
    <3> HIDE DEF top
    <3> QED
      BY <2>6, <2>7, <3>1, <3>2, OutranksIsAnOrder
  <2>9. a # c
    BY <2>6 DEF distance
  <2> QED
    BY <2>6, <2>8, <2>9 DEF Closer
<1> QED
  BY <1>1, <1>2, <1>3

\* The search visits all buckets in the end, so that it ends.
LEMMA RoundsEnd ==
  ASSUME NEW target \in Id, NEW count, NEW now
  PROVE  /\ Rounds(target, count, now) \in 0 .. K_BUCKETS
         /\ Ends(target, count, Rounds(target, count, now), now)
<1> DEFINE i == bucket_index(distance(target, our_id))
           ends == {r \in 0 .. K_BUCKETS : Ends(target, count, r, now)}
<1>1. K_BUCKETS \in Nat
  BY IdsAssumption DEF K_BUCKETS
<1>2. i \in Buckets
  <2>1. distance(target, our_id) \in Id
    BY IdsAssumption DEF distance, Id
  <2> QED
    BY <2>1, BucketIndexType
<1> HIDE DEF i
<1>3. Window(target, K_BUCKETS) = Buckets
  <2>1. Window(target, K_BUCKETS)
          = {j \in Buckets : i - K_BUCKETS < j /\ j <= i + K_BUCKETS}
    BY DEF Window, i
  <2>2. \A j \in Buckets : i - K_BUCKETS < j /\ j <= i + K_BUCKETS
    BY <1>1, <1>2 DEF Buckets
  <2> QED
    BY <2>1, <2>2
<1>4. K_BUCKETS \in ends
  BY <1>1, <1>3 DEF Ends
<1>5. ends \in SUBSET Nat /\ ends # {}
  BY <1>1, <1>4
<1>6. \A r \in 0 .. K_BUCKETS : r \in ends <=> Ends(target, count, r, now)
  OBVIOUS
<1>7. ends \subseteq 0 .. K_BUCKETS
  OBVIOUS
<1> HIDE DEF ends
<1>8. PICK r \in ends : \A q \in ends : r <= q
  BY <1>5, SmallestElement
<1>9. r \in 0 .. K_BUCKETS /\ Ends(target, count, r, now)
  BY <1>6, <1>7, <1>8
<1>10. \A q \in 0 .. r - 1 : ~ Ends(target, count, q, now)
  <2> SUFFICES ASSUME NEW q \in 0 .. r - 1, Ends(target, count, q, now) PROVE FALSE
    OBVIOUS
  <2>1. q \in 0 .. K_BUCKETS /\ q < r
    BY <1>1, <1>9
  <2>2. r <= q
    BY <1>6, <1>8, <2>1
  <2> QED
    BY <1>9, <2>1, <2>2
<1>11. \E s \in 0 .. K_BUCKETS :
         /\ Ends(target, count, s, now)
         /\ \A q \in 0 .. s - 1 : ~ Ends(target, count, q, now)
  BY <1>9, <1>10
<1> QED
  BY <1>11 DEF Rounds

\* The nearest count of a set of nodes are count, or all of them.
LEMMA NearestCount ==
  ASSUME NEW S, IsFiniteSet(S), \A n \in S : n.node_id \in Id,
         \A n, m \in S : n.node_id = m.node_id => n = m,
         NEW target \in Id, NEW count \in Nat
  PROVE  /\ Nearest(S, target, count) \subseteq S
         /\ Cardinality(Nearest(S, target, count)) <= count
         /\ Cardinality(Nearest(S, target, count)) < count => Nearest(S, target, count) = S
<1> DEFINE N == Nearest(S, target, count)
           before == [n \in S |-> {m \in S : Closer(m.node_id, n.node_id, target)}]
<1>1. /\ before \in [S -> SUBSET S]
      /\ \A n, m \in S : m \in before[n] <=> Closer(m.node_id, n.node_id, target)
  OBVIOUS
<1>2. N \in SUBSET S /\ \A n \in S : n \in N <=> Cardinality(before[n]) < count
  BY DEF Nearest
<1> HIDE DEF N, before
<1>3. \A x \in S : x \notin before[x]
  BY <1>1, CloserIsAnOrder
<1>4. \A x, y \in S : x # y => x \in before[y] \/ y \in before[x]
  <2> SUFFICES ASSUME NEW x \in S, NEW y \in S, x # y
               PROVE  x \in before[y] \/ y \in before[x]
    OBVIOUS
  <2>1. x.node_id \in Id /\ y.node_id \in Id /\ x.node_id # y.node_id
    OBVIOUS
  <2>2. Closer(x.node_id, y.node_id, target) \/ Closer(y.node_id, x.node_id, target)
    BY <2>1, CloserIsAnOrder
  <2> QED
    BY <1>1, <2>2
<1>5. \A x, y, z \in S : x \in before[y] /\ y \in before[z] => x \in before[z]
  <2> SUFFICES ASSUME NEW x \in S, NEW y \in S, NEW z \in S, x \in before[y], y \in before[z]
               PROVE  x \in before[z]
    OBVIOUS
  <2>1. x.node_id \in Id /\ y.node_id \in Id /\ z.node_id \in Id
    OBVIOUS
  <2>2. Closer(x.node_id, y.node_id, target) /\ Closer(y.node_id, z.node_id, target)
    BY <1>1
  <2>3. Closer(x.node_id, z.node_id, target)
    BY <2>1, <2>2, CloserIsAnOrder
  <2> QED
    BY <1>1, <2>3
<1>6. Cardinality(N) <= count /\ (Cardinality(N) < count => N = S)
  BY <1>1, <1>2, <1>3, <1>4, <1>5, FirstInOrder
<1> QED
  BY <1>2, <1>6 DEF N

\* What the search collects are living nodes, and all of them once it has
\* visited every bucket.
LEMMA SearchIsComplete ==
  ASSUME DhtInv, NEW target \in Id, NEW count \in Nat, NEW now \in Times
  PROVE  LET living == {n \in All : Living(n, now)}
             found == find_closest(target, count, now)
         IN /\ found \subseteq living
            /\ Cardinality(found) <= count
            /\ Cardinality(found) < count => found = living
<1> DEFINE r == Rounds(target, count, now)
           S == Collected(target, r, now)
           living == {n \in All : Living(n, now)}
           found == find_closest(target, count, now)
<1>1. Ends(target, count, r, now)
  BY RoundsEnd
<1>2. found = Nearest(S, target, count)
  BY DEF find_closest
<1> HIDE DEF r, found
<1>3. S \subseteq living
  BY DEF Collected, Window, All
<1>4. \A n, m \in All : n.node_id = m.node_id => n = m
  BY DEF DhtInv, BucketsAreSound
<1>5. \A n \in All : n.node_id \in Id
  BY IdsAssumption DEF DhtInv, BucketsAreSound, All, DhtNode
<1>6. IsFiniteSet(All)
  <2> DEFINE f == [i \in Buckets |-> buckets[i]]
             T == {buckets[i] : i \in Buckets}
  <2>1. IsFiniteSet(Buckets)
    <3>1. K_BUCKETS \in Nat
      BY IdsAssumption DEF K_BUCKETS
    <3> QED
      BY <3>1, FS_Interval DEF Buckets
  <2>2. f \in Surjection(Buckets, T)
    BY DEF Surjection
  <2>3. IsFiniteSet(T)
    BY <2>1, <2>2, FS_Surjection
  <2>4. \A B \in T : IsFiniteSet(B)
    BY DEF DhtInv
  <2> HIDE DEF T
  <2>5. IsFiniteSet(UNION T)
    BY <2>3, <2>4, FS_UNION
  <2> QED
    BY <2>5 DEF All, T
<1>7. S \in SUBSET All
  BY <1>3
<1>8. IsFiniteSet(S) /\ Cardinality(S) \in Nat
  BY <1>6, <1>7, FS_Subset, FS_CardinalityType
<1>9. Cardinality(S) >= count \/ S = living
  <2>1. CASE Window(target, r) = Buckets
    BY <2>1 DEF Collected, All
  <2>2. CASE Cardinality(S) >= count
    BY <2>2
  <2> QED
    BY <1>1, <2>1, <2>2 DEF Ends
<1> HIDE DEF S, living
<1>10. /\ found \subseteq S
       /\ Cardinality(found) <= count
       /\ Cardinality(found) < count => found = S
  BY <1>2, <1>4, <1>5, <1>7, <1>8, NearestCount
<1>11. ASSUME Cardinality(found) < count PROVE found = living
  BY <1>8, <1>9, <1>10, <1>11
<1> QED
  BY <1>3, <1>10, <1>11 DEF living, found

\* find_closest, which stops at the first window with enough nodes, returns
\* count living nodes or else all there are, whatever the table holds.
THEOREM ShortAnswersAlwaysComplete == DhtSpec => []ShortAnswersAreComplete
<1>1. DhtInv /\ [DhtNext]_buckets => DhtInv'
  BY DhtNextPreservesInv
<1>2. DhtInv => ShortAnswersAreComplete
  <2>1. 0 .. Cardinality(Ids) \subseteq Nat
    OBVIOUS
  <2> QED
    BY <2>1, SearchIsComplete DEF ShortAnswersAreComplete
<1> QED
  BY <1>1, <1>2, DhtInitEstablishesInv, PTL DEF DhtSpec

\* Both parts keep to their own specifications when composed.
THEOREM MembershipRunsBoth == MembershipSpec => Spec /\ DhtSpec
<1>1. MembershipInit => Init /\ DhtInit
  BY DEF MembershipInit
<1>2. [MembershipNext]_<<part, vars, buckets>> => [Next]_vars /\ [DhtNext]_buckets
  BY DEF MembershipNext
<1> QED
  BY <1>1, <1>2, PTL DEF MembershipSpec, Spec, DhtSpec
=============================================================================
