----------------------------- MODULE TrustModel -----------------------------
(***************************************************************************)
(* aevum-consensus's trust model: the set of delegates, who may add one,   *)
(* and the commitment to the set that auditors compare.  The model is used *)
(* through &mut, so every call is atomic.  A trust root is modelled as     *)
(* what it commits to: blake3 is taken to be injective.                    *)
(***************************************************************************)
EXTENDS Integers, FiniteSets

CONSTANTS
  Keys,               \* public keys
  genesis_bootstrap,
  min_quorum,
  max_quorum,
  max_delegates,
  MaxEpoch            \* bound: the epoch is not advanced further

ASSUME KeysAssumption == IsFiniteSet(Keys) /\ genesis_bootstrap \in Keys
ASSUME QuorumAssumption ==
  /\ {min_quorum, max_quorum, max_delegates, MaxEpoch} \subseteq Nat
  /\ 3 <= min_quorum /\ min_quorum <= max_quorum /\ 1 <= max_delegates

VARIABLES delegates, current_epoch, trust_root

vars == <<delegates, current_epoch, trust_root>>
-----------------------------------------------------------------------------
Larger(a, b) == IF a >= b THEN a ELSE b
Smaller(a, b) == IF a <= b THEN a ELSE b

network_size == Larger(Cardinality(delegates), 1)

\* Two thirds, rounded down, between min_quorum and max_quorum.
\* Mutant: half of the network.
quorumHalf == Smaller(Larger(network_size \div 2, min_quorum), max_quorum)
quorum == Smaller(Larger((network_size * 2) \div 3, min_quorum), max_quorum)

\* What recompute_trust_root hashes.
Commitment(epoch, S) == [epoch |-> epoch, delegates |-> S]

is_genesis(pk) == pk = genesis_bootstrap
is_delegate(pk) == pk \in delegates
can_endorse(pk) == is_genesis(pk) \/ is_delegate(pk)

\* default() has no delegate, new_genesis() has the bootstrap key.
Init ==
  /\ delegates \in {{}, {genesis_bootstrap}}
  /\ current_epoch = 0
  /\ trust_root = Commitment(0, delegates)

\* delegate succeeds: on genesis' word alone, or on that of a quorum of
\* delegates that includes from.  Mutant: voters that are not
\* delegates.
MayDelegateExceptFrom(from, to, endorsements) ==
  /\ ~is_delegate(to)
  /\ Cardinality(delegates) < max_delegates
  /\ can_endorse(from)
  /\ \/ is_genesis(from)
     \/ /\ \A v \in endorsements : is_delegate(v)
        /\ Cardinality(endorsements \ {from}) >= quorum
MayDelegate(from, to, endorsements) ==
  /\ ~is_delegate(to)
  /\ Cardinality(delegates) < max_delegates
  /\ can_endorse(from)
  /\ \/ is_genesis(from)
     \/ LET voters == endorsements \cup {from}
        IN /\ \A v \in voters : is_delegate(v)
           /\ Cardinality(voters) >= quorum

delegate(from, to, endorsements) ==
  /\ MayDelegate(from, to, endorsements)
  /\ delegates' = delegates \cup {to}
  /\ trust_root' = Commitment(current_epoch, delegates')
  /\ UNCHANGED current_epoch

revoke(pk) ==
  /\ is_delegate(pk)
  /\ delegates' = delegates \ {pk}
  /\ trust_root' = Commitment(current_epoch, delegates')
  /\ UNCHANGED current_epoch

advance_epoch ==
  /\ current_epoch < MaxEpoch
  /\ current_epoch' = current_epoch + 1
  /\ trust_root' = Commitment(current_epoch', delegates)
  /\ UNCHANGED delegates

\* can_join, which changes nothing, answers Ok.
can_join(candidate, endorsements) ==
  \/ is_genesis(candidate)
  \/ /\ ~is_delegate(candidate)
     /\ \A v \in endorsements : can_endorse(v)
     /\ Cardinality(endorsements) >= quorum

Next ==
  \/ \E from, to \in Keys, endorsements \in SUBSET Keys : delegate(from, to, endorsements)
  \/ \E pk \in Keys : revoke(pk)
  \/ advance_epoch

Spec == Init /\ [][Next]_vars
-----------------------------------------------------------------------------
\* The types, and the limit on the number of delegates.
TypeOK ==
  /\ delegates \subseteq Keys
  /\ Cardinality(delegates) <= max_delegates
  /\ current_epoch \in 0..MaxEpoch
  /\ trust_root \in [epoch : Nat, delegates : SUBSET Keys]

\* verify_root holds between any two calls.
RootIsCurrent == trust_root = Commitment(current_epoch, delegates)

\* While there are fewer than twice max_quorum delegates, any two quorums share a
\* delegate, so that no two groups without a common member can both admit
\* delegates.
QuorumsIntersect ==
  Cardinality(delegates) < 2 * max_quorum =>
    \A A, B \in SUBSET delegates :
      Cardinality(A) >= quorum /\ Cardinality(B) >= quorum => A \cap B # {}

\* When delegate keeps the promise of can_join.  Whoever can_join admits, delegate
\* admits on the word of some endorser, or of the candidate if it is the bootstrap
\* key, exactly if the candidate is no delegate yet and there is room for one,
\* which can_join does not look at.  It is not any endorser's word: where the
\* bootstrap key endorses without being a delegate, delegate takes its word only.
JoinMeansDelegable ==
  \A c \in Keys, E \in SUBSET Keys : can_join(c, E) =>
    /\ (\E from \in E \cup {c} : MayDelegate(from, c, E))
         <=> ~is_delegate(c) /\ Cardinality(delegates) < max_delegates
    /\ ~is_genesis(c) /\ Cardinality(delegates) < max_delegates =>
         \A from \in E :
           MayDelegate(from, c, E) <=> is_genesis(from) \/ E \subseteq delegates
=============================================================================
