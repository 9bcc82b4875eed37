---------------------------- MODULE Collections ----------------------------
(***************************************************************************)
(* The std::collections operations that the node's data structures are     *)
(* built from, as operators on functions, sequences and sets.  A HashMap   *)
(* is a function whose domain is the set of keys present, a VecDeque is a  *)
(* sequence.  No operator is RECURSIVE, so that what it returns can be     *)
(* proved for every argument (module CollectionLemmas).                    *)
(***************************************************************************)
EXTENDS Integers, Sequences, FiniteSets

\* HashMap::insert of value v under every key of S, replacing earlier values.
Put(map, S, v) ==
  [k \in DOMAIN map \cup S |-> IF k \in S THEN v ELSE map[k]]

\* HashMap::remove of every key of S; keys that are not present are ignored.
Drop(map, S) == [k \in DOMAIN map \ S |-> map[k]]

\* A map from some of the keys S to values in V.
IsMap(map, S, V) == DOMAIN map \subseteq S /\ map \in [DOMAIN map -> V]

\* The i-th smallest position kept is the one with i kept positions up to it.
Rank(K, i) == Cardinality({k \in K : k <= i})

\* VecDeque::retain: the elements of s at the positions K, in their old order.
RetainAt(s, K) ==
  [j \in 1..Cardinality(K) |-> s[CHOOSE i \in K : Rank(K, i) = j]]

\* The sum of w[x] over x \in S, as the number of units <<x, k>> with
\* k \in 1..w[x].
Units(S, w) == UNION {{x} \X (1..w[x]) : x \in S}
Weight(S, w) == Cardinality(Units(S, w))

\* Iterator::sum of f[1], ..., f[n].
SumTo(f, n) ==
  LET sum[i \in 0..n] == IF i = 0 THEN 0 ELSE sum[i - 1] + f[i] IN sum[n]

\* u64 >> k.
Shr(n, k) ==
  LET shifted[i \in 0..k] == IF i = 0 THEN n ELSE shifted[i - 1] \div 2 IN shifted[k]

\* usize::saturating_sub.
SaturatingSub(a, b) == IF a >= b THEN a - b ELSE 0
=============================================================================
