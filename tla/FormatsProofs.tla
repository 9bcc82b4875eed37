---------------------------- MODULE FormatsProofs ----------------------------
(***************************************************************************)
(* The Bloom filter, the walk over presence records, the merging iterator, *)
(* blocks, state roots and the zero-copy decoder, for any keys, records,   *)
(* runs, transactions, buffers and sizes.                                  *)
(*                                                                         *)
(* Bloom filter: a filter read back is the one saved only because every    *)
(* bit lies in its words and its number of hashes is in range, and the     *)
(* bytes missing from a file are whole words only because those missing    *)
(* from the file before were.                                              *)
(*                                                                         *)
(* Walk: what was visited has its parents visited or on the stack, the     *)
(* record verified is never pushed again, and everything seen is an        *)
(* ancestor of it.                                                         *)
(*                                                                         *)
(* Merge: the heap holds the front of every run still drawn from, and what *)
(* a run in order has still to give is not below the last key returned.    *)
(*                                                                         *)
(* Merkle trees: lists with one root are twins, that is, they agree as far *)
(* as both go, and the longer ends with something the shorter has, too.    *)
(* Blocks that pass validate_internal have no twin, as the last of its     *)
(* transactions would spend a nullifier twice or be a second coinbase or   *)
(* heartbeat; lists of leaves under distinct keys have none either.        *)
(* What decoding resets is covered by no hash and read by no check, so     *)
(* that a block decoded is the block sealed to both.                       *)
(*                                                                         *)
(* Decoder: the views so far end where the transactions before the damage  *)
(* end, so that TxView next reads at the start of one; what it reads ends  *)
(* within the buffer, whatever the lengths there say, and depends on no    *)
(* cell behind that end.                                                   *)
(***************************************************************************)
EXTENDS DataFormats, CollectionLemmas
-----------------------------------------------------------------------------
(****************************** Bloom filter *******************************)

Filters == [bits : SUBSET Nat, words : Nat \ {0}, num_hashes : 1..MAX_HASHES]
BitsInWords(f) == \A b \in f.bits : b < f.words * WORD_BITS

\* The filter f, of which l bytes were lost, finds the keys K unless bytes were
\* lost, and what was lost are words.
Finds(f, K, l) ==
  /\ f \in Filters
  /\ BitsInWords(f)
  /\ K \subseteq BloomKeys
  /\ \E q \in Nat : l = WORD_BYTES * q
  /\ l = 0 => \A k \in K : may_contain(f, k)

BloomInv ==
  /\ Finds(filter, added, lost)
  /\ Finds(file.filter, file.added, file.lost)

\* A key's bits lie in the filter's words.
LEMMA BitIndexInWords ==
  ASSUME NEW f \in Filters, NEW k \in BloomKeys, NEW i \in Nat
  PROVE  /\ bit_index(f, double_hash(k), i) \in Nat
         /\ bit_index(f, double_hash(k), i) < f.words * WORD_BITS
<1> DEFINE h == double_hash(k)
           size == f.words * WORD_BITS
<1>1. HashKey[k] \in (0..(U64 - 1)) \X (0..(U64 - 1)) /\ U64 \in Nat \ {0}
  BY BloomAssumption
<1>2. HashKey[k][1] \in Int /\ HashKey[k][2] \in Int
  BY <1>1
<1>3. h[1] \in Int /\ h[2] \in Int
  BY <1>2, DivMod DEF double_hash
<1>4. size \in Nat \ {0}
  BY BloomAssumption DEF Filters
<1> HIDE DEF h, size
<1> DEFINE sum == h[1] + i * h[2]
<1>5. sum \in Int
  BY <1>3
<1> HIDE DEF sum
<1>6. sum % U64 \in Int
  BY <1>1, <1>5, DivMod
<1>7. (sum % U64) % size \in Nat /\ (sum % U64) % size < size
  BY <1>4, <1>6, DivMod
<1>8. bit_index(f, h, i) = (sum % U64) % size
  BY DEF bit_index, sum, size
<1> QED
  BY <1>7, <1>8 DEF size, h

\* Clamping yields a number of hashes, and leaves one alone.
LEMMA ClampedRange ==
  ASSUME NEW n \in Int
  PROVE  Clamped(n) \in 1..MAX_HASHES /\ (n \in 1..MAX_HASHES => Clamped(n) = n)
BY BloomAssumption DEF Clamped

\* new makes an empty filter of at least one word.
LEMMA NewFilter ==
  ASSUME NEW e \in Nat, NEW b \in Nat
  PROVE  new(e, b) \in Filters /\ BitsInWords(new(e, b))
<1> DEFINE bits == Larger(e * Larger(b, 1), WORD_BITS)
           hashes == CeilingDiv(bits * 693147, Larger(e, 1) * 1000000)
           f == new(e, b)
<1>1. WORD_BITS \in Nat \ {0}
  BY BloomAssumption
<1>2. bits \in Nat /\ bits >= WORD_BITS
  <2>1. Larger(b, 1) \in Nat
    BY DEF Larger
  <2>2. e * Larger(b, 1) \in Nat
    BY <2>1
  <2> HIDE DEF Larger
  <2>3. \A x \in Nat : Larger(x, WORD_BITS) \in Nat /\ Larger(x, WORD_BITS) >= WORD_BITS
    BY <1>1 DEF Larger
  <2> QED
    BY <2>2, <2>3
<1>3. Larger(e, 1) * 1000000 \in Nat \ {0}
  BY DEF Larger
<1> HIDE DEF bits
<1>4. CeilingDiv(bits, WORD_BITS) \in Nat \ {0}
  <2> DEFINE a == bits + WORD_BITS - 1
             q == a \div WORD_BITS
  <2>1. a \in Int /\ a >= WORD_BITS
    BY <1>1, <1>2
  <2> HIDE DEF a
  <2>2. /\ q \in Int /\ a % WORD_BITS \in Nat /\ a % WORD_BITS < WORD_BITS
        /\ a = WORD_BITS * q + (a % WORD_BITS)
    BY <1>1, <2>1, DivMod
  <2> HIDE DEF q
  <2>3. q >= 1
    <3> SUFFICES ASSUME q <= 0 PROVE FALSE
      BY <2>2
    <3>1. WORD_BITS * q <= 0
      BY <1>1, <2>2
    <3> QED
      BY <3>1, <1>1, <2>1, <2>2
  <2> QED
    BY <2>2, <2>3 DEF CeilingDiv, q, a
<1>5. hashes \in Int
  <2> DEFINE d == Larger(e, 1) * 1000000
             a == bits * 693147 + d - 1
  <2>1. d \in Nat \ {0} /\ a \in Int
    BY <1>2, <1>3
  <2>2. hashes = a \div d
    BY DEF CeilingDiv
  <2> HIDE DEF d, a, hashes
  <2> QED
    BY <2>1, <2>2, DivMod
<1> HIDE DEF hashes
<1>6. Clamped(hashes) \in 1..MAX_HASHES
  BY <1>5, ClampedRange
<1>7. f = [bits |-> {}, words |-> CeilingDiv(bits, WORD_BITS), num_hashes |-> Clamped(hashes)]
  BY DEF new, bits, hashes
<1> HIDE DEF f
<1>8. f \in Filters /\ f.bits = {}
  BY <1>4, <1>6, <1>7 DEF Filters
<1> QED
  BY <1>8 DEF BitsInWords, f

\* A new filter holds nothing and has lost nothing.
LEMMA BloomInitEstablishesInv ==
  ASSUME NEW filters, BloomInit(filters),
         \A f \in filters : f \in Filters /\ BitsInWords(f)
  PROVE  BloomInv
<1>1. filter \in Filters /\ BitsInWords(filter)
  BY DEF BloomInit
<1>2. WORD_BYTES \in Nat /\ 0 = WORD_BYTES * 0
  BY BloomAssumption
<1>3. Finds(filter, {}, 0)
  BY <1>1, <1>2 DEF Finds
<1> QED
  BY <1>3 DEF BloomInit, BloomInv

\* What add does to a filter: k is found, and what was found still is.
LEMMA AddFinds ==
  ASSUME BloomInv, NEW k \in BloomKeys, add(k)
  PROVE  BloomInv'
<1> DEFINE f == [filter EXCEPT !.bits = @ \cup BitsSet(filter, k)]
<1>1. Finds(filter, added, lost) /\ filter \in Filters
  BY DEF BloomInv, Finds
<1>2. \A i \in 0..(filter.num_hashes - 1) : i \in Nat
  BY <1>1 DEF Filters
<1>3. BitsSet(filter, k) \subseteq Nat
      /\ \A b \in BitsSet(filter, k) : b < filter.words * WORD_BITS
  BY <1>1, <1>2, BitIndexInWords DEF BitsSet
<1>4. /\ f.words = filter.words /\ f.num_hashes = filter.num_hashes
      /\ f.bits = filter.bits \cup BitsSet(filter, k)
      /\ f \in Filters
  BY <1>1, <1>3 DEF Filters
<1> HIDE DEF f
<1>5. BitsInWords(f)
  BY <1>1, <1>3, <1>4 DEF BitsInWords, Finds
<1>6. \A j, i : bit_index(f, double_hash(j), i) = bit_index(filter, double_hash(j), i)
  BY <1>4 DEF bit_index
<1>7. may_contain(f, k)
  BY <1>4, <1>6 DEF may_contain, BitsSet
<1>8. \A j : may_contain(filter, j) => may_contain(f, j)
  BY <1>4, <1>6 DEF may_contain
<1>9. Finds(f, added \cup {k}, lost)
  BY <1>1, <1>4, <1>5, <1>7, <1>8 DEF Finds
<1>10. filter' = f /\ added' = added \cup {k} /\ lost' = lost /\ file' = file
  BY DEF add, f
<1> QED
  BY <1>9, <1>10 DEF BloomInv

\* from_bytes of all of a filter's bytes is the filter; of fewer, it is
\* accepted only if whole words are missing.
LEMMA LoadFinds ==
  ASSUME BloomInv, NEW n \in Nat, n <= SavedBytes(file.filter), Load(n)
  PROVE  BloomInv'
<1> DEFINE g == file.filter
           body == n - HEADER_BYTES
           w == body \div WORD_BYTES
           f == from_bytes(g, n)
<1>1. Finds(g, file.added, file.lost) /\ g \in Filters /\ BitsInWords(g)
  BY DEF BloomInv, Finds
<1>2. /\ WORD_BYTES \in Nat \ {0} /\ HEADER_BYTES \in Nat /\ HEADER_BYTES <= WORD_BYTES
      /\ WORD_BITS \in Nat \ {0}
  BY BloomAssumption
<1>3. g.words \in Nat \ {0} /\ g.num_hashes \in 1..MAX_HASHES /\ g.bits \in SUBSET Nat
  BY <1>1 DEF Filters
<1>4. f # Refused /\ filter' = f /\ added' = file.added /\ file' = file
      /\ lost' = file.lost + SavedBytes(g) - n /\ n <= SavedBytes(g)
  BY DEF Load
<1>5. n >= WORD_BYTES /\ w # 0 /\ body % WORD_BYTES = 0
      /\ f = [bits |-> {b \in g.bits : b < w * WORD_BITS}, words |-> w,
              num_hashes |-> Clamped(g.num_hashes)]
  BY <1>4, <1>2 DEF from_bytes
<1>6. body \in Nat /\ w \in Int /\ body = WORD_BYTES * w
  BY <1>2, <1>5, DivMod
<1> HIDE DEF w, f, body, g
<1>7. w \in Nat \ {0}
  <2>1. w > 0
    <3> SUFFICES ASSUME w < 0 PROVE FALSE
      BY <1>5, <1>6
    <3>1. WORD_BYTES * w < 0
      BY <1>2, <1>6
    <3> QED
      BY <3>1, <1>6
  <2> QED
    BY <2>1, <1>6
<1>8. PICK q \in Nat : file.lost = WORD_BYTES * q
  BY <1>1 DEF Finds
<1>9. lost' = WORD_BYTES * q + WORD_BYTES * g.words - WORD_BYTES * w
  <2>1. g.words * WORD_BYTES = WORD_BYTES * g.words /\ g.words * WORD_BYTES \in Nat
    BY <1>2, <1>3
  <2>2. SavedBytes(g) = HEADER_BYTES + WORD_BYTES * g.words
    BY <2>1 DEF SavedBytes
  <2>3. n = HEADER_BYTES + WORD_BYTES * w
    BY <1>2, <1>6 DEF body
  <2>4. WORD_BYTES * q \in Nat /\ WORD_BYTES * w \in Nat
    BY <1>2, <1>7
  <2> QED
    BY <1>4, <1>8, <2>1, <2>2, <2>3, <2>4, <1>2
<1>10. w <= g.words
  <2>1. WORD_BYTES * w <= WORD_BYTES * g.words
    BY <1>2, <1>3, <1>4, <1>6 DEF SavedBytes, body
  <2> QED
    BY <2>1, <1>2, <1>3, <1>7
<1>11. lost' = WORD_BYTES * (q + g.words - w) /\ q + g.words - w \in Nat
  BY <1>2, <1>3, <1>7, <1>9, <1>10
<1>12. Clamped(g.num_hashes) = g.num_hashes
  BY <1>3, ClampedRange
<1>13. f \in Filters /\ BitsInWords(f)
  BY <1>3, <1>5, <1>7, <1>12 DEF Filters, BitsInWords
<1>14. lost' = 0 => f = g /\ file.lost = 0
  <2> SUFFICES ASSUME lost' = 0 PROVE f = g /\ file.lost = 0
    OBVIOUS
  <2>1. q + g.words - w = 0
    BY <1>2, <1>11
  <2>2. q = 0 /\ w = g.words
    <3>1. q \in Nat /\ w \in Nat /\ g.words \in Nat
      BY <1>3, <1>7, <1>8
    <3>2. \A x, y, z \in Nat : x + y - z = 0 /\ z <= y => x = 0 /\ z = y
      OBVIOUS
    <3> QED
      BY <2>1, <3>1, <3>2, <1>10
  <2>3. {b \in g.bits : b < w * WORD_BITS} = g.bits
    BY <2>2, <1>1 DEF BitsInWords
  <2>4. g = [bits |-> g.bits, words |-> g.words, num_hashes |-> g.num_hashes]
    BY <1>1 DEF Filters
  <2>5. f = g
    BY <2>2, <2>3, <2>4, <1>5, <1>12
  <2>6. file.lost = 0
    BY <2>2, <1>2, <1>8
  <2> QED
    BY <2>5, <2>6
<1>15. Finds(f, file.added, lost')
  BY <1>1, <1>11, <1>13, <1>14 DEF Finds
<1> QED
  BY <1>4, <1>15 DEF BloomInv, g

\* from_raw of a filter's words and hashes is the filter.
LEMMA LoadRawFinds ==
  ASSUME BloomInv, LoadRaw
  PROVE  BloomInv'
<1> DEFINE g == file.filter
<1>1. g \in Filters
  BY DEF BloomInv, Finds
<1>2. Larger(g.words, 1) = g.words /\ Clamped(g.num_hashes) = g.num_hashes
  BY <1>1, ClampedRange DEF Filters, Larger
<1>3. from_raw(g.bits, g.words, g.num_hashes) = g
  BY <1>1, <1>2 DEF from_raw, Filters
<1> QED
  BY <1>3 DEF BloomInv, LoadRaw

\* Adding, saving, cutting and loading keep what was added findable.
LEMMA BloomNextPreservesInv == BloomInv /\ BloomNext => BloomInv'
<1> SUFFICES ASSUME BloomInv, BloomNext PROVE BloomInv'
  OBVIOUS
<1>1. CASE Save
  BY <1>1 DEF Save, BloomInv
<1>2. ASSUME NEW n \in 0..(HEADER_BYTES + SIZE_MAX * WORD_BYTES),
             n <= SavedBytes(file.filter), Load(n)
      PROVE  BloomInv'
  <2>1. n \in Nat
    OBVIOUS
  <2> QED
    BY <2>1, <1>2, LoadFinds
<1> QED
  BY <1>1, <1>2, AddFinds, LoadRawFinds DEF BloomNext
-----------------------------------------------------------------------------
(*************************** The walk over records *************************)

\* A sequence is its front and its last element.
LEMMA FrontLast ==
  ASSUME NEW S, NEW s \in Seq(S), s # <<>>
  PROVE  /\ Last(s) \in S /\ Front(s) \in Seq(S)
         /\ Len(Front(s)) = Len(s) - 1 /\ Len(s) \in Nat \ {0}
         /\ ToSet(s) = ToSet(Front(s)) \cup {Last(s)}
<1>1. Len(s) \in Nat \ {0} /\ DOMAIN s = 1..Len(s)
  BY LenProperties, EmptySeq
<1>2. Last(s) \in S
  BY <1>1, ElementOfSeq DEF Last
<1>3. /\ Front(s) = [i \in 1..(Len(s) - 1) |-> s[i]]
      /\ Front(s) \in Seq(S)
      /\ Len(Front(s)) = Len(s) - 1
  <2>1. \A i \in 1..(Len(s) - 1) : s[i] \in S
    BY <1>1, ElementOfSeq
  <2>2. Front(s) = [i \in 1..(Len(s) - 1) |-> s[i]]
    BY <1>1 DEF Front
  <2> QED
    BY <1>1, <2>1, <2>2, SeqDef, LenProperties
<1>4. ToSet(s) = {s[i] : i \in 1..Len(s)}
  BY <1>1 DEF ToSet
<1>5. ToSet(Front(s)) = {s[i] : i \in 1..(Len(s) - 1)}
  BY <1>3 DEF ToSet
<1>6. 1..Len(s) = (1..(Len(s) - 1)) \cup {Len(s)}
  BY <1>1
<1> QED
  BY <1>1, <1>2, <1>3, <1>4, <1>5, <1>6 DEF Last

\* The elements of a concatenation.
LEMMA ConcatElements ==
  ASSUME NEW S, NEW s \in Seq(S), NEW t \in Seq(S)
  PROVE  /\ s \o t \in Seq(S) /\ Len(s \o t) = Len(s) + Len(t)
         /\ ToSet(s \o t) = ToSet(s) \cup ToSet(t)
<1>1. /\ s \o t \in Seq(S) /\ Len(s \o t) = Len(s) + Len(t)
      /\ \A i \in 1..(Len(s) + Len(t)) :
           (s \o t)[i] = IF i <= Len(s) THEN s[i] ELSE t[i - Len(s)]
      /\ Len(s) \in Nat /\ Len(t) \in Nat
      /\ DOMAIN s = 1..Len(s) /\ DOMAIN t = 1..Len(t)
      /\ DOMAIN (s \o t) = 1..(Len(s) + Len(t))
  BY ConcatProperties, LenProperties
<1>2. ASSUME NEW x \in ToSet(s \o t) PROVE x \in ToSet(s) \cup ToSet(t)
  <2>1. PICK i \in 1..(Len(s) + Len(t)) : x = (s \o t)[i]
    BY <1>1, <1>2 DEF ToSet
  <2>2. CASE i <= Len(s)
    BY <1>1, <2>1, <2>2 DEF ToSet
  <2>3. CASE i > Len(s)
    <3>1. i - Len(s) \in 1..Len(t) /\ x = t[i - Len(s)]
      BY <1>1, <2>1, <2>3
    <3> QED
      BY <1>1, <3>1 DEF ToSet
  <2> QED
    BY <1>1, <2>2, <2>3
<1>3. ASSUME NEW x \in ToSet(s) PROVE x \in ToSet(s \o t)
  <2>1. PICK i \in 1..Len(s) : x = s[i]
    BY <1>1, <1>3 DEF ToSet
  <2>2. i \in 1..(Len(s) + Len(t)) /\ (s \o t)[i] = x
    BY <1>1, <2>1
  <2> QED
    BY <1>1, <2>2 DEF ToSet
<1>4. ASSUME NEW x \in ToSet(t) PROVE x \in ToSet(s \o t)
  <2>1. PICK i \in 1..Len(t) : x = t[i]
    BY <1>1, <1>4 DEF ToSet
  <2>2. Len(s) + i \in 1..(Len(s) + Len(t)) /\ (s \o t)[Len(s) + i] = x
    BY <1>1, <2>1
  <2> QED
    BY <1>1, <2>2 DEF ToSet
<1> QED
  BY <1>1, <1>2, <1>3, <1>4

WalkTypeOK ==
  /\ parent_records \in [RecordHashes -> Seq(RecordHashes)]
  /\ epoch_records \subseteq RecordHashes
  /\ record \in RecordHashes
  /\ visited \subseteq RecordHashes /\ IsFiniteSet(visited)
  /\ stack \in Seq(RecordHashes)
  /\ acyclic \in {"walking", "yes", "no"}

Seen == visited \cup ToSet(stack)

SeenAreAncestors ==
  \A C \in SUBSET RecordHashes :
    HoldsAncestors(C, epoch_records) => Seen \subseteq C \cup {record}

\* As long as no cycle was found.
ParentsAreSeen ==
  \A h \in visited : /\ record \notin ParentsIn(epoch_records, h)
                     /\ ParentsIn(epoch_records, h) \subseteq Seen
RecordComesFirst ==
  \/ visited = {} /\ stack = <<record>>
  \/ record \in visited /\ record \notin ToSet(stack)

WalkInv ==
  /\ WalkTypeOK
  /\ SeenAreAncestors
  /\ acyclic # "no" => ParentsAreSeen /\ RecordComesFirst
  /\ acyclic = "yes" => stack = <<>>
  /\ WalkFindsCycles

\* The list a pop pushes, as a set and by its length.
LEMMA ParentsFacts ==
  ASSUME WalkTypeOK, NEW h \in RecordHashes
  PROVE  /\ ParentsOf(h) \in Seq(RecordHashes)
         /\ ToSet(ParentsOf(h)) = ParentsIn(epoch_records, h)
         /\ ParentsIn(epoch_records, h) \subseteq RecordHashes
         /\ ParentCount[h] = Len(ParentsOf(h))
         /\ Len(ParentsOf(h)) \in Nat
<1>1. ParentsOf(h) \in Seq(RecordHashes)
  BY EmptySeq DEF WalkTypeOK, ParentsOf
<1>2. ToSet(<<>>) = {}
  BY EmptySeq DEF ToSet
<1>3. ToSet(ParentsOf(h)) = ParentsIn(epoch_records, h)
  BY <1>2 DEF ParentsOf, ParentsIn
<1>4. ToSet(ParentsOf(h)) \subseteq RecordHashes
  BY <1>1, LenProperties, ElementOfSeq DEF ToSet
<1> QED
  BY <1>1, <1>3, <1>4, LenProperties DEF ParentCount

\* The walk begins with the record itself on the stack.
LEMMA WalkInitEstablishesInv ==
  ASSUME NEW calls, WalkInit(calls),
         \A c \in calls : /\ c.parents \in [RecordHashes -> Seq(RecordHashes)]
                         /\ c.map \subseteq RecordHashes
                         /\ c.record \in RecordHashes
  PROVE  WalkInv
<1>1. WalkTypeOK
  <2>1. record \in RecordHashes
    BY DEF WalkInit
  <2>2. <<record>> \in Seq(RecordHashes)
    BY <2>1
  <2> QED
    BY <2>1, <2>2, FS_EmptySet DEF WalkInit, WalkTypeOK
<1>2. Seen = {record}
  <2>1. ToSet(<<record>>) = {record}
    BY DEF ToSet
  <2> QED
    BY <2>1 DEF Seen, WalkInit
<1>3. SeenAreAncestors
  BY <1>2 DEF SeenAreAncestors
<1>4. ParentsAreSeen /\ RecordComesFirst
  BY DEF WalkInit, ParentsAreSeen, RecordComesFirst
<1>5. WalkFindsCycles
  <2>1. Weight(visited, ParentCount) = 0
    BY WeightEmpty DEF WalkInit
  <2>2. Len(stack) = 1
    BY DEF WalkInit
  <2> QED
    BY <2>1, <2>2 DEF WalkInit, WalkFindsCycles
<1> QED
  BY <1>1, <1>3, <1>4, <1>5 DEF WalkInv, WalkInit

\* Popping a record pushes its parents, or finds the cycle.
LEMMA PopPreservesInv ==
  ASSUME WalkInv, pop
  PROVE  WalkInv'
<1> DEFINE current == Last(stack)
           rest == Front(stack)
<1>1. /\ WalkTypeOK /\ acyclic = "walking" /\ stack # <<>>
      /\ UNCHANGED <<parent_records, epoch_records, record>>
      /\ visited' = visited \cup {current}
      /\ ParentsAreSeen /\ RecordComesFirst /\ SeenAreAncestors
      /\ Len(stack) <= 1 + Weight(visited, ParentCount)
  BY DEF WalkInv, pop, WalkFindsCycles
<1>2. /\ current \in RecordHashes /\ rest \in Seq(RecordHashes)
      /\ Len(rest) = Len(stack) - 1 /\ Len(stack) \in Nat \ {0}
      /\ ToSet(stack) = ToSet(rest) \cup {current}
      /\ current \in Seen
  <2>1. stack \in Seq(RecordHashes)
    BY <1>1 DEF WalkTypeOK
  <2>2. /\ current \in RecordHashes /\ rest \in Seq(RecordHashes)
        /\ Len(rest) = Len(stack) - 1 /\ Len(stack) \in Nat \ {0}
        /\ ToSet(stack) = ToSet(rest) \cup {current}
    BY <1>1, <2>1, FrontLast
  <2> QED
    BY <2>2 DEF Seen
<1>3. /\ ParentsOf(current) \in Seq(RecordHashes)
      /\ ToSet(ParentsOf(current)) = ParentsIn(epoch_records, current)
      /\ ParentsIn(epoch_records, current) \subseteq RecordHashes
      /\ ParentCount[current] = Len(ParentsOf(current))
      /\ Len(ParentsOf(current)) \in Nat
  BY <1>1, <1>2, ParentsFacts
<1>4. /\ \A S, h : ParentsIn(S, h)' = ParentsIn(S, h)
      /\ \A C, S : HoldsAncestors(C, S)' = HoldsAncestors(C, S)
      /\ OnCycle(epoch_records)' = OnCycle(epoch_records)
      /\ ParentCount' = ParentCount
  BY <1>1 DEF ParentsIn, HoldsAncestors, OnCycle, ParentCount, ParentsOf
<1>5. /\ IsFiniteSet(visited) /\ IsFiniteSet(visited')
      /\ visited' \subseteq RecordHashes
      /\ \A h \in visited' : ParentCount[h] \in Nat
      /\ Weight(visited, ParentCount) \in Nat
  <2>1. IsFiniteSet(visited) /\ IsFiniteSet(visited') /\ visited' \subseteq RecordHashes
    BY <1>1, <1>2, FS_AddElement DEF WalkTypeOK
  <2>2. \A h \in visited' : ParentCount[h] \in Nat
    BY <1>1, <2>1, ParentsFacts
  <2> QED
    BY <1>1, <2>1, <2>2, WeightType
<1> HIDE DEF current, rest
<1>6. CASE current \in visited \/ (current = record /\ rest # <<>>)
  <2>1. stack' = rest /\ acyclic' = "walking"
    BY <1>1, <1>6 DEF pop, current, rest
  <2>2. current \in visited
    <3> SUFFICES ASSUME current = record, rest # <<>>, current \notin visited PROVE FALSE
      BY <1>6
    <3>1. visited = {} /\ stack = <<record>>
      BY <1>1, <1>2 DEF RecordComesFirst
    <3>2. Len(rest) = 0
      BY <3>1, <1>2
    <3> QED
      BY <3>2, <1>2, EmptySeq
  <2>3. visited' = visited /\ Seen' = Seen
    BY <1>1, <1>2, <2>1, <2>2 DEF Seen
  <2>4. WalkTypeOK'
    BY <1>1, <1>2, <1>5, <2>1 DEF WalkTypeOK
  <2>5. SeenAreAncestors'
    BY <1>1, <1>4, <2>3 DEF SeenAreAncestors
  <2>6. ParentsAreSeen'
    BY <1>1, <1>4, <2>3 DEF ParentsAreSeen
  <2>7. RecordComesFirst'
    BY <1>1, <1>2, <2>1, <2>2, <2>3 DEF RecordComesFirst
  <2>8. WalkFindsCycles'
    <3>1. Len(stack') <= 1 + Weight(visited', ParentCount')
      <4>1. Len(stack') = Len(stack) - 1 /\ Len(stack) \in Nat
        BY <1>2, <2>1
      <4>2. Weight(visited', ParentCount') = Weight(visited, ParentCount)
        BY <1>4, <2>3
      <4> QED
        BY <4>1, <4>2, <1>1, <1>5
    <3> QED
      BY <2>1, <3>1 DEF WalkFindsCycles
  <2> QED
    BY <2>1, <2>4, <2>5, <2>6, <2>7, <2>8 DEF WalkInv
<1>7. CASE ~(current \in visited \/ (current = record /\ rest # <<>>))
  <2>1. Weight(visited', ParentCount) = Weight(visited, ParentCount) + Len(ParentsOf(current))
    <3>1. IsFiniteSet({current}) /\ visited \cap {current} = {}
      BY <1>7, FS_Singleton
    <3>2. \A h \in visited \cup {current} : ParentCount[h] \in Nat
      BY <1>1, <1>5
    <3>3. Weight(visited \cup {current}, ParentCount)
            = Weight(visited, ParentCount) + Weight({current}, ParentCount)
      BY <1>5, <3>1, <3>2, WeightUnion, SMTT(30)
    <3>4. Weight({current}, ParentCount) = ParentCount[current]
      BY <1>3, WeightSingleton
    <3> QED
      BY <1>1, <1>3, <3>3, <3>4
  <2>2. CASE record \in ToSet(ParentsOf(current))
    <3>1. stack' = rest /\ acyclic' = "no"
      BY <1>7, <2>2 DEF pop, current, rest
    <3>2. WalkTypeOK'
      BY <1>1, <1>2, <1>5, <3>1 DEF WalkTypeOK
    <3>3. Seen' \subseteq Seen
      BY <1>1, <1>2, <3>1 DEF Seen
    <3>4. SeenAreAncestors'
      BY <1>1, <1>4, <3>3 DEF SeenAreAncestors
    <3>5. OnCycle(epoch_records)
      <4> SUFFICES ASSUME NEW C \in SUBSET RecordHashes, HoldsAncestors(C, epoch_records)
                   PROVE  record \in C
        BY DEF OnCycle
      <4>1. current \in C \cup {record}
        BY <1>1, <1>2 DEF SeenAreAncestors
      <4> QED
        BY <4>1, <1>3, <2>2 DEF HoldsAncestors
    <3>6. WalkFindsCycles'
      BY <1>1, <1>2, <1>3, <1>4, <1>5, <2>1, <3>1, <3>5 DEF WalkFindsCycles
    <3> QED
      BY <3>1, <3>2, <3>4, <3>6 DEF WalkInv
  <2>3. CASE record \notin ToSet(ParentsOf(current))
    <3>1. stack' = rest \o ParentsOf(current) /\ acyclic' = "walking"
      BY <1>1, <1>7, <2>3 DEF pop, Pushed, current, rest
    <3>2. /\ stack' \in Seq(RecordHashes)
          /\ Len(stack') = Len(rest) + Len(ParentsOf(current))
          /\ ToSet(stack') = ToSet(rest) \cup ParentsIn(epoch_records, current)
      BY <1>2, <1>3, <3>1, ConcatElements
    <3>3. WalkTypeOK'
      BY <1>1, <1>2, <1>5, <3>1, <3>2 DEF WalkTypeOK
    <3>4. Seen' = Seen \cup ParentsIn(epoch_records, current)
      BY <1>1, <1>2, <3>2 DEF Seen
    <3>5. SeenAreAncestors'
      <4> SUFFICES ASSUME NEW C \in SUBSET RecordHashes, HoldsAncestors(C, epoch_records)
                   PROVE  Seen' \subseteq C \cup {record}
        BY <1>1, <1>4 DEF SeenAreAncestors
      <4>1. Seen \subseteq C \cup {record}
        BY <1>1 DEF SeenAreAncestors
      <4>2. ParentsIn(epoch_records, current) \subseteq C
        BY <4>1, <1>2 DEF HoldsAncestors
      <4> QED
        BY <4>1, <4>2, <3>4
    <3>6. ParentsAreSeen'
      <4> SUFFICES ASSUME NEW h \in visited'
                   PROVE  /\ record \notin ParentsIn(epoch_records, h)
                          /\ ParentsIn(epoch_records, h) \subseteq Seen'
        BY <1>1, <1>4 DEF ParentsAreSeen
      <4>1. CASE h = current
        BY <4>1, <1>3, <2>3, <3>4
      <4>2. CASE h \in visited
        BY <4>2, <1>1, <3>4 DEF ParentsAreSeen
      <4> QED
        BY <4>1, <4>2, <1>1
    <3>7. RecordComesFirst'
      <4>1. record \notin ParentsIn(epoch_records, current)
        BY <1>3, <2>3
      <4>2. CASE visited = {} /\ stack = <<record>>
        <5>1. current = record /\ Len(rest) = 0
          BY <4>2, <1>2 DEF current, Last
        <5>2. ToSet(rest) = {}
          BY <5>1, <1>2, LenProperties DEF ToSet
        <5> QED
          BY <4>1, <5>1, <5>2, <1>1, <3>2 DEF RecordComesFirst
      <4>3. CASE record \in visited /\ record \notin ToSet(stack)
        BY <4>1, <4>3, <1>1, <1>2, <3>2 DEF RecordComesFirst
      <4> QED
        BY <4>2, <4>3, <1>1 DEF RecordComesFirst
    <3>8. WalkFindsCycles'
      BY <1>1, <1>2, <1>3, <1>4, <1>5, <2>1, <3>1, <3>2 DEF WalkFindsCycles
    <3> QED
      BY <3>1, <3>3, <3>5, <3>6, <3>7, <3>8 DEF WalkInv
  <2> QED
    BY <2>2, <2>3
<1> QED
  BY <1>6, <1>7

\* At the end the visited records but the one verified hold all its ancestors.
LEMMA ReturnPreservesInv ==
  ASSUME WalkInv, Return
  PROVE  WalkInv'
<1>1. /\ acyclic = "walking" /\ acyclic' = "yes" /\ stack = <<>>
      /\ UNCHANGED <<parent_records, epoch_records, record, visited, stack>>
      /\ WalkTypeOK /\ SeenAreAncestors /\ ParentsAreSeen /\ RecordComesFirst
      /\ Len(stack) <= 1 + Weight(visited, ParentCount)
  BY DEF Return, WalkInv, WalkFindsCycles
<1>2. Seen = visited /\ record \in visited
  <2>1. ToSet(stack) = {}
    BY <1>1, EmptySeq DEF ToSet
  <2> QED
    BY <2>1, <1>1 DEF Seen, RecordComesFirst
<1>3. ~OnCycle(epoch_records)
  <2> DEFINE C == visited \ {record}
  <2>1. C \in SUBSET RecordHashes /\ record \notin C
    BY <1>1 DEF WalkTypeOK
  <2>2. HoldsAncestors(C, epoch_records)
    BY <1>1, <1>2 DEF HoldsAncestors, ParentsAreSeen
  <2> QED
    BY <2>1, <2>2 DEF OnCycle
<1>4. /\ WalkTypeOK' /\ SeenAreAncestors' /\ ParentsAreSeen' /\ RecordComesFirst'
      /\ ParentCount' = ParentCount
      /\ OnCycle(epoch_records)' = OnCycle(epoch_records)
  BY <1>1 DEF WalkTypeOK, SeenAreAncestors, ParentsAreSeen, RecordComesFirst, Seen,
              ParentsIn, HoldsAncestors, OnCycle, ParentCount, ParentsOf
<1>5. WalkFindsCycles'
  BY <1>1, <1>3, <1>4 DEF WalkFindsCycles
<1> QED
  BY <1>1, <1>4, <1>5 DEF WalkInv
-----------------------------------------------------------------------------
(**************************** Merging iterator *****************************)

RunIds == 1..Len(runs)
Entries == [key : {k \in Int : k > NoKey}, seq : Nat, iter_idx : RunIds]

MergeTypeOK ==
  /\ runs \in Seq(Seq(Items))
  /\ at \in [RunIds -> Nat]
  /\ heap \subseteq Entries /\ IsFiniteSet(heap)
  /\ exhausted \subseteq RunIds /\ violations \subseteq RunIds
  /\ exhausted \cap violations = {}
  /\ last_key \in Int
  /\ merged \in Seq(Entries)
  /\ returned \in [RunIds -> Seq(Entries)]

\* The heap holds the entry drawn last of every run that is still drawn from.
HeapHoldsTheFronts ==
  /\ \A e \in heap : /\ e.iter_idx \notin exhausted \cup violations
                     /\ e = Drawn(e.iter_idx, runs[e.iter_idx][at[e.iter_idx]])
  /\ \A i \in RunIds \ (exhausted \cup violations) : \E e \in heap : e.iter_idx = i

\* Of run i, the entries drawn are readable, and all but the one in the heap, or
\* refused, were returned.
RunIsReturned(i) ==
  /\ 1..at[i] \subseteq Readable(i)
  /\ i \in exhausted => Len(returned[i]) = at[i] /\ Ends(runs[i], at[i])
  /\ i \notin exhausted => at[i] >= 1 /\ Len(returned[i]) = at[i] - 1
  /\ \A j \in 1..Len(returned[i]) : returned[i][j] = Drawn(i, runs[i][j])

MergedSoFar ==
  /\ \A n \in 1..Len(merged) : merged[n].key <= last_key
  /\ Ascends(merged, 1..Len(merged))

\* What is still to come of a run that ascends is not below the last key.
HeapIsAhead ==
  \A f \in heap : Ascends(runs[f.iter_idx], Readable(f.iter_idx)) => last_key <= f.key

\* Every run ascends, with the newest entry of a key first.
AllInOrder ==
  \A i \in RunIds : Ascends(runs[i], Readable(i)) /\ NewestFirst(runs[i], Readable(i))
NotNewer(e, f) == e.key <= f.key /\ (e.key = f.key => e.seq >= f.seq)
NewestAhead ==
  AllInOrder => /\ NewestFirst(merged, 1..Len(merged))
                /\ \A n \in 1..Len(merged) : \A f \in heap : NotNewer(merged[n], f)

ViolatorsDescend == \A i \in violations : ~Ascends(runs[i], Readable(i))

MergeInv ==
  /\ MergeTypeOK
  /\ HeapHoldsTheFronts
  /\ \A i \in RunIds : RunIsReturned(i)
  /\ MergedSoFar
  /\ HeapIsAhead
  /\ NewestAhead
  /\ ViolatorsDescend

\* A readable position holds an entry.
LEMMA ReadableEntry ==
  ASSUME runs \in Seq(Seq(Items)), NEW i \in RunIds, NEW j \in Readable(i)
  PROVE  /\ Drawn(i, runs[i][j]) \in Entries
         /\ Drawn(i, runs[i][j]).key = runs[i][j].key
         /\ Drawn(i, runs[i][j]).seq = runs[i][j].seq
         /\ Drawn(i, runs[i][j]).iter_idx = i
         /\ j \in Nat \ {0}
<1>1. runs[i] \in Seq(Items)
  BY ElementOfSeq DEF RunIds
<1>2. j \in 1..Len(runs[i]) /\ runs[i][j] # Failed /\ Len(runs[i]) \in Nat
  BY <1>1, LenProperties DEF Readable
<1>3. runs[i][j] \in Items
  BY <1>1, <1>2, ElementOfSeq
<1>4. runs[i][j] \in [key : {k \in Int : k > NoKey}, seq : Nat]
  BY <1>2, <1>3 DEF Items
<1> QED
  BY <1>2, <1>4 DEF Drawn, Entries

\* After n entries a run either ends, and all of it was read, or goes on.
LEMMA EndOrNext ==
  ASSUME runs \in Seq(Seq(Items)), NEW i \in RunIds, NEW n \in Nat,
         1..n \subseteq Readable(i)
  PROVE  /\ Ends(runs[i], n) => Readable(i) = 1..n
         /\ ~Ends(runs[i], n) => n + 1 \in Readable(i) /\ 1..(n + 1) \subseteq Readable(i)
<1>1. Len(runs[i]) \in Nat
  BY ElementOfSeq, LenProperties DEF RunIds
<1>2. \A j \in 1..n : j \in 1..Len(runs[i]) /\ runs[i][j] # Failed
  BY DEF Readable
<1>3. ASSUME Ends(runs[i], n), NEW j \in Readable(i)
      PROVE  j \in 1..n
  <2>1. j \in 1..Len(runs[i]) /\ \A k \in 1..j : runs[i][k] # Failed
    BY DEF Readable
  <2>2. SUFFICES ASSUME j > n PROVE FALSE
    BY <2>1, <1>1
  <2>3. n + 1 \in 1..j /\ ~(n >= Len(runs[i]))
    BY <2>1, <2>2, <1>1
  <2> QED
    BY <1>3, <2>1, <2>3 DEF Ends
<1>4. ASSUME ~Ends(runs[i], n)
      PROVE  n + 1 \in Readable(i) /\ 1..(n + 1) \subseteq Readable(i)
  <2>1. n < Len(runs[i]) /\ runs[i][n + 1] # Failed
    BY <1>1, <1>4 DEF Ends
  <2>2. \A k \in 1..(n + 1) : k \in 1..n \/ k = n + 1
    OBVIOUS
  <2>3. \A k \in 1..(n + 1) : runs[i][k] # Failed
    BY <1>2, <2>1, <2>2
  <2>4. n + 1 \in Readable(i)
    BY <1>1, <2>1, <2>3 DEF Readable
  <2> QED
    BY <2>2, <2>4
<1> QED
  BY <1>3, <1>4

\* The heap has a first entry: no two entries are of one run, and among
\* finitely many there is one of the smallest key, of those one of the largest
\* seq, and of those one of the latest run.
LEMMA TopIsFirst ==
  ASSUME MergeTypeOK, HeapHoldsTheFronts, heap # {}
  PROVE  Top \in heap /\ \A f \in heap \ {Top} : Before(Top, f)
<1>0. /\ \A e \in heap : e.key \in Int /\ e.key > NoKey /\ e.seq \in Nat /\ e.iter_idx \in Nat
      /\ NoKey \in Int
      /\ \A e, f \in heap : e.iter_idx = f.iter_idx => e = f
  <2>1. \A e \in heap : e.key \in Int /\ e.key > NoKey /\ e.seq \in Nat /\ e.iter_idx \in RunIds
    BY DEF MergeTypeOK, Entries
  <2>2. \A e, f \in heap : e.iter_idx = f.iter_idx => e = f
    BY DEF HeapHoldsTheFronts
  <2> QED
    BY <2>1, <2>2, RunsAssumption DEF RunIds
<1>1. PICK a \in heap : \A f \in heap : a.key <= f.key
  <2> DEFINE K == {e.key - NoKey : e \in heap}
  <2>1. K \in SUBSET Nat /\ K # {}
    BY <1>0
  <2>2. PICK m \in K : \A k \in K : m <= k
    BY <2>1, SmallestElement
  <2>3. PICK e \in heap : m = e.key - NoKey
    OBVIOUS
  <2>4. \A f \in heap : e.key - NoKey <= f.key - NoKey
    BY <2>2, <2>3
  <2>5. \A f \in heap : e.key <= f.key
    BY <2>4, <1>0
  <2> QED
    BY <2>5
<1> DEFINE A == {e \in heap : e.key = a.key}
<1>2. A # {} /\ IsFiniteSet(A) /\ A \subseteq heap
  BY FS_Subset DEF MergeTypeOK
<1>3. PICK b \in A : \A f \in A : f.seq <= b.seq
  <2> DEFINE s == [e \in A |-> e.seq]
             K == {e.seq : e \in A}
  <2>1. K \in SUBSET Nat /\ K # {}
    BY <1>0
  <2>2. s \in Surjection(A, K)
    BY DEF Surjection
  <2>3. IsFiniteSet(K)
    BY <1>2, <2>2, FS_Surjection
  <2> HIDE DEF K
  <2>4. PICK m \in K : \A k \in K : k <= m
    BY <2>1, <2>3, LargestElement
  <2> QED
    BY <2>4 DEF K
<1> DEFINE B == {e \in A : e.seq = b.seq}
<1>4. B # {} /\ IsFiniteSet(B) /\ B \subseteq heap
  BY <1>2, FS_Subset
<1>5. PICK c \in B : \A f \in B : f.iter_idx <= c.iter_idx
  <2> DEFINE s == [e \in B |-> e.iter_idx]
             K == {e.iter_idx : e \in B}
  <2>1. K \in SUBSET Nat /\ K # {}
    BY <1>0
  <2>2. s \in Surjection(B, K)
    BY DEF Surjection
  <2>3. IsFiniteSet(K)
    BY <1>4, <2>2, FS_Surjection
  <2> HIDE DEF K
  <2>4. PICK m \in K : \A k \in K : k <= m
    BY <2>1, <2>3, LargestElement
  <2> QED
    BY <2>4 DEF K
<1>6. ASSUME NEW f \in heap \ {c} PROVE Before(c, f)
  <2>1. c \in heap /\ c.key = a.key /\ c.seq = b.seq
    OBVIOUS
  <2>2. c.iter_idx # f.iter_idx
    BY <1>0, <2>1
  <2>3. CASE f.key # a.key
    <3>1. c.key < f.key
      BY <1>0, <1>1, <2>1, <2>3
    <3> QED
      BY <3>1 DEF Before
  <2>4. CASE f.key = a.key /\ f.seq # b.seq
    <3>1. f.seq <= b.seq
      BY <1>3, <2>4
    <3>2. c.key = f.key /\ c.seq > f.seq
      BY <3>1, <1>0, <2>1, <2>4
    <3> QED
      BY <3>2 DEF Before
  <2>5. CASE f.key = a.key /\ f.seq = b.seq
    <3>1. f.iter_idx <= c.iter_idx
      BY <1>5, <2>5
    <3>2. c.key = f.key /\ c.seq = f.seq /\ c.iter_idx > f.iter_idx
      BY <3>1, <1>0, <2>1, <2>2, <2>5
    <3> QED
      BY <3>2 DEF Before
  <2> QED
    BY <2>3, <2>4, <2>5
<1>7. \E e \in heap : \A f \in heap \ {e} : Before(e, f)
  BY <1>6
<1> QED
  BY <1>7, Zenon DEF Top

\* MergeIterator::new draws the fronts.
LEMMA MergeInitEstablishesInv ==
  ASSUME NEW lists, MergeInit(lists), lists \subseteq Seq(Seq(Items))
  PROVE  MergeInv
<1> DEFINE I == {j \in RunIds : ~Ends(runs[j], 0)}
<1>1. runs \in Seq(Seq(Items)) /\ Len(runs) \in Nat
  BY LenProperties DEF MergeInit
<1>2. \A i \in RunIds : 1..0 \subseteq Readable(i)
  OBVIOUS
<1>3. \A i \in I : 1 \in Readable(i) /\ 1..1 \subseteq Readable(i)
  BY <1>1, <1>2, EndOrNext
<1>4. /\ heap = {Drawn(i, runs[i][1]) : i \in I}
      /\ exhausted = RunIds \ I /\ violations = {} /\ last_key = NoKey
      /\ at = [i \in RunIds |-> IF Ends(runs[i], 0) THEN 0 ELSE 1]
      /\ merged = <<>> /\ returned = [i \in RunIds |-> <<>>]
  BY DEF MergeInit, RunIds
<1>5. \A i \in I : /\ Drawn(i, runs[i][1]) \in Entries
                   /\ Drawn(i, runs[i][1]).iter_idx = i
                   /\ Drawn(i, runs[i][1]).key > NoKey
                   /\ at[i] = 1
  BY <1>1, <1>3, <1>4, ReadableEntry DEF Entries
<1>6. MergeTypeOK
  <2>1. IsFiniteSet(heap)
    <3>1. IsFiniteSet(I)
      <4>1. IsFiniteSet(RunIds) /\ I \in SUBSET RunIds
        BY <1>1, FS_Interval DEF RunIds
      <4> QED
        BY <4>1, FS_Subset
    <3> DEFINE d == [i \in I |-> Drawn(i, runs[i][1])]
    <3>2. d \in Surjection(I, heap)
      BY <1>4 DEF Surjection
    <3> QED
      BY <3>1, <3>2, FS_Surjection
  <2>2. at \in [RunIds -> Nat]
    BY <1>4
  <2>3. merged \in Seq(Entries) /\ returned \in [RunIds -> Seq(Entries)]
    BY <1>4, EmptySeq
  <2>4. heap \subseteq Entries
    BY <1>4, <1>5
  <2> QED
    BY <1>1, <1>4, <2>1, <2>2, <2>3, <2>4, RunsAssumption DEF MergeTypeOK
<1>7. HeapHoldsTheFronts
  BY <1>4, <1>5 DEF HeapHoldsTheFronts
<1>8. ASSUME NEW i \in RunIds PROVE RunIsReturned(i)
  <2>1. Len(returned[i]) = 0
    BY <1>4, EmptySeq
  <2>2. CASE i \in I
    BY <1>3, <1>4, <1>5, <2>1, <2>2 DEF RunIsReturned
  <2>3. CASE i \notin I
    <3>1. at[i] = 0 /\ i \in exhausted /\ Ends(runs[i], 0)
      BY <1>4, <2>3
    <3> QED
      BY <3>1, <2>1 DEF RunIsReturned
  <2> QED
    BY <2>2, <2>3
<1>9. Len(merged) = 0
  BY <1>4, EmptySeq
<1>10. MergedSoFar /\ NewestAhead
  BY <1>9 DEF MergedSoFar, NewestAhead, Ascends, NewestFirst
<1>11. HeapIsAhead
  BY <1>4, <1>5, RunsAssumption DEF HeapIsAhead, Entries
<1>12. ViolatorsDescend
  BY <1>4 DEF ViolatorsDescend
<1> QED
  BY <1>6, <1>7, <1>8, <1>10, <1>11, <1>12 DEF MergeInv

\* The popped entry is the front of its run, and precedes the other fronts.
LEMMA TopFacts ==
  ASSUME MergeInv, heap # {}
  PROVE  LET i == Top.iter_idx
         IN  /\ Top \in heap /\ Top \in Entries /\ i \in RunIds
             /\ i \notin exhausted \cup violations
             /\ at[i] \in Nat \ {0} /\ at[i] \in Readable(i)
             /\ Top = Drawn(i, runs[i][at[i]])
             /\ Top.key = runs[i][at[i]].key /\ Top.seq = runs[i][at[i]].seq
             /\ \A f \in heap \ {Top} : f.iter_idx # i /\ NotNewer(Top, f)
<1> DEFINE i == Top.iter_idx
<1>1. MergeTypeOK /\ HeapHoldsTheFronts /\ \A j \in RunIds : RunIsReturned(j)
  BY DEF MergeInv
<1>2. Top \in heap /\ \A f \in heap \ {Top} : Before(Top, f)
  BY <1>1, TopIsFirst
<1>3. Top \in Entries /\ i \in RunIds /\ runs \in Seq(Seq(Items)) /\ at[i] \in Nat
  BY <1>1, <1>2 DEF MergeTypeOK, Entries
<1>4. i \notin exhausted \cup violations /\ Top = Drawn(i, runs[i][at[i]])
  BY <1>1, <1>2 DEF HeapHoldsTheFronts
<1>5. at[i] \in Nat \ {0} /\ at[i] \in Readable(i)
  BY <1>1, <1>3, <1>4 DEF RunIsReturned
<1>6. Top.key = runs[i][at[i]].key /\ Top.seq = runs[i][at[i]].seq
  BY <1>3, <1>4, <1>5, ReadableEntry
<1>7. ASSUME NEW f \in heap \ {Top} PROVE f.iter_idx # i /\ NotNewer(Top, f)
  <2>1. f.iter_idx # i
    BY <1>1, <1>2 DEF HeapHoldsTheFronts
  <2>2. /\ Top.key \in Int /\ Top.seq \in Nat /\ f.key \in Int /\ f.seq \in Nat
    BY <1>1, <1>3 DEF MergeTypeOK, Entries
  <2>3. Before(Top, f)
    BY <1>2
  <2> QED
    BY <2>1, <2>2, <2>3 DEF Before, NotNewer
<1> QED
  BY <1>2, <1>3, <1>4, <1>5, <1>6, <1>7

\* What depends on the runs alone does not change.
LEMMA RunsAreFixed ==
  ASSUME UNCHANGED runs
  PROVE  /\ RunIds' = RunIds /\ Entries' = Entries
         /\ \A i : Readable(i)' = Readable(i)
         /\ AllInOrder' = AllInOrder
BY DEF RunIds, Entries, Readable, AllInOrder, Ascends, NewestFirst

\* An entry below the last key is refused: its run descends.
LEMMA RefusePreservesInv ==
  ASSUME MergeInv, heap # {}, next_entry, last_key > Top.key
  PROVE  MergeInv'
<1> DEFINE e == Top
           i == e.iter_idx
<1>1. /\ heap' = heap \ {e} /\ violations' = violations \cup {i}
      /\ UNCHANGED <<at, exhausted, last_key, merged, returned, runs>>
  BY DEF next_entry
<1>2. /\ e \in heap /\ i \in RunIds /\ i \notin exhausted
      /\ \A f \in heap \ {e} : f.iter_idx # i
  BY TopFacts
<1>3. /\ MergeTypeOK /\ HeapHoldsTheFronts /\ MergedSoFar /\ HeapIsAhead /\ NewestAhead
      /\ ViolatorsDescend /\ \A j \in RunIds : RunIsReturned(j)
  BY DEF MergeInv
<1>4. /\ RunIds' = RunIds /\ Entries' = Entries
      /\ \A j : Readable(j)' = Readable(j)
      /\ AllInOrder' = AllInOrder
  BY <1>1, RunsAreFixed
<1> HIDE DEF e, i
<1>5. MergeTypeOK'
  <2>1. IsFiniteSet(heap')
    BY <1>1, <1>3, FS_Subset DEF MergeTypeOK
  <2> QED
    BY <1>1, <1>2, <1>3, <1>4, <2>1 DEF MergeTypeOK
<1>6. HeapHoldsTheFronts'
  BY <1>1, <1>2, <1>3, <1>4 DEF HeapHoldsTheFronts, i
<1>7. \A j \in RunIds : RunIsReturned(j)'
  BY <1>1, <1>3, <1>4 DEF RunIsReturned
<1>8. MergedSoFar' /\ NewestAhead' /\ HeapIsAhead'
  BY <1>1, <1>3, <1>4 DEF MergedSoFar, NewestAhead, HeapIsAhead
<1>9. ViolatorsDescend'
  <2>1. ~Ascends(runs[i], Readable(i))
    <3>1. Ascends(runs[i], Readable(i)) => last_key <= e.key
      BY <1>2, <1>3 DEF HeapIsAhead, i
    <3>2. last_key \in Int /\ e.key \in Int
      BY <1>2, <1>3 DEF MergeTypeOK, Entries
    <3> QED
      BY <3>1, <3>2 DEF e
  <2> QED
    BY <1>1, <1>3, <1>4, <2>1 DEF ViolatorsDescend
<1> QED
  BY <1>4, <1>5, <1>6, <1>7, <1>8, <1>9 DEF MergeInv

\* An entry is returned: whatever the heap then holds comes after it.
LEMMA ReturnKeepsOrder ==
  ASSUME MergeInv, heap # {}, UNCHANGED runs, ~(last_key > Top.key),
         last_key' = Top.key, merged' = Append(merged, Top),
         \A f \in heap' : /\ Ascends(runs[f.iter_idx], Readable(f.iter_idx)) => Top.key <= f.key
                          /\ AllInOrder => NotNewer(Top, f)
                          /\ f.key \in Int /\ f.seq \in Nat
  PROVE  MergedSoFar' /\ HeapIsAhead' /\ NewestAhead'
<1> DEFINE e == Top
           L == Len(merged)
<1>1. e \in heap /\ e \in Entries
  BY TopFacts
<1>2. /\ RunIds' = RunIds /\ \A j : Readable(j)' = Readable(j)
      /\ AllInOrder' = AllInOrder
  BY RunsAreFixed
<1>3. merged \in Seq(Entries) /\ last_key \in Int /\ MergedSoFar /\ NewestAhead
  BY DEF MergeInv, MergeTypeOK
<1>4. e.key \in Int /\ e.seq \in Nat
  BY <1>1 DEF Entries
<1>5. last_key <= e.key
  BY <1>3, <1>4
<1> HIDE DEF e, L
<1>6. /\ L \in Nat /\ Len(merged') = L + 1 /\ merged'[L + 1] = e
      /\ \A n \in 1..L : merged'[n] = merged[n]
  BY <1>1, <1>3, AppendProperties, LenProperties DEF e, L
<1>7. \A n \in 1..L : merged[n] \in Entries /\ merged[n].key \in Int /\ merged[n].seq \in Nat
  <2>1. \A n \in 1..L : merged[n] \in Entries
    BY <1>3, ElementOfSeq DEF L
  <2> QED
    BY <2>1 DEF Entries
<1>8. \A n \in 1..L : merged[n].key <= e.key
  BY <1>3, <1>4, <1>5, <1>7 DEF MergedSoFar, L
<1>9. \A n \in 1..(L + 1) : n \in 1..L \/ n = L + 1
  BY <1>6
<1>10. MergedSoFar'
  <2>1. \A n \in 1..(L + 1) : merged'[n].key <= e.key
    BY <1>4, <1>6, <1>8, <1>9
  <2>2. ASSUME NEW j \in 1..(L + 1), NEW k \in 1..(L + 1), j < k
        PROVE  merged'[j].key <= merged'[k].key
    <3>1. CASE k \in 1..L
      <4>1. j \in 1..L
        BY <1>6, <2>2, <3>1
      <4> QED
        BY <4>1, <3>1, <2>2, <1>3, <1>6 DEF MergedSoFar, Ascends, L
    <3>2. CASE k = L + 1
      <4>1. j \in 1..L
        BY <1>6, <2>2, <3>2
      <4> QED
        BY <4>1, <3>2, <1>6, <1>8
    <3> QED
      BY <1>9, <3>1, <3>2
  <2> QED
    BY <1>6, <2>1, <2>2 DEF MergedSoFar, Ascends, e
<1>11. HeapIsAhead'
  BY <1>2 DEF HeapIsAhead, Ascends
<1>12. NewestAhead'
  <2> SUFFICES ASSUME AllInOrder
               PROVE  /\ NewestFirst(merged', 1..(L + 1))
                      /\ \A n \in 1..(L + 1) : \A f \in heap' : NotNewer(merged'[n], f)
    BY <1>2, <1>6 DEF NewestAhead, NewestFirst, NotNewer
  <2>1. /\ NewestFirst(merged, 1..L)
        /\ \A n \in 1..L : NotNewer(merged[n], e)
    BY <1>1, <1>3 DEF NewestAhead, L
  <2>2. NewestFirst(merged', 1..(L + 1))
    <3> SUFFICES ASSUME NEW j \in 1..(L + 1), NEW k \in 1..(L + 1), j < k,
                        merged'[j].key = merged'[k].key
                 PROVE  merged'[j].seq >= merged'[k].seq
      BY DEF NewestFirst
    <3>1. CASE k \in 1..L
      <4>1. j \in 1..L
        BY <1>6, <3>1
      <4> QED
        BY <4>1, <3>1, <2>1, <1>6 DEF NewestFirst
    <3>2. CASE k = L + 1
      <4>1. j \in 1..L
        BY <1>6, <3>2
      <4> QED
        BY <4>1, <3>2, <1>6, <2>1 DEF NotNewer
    <3> QED
      BY <1>9, <3>1, <3>2
  <2>3. ASSUME NEW n \in 1..(L + 1), NEW f \in heap'
        PROVE  NotNewer(merged'[n], f)
    <3>1. NotNewer(e, f) /\ f.key \in Int /\ f.seq \in Nat
      BY DEF e
    <3>2. CASE n \in 1..L
      BY <3>1, <3>2, <2>1, <1>4, <1>6, <1>7, SMTT(30) DEF NotNewer
    <3>3. CASE n = L + 1
      BY <3>1, <3>3, <1>6
    <3> QED
      BY <1>9, <3>2, <3>3
  <2> QED
    BY <2>2, <2>3
<1> QED
  BY <1>10, <1>11, <1>12

\* The books of the runs when an entry is returned and nothing is drawn.
LEMMA FinishPreservesInv ==
  ASSUME MergeInv, heap # {}, next_entry, ~(last_key > Top.key),
         Ends(runs[Top.iter_idx], at[Top.iter_idx])
  PROVE  MergeInv'
<1> DEFINE e == Top
           i == e.iter_idx
<1>1. /\ heap' = heap \ {e} /\ exhausted' = exhausted \cup {i}
      /\ last_key' = e.key /\ merged' = Append(merged, e)
      /\ returned' = [returned EXCEPT ![i] = Append(returned[i], e)]
      /\ UNCHANGED <<at, violations, runs>>
  BY DEF next_entry, push_next
<1>2. /\ e \in heap /\ e \in Entries /\ i \in RunIds
      /\ i \notin exhausted \cup violations
      /\ at[i] \in Nat \ {0} /\ at[i] \in Readable(i)
      /\ e = Drawn(i, runs[i][at[i]])
      /\ \A f \in heap \ {e} : f.iter_idx # i /\ NotNewer(e, f)
  BY TopFacts
<1>3. /\ MergeTypeOK /\ HeapHoldsTheFronts
      /\ ViolatorsDescend /\ \A j \in RunIds : RunIsReturned(j)
  BY DEF MergeInv
<1>4. /\ RunIds' = RunIds /\ Entries' = Entries
      /\ \A j : Readable(j)' = Readable(j)
  BY <1>1, RunsAreFixed
<1>5. MergedSoFar' /\ HeapIsAhead' /\ NewestAhead'
  <2>1. \A f \in heap' : NotNewer(e, f) /\ f.key \in Int /\ f.seq \in Nat
    BY <1>1, <1>2, <1>3 DEF MergeTypeOK, Entries
  <2> QED
    BY <1>1, <2>1, ReturnKeepsOrder DEF NotNewer
<1>6. Ends(runs[i], at[i])
  OBVIOUS
<1> HIDE DEF e, i
<1>7. /\ returned[i] \in Seq(Entries)
      /\ returned'[i] = Append(returned[i], e)
      /\ \A j \in RunIds : j # i => returned'[j] = returned[j]
      /\ returned' \in [RunIds -> Seq(Entries)]
  <2>1. returned \in [RunIds -> Seq(Entries)]
    BY <1>3 DEF MergeTypeOK
  <2>2. Append(returned[i], e) \in Seq(Entries)
    BY <1>2, <2>1, AppendProperties
  <2> QED
    BY <1>1, <1>2, <2>1, <2>2
<1>8. MergeTypeOK'
  <2>1. IsFiniteSet(heap')
    BY <1>1, <1>3, FS_Subset DEF MergeTypeOK
  <2>2. merged' \in Seq(Entries) /\ last_key' \in Int
    BY <1>1, <1>2, <1>3, AppendProperties DEF MergeTypeOK, Entries
  <2> QED
    BY <1>1, <1>2, <1>3, <1>4, <1>7, <2>1, <2>2, SMTT(30) DEF MergeTypeOK
<1>9. HeapHoldsTheFronts'
  BY <1>1, <1>2, <1>3, <1>4 DEF HeapHoldsTheFronts, i
<1>10. ASSUME NEW j \in RunIds PROVE RunIsReturned(j)'
  <2>1. CASE j # i
    BY <1>1, <1>3, <1>4, <1>7, <2>1 DEF RunIsReturned
  <2>2. CASE j = i
    <3>1. /\ 1..at[i] \subseteq Readable(i)
          /\ Len(returned[i]) = at[i] - 1
          /\ \A n \in 1..Len(returned[i]) : returned[i][n] = Drawn(i, runs[i][n])
      BY <1>2, <1>3 DEF RunIsReturned
    <3>2. /\ Len(returned'[i]) = at[i] /\ returned'[i][at[i]] = e
          /\ \A n \in 1..(at[i] - 1) : returned'[i][n] = returned[i][n]
      <4>1. /\ Len(returned'[i]) = Len(returned[i]) + 1
            /\ returned'[i][Len(returned[i]) + 1] = e
            /\ \A n \in 1..Len(returned[i]) : returned'[i][n] = returned[i][n]
        BY <1>2, <1>7, AppendProperties
      <4>2. Len(returned[i]) + 1 = at[i]
        BY <1>2, <3>1
      <4> QED
        BY <3>1, <4>1, <4>2
    <3>3. \A n \in 1..at[i] : n \in 1..(at[i] - 1) \/ n = at[i]
      BY <1>2
    <3>4. \A n \in 1..at[i] : returned'[i][n] = Drawn(i, runs[i][n])
      BY <1>2, <3>1, <3>2, <3>3
    <3> QED
      BY <1>1, <1>4, <1>6, <2>2, <3>1, <3>2, <3>4 DEF RunIsReturned
  <2> QED
    BY <2>1, <2>2
<1>11. ViolatorsDescend'
  BY <1>1, <1>3, <1>4 DEF ViolatorsDescend
<1> QED
  BY <1>4, <1>5, <1>8, <1>9, <1>10, <1>11 DEF MergeInv

\* The same when the next entry of the run is drawn: it comes after the one
\* returned if the run is in order.
LEMMA DrawPreservesInv ==
  ASSUME MergeInv, heap # {}, next_entry, ~(last_key > Top.key),
         ~Ends(runs[Top.iter_idx], at[Top.iter_idx])
  PROVE  MergeInv'
<1> DEFINE e == Top
           i == e.iter_idx
           p == at[i] + 1
           g == Drawn(i, runs[i][p])
<1>1. /\ e \in heap /\ e \in Entries /\ i \in RunIds
      /\ i \notin exhausted \cup violations
      /\ at[i] \in Nat \ {0} /\ at[i] \in Readable(i)
      /\ e = Drawn(i, runs[i][at[i]])
      /\ e.key = runs[i][at[i]].key /\ e.seq = runs[i][at[i]].seq
      /\ \A f \in heap \ {e} : f.iter_idx # i /\ NotNewer(e, f)
  BY TopFacts
<1>2. /\ heap' = (heap \ {e}) \cup {g}
      /\ at' = [at EXCEPT ![i] = p]
      /\ last_key' = e.key /\ merged' = Append(merged, e)
      /\ returned' = [returned EXCEPT ![i] = Append(returned[i], e)]
      /\ UNCHANGED <<exhausted, violations, runs>>
  BY <1>1 DEF next_entry, push_next
<1>3. /\ MergeTypeOK /\ HeapHoldsTheFronts
      /\ ViolatorsDescend /\ \A j \in RunIds : RunIsReturned(j)
  BY DEF MergeInv
<1>4. /\ RunIds' = RunIds /\ Entries' = Entries
      /\ \A j : Readable(j)' = Readable(j)
  BY <1>2, RunsAreFixed
<1>5. /\ 1..at[i] \subseteq Readable(i)
      /\ Len(returned[i]) = at[i] - 1
      /\ \A n \in 1..Len(returned[i]) : returned[i][n] = Drawn(i, runs[i][n])
  BY <1>1, <1>3 DEF RunIsReturned
<1>6. p \in Readable(i) /\ 1..p \subseteq Readable(i) /\ p \in Nat
  <2>1. /\ runs \in Seq(Seq(Items)) /\ at[i] \in Nat
        /\ ~Ends(runs[i], at[i])
    BY <1>1, <1>3 DEF MergeTypeOK
  <2> HIDE DEF i
  <2>2. p \in Readable(i) /\ 1..p \subseteq Readable(i)
    BY <1>1, <1>5, <2>1, EndOrNext
  <2> QED
    BY <2>1, <2>2
<1>7. /\ g \in Entries /\ g.iter_idx = i
      /\ g.key = runs[i][p].key /\ g.seq = runs[i][p].seq
  BY <1>1, <1>3, <1>6, ReadableEntry, SMTT(30) DEF MergeTypeOK
<1>8. MergedSoFar' /\ HeapIsAhead' /\ NewestAhead'
  <2>1. at[i] < p
    BY <1>1
  <2>2. Ascends(runs[i], Readable(i)) => e.key <= g.key
    BY <1>1, <1>6, <1>7, <2>1, SMTT(30) DEF Ascends
  <2>3. AllInOrder => NotNewer(e, g)
    BY <1>1, <1>6, <1>7, <2>1, <2>2 DEF AllInOrder, NewestFirst, NotNewer
  <2>4. \A f \in heap' : /\ Ascends(runs[f.iter_idx], Readable(f.iter_idx)) => e.key <= f.key
                         /\ AllInOrder => NotNewer(e, f)
                         /\ f.key \in Int /\ f.seq \in Nat
    <3>1. \A f \in heap \ {e} : e.key <= f.key /\ NotNewer(e, f) /\ f.key \in Int /\ f.seq \in Nat
      BY <1>1, <1>3 DEF MergeTypeOK, Entries, NotNewer
    <3>2. g.key \in Int /\ g.seq \in Nat
      BY <1>7 DEF Entries
    <3> HIDE DEF e, g
    <3> QED
      BY <1>2, <1>7, <2>2, <2>3, <3>1, <3>2
  <2> QED
    BY <1>2, <2>4, ReturnKeepsOrder
<1> HIDE DEF e, i, g, p
<1>9. /\ returned[i] \in Seq(Entries)
      /\ returned'[i] = Append(returned[i], e)
      /\ \A j \in RunIds : j # i => returned'[j] = returned[j]
      /\ returned' \in [RunIds -> Seq(Entries)]
  <2>1. returned \in [RunIds -> Seq(Entries)]
    BY <1>3 DEF MergeTypeOK
  <2>2. Append(returned[i], e) \in Seq(Entries)
    BY <1>1, <2>1, AppendProperties
  <2> QED
    BY <1>2, <1>1, <2>1, <2>2
<1>10. at' \in [RunIds -> Nat] /\ at'[i] = p /\ \A j \in RunIds : j # i => at'[j] = at[j]
  BY <1>2, <1>1, <1>3, <1>6 DEF MergeTypeOK
<1>11. MergeTypeOK'
  <2>1. IsFiniteSet(heap')
    BY <1>2, <1>3, FS_Subset, FS_AddElement DEF MergeTypeOK
  <2>2. merged' \in Seq(Entries) /\ last_key' \in Int
    BY <1>2, <1>1, <1>3, AppendProperties DEF MergeTypeOK, Entries
  <2> QED
    BY <1>2, <1>3, <1>4, <1>7, <1>9, <1>10, <2>1, <2>2 DEF MergeTypeOK
<1>12. HeapHoldsTheFronts'
  <2>1. ASSUME NEW f \in heap'
        PROVE  /\ f.iter_idx \notin exhausted \cup violations
               /\ f = Drawn(f.iter_idx, runs[f.iter_idx][at'[f.iter_idx]])
    <3>1. CASE f = g
      BY <3>1, <1>1, <1>7, <1>10 DEF g
    <3>2. CASE f \in heap \ {e}
      <4>1. f.iter_idx \in RunIds /\ f.iter_idx # i
        BY <3>2, <1>1, <1>3 DEF MergeTypeOK, Entries
      <4> QED
        BY <3>2, <4>1, <1>3, <1>10 DEF HeapHoldsTheFronts
    <3> QED
      BY <2>1, <3>1, <3>2, <1>2
  <2>2. ASSUME NEW j \in RunIds \ (exhausted \cup violations)
        PROVE  \E f \in heap' : f.iter_idx = j
    <3>1. CASE j = i
      BY <3>1, <1>2, <1>7
    <3>2. CASE j # i
      BY <3>2, <1>2, <1>3 DEF HeapHoldsTheFronts, i
    <3> QED
      BY <3>1, <3>2
  <2> QED
    BY <1>2, <1>4, <2>1, <2>2 DEF HeapHoldsTheFronts, Drawn
<1>13. ASSUME NEW j \in RunIds PROVE RunIsReturned(j)'
  <2>1. CASE j # i
    BY <1>2, <1>3, <1>4, <1>9, <1>10, <2>1, ZenonT(60) DEF RunIsReturned
  <2>2. CASE j = i
    <3>1. /\ Len(returned'[i]) = at[i] /\ returned'[i][at[i]] = e
          /\ \A n \in 1..(at[i] - 1) : returned'[i][n] = returned[i][n]
      <4>1. /\ Len(returned'[i]) = Len(returned[i]) + 1
            /\ returned'[i][Len(returned[i]) + 1] = e
            /\ \A n \in 1..Len(returned[i]) : returned'[i][n] = returned[i][n]
        BY <1>1, <1>9, AppendProperties
      <4>2. Len(returned[i]) + 1 = at[i]
        BY <1>1, <1>5
      <4> QED
        BY <1>5, <4>1, <4>2
    <3>2. \A n \in 1..at[i] : n \in 1..(at[i] - 1) \/ n = at[i]
      BY <1>1
    <3>3. \A n \in 1..at[i] : returned'[i][n] = Drawn(i, runs[i][n])
      BY <1>1, <1>5, <3>1, <3>2
    <3>4. at'[i] >= 1 /\ Len(returned'[i]) = at'[i] - 1 /\ i \notin exhausted'
      BY <1>2, <1>1, <1>10, <3>1 DEF p
    <3> QED
      BY <1>2, <1>4, <1>6, <1>10, <2>2, <3>1, <3>3, <3>4 DEF RunIsReturned
  <2> QED
    BY <2>1, <2>2
<1>14. ViolatorsDescend'
  BY <1>2, <1>3, <1>4 DEF ViolatorsDescend
<1> QED
  BY <1>4, <1>8, <1>11, <1>12, <1>13, <1>14 DEF MergeInv

\* A call of next_entry keeps the invariant of the merge.
LEMMA NextEntryPreservesInv == MergeInv /\ next_entry => MergeInv'
<1>1. next_entry => heap # {}
  BY DEF next_entry
<1> QED
  BY <1>1, RefusePreservesInv, FinishPreservesInv, DrawPreservesInv

\* The invariant says of a finished merge what MergeIsFaithful does.
LEMMA MergeInvImpliesFaithful == MergeInv => MergeIsFaithful
<1> SUFFICES ASSUME MergeInv PROVE MergeIsFaithful
  OBVIOUS
<1>1. /\ MergeTypeOK /\ HeapHoldsTheFronts /\ MergedSoFar /\ NewestAhead
      /\ ViolatorsDescend /\ \A j \in RunIds : RunIsReturned(j)
  BY DEF MergeInv
<1>2. ASSUME NEW i \in RunIds
      PROVE  /\ \A j \in 1..Len(returned[i]) :
                  j \in Readable(i) /\ returned[i][j] = Drawn(i, runs[i][j])
             /\ heap = {} /\ i \notin violations => 1..Len(returned[i]) = Readable(i)
             /\ i \in violations => ~Ascends(runs[i], Readable(i))
  <2>1. RunIsReturned(i) /\ at[i] \in Nat /\ runs \in Seq(Seq(Items))
    BY <1>1 DEF MergeTypeOK
  <2>2. Len(returned[i]) \in Nat /\ Len(returned[i]) <= at[i]
    BY <2>1 DEF RunIsReturned
  <2>3. \A j \in 1..Len(returned[i]) : j \in 1..at[i]
    BY <2>1, <2>2
  <2>4. \A j \in 1..Len(returned[i]) : j \in Readable(i) /\ returned[i][j] = Drawn(i, runs[i][j])
    BY <2>1, <2>3 DEF RunIsReturned
  <2>5. ASSUME heap = {}, i \notin violations
        PROVE  1..Len(returned[i]) = Readable(i)
    <3>1. i \in exhausted
      BY <1>1, <2>5 DEF HeapHoldsTheFronts
    <3>2. Len(returned[i]) = at[i] /\ Ends(runs[i], at[i]) /\ 1..at[i] \subseteq Readable(i)
      BY <2>1, <3>1 DEF RunIsReturned
    <3>3. Readable(i) = 1..at[i]
      BY <2>1, <3>2, EndOrNext
    <3> QED
      BY <3>2, <3>3
  <2> QED
    BY <1>1, <2>4, <2>5 DEF ViolatorsDescend
<1>3. Ascends(merged, 1..Len(merged))
  BY <1>1 DEF MergedSoFar
<1>4. AllInOrder => NewestFirst(merged, 1..Len(merged))
  BY <1>1 DEF NewestAhead
<1> QED
  BY <1>2, <1>3, <1>4 DEF MergeIsFaithful, AllInOrder, RunIds
-----------------------------------------------------------------------------
(****************************** Merkle trees *******************************)

\* An inner node of a tree, as opposed to a leaf.
IsNode(x) == DOMAIN x = {"left", "right"}

\* The leaves are halved d times until one node is left, the root.
IsTower(tower, d, leaves) ==
  /\ d \in Nat /\ tower[0] = leaves
  /\ \A k \in 0..d : Len(tower[k]) \in Nat \ {0}
  /\ \A k \in 0..(d - 1) : tower[k + 1] = Halved(tower[k])
  /\ Len(tower[d]) = 1 /\ tower[d][1] = MerkleRoot(leaves)

\* The nodes of a halved level and their children.
LEMMA HalvedFacts ==
  ASSUME NEW s, Len(s) \in Nat \ {0}
  PROVE  /\ Len(Halved(s)) \in Nat \ {0} /\ Len(Halved(s)) = (Len(s) + 1) \div 2
         /\ Len(s) > 1 => Len(Halved(s)) < Len(s)
         /\ \A i \in 1..Len(Halved(s)) :
              /\ IsNode(Halved(s)[i])
              /\ 2 * i - 1 \in 1..Len(s) /\ Halved(s)[i].left = s[2 * i - 1]
              /\ IF 2 * i <= Len(s) THEN Halved(s)[i].right = s[2 * i]
                                    ELSE Halved(s)[i].right = s[2 * i - 1]
<1> DEFINE n == Len(s)
           m == (n + 1) \div 2
           node(i) == [left |-> s[2 * i - 1],
                       right |-> s[IF 2 * i <= Len(s) THEN 2 * i ELSE 2 * i - 1]]
           h == Halved(s)
           T == {node(i) : i \in 1..m}
<1>1. /\ m \in Nat \ {0} /\ (n > 1 => m < n)
      /\ \A i \in 1..m : 2 * i - 1 \in 1..n
  BY DEF n
<1>2. h = [i \in 1..m |-> node(i)]
  BY DEF Halved
<1>3. h \in [1..m -> T]
  BY <1>2
<1>4. Len(h) = m
  <2> HIDE DEF h, T, m
  <2>1. h \in Seq(T)
    BY <1>1, <1>3, SeqDef
  <2> QED
    BY <1>1, <1>3, <2>1, LenProperties
<1>5. \A i \in 1..m : h[i] = node(i)
  BY <1>2
<1> HIDE DEF h, m
<1>6. \A i \in 1..m : /\ IsNode(h[i])
                      /\ h[i].left = s[2 * i - 1]
                      /\ IF 2 * i <= Len(s) THEN h[i].right = s[2 * i] ELSE h[i].right = s[2 * i - 1]
  <2>1. \A i \in 1..m : DOMAIN node(i) = {"left", "right"} /\ node(i).left = s[2 * i - 1]
                       /\ node(i).right = s[IF 2 * i <= Len(s) THEN 2 * i ELSE 2 * i - 1]
    OBVIOUS
  <2> HIDE DEF node
  <2>2. \A i \in 1..m : DOMAIN h[i] = {"left", "right"} /\ h[i].left = s[2 * i - 1]
                       /\ h[i].right = s[IF 2 * i <= Len(s) THEN 2 * i ELSE 2 * i - 1]
    BY <1>5, <2>1
  <2> QED
    BY <2>2 DEF IsNode
<1> QED
  BY <1>1, <1>4, <1>6 DEF h, m

\* The recurrence behind MerkleRoot has a solution.
IsLevels(level, leaves, n) ==
  level = [k \in 0..n |->
             IF k = 0 THEN leaves
             ELSE IF Len(level[k - 1]) = 1 THEN level[k - 1] ELSE Halved(level[k - 1])]
LEMMA LevelsExist ==
  ASSUME NEW leaves, NEW n \in Nat
  PROVE  \E level : IsLevels(level, leaves, n)
<1> DEFINE up(s) == IF Len(s) = 1 THEN s ELSE Halved(s)
           Is(v, m) == v = [k \in 0..m |-> IF k = 0 THEN leaves ELSE up(v[k - 1])]
           Lengths == {m \in Nat : \E v : Is(v, m)}
<1> HIDE DEF up
<1>1. 0 \in Lengths
  <2> DEFINE v == [k \in 0..0 |-> leaves]
  <2>1. Is(v, 0)
    OBVIOUS
  <2> QED
    BY <2>1
<1>2. ASSUME NEW m \in Nat, m \in Lengths
      PROVE  m + 1 \in Lengths
  <2>1. PICK v : Is(v, m)
    BY <1>2
  <2> DEFINE t == [k \in 0..(m + 1) |-> IF k <= m THEN v[k] ELSE up(v[m])]
  <2>2. \A k \in 0..m : v[k] = IF k = 0 THEN leaves ELSE up(v[k - 1])
    BY <2>1
  <2>3. \A k \in 0..(m + 1) : t[k] = IF k = 0 THEN leaves ELSE up(t[k - 1])
    <3> SUFFICES ASSUME NEW k \in 0..(m + 1)
                 PROVE  t[k] = IF k = 0 THEN leaves ELSE up(t[k - 1])
      OBVIOUS
    <3>1. CASE k = 0
      BY <2>2, <3>1
    <3>2. CASE k \in 1..m
      BY <2>2, <3>2
    <3>3. CASE k = m + 1
      BY <3>3
    <3> QED
      BY <3>1, <3>2, <3>3
  <2>4. Is(t, m + 1)
    BY <2>3
  <2>5. m + 1 \in Nat
    OBVIOUS
  <2> HIDE DEF t
  <2> QED
    BY <2>4, <2>5
<1>3. Nat \subseteq Lengths
  <2> HIDE DEF Lengths
  <2> QED
    BY <1>1, <1>2, SetInduction
<1>4. \E v : Is(v, n)
  BY <1>3
<1> QED
  BY <1>4 DEF IsLevels, up

\* MerkleRoot is the top of a tower.
LEMMA TowerExists ==
  ASSUME NEW leaves, Len(leaves) \in Nat \ {0}
  PROVE  \E tower, d : IsTower(tower, d, leaves)
<1> DEFINE n == Len(leaves)
           v == CHOOSE u : IsLevels(u, leaves, n)
<1>1. n \in Nat /\ n # 0
  OBVIOUS
<1>2. IsLevels(v, leaves, n)
  BY <1>1, LevelsExist
<1>3. MerkleRoot(leaves) = v[n][1]
  BY DEF MerkleRoot, IsLevels
<1> HIDE DEF v
<1>4. /\ v[0] = leaves
      /\ \A k \in 0..(n - 1) : v[k + 1] = IF Len(v[k]) = 1 THEN v[k] ELSE Halved(v[k])
  <2>1. \A k \in 0..n : v[k] = IF k = 0 THEN leaves
                              ELSE IF Len(v[k - 1]) = 1 THEN v[k - 1] ELSE Halved(v[k - 1])
    BY <1>1, <1>2 DEF IsLevels
  <2>2. \A k \in 0..(n - 1) : k + 1 \in 0..n /\ k + 1 # 0 /\ (k + 1) - 1 = k
    BY <1>1
  <2>3. 0 \in 0..n
    BY <1>1
  <2> HIDE DEF n
  <2> QED
    BY <2>1, <2>2, <2>3
<1> HIDE DEF n
<1>5. \A k \in Nat : k <= n => Len(v[k]) \in Nat \ {0} /\ (Len(v[k]) = 1 \/ Len(v[k]) <= n - k)
  <2> DEFINE ok(k) == Len(v[k]) \in Nat \ {0} /\ (Len(v[k]) = 1 \/ Len(v[k]) <= n - k)
             Good == {k \in Nat : k <= n => ok(k)}
  <2>1. 0 \in Good
    BY <1>1, <1>4 DEF n
  <2>2. ASSUME NEW k \in Nat, k \in Good PROVE k + 1 \in Good
    <3> SUFFICES ASSUME k + 1 <= n PROVE ok(k + 1)
      OBVIOUS
    <3>1. k \in 0..(n - 1) /\ ok(k)
      BY <1>1, <2>2
    <3>2. CASE Len(v[k]) = 1
      BY <1>4, <3>1, <3>2
    <3>3. CASE Len(v[k]) # 1
      <4> DEFINE s == v[k]
                 a == Len(s)
                 b == Len(Halved(s))
      <4>1. v[k + 1] = Halved(s) /\ a \in Nat \ {0} /\ a # 1 /\ a <= n - k
        BY <1>4, <3>1, <3>3
      <4> HIDE DEF s
      <4>2. b \in Nat \ {0} /\ (a > 1 => b < a)
        BY <4>1, HalvedFacts
      <4> HIDE DEF a, b
      <4>3. b <= n - (k + 1)
        BY <1>1, <4>1, <4>2
      <4> QED
        BY <4>1, <4>2, <4>3 DEF b
    <3> QED
      BY <3>2, <3>3
  <2>3. Nat \subseteq Good
    <3> HIDE DEF Good
    <3> QED
      BY <2>1, <2>2, SetInduction
  <2> QED
    BY <2>3
<1> DEFINE Done == {k \in Nat : k <= n /\ Len(v[k]) = 1}
<1>6. n \in Done
  BY <1>1, <1>5
<1>7. PICK d \in Done : \A k \in Done : d <= k
  <2>1. Done \in SUBSET Nat /\ Done # {}
    BY <1>6
  <2> HIDE DEF Done
  <2> QED
    BY <2>1, SmallestElement
<1>8. d \in Nat /\ d <= n /\ Len(v[d]) = 1
  OBVIOUS
<1>9. \A k \in 0..(d - 1) : v[k + 1] = Halved(v[k])
  <2>1. \A k \in 0..(d - 1) : k \in 0..(n - 1) /\ k \in Nat /\ k <= n /\ ~(d <= k)
    BY <1>1, <1>8
  <2>2. \A k \in 0..(d - 1) : Len(v[k]) # 1
    BY <1>7, <2>1
  <2> QED
    BY <1>4, <2>1, <2>2
<1>10. v[n] = v[d]
  <2> DEFINE Same == {k \in Nat : d <= k /\ k <= n => v[k] = v[d]}
  <2>1. 0 \in Same
    BY <1>8
  <2>2. ASSUME NEW k \in Nat, k \in Same PROVE k + 1 \in Same
    <3> SUFFICES ASSUME d <= k + 1, k + 1 <= n PROVE v[k + 1] = v[d]
      OBVIOUS
    <3>1. CASE d = k + 1
      BY <3>1
    <3>2. CASE d <= k
      <4>1. k \in 0..(n - 1) /\ v[k] = v[d]
        BY <1>1, <2>2, <3>2
      <4> QED
        BY <1>4, <1>8, <4>1
    <3> QED
      BY <1>8, <3>1, <3>2
  <2>3. Nat \subseteq Same
    <3> HIDE DEF Same
    <3> QED
      BY <2>1, <2>2, SetInduction
  <2> QED
    BY <1>1, <1>8, <2>3
<1>11. \A k \in 0..d : Len(v[k]) \in Nat \ {0}
  BY <1>1, <1>5, <1>8
<1>12. IsTower(v, d, leaves)
  BY <1>3, <1>4, <1>8, <1>9, <1>10, <1>11 DEF IsTower
<1> QED
  BY <1>12

\* Lists that agree as far as both go, the longer of which ends with something
\* that the shorter has, too.
EndsWithin(a, b) == Len(a) < Len(b) => \E j \in 1..Len(a) : b[Len(b)] = a[j]
Twins(a, b) ==
  /\ \A i \in 1..Len(a) : i <= Len(b) => a[i] = b[i]
  /\ EndsWithin(a, b) /\ EndsWithin(b, a)

\* The last element is the right child of the last node.
LEMMA LastChild ==
  ASSUME NEW a, Len(a) \in Nat \ {0}
  PROVE  Len(Halved(a)) \in 1..Len(Halved(a)) /\ Halved(a)[Len(Halved(a))].right = a[Len(a)]
<1> DEFINE h == Halved(a)
           m == Len(h)
           n == Len(a)
<1>1. m \in Nat \ {0} /\ m = (n + 1) \div 2 /\ n \in Nat
  BY HalvedFacts
<1>2. \A i \in 1..m : IF 2 * i <= n THEN h[i].right = a[2 * i] ELSE h[i].right = a[2 * i - 1]
  BY HalvedFacts
<1> HIDE DEF h, m, n
<1>3. m \in 1..m
  BY <1>1
<1>4. IF 2 * m <= n THEN 2 * m = n ELSE 2 * m - 1 = n
  BY <1>1
<1>5. h[m].right = a[n]
  BY <1>2, <1>3, <1>4
<1> QED
  BY <1>3, <1>5 DEF h, m, n

\* A right child is one of the level below.
LEMMA RightChild ==
  ASSUME NEW a, Len(a) \in Nat \ {0}, NEW i \in 1..Len(Halved(a))
  PROVE  \E j \in 1..Len(a) : Halved(a)[i].right = a[j]
<1>1. /\ 2 * i - 1 \in 1..Len(a)
      /\ IF 2 * i <= Len(a) THEN Halved(a)[i].right = a[2 * i] ELSE Halved(a)[i].right = a[2 * i - 1]
  BY HalvedFacts
<1>2. CASE 2 * i <= Len(a)
  <2>1. 2 * i \in 1..Len(a)
    BY <1>1, <1>2, HalvedFacts
  <2> QED
    BY <1>1, <1>2, <2>1
<1>3. CASE ~(2 * i <= Len(a))
  BY <1>1, <1>3
<1> QED
  BY <1>2, <1>3

\* Levels are twins if the halved ones are.
LEMMA EndsWithinBelow ==
  ASSUME NEW a, NEW b, Len(a) \in Nat \ {0}, Len(b) \in Nat \ {0},
         Twins(Halved(a), Halved(b))
  PROVE  EndsWithin(a, b)
<1> SUFFICES ASSUME Len(a) < Len(b)
             PROVE  \E j \in 1..Len(a) : b[Len(b)] = a[j]
  BY DEF EndsWithin
<1> DEFINE A == Halved(a)
           B == Halved(b)
           m == Len(A)
           n == Len(B)
<1>1. /\ m \in Nat \ {0} /\ n \in Nat \ {0} /\ m <= n
      /\ m \in 1..m /\ n \in 1..n
  <2>1. /\ m \in Nat \ {0} /\ m = (Len(a) + 1) \div 2
        /\ n \in Nat \ {0} /\ n = (Len(b) + 1) \div 2
    BY HalvedFacts
  <2> HIDE DEF m, n
  <2> QED
    BY <2>1
<1>2. B[n].right = b[Len(b)] /\ \A i \in 1..m : \E j \in 1..Len(a) : A[i].right = a[j]
  BY LastChild, RightChild
<1> HIDE DEF A, B, m, n
<1>3. \E i \in 1..m : B[n] = A[i]
  <2>1. Twins(A, B)
    BY DEF A, B
  <2>2. CASE m < n
    BY <2>1, <2>2 DEF Twins, EndsWithin, m, n
  <2>3. CASE m = n
    BY <1>1, <2>1, <2>3 DEF Twins, m, n
  <2> QED
    BY <1>1, <2>2, <2>3
<1> QED
  BY <1>2, <1>3

\* Lists are twins if their levels one up are.
LEMMA TwinsBelow ==
  ASSUME NEW a, NEW b, Len(a) \in Nat \ {0}, Len(b) \in Nat \ {0},
         Twins(Halved(a), Halved(b))
  PROVE  Twins(a, b)
<1> DEFINE A == Halved(a)
           B == Halved(b)
<1>1. Twins(B, A)
  <2>1. Len(A) \in Nat /\ Len(B) \in Nat
    BY HalvedFacts
  <2>2. Twins(A, B)
    OBVIOUS
  <2> HIDE DEF A, B
  <2> QED
    BY <2>1, <2>2 DEF Twins
<1>2. EndsWithin(a, b) /\ EndsWithin(b, a)
  BY <1>1, EndsWithinBelow
<1>3. ASSUME NEW i \in 1..Len(a), i <= Len(b)
      PROVE  a[i] = b[i]
  <2> DEFINE k == (i + 1) \div 2
  <2>1. k \in Nat /\ (i = 2 * k \/ i = 2 * k - 1)
    OBVIOUS
  <2>2. k \in 1..Len(A) /\ k \in 1..Len(B)
    <3>1. Len(A) = (Len(a) + 1) \div 2 /\ Len(B) = (Len(b) + 1) \div 2
      BY HalvedFacts
    <3> QED
      BY <1>3, <3>1
  <2>3. A[k] = B[k]
    BY <2>2 DEF Twins
  <2>4. /\ A[k].left = a[2 * k - 1] /\ B[k].left = b[2 * k - 1]
        /\ 2 * k <= Len(a) => A[k].right = a[2 * k]
        /\ 2 * k <= Len(b) => B[k].right = b[2 * k]
    BY <2>2, HalvedFacts
  <2> HIDE DEF k, A, B
  <2>5. CASE i = 2 * k
    BY <1>3, <2>3, <2>4, <2>5
  <2>6. CASE i = 2 * k - 1
    BY <2>3, <2>4, <2>6
  <2> QED
    BY <2>1, <2>5, <2>6
<1> QED
  BY <1>2, <1>3 DEF Twins

\* Towers with one root are of one height, if their leaves are no nodes.
LEMMA TowersAlike ==
  ASSUME NEW a, NEW b, NEW A, NEW B, NEW d, NEW e,
         IsTower(A, d, a), IsTower(B, e, b), MerkleRoot(a) = MerkleRoot(b),
         ~IsNode(a[1]), d <= e
  PROVE  d = e
<1>1. d \in Nat /\ e \in Nat
  BY DEF IsTower
<1>2. \A k \in 0..(d - 1) : Len(A[k]) \in Nat \ {0} /\ A[k + 1][1].left = A[k][1]
  <2> SUFFICES ASSUME NEW k \in 0..(d - 1)
               PROVE  Len(A[k]) \in Nat \ {0} /\ A[k + 1][1].left = A[k][1]
    OBVIOUS
  <2>1. Len(A[k]) \in Nat \ {0} /\ A[k + 1] = Halved(A[k])
    BY <1>1 DEF IsTower
  <2> DEFINE s == A[k]
  <2> HIDE DEF s
  <2>2. Len(s) \in Nat \ {0} => Halved(s)[1].left = s[1]
    <3>1. ASSUME Len(s) \in Nat \ {0} PROVE 1 \in 1..Len(Halved(s)) /\ 2 * 1 - 1 = 1
      BY <3>1, HalvedFacts
    <3>2. ASSUME Len(s) \in Nat \ {0}
          PROVE \A i \in 1..Len(Halved(s)) : Halved(s)[i].left = s[2 * i - 1]
      BY <3>2, HalvedFacts
    <3> QED
      BY <3>1, <3>2
  <2> QED
    BY <2>1, <2>2 DEF s
<1>3. \A k \in 0..(e - 1) : B[k + 1][1].left = B[k][1] /\ IsNode(B[k + 1][1])
  <2> SUFFICES ASSUME NEW k \in 0..(e - 1)
               PROVE  B[k + 1][1].left = B[k][1] /\ IsNode(B[k + 1][1])
    OBVIOUS
  <2>1. Len(B[k]) \in Nat \ {0} /\ B[k + 1] = Halved(B[k])
    BY <1>1 DEF IsTower
  <2> DEFINE s == B[k]
  <2> HIDE DEF s
  <2>2. Len(s) \in Nat \ {0} => Halved(s)[1].left = s[1] /\ IsNode(Halved(s)[1])
    <3>1. ASSUME Len(s) \in Nat \ {0} PROVE 1 \in 1..Len(Halved(s)) /\ 2 * 1 - 1 = 1
      BY <3>1, HalvedFacts
    <3>2. ASSUME Len(s) \in Nat \ {0}
          PROVE \A i \in 1..Len(Halved(s)) :
                  Halved(s)[i].left = s[2 * i - 1] /\ IsNode(Halved(s)[i])
      BY <3>2, HalvedFacts
    <3> QED
      BY <3>1, <3>2
  <2> QED
    BY <2>1, <2>2 DEF s
<1> DEFINE Same == {k \in Nat : k <= d => A[d - k][1] = B[e - k][1]}
<1>4. 0 \in Same
  BY <1>1 DEF IsTower
<1>5. ASSUME NEW k \in Nat, k \in Same PROVE k + 1 \in Same
  <2> SUFFICES ASSUME k + 1 <= d PROVE A[d - (k + 1)][1] = B[e - (k + 1)][1]
    OBVIOUS
  <2> DEFINE i == d - (k + 1)
             j == e - (k + 1)
  <2>1. i \in 0..(d - 1) /\ j \in 0..(e - 1) /\ i + 1 = d - k /\ j + 1 = e - k
    BY <1>1
  <2>2. A[i + 1][1] = B[j + 1][1]
    <3>1. k <= d
      BY <1>1
    <3>2. A[d - k][1] = B[e - k][1]
      BY <1>5, <3>1
    <3> QED
      BY <2>1, <3>2
  <2> HIDE DEF i, j
  <2>3. A[i][1] = B[j][1]
    BY <1>2, <1>3, <2>1, <2>2
  <2> QED
    BY <2>3 DEF i, j
<1>6. Nat \subseteq Same
  <2> HIDE DEF Same
  <2> QED
    BY <1>4, <1>5, SetInduction
<1>7. A[0][1] = B[e - d][1]
  <2>1. d - d = 0 /\ d <= d
    BY <1>1
  <2> QED
    BY <1>1, <1>6, <2>1
<1> SUFFICES ASSUME d < e PROVE FALSE
  BY <1>1
<1>8. (e - d) - 1 \in 0..(e - 1) /\ ((e - d) - 1) + 1 = e - d
  BY <1>1
<1>9. IsNode(B[e - d][1])
  BY <1>3, <1>8
<1> QED
  BY <1>7, <1>9 DEF IsTower

\* Lists of leaves with one Merkle root are twins.
LEMMA EqualRoots ==
  ASSUME NEW a, NEW b, Len(a) \in Nat \ {0}, Len(b) \in Nat \ {0},
         ~IsNode(a[1]), ~IsNode(b[1]), MerkleRoot(a) = MerkleRoot(b)
  PROVE  Twins(a, b)
<1>1. PICK A, d : IsTower(A, d, a)
  BY TowerExists
<1>2. PICK B, e : IsTower(B, e, b)
  BY TowerExists
<1>3. d \in Nat /\ e \in Nat
  BY <1>1, <1>2 DEF IsTower
<1>4. d = e
  <2>1. d <= e => d = e
    BY <1>1, <1>2, TowersAlike
  <2>2. e <= d => d = e
    BY <1>1, <1>2, TowersAlike
  <2> QED
    BY <1>3, <2>1, <2>2
<1> DEFINE Alike == {k \in Nat : k <= d => Twins(A[d - k], B[d - k])}
<1>5. 0 \in Alike
  <2> DEFINE s == A[d]
             t == B[d]
  <2>1. Len(s) = 1 /\ Len(t) = 1 /\ s[1] = t[1]
    BY <1>1, <1>2, <1>4 DEF IsTower
  <2> HIDE DEF s, t
  <2>2. Twins(s, t)
    BY <2>1 DEF Twins, EndsWithin
  <2>3. d - 0 = d
    BY <1>3
  <2> QED
    BY <2>2, <2>3 DEF s, t
<1>6. ASSUME NEW k \in Nat, k \in Alike PROVE k + 1 \in Alike
  <2> SUFFICES ASSUME k + 1 <= d PROVE Twins(A[d - (k + 1)], B[d - (k + 1)])
    OBVIOUS
  <2> DEFINE i == d - (k + 1)
             s == A[i]
             t == B[i]
  <2>1. i \in 0..(d - 1) /\ i \in 0..d /\ i + 1 = d - k
    BY <1>3
  <2>2. Twins(A[i + 1], B[i + 1])
    BY <1>3, <1>6, <2>1
  <2> HIDE DEF i
  <2>3. /\ A[i + 1] = Halved(s) /\ B[i + 1] = Halved(t)
        /\ Len(s) \in Nat \ {0} /\ Len(t) \in Nat \ {0}
    BY <1>1, <1>2, <1>4, <2>1 DEF IsTower
  <2> HIDE DEF s, t
  <2>4. Twins(s, t)
    BY <2>2, <2>3, TwinsBelow
  <2> QED
    BY <2>4 DEF s, t, i
<1>7. Nat \subseteq Alike
  <2> HIDE DEF Alike
  <2> QED
    BY <1>5, <1>6, SetInduction
<1>8. Twins(A[d - d], B[d - d]) /\ d - d = 0
  BY <1>3, <1>7
<1>9. A[0] = a /\ B[0] = b
  BY <1>1, <1>2 DEF IsTower
<1> QED
  BY <1>8, <1>9

\* A root is the only leaf or a node.
LEMMA RootIsLeafOrNode ==
  ASSUME NEW a, Len(a) \in Nat \ {0}
  PROVE  MerkleRoot(a) = a[1] \/ IsNode(MerkleRoot(a))
<1>1. PICK A, d : IsTower(A, d, a)
  BY TowerExists
<1>2. CASE d = 0
  BY <1>1, <1>2 DEF IsTower
<1>3. CASE d # 0
  <2>1. d - 1 \in 0..(d - 1) /\ d - 1 \in 0..d /\ (d - 1) + 1 = d
    BY <1>1, <1>3 DEF IsTower
  <2> DEFINE s == A[d - 1]
  <2>2. A[d] = Halved(s) /\ Len(s) \in Nat \ {0} /\ Len(A[d]) = 1 /\ A[d][1] = MerkleRoot(a)
    BY <1>1, <2>1 DEF IsTower
  <2> HIDE DEF s
  <2>3. \A i \in 1..Len(Halved(s)) : IsNode(Halved(s)[i])
    BY <2>2, HalvedFacts
  <2>4. 1 \in 1..Len(Halved(s))
    BY <2>2
  <2> QED
    BY <2>2, <2>3, <2>4
<1> QED
  BY <1>2, <1>3

-----------------------------------------------------------------------------
(********************************* Blocks **********************************)

TxHashes(ts) == [i \in 1..Len(ts) |-> recompute_hash(ts[i])]

\* What a node can hold: a type and keys that decode.
HeldTxs == {t \in TxRecords : HasTypeAndKeys(t)}

\* The hash of a transaction is no inner node of a tree and fixes its kind and
\* what it spends.
LEMMA HashFacts ==
  ASSUME NEW t \in TxRecords, NEW u \in TxRecords
  PROVE  /\ ~IsNode(recompute_hash(t))
         /\ recompute_hash(t) = recompute_hash(u) => t.tx_type = u.tx_type /\ t.inputs = u.inputs
<1>1. /\ recompute_hash(t) = [[t EXCEPT !.unhashed = 0] EXCEPT !.unsent = 0]
      /\ recompute_hash(u) = [[u EXCEPT !.unhashed = 0] EXCEPT !.unsent = 0]
  BY DEF recompute_hash
<1>2. DOMAIN recompute_hash(t) = DOMAIN t
  BY <1>1
<1>3. "fee" \in DOMAIN t
  BY DEF TxRecords
<1>4. ~IsNode(recompute_hash(t))
  <2>1. "fee" \in DOMAIN recompute_hash(t) /\ "fee" \notin {"left", "right"}
    BY <1>2, <1>3
  <2> QED
    BY <2>1 DEF IsNode
<1>5. /\ recompute_hash(t).tx_type = t.tx_type /\ recompute_hash(t).inputs = t.inputs
      /\ recompute_hash(u).tx_type = u.tx_type /\ recompute_hash(u).inputs = u.inputs
  BY <1>1 DEF TxRecords
<1> QED
  BY <1>4, <1>5

\* Decoding a transaction resets what nobody hashed.
LEMMA DecodedFacts ==
  ASSUME NEW t \in TxRecords, HasTypeAndKeys(t)
  PROVE  LET d == TxWireDecode(t)
         IN  /\ d \in HeldTxs /\ recompute_hash(d) = recompute_hash(t)
             /\ d.tx_type = t.tx_type /\ d.inputs = t.inputs /\ d.outputs = t.outputs
             /\ d.fee = t.fee /\ d.poh_tick = t.poh_tick /\ d.locktime = t.locktime
<1> DEFINE d == TxWireDecode(t)
<1>1. d = [t EXCEPT !.unsent = 0] /\ 0 \in Nat
  BY DEF TxWireDecode
<1>2. d \in TxRecords
  BY <1>1 DEF TxRecords
<1>3. /\ d.tx_type = t.tx_type /\ d.inputs = t.inputs /\ d.outputs = t.outputs
      /\ d.fee = t.fee /\ d.poh_tick = t.poh_tick /\ d.locktime = t.locktime
      /\ d.keys_valid = t.keys_valid
  BY <1>1 DEF TxRecords
<1>4. recompute_hash(d) = recompute_hash(t)
  <2>1. /\ recompute_hash(d) = [[d EXCEPT !.unhashed = 0] EXCEPT !.unsent = 0]
        /\ recompute_hash(t) = [[t EXCEPT !.unhashed = 0] EXCEPT !.unsent = 0]
    BY DEF recompute_hash
  <2> QED
    BY <1>1, <2>1 DEF TxRecords
<1>5. d \in HeldTxs
  BY <1>2, <1>3 DEF HeldTxs, HasTypeAndKeys
<1> QED
  BY <1>3, <1>4, <1>5

\* A list of what nodes hold can be sent.
LEMMA HeldAreRecords ==
  ASSUME NEW ts \in Seq(HeldTxs)
  PROVE  ts \in Seq(TxRecords)
<1>1. PICK n \in Nat : ts \in [1..n -> HeldTxs]
  BY SeqDef
<1>2. HeldTxs \subseteq TxRecords
  BY DEF HeldTxs
<1>3. ts \in [1..n -> TxRecords]
  BY <1>1, <1>2
<1> QED
  BY <1>3, SeqDef

\* Decoding a list decodes each of it.
LEMMA DecodedList ==
  ASSUME NEW ts \in Seq(TxRecords), \A i \in 1..Len(ts) : HasTypeAndKeys(ts[i])
  PROVE  LET ds == [i \in 1..Len(ts) |-> TxWireDecode(ts[i])]
         IN  ds \in Seq(HeldTxs) /\ Len(ds) = Len(ts)
<1> DEFINE n == Len(ts)
           ds == [i \in 1..n |-> TxWireDecode(ts[i])]
<1>1. n \in Nat /\ \A i \in 1..n : ts[i] \in TxRecords
  BY LenProperties, ElementOfSeq
<1>2. \A i \in 1..n : TxWireDecode(ts[i]) \in HeldTxs
  BY <1>1, DecodedFacts
<1> HIDE DEF n
<1>3. ds \in [1..n -> HeldTxs]
  BY <1>2
<1>4. ds \in Seq(HeldTxs)
  BY <1>1, <1>3, SeqDef
<1>5. Len(ds) = n
  BY <1>1, <1>3, <1>4, LenProperties
<1> QED
  BY <1>4, <1>5 DEF n

\* A block as Seal makes it, of transactions ts.
IsSealed(b) ==
  \E header, root, total, ts : ts \in Seq(HeldTxs) /\ b = Seal(header, ts, root, total)

\* What Seal returns is sealed, and has the fields it was given.
LEMMA SealedBlock ==
  ASSUME NEW header, NEW ts \in Seq(HeldTxs), NEW root, NEW total
  PROVE  LET b == Seal(header, ts, root, total)
         IN  /\ IsSealed(b) /\ b # NoBlock
             /\ b.header = header /\ b.transactions = ts
             /\ b.state_root = root /\ b.total_supply = total
             /\ b.transactions_root = compute_transactions_root(ts)
             /\ b.block_size = BASE_BYTES + Len(ts) * TX_BYTES
             /\ b.block_hash = compute_hash(b)
<1> DEFINE b == Seal(header, ts, root, total)
           hash == [header |-> header, transactions_root |-> compute_transactions_root(ts),
                    state_root |-> root, total_supply |-> total]
<1>1. b = [header |-> header, transactions |-> ts,
           transactions_root |-> compute_transactions_root(ts),
           state_root |-> root, total_supply |-> total,
           block_size |-> BASE_BYTES + Len(ts) * TX_BYTES, block_hash |-> hash]
  BY DEF Seal, WithHash, compute_hash
<1>2. IsSealed(b)
  BY DEF IsSealed
<1>3. DOMAIN b # DOMAIN NoBlock
  <2>1. "transactions" \in DOMAIN b /\ "transactions" \notin DOMAIN NoBlock
    BY <1>1 DEF NoBlock
  <2> QED
    BY <2>1
<1>4. compute_hash(b) = hash
  BY <1>1 DEF compute_hash
<1> HIDE DEF hash
<1> QED
  BY <1>1, <1>2, <1>3, <1>4

\* A sealed block's fields, by name.
LEMMA SealedFields ==
  ASSUME NEW b, IsSealed(b)
  PROVE  /\ b # NoBlock /\ b.transactions \in Seq(HeldTxs)
         /\ b = Seal(b.header, b.transactions, b.state_root, b.total_supply)
         /\ b.transactions_root = compute_transactions_root(b.transactions)
         /\ b.block_size = BASE_BYTES + Len(b.transactions) * TX_BYTES
         /\ b.block_hash = compute_hash(b)
<1>1. PICK header, root, total, ts : ts \in Seq(HeldTxs) /\ b = Seal(header, ts, root, total)
  BY DEF IsSealed
<1> QED
  BY <1>1, SealedBlock

BlocksInv ==
  /\ sealed = NoBlock \/ IsSealed(sealed)
  /\ received = NoBlock \/ (/\ IsSealed(received) /\ sealed # NoBlock
                            /\ received.block_hash = sealed.block_hash)

\* What arrives is a list of transactions, too.
LEMMA AlteredCases ==
  ASSUME NEW ts, NEW us \in Altered(ts)
  PROVE  \/ us = ts
         \/ \E i \in 1..Len(ts), t \in BlockTxs : us = ReplaceAt(ts, i, t)
         \/ \E i \in 1..Len(ts) : us = RemoveAt(ts, i)
         \/ \E i, j \in 1..Len(ts) : us = Swapped(ts, i, j)
         \/ \E i \in 1..Len(ts) : us = ts \o SubSeq(ts, i, Len(ts))
<1>1. us = ts \/ us \in Exchanged(ts) \/ us \in Resized(ts)
  BY DEF Altered
<1>2. ASSUME us \in Exchanged(ts)
      PROVE  \/ \E i \in 1..Len(ts), t \in BlockTxs : us = ReplaceAt(ts, i, t)
             \/ \E i, j \in 1..Len(ts) : us = Swapped(ts, i, j)
  BY <1>2 DEF Exchanged
<1>3. ASSUME us \in Resized(ts)
      PROVE  \/ \E i \in 1..Len(ts) : us = RemoveAt(ts, i)
             \/ \E i \in 1..Len(ts) : us = ts \o SubSeq(ts, i, Len(ts))
  BY <1>3 DEF Resized
<1> QED
  BY <1>1, <1>2, <1>3

\* Altered transactions are transactions.
LEMMA AlteredType ==
  ASSUME NEW ts \in Seq(TxRecords), NEW us \in Altered(ts)
  PROVE  us \in Seq(TxRecords)
<1>1. Len(ts) \in Nat /\ \A i \in 1..Len(ts) : ts[i] \in TxRecords
  BY LenProperties, ElementOfSeq
<1>2. ASSUME NEW i \in 1..Len(ts), NEW t \in BlockTxs
      PROVE  ReplaceAt(ts, i, t) \in Seq(TxRecords)
  <2>1. t \in TxRecords
    BY BlocksAssumption
  <2> QED
    BY <2>1, ExceptSeq DEF ReplaceAt
<1>3. ASSUME NEW m \in Int, NEW n \in Int, 1 <= m, n <= Len(ts)
      PROVE  SubSeq(ts, m, n) \in Seq(TxRecords)
  <2>1. \A i \in m..n : ts[i] \in TxRecords
    BY <1>1, <1>3
  <2> QED
    BY <2>1, SubSeqProperties
<1>4. ASSUME NEW i \in 1..Len(ts)
      PROVE  RemoveAt(ts, i) \in Seq(TxRecords)
  <2>1. SubSeq(ts, 1, i - 1) \in Seq(TxRecords) /\ SubSeq(ts, i + 1, Len(ts)) \in Seq(TxRecords)
    BY <1>1, <1>3
  <2> QED
    BY <2>1, ConcatProperties DEF RemoveAt
<1>5. ASSUME NEW i \in 1..Len(ts), NEW j \in 1..Len(ts)
      PROVE  Swapped(ts, i, j) \in Seq(TxRecords)
  <2> DEFINE us1 == [ts EXCEPT ![i] = ts[j]]
  <2>1. us1 \in Seq(TxRecords) /\ Len(us1) = Len(ts) /\ ts[i] \in TxRecords
    BY <1>1, ExceptSeq
  <2> HIDE DEF us1
  <2>2. [us1 EXCEPT ![j] = ts[i]] \in Seq(TxRecords)
    BY <2>1, ExceptSeq
  <2> QED
    BY <2>2 DEF us1, Swapped
<1>6. ASSUME NEW i \in 1..Len(ts)
      PROVE  ts \o SubSeq(ts, i, Len(ts)) \in Seq(TxRecords)
  <2>1. SubSeq(ts, i, Len(ts)) \in Seq(TxRecords)
    BY <1>1, <1>3
  <2> QED
    BY <2>1, ConcatProperties
<1> QED
  BY <1>2, <1>4, <1>5, <1>6, AlteredCases, ZenonT(60)

\* What is sealed or received is a sealed block, under one hash.
LEMMA BlocksNextPreservesInv ==
  ASSUME BlocksInv, BlocksNext
  PROVE  BlocksInv'
<1>1. ASSUME NEW header, NEW root, NEW total,
             NEW ts \in UNION {[1..n -> {t \in BlockTxs : HasTypeAndKeys(t)}] :
                                n \in 0..CANDIDATE_MAX},
             Produce(header, ts, root, total)
      PROVE  BlocksInv'
  <2>1. ts \in Seq(HeldTxs)
    <3>1. PICK n \in 0..CANDIDATE_MAX : ts \in [1..n -> {t \in BlockTxs : HasTypeAndKeys(t)}]
      OBVIOUS
    <3>2. n \in Nat
      BY BlocksAssumption
    <3>3. {t \in BlockTxs : HasTypeAndKeys(t)} \subseteq HeldTxs
      BY BlocksAssumption DEF HeldTxs
    <3>4. ts \in [1..n -> HeldTxs]
      BY <3>1, <3>3
    <3> QED
      BY <3>2, <3>4, SeqDef
  <2>2. IsSealed(sealed')
    BY <1>1, <2>1, SealedBlock DEF Produce, NewBlock, from_candidate
  <2>3. received' = NoBlock
    BY <1>1 DEF Produce, BlocksInv
  <2> QED
    BY <2>2, <2>3 DEF BlocksInv, IsSealed
<1>2. ASSUME NEW root, NEW total, finalize_state(root, total)
      PROVE  BlocksInv'
  <2>1. PICK header, oldroot, oldtotal, ts :
          ts \in Seq(HeldTxs) /\ sealed = Seal(header, ts, oldroot, oldtotal)
    BY <1>2 DEF finalize_state, BlocksInv, IsSealed
  <2>2. sealed' = Seal(header, ts, root, total)
    <3> DEFINE r == compute_transactions_root(ts)
               size == BASE_BYTES + Len(ts) * TX_BYTES
               b(h, x, y) == [header |-> header, transactions |-> ts, transactions_root |-> r,
                              state_root |-> x, total_supply |-> y, block_size |-> size,
                              block_hash |-> h]
               hash(x, y) == [header |-> header, transactions_root |-> r, state_root |-> x,
                              total_supply |-> y]
    <3>1. \A x, y : Seal(header, ts, x, y) = b(hash(x, y), x, y)
      <4> HIDE DEF r, size
      <4> QED
        BY DEF Seal, WithHash, compute_hash, r, size
    <3>2. sealed' = WithHash([sealed EXCEPT !.state_root = root, !.total_supply = total])
      BY <1>2 DEF finalize_state
    <3> HIDE DEF r, size
    <3> DEFINE old == hash(oldroot, oldtotal)
    <3>3. sealed = b(old, oldroot, oldtotal)
      BY <2>1, <3>1
    <3> HIDE DEF old
    <3>4. [sealed EXCEPT !.state_root = root, !.total_supply = total] = b(old, root, total)
      <4>1. [b(old, oldroot, oldtotal) EXCEPT !.state_root = root] = b(old, root, oldtotal)
        OBVIOUS
      <4>2. [b(old, root, oldtotal) EXCEPT !.total_supply = total] = b(old, root, total)
        OBVIOUS
      <4> HIDE DEF b
      <4> QED
        BY <3>3, <4>1, <4>2
    <3>5. WithHash(b(old, root, total)) = b(hash(root, total), root, total)
      BY DEF WithHash, compute_hash
    <3> QED
      BY <3>1, <3>2, <3>4, <3>5
  <2>3. received' = NoBlock
    BY <1>2 DEF finalize_state
  <2> QED
    BY <2>1, <2>2, <2>3 DEF BlocksInv, IsSealed
<1>3. ASSUME sealed # NoBlock, NEW version, NEW header, NEW ts \in Altered(sealed.transactions),
             NEW total, Deliver(version, header, ts, total)
      PROVE  BlocksInv'
  <2>1. IsSealed(sealed)
    BY <1>3 DEF BlocksInv
  <2>2. ts \in Seq(TxRecords)
    <3>1. sealed.transactions \in Seq(HeldTxs)
      BY <2>1, SealedFields
    <3> QED
      BY <3>1, HeldAreRecords, AlteredType
  <2> DEFINE w == [sealed EXCEPT !.header = header, !.transactions = ts, !.total_supply = total]
             decoded == [i \in 1..Len(w.transactions) |-> TxWireDecode(w.transactions[i])]
             b == Seal(w.header, decoded, w.state_root, w.total_supply)
  <2>3. /\ received' = b /\ b.block_hash = w.block_hash /\ sealed' = sealed
        /\ \A i \in 1..Len(w.transactions) : HasTypeAndKeys(w.transactions[i])
    <3>1. received' = wire_decode(version, w) /\ received' # NoBlock /\ sealed' = sealed
      BY <1>3 DEF Deliver
    <3> HIDE DEF w
    <3>2. /\ \A i \in 1..Len(w.transactions) : HasTypeAndKeys(w.transactions[i])
          /\ LET c == from_candidate(w.header, decoded, w.state_root, w.total_supply)
             IN  received' = c /\ c # NoBlock /\ c.block_hash = w.block_hash
      BY <3>1 DEF wire_decode
    <3> HIDE DEF decoded
    <3>3. from_candidate(w.header, decoded, w.state_root, w.total_supply) = b
      BY <3>2 DEF from_candidate
    <3> QED
      BY <3>1, <3>2, <3>3
  <2>4. w.transactions = ts /\ w.block_hash = sealed.block_hash
    <3>1. PICK header2, root2, total2, ts2 : sealed = Seal(header2, ts2, root2, total2)
      BY <2>1 DEF IsSealed
    <3> QED
      BY <3>1 DEF Seal, WithHash
  <2> HIDE DEF w
  <2>5. decoded \in Seq(HeldTxs)
    BY <2>2, <2>3, <2>4, DecodedList
  <2> HIDE DEF decoded
  <2>6. IsSealed(b)
    BY <2>5 DEF IsSealed
  <2> QED
    BY <1>3, <2>1, <2>3, <2>4, <2>6 DEF BlocksInv, IsSealed
<1> QED
  BY <1>1, <1>2, <1>3 DEF BlocksNext

\* A block that passes has no transaction twice, unless it spends nothing.
LEMMA RepeatSpendsNothing ==
  ASSUME NEW b, IsSealed(b), validate_internal(b),
         NEW i \in 1..Len(b.transactions), NEW j \in 1..Len(b.transactions), i < j,
         recompute_hash(b.transactions[i]) = recompute_hash(b.transactions[j])
  PROVE  b.transactions[j].tx_type = Standard /\ b.transactions[j].inputs = <<>>
<1> DEFINE ts == b.transactions
<1>1. Len(ts) \in Nat /\ \A k \in 1..Len(ts) : ts[k] \in HeldTxs
  BY SealedFields, LenProperties, ElementOfSeq
<1>2. ts[i].tx_type = ts[j].tx_type /\ ts[i].inputs = ts[j].inputs
  BY <1>1, HashFacts DEF HeldTxs
<1>3. /\ ts[j].tx_type \in {Standard, Coinbase, Heartbeat}
      /\ ts[j].inputs \in Seq(Nat)
  BY <1>1 DEF HeldTxs, HasTypeAndKeys, TxRecords
<1>4. ts[j].tx_type # Heartbeat
  <2>1. {k \in 1..Len(ts) : is_heartbeat(ts[k])} \subseteq {1}
    BY DEF validate_internal
  <2> QED
    BY <2>1 DEF is_heartbeat
<1>5. ts[j].tx_type # Coinbase
  <2> DEFINE S == {k \in 1..Len(ts) : is_coinbase(ts[k])}
  <2>1. Cardinality(S) = 1
    BY DEF validate_internal
  <2>2. IsFiniteSet(S)
    <3>1. S \in SUBSET (1..Len(ts))
      OBVIOUS
    <3> HIDE DEF S
    <3>2. IsFiniteSet(1..Len(ts))
      BY <1>1, FS_Interval
    <3> QED
      BY <3>1, <3>2, FS_Subset
  <2> HIDE DEF S
  <2>3. PICK x : S = {x}
    BY <2>1, <2>2, FS_Singleton
  <2>4. ts[j].tx_type = Coinbase => i \in S /\ j \in S
    BY <1>2 DEF S, is_coinbase
  <2> QED
    BY <2>3, <2>4
<1>6. ASSUME ts[j].tx_type = Standard, ts[j].inputs # <<>> PROVE FALSE
  <2>1. 1 \in 1..Len(ts[i].inputs) /\ 1 \in 1..Len(ts[j].inputs)
    BY <1>2, <1>3, <1>6, LenProperties, EmptySeq
  <2>2. \A k \in 1..Len(ts) : ts[k].tx_type = Standard /\ 1 \in 1..Len(ts[k].inputs) =>
          <<k, 1>> \in SpendsOf(b)
    BY DEF SpendsOf
  <2>3. <<i, 1>> \in SpendsOf(b) /\ <<j, 1>> \in SpendsOf(b) /\ <<i, 1>> # <<j, 1>>
    <3>1. <<i, 1>> # <<j, 1>>
      OBVIOUS
    <3>2. ts[i].tx_type = Standard
      BY <1>2, <1>6
    <3> HIDE DEF ts
    <3>3. <<i, 1>> \in SpendsOf(b)
      BY <2>1, <2>2, <3>2 DEF ts
    <3>4. <<j, 1>> \in SpendsOf(b)
      BY <1>6, <2>1, <2>2 DEF ts
    <3> QED
      BY <3>1, <3>3, <3>4
  <2>4. \A s, r \in SpendsOf(b) : s # r => ts[s[1]].inputs[s[2]] # ts[r[1]].inputs[r[2]]
    BY DEF validate_internal, NullifiersOK
  <2>5. ts[i].inputs[1] # ts[j].inputs[1]
    BY <2>3, <2>4
  <2> QED
    BY <1>2, <2>5
<1> QED
  BY <1>3, <1>4, <1>5, <1>6

\* The twin of a valid block would end with a transaction that spends nothing,
\* and the block itself would have it.
LEMMA LongerTwin ==
  ASSUME NEW x, NEW y, IsSealed(x), IsSealed(y), validate_internal(y),
         Twins(TxHashes(x.transactions), TxHashes(y.transactions)),
         Len(x.transactions) < Len(y.transactions)
  PROVE  /\ \E j \in 1..Len(y.transactions) :
              y.transactions[j].tx_type = Standard /\ y.transactions[j].inputs = <<>>
         /\ \E j \in 1..Len(x.transactions) :
              x.transactions[j].tx_type = Standard /\ x.transactions[j].inputs = <<>>
<1> DEFINE xs == x.transactions
           ys == y.transactions
           n == Len(ys)
<1>1. /\ Len(xs) \in Nat /\ n \in Nat
      /\ \A k \in 1..Len(xs) : xs[k] \in HeldTxs
      /\ \A k \in 1..n : ys[k] \in HeldTxs
  BY SealedFields, LenProperties, ElementOfSeq
<1>2. Len(TxHashes(xs)) = Len(xs) /\ Len(TxHashes(ys)) = n
  BY <1>1 DEF TxHashes
<1>3. PICK j \in 1..Len(xs) : TxHashes(ys)[n] = TxHashes(xs)[j]
  BY <1>2 DEF Twins, EndsWithin
<1>4. TxHashes(xs)[j] = TxHashes(ys)[j] /\ j \in 1..n /\ n \in 1..n /\ j < n
  <2>1. j \in 1..n /\ n \in 1..n /\ j < n
    BY <1>1
  <2> QED
    BY <1>2, <2>1 DEF Twins
<1>5. /\ recompute_hash(ys[n]) = recompute_hash(xs[j])
      /\ recompute_hash(ys[j]) = recompute_hash(ys[n])
  BY <1>3, <1>4 DEF TxHashes
<1>6. ys[n].tx_type = Standard /\ ys[n].inputs = <<>>
  BY <1>4, <1>5, RepeatSpendsNothing
<1>7. xs[j].tx_type = Standard /\ xs[j].inputs = <<>>
  BY <1>1, <1>4, <1>5, <1>6, HashFacts DEF HeldTxs
<1> QED
  BY <1>4, <1>6, <1>7

\* Two sealed blocks that are accepted under one hash are the same.
LEMMA BlocksInvImpliesOne ==
  ASSUME BlocksInv
  PROVE  HashNamesOneBlock
<1>1. ASSUME received # NoBlock, validate_internal(received), validate_internal(sealed),
             \A i \in 1..Len(received.transactions) :
               received.transactions[i].tx_type = Standard => received.transactions[i].inputs # <<>>
      PROVE  /\ received.header = sealed.header
             /\ received.state_root = sealed.state_root
             /\ received.total_supply = sealed.total_supply
             /\ Len(received.transactions) = Len(sealed.transactions)
             /\ \A i \in 1..Len(sealed.transactions) :
                  recompute_hash(received.transactions[i]) = recompute_hash(sealed.transactions[i])
  <2> DEFINE xs == received.transactions
             ys == sealed.transactions
  <2>1. IsSealed(received) /\ IsSealed(sealed) /\ received.block_hash = sealed.block_hash
    BY <1>1 DEF BlocksInv
  <2>2. compute_hash(received) = compute_hash(sealed)
    BY <2>1, SealedFields
  <2>3. /\ received.header = sealed.header
        /\ received.state_root = sealed.state_root
        /\ received.total_supply = sealed.total_supply
        /\ received.transactions_root = sealed.transactions_root
    BY <2>2 DEF compute_hash
  <2>4. /\ Len(xs) \in Nat \ {0} /\ Len(ys) \in Nat \ {0}
        /\ \A k \in 1..Len(xs) : xs[k] \in HeldTxs
        /\ \A k \in 1..Len(ys) : ys[k] \in HeldTxs
    <3>1. Len(xs) \in 1..MAX_TRANSACTIONS /\ Len(ys) \in 1..MAX_TRANSACTIONS
      BY <1>1 DEF validate_internal
    <3> QED
      BY <2>1, <3>1, SealedFields, LenProperties, ElementOfSeq
  <2>5. MerkleRoot(TxHashes(xs)) = MerkleRoot(TxHashes(ys))
    <3>1. xs # <<>> /\ ys # <<>>
      BY <2>4, EmptySeq
    <3>2. compute_transactions_root(xs) = compute_transactions_root(ys)
      BY <2>1, <2>3, SealedFields
    <3> QED
      BY <3>1, <3>2 DEF compute_transactions_root, TxHashes
  <2>6. /\ Len(TxHashes(xs)) = Len(xs) /\ Len(TxHashes(ys)) = Len(ys)
        /\ ~IsNode(TxHashes(xs)[1]) /\ ~IsNode(TxHashes(ys)[1])
    <3>1. Len(TxHashes(xs)) = Len(xs) /\ Len(TxHashes(ys)) = Len(ys)
      BY <2>4 DEF TxHashes
    <3>2. 1 \in 1..Len(xs) /\ 1 \in 1..Len(ys)
      BY <2>4
    <3>3. TxHashes(xs)[1] = recompute_hash(xs[1]) /\ TxHashes(ys)[1] = recompute_hash(ys[1])
      BY <3>2 DEF TxHashes
    <3> QED
      BY <2>4, <3>1, <3>2, <3>3, HashFacts DEF HeldTxs
  <2>7. Twins(TxHashes(xs), TxHashes(ys)) /\ Twins(TxHashes(ys), TxHashes(xs))
    BY <2>4, <2>5, <2>6, EqualRoots
  <2>8. ~(Len(xs) < Len(ys)) /\ ~(Len(ys) < Len(xs))
    BY <1>1, <2>1, <2>7, LongerTwin
  <2>9. Len(xs) = Len(ys)
    BY <2>4, <2>8
  <2>10. \A i \in 1..Len(ys) : recompute_hash(xs[i]) = recompute_hash(ys[i])
    <3>1. \A i \in 1..Len(ys) : TxHashes(xs)[i] = TxHashes(ys)[i]
      BY <2>4, <2>6, <2>7, <2>9 DEF Twins
    <3> QED
      BY <2>9, <3>1 DEF TxHashes
  <2> QED
    BY <2>3, <2>9, <2>10
<1> QED
  BY <1>1 DEF HashNamesOneBlock

\* Two sealed blocks whose transactions differ only in what decoding resets pass
\* or fail together.
LEMMA DecodedValidity ==
  ASSUME NEW b, NEW c, IsSealed(b), IsSealed(c), validate_internal(b),
         c.header = b.header, c.block_size = b.block_size,
         Len(c.transactions) = Len(b.transactions),
         \A i \in 1..Len(b.transactions) :
           LET t == b.transactions[i]
               d == c.transactions[i]
           IN  /\ d.tx_type = t.tx_type /\ d.inputs = t.inputs /\ d.outputs = t.outputs
               /\ d.fee = t.fee /\ d.poh_tick = t.poh_tick /\ d.locktime = t.locktime
  PROVE  validate_internal(c)
<1> DEFINE ts == b.transactions
           ds == c.transactions
           n == Len(ts)
<1>1. /\ c.block_hash = compute_hash(c)
      /\ c.transactions_root = compute_transactions_root(ds)
  BY SealedFields
<1>2. /\ c.block_size <= MAX_BLOCK_BYTES
      /\ Len(ds) \in 1..MAX_TRANSACTIONS
      /\ c.header.poh_tick_end >= c.header.poh_tick_start
  BY DEF validate_internal
<1>3. /\ {i \in 1..Len(ds) : is_heartbeat(ds[i])} = {i \in 1..n : is_heartbeat(ts[i])}
      /\ {i \in 1..Len(ds) : is_coinbase(ds[i])} = {i \in 1..n : is_coinbase(ts[i])}
      /\ is_genesis(c) <=> is_genesis(b)
  BY DEF is_heartbeat, is_coinbase, is_genesis
<1>4. /\ {i \in 1..Len(ds) : is_heartbeat(ds[i])} = IF is_genesis(c) THEN {} ELSE {1}
      /\ Cardinality({i \in 1..Len(ds) : is_coinbase(ds[i])}) = 1
  BY <1>3 DEF validate_internal
<1>5. SpendsOf(c) = SpendsOf(b)
  <2>1. {k \in 1..Len(ds) : ds[k].tx_type = Standard} = {k \in 1..n : ts[k].tx_type = Standard}
    OBVIOUS
  <2>2. \A i \in 1..n : {<<i, j>> : j \in 1..Len(ds[i].inputs)} = {<<i, j>> : j \in 1..Len(ts[i].inputs)}
    OBVIOUS
  <2> DEFINE K == {k \in 1..n : ts[k].tx_type = Standard}
             f(i) == {<<i, j>> : j \in 1..Len(ds[i].inputs)}
             g(i) == {<<i, j>> : j \in 1..Len(ts[i].inputs)}
  <2>3. SpendsOf(c) = UNION {f(i) : i \in K} /\ SpendsOf(b) = UNION {g(i) : i \in K}
    BY <2>1 DEF SpendsOf
  <2>4. \A i \in K : f(i) = g(i)
    BY <2>2
  <2> HIDE DEF f, g, K
  <2>5. {f(i) : i \in K} = {g(i) : i \in K}
    BY <2>4
  <2> QED
    BY <2>3, <2>5
<1>6. NullifiersOK(c)
  <2>1. \A s \in SpendsOf(b) : s[1] \in 1..n
    BY DEF SpendsOf
  <2>2. \A s \in SpendsOf(b) : ds[s[1]].inputs = ts[s[1]].inputs
    BY <2>1
  <2>3. /\ \A s \in SpendsOf(b) : ts[s[1]].inputs[s[2]] # 0
        /\ \A s, r \in SpendsOf(b) : s # r => ts[s[1]].inputs[s[2]] # ts[r[1]].inputs[r[2]]
    BY DEF validate_internal, NullifiersOK
  <2>4. \A s \in SpendsOf(b) : ds[s[1]].inputs[s[2]] = ts[s[1]].inputs[s[2]]
    BY <2>2
  <2> DEFINE S == SpendsOf(b)
             p(s) == ts[s[1]].inputs[s[2]]
             q(s) == ds[s[1]].inputs[s[2]]
  <2>5. /\ \A s \in S : q(s) # 0
        /\ \A s, r \in S : s # r => q(s) # q(r)
    <3>1. /\ \A s \in S : p(s) # 0 /\ q(s) = p(s)
          /\ \A s, r \in S : s # r => p(s) # p(r)
      BY <2>3, <2>4
    <3> HIDE DEF S, p, q
    <3> QED
      BY <3>1
  <2> QED
    BY <1>5, <2>5 DEF NullifiersOK
<1>7. \A i \in 1..Len(ds) : ds[i].tx_type = Standard => StandardOK(c, ds[i])
  <2> SUFFICES ASSUME NEW i \in 1..n, ts[i].tx_type = Standard
               PROVE  StandardOK(c, ds[i])
    OBVIOUS
  <2>1. StandardOK(b, ts[i])
    BY DEF validate_internal
  <2> QED
    BY <2>1 DEF StandardOK
<1> QED
  BY <1>1, <1>2, <1>4, <1>6, <1>7 DEF validate_internal

\* What is sealed, valid and within the wire's bounds decodes.
LEMMA BlocksInvImpliesArrive ==
  ASSUME BlocksInv
  PROVE  ValidBlocksArrive
<1> SUFFICES ASSUME sealed # NoBlock, validate_internal(sealed),
                    sealed.header.height = 0
                      \/ (sealed.state_root # 0 /\ sealed.total_supply # 0),
                    \A i \in 1..Len(sealed.transactions) : WithinBounds(sealed.transactions[i])
             PROVE  LET b == wire_decode(WIRE_VERSION, sealed)
                    IN  /\ b # NoBlock /\ validate_internal(b)
                        /\ b.block_hash = sealed.block_hash
  BY DEF ValidBlocksArrive
<1> DEFINE ts == sealed.transactions
           n == Len(ts)
           ds == [i \in 1..n |-> TxWireDecode(ts[i])]
           c == Seal(sealed.header, ds, sealed.state_root, sealed.total_supply)
<1>1. IsSealed(sealed)
  BY DEF BlocksInv
<1>2. /\ ts \in Seq(HeldTxs)
      /\ sealed.transactions_root = compute_transactions_root(ts)
      /\ sealed.block_size = BASE_BYTES + n * TX_BYTES
      /\ sealed.block_hash = compute_hash(sealed)
  BY <1>1, SealedFields
<1>3. ts \in Seq(TxRecords) /\ n \in Nat
      /\ \A i \in 1..n : ts[i] \in TxRecords /\ HasTypeAndKeys(ts[i])
  <2>1. ts \in Seq(TxRecords) /\ n \in Nat
    BY <1>2, HeldAreRecords, LenProperties
  <2>2. \A i \in 1..n : ts[i] \in HeldTxs
    BY <1>2, ElementOfSeq
  <2> QED
    BY <2>1, <2>2 DEF HeldTxs
<1>4. ds \in Seq(HeldTxs) /\ Len(ds) = n
  BY <1>3, DecodedList
<1>5. \A i \in 1..n : ds[i] = TxWireDecode(ts[i])
  OBVIOUS
<1>6. wire_decode(WIRE_VERSION, sealed) =
        LET b == from_candidate(sealed.header, ds, sealed.state_root, sealed.total_supply)
        IN  IF b # NoBlock /\ b.block_hash = sealed.block_hash THEN b ELSE NoBlock
  <2>1. ~(n > MAX_TRANSACTIONS) /\ ~(sealed.block_size > MAX_BLOCK_BYTES)
    <3>1. n \in 1..MAX_TRANSACTIONS /\ sealed.block_size <= MAX_BLOCK_BYTES
      BY DEF validate_internal
    <3>2. sealed.block_size \in Int /\ MAX_BLOCK_BYTES \in Int /\ MAX_TRANSACTIONS \in Int
      <4>1. BASE_BYTES \in Int /\ TX_BYTES \in Int /\ MAX_BLOCK_BYTES \in Int
            /\ MAX_TRANSACTIONS \in Int
        BY BlocksAssumption
      <4>2. n * TX_BYTES \in Int
        BY <1>3, <4>1
      <4> QED
        BY <1>2, <4>1, <4>2
    <3> QED
      BY <3>1, <3>2
  <2>2. ~\E i \in 1..n : ~WithinBounds(ts[i]) \/ ~HasTypeAndKeys(ts[i])
    BY <1>3
  <2> HIDE DEF ds
  <2> QED
    BY <2>1, <2>2 DEF wire_decode, ds
<1> HIDE DEF ds
<1>7. from_candidate(sealed.header, ds, sealed.state_root, sealed.total_supply) = c
  <2>1. ~((sealed.state_root = 0 \/ sealed.total_supply = 0) /\ sealed.header.height > 0)
    OBVIOUS
  <2> QED
    BY <2>1 DEF from_candidate
<1>8. /\ IsSealed(c) /\ c # NoBlock /\ c.header = sealed.header /\ c.transactions = ds
      /\ c.state_root = sealed.state_root /\ c.total_supply = sealed.total_supply
      /\ c.transactions_root = compute_transactions_root(ds)
      /\ c.block_size = BASE_BYTES + Len(ds) * TX_BYTES
      /\ c.block_hash = compute_hash(c)
  BY <1>4, SealedBlock
<1> HIDE DEF c
<1>9. \A i \in 1..n : recompute_hash(ds[i]) = recompute_hash(ts[i])
  BY <1>3, <1>5, DecodedFacts
<1>10. compute_transactions_root(ds) = compute_transactions_root(ts)
  <2>1. [i \in 1..Len(ds) |-> recompute_hash(ds[i])] = [i \in 1..n |-> recompute_hash(ts[i])]
    BY <1>4, <1>9
  <2>2. ds = <<>> <=> ts = <<>>
    BY <1>2, <1>4, EmptySeq
  <2> QED
    BY <2>1, <2>2 DEF compute_transactions_root
<1>11. c.block_hash = sealed.block_hash
  BY <1>2, <1>8, <1>10 DEF compute_hash
<1>12. validate_internal(c)
  <2>1. \A i \in 1..n :
          LET t == ts[i]
              d == ds[i]
          IN  /\ d.tx_type = t.tx_type /\ d.inputs = t.inputs /\ d.outputs = t.outputs
              /\ d.fee = t.fee /\ d.poh_tick = t.poh_tick /\ d.locktime = t.locktime
    BY <1>3, <1>5, DecodedFacts
  <2>2. c.block_size = sealed.block_size
    BY <1>2, <1>4, <1>8
  <2> QED
    BY <1>1, <1>4, <1>8, <2>1, <2>2, DecodedValidity
<1> QED
  BY <1>6, <1>7, <1>8, <1>11, <1>12
-----------------------------------------------------------------------------
(******************************* State roots *******************************)

\* Leaves under keys of their own.
LeafList(leaves, keys) ==
  /\ leaves \in Seq({leaves[i] : i \in 1..Len(leaves)})
  /\ Len(keys) = Len(leaves)
  /\ \A i \in 1..Len(leaves) : /\ keys[i] \in Nat
                               /\ ~IsNode(leaves[i]) /\ leaves[i] # EmptyTree
  /\ \A i, j \in 1..Len(leaves) : keys[i] = keys[j] => i = j
  /\ \A i, j \in 1..Len(leaves) : leaves[i] = leaves[j] => i = j

KeysOf(keys) == {keys[i] : i \in 1..Len(keys)}
Place(keys, i) == Rank(KeysOf(keys), keys[i])

\* Each leaf is at the rank of its key.
LEMMA SortedByRank ==
  ASSUME NEW leaves, NEW keys, LeafList(leaves, keys)
  PROVE  /\ Len(leaves) \in Nat
         /\ Cardinality(KeysOf(keys)) = Len(leaves)
         /\ Len(Sorted(leaves, keys)) = Len(leaves)
         /\ DOMAIN Sorted(leaves, keys) = 1..Len(leaves)
         /\ \A r \in 1..Len(leaves) : \E i \in 1..Len(leaves) : Place(keys, i) = r
         /\ \A i \in 1..Len(leaves) :
              /\ Place(keys, i) \in 1..Len(leaves)
              /\ Sorted(leaves, keys)[Place(keys, i)] = leaves[i]
<1> DEFINE n == Len(leaves)
           K == KeysOf(keys)
           S == Sorted(leaves, keys)
<1>1. n \in Nat /\ Len(keys) = n
  BY LenProperties DEF LeafList
<1>2. \A i \in 1..n : keys[i] \in Nat
  BY DEF LeafList
<1>3. \A i, j \in 1..n : keys[i] = keys[j] => i = j
  BY DEF LeafList
<1> HIDE DEF n
<1>4. /\ K \in SUBSET Nat
      /\ \A i \in 1..n : keys[i] \in K
      /\ \A k \in K : \E i \in 1..n : keys[i] = k
  BY <1>1, <1>2 DEF KeysOf
<1>5. IsFiniteSet(1..n) /\ Cardinality(1..n) = n
  BY <1>1, FS_Interval
<1>6. IsFiniteSet(K) /\ Cardinality(K) = n
  <2> DEFINE f == [i \in 1..n |-> keys[i]]
  <2>1. f \in Bijection(1..n, K)
    BY <1>3, <1>4 DEF Bijection, Injection, Surjection, IsInjective
  <2> QED
    BY <1>5, <2>1, FS_Bijection DEF ExistsBijection
<1>7. ASSUME NEW i \in 1..n PROVE Cardinality(Upto(keys, i)) = Rank(K, keys[i])
  <2> DEFINE U == Upto(keys, i)
             R == {k \in K : k <= keys[i]}
             f == [j \in U |-> keys[j]]
  <2>1. \A j \in 1..n : j \in U <=> keys[j] <= keys[i]
    BY <1>1, <1>2, <1>3 DEF Upto
  <2>2. U \subseteq 1..n
    BY <1>1 DEF Upto
  <2> HIDE DEF U
  <2>3. f \in [U -> R]
    BY <1>4, <2>1, <2>2
  <2>4. \A j, k \in U : f[j] = f[k] => j = k
    BY <1>3, <2>2
  <2>5. \A k \in R : \E j \in U : f[j] = k
    BY <1>4, <2>1, <2>2
  <2> HIDE DEF R, f
  <2>6. f \in Bijection(U, R)
    BY <2>3, <2>4, <2>5 DEF Bijection, Injection, Surjection, IsInjective
  <2>7. IsFiniteSet(U)
    BY <1>5, <2>2, FS_Subset
  <2>8. Cardinality(R) = Cardinality(U)
    BY <2>6, <2>7, FS_Bijection DEF ExistsBijection
  <2> QED
    BY <2>8 DEF U, R, Rank
<1> HIDE DEF K
<1>8. /\ \A i \in 1..n : Rank(K, keys[i]) \in 1..n
      /\ \A i, j \in 1..n : Rank(K, keys[i]) = Rank(K, keys[j]) => i = j
      /\ \A r \in 1..n : \E i \in 1..n : Rank(K, keys[i]) = r
  <2>1. /\ \A k \in K : Rank(K, k) \in 1..n
        /\ \A k, l \in K : Rank(K, k) = Rank(K, l) => k = l
        /\ \A r \in 1..n : \E k \in K : Rank(K, k) = r
    BY <1>4, <1>6, RankNumbers
  <2> QED
    BY <1>3, <1>4, <2>1
<1>9. \A i \in 1..n : S[Rank(K, keys[i])] = leaves[i]
  <2> SUFFICES ASSUME NEW i \in 1..n PROVE S[Rank(K, keys[i])] = leaves[i]
    OBVIOUS
  <2> DEFINE r == Rank(K, keys[i])
             c == CHOOSE j \in 1..n : Cardinality(Upto(keys, j)) = r
  <2>1. r \in 1..n /\ S[r] = leaves[c]
    BY <1>1, <1>8 DEF Sorted
  <2>2. Cardinality(Upto(keys, i)) = r
    BY <1>7
  <2> HIDE DEF r
  <2>3. c \in 1..n /\ Cardinality(Upto(keys, c)) = r
    BY <2>2
  <2> HIDE DEF c
  <2>4. c = i
    BY <1>7, <1>8, <2>2, <2>3 DEF r
  <2> QED
    BY <2>1, <2>4 DEF r
<1>10. DOMAIN S = 1..n
  BY <1>1 DEF Sorted
<1>11. S \in [1..n -> {leaves[i] : i \in 1..n}]
  <2>1. \A r \in 1..n : S[r] \in {leaves[i] : i \in 1..n}
    BY <1>8, <1>9
  <2>2. S = [r \in 1..n |-> S[r]]
    BY <1>1 DEF Sorted
  <2> HIDE DEF S
  <2> QED
    BY <2>1, <2>2
<1> HIDE DEF S
<1>12. S \in Seq({leaves[i] : i \in 1..n}) /\ Len(S) = n
  <2> DEFINE T == {leaves[i] : i \in 1..n}
  <2> HIDE DEF T
  <2>1. S \in [1..n -> T]
    BY <1>11 DEF T
  <2>2. S \in Seq(T)
    BY <1>1, <2>1, SeqDef
  <2>3. Len(S) = n
    BY <1>1, <1>10, <2>2, LenProperties
  <2> QED
    BY <2>2, <2>3 DEF T
<1> QED
  BY <1>1, <1>6, <1>8, <1>9, <1>10, <1>12 DEF n, K, S, Place

\* A leaf is found where the rank of its key says.
LEMMA LeafAtPlace ==
  ASSUME NEW leaves, NEW keys, LeafList(leaves, keys), NEW i \in 1..Len(leaves)
  PROVE  Place(keys, i) \in 1..Len(leaves) /\ Sorted(leaves, keys)[Place(keys, i)] = leaves[i]
BY Zenon, SortedByRank

\* Each leaf of a is one of b, under the same key.
KeyedIn(a, ka, b, kb) ==
  \A i \in 1..Len(a) : \E j \in 1..Len(b) : a[i] = b[j] /\ ka[i] = kb[j]

\* The same leaves under the same keys have one order.
LEMMA SameSorted ==
  ASSUME NEW a, NEW ka, LeafList(a, ka), NEW b, NEW kb, LeafList(b, kb),
         KeyedIn(a, ka, b, kb), KeyedIn(b, kb, a, ka)
  PROVE  Len(a) = Len(b) /\ Sorted(a, ka) = Sorted(b, kb)
<1>1. Len(ka) = Len(a) /\ Len(kb) = Len(b)
  BY DEF LeafList
<1>2. KeysOf(ka) = KeysOf(kb)
  <2>1. KeysOf(ka) \subseteq KeysOf(kb)
    BY <1>1 DEF KeysOf, KeyedIn
  <2>2. KeysOf(kb) \subseteq KeysOf(ka)
    BY <1>1 DEF KeysOf, KeyedIn
  <2> QED
    BY <2>1, <2>2
<1>3. Len(a) = Len(b) /\ Len(a) \in Nat
  BY <1>2, SortedByRank
<1>0. /\ \A i \in 1..Len(a) : Sorted(a, ka)[Place(ka, i)] = a[i]
      /\ \A j \in 1..Len(b) : Sorted(b, kb)[Place(kb, j)] = b[j]
  BY LeafAtPlace
<1> DEFINE s == Sorted(a, ka)
           t == Sorted(b, kb)
<1>4. DOMAIN s = 1..Len(a) /\ DOMAIN t = 1..Len(a)
  BY <1>3, SortedByRank
<1>5. ASSUME NEW r \in 1..Len(a) PROVE s[r] = t[r]
  <2>1. PICK i \in 1..Len(a) : Place(ka, i) = r
    BY SortedByRank
  <2>2. PICK j \in 1..Len(b) : a[i] = b[j] /\ ka[i] = kb[j]
    BY DEF KeyedIn
  <2>3. s[Place(ka, i)] = a[i]
    BY <1>0
  <2>4. Place(kb, j) = r
    BY <1>2, <2>1, <2>2 DEF Place
  <2>5. t[Place(kb, j)] = b[j]
    BY <1>0
  <2> QED
    BY <2>1, <2>2, <2>3, <2>4, <2>5
<1>6. s = [r \in 1..Len(ka) |-> s[r]] /\ t = [r \in 1..Len(kb) |-> t[r]]
  BY DEF Sorted
<1> HIDE DEF s, t
<1>7. s = t
  BY <1>1, <1>3, <1>5, <1>6
<1> QED
  BY <1>3, <1>7 DEF s, t

\* The leaves in order, and their root.
LEMMA SortedLeaves ==
  ASSUME NEW a, NEW ka, LeafList(a, ka), NEW s, s = Sorted(a, ka)
  PROVE  /\ Len(a) \in Nat /\ Len(s) = Len(a)
         /\ \A r \in 1..Len(a) : \E i \in 1..Len(a) : s[r] = a[i]
         /\ \A i \in 1..Len(a) : \E r \in 1..Len(a) : s[r] = a[i]
         /\ \A q, r \in 1..Len(a) : s[q] = s[r] => q = r
         /\ RootOf(a, ka) = IF Len(a) = 0 THEN EmptyTree ELSE MerkleRoot(s)
         /\ Len(a) # 0 => ~IsNode(s[1]) /\ MerkleRoot(s) # EmptyTree
<1>1. /\ Len(a) \in Nat /\ Len(s) = Len(a)
      /\ \A r \in 1..Len(a) : \E i \in 1..Len(a) : Place(ka, i) = r
      /\ \A i \in 1..Len(a) : Place(ka, i) \in 1..Len(a) /\ s[Place(ka, i)] = a[i]
  <2>1. Len(a) \in Nat /\ Len(s) = Len(a)
    BY SortedByRank
  <2>2. \A r \in 1..Len(a) : \E i \in 1..Len(a) : Place(ka, i) = r
    BY SortedByRank
  <2>3. \A i \in 1..Len(a) : Place(ka, i) \in 1..Len(a) /\ Sorted(a, ka)[Place(ka, i)] = a[i]
    BY Zenon, SortedByRank
  <2> QED
    BY <2>1, <2>2, <2>3
<1>2. \A i, j \in 1..Len(a) : a[i] = a[j] => i = j
  BY DEF LeafList
<1>3. \A r \in 1..Len(a) : \E i \in 1..Len(a) : s[r] = a[i]
  <2> SUFFICES ASSUME NEW r \in 1..Len(a) PROVE \E i \in 1..Len(a) : s[r] = a[i]
    OBVIOUS
  <2>1. PICK i \in 1..Len(a) : Place(ka, i) = r
    BY <1>1
  <2> QED
    BY <1>1, <2>1
<1>4. \A i \in 1..Len(a) : \E r \in 1..Len(a) : s[r] = a[i]
  BY <1>1
<1>5. ASSUME NEW q \in 1..Len(a), NEW r \in 1..Len(a), s[q] = s[r]
      PROVE  q = r
  <2>1. PICK i \in 1..Len(a) : Place(ka, i) = q
    BY <1>1
  <2>2. PICK j \in 1..Len(a) : Place(ka, j) = r
    BY <1>1
  <2>3. a[i] = a[j]
    BY <1>1, <1>5, <2>1, <2>2
  <2> QED
    BY <1>2, <2>1, <2>2, <2>3
<1>6. a = <<>> <=> Len(a) = 0
  BY EmptySeq DEF LeafList
<1>7. RootOf(a, ka) = IF Len(a) = 0 THEN EmptyTree ELSE MerkleRoot(s)
  BY <1>6 DEF RootOf
<1>8. ASSUME Len(a) # 0
      PROVE  ~IsNode(s[1]) /\ MerkleRoot(s) # EmptyTree
  <2>1. 1 \in 1..Len(a)
    BY <1>1, <1>8
  <2>2. PICK i \in 1..Len(a) : s[1] = a[i]
    BY <1>3, <2>1
  <2>3. ~IsNode(a[i]) /\ a[i] # EmptyTree
    BY DEF LeafList
  <2>4. MerkleRoot(s) = s[1] \/ IsNode(MerkleRoot(s))
    BY <1>1, <1>8, RootIsLeafOrNode
  <2>5. ~IsNode(EmptyTree)
    BY DEF IsNode, EmptyTree
  <2> QED
    BY <2>2, <2>3, <2>4, <2>5
<1> QED
  BY <1>1, <1>3, <1>4, <1>5, <1>7, <1>8

\* Lists that have one root have the same leaves: the longer of two twins would
\* have a leaf twice.
LEMMA SameRoots ==
  ASSUME NEW a, NEW ka, LeafList(a, ka), NEW b, NEW kb, LeafList(b, kb),
         RootOf(a, ka) = RootOf(b, kb)
  PROVE  /\ \A i \in 1..Len(a) : \E j \in 1..Len(b) : a[i] = b[j]
         /\ \A j \in 1..Len(b) : \E i \in 1..Len(a) : a[i] = b[j]
<1> DEFINE s == Sorted(a, ka)
           t == Sorted(b, kb)
<1>1. /\ Len(a) \in Nat /\ Len(s) = Len(a)
      /\ \A r \in 1..Len(a) : \E i \in 1..Len(a) : s[r] = a[i]
      /\ \A i \in 1..Len(a) : \E r \in 1..Len(a) : s[r] = a[i]
      /\ \A q, r \in 1..Len(a) : s[q] = s[r] => q = r
      /\ RootOf(a, ka) = IF Len(a) = 0 THEN EmptyTree ELSE MerkleRoot(s)
      /\ Len(a) # 0 => ~IsNode(s[1]) /\ MerkleRoot(s) # EmptyTree
  BY SortedLeaves
<1>2. /\ Len(b) \in Nat /\ Len(t) = Len(b)
      /\ \A r \in 1..Len(b) : \E i \in 1..Len(b) : t[r] = b[i]
      /\ \A i \in 1..Len(b) : \E r \in 1..Len(b) : t[r] = b[i]
      /\ \A q, r \in 1..Len(b) : t[q] = t[r] => q = r
      /\ RootOf(b, kb) = IF Len(b) = 0 THEN EmptyTree ELSE MerkleRoot(t)
      /\ Len(b) # 0 => ~IsNode(t[1]) /\ MerkleRoot(t) # EmptyTree
  BY SortedLeaves
<1>0. /\ Len(a) \in Nat /\ Len(s) = Len(a)
      /\ Len(b) \in Nat /\ Len(t) = Len(b)
  BY <1>1, <1>2
<1> HIDE DEF s, t
<1>3. Len(a) = 0 <=> Len(b) = 0
  BY <1>1, <1>2
<1>4. CASE Len(a) = 0
  BY <1>3, <1>4
<1>5. CASE Len(a) # 0
  <2>1. Twins(s, t)
    BY <1>1, <1>2, <1>3, <1>5, EqualRoots
  <2>2. \A i \in 1..Len(a) : i <= Len(b) => s[i] = t[i]
    BY <1>0, <2>1 DEF Twins
  <2>3. ~(Len(a) < Len(b))
    <3> SUFFICES ASSUME Len(a) < Len(b) PROVE FALSE
      OBVIOUS
    <3>1. PICK j \in 1..Len(a) : t[Len(b)] = s[j]
      BY <1>0, <2>1 DEF Twins, EndsWithin
    <3>2. j \in 1..Len(b) /\ Len(b) \in 1..Len(b) /\ j # Len(b) /\ j <= Len(b)
      BY <1>0
    <3>3. t[j] = t[Len(b)]
      BY <2>2, <3>1, <3>2
    <3> QED
      BY <1>2, <3>2, <3>3
  <2>4. ~(Len(b) < Len(a))
    <3> SUFFICES ASSUME Len(b) < Len(a) PROVE FALSE
      OBVIOUS
    <3>1. PICK j \in 1..Len(b) : s[Len(a)] = t[j]
      BY <1>0, <2>1 DEF Twins, EndsWithin
    <3>2. j \in 1..Len(a) /\ Len(a) \in 1..Len(a) /\ j # Len(a) /\ j <= Len(b)
      BY <1>0
    <3>3. s[j] = s[Len(a)]
      BY <2>2, <3>1, <3>2
    <3> QED
      BY <1>1, <3>2, <3>3
  <2>5. Len(a) = Len(b)
    BY <1>0, <2>3, <2>4
  <2>6. \A i \in 1..Len(a) : s[i] = t[i]
    BY <1>0, <2>2, <2>5
  <2>7. ASSUME NEW i \in 1..Len(a) PROVE \E j \in 1..Len(b) : a[i] = b[j]
    BY <1>1, <1>2, <2>5, <2>6
  <2>8. ASSUME NEW j \in 1..Len(b) PROVE \E i \in 1..Len(a) : a[i] = b[j]
    BY <1>1, <1>2, <2>5, <2>6
  <2> QED
    BY <2>7, <2>8
<1> QED
  BY <1>4, <1>5

\* A list that Checks accepts has leaves of their own keys.
LEMMA UtxoLeaves ==
  ASSUME NEW us \in Seq(Utxos), NoDuplicates(NullifiersOf(us))
  PROVE  /\ LeafList(us, NullifiersOf(us))
         /\ \A i \in 1..Len(us) : NullifiersOf(us)[i] = us[i].nullifier
<1> DEFINE ks == NullifiersOf(us)
<1>1. Len(us) \in Nat /\ \A i \in 1..Len(us) : us[i] \in Utxos
  BY LenProperties, ElementOfSeq
<1>2. \A i \in 1..Len(us) : ks[i] = us[i].nullifier
  BY DEF NullifiersOf
<1>3. Len(ks) = Len(us)
  BY <1>1 DEF NullifiersOf
<1>4. \A i, j \in 1..Len(us) : ks[i] = ks[j] => i = j
  BY <1>3 DEF NoDuplicates
<1> HIDE DEF ks
<1>5. \A i, j \in 1..Len(us) : us[i] = us[j] => i = j
  BY <1>2, <1>4
<1>6. ASSUME NEW i \in 1..Len(us)
      PROVE  ks[i] \in Nat /\ ~IsNode(us[i]) /\ us[i] # EmptyTree
  <2>1. ks[i] \in Nat
    BY <1>1, <1>2, StateRootAssumption
  <2>2. "nullifier" \in DOMAIN us[i]
    BY <1>1, StateRootAssumption
  <2>3. ~IsNode(us[i])
    BY <2>2 DEF IsNode
  <2>4. DOMAIN EmptyTree = {"empty"}
    BY DEF EmptyTree
  <2> QED
    BY <2>1, <2>2, <2>3, <2>4
<1>7. us \in Seq({us[i] : i \in 1..Len(us)})
  <2> DEFINE T == {us[i] : i \in 1..Len(us)}
  <2>1. us = [i \in 1..Len(us) |-> us[i]]
    BY LenProperties
  <2>2. us \in [1..Len(us) -> T]
    BY <2>1
  <2> HIDE DEF T
  <2> QED
    BY <1>1, <2>2, SeqDef DEF T
<1> QED
  BY <1>2, <1>3, <1>4, <1>5, <1>6, <1>7 DEF LeafList, ks

\* A spent nullifier's leaf names the nullifier.
LEMMA SpentLeaf ==
  ASSUME NEW n
  PROVE  [spent |-> n].spent = n /\ DOMAIN [spent |-> n] = {"spent"}
OBVIOUS

\* Spent nullifiers are leaves under distinct keys.
LEMMA NullifierLeaves ==
  ASSUME NEW ns \in Seq(Nullifiers), NoDuplicates(ns)
  PROVE  /\ LeafList(SpentLeaves(ns), ns) /\ Len(SpentLeaves(ns)) = Len(ns)
         /\ \A i \in 1..Len(ns) : SpentLeaves(ns)[i] = [spent |-> ns[i]]
<1> DEFINE ls == SpentLeaves(ns)
<1>1. Len(ns) \in Nat /\ \A i \in 1..Len(ns) : ns[i] \in Nat
  BY LenProperties, ElementOfSeq, StateRootAssumption
<1>2. \A i \in 1..Len(ns) : ls[i] = [spent |-> ns[i]]
  BY DEF SpentLeaves
<1>3. Len(ls) = Len(ns) /\ ls = [i \in 1..Len(ns) |-> ls[i]]
  BY <1>1 DEF SpentLeaves
<1>4. \A i, j \in 1..Len(ns) : ns[i] = ns[j] => i = j
  BY DEF NoDuplicates
<1> HIDE DEF ls
<1>5. ASSUME NEW i \in 1..Len(ns), NEW j \in 1..Len(ns), ls[i] = ls[j]
      PROVE  i = j
  <2>1. ls[i].spent = ns[i] /\ ls[j].spent = ns[j]
    BY Zenon, <1>2, SpentLeaf
  <2> QED
    BY <1>4, <1>5, <2>1
<1>6. ASSUME NEW i \in 1..Len(ns)
      PROVE  ~IsNode(ls[i]) /\ ls[i] # EmptyTree
  <2>1. DOMAIN ls[i] = {"spent"}
    BY Zenon, <1>2, SpentLeaf
  <2>2. DOMAIN EmptyTree = {"empty"}
    BY DEF EmptyTree
  <2> QED
    BY <2>1, <2>2 DEF IsNode
<1>7. ls \in Seq({ls[i] : i \in 1..Len(ls)})
  <2> DEFINE T == {ls[i] : i \in 1..Len(ls)}
  <2>1. ls \in [1..Len(ns) -> T]
    BY <1>3
  <2> HIDE DEF T
  <2> QED
    BY <1>1, <2>1, SeqDef DEF T
<1> QED
  BY <1>1, <1>2, <1>3, <1>4, <1>5, <1>6, <1>7 DEF LeafList, ls

\* The amounts of the same UTXOs have the same sum.
LEMMA SameSum ==
  ASSUME NEW a \in Seq(Utxos), NEW b \in Seq(Utxos)
  PROVE  (/\ \A i, j \in 1..Len(a) : a[i] = a[j] => i = j
          /\ \A i, j \in 1..Len(b) : b[i] = b[j] => i = j
          /\ \A i \in 1..Len(a) : \E j \in 1..Len(b) : a[i] = b[j]
          /\ \A j \in 1..Len(b) : \E i \in 1..Len(a) : a[i] = b[j])
         => SumOf(a) = SumOf(b)
<1>0. SUFFICES ASSUME /\ \A i, j \in 1..Len(a) : a[i] = a[j] => i = j
                      /\ \A i, j \in 1..Len(b) : b[i] = b[j] => i = j
                      /\ \A i \in 1..Len(a) : \E j \in 1..Len(b) : a[i] = b[j]
                      /\ \A j \in 1..Len(b) : \E i \in 1..Len(a) : a[i] = b[j]
               PROVE  SumOf(a) = SumOf(b)
  OBVIOUS
<1> DEFINE v == [i \in 1..Len(a) |-> a[i].amount]
           w == [i \in 1..Len(b) |-> b[i].amount]
           pos == [i \in 1..Len(a) |-> CHOOSE j \in 1..Len(b) : a[i] = b[j]]
<1>1. /\ Len(a) \in Nat /\ \A i \in 1..Len(a) : a[i] \in Utxos
      /\ Len(b) \in Nat /\ \A i \in 1..Len(b) : b[i] \in Utxos
  BY LenProperties, ElementOfSeq
<1>2. \A u \in Utxos : u.amount \in Nat
  BY StateRootAssumption
<1>3. \A i \in 1..Len(a) : pos[i] \in 1..Len(b) /\ a[i] = b[pos[i]]
  <2> SUFFICES ASSUME NEW i \in 1..Len(a) PROVE pos[i] \in 1..Len(b) /\ a[i] = b[pos[i]]
    OBVIOUS
  <2> DEFINE c == CHOOSE j \in 1..Len(b) : a[i] = b[j]
  <2>1. pos[i] = c
    OBVIOUS
  <2>2. c \in 1..Len(b) /\ a[i] = b[c]
    BY <1>0
  <2> QED
    BY <2>1, <2>2
<1>4. pos \in [1..Len(a) -> 1..Len(b)]
  BY <1>3
<1> HIDE DEF pos
<1>5. ASSUME NEW j \in 1..Len(b) PROVE \E i \in 1..Len(a) : pos[i] = j
  <2>1. PICK i \in 1..Len(a) : a[i] = b[j]
    BY <1>0
  <2>2. pos[i] \in 1..Len(b) /\ b[pos[i]] = b[j]
    BY <1>3, <2>1
  <2> QED
    BY <1>0, <2>2
<1>6. ASSUME NEW i \in 1..Len(a), NEW j \in 1..Len(a), pos[i] = pos[j] PROVE i = j
  <2>1. a[i] = a[j]
    BY <1>3, <1>6
  <2> QED
    BY <1>0, <2>1
<1>7. /\ \A i \in 1..Len(a) : v[i] \in Nat /\ v[i] = w[pos[i]]
      /\ \A i \in 1..Len(b) : w[i] \in Nat
  BY <1>1, <1>2, <1>3
<1> HIDE DEF v, w
<1>8. IsFiniteSet(1..Len(a))
  <2>1. 1 \in Int /\ Len(a) \in Int
    BY <1>1
  <2> QED
    BY <2>1, FS_Interval
<1>9. Weight(1..Len(a), v) = Weight(1..Len(b), w)
  <2> DEFINE A == 1..Len(a)
             B == 1..Len(b)
  <2>1. pos \in [A -> B] /\ IsFiniteSet(A)
    BY <1>4, <1>8
  <2>2. \A j \in B : \E i \in A : pos[i] = j
    BY <1>5
  <2>3. \A i, j \in A : pos[i] = pos[j] => i = j
    BY <1>6
  <2>4. \A i \in A : v[i] \in Nat /\ v[i] = w[pos[i]]
    BY <1>7
  <2> HIDE DEF A, B
  <2>5. Weight(A, v) = Weight(B, w)
    BY <2>1, <2>2, <2>3, <2>4, WeightBijection
  <2> QED
    BY <2>5 DEF A, B
<1>10. SumTo(v, Len(a)) = SumTo(w, Len(b))
  BY <1>1, <1>7, <1>9, SumIsWeight
<1> QED
  BY <1>10 DEF SumOf, v, w

\* Sets of elements, by position.
LEMMA SameElements ==
  ASSUME NEW T, NEW a \in Seq(T), NEW b \in Seq(T)
  PROVE  ToSet(a) = ToSet(b)
         <=> /\ \A i \in 1..Len(a) : \E j \in 1..Len(b) : a[i] = b[j]
             /\ \A j \in 1..Len(b) : \E i \in 1..Len(a) : a[i] = b[j]
<1>1. DOMAIN a = 1..Len(a) /\ DOMAIN b = 1..Len(b)
  BY LenProperties
<1>2. /\ \A x : x \in ToSet(a) <=> \E i \in 1..Len(a) : x = a[i]
      /\ \A x : x \in ToSet(b) <=> \E j \in 1..Len(b) : x = b[j]
  BY <1>1 DEF ToSet
<1>3. ToSet(a) = ToSet(b) <=> \A x : x \in ToSet(a) <=> x \in ToSet(b)
  OBVIOUS
<1>4. ASSUME ToSet(a) = ToSet(b)
      PROVE  /\ \A i \in 1..Len(a) : \E j \in 1..Len(b) : a[i] = b[j]
             /\ \A j \in 1..Len(b) : \E i \in 1..Len(a) : a[i] = b[j]
  BY <1>2, <1>4
<1>5. ASSUME \A i \in 1..Len(a) : \E j \in 1..Len(b) : a[i] = b[j],
             \A j \in 1..Len(b) : \E i \in 1..Len(a) : a[i] = b[j]
      PROVE  ToSet(a) = ToSet(b)
  BY <1>2, <1>3, <1>5, ZenonT(60)
<1> QED
  BY <1>4, <1>5

\* UTXO lists have one root if and only if they hold the same.
LEMMA UtxoRoots ==
  ASSUME NEW us \in Seq(Utxos), NoDuplicates(NullifiersOf(us)),
         NEW vs \in Seq(Utxos), NoDuplicates(NullifiersOf(vs))
  PROVE  RootOf(us, NullifiersOf(us)) = RootOf(vs, NullifiersOf(vs)) <=> ToSet(us) = ToSet(vs)
<1> DEFINE ks == NullifiersOf(us)
           ls == NullifiersOf(vs)
<1>1. /\ LeafList(us, ks) /\ LeafList(vs, ls)
      /\ \A i \in 1..Len(us) : ks[i] = us[i].nullifier
      /\ \A j \in 1..Len(vs) : ls[j] = vs[j].nullifier
  BY UtxoLeaves
<1> HIDE DEF ks, ls
<1>2. ASSUME RootOf(us, ks) = RootOf(vs, ls) PROVE ToSet(us) = ToSet(vs)
  <2>1. /\ \A i \in 1..Len(us) : \E j \in 1..Len(vs) : us[i] = vs[j]
        /\ \A j \in 1..Len(vs) : \E i \in 1..Len(us) : us[i] = vs[j]
    BY <1>1, <1>2, SameRoots
  <2> QED
    BY <2>1, SameElements
<1>3. ASSUME ToSet(us) = ToSet(vs) PROVE RootOf(us, ks) = RootOf(vs, ls)
  <2>1. /\ \A i \in 1..Len(us) : \E j \in 1..Len(vs) : us[i] = vs[j]
        /\ \A j \in 1..Len(vs) : \E i \in 1..Len(us) : us[i] = vs[j]
    BY <1>3, SameElements
  <2>2. \A i \in 1..Len(us), j \in 1..Len(vs) : us[i] = vs[j] => ks[i] = ls[j]
    BY <1>1
  <2>3. KeyedIn(us, ks, vs, ls) /\ KeyedIn(vs, ls, us, ks)
    BY <2>1, <2>2 DEF KeyedIn
  <2>4. Len(us) = Len(vs) /\ Sorted(us, ks) = Sorted(vs, ls)
    BY <1>1, <2>3, SameSorted
  <2> QED
    BY <2>4, EmptySeq DEF RootOf
<1> QED
  BY <1>2, <1>3 DEF ks, ls

\* Lists of spent nullifiers have one root if and only if they hold the same.
LEMMA NullifierRoots ==
  ASSUME NEW ns \in Seq(Nullifiers), NoDuplicates(ns),
         NEW ms \in Seq(Nullifiers), NoDuplicates(ms)
  PROVE  RootOf(SpentLeaves(ns), ns) = RootOf(SpentLeaves(ms), ms) <=> ToSet(ns) = ToSet(ms)
<1> DEFINE ks == SpentLeaves(ns)
           ls == SpentLeaves(ms)
<1>1. /\ LeafList(ks, ns) /\ LeafList(ls, ms) /\ Len(ks) = Len(ns) /\ Len(ls) = Len(ms)
      /\ \A i \in 1..Len(ns) : ks[i] = [spent |-> ns[i]]
      /\ \A j \in 1..Len(ms) : ls[j] = [spent |-> ms[j]]
  BY NullifierLeaves
<1> HIDE DEF ks, ls
<1>2. \A i \in 1..Len(ns), j \in 1..Len(ms) : ks[i] = ls[j] <=> ns[i] = ms[j]
  <2> SUFFICES ASSUME NEW i \in 1..Len(ns), NEW j \in 1..Len(ms)
               PROVE  ks[i] = ls[j] <=> ns[i] = ms[j]
    OBVIOUS
  <2>1. ks[i] = [spent |-> ns[i]] /\ ls[j] = [spent |-> ms[j]]
    BY <1>1
  <2>2. ks[i].spent = ns[i] /\ ls[j].spent = ms[j]
    BY Zenon, <2>1, SpentLeaf
  <2> QED
    BY Zenon, <2>1, <2>2
<1>3. ASSUME RootOf(ks, ns) = RootOf(ls, ms) PROVE ToSet(ns) = ToSet(ms)
  <2>1. /\ \A i \in 1..Len(ns) : \E j \in 1..Len(ms) : ks[i] = ls[j]
        /\ \A j \in 1..Len(ms) : \E i \in 1..Len(ns) : ks[i] = ls[j]
    BY <1>1, <1>3, SameRoots
  <2>2. /\ \A i \in 1..Len(ns) : \E j \in 1..Len(ms) : ns[i] = ms[j]
        /\ \A j \in 1..Len(ms) : \E i \in 1..Len(ns) : ns[i] = ms[j]
    BY <1>2, <2>1
  <2> QED
    BY <2>2, SameElements
<1>4. ASSUME ToSet(ns) = ToSet(ms) PROVE RootOf(ks, ns) = RootOf(ls, ms)
  <2>1. /\ \A i \in 1..Len(ns) : \E j \in 1..Len(ms) : ns[i] = ms[j]
        /\ \A j \in 1..Len(ms) : \E i \in 1..Len(ns) : ns[i] = ms[j]
    BY <1>4, SameElements
  <2>2. KeyedIn(ks, ns, ls, ms) /\ KeyedIn(ls, ms, ks, ns)
    BY <1>1, <1>2, <2>1 DEF KeyedIn
  <2>3. Len(ks) = Len(ls) /\ Sorted(ks, ns) = Sorted(ls, ms)
    BY <1>1, <2>2, SameSorted
  <2>4. (ks = <<>> <=> Len(ks) = 0) /\ (ls = <<>> <=> Len(ls) = 0)
    BY <1>1, EmptySeq DEF LeafList
  <2> QED
    BY <2>3, <2>4 DEF RootOf
<1> QED
  BY <1>3, <1>4 DEF ks, ls

\* Lists of the same UTXOs have the same sum.
LEMMA SameSumOfSets ==
  ASSUME NEW us \in Seq(Utxos), NoDuplicates(NullifiersOf(us)),
         NEW vs \in Seq(Utxos), NoDuplicates(NullifiersOf(vs)), ToSet(us) = ToSet(vs)
  PROVE  SumOf(us) = SumOf(vs)
<1>1. \A i, j \in 1..Len(us) : us[i] = us[j] => i = j
  BY UtxoLeaves DEF LeafList
<1>2. \A i, j \in 1..Len(vs) : vs[i] = vs[j] => i = j
  BY UtxoLeaves DEF LeafList
<1>3. /\ \A i \in 1..Len(us) : \E j \in 1..Len(vs) : us[i] = vs[j]
      /\ \A j \in 1..Len(vs) : \E i \in 1..Len(us) : us[i] = vs[j]
  BY SameElements
<1> QED
  BY <1>1, <1>2, <1>3, SameSum

\* As many elements as positions, if none comes twice.
LEMMA DistinctElements ==
  ASSUME NEW T, NEW a \in Seq(T), \A i, j \in 1..Len(a) : a[i] = a[j] => i = j
  PROVE  Cardinality(ToSet(a)) = Len(a)
<1>1. DOMAIN a = 1..Len(a) /\ Len(a) \in Nat
  BY LenProperties
<1>2. a \in [1..Len(a) -> ToSet(a)]
  <2>1. a = [i \in 1..Len(a) |-> a[i]]
    BY LenProperties
  <2>2. \A i \in 1..Len(a) : a[i] \in ToSet(a)
    BY <1>1 DEF ToSet
  <2> QED
    BY <2>1, <2>2
<1>3. \A x \in ToSet(a) : \E i \in 1..Len(a) : a[i] = x
  BY <1>1 DEF ToSet
<1>4. a \in Bijection(1..Len(a), ToSet(a))
  BY <1>1, <1>2, <1>3 DEF Bijection, Injection, Surjection, IsInjective
<1> QED
  BY <1>1, <1>4, FS_CountingElements DEF ExistsBijection

\* What the producer and the executing node pass.
RootArgs == [utxos : Seq(Utxos), spent : Seq(Nullifiers), supply : Nat]
RootInv == preview \in RootArgs /\ executed \in RootArgs

\* A sum of amounts is a natural number.
LEMMA SumOfType ==
  ASSUME NEW us \in Seq(Utxos)
  PROVE  SumOf(us) \in Nat
<1> DEFINE v == [i \in 1..Len(us) |-> us[i].amount]
<1>1. Len(us) \in Nat /\ \A i \in 1..Len(us) : us[i] \in Utxos
  BY LenProperties, ElementOfSeq
<1>2. \A u \in Utxos : u.amount \in Nat
  BY StateRootAssumption
<1>3. \A i \in 1..Len(us) : v[i] \in Nat
  BY <1>1, <1>2
<1> HIDE DEF v
<1>4. SumTo(v, Len(us)) \in Nat
  BY <1>1, <1>3, SumAgrees
<1> QED
  BY <1>4 DEF SumOf, v

\* SetToSeq lists a finite set.
LEMMA SetToSeqType ==
  ASSUME NEW T, IsFiniteSet(T), NEW S \in SUBSET T
  PROVE  SetToSeq(S) \in Seq(T)
<1>1. Cardinality(S) \in Nat /\ ExistsBijection(1..Cardinality(S), S)
  BY FS_CardinalityType, FS_Subset
<1>2. \E f \in [1..Cardinality(S) -> S] : IsInjective(f)
  BY <1>1 DEF ExistsBijection, Bijection, Injection
<1>3. SetToSeq(S) \in [1..Cardinality(S) -> S]
  BY <1>2 DEF SetToSeq
<1>4. SetToSeq(S) \in [1..Cardinality(S) -> T]
  BY <1>3
<1> QED
  BY <1>1, <1>4, SeqDef

\* The states are lists of UTXOs and of nullifiers.
LEMMA StatesType ==
  ASSUME NEW s \in States
  PROVE  s.utxos \in Seq(Utxos) /\ s.spent \in Seq(Nullifiers)
<1>1. PICK us \in SUBSET Utxos, ns \in SUBSET Nullifiers :
        s = [utxos |-> SetToSeq(us), spent |-> SetToSeq(ns)]
  BY DEF States
<1>2. SetToSeq(us) \in Seq(Utxos) /\ SetToSeq(ns) \in Seq(Nullifiers)
  BY StateRootAssumption, SetToSeqType
<1> QED
  BY <1>1, <1>2

\* Both states begin as lists of UTXOs and nullifiers.
LEMMA RootInitEstablishesInv ==
  ASSUME NEW states, \A s \in states : s.utxos \in Seq(Utxos) /\ s.spent \in Seq(Nullifiers),
         RootInit(states)
  PROVE  RootInv
<1>1. PICK s \in states : preview = [utxos |-> s.utxos, spent |-> s.spent,
                                     supply |-> SumOf(s.utxos)]
  BY DEF RootInit
<1>2. SumOf(s.utxos) \in Nat
  BY SumOfType
<1>3. preview \in RootArgs
  BY <1>1, <1>2 DEF RootArgs
<1>4. executed = [utxos |-> <<>>, spent |-> <<>>, supply |-> 0]
  BY DEF RootInit
<1>5. <<>> \in Seq(Utxos) /\ <<>> \in Seq(Nullifiers)
  BY EmptySeq
<1>6. executed \in RootArgs
  BY <1>4, <1>5 DEF RootArgs
<1> QED
  BY <1>3, <1>6 DEF RootInv

\* Creating and spending keeps them so.
LEMMA RootNextPreservesInv ==
  ASSUME RootInv, RootNext
  PROVE  RootInv'
<1>1. executed \in RootArgs /\ preview \in RootArgs
  BY DEF RootInv
<1>2. executed.utxos \in Seq(Utxos) /\ executed.spent \in Seq(Nullifiers)
  BY <1>1 DEF RootArgs
<1>3. ASSUME NEW u \in Utxos, NEW supply \in 0..U64_MAX, Create(u, supply)
      PROVE  RootInv'
  <2>1. Append(executed.utxos, u) \in Seq(Utxos)
    BY <1>2, AppendProperties
  <2>2. supply \in Nat
    BY StateRootAssumption
  <2>3. executed' = [executed EXCEPT !.utxos = Append(executed.utxos, u), !.supply = supply]
    BY <1>3 DEF Create
  <2>4. executed' \in RootArgs
    BY <1>1, <2>1, <2>2, <2>3 DEF RootArgs
  <2>5. preview' = preview
    BY <1>3 DEF Create
  <2> QED
    BY <1>1, <2>4, <2>5 DEF RootInv, RootArgs
<1>4. ASSUME NEW n \in Nullifiers, Spend(n)
      PROVE  RootInv'
  <2>1. Append(executed.spent, n) \in Seq(Nullifiers)
    BY <1>2, AppendProperties
  <2>2. executed' = [executed EXCEPT !.spent = Append(executed.spent, n)]
    BY <1>4 DEF Spend
  <2>3. executed' \in RootArgs
    BY <1>1, <2>1, <2>2 DEF RootArgs
  <2>4. preview' = preview
    BY <1>4 DEF Spend
  <2> QED
    BY <1>1, <2>3, <2>4 DEF RootInv, RootArgs
<1> QED
  BY <1>3, <1>4 DEF RootNext

\* Arguments that pass the checks have one root if and only if the lists hold
\* the same.
LEMMA RootsOfStates ==
  ASSUME NEW a \in RootArgs, Checks(a), NEW b \in RootArgs, Checks(b)
  PROVE  compute_merkle_roots(a.utxos, a.spent) = compute_merkle_roots(b.utxos, b.spent)
         <=> ToSet(a.utxos) = ToSet(b.utxos) /\ ToSet(a.spent) = ToSet(b.spent)
<1> DEFINE us == a.utxos
           vs == b.utxos
           ns == a.spent
           ms == b.spent
<1>1. /\ us \in Seq(Utxos) /\ vs \in Seq(Utxos)
      /\ ns \in Seq(Nullifiers) /\ ms \in Seq(Nullifiers)
  BY DEF RootArgs
<1>2. /\ NoDuplicates(NullifiersOf(us)) /\ NoDuplicates(NullifiersOf(vs))
      /\ NoDuplicates(ns) /\ NoDuplicates(ms)
  BY DEF Checks
<1> HIDE DEF us, vs, ns, ms
<1>3. RootOf(us, NullifiersOf(us)) = RootOf(vs, NullifiersOf(vs)) <=> ToSet(us) = ToSet(vs)
  BY <1>1, <1>2, UtxoRoots
<1>4. RootOf(SpentLeaves(ns), ns) = RootOf(SpentLeaves(ms), ms) <=> ToSet(ns) = ToSet(ms)
  BY <1>1, <1>2, NullifierRoots
<1> DEFINE A == RootOf(us, NullifiersOf(us))
           B == RootOf(vs, NullifiersOf(vs))
           C == RootOf(SpentLeaves(ns), ns)
           D == RootOf(SpentLeaves(ms), ms)
<1>5. /\ compute_merkle_roots(us, ns) = [utxo_root |-> A, nullifier_root |-> C]
      /\ compute_merkle_roots(vs, ms) = [utxo_root |-> B, nullifier_root |-> D]
  BY DEF compute_merkle_roots
<1> HIDE DEF A, B, C, D
<1>6. [utxo_root |-> A, nullifier_root |-> C] = [utxo_root |-> B, nullifier_root |-> D]
      <=> A = B /\ C = D
  OBVIOUS
<1> QED
  BY <1>3, <1>4, <1>5, <1>6 DEF A, B, C, D, us, vs, ns, ms

\* States of these types have one root if and only if they agree.
LEMMA RootInvImpliesIdentifies ==
  ASSUME RootInv
  PROVE  RootIdentifiesState
<1> DEFINE mine == compute_state_root(executed)
           theirs == compute_state_preview(preview)
           p == [total_supply |-> executed.supply,
                 roots |-> compute_merkle_roots(executed.utxos, executed.spent)]
           q == [total_supply |-> preview.supply,
                 roots |-> compute_merkle_roots(preview.utxos, preview.spent)]
<1>1. executed \in RootArgs /\ preview \in RootArgs
  BY DEF RootInv
<1>2. executed.utxos \in Seq(Utxos) /\ preview.utxos \in Seq(Utxos)
  BY <1>1 DEF RootArgs
<1>3. /\ mine = IF Checks(executed) THEN p ELSE StateError
      /\ theirs = IF Checks(preview) THEN q ELSE StateError
  BY DEF compute_state_root, compute_state_preview
<1>4. p = q <=> p.total_supply = q.total_supply /\ p.roots = q.roots
  OBVIOUS
<1>5. ASSUME Checks(executed), Checks(preview)
      PROVE  p = q <=> /\ ToSet(executed.utxos) = ToSet(preview.utxos)
                       /\ ToSet(executed.spent) = ToSet(preview.spent)
  <2>1. compute_merkle_roots(executed.utxos, executed.spent)
          = compute_merkle_roots(preview.utxos, preview.spent)
        <=> /\ ToSet(executed.utxos) = ToSet(preview.utxos)
            /\ ToSet(executed.spent) = ToSet(preview.spent)
    BY <1>1, <1>5, RootsOfStates
  <2>2. /\ executed.supply = SumOf(executed.utxos) /\ preview.supply = SumOf(preview.utxos)
        /\ NoDuplicates(NullifiersOf(executed.utxos)) /\ NoDuplicates(NullifiersOf(preview.utxos))
    BY <1>5 DEF Checks
  <2>3. ToSet(executed.utxos) = ToSet(preview.utxos) => executed.supply = preview.supply
    BY <1>2, <2>2, SameSumOfSets
  <2> QED
    BY <1>4, <2>1, <2>3
<1>6. ASSUME Checks(executed)
      PROVE  /\ executed.supply = SumOf(executed.utxos)
             /\ Cardinality(ToSet(executed.utxos)) = Len(executed.utxos)
  <2>1. executed.supply = SumOf(executed.utxos) /\ NoDuplicates(NullifiersOf(executed.utxos))
    BY <1>6 DEF Checks
  <2>2. \A i, j \in 1..Len(executed.utxos) : executed.utxos[i] = executed.utxos[j] => i = j
    BY <1>2, <2>1, UtxoLeaves DEF LeafList
  <2> QED
    BY <1>2, <2>1, <2>2, DistinctElements
<1> HIDE DEF p, q
<1> QED
  BY <1>3, <1>5, <1>6 DEF RootIdentifiesState
-----------------------------------------------------------------------------
(**************************** Zero-copy decoder ****************************)

\* How many elements the first k lists have.
Lengths(ss) == [i \in 1..Len(ss) |-> Len(ss[i])]
Offset(ss, k) == SumTo(Lengths(ss), k)

\* An offset grows by the length of the list it passes.
LEMMA OffsetFacts ==
  ASSUME NEW ss, Len(ss) \in Nat, \A i \in 1..Len(ss) : Len(ss[i]) \in Nat
  PROVE  /\ Offset(ss, 0) = 0
         /\ \A k \in 0..Len(ss) : Offset(ss, k) \in Nat
         /\ \A k \in 1..Len(ss) : Offset(ss, k) = Offset(ss, k - 1) + Len(ss[k])
<1> DEFINE f == Lengths(ss)
           n == Len(ss)
<1>1. \A i \in 1..n : f[i] \in Nat /\ f[i] = Len(ss[i])
  BY DEF Lengths
<1> HIDE DEF f
<1>2. ASSUME NEW k \in 0..n
      PROVE  /\ SumTo(f, 0) = 0 /\ SumTo(f, k) \in Nat
             /\ k > 0 => SumTo(f, k) = SumTo(f, k - 1) + f[k]
  <2>1. k \in Nat /\ \A i \in 1..k : f[i] \in Nat /\ f[i] = f[i]
    BY <1>1
  <2>2. SumTo(f, k) \in Nat
    BY <2>1, SumAgrees
  <2>3. k \in Nat /\ \A i \in 1..k : f[i] \in Int
    BY <2>1
  <2>4. SumTo(f, 0) = 0 /\ (k > 0 => SumTo(f, k) = SumTo(f, k - 1) + f[k])
    BY <2>3, SumUnfolds
  <2> QED
    BY <2>2, <2>4
<1>3. 0 \in 0..n /\ \A k \in 1..n : k \in 0..n /\ k > 0
  OBVIOUS
<1> QED
  BY <1>1, <1>2, <1>3 DEF Offset, f

\* The recurrence behind FlattenSeq has a solution.
IsFlat(flat, ss, n) ==
  flat = [i \in 1..n |-> IF i = 1 THEN ss[i] ELSE flat[i - 1] \o ss[i]]

\* A solution for k lists extends to one for k + 1.
LEMMA FlatExists ==
  ASSUME NEW ss, NEW n \in Nat
  PROVE  \E flat : IsFlat(flat, ss, n)
<1> DEFINE Sizes == {k \in Nat : \E flat : IsFlat(flat, ss, k)}
<1>1. 0 \in Sizes
  <2> DEFINE s == [i \in 1..0 |-> 0]
  <2>1. IsFlat(s, ss, 0)
    BY DEF IsFlat
  <2> QED
    BY <2>1
<1>2. ASSUME NEW k \in Nat, k \in Sizes
      PROVE  k + 1 \in Sizes
  <2>1. PICK s : IsFlat(s, ss, k)
    BY <1>2
  <2> DEFINE t == [i \in 1..(k + 1) |-> IF i <= k THEN s[i]
                                        ELSE IF i = 1 THEN ss[i] ELSE s[k] \o ss[k + 1]]
  <2>2. \A i \in 1..k : s[i] = IF i = 1 THEN ss[i] ELSE s[i - 1] \o ss[i]
    BY <2>1 DEF IsFlat
  <2>3. \A i \in 1..(k + 1) : t[i] = IF i = 1 THEN ss[i] ELSE t[i - 1] \o ss[i]
    <3> SUFFICES ASSUME NEW i \in 1..(k + 1)
                 PROVE  t[i] = IF i = 1 THEN ss[i] ELSE t[i - 1] \o ss[i]
      OBVIOUS
    <3>1. CASE i <= k
      <4>1. t[i] = s[i] /\ i \in 1..k /\ (i # 1 => t[i - 1] = s[i - 1])
        BY <3>1
      <4> QED
        BY <2>2, <4>1
    <3>2. CASE i = k + 1
      <4>1. t[i] = (IF i = 1 THEN ss[i] ELSE s[k] \o ss[k + 1]) /\ (i # 1 => t[k] = s[k])
        BY <3>2
      <4>2. i - 1 = k
        BY <3>2
      <4> HIDE DEF t
      <4> QED
        BY <3>2, <4>1, <4>2
    <3> QED
      BY <3>1, <3>2
  <2>4. t = [i \in 1..(k + 1) |-> t[i]]
    OBVIOUS
  <2> HIDE DEF t
  <2>5. IsFlat(t, ss, k + 1)
    BY <2>3, <2>4 DEF IsFlat
  <2>6. k + 1 \in Nat
    OBVIOUS
  <2> QED
    BY <2>5, <2>6
<1> HIDE DEF Sizes
<1>3. Nat \subseteq Sizes
  BY <1>1, <1>2, SetInduction
<1> QED
  BY <1>3 DEF Sizes

\* FlattenSeq puts the lists one behind the other.
LEMMA FlattenFacts ==
  ASSUME NEW T, NEW ss \in Seq(Seq(T))
  PROVE  /\ FlattenSeq(ss) \in Seq(T)
         /\ Len(FlattenSeq(ss)) = Offset(ss, Len(ss))
         /\ \A i \in 1..Len(ss) : Offset(ss, i) <= Len(FlattenSeq(ss))
         /\ \A i \in 1..Len(ss) : \A j \in 1..Len(ss[i]) :
              FlattenSeq(ss)[Offset(ss, i - 1) + j] = ss[i][j]
<1> DEFINE n == Len(ss)
           O(k) == Offset(ss, k)
<1>1. n \in Nat /\ \A i \in 1..n : ss[i] \in Seq(T)
  BY LenProperties, ElementOfSeq
<1>2. \A i \in 1..n : Len(ss[i]) \in Nat
  BY <1>1, LenProperties
<1>3. /\ O(0) = 0
      /\ \A k \in 0..n : O(k) \in Nat
      /\ \A k \in 1..n : O(k) = O(k - 1) + Len(ss[k])
  BY <1>1, <1>2, OffsetFacts
<1>4. CASE n = 0
  <2>1. ss = <<>> /\ FlattenSeq(ss) = ss
    BY <1>4, EmptySeq DEF FlattenSeq
  <2>2. FlattenSeq(ss) \in Seq(T) /\ Len(FlattenSeq(ss)) = 0
    BY <2>1, EmptySeq
  <2>3. 1..n = {}
    BY <1>4
  <2> HIDE DEF n
  <2> QED
    BY <1>3, <1>4, <2>2, <2>3 DEF n
<1>5. CASE n # 0
  <2> DEFINE flat == CHOOSE f : IsFlat(f, ss, n)
  <2>1. IsFlat(flat, ss, n)
    BY <1>1, FlatExists
  <2>2. FlattenSeq(ss) = flat[n]
    BY <1>5 DEF FlattenSeq, IsFlat
  <2> HIDE DEF flat, O
  <2> DEFINE Good(k) == /\ flat[k] \in Seq(T) /\ Len(flat[k]) = O(k)
                        /\ \A i \in 1..k : O(i) <= O(k)
                        /\ \A i \in 1..k : \A j \in 1..Len(ss[i]) : flat[k][O(i - 1) + j] = ss[i][j]
             Sizes == {k \in Nat : k + 1 <= n => Good(k + 1)}
  <2>3. \A i \in 1..n : flat[i] = IF i = 1 THEN ss[i] ELSE flat[i - 1] \o ss[i]
    BY <2>1 DEF IsFlat
  <2>4. 0 \in Sizes
    <3>1. 1 \in 1..n /\ 0 + 1 = 1 /\ 1 - 1 = 0
      BY <1>1, <1>5
    <3>2. flat[1] = ss[1]
      BY <2>3, <3>1
    <3>3. ss[1] \in Seq(T) /\ Len(ss[1]) \in Nat /\ O(1) = O(1 - 1) + Len(ss[1])
      BY <1>1, <1>2, <1>3, <3>1
    <3>4. O(1) = Len(ss[1]) /\ O(1) \in Nat
      BY <1>3, <3>1, <3>3
    <3>5. Good(1)
      <4>1. \A i \in 1..1 : i = 1
        OBVIOUS
      <4>2. \A j \in 1..Len(ss[1]) : O(1 - 1) + j = j
        BY <1>3, <3>1, <3>3
      <4> QED
        BY <3>2, <3>3, <3>4, <4>1, <4>2
    <3> HIDE DEF Good
    <3> QED
      BY <3>1, <3>5
  <2>5. ASSUME NEW k \in Nat, k \in Sizes PROVE k + 1 \in Sizes
    <3> SUFFICES ASSUME k + 1 + 1 <= n PROVE Good(k + 1 + 1)
      OBVIOUS
    <3> DEFINE a == k + 1
               b == k + 1 + 1
    <3>1. a \in 1..n /\ b \in 1..n /\ b - 1 = a /\ b # 1 /\ a \in Nat /\ b \in Nat /\ a <= n
      BY <1>1
    <3>2. Good(a)
      BY <2>5, <3>1
    <3>3. b = a + 1
      OBVIOUS
    <3> HIDE DEF a, b
    <3>4. flat[b] = flat[a] \o ss[b]
      BY <2>3, <3>1
    <3>5. ss[b] \in Seq(T) /\ Len(ss[b]) \in Nat /\ O(b) = O(a) + Len(ss[b])
      BY <1>1, <1>2, <1>3, <3>1
    <3>6. O(a) \in Nat /\ O(b) \in Nat
      BY <1>3, <3>1
    <3>7. flat[b] \in Seq(T) /\ Len(flat[b]) = O(b)
      BY <3>2, <3>4, <3>5, ConcatProperties, ZenonT(60)
    <3>8. \A i \in 1..b : O(i) <= O(b)
      <4> SUFFICES ASSUME NEW i \in 1..b PROVE O(i) <= O(b)
        OBVIOUS
      <4>1. CASE i \in 1..a
        <5>1. O(i) <= O(a) /\ O(i) \in Nat
          BY <1>3, <3>1, <3>2, <4>1, SMTT(30)
        <5> QED
          BY <3>5, <3>6, <5>1
      <4>2. CASE i = b
        BY <3>6, <4>2
      <4> QED
        BY <3>1, <3>3, <4>1, <4>2
    <3>9. flat[a] \in Seq(T) /\ Len(flat[a]) = O(a)
      BY <3>2
    <3>10. \A m \in 1..(O(a) + Len(ss[b])) :
             flat[b][m] = IF m <= O(a) THEN flat[a][m] ELSE ss[b][m - O(a)]
      <4> DEFINE s == flat[a]
                 t == ss[b]
      <4>1. s \in Seq(T) /\ t \in Seq(T) /\ flat[b] = s \o t /\ Len(s) = O(a)
        BY <3>4, <3>5, <3>9
      <4> HIDE DEF s, t
      <4>2. \A m \in 1..(Len(s) + Len(t)) :
              (s \o t)[m] = IF m <= Len(s) THEN s[m] ELSE t[m - Len(s)]
        BY <4>1, ConcatProperties
      <4> QED
        BY <4>1, <4>2 DEF s, t
    <3>11. ASSUME NEW i \in 1..b, NEW j \in 1..Len(ss[i])
           PROVE  flat[b][O(i - 1) + j] = ss[i][j]
      <4>1. CASE i \in 1..a
        <5> i \in 1..n /\ i \in 0..n /\ i - 1 \in 0..n
          BY <3>1, <4>1
        <5>1. O(i) = O(i - 1) + Len(ss[i]) /\ O(i) \in Nat /\ O(i - 1) \in Nat /\ Len(ss[i]) \in Nat
          BY <1>2, <1>3
        <5>2. O(i) <= O(a) /\ flat[a][O(i - 1) + j] = ss[i][j]
          BY <3>2, <4>1
        <5>3. O(i - 1) + j \in 1..(O(a) + Len(ss[b])) /\ O(i - 1) + j <= O(a)
          <6> DEFINE x == O(i - 1)
                     y == Len(ss[i])
                     z == Len(ss[b])
          <6>1. /\ x \in Nat /\ y \in Nat /\ z \in Nat /\ j \in 1..y
                /\ O(i) = x + y /\ O(i) <= O(a) /\ O(a) \in Nat
            BY <3>5, <3>6, <5>1, <5>2
          <6> HIDE DEF x, y, z
          <6>2. x + j \in 1..(O(a) + z) /\ x + j <= O(a)
            BY <6>1
          <6> QED
            BY <6>2 DEF x, y, z
        <5> QED
          BY <3>10, <5>2, <5>3
      <4>2. CASE i = b
        <5>1. i - 1 = a /\ j \in 1..Len(ss[b])
          BY <3>1, <4>2
        <5>2. O(a) + j \in 1..(O(a) + Len(ss[b])) /\ ~(O(a) + j <= O(a)) /\ (O(a) + j) - O(a) = j
          <6> DEFINE x == O(a)
                     z == Len(ss[b])
          <6>1. x \in Nat /\ z \in Nat /\ j \in 1..z
            BY <3>5, <3>6, <5>1
          <6> HIDE DEF x, z
          <6>2. x + j \in 1..(x + z) /\ ~(x + j <= x) /\ (x + j) - x = j
            BY <6>1
          <6> QED
            BY <6>2 DEF x, z
        <5>3. flat[b][O(a) + j] = ss[b][j]
          BY <3>10, <5>2
        <5> QED
          BY <4>2, <5>1, <5>3
      <4> QED
        BY <3>1, <3>3, <4>1, <4>2
    <3>12. Good(b)
      BY <3>7, <3>8, <3>11
    <3> HIDE DEF Good
    <3> QED
      BY <3>12 DEF b
  <2> HIDE DEF Sizes
  <2>6. Nat \subseteq Sizes
    BY <2>4, <2>5, SetInduction
  <2>7. n - 1 \in Nat /\ (n - 1) + 1 = n
    BY <1>1, <1>5
  <2>8. Good(n)
    <3>1. n - 1 \in Sizes
      BY <2>6, <2>7
    <3> HIDE DEF Good
    <3>2. (n - 1) + 1 <= n => Good((n - 1) + 1)
      BY <3>1 DEF Sizes
    <3> QED
      BY <1>1, <2>7, <3>2
  <2> QED
    BY <2>2, <2>8 DEF O
<1> QED
  BY <1>4, <1>5

\* The buffer d has the cells s behind position p.
Holds(d, p, s) == p + Len(s) <= Len(d) /\ \A j \in 1..Len(s) : d[p + j] = s[j]

\* A buffer that has two lists of cells has each, one behind the other.
LEMMA HoldsBoth ==
  ASSUME NEW s \in Seq(Nat), NEW t \in Seq(Nat), NEW d, Len(d) \in Nat, NEW p \in Nat,
         Holds(d, p, s \o t)
  PROVE  Holds(d, p, s) /\ Holds(d, p + Len(s), t)
<1> DEFINE m == Len(s)
           n == Len(t)
<1>1. m \in Nat /\ n \in Nat
  BY LenProperties
<1>2. /\ Len(s \o t) = m + n
      /\ \A i \in 1..(m + n) : (s \o t)[i] = IF i <= m THEN s[i] ELSE t[i - m]
  BY ConcatProperties
<1>3. /\ p + (m + n) <= Len(d)
      /\ \A j \in 1..(m + n) : d[p + j] = IF j <= m THEN s[j] ELSE t[j - m]
  BY <1>2 DEF Holds
<1> HIDE DEF m, n
<1>4. p + m <= Len(d) /\ (p + m) + n <= Len(d)
  BY <1>1, <1>3
<1>5. \A j \in 1..m : d[p + j] = s[j]
  <2>1. \A j \in 1..m : j \in 1..(m + n) /\ j <= m
    BY <1>1
  <2> QED
    BY <1>3, <2>1
<1>6. ASSUME NEW j \in 1..n PROVE d[(p + m) + j] = t[j]
  <2>1. m + j \in 1..(m + n) /\ ~(m + j <= m) /\ (m + j) - m = j /\ p + (m + j) = (p + m) + j
    BY <1>1
  <2> QED
    BY <1>3, <2>1
<1> QED
  BY <1>4, <1>5, <1>6 DEF Holds, m, n

\* A buffer that has flattened lists has each at its offset.
LEMMA HoldsFlat ==
  ASSUME NEW ss \in Seq(Seq(Nat)), NEW d, Len(d) \in Nat, NEW p \in Nat,
         Holds(d, p, FlattenSeq(ss)), NEW i \in 1..Len(ss)
  PROVE  Holds(d, p + Offset(ss, i - 1), ss[i])
<1> DEFINE w == FlattenSeq(ss)
           x == Offset(ss, i - 1)
           y == Offset(ss, i)
           t == ss[i]
<1>1. Len(ss) \in Nat /\ \A k \in 1..Len(ss) : Len(ss[k]) \in Nat
  <2>1. \A k \in 1..Len(ss) : ss[k] \in Seq(Nat)
    BY ElementOfSeq
  <2> QED
    BY <2>1, LenProperties
<1>2. /\ Len(ss) \in Nat /\ i \in 0..Len(ss) /\ i - 1 \in 0..Len(ss) /\ Len(t) \in Nat
  BY <1>1
<1>3. x \in Nat /\ y \in Nat /\ y = x + Len(t)
  BY <1>1, <1>2, OffsetFacts
<1>4. y <= Len(w) /\ w \in Seq(Nat) /\ \A j \in 1..Len(t) : w[x + j] = t[j]
  BY FlattenFacts
<1>5. Len(w) \in Nat
  BY <1>4, LenProperties
<1>6. p + Len(w) <= Len(d) /\ \A j \in 1..Len(w) : d[p + j] = w[j]
  BY DEF Holds
<1> HIDE DEF w, x, y, t
<1>7. (p + x) + Len(t) <= Len(d)
  BY <1>2, <1>3, <1>4, <1>5, <1>6
<1>8. ASSUME NEW j \in 1..Len(t) PROVE d[(p + x) + j] = t[j]
  <2>1. x + j \in 1..Len(w) /\ p + (x + j) = (p + x) + j
    BY <1>2, <1>3, <1>4, <1>5
  <2> QED
    BY <1>4, <1>6, <2>1
<1> QED
  BY <1>7, <1>8 DEF Holds, x, t

\* A read succeeds if the cells are there.
LEMMA SkipFacts ==
  ASSUME NEW d, Len(d) \in Nat, NEW p \in Nat \cup {None}, NEW n \in Nat
  PROVE  /\ skip(d, p, n) \in Nat \cup {None}
         /\ skip(d, p, n) # None => /\ p \in Nat /\ p + n <= Len(d)
                                    /\ skip(d, p, n) = p + n
         /\ p \in Nat /\ p + n <= Len(d) => skip(d, p, n) = p + n
BY DEF skip, None

\* Cells nobody interprets are as many as asked for.
LEMMA OpaqueFacts ==
  ASSUME NEW n \in Nat
  PROVE  Opaque(n) \in Seq(Nat) /\ Len(Opaque(n)) = n
<1>1. Opaque(n) \in [1..n -> Nat] /\ DOMAIN Opaque(n) = 1..n
  BY DEF Opaque
<1>2. Opaque(n) \in Seq(Nat)
  BY <1>1, SeqDef
<1> QED
  BY <1>1, <1>2, LenProperties

\* One cell is a buffer.
LEMMA SingleCell ==
  ASSUME NEW c \in Nat
  PROVE  <<c>> \in Seq(Nat) /\ Len(<<c>>) = 1 /\ <<c>>[1] = c
OBVIOUS

\* A field of variable length and the groups around it.
LEMMA ItemFacts ==
  ASSUME NEW len \in Nat, NEW before \in Nat, NEW after \in Nat
  PROVE  Item(len, before, after) \in Seq(Nat)
         /\ Len(Item(len, before, after)) = before + 1 + len + after
<1>1. /\ Opaque(before) \in Seq(Nat) /\ Len(Opaque(before)) = before
      /\ Opaque(len) \in Seq(Nat) /\ Len(Opaque(len)) = len
      /\ Opaque(after) \in Seq(Nat) /\ Len(Opaque(after)) = after
  BY OpaqueFacts
<1> DEFINE s == Opaque(before) \o <<len>>
           t == s \o Opaque(len)
<1>2. s \in Seq(Nat) /\ Len(s) = before + 1
  BY <1>1, SingleCell, ConcatProperties
<1> HIDE DEF s
<1>3. t \in Seq(Nat) /\ Len(t) = before + 1 + len
  <2>1. t \in Seq(Nat) /\ Len(t) = Len(s) + Len(Opaque(len))
    BY <1>1, <1>2, ConcatProperties
  <2> QED
    BY <1>1, <1>2, <2>1
<1> HIDE DEF t
<1>4. t \o Opaque(after) \in Seq(Nat) /\ Len(t \o Opaque(after)) = before + 1 + len + after
  <2>1. /\ t \o Opaque(after) \in Seq(Nat)
        /\ Len(t \o Opaque(after)) = Len(t) + Len(Opaque(after))
    BY <1>1, <1>3, ConcatProperties
  <2> QED
    BY <1>1, <1>3, <2>1
<1> QED
  BY <1>4 DEF Item, s, t

\* Over an encoded item SkipItem ends at the item's end.
LEMMA SkipItemExact ==
  ASSUME NEW d, Len(d) \in Nat, NEW p \in Nat,
         NEW len \in Nat, NEW before \in Nat, NEW after \in Nat,
         Holds(d, p, Item(len, before, after))
  PROVE  SkipItem(d, p, before, after) = p + Len(Item(len, before, after))
<1>1. /\ Opaque(before) \in Seq(Nat) /\ Len(Opaque(before)) = before
      /\ Opaque(len) \in Seq(Nat) /\ Len(Opaque(len)) = len
      /\ Opaque(after) \in Seq(Nat) /\ Len(Opaque(after)) = after
      /\ <<len>> \in Seq(Nat) /\ Len(<<len>>) = 1 /\ <<len>>[1] = len
  BY OpaqueFacts, SingleCell
<1>2. p + before + 1 + len + after <= Len(d)
  <2>1. p + Len(Item(len, before, after)) <= Len(d)
    BY DEF Holds
  <2>2. Len(Item(len, before, after)) = before + 1 + len + after
    BY ItemFacts
  <2> QED
    BY <2>1, <2>2
<1>3. d[p + before + 1] = len
  <2> DEFINE s == Opaque(before) \o <<len>>
             t == s \o Opaque(len)
  <2>1. s \in Seq(Nat) /\ t \in Seq(Nat)
    BY <1>1, ConcatProperties
  <2> HIDE DEF t
  <2>2. Holds(d, p, t)
    BY <1>1, <2>1, HoldsBoth DEF Item, s, t
  <2> HIDE DEF s
  <2>3. Holds(d, p, s)
    BY <1>1, <2>1, <2>2, HoldsBoth DEF t
  <2>4. Holds(d, p + Len(Opaque(before)), <<len>>)
    BY <1>1, <2>3, HoldsBoth DEF s
  <2>5. Holds(d, p + before, <<len>>)
    BY <1>1, <2>4
  <2>6. 1 \in 1..Len(<<len>>)
    OBVIOUS
  <2>7. d[(p + before) + 1] = <<len>>[1]
    BY <2>5, <2>6 DEF Holds
  <2> QED
    BY <1>1, <2>7
<1>4. skip(d, p, before) = p + before
  BY <1>2, SkipFacts
<1>5. skip(d, p + before, 1) = p + before + 1 /\ p + before + 1 # None
  BY <1>2, SkipFacts DEF None
<1>6. u32(d, p + before) = len
  BY <1>3, <1>5 DEF u32
<1>7. skip(d, p + before + 1, len) = p + before + 1 + len
  BY <1>2, SkipFacts
<1>8. skip(d, p + before + 1 + len, after) = p + before + 1 + len + after
  BY <1>2, SkipFacts
<1>9. SkipItem(d, p, before, after) = p + before + 1 + len + after
  BY <1>4, <1>5, <1>6, <1>7, <1>8 DEF SkipItem
<1>10. Len(Item(len, before, after)) = before + 1 + len + after
  BY ItemFacts
<1> QED
  BY <1>9, <1>10

\* The recurrence behind SkipItems.
IsSkip(f, d, p, n, before, after) ==
  f = [i \in 0..n |-> IF i = 0 THEN p ELSE SkipItem(d, f[i - 1], before, after)]

\* The recurrence behind SkipItems has a solution.
LEMMA SkipExists ==
  ASSUME NEW d, NEW p, NEW before, NEW after, NEW n \in Nat
  PROVE  \E f : IsSkip(f, d, p, n, before, after)
<1> DEFINE Sizes == {k \in Nat : \E f : IsSkip(f, d, p, k, before, after)}
<1>1. 0 \in Sizes
  <2> DEFINE s == [i \in 0..0 |-> p]
  <2>1. IsSkip(s, d, p, 0, before, after)
    BY DEF IsSkip
  <2> QED
    BY <2>1
<1>2. ASSUME NEW k \in Nat, k \in Sizes
      PROVE  k + 1 \in Sizes
  <2>1. PICK s : IsSkip(s, d, p, k, before, after)
    BY <1>2
  <2> DEFINE t == [i \in 0..(k + 1) |-> IF i <= k THEN s[i] ELSE SkipItem(d, s[k], before, after)]
  <2>2. \A i \in 0..k : s[i] = IF i = 0 THEN p ELSE SkipItem(d, s[i - 1], before, after)
    BY <2>1 DEF IsSkip
  <2>3. \A i \in 0..(k + 1) : t[i] = IF i = 0 THEN p ELSE SkipItem(d, t[i - 1], before, after)
    <3> SUFFICES ASSUME NEW i \in 0..(k + 1)
                 PROVE  t[i] = IF i = 0 THEN p ELSE SkipItem(d, t[i - 1], before, after)
      OBVIOUS
    <3>1. CASE i = 0
      BY <2>2, <3>1
    <3>2. CASE i \in 1..k
      BY <2>2, <3>2
    <3>3. CASE i = k + 1
      BY <3>3
    <3> QED
      BY <3>1, <3>2, <3>3
  <2>4. IsSkip(t, d, p, k + 1, before, after)
    BY <2>3 DEF IsSkip
  <2>5. k + 1 \in Nat
    OBVIOUS
  <2> HIDE DEF t
  <2> QED
    BY <2>4, <2>5
<1> HIDE DEF Sizes
<1>3. Nat \subseteq Sizes
  BY <1>1, <1>2, SetInduction
<1> QED
  BY <1>3 DEF Sizes

\* One item more is skipped behind the others.
LEMMA SkipItemsUnfold ==
  ASSUME NEW d, NEW p, NEW before, NEW after, NEW n \in Nat
  PROVE  /\ SkipItems(d, p, 0, before, after) = p
         /\ SkipItems(d, p, n + 1, before, after)
              = SkipItem(d, SkipItems(d, p, n, before, after), before, after)
<1> DEFINE IsIt(s, k) == IsSkip(s, d, p, k, before, after)
<1>1. ASSUME NEW k \in Nat
      PROVE  \E s : IsIt(s, k) /\ SkipItems(d, p, k, before, after) = s[k]
  <2> DEFINE s == CHOOSE u : IsIt(u, k)
  <2>1. IsIt(s, k)
    BY SkipExists
  <2>2. SkipItems(d, p, k, before, after) = s[k]
    BY DEF SkipItems, IsSkip
  <2> HIDE DEF s
  <2> QED
    BY <2>1, <2>2
<1>2. ASSUME NEW k \in Nat, NEW m \in Nat, NEW s, NEW t, IsIt(s, k), IsIt(t, m)
      PROVE  \A i \in Nat : i <= k /\ i <= m => s[i] = t[i]
  <2> DEFINE Same == {i \in Nat : i <= k /\ i <= m => s[i] = t[i]}
  <2>1. 0 \in Same
    BY <1>2 DEF IsSkip
  <2>2. ASSUME NEW i \in Nat, i \in Same PROVE i + 1 \in Same
    <3> SUFFICES ASSUME i + 1 <= k, i + 1 <= m PROVE s[i + 1] = t[i + 1]
      OBVIOUS
    <3>1. s[i + 1] = SkipItem(d, s[i], before, after)
      BY <1>2 DEF IsSkip
    <3>2. t[i + 1] = SkipItem(d, t[i], before, after)
      BY <1>2 DEF IsSkip
    <3> QED
      BY <2>2, <3>1, <3>2
  <2> HIDE DEF Same
  <2>3. Nat \subseteq Same
    BY <2>1, <2>2, SetInduction
  <2> QED
    BY <2>3 DEF Same
<1>3. PICK t : IsIt(t, 0) /\ SkipItems(d, p, 0, before, after) = t[0]
  BY <1>1
<1>4. t[0] = p
  BY <1>3 DEF IsSkip
<1>5. PICK u : IsIt(u, n) /\ SkipItems(d, p, n, before, after) = u[n]
  BY <1>1
<1>6. n + 1 \in Nat
  OBVIOUS
<1>7. PICK v : IsIt(v, n + 1) /\ SkipItems(d, p, n + 1, before, after) = v[n + 1]
  BY <1>1, <1>6
<1>8. v[n] = u[n]
  <2> HIDE DEF IsIt
  <2>1. \A i \in Nat : i <= n /\ i <= n + 1 => u[i] = v[i]
    BY <1>2, <1>5, <1>6, <1>7
  <2> QED
    BY <2>1
<1>9. v[n + 1] = SkipItem(d, v[n], before, after)
  BY <1>7 DEF IsSkip
<1> QED
  BY <1>3, <1>4, <1>5, <1>7, <1>8, <1>9

\* Items as they were encoded are skipped to their end.
LEMMA EachFacts ==
  ASSUME NEW lens \in Seq(Nat), NEW before \in Nat, NEW after \in Nat
  PROVE  LET items == [i \in 1..Len(lens) |-> Item(lens[i], before, after)]
         IN  /\ items \in Seq(Seq(Nat)) /\ Len(items) = Len(lens)
             /\ \A i \in 1..Len(lens) : items[i] = Item(lens[i], before, after)
             /\ Each(lens, before, after) = FlattenSeq(items)
             /\ Each(lens, before, after) \in Seq(Nat)
<1> DEFINE items == [i \in 1..Len(lens) |-> Item(lens[i], before, after)]
<1>1. Len(lens) \in Nat /\ \A i \in 1..Len(lens) : lens[i] \in Nat
  BY LenProperties, ElementOfSeq
<1>2. \A i \in 1..Len(lens) : Item(lens[i], before, after) \in Seq(Nat)
  BY <1>1, ItemFacts
<1>3. items \in [1..Len(lens) -> Seq(Nat)] /\ DOMAIN items = 1..Len(lens)
  BY <1>2
<1>4. \A i \in 1..Len(lens) : items[i] = Item(lens[i], before, after)
  OBVIOUS
<1>5. Each(lens, before, after) = FlattenSeq(items)
  BY DEF Each
<1> HIDE DEF items
<1>6. items \in Seq(Seq(Nat))
  <2> DEFINE T == Seq(Nat)
  <2> HIDE DEF T
  <2>1. items \in [1..Len(lens) -> T]
    BY <1>3 DEF T
  <2>2. items \in Seq(T)
    BY <1>1, <2>1, SeqDef
  <2> QED
    BY <2>2 DEF T
<1>7. Len(items) = Len(lens)
  BY <1>1, <1>3, <1>6, LenProperties
<1>8. FlattenSeq(items) \in Seq(Nat)
  BY <1>6, FlattenFacts
<1> QED
  BY <1>4, <1>5, <1>6, <1>7, <1>8 DEF items

\* Over encoded items SkipItems ends at the end of the last.
LEMMA SkipItemsExact ==
  ASSUME NEW d, Len(d) \in Nat, NEW p \in Nat,
         NEW lens \in Seq(Nat), NEW before \in Nat, NEW after \in Nat,
         Holds(d, p, Each(lens, before, after))
  PROVE  SkipItems(d, p, Len(lens), before, after) = p + Len(Each(lens, before, after))
<1> DEFINE items == [i \in 1..Len(lens) |-> Item(lens[i], before, after)]
           O(k) == Offset(items, k)
           S(k) == SkipItems(d, p, k, before, after)
           n == Len(lens)
<1>1. n \in Nat /\ \A i \in 1..n : lens[i] \in Nat
  BY LenProperties, ElementOfSeq
<1>2. /\ items \in Seq(Seq(Nat)) /\ Len(items) = n
      /\ \A i \in 1..n : items[i] = Item(lens[i], before, after)
      /\ Each(lens, before, after) = FlattenSeq(items)
  BY EachFacts
<1> HIDE DEF items
<1>3. \A i \in 1..n : Len(items[i]) \in Nat
  <2>1. \A i \in 1..n : items[i] \in Seq(Nat)
    BY <1>2, ElementOfSeq
  <2> QED
    BY <2>1, LenProperties
<1>4. /\ O(0) = 0
      /\ \A k \in 0..n : O(k) \in Nat
      /\ \A k \in 1..n : O(k) = O(k - 1) + Len(items[k])
  BY <1>1, <1>2, <1>3, OffsetFacts
<1>5. Len(FlattenSeq(items)) = O(n)
  BY <1>2, FlattenFacts
<1>6. \A i \in 1..n : Holds(d, p + O(i - 1), Item(lens[i], before, after))
  BY <1>2, HoldsFlat
<1> HIDE DEF O
<1>7. S(0) = p
  BY SkipItemsUnfold
<1>8. \A k \in Nat : S(k + 1) = SkipItem(d, S(k), before, after)
  BY SkipItemsUnfold
<1> HIDE DEF S, n
<1> DEFINE Sizes == {k \in Nat : k <= n => S(k) = p + O(k)}
<1>9. 0 \in Sizes
  BY <1>4, <1>7
<1>10. ASSUME NEW k \in Nat, k \in Sizes PROVE k + 1 \in Sizes
  <2> SUFFICES ASSUME k + 1 <= n PROVE S(k + 1) = p + O(k + 1)
    OBVIOUS
  <2>1. k + 1 \in 1..n /\ k \in 0..n /\ (k + 1) - 1 = k
    BY <1>1
  <2>2. S(k) = p + O(k) /\ O(k) \in Nat
    BY <1>4, <1>10, <2>1
  <2>3. Holds(d, p + O(k), Item(lens[k + 1], before, after)) /\ lens[k + 1] \in Nat
    BY <1>1, <1>6, <2>1
  <2> DEFINE q == p + O(k)
  <2>4. q \in Nat /\ S(k) = q
    BY <2>2
  <2>5. SkipItem(d, q, before, after) = q + Len(Item(lens[k + 1], before, after))
    <3> DEFINE len == lens[k + 1]
    <3>1. len \in Nat /\ q \in Nat /\ Holds(d, q, Item(len, before, after))
      BY <2>3, <2>4
    <3> HIDE DEF len, q
    <3>2. SkipItem(d, q, before, after) = q + Len(Item(len, before, after))
      BY <3>1, SkipItemExact
    <3> QED
      BY <3>2 DEF len
  <2>6. Len(Item(lens[k + 1], before, after)) = Len(items[k + 1]) /\ Len(items[k + 1]) \in Nat
    BY <1>2, <1>3, <2>1 DEF n
  <2>7. O(k + 1) = O(k) + Len(items[k + 1])
    BY <1>4, <2>1
  <2>8. S(k + 1) = q + Len(items[k + 1])
    BY <1>8, <2>4, <2>5, <2>6
  <2> QED
    BY <2>2, <2>6, <2>7, <2>8
<1> HIDE DEF Sizes
<1>11. Nat \subseteq Sizes
  BY <1>9, <1>10, SetInduction
<1>12. S(n) = p + O(n)
  BY <1>1, <1>11 DEF Sizes
<1> QED
  BY <1>2, <1>5, <1>12 DEF S, n

\* The fields of a transaction are numbers and lists of lengths.
LEMMA WireTxType ==
  ASSUME NEW t \in WireTxs
  PROVE  /\ t.sigs \in Seq(Nat) /\ t.proofs \in Seq(Nat) /\ t.witnesses \in Seq(Nat)
         /\ Len(t.sigs) \in Nat /\ Len(t.proofs) \in Nat /\ Len(t.witnesses) \in Nat
         /\ t.tx_type \in Nat /\ t.fee \in Nat /\ t.tx_hash \in Nat
<1>1. t.sigs \in Seq(Nat) /\ t.proofs \in Seq(Nat) /\ t.witnesses \in Seq(Nat)
  BY WireAssumption
<1>2. t.tx_type \in Nat /\ t.fee \in Nat /\ t.tx_hash \in Nat
  BY WireAssumption
<1> QED
  BY <1>1, <1>2, LenProperties

\* Three cells are a buffer.
LEMMA ThreeCells ==
  ASSUME NEW a \in Nat, NEW b \in Nat, NEW c \in Nat
  PROVE  /\ <<a, b, c>> \in Seq(Nat) /\ Len(<<a, b, c>>) = 3
         /\ <<a, b, c>>[1] = a /\ <<a, b, c>>[2] = b /\ <<a, b, c>>[3] = c
OBVIOUS

\* What a buffer that begins with an encoded transaction holds, and where.
LEMMA TxHeld ==
  ASSUME NEW t \in WireTxs, NEW d, Len(d) \in Nat, Holds(d, 0, make_tx_wire(t))
  PROVE  LET a == Len(Each(t.sigs, 1, 1))
             b == Len(Each(t.proofs, 1, 1))
             c == Len(Each(t.witnesses, 0, 0))
         IN  /\ a \in Nat /\ b \in Nat /\ c \in Nat
             /\ make_tx_wire(t) \in Seq(Nat) /\ Len(make_tx_wire(t)) = 9 + a + b + c
             /\ 9 + a + b + c <= Len(d)
             /\ d[1] = EXPECTED_WIRE_VERSION /\ d[3] = t.tx_type
             /\ d[4] = Len(t.sigs) /\ Holds(d, 4, Each(t.sigs, 1, 1))
             /\ d[5 + a] = Len(t.proofs) /\ Holds(d, 5 + a, Each(t.proofs, 1, 1))
             /\ d[6 + a + b] = t.fee /\ d[7 + a + b] = t.tx_hash
             /\ d[9 + a + b] = Len(t.witnesses)
             /\ Holds(d, 9 + a + b, Each(t.witnesses, 0, 0))
<1> DEFINE S == Each(t.sigs, 1, 1)
           P == Each(t.proofs, 1, 1)
           W == Each(t.witnesses, 0, 0)
           H == <<EXPECTED_WIRE_VERSION, 0, t.tx_type>>
           F == <<t.fee, t.tx_hash, 0>>
           x == <<Len(t.sigs)>>
           y == <<Len(t.proofs)>>
           z == <<Len(t.witnesses)>>
<1>1. /\ H \in Seq(Nat) /\ Len(H) = 3 /\ H[1] = EXPECTED_WIRE_VERSION /\ H[3] = t.tx_type
      /\ F \in Seq(Nat) /\ Len(F) = 3 /\ F[1] = t.fee /\ F[2] = t.tx_hash
  BY WireTxType, WireAssumption, ThreeCells
<1>2. /\ x \in Seq(Nat) /\ Len(x) = 1 /\ x[1] = Len(t.sigs)
      /\ y \in Seq(Nat) /\ Len(y) = 1 /\ y[1] = Len(t.proofs)
      /\ z \in Seq(Nat) /\ Len(z) = 1 /\ z[1] = Len(t.witnesses)
  BY WireTxType, SingleCell
<1>3. S \in Seq(Nat) /\ P \in Seq(Nat) /\ W \in Seq(Nat)
  BY WireTxType, EachFacts
<1> DEFINE a == Len(S)
           b == Len(P)
           c == Len(W)
           w1 == H \o x
           w2 == w1 \o S
           w3 == w2 \o y
           w4 == w3 \o P
           w5 == w4 \o F
           w6 == w5 \o z
           w7 == w6 \o W
<1>4. a \in Nat /\ b \in Nat /\ c \in Nat
  BY <1>3, LenProperties
<1>5. make_tx_wire(t) = w7
  BY DEF make_tx_wire
<1> HIDE DEF S, P, W, H, F, x, y, z
<1>6. w1 \in Seq(Nat) /\ Len(w1) = 4
  <2>1. w1 \in Seq(Nat) /\ Len(w1) = Len(H) + Len(x)
    BY <1>1, <1>2, ConcatProperties
  <2> QED
    BY <1>1, <1>2, <2>1
<1> HIDE DEF w1
<1>7. w2 \in Seq(Nat) /\ Len(w2) = 4 + a
  <2>1. w2 \in Seq(Nat) /\ Len(w2) = Len(w1) + Len(S)
    BY <1>3, <1>6, ConcatProperties
  <2> QED
    BY <1>6, <2>1
<1> HIDE DEF w2
<1>8. w3 \in Seq(Nat) /\ Len(w3) = 5 + a
  <2>1. w3 \in Seq(Nat) /\ Len(w3) = Len(w2) + Len(y)
    BY <1>2, <1>7, ConcatProperties
  <2> QED
    BY <1>2, <1>4, <1>7, <2>1
<1> HIDE DEF w3
<1>9. w4 \in Seq(Nat) /\ Len(w4) = 5 + a + b
  BY <1>3, <1>8, ConcatProperties, ZenonT(60)
<1> HIDE DEF w4
<1>10. w5 \in Seq(Nat) /\ Len(w5) = 8 + a + b
  <2>1. w5 \in Seq(Nat) /\ Len(w5) = Len(w4) + Len(F)
    BY <1>1, <1>9, ConcatProperties
  <2> QED
    BY <1>1, <1>4, <1>9, <2>1
<1> HIDE DEF w5
<1>11. w6 \in Seq(Nat) /\ Len(w6) = 9 + a + b
  <2>1. w6 \in Seq(Nat) /\ Len(w6) = Len(w5) + Len(z)
    BY <1>2, <1>10, ConcatProperties
  <2> QED
    BY <1>2, <1>4, <1>10, <2>1
<1> HIDE DEF w6
<1>12. w7 \in Seq(Nat) /\ Len(w7) = 9 + a + b + c
  BY <1>3, <1>11, ConcatProperties
<1>13. Holds(d, 0, w6) /\ Holds(d, 9 + a + b, W)
  <2>1. Holds(d, 0, w6) /\ Holds(d, 0 + Len(w6), W)
    BY <1>3, <1>5, <1>11, HoldsBoth
  <2>2. 0 + Len(w6) = 9 + a + b
    BY <1>4, <1>11
  <2> QED
    BY <2>1, <2>2
<1>14. Holds(d, 0, w5) /\ Holds(d, 8 + a + b, z)
  <2>1. Holds(d, 0, w5) /\ Holds(d, 0 + Len(w5), z)
    BY <1>2, <1>10, <1>13, HoldsBoth DEF w6
  <2>2. 0 + Len(w5) = 8 + a + b
    BY <1>4, <1>10
  <2> QED
    BY <2>1, <2>2
<1>15. Holds(d, 0, w4) /\ Holds(d, 5 + a + b, F)
  <2>1. Holds(d, 0, w4) /\ Holds(d, 0 + Len(w4), F)
    BY <1>1, <1>9, <1>14, HoldsBoth DEF w5
  <2>2. 0 + Len(w4) = 5 + a + b
    BY <1>4, <1>9
  <2> QED
    BY <2>1, <2>2
<1>16. Holds(d, 0, w3) /\ Holds(d, 5 + a, P)
  <2>1. Holds(d, 0, w3) /\ Holds(d, 0 + Len(w3), P)
    BY <1>3, <1>8, <1>15, HoldsBoth DEF w4
  <2>2. 0 + Len(w3) = 5 + a
    BY <1>4, <1>8
  <2> QED
    BY <2>1, <2>2
<1>17. Holds(d, 0, w2) /\ Holds(d, 4 + a, y)
  <2>1. Holds(d, 0, w2) /\ Holds(d, 0 + Len(w2), y)
    BY <1>2, <1>7, <1>16, HoldsBoth DEF w3
  <2>2. 0 + Len(w2) = 4 + a
    BY <1>4, <1>7
  <2> QED
    BY <2>1, <2>2
<1>18. Holds(d, 0, w1) /\ Holds(d, 4, S)
  <2>1. Holds(d, 0, w1) /\ Holds(d, 0 + Len(w1), S)
    BY <1>3, <1>6, <1>17, HoldsBoth DEF w2
  <2>2. 0 + Len(w1) = 4
    BY <1>6
  <2> QED
    BY <2>1, <2>2
<1>19. Holds(d, 0, H) /\ Holds(d, 3, x)
  <2>1. Holds(d, 0, H) /\ Holds(d, 0 + Len(H), x)
    BY <1>1, <1>2, <1>18, HoldsBoth DEF w1
  <2>2. 0 + Len(H) = 3
    BY <1>1
  <2> QED
    BY <2>1, <2>2
<1>20. d[1] = EXPECTED_WIRE_VERSION /\ d[3] = t.tx_type
  <2>1. d[0 + 1] = H[1] /\ d[0 + 3] = H[3]
    BY <1>1, <1>19 DEF Holds
  <2> QED
    BY <1>1, <2>1
<1>21. d[4] = Len(t.sigs)
  <2>1. d[3 + 1] = x[1]
    BY <1>2, <1>19 DEF Holds
  <2> QED
    BY <1>2, <2>1
<1>22. d[5 + a] = Len(t.proofs)
  <2>1. d[(4 + a) + 1] = y[1]
    BY <1>2, <1>17 DEF Holds
  <2>2. (4 + a) + 1 = 5 + a
    BY <1>4
  <2> QED
    BY <1>2, <2>1, <2>2
<1>23. d[6 + a + b] = t.fee /\ d[7 + a + b] = t.tx_hash
  <2>1. d[(5 + a + b) + 1] = F[1] /\ d[(5 + a + b) + 2] = F[2]
    BY <1>1, <1>15 DEF Holds
  <2>2. (5 + a + b) + 1 = 6 + a + b /\ (5 + a + b) + 2 = 7 + a + b
    BY <1>4
  <2> QED
    BY <1>1, <2>1, <2>2
<1>24. d[9 + a + b] = Len(t.witnesses)
  <2>1. d[(8 + a + b) + 1] = z[1]
    BY <1>2, <1>14 DEF Holds
  <2>2. (8 + a + b) + 1 = 9 + a + b
    BY <1>4
  <2> QED
    BY <1>2, <2>1, <2>2
<1>25. 9 + a + b + c <= Len(d)
  <2>1. 0 + Len(w7) <= Len(d)
    BY <1>5 DEF Holds
  <2> HIDE DEF w7
  <2> QED
    BY <1>4, <1>12, <2>1
<1> HIDE DEF w7, a, b, c
<1> QED
  BY <1>4, <1>5, <1>12, <1>13, <1>16, <1>18, <1>20, <1>21, <1>22, <1>23, <1>24, <1>25
     DEF a, b, c, S, P, W

\* An encoded transaction is a buffer.
LEMMA TxWireType ==
  ASSUME NEW t \in WireTxs
  PROVE  make_tx_wire(t) \in Seq(Nat)
<1> DEFINE S == Each(t.sigs, 1, 1)
           P == Each(t.proofs, 1, 1)
           W == Each(t.witnesses, 0, 0)
           H == <<EXPECTED_WIRE_VERSION, 0, t.tx_type>>
           F == <<t.fee, t.tx_hash, 0>>
           x == <<Len(t.sigs)>>
           y == <<Len(t.proofs)>>
           z == <<Len(t.witnesses)>>
<1>1. /\ H \in Seq(Nat) /\ F \in Seq(Nat)
      /\ x \in Seq(Nat) /\ y \in Seq(Nat) /\ z \in Seq(Nat)
  BY WireTxType, WireAssumption, ThreeCells, SingleCell
<1>2. S \in Seq(Nat) /\ P \in Seq(Nat) /\ W \in Seq(Nat)
  BY WireTxType, EachFacts
<1>3. make_tx_wire(t) = H \o x \o S \o y \o P \o F \o z \o W
  BY DEF make_tx_wire
<1> HIDE DEF S, P, W, H, F, x, y, z
<1>4. H \o x \o S \o y \in Seq(Nat)
  BY <1>1, <1>2, ConcatProperties
<1>5. H \o x \o S \o y \o P \o F \o z \o W \in Seq(Nat)
  BY <1>1, <1>2, <1>4, ConcatProperties
<1> QED
  BY <1>3, <1>5

\* The fields of an encoded transaction are found.
LEMMA LayoutExact ==
  ASSUME NEW t \in WireTxs, NEW d, Len(d) \in Nat, Holds(d, 0, make_tx_wire(t))
  PROVE  LET a == Len(Each(t.sigs, 1, 1))
             b == Len(Each(t.proofs, 1, 1))
             c == Len(Each(t.witnesses, 0, 0))
         IN  Layout(d) = [inputs |-> 3, outputs |-> 4 + a, fee |-> 5 + a + b,
                          end |-> 9 + a + b + c]
<1> DEFINE a == Len(Each(t.sigs, 1, 1))
           b == Len(Each(t.proofs, 1, 1))
           c == Len(Each(t.witnesses, 0, 0))
<1>1. /\ a \in Nat /\ b \in Nat /\ c \in Nat
      /\ 9 + a + b + c <= Len(d)
      /\ d[4] = Len(t.sigs) /\ Holds(d, 4, Each(t.sigs, 1, 1))
      /\ d[5 + a] = Len(t.proofs) /\ Holds(d, 5 + a, Each(t.proofs, 1, 1))
      /\ d[9 + a + b] = Len(t.witnesses)
      /\ Holds(d, 9 + a + b, Each(t.witnesses, 0, 0))
  BY TxHeld
<1>2. /\ t.sigs \in Seq(Nat) /\ t.proofs \in Seq(Nat) /\ t.witnesses \in Seq(Nat)
  BY WireTxType
<1>3. SkipItems(d, 4, Len(t.sigs), 1, 1) = 4 + a
  BY <1>1, <1>2, SkipItemsExact, SMTT(30)
<1>4. 5 + a \in Nat /\ 9 + a + b \in Nat /\ 8 + a + b \in Nat /\ 5 + a + b \in Nat /\ 4 + a \in Nat
  BY <1>1
<1>5. SkipItems(d, 5 + a, Len(t.proofs), 1, 1) = 5 + a + b
  BY <1>1, <1>2, <1>4, SkipItemsExact, SMTT(30)
<1>6. SkipItems(d, 9 + a + b, Len(t.witnesses), 0, 0) = 9 + a + b + c
  BY <1>1, <1>2, <1>4, SkipItemsExact
<1> HIDE DEF a, b, c
<1>7. skip(d, 0, 3) = 3 /\ skip(d, 3, 1) = 4
  BY <1>1, SkipFacts
<1>8. skip(d, 4 + a, 1) = 5 + a /\ skip(d, 5 + a + b, 3) = 8 + a + b
  <2>1. /\ (4 + a) + 1 = 5 + a /\ 5 + a <= Len(d)
        /\ (5 + a + b) + 3 = 8 + a + b /\ 8 + a + b <= Len(d)
    BY <1>1
  <2>2. skip(d, 4 + a, 1) = 5 + a
    BY <1>4, <2>1, SkipFacts
  <2>3. skip(d, 5 + a + b, 3) = 8 + a + b
    BY <1>4, <2>1, SkipFacts
  <2> QED
    BY <2>2, <2>3
<1>9. skip(d, 8 + a + b, 1) = 9 + a + b
  <2>1. (8 + a + b) + 1 = 9 + a + b /\ 9 + a + b <= Len(d)
    BY <1>1, SMTT(30)
  <2> QED
    BY <1>4, <2>1, SkipFacts
<1>10. u32(d, 3) = Len(t.sigs)
  BY <1>1, <1>7 DEF u32, None
<1>11. u32(d, 4 + a) = Len(t.proofs)
  <2>1. (4 + a) + 1 = 5 + a /\ 5 + a # None
    BY <1>1 DEF None
  <2> QED
    BY <1>1, <1>8, <2>1 DEF u32
<1>12. u32(d, 8 + a + b) = Len(t.witnesses)
  <2>1. (8 + a + b) + 1 = 9 + a + b /\ 9 + a + b # None
    BY <1>1 DEF None
  <2> QED
    BY <1>1, <1>9, <2>1 DEF u32
<1>13. skip_inputs(d, skip(d, 3, 1), u32(d, 3)) = 4 + a
  BY <1>3, <1>7, <1>10 DEF skip_inputs
<1>14. skip_outputs(d, skip(d, 4 + a, 1), u32(d, 4 + a)) = 5 + a + b
  BY <1>5, <1>8, <1>11 DEF skip_outputs
<1>15. skip_witnesses(d, skip(d, 5 + a + b, 3)) = 9 + a + b + c
  BY <1>6, <1>8, <1>9, <1>12 DEF skip_witnesses
<1>16. Layout(d) = [inputs |-> 3, outputs |-> 4 + a, fee |-> 5 + a + b, end |-> 9 + a + b + c]
  BY <1>7, <1>13, <1>14, <1>15 DEF Layout
<1> QED
  BY <1>16 DEF a, b, c

\* A transaction that was encoded is viewed as it was.
LEMMA TxViewExact ==
  ASSUME NEW t \in WireTxs, NEW d, Len(d) \in Nat, Holds(d, 0, make_tx_wire(t))
  PROVE  TxView(d) = ViewOf(t)
<1> DEFINE a == Len(Each(t.sigs, 1, 1))
           b == Len(Each(t.proofs, 1, 1))
           c == Len(Each(t.witnesses, 0, 0))
           end == 9 + a + b + c
<1>1. /\ a \in Nat /\ b \in Nat /\ c \in Nat /\ Len(make_tx_wire(t)) = end
      /\ end <= Len(d)
      /\ d[1] = EXPECTED_WIRE_VERSION /\ d[3] = t.tx_type
      /\ d[4] = Len(t.sigs) /\ d[5 + a] = Len(t.proofs)
      /\ d[6 + a + b] = t.fee /\ d[7 + a + b] = t.tx_hash
  BY TxHeld
<1>2. Layout(d) = [inputs |-> 3, outputs |-> 4 + a, fee |-> 5 + a + b, end |-> end]
  BY LayoutExact
<1> HIDE DEF a, b, c
<1>3. /\ 3 + 1 = 4 /\ (4 + a) + 1 = 5 + a /\ (5 + a + b) + 1 = 6 + a + b
      /\ (5 + a + b) + 2 = 7 + a + b
  BY <1>1
<1>4. end # None /\ d # <<>>
  BY <1>1 DEF None
<1> HIDE DEF end
<1>5. VersionOK(d)
  BY <1>1, <1>4 DEF VersionOK
<1>6. /\ Layout(d).inputs = 3 /\ Layout(d).outputs = 4 + a
      /\ Layout(d).fee = 5 + a + b /\ Layout(d).end = end
  BY <1>2
<1>7. TxView(d) = [tx_type |-> d[3], input_count |-> d[4], output_count |-> d[5 + a],
                   fee |-> d[6 + a + b], tx_hash |-> d[7 + a + b], parsed_len |-> end]
  BY <1>3, <1>4, <1>5, <1>6 DEF TxView
<1> QED
  BY <1>1, <1>7 DEF ViewOf

\* A buffer, and its first m cells.
IsCut(e, d, m) ==
  /\ Len(d) \in Nat /\ m \in 0..Len(d) /\ Len(e) = m
  /\ \A j \in 1..Len(d) : d[j] \in Nat
  /\ \A j \in 1..m : e[j] = d[j]

Positions == Nat \cup {None}

\* What a read within the first m cells finds, it finds in these cells alone.
LEMMA SkipCut ==
  ASSUME NEW e, NEW d, NEW m, IsCut(e, d, m), NEW p \in Positions, NEW n \in Nat
  PROVE  /\ skip(d, p, n) \in Positions
         /\ skip(d, p, n) # None => /\ p \in Nat /\ p + n = skip(d, p, n)
                                    /\ skip(d, p, n) <= Len(d)
         /\ skip(d, p, n) # None /\ skip(d, p, n) <= m => skip(e, p, n) = skip(d, p, n)
<1>1. Len(d) \in Nat /\ m \in 0..Len(d) /\ Len(e) = m /\ m \in Nat
  BY DEF IsCut
<1> QED
  BY <1>1 DEF skip, None, Positions

\* A length that ends within the first m cells is read from these alone.
LEMMA U32Cut ==
  ASSUME NEW e, NEW d, NEW m, IsCut(e, d, m), NEW p \in Positions
  PROVE  /\ u32(d, p) \in Nat
         /\ skip(d, p, 1) # None /\ skip(d, p, 1) <= m => u32(e, p) = u32(d, p)
<1>1. /\ Len(d) \in Nat /\ m \in 0..Len(d) /\ Len(e) = m /\ m \in Nat
      /\ \A j \in 1..Len(d) : d[j] \in Nat
      /\ \A j \in 1..m : e[j] = d[j]
  BY DEF IsCut
<1>2. CASE skip(d, p, 1) = None
  BY <1>2 DEF u32
<1>3. CASE skip(d, p, 1) # None
  <2>1. p \in Nat /\ p + 1 = skip(d, p, 1) /\ p + 1 <= Len(d)
    BY <1>1, <1>3 DEF skip, None, Positions
  <2>2. u32(d, p) = d[p + 1] /\ p + 1 \in 1..Len(d)
    BY <1>1, <1>3, <2>1 DEF u32
  <2>3. ASSUME skip(d, p, 1) <= m PROVE u32(e, p) = u32(d, p)
    <3>1. skip(e, p, 1) = skip(d, p, 1) /\ p + 1 \in 1..m
      BY <1>1, <1>3, <2>1, <2>3, SkipCut
    <3>2. u32(e, p) = e[p + 1]
      BY <1>3, <3>1 DEF u32
    <3> QED
      BY <1>1, <2>2, <3>1, <3>2
  <2> QED
    BY <1>1, <2>2, <2>3
<1> QED
  BY <1>2, <1>3

\* An item that ends within the first m cells is skipped by these alone.
LEMMA SkipItemCut ==
  ASSUME NEW e, NEW d, NEW m, IsCut(e, d, m), NEW p \in Positions,
         NEW before \in Nat, NEW after \in Nat
  PROVE  LET r == SkipItem(d, p, before, after)
         IN  /\ r \in Positions
             /\ r # None => p \in Nat /\ p <= r /\ r <= Len(d)
             /\ r # None /\ r <= m => SkipItem(e, p, before, after) = r
<1> DEFINE r1 == skip(d, p, before)
           r2 == skip(d, r1, 1)
           n == u32(d, r1)
           r3 == skip(d, r2, n)
           r4 == skip(d, r3, after)
<1>0. m \in Nat
  BY DEF IsCut
<1>1. /\ r1 \in Positions
      /\ r1 # None => p \in Nat /\ p + before = r1
      /\ r1 # None /\ r1 <= m => skip(e, p, before) = r1
  BY SkipCut
<1>2. SkipItem(d, p, before, after) = r4
  BY DEF SkipItem
<1> HIDE DEF r1
<1>3. /\ r2 \in Positions
      /\ r2 # None => r1 \in Nat /\ r1 + 1 = r2
      /\ r2 # None /\ r2 <= m => skip(e, r1, 1) = r2
  BY <1>1, SkipCut
<1>4. n \in Nat /\ (r2 # None /\ r2 <= m => u32(e, r1) = n)
  BY <1>1, U32Cut
<1> HIDE DEF r2, n
<1>5. /\ r3 \in Positions
      /\ r3 # None => r2 \in Nat /\ r2 + n = r3
      /\ r3 # None /\ r3 <= m => skip(e, r2, n) = r3
  BY <1>3, <1>4, SkipCut
<1> HIDE DEF r3
<1>6. /\ r4 \in Positions
      /\ r4 # None => r3 \in Nat /\ r3 + after = r4 /\ r4 <= Len(d)
      /\ r4 # None /\ r4 <= m => skip(e, r3, after) = r4
  BY <1>5, SkipCut
<1> HIDE DEF r4
<1>7. ASSUME r4 # None
      PROVE  /\ r1 \in Nat /\ r2 \in Nat /\ r3 \in Nat /\ r4 \in Nat /\ p \in Nat
             /\ r1 # None /\ r2 # None /\ r3 # None
             /\ p <= r1 /\ r1 <= r2 /\ r2 <= r3 /\ r3 <= r4
  <2>1. r3 \in Nat /\ r3 # None /\ r4 \in Nat /\ r3 <= r4
    BY <1>6, <1>7 DEF Positions, None
  <2>2. r2 \in Nat /\ r2 # None /\ r2 <= r3
    BY <1>4, <1>5, <2>1 DEF Positions, None
  <2>3. r1 \in Nat /\ r1 # None /\ r1 <= r2
    BY <1>3, <2>2 DEF Positions, None
  <2>4. p \in Nat /\ p <= r1
    BY <1>1, <2>3 DEF Positions, None
  <2> QED
    BY <2>1, <2>2, <2>3, <2>4
<1>8. ASSUME r4 # None, r4 <= m PROVE SkipItem(e, p, before, after) = r4
  <2>1. r1 <= m /\ r2 <= m /\ r3 <= m
    BY <1>0, <1>7, <1>8
  <2>2. /\ skip(e, p, before) = r1 /\ skip(e, r1, 1) = r2 /\ u32(e, r1) = n
        /\ skip(e, r2, n) = r3 /\ skip(e, r3, after) = r4
    BY <1>1, <1>3, <1>4, <1>5, <1>6, <1>7, <1>8, <2>1
  <2> QED
    BY <2>2 DEF SkipItem
<1>9. r4 # None => p \in Nat /\ p <= r4 /\ r4 <= Len(d)
  BY <1>6, <1>7
<1> QED
  BY <1>2, <1>6, <1>8, <1>9

\* So are several items.
LEMMA SkipItemsCut ==
  ASSUME NEW e, NEW d, NEW m, IsCut(e, d, m), NEW p \in Positions,
         NEW before \in Nat, NEW after \in Nat, NEW n \in Nat
  PROVE  LET r == SkipItems(d, p, n, before, after)
         IN  /\ r \in Positions
             /\ r # None => p \in Nat /\ p <= r /\ (p <= Len(d) => r <= Len(d))
             /\ r # None /\ r <= m => SkipItems(e, p, n, before, after) = r
<1> DEFINE D(k) == SkipItems(d, p, k, before, after)
           E(k) == SkipItems(e, p, k, before, after)
           Good(k) == /\ D(k) \in Positions
                      /\ D(k) # None => p \in Nat /\ p <= D(k) /\ (p <= Len(d) => D(k) <= Len(d))
                      /\ D(k) # None /\ D(k) <= m => E(k) = D(k)
           Sizes == {k \in Nat : Good(k)}
<1>0. m \in Nat
  BY DEF IsCut
<1>1. D(0) = p /\ E(0) = p
  BY SkipItemsUnfold
<1>2. \A k \in Nat : /\ D(k + 1) = SkipItem(d, D(k), before, after)
                     /\ E(k + 1) = SkipItem(e, E(k), before, after)
  BY SkipItemsUnfold
<1> HIDE DEF D, E
<1>3. 0 \in Sizes
  BY <1>1 DEF Positions, None
<1>4. ASSUME NEW k \in Nat, k \in Sizes PROVE k + 1 \in Sizes
  <2> DEFINE q == D(k)
             r == SkipItem(d, q, before, after)
  <2>1. Good(k)
    BY <1>4
  <2>2. q \in Positions
    BY <2>1
  <2>3. D(k + 1) = r /\ E(k + 1) = SkipItem(e, E(k), before, after)
    BY <1>2
  <2> HIDE DEF q
  <2>4. /\ r \in Positions
        /\ r # None => q \in Nat /\ q <= r /\ r <= Len(d)
        /\ r # None /\ r <= m => SkipItem(e, q, before, after) = r
    BY <2>2, SkipItemCut
  <2> HIDE DEF r
  <2>5. /\ q # None => p \in Nat /\ p <= q
        /\ q # None /\ q <= m => E(k) = q
    BY <2>1 DEF q
  <2>6. ASSUME r # None PROVE p \in Nat /\ p <= r /\ q \in Nat /\ q # None /\ q <= r /\ r \in Nat
    <3>1. q \in Nat /\ q # None /\ q <= r /\ r \in Nat
      BY <2>4, <2>6 DEF None, Positions
    <3> QED
      BY <2>5, <3>1
  <2>7. ASSUME r # None, r <= m PROVE E(k + 1) = r
    <3>1. q <= m /\ q # None
      BY <1>0, <2>6, <2>7
    <3> QED
      BY <2>3, <2>4, <2>5, <2>7, <3>1
  <2>8. Good(k + 1)
    BY <2>3, <2>4, <2>6, <2>7
  <2> HIDE DEF Good
  <2> QED
    BY <2>8
<1> HIDE DEF Sizes
<1>5. Nat \subseteq Sizes
  BY <1>3, <1>4, SetInduction
<1>6. Good(n)
  BY <1>5 DEF Sizes
<1> QED
  BY <1>6 DEF D, E

\* Cut behind the transaction, the buffer has the same layout.
LEMMA LayoutCut ==
  ASSUME NEW e, NEW d, NEW m, IsCut(e, d, m)
  PROVE  /\ Layout(d).end \in Positions
         /\ Layout(d).end # None =>
              /\ Layout(d).fee \in Nat /\ Layout(d).fee + 3 <= Layout(d).end
              /\ Layout(d).end <= Len(d) /\ Layout(d).end > 3
         /\ Layout(d).end # None /\ Layout(d).end <= m => Layout(e).fee = Layout(d).fee
<1> DEFINE i == skip(d, 0, 3)
           i1 == skip(d, i, 1)
           ni == u32(d, i)
           o == SkipItems(d, i1, ni, 1, 1)
           o1 == skip(d, o, 1)
           no == u32(d, o)
           f == SkipItems(d, o1, no, 1, 1)
           f1 == skip(d, f, 3)
           w1 == skip(d, f1, 1)
           nw == u32(d, f1)
           w == SkipItems(d, w1, nw, 0, 0)
<1>0. m \in Nat /\ Len(d) \in Nat
  BY DEF IsCut
<1>1. Layout(d).fee = f /\ Layout(d).end = w
  BY DEF Layout, skip_inputs, skip_outputs, skip_witnesses
<1>2. Layout(e).fee = SkipItems(e, skip(e, SkipItems(e, skip(e, skip(e, 0, 3), 1),
                                                     u32(e, skip(e, 0, 3)), 1, 1), 1),
                                u32(e, SkipItems(e, skip(e, skip(e, 0, 3), 1),
                                                 u32(e, skip(e, 0, 3)), 1, 1)), 1, 1)
  BY DEF Layout, skip_inputs, skip_outputs
<1>3. /\ i \in Positions
      /\ i # None => 0 + 3 = i
      /\ i # None /\ i <= m => skip(e, 0, 3) = i
  BY SkipCut DEF Positions
<1> HIDE DEF i
<1>4. /\ i1 \in Positions
      /\ i1 # None => i \in Nat /\ i + 1 = i1
      /\ i1 # None /\ i1 <= m => skip(e, i, 1) = i1
  BY <1>3, SkipCut
<1>5. ni \in Nat /\ (i1 # None /\ i1 <= m => u32(e, i) = ni)
  BY <1>3, U32Cut
<1> HIDE DEF i1, ni
<1>6. /\ o \in Positions
      /\ o # None => i1 \in Nat /\ i1 <= o
      /\ o # None /\ o <= m => SkipItems(e, i1, ni, 1, 1) = o
  BY <1>4, <1>5, SkipItemsCut
<1> HIDE DEF o
<1>7. /\ o1 \in Positions
      /\ o1 # None => o \in Nat /\ o + 1 = o1
      /\ o1 # None /\ o1 <= m => skip(e, o, 1) = o1
  BY <1>6, SkipCut
<1>8. no \in Nat /\ (o1 # None /\ o1 <= m => u32(e, o) = no)
  BY <1>6, U32Cut
<1> HIDE DEF o1, no
<1>9. /\ f \in Positions
      /\ f # None => o1 \in Nat /\ o1 <= f
      /\ f # None /\ f <= m => SkipItems(e, o1, no, 1, 1) = f
  BY <1>7, <1>8, SkipItemsCut
<1> HIDE DEF f
<1>10. /\ f1 \in Positions
       /\ f1 # None => f \in Nat /\ f + 3 = f1
  BY <1>9, SkipCut
<1>11. nw \in Nat
  BY <1>10, U32Cut
<1> HIDE DEF f1, nw
<1>12. /\ w1 \in Positions
       /\ w1 # None => f1 \in Nat /\ f1 + 1 = w1 /\ w1 <= Len(d)
  BY <1>10, SkipCut
<1> HIDE DEF w1
<1>13. /\ w \in Positions
       /\ w # None => w1 \in Nat /\ w1 <= w /\ (w1 <= Len(d) => w <= Len(d))
  BY <1>11, <1>12, SkipItemsCut
<1> HIDE DEF w
<1>14. ASSUME w # None
       PROVE  /\ w \in Nat /\ w <= Len(d) /\ f \in Nat /\ f + 3 <= w
              /\ i \in Nat /\ i1 \in Nat /\ o \in Nat /\ o1 \in Nat
              /\ i = 3 /\ i <= i1 /\ i1 <= o /\ o <= o1 /\ o1 <= f
  <2>1. w \in Nat /\ w1 \in Nat /\ w1 # None /\ w1 <= w /\ w <= Len(d)
    BY <1>12, <1>13, <1>14 DEF Positions, None
  <2>2. f1 \in Nat /\ f1 # None /\ f1 + 1 = w1
    BY <1>12, <2>1 DEF None
  <2>3. f \in Nat /\ f # None /\ f + 3 = f1
    BY <1>10, <2>2 DEF None
  <2>4. o1 \in Nat /\ o1 # None /\ o1 <= f
    BY <1>9, <2>3 DEF None
  <2>5. o \in Nat /\ o # None /\ o + 1 = o1
    BY <1>7, <2>4 DEF None
  <2>6. i1 \in Nat /\ i1 # None /\ i1 <= o
    BY <1>6, <2>5 DEF None
  <2>7. i \in Nat /\ i # None /\ i + 1 = i1
    BY <1>4, <2>6 DEF None
  <2>8. i = 3
    BY <1>3, <2>7
  <2> QED
    BY <2>1, <2>2, <2>3, <2>4, <2>5, <2>6, <2>7, <2>8
<1>15. ASSUME w # None, w <= m PROVE Layout(e).fee = f
  <2>1. /\ i # None /\ i <= m /\ i1 # None /\ i1 <= m /\ o # None /\ o <= m
        /\ o1 # None /\ o1 <= m /\ f # None /\ f <= m
    BY <1>0, <1>14, <1>15 DEF None
  <2>2. /\ skip(e, 0, 3) = i /\ skip(e, i, 1) = i1 /\ u32(e, i) = ni
        /\ SkipItems(e, i1, ni, 1, 1) = o
    BY <1>3, <1>4, <1>5, <1>6, <2>1
  <2>3. skip(e, o, 1) = o1 /\ u32(e, o) = no /\ SkipItems(e, o1, no, 1, 1) = f
    BY <1>7, <1>8, <1>9, <2>1
  <2> QED
    BY <1>2, <2>2, <2>3
<1>16. w # None => f \in Nat /\ f + 3 <= w /\ w <= Len(d) /\ w > 3
  BY <1>0, <1>14
<1> QED
  BY <1>1, <1>13, <1>15, <1>16

\* check_min_fee finds the fee of a view in the view's own cells.
LEMMA MinFeeExact ==
  ASSUME NEW d \in Seq(Nat), TxView(d) # NoView
  PROVE  LET v == TxView(d)
         IN  /\ v.parsed_len \in Nat /\ 3 < v.parsed_len /\ v.parsed_len <= Len(d)
             /\ v.fee \in Nat
             /\ \A e : IsCut(e, d, v.parsed_len) =>
                         check_min_fee(e, v.fee) /\ ~check_min_fee(e, v.fee + 1)
<1> DEFINE v == TxView(d)
           m == Layout(d).end
           f == Layout(d).fee
<1>1. VersionOK(d) /\ m # None
  BY DEF TxView
<1>2. v.fee = d[f + 1] /\ v.parsed_len = m
  BY <1>1 DEF TxView
<1>3. Len(d) \in Nat /\ \A j \in 1..Len(d) : d[j] \in Nat
  BY LenProperties, ElementOfSeq
<1>4. IsCut(d, d, Len(d))
  BY <1>3 DEF IsCut
<1>5. m \in Nat /\ f \in Nat /\ f + 3 <= m /\ m <= Len(d) /\ m > 3
  <2>1. m \in Positions /\ f \in Nat /\ f + 3 <= m /\ m <= Len(d) /\ m > 3
    BY <1>1, <1>4, LayoutCut
  <2> QED
    BY <1>1, <2>1 DEF Positions
<1>6. d[f + 1] \in Nat
  BY <1>3, <1>5
<1>7. ASSUME NEW e, IsCut(e, d, m)
      PROVE  check_min_fee(e, d[f + 1]) /\ ~check_min_fee(e, d[f + 1] + 1)
  <2>1. Layout(e).fee = f
    BY <1>1, <1>5, <1>7, LayoutCut
  <2>2. Len(e) = m /\ e[1] = d[1] /\ e[f + 1] = d[f + 1]
    <3>1. Len(e) = m /\ \A j \in 1..m : e[j] = d[j]
      BY <1>7 DEF IsCut
    <3> HIDE DEF m, f
    <3>2. 1 \in 1..m /\ f + 1 \in 1..m
      BY <1>5
    <3> QED
      BY <3>1, <3>2
  <2>3. VersionOK(e)
    <3>1. e # <<>>
      BY <1>5, <2>2
    <3> QED
      BY <1>1, <2>2, <3>1 DEF VersionOK
  <2>4. skip(e, f, 1) # None
    BY <1>5, <2>2, SMTT(30) DEF skip, None
  <2>5. \A x : check_min_fee(e, x) <=> d[f + 1] >= x
    BY <2>1, <2>2, <2>3, <2>4 DEF check_min_fee
  <2> QED
    BY <1>6, <2>5
<1> HIDE DEF m, f, v
<1> QED
  BY <1>2, <1>5, <1>6, <1>7 DEF v

\* The encodings of the transactions, and where the i-th ends in a block.
Wires(ts) == [i \in 1..Len(ts) |-> make_tx_wire(ts[i])]
TxEnd(ts, i) == 3 + Offset(Wires(ts), i)

\* The encodings are buffers, one for each transaction.
LEMMA WiresType ==
  ASSUME NEW ts \in Seq(WireTxs)
  PROVE  /\ Wires(ts) \in Seq(Seq(Nat)) /\ Len(Wires(ts)) = Len(ts) /\ Len(ts) \in Nat
         /\ \A i \in 1..Len(ts) : /\ ts[i] \in WireTxs
                                  /\ Wires(ts)[i] = make_tx_wire(ts[i])
                                  /\ Wires(ts)[i] \in Seq(Nat) /\ Len(Wires(ts)[i]) \in Nat
<1>1. Len(ts) \in Nat /\ \A i \in 1..Len(ts) : ts[i] \in WireTxs
  BY LenProperties, ElementOfSeq
<1>2. \A i \in 1..Len(ts) : make_tx_wire(ts[i]) \in Seq(Nat)
  BY <1>1, TxWireType
<1>3. \A i \in 1..Len(ts) : Wires(ts)[i] = make_tx_wire(ts[i])
  BY DEF Wires
<1>4. Wires(ts) \in [1..Len(ts) -> Seq(Nat)]
  BY <1>2 DEF Wires
<1>5. Wires(ts) \in Seq(Seq(Nat)) /\ Len(Wires(ts)) = Len(ts)
  BY <1>1, <1>4
<1>6. \A i \in 1..Len(ts) : Wires(ts)[i] \in Seq(Nat) /\ Len(Wires(ts)[i]) \in Nat
  BY <1>2, <1>3, LenProperties
<1> QED
  BY <1>1, <1>3, <1>5, <1>6

\* A transaction ends as far behind the one before as it is long.
LEMMA TxEndFacts ==
  ASSUME NEW ts \in Seq(WireTxs)
  PROVE  /\ TxEnd(ts, 0) = 3
         /\ \A k \in 0..Len(ts) : TxEnd(ts, k) \in Nat /\ TxEnd(ts, k) >= 3
         /\ \A k \in 1..Len(ts) : TxEnd(ts, k) = TxEnd(ts, k - 1) + Len(make_tx_wire(ts[k]))
<1> DEFINE ss == Wires(ts)
<1>1. /\ Len(ss) = Len(ts) /\ Len(ts) \in Nat
      /\ \A i \in 1..Len(ts) : ss[i] = make_tx_wire(ts[i]) /\ Len(ss[i]) \in Nat
  BY WiresType
<1> HIDE DEF ss
<1>2. /\ Offset(ss, 0) = 0
      /\ \A k \in 0..Len(ss) : Offset(ss, k) \in Nat
      /\ \A k \in 1..Len(ss) : Offset(ss, k) = Offset(ss, k - 1) + Len(ss[k])
  BY <1>1, OffsetFacts
<1>3. \A k : TxEnd(ts, k) = 3 + Offset(ss, k)
  BY DEF TxEnd, ss
<1>4. TxEnd(ts, 0) = 3
  BY <1>2, <1>3
<1>5. \A k \in 0..Len(ts) : TxEnd(ts, k) \in Nat /\ TxEnd(ts, k) >= 3
  <2> SUFFICES ASSUME NEW k \in 0..Len(ts) PROVE TxEnd(ts, k) \in Nat /\ TxEnd(ts, k) >= 3
    OBVIOUS
  <2>1. Offset(ss, k) \in Nat /\ TxEnd(ts, k) = 3 + Offset(ss, k)
    BY <1>1, <1>2, <1>3
  <2> QED
    BY <2>1
<1>6. ASSUME NEW k \in 1..Len(ts)
      PROVE  TxEnd(ts, k) = TxEnd(ts, k - 1) + Len(make_tx_wire(ts[k]))
  <2>1. k - 1 \in 0..Len(ts)
    BY <1>1
  <2>2. /\ Offset(ss, k) = Offset(ss, k - 1) + Len(ss[k])
        /\ Offset(ss, k - 1) \in Nat /\ Len(ss[k]) \in Nat
    BY <1>1, <1>2, <2>1
  <2>3. TxEnd(ts, k) = TxEnd(ts, k - 1) + Len(ss[k])
    <3>1. TxEnd(ts, k) = 3 + Offset(ss, k) /\ TxEnd(ts, k - 1) = 3 + Offset(ss, k - 1)
      BY <1>3
    <3> QED
      BY <2>2, <3>1
  <2> QED
    BY <1>1, <2>3
<1> QED
  BY <1>4, <1>5, <1>6

\* A transaction ends where later ones end, or before.
LEMMA TxEndGrows ==
  ASSUME NEW ts \in Seq(WireTxs), NEW i \in 1..Len(ts), NEW k \in 0..i
  PROVE  TxEnd(ts, k) <= TxEnd(ts, i)
<1> DEFINE E(j) == TxEnd(ts, j)
           Sizes == {j \in Nat : j <= i => E(i - j) <= E(i)}
<1>1. Len(ts) \in Nat /\ i \in Nat /\ i <= Len(ts) /\ k \in Nat /\ k <= i
  <2>1. Len(ts) \in Nat
    BY LenProperties
  <2> QED
    BY <2>1
<1>2. \A j \in 0..Len(ts) : E(j) \in Nat
  BY TxEndFacts
<1>3. \A j \in 1..Len(ts) : \E l \in Nat : E(j) = E(j - 1) + l
  BY TxEndFacts, WiresType
<1> HIDE DEF E
<1>4. 0 \in Sizes
  <2>1. i - 0 = i /\ E(i) \in Nat /\ 0 \in Nat
    BY <1>1, <1>2
  <2>2. E(i) <= E(i)
    BY <2>1
  <2> QED
    BY <2>1, <2>2
<1>5. ASSUME NEW j \in Nat, j \in Sizes PROVE j + 1 \in Sizes
  <2> SUFFICES ASSUME j + 1 <= i PROVE E(i - (j + 1)) <= E(i)
    OBVIOUS
  <2> DEFINE m == i - j
             o == i - (j + 1)
  <2>1. m \in 1..Len(ts) /\ o = m - 1 /\ m \in 0..Len(ts) /\ o \in 0..Len(ts) /\ i \in 0..Len(ts)
        /\ j <= i
    BY <1>1
  <2>2. E(m) <= E(i)
    BY <1>5, <2>1
  <2> HIDE DEF m, o, Sizes
  <2>3. PICK l \in Nat : E(m) = E(o) + l
    BY <1>3, <2>1
  <2>4. E(m) \in Nat /\ E(o) \in Nat /\ E(i) \in Nat
    BY <1>2, <2>1
  <2>5. E(o) <= E(i)
    BY <2>2, <2>3, <2>4
  <2> QED
    BY <2>5 DEF o
<1> HIDE DEF Sizes
<1>6. Nat \subseteq Sizes
  BY <1>4, <1>5, SetInduction
<1>7. i - k \in Nat /\ i - k <= i /\ i - (i - k) = k
  BY <1>1
<1>8. i - k \in Sizes
  BY <1>6, <1>7
<1>9. E(i - (i - k)) <= E(i)
  BY <1>7, <1>8 DEF Sizes
<1>10. E(k) <= E(i)
  BY <1>7, <1>9
<1> QED
  BY <1>10 DEF E

\* A block is its header, the transactions one behind the other, and a trailer.
LEMMA EncodedFacts ==
  ASSUME NEW ts \in Seq(WireTxs)
  PROVE  /\ Encoded(ts) \in Seq(Nat)
         /\ Len(Encoded(ts)) = TxEnd(ts, Len(ts)) + Len(Trailer) /\ Len(Trailer) = 1
         /\ Encoded(ts)[1] = EXPECTED_WIRE_VERSION /\ Encoded(ts)[3] = Len(ts)
         /\ \A i \in 1..Len(ts) : \A j \in 1..Len(make_tx_wire(ts[i])) :
              Encoded(ts)[TxEnd(ts, i - 1) + j] = make_tx_wire(ts[i])[j]
<1> DEFINE ss == Wires(ts)
           h == make_block_wire(Len(ts))
           w == FlattenSeq(ss)
           hw == h \o w
           e == hw \o Trailer
<1>1. /\ ss \in Seq(Seq(Nat)) /\ Len(ss) = Len(ts) /\ Len(ts) \in Nat
      /\ \A i \in 1..Len(ts) : ss[i] = make_tx_wire(ts[i]) /\ Len(ss[i]) \in Nat
  BY WiresType
<1>2. /\ h \in Seq(Nat) /\ Len(h) = 3 /\ h[1] = EXPECTED_WIRE_VERSION /\ h[3] = Len(ts)
  BY <1>1, WireAssumption, ThreeCells DEF make_block_wire
<1>3. Trailer \in Seq(Nat) /\ Len(Trailer) = 1
  BY OpaqueFacts DEF Trailer
<1>4. Encoded(ts) = e
  BY DEF Encoded, Wires
<1>5. /\ w \in Seq(Nat) /\ Len(w) = Offset(ss, Len(ss)) /\ Len(w) \in Nat
      /\ \A i \in 1..Len(ss) : Offset(ss, i) <= Len(w)
      /\ \A i \in 1..Len(ss) : \A j \in 1..Len(ss[i]) : w[Offset(ss, i - 1) + j] = ss[i][j]
  <2> HIDE DEF ss
  <2>1. w \in Seq(Nat)
    BY <1>1, FlattenFacts
  <2> QED
    BY <1>1, <2>1, FlattenFacts, LenProperties
<1>6. /\ \A k \in 0..Len(ss) : Offset(ss, k) \in Nat
      /\ \A k \in 1..Len(ss) : Offset(ss, k) = Offset(ss, k - 1) + Len(ss[k])
  <2> HIDE DEF ss
  <2> QED
    BY <1>1, OffsetFacts
<1>7. \A k : TxEnd(ts, k) = 3 + Offset(ss, k)
  BY DEF TxEnd
<1> HIDE DEF ss, h, w
<1>8. /\ hw \in Seq(Nat) /\ Len(hw) = 3 + Len(w)
      /\ \A i \in 1..(3 + Len(w)) : hw[i] = IF i <= 3 THEN h[i] ELSE w[i - 3]
  <2>0. h \in Seq(Nat) /\ w \in Seq(Nat)
    BY <1>2, <1>5
  <2>1. /\ hw \in Seq(Nat) /\ Len(hw) = Len(h) + Len(w)
        /\ \A i \in 1..(Len(h) + Len(w)) : hw[i] = IF i <= Len(h) THEN h[i] ELSE w[i - Len(h)]
    BY <2>0, ConcatProperties
  <2> HIDE DEF hw
  <2> QED
    BY <1>2, <2>1
<1> HIDE DEF hw
<1>9. /\ e \in Seq(Nat) /\ Len(e) = Len(hw) + Len(Trailer)
      /\ \A i \in 1..(Len(hw) + Len(Trailer)) : i <= Len(hw) => e[i] = hw[i]
  BY <1>3, <1>8, ConcatProperties
<1> HIDE DEF e
<1>10. \A i \in 1..(3 + Len(w)) : e[i] = IF i <= 3 THEN h[i] ELSE w[i - 3]
  <2>1. \A i \in 1..(3 + Len(w)) : i \in 1..(Len(hw) + Len(Trailer)) /\ i <= Len(hw)
    BY <1>3, <1>5, <1>8
  <2> QED
    BY <1>8, <1>9, <2>1
<1>11. e[1] = EXPECTED_WIRE_VERSION /\ e[3] = Len(ts)
  BY <1>2, <1>5, <1>10, SMTT(30)
<1>12. Len(e) = TxEnd(ts, Len(ts)) + Len(Trailer)
  <2>1. TxEnd(ts, Len(ts)) = 3 + Len(w)
    BY <1>1, <1>5, <1>7
  <2> QED
    BY <1>8, <1>9, <2>1
<1>13. ASSUME NEW i \in 1..Len(ts), NEW j \in 1..Len(make_tx_wire(ts[i]))
       PROVE  e[TxEnd(ts, i - 1) + j] = make_tx_wire(ts[i])[j]
  <2> DEFINE x == Offset(ss, i - 1)
             l == Len(ss[i])
             p == TxEnd(ts, i - 1)
  <2>1. i \in 1..Len(ss) /\ i - 1 \in 0..Len(ss) /\ j \in 1..Len(ss[i])
    BY <1>1
  <2>2. x \in Nat /\ l \in Nat /\ x + l <= Len(w) /\ p = 3 + x
    BY <1>1, <1>5, <1>6, <1>7, <2>1
  <2>3. w[x + j] = ss[i][j] /\ ss[i] = make_tx_wire(ts[i])
    BY <1>1, <1>5, <2>1
  <2>4. j \in 1..l
    BY <2>1
  <2> HIDE DEF x, l, p
  <2>5. p + j \in 1..(3 + Len(w)) /\ ~(p + j <= 3) /\ (p + j) - 3 = x + j
    BY <1>5, <2>2, <2>4
  <2>6. e[p + j] = w[x + j]
    BY <1>10, <2>5
  <2> QED
    BY <2>3, <2>6 DEF p
<1> QED
  BY <1>3, <1>4, <1>9, <1>11, <1>12, <1>13

\* EndOf is where a transaction ends.
LEMMA EndOfIsTxEnd ==
  ASSUME txs \in Seq(WireTxs), NEW i \in 1..Len(txs)
  PROVE  EndOf(i) = TxEnd(txs, i)
<1> DEFINE ts == SubSeq(txs, 1, i)
           f == Lengths(Wires(ts))
           g == Lengths(Wires(txs))
<1>1. Len(txs) \in Nat /\ \A k \in 1..i : txs[k] \in WireTxs
  <2>1. Len(txs) \in Nat /\ \A k \in 1..Len(txs) : txs[k] \in WireTxs
    BY LenProperties, ElementOfSeq
  <2> QED
    BY <2>1
<1>2. i \in Nat /\ i >= 1 /\ i <= Len(txs)
  BY <1>1
<1>3. ts \in Seq(WireTxs) /\ Len(ts) = i /\ \A k \in 1..i : ts[k] = txs[k]
  <2>1. /\ ts \in Seq(WireTxs)
        /\ Len(ts) = (IF 1 <= i THEN i - 1 + 1 ELSE 0)
        /\ \A k \in 1..(i - 1 + 1) : ts[k] = txs[1 + k - 1]
    BY <1>1, <1>2, SubSeqProperties
  <2>2. i - 1 + 1 = i /\ \A k \in 1..i : 1 + k - 1 = k
    BY <1>2
  <2> HIDE DEF ts
  <2> QED
    BY <1>2, <2>1, <2>2
<1> HIDE DEF ts
<1>4. \A k \in 1..i : f[k] \in Nat /\ f[k] = g[k]
  <2> SUFFICES ASSUME NEW k \in 1..i PROVE f[k] \in Nat /\ f[k] = g[k]
    OBVIOUS
  <2>1. k \in 1..Len(ts) /\ k \in 1..Len(txs)
    BY <1>2, <1>3
  <2>2. Wires(ts)[k] = make_tx_wire(ts[k]) /\ Len(Wires(ts)[k]) \in Nat /\ Len(Wires(ts)) = Len(ts)
    BY <1>3, <2>1, WiresType
  <2>3. Wires(txs)[k] = make_tx_wire(txs[k]) /\ Len(Wires(txs)) = Len(txs)
    BY <2>1, WiresType
  <2>4. f[k] = Len(Wires(ts)[k]) /\ g[k] = Len(Wires(txs)[k])
    BY <2>1, <2>2, <2>3 DEF Lengths
  <2> QED
    BY <1>3, <2>2, <2>3, <2>4
<1> HIDE DEF f, g
<1>5. SumTo(f, i) = SumTo(g, i)
  BY <1>2, <1>4, SumAgrees
<1>6. TxEnd(ts, i) = TxEnd(txs, i)
  BY <1>5 DEF TxEnd, Offset, f, g
<1>7. Len(Encoded(ts)) = TxEnd(ts, i) + Len(Trailer) /\ Len(Trailer) = 1
  BY <1>3, EncodedFacts
<1>8. TxEnd(ts, i) \in Nat
  <2>1. i \in 0..Len(ts)
    BY <1>2, <1>3
  <2> QED
    BY <1>3, <2>1, TxEndFacts
<1>9. Len(Encoded(ts)) - Len(Trailer) = TxEnd(ts, i)
  BY <1>7, <1>8
<1> QED
  BY <1>6, <1>9 DEF EndOf, ts

\* Where the i-th view ends, for any views.
EndsOf(vs, i) == BLOCK_HEADER_SIZE + SumTo([k \in 1..Len(vs) |-> vs[k].parsed_len], i)

\* A view ends as far behind the one before as it is long.
LEMMA EndsFacts ==
  ASSUME NEW vs, Len(vs) \in Nat, \A i \in 1..Len(vs) : vs[i].parsed_len \in Nat
  PROVE  /\ EndsOf(vs, 0) = 3
         /\ \A k \in 0..Len(vs) : EndsOf(vs, k) \in Nat
         /\ \A k \in 1..Len(vs) : EndsOf(vs, k) = EndsOf(vs, k - 1) + vs[k].parsed_len
<1> DEFINE f == [k \in 1..Len(vs) |-> vs[k].parsed_len]
           n == Len(vs)
<1>1. n \in Nat /\ \A i \in 1..n : f[i] \in Nat /\ f[i] = vs[i].parsed_len
  OBVIOUS
<1>2. \A k : EndsOf(vs, k) = 3 + SumTo(f, k)
  BY DEF EndsOf, BLOCK_HEADER_SIZE
<1> HIDE DEF f
<1>3. ASSUME NEW k \in 0..n
      PROVE  /\ SumTo(f, 0) = 0 /\ SumTo(f, k) \in Nat
             /\ k > 0 => SumTo(f, k) = SumTo(f, k - 1) + f[k]
  <2>1. k \in Nat /\ \A i \in 1..k : f[i] \in Nat /\ f[i] = f[i]
    BY <1>1
  <2>2. SumTo(f, k) \in Nat
    BY <2>1, SumAgrees
  <2>3. k \in Nat /\ \A i \in 1..k : f[i] \in Int
    BY <2>1
  <2>4. SumTo(f, 0) = 0 /\ (k > 0 => SumTo(f, k) = SumTo(f, k - 1) + f[k])
    BY <2>3, SumUnfolds
  <2> QED
    BY <2>2, <2>4
<1>4. EndsOf(vs, 0) = 3
  <2>1. 0 \in 0..n
    BY <1>1
  <2> QED
    BY <1>2, <1>3, <2>1
<1>5. \A k \in 0..n : EndsOf(vs, k) \in Nat
  BY <1>2, <1>3
<1>6. ASSUME NEW k \in 1..n
      PROVE  EndsOf(vs, k) = EndsOf(vs, k - 1) + vs[k].parsed_len
  <2>1. k \in 0..n /\ k > 0 /\ k - 1 \in 0..n
    BY <1>1
  <2>2. SumTo(f, k) = SumTo(f, k - 1) + f[k] /\ SumTo(f, k - 1) \in Nat /\ f[k] \in Nat
    BY <1>1, <1>3, <2>1
  <2>3. EndsOf(vs, k) = 3 + SumTo(f, k) /\ EndsOf(vs, k - 1) = 3 + SumTo(f, k - 1)
    BY <1>2
  <2>4. \A a, c \in Nat : 3 + (a + c) = (3 + a) + c
    OBVIOUS
  <2>5. EndsOf(vs, k) = EndsOf(vs, k - 1) + f[k]
    BY <2>2, <2>3, <2>4
  <2> QED
    BY <1>1, <2>5
<1> QED
  BY <1>4, <1>5, <1>6

\* Views of the same lengths end where the others do.
LEMMA EndsAgree ==
  ASSUME NEW vs, NEW ws, NEW n \in Nat, Len(vs) \in Nat, Len(ws) \in Nat,
         n <= Len(vs), n <= Len(ws),
         \A i \in 1..n : vs[i].parsed_len \in Nat /\ vs[i].parsed_len = ws[i].parsed_len
  PROVE  EndsOf(vs, n) = EndsOf(ws, n)
<1> DEFINE f == [k \in 1..Len(vs) |-> vs[k].parsed_len]
           g == [k \in 1..Len(ws) |-> ws[k].parsed_len]
<1>1. \A i \in 1..n : f[i] \in Nat /\ f[i] = g[i]
  OBVIOUS
<1> HIDE DEF f, g
<1>2. SumTo(f, n) = SumTo(g, n)
  BY <1>1, SumAgrees
<1> QED
  BY <1>2 DEF EndsOf, f, g

\* The cells behind a position.
Behind(d, p) == SubSeq(d, p + 1, Len(d))

\* What lies behind a position is the rest of the buffer.
LEMMA BehindFacts ==
  ASSUME NEW d \in Seq(Nat), NEW p \in Nat, p <= Len(d)
  PROVE  /\ Behind(d, p) \in Seq(Nat) /\ Len(d) \in Nat
         /\ Len(Behind(d, p)) = Len(d) - p
         /\ \A j \in 1..(Len(d) - p) : Behind(d, p)[j] = d[p + j]
<1> DEFINE n == Len(d)
           e == SubSeq(d, p + 1, n)
<1>1. n \in Nat /\ \A j \in 1..n : d[j] \in Nat
  BY LenProperties, ElementOfSeq
<1> HIDE DEF n
<1>2. p + 1 \in Int /\ n \in Int /\ \A j \in (p + 1)..n : d[j] \in Nat
  BY <1>1
<1>3. /\ e \in Seq(Nat)
      /\ Len(e) = (IF p + 1 <= n THEN n - (p + 1) + 1 ELSE 0)
      /\ \A j \in 1..(n - (p + 1) + 1) : e[j] = d[(p + 1) + j - 1]
  BY <1>2, SubSeqProperties
<1> HIDE DEF e
<1>4. n - (p + 1) + 1 = n - p /\ \A j \in 1..(n - p) : (p + 1) + j - 1 = p + j
  BY <1>1
<1>5. p <= n
  BY DEF n
<1>6. Len(e) = n - p
  BY <1>1, <1>3, <1>4, <1>5
<1>7. \A j \in 1..(n - p) : e[j] = d[p + j]
  BY <1>3, <1>4
<1> QED
  BY <1>1, <1>3, <1>6, <1>7 DEF Behind, e, n

\* The parts of the invariant: the buffer is as encoded before the damage;
\* every view is what TxView reads behind the one before it; and it is the
\* transaction that was encoded there, if that lies before the damage.
IsReceived(ts, d, n) ==
  /\ ts \in Seq(WireTxs) /\ d \in Seq(Nat) /\ n \in Nat
  /\ n <= Len(d) /\ n <= Len(Encoded(ts))
  /\ \A k \in 1..n : d[k] = Encoded(ts)[k]
AreViews(vs, d) ==
  /\ vs \in Seq({TxView(e) : e \in Seq(Nat)})
  /\ \A i \in 1..Len(vs) : /\ vs[i] # NoView /\ vs[i].parsed_len \in Nat
                           /\ vs[i] = TxView(Behind(d, EndsOf(vs, i - 1)))
                           /\ EndsOf(vs, i) <= Len(d)
AreExact(vs, ts, n) ==
  \A i \in 1..Len(vs) : i <= Len(ts) /\ TxEnd(ts, i) <= n => vs[i] = ViewOf(ts[i])

\* A view of an encoded transaction is a view.
LEMMA ViewOfFacts ==
  ASSUME NEW t \in WireTxs
  PROVE  /\ ViewOf(t).parsed_len = Len(make_tx_wire(t)) /\ Len(make_tx_wire(t)) \in Nat
         /\ ViewOf(t) # NoView
<1>1. Len(make_tx_wire(t)) \in Nat
  BY TxWireType, LenProperties
<1>2. ViewOf(t).parsed_len = Len(make_tx_wire(t))
  BY DEF ViewOf
<1>3. NoView.parsed_len = -1
  BY DEF NoView, None
<1> QED
  BY <1>1, <1>2, <1>3

\* Behind exact views lies the next transaction, and TxView reads it.
LEMMA NextIsExact ==
  ASSUME NEW ts, NEW d, NEW n, NEW vs, IsReceived(ts, d, n), AreViews(vs, d),
         AreExact(vs, ts, n), Len(vs) + 1 <= Len(ts), TxEnd(ts, Len(vs) + 1) <= n
  PROVE  TxView(Behind(d, EndsOf(vs, Len(vs)))) = ViewOf(ts[Len(vs) + 1])
<1> DEFINE m == Len(vs)
           t == ts[m + 1]
           w == make_tx_wire(t)
           p == TxEnd(ts, m)
           q == TxEnd(ts, m + 1)
           b == Behind(d, p)
<1>0. Len(vs) \in Nat
  BY LenProperties DEF AreViews
<1>1. /\ ts \in Seq(WireTxs) /\ d \in Seq(Nat) /\ n \in Nat
      /\ n <= Len(d) /\ n <= Len(Encoded(ts))
      /\ \A k \in 1..n : d[k] = Encoded(ts)[k]
  BY DEF IsReceived
<1>2. Len(ts) \in Nat /\ m \in 0..Len(ts) /\ m + 1 \in 1..Len(ts) /\ m + 1 \in 0..Len(ts)
      /\ (m + 1) - 1 = m
  <2>1. Len(ts) \in Nat
    BY <1>1, LenProperties
  <2> QED
    BY <1>0, <2>1
<1>3. \A i \in 1..m : i \in 1..Len(ts) /\ i \in 0..(m + 1) /\ i <= Len(ts)
  BY <1>0, <1>2
<1>4. \A i \in 1..m : vs[i] = ViewOf(ts[i])
  <2> SUFFICES ASSUME NEW i \in 1..m PROVE vs[i] = ViewOf(ts[i])
    OBVIOUS
  <2>1. TxEnd(ts, i) <= TxEnd(ts, m + 1)
    BY <1>1, <1>2, <1>3, TxEndGrows
  <2>2. TxEnd(ts, i) \in Nat /\ TxEnd(ts, m + 1) \in Nat
    <3>1. i \in 0..Len(ts)
      BY <1>2, <1>3
    <3> QED
      BY <1>1, <1>2, <3>1, TxEndFacts
  <2>3. TxEnd(ts, i) <= n
    BY <1>1, <2>1, <2>2
  <2> QED
    BY <1>3, <2>3 DEF AreExact
<1>5. \A i \in 1..m : ts[i] \in WireTxs
  BY <1>1, <1>3, WiresType
<1>6. EndsOf(vs, m) = p
  <2> DEFINE f == [k \in 1..Len(vs) |-> vs[k].parsed_len]
             g == Lengths(Wires(ts))
  <2>1. \A i \in 1..m : f[i] \in Nat /\ f[i] = g[i]
    <3> SUFFICES ASSUME NEW i \in 1..m PROVE f[i] \in Nat /\ f[i] = g[i]
      OBVIOUS
    <3>1. f[i] = ViewOf(ts[i]).parsed_len
      BY <1>4
    <3>2. f[i] = Len(make_tx_wire(ts[i])) /\ f[i] \in Nat
      BY <1>5, <3>1, ViewOfFacts
    <3>3. g[i] = Len(make_tx_wire(ts[i]))
      BY <1>1, <1>3, WiresType DEF Lengths
    <3> QED
      BY <3>2, <3>3
  <2> HIDE DEF f, g
  <2>2. SumTo(f, m) = SumTo(g, m)
    BY <1>0, <2>1, SumAgrees
  <2> QED
    BY <2>2 DEF EndsOf, TxEnd, Offset, BLOCK_HEADER_SIZE, f, g
<1>7. t \in WireTxs /\ Len(w) \in Nat
  <2>1. t \in WireTxs
    BY <1>1, <1>2, WiresType
  <2> QED
    BY <2>1, ViewOfFacts
<1>8. p \in Nat /\ q = p + Len(w) /\ q <= n
  BY <1>1, <1>2, TxEndFacts
<1>9. \A j \in 1..Len(w) : Encoded(ts)[p + j] = w[j]
  BY <1>1, <1>2, EncodedFacts
<1> HIDE DEF m, t, w, p, q
<1>10. p <= Len(d) /\ Len(d) \in Nat
  <2>1. Len(d) \in Nat
    BY <1>1, LenProperties
  <2> QED
    BY <1>1, <1>7, <1>8, <2>1
<1>11. /\ b \in Seq(Nat) /\ Len(b) = Len(d) - p
       /\ \A j \in 1..(Len(d) - p) : b[j] = d[p + j]
  BY <1>1, <1>8, <1>10, BehindFacts
<1> HIDE DEF b
<1>12. Holds(b, 0, w) /\ Len(b) \in Nat
  <2>1. Len(b) \in Nat /\ 0 + Len(w) <= Len(b)
    BY <1>1, <1>7, <1>8, <1>10, <1>11
  <2>2. ASSUME NEW j \in 1..Len(w) PROVE b[0 + j] = w[j]
    <3>1. 0 + j = j /\ j \in 1..(Len(d) - p) /\ p + j \in 1..n
      BY <1>1, <1>7, <1>8, <1>10
    <3>2. b[j] = Encoded(ts)[p + j]
      BY <1>1, <1>11, <3>1
    <3> QED
      BY <1>9, <3>1, <3>2
  <2> QED
    BY <2>1, <2>2 DEF Holds
<1>13. TxView(b) = ViewOf(t)
  BY <1>7, <1>12, TxViewExact DEF w
<1> QED
  BY <1>6, <1>13 DEF b, t, m

\* The view read behind the others is one more.
LEMMA OneMoreView ==
  ASSUME NEW d \in Seq(Nat), NEW vs, AreViews(vs, d), EndsOf(vs, Len(vs)) <= Len(d),
         NEW view, view = TxView(Behind(d, EndsOf(vs, Len(vs)))), view # NoView
  PROVE  /\ AreViews(Append(vs, view), d)
         /\ Len(Append(vs, view)) = Len(vs) + 1
         /\ \A i \in 1..Len(vs) : Append(vs, view)[i] = vs[i]
         /\ Append(vs, view)[Len(vs) + 1] = view
         /\ EndsOf(Append(vs, view), Len(vs) + 1) = skip(d, EndsOf(vs, Len(vs)), view.parsed_len)
         /\ EndsOf(Append(vs, view), Len(vs) + 1) <= Len(d)
<1> DEFINE V == {TxView(e) : e \in Seq(Nat)}
           m == Len(vs)
           ws == Append(vs, view)
           p == EndsOf(vs, m)
           b == Behind(d, p)
<1>1. vs \in Seq(V) /\ m \in Nat
  BY LenProperties DEF AreViews
<1>2. /\ \A i \in 1..m : vs[i].parsed_len \in Nat
      /\ \A i \in 1..m : /\ vs[i] # NoView
                         /\ vs[i] = TxView(Behind(d, EndsOf(vs, i - 1)))
                         /\ EndsOf(vs, i) <= Len(d)
  BY DEF AreViews
<1>3. EndsOf(vs, 0) = 3 /\ p \in Nat
  <2>1. m \in 0..m
    BY <1>1
  <2> QED
    BY <1>1, <1>2, <2>1, EndsFacts
<1>4. b \in Seq(Nat) /\ Len(b) = Len(d) - p /\ Len(d) \in Nat
  BY <1>3, BehindFacts
<1>5. view \in V
  BY <1>4
<1>6. view.parsed_len \in Nat /\ view.parsed_len <= Len(b)
  BY <1>4, MinFeeExact
<1> HIDE DEF V, b, p
<1>7. /\ ws \in Seq(V) /\ Len(ws) = m + 1
      /\ \A i \in 1..m : ws[i] = vs[i]
      /\ ws[m + 1] = view
  BY <1>1, <1>5, AppendProperties
<1> HIDE DEF ws
<1>8. \A i \in 1..Len(ws) : ws[i].parsed_len \in Nat
  <2>1. \A i \in 1..Len(ws) : i \in 1..m \/ i = m + 1
    BY <1>1, <1>7
  <2> QED
    BY <1>2, <1>6, <1>7, <2>1
<1>9. \A k \in 0..m : EndsOf(ws, k) = EndsOf(vs, k)
  <2> SUFFICES ASSUME NEW k \in 0..m PROVE EndsOf(ws, k) = EndsOf(vs, k)
    OBVIOUS
  <2>1. k \in Nat /\ k <= Len(vs) /\ k <= Len(ws) /\ \A i \in 1..k : i \in 1..m
    BY <1>1, <1>7
  <2>2. \A i \in 1..k : vs[i].parsed_len \in Nat /\ vs[i].parsed_len = ws[i].parsed_len
    BY <1>2, <1>7, <2>1
  <2>3. Len(ws) \in Nat /\ Len(vs) \in Nat
    BY <1>1, <1>7
  <2> QED
    BY <2>1, <2>2, <2>3, EndsAgree
<1>10. EndsOf(ws, m + 1) = p + view.parsed_len
  <2>1. m + 1 \in 1..Len(ws) /\ (m + 1) - 1 = m /\ m \in 0..m /\ Len(ws) \in Nat
    BY <1>1, <1>7
  <2>2. EndsOf(ws, m + 1) = EndsOf(ws, (m + 1) - 1) + ws[m + 1].parsed_len
    BY <1>8, <2>1, EndsFacts
  <2> QED
    BY <1>7, <1>9, <2>1, <2>2 DEF p
<1>11. p + view.parsed_len <= Len(d)
  BY <1>3, <1>4, <1>6
<1>12. skip(d, p, view.parsed_len) = p + view.parsed_len
  BY <1>3, <1>4, <1>6, <1>11, SkipFacts
<1>13. ASSUME NEW i \in 1..Len(ws)
       PROVE  /\ ws[i] # NoView /\ ws[i].parsed_len \in Nat
              /\ ws[i] = TxView(Behind(d, EndsOf(ws, i - 1)))
              /\ EndsOf(ws, i) <= Len(d)
  <2>1. CASE i \in 1..m
    <3>1. i \in 0..m /\ i - 1 \in 0..m
      BY <1>1, <2>1
    <3> QED
      BY <1>2, <1>7, <1>9, <2>1, <3>1
  <2>2. CASE i = m + 1
    <3>1. i - 1 = m /\ m \in 0..m
      BY <1>1, <2>2
    <3>2. EndsOf(ws, i - 1) = p
      BY <1>9, <3>1 DEF p
    <3> QED
      BY <1>6, <1>7, <1>10, <1>11, <2>2, <3>2 DEF b, p
  <2> QED
    BY <1>1, <1>7, <2>1, <2>2
<1>14. AreViews(ws, d)
  BY <1>7, <1>13 DEF AreViews, V
<1> QED
  BY <1>7, <1>10, <1>11, <1>12, <1>14 DEF ws, p, m

\* check_min_fee finds the fee of every view.
LEMMA ViewsHaveFees ==
  ASSUME NEW d \in Seq(Nat), NEW vs, AreViews(vs, d), 3 <= Len(d), NEW i \in 1..Len(vs)
  PROVE  LET raw == SubSeq(d, EndsOf(vs, i - 1) + 1, EndsOf(vs, i))
         IN  check_min_fee(raw, vs[i].fee) /\ ~check_min_fee(raw, vs[i].fee + 1)
<1> DEFINE p == EndsOf(vs, i - 1)
           q == EndsOf(vs, i)
           b == Behind(d, p)
           l == vs[i].parsed_len
           raw == SubSeq(d, p + 1, q)
<1>1. Len(vs) \in Nat
  BY LenProperties DEF AreViews
<1>2. /\ \A k \in 1..Len(vs) : vs[k].parsed_len \in Nat
      /\ \A k \in 1..Len(vs) : EndsOf(vs, k) <= Len(d)
      /\ vs[i] # NoView /\ vs[i] = TxView(b) /\ l \in Nat
  BY DEF AreViews
<1>3. i \in 0..Len(vs) /\ i - 1 \in 0..Len(vs) /\ (i - 1 \in 1..Len(vs) \/ i - 1 = 0)
  BY <1>1
<1>4. p \in Nat /\ q \in Nat /\ q = p + l /\ EndsOf(vs, 0) = 3
  BY <1>1, <1>2, <1>3, EndsFacts
<1>5. p <= Len(d) /\ q <= Len(d)
  BY <1>2, <1>3, <1>4
<1>6. /\ b \in Seq(Nat) /\ Len(b) = Len(d) - p /\ Len(d) \in Nat
      /\ \A j \in 1..(Len(d) - p) : b[j] = d[p + j]
  BY <1>4, <1>5, BehindFacts
<1>7. \A e : IsCut(e, b, l) => check_min_fee(e, vs[i].fee) /\ ~check_min_fee(e, vs[i].fee + 1)
  <2> HIDE DEF b
  <2>1. TxView(b) # NoView
    BY <1>2
  <2> QED
    BY <1>2, <1>6, <2>1, MinFeeExact
<1>8. \A j \in 1..Len(d) : d[j] \in Nat
  BY ElementOfSeq
<1> HIDE DEF p, q, b, l
<1>9. p + 1 \in Int /\ q \in Int /\ \A j \in (p + 1)..q : d[j] \in Nat
  BY <1>4, <1>5, <1>6, <1>8, SMTT(30)
<1>10. /\ Len(raw) = (IF p + 1 <= q THEN q - (p + 1) + 1 ELSE 0)
       /\ \A j \in 1..(q - (p + 1) + 1) : raw[j] = d[(p + 1) + j - 1]
  BY <1>9, SubSeqProperties
<1> HIDE DEF raw
<1>11. q - (p + 1) + 1 = l /\ \A j \in 1..l : (p + 1) + j - 1 = p + j
  BY <1>2, <1>4
<1>12. Len(raw) = l /\ \A j \in 1..l : raw[j] = d[p + j]
  <2>1. Len(raw) = l
    BY <1>2, <1>4, <1>10, <1>11
  <2> QED
    BY <1>10, <1>11, <2>1
<1>13. Len(b) \in Nat /\ l \in 0..Len(b) /\ \A j \in 1..l : j \in 1..(Len(d) - p)
  BY <1>2, <1>4, <1>5, <1>6
<1>14. \A j \in 1..Len(b) : b[j] \in Nat
  BY <1>6, ElementOfSeq
<1>15. IsCut(raw, b, l)
  BY <1>6, <1>12, <1>13, <1>14 DEF IsCut
<1>16. check_min_fee(raw, vs[i].fee) /\ ~check_min_fee(raw, vs[i].fee + 1)
  BY <1>7, <1>15
<1> QED
  BY <1>16 DEF raw, p, q

\* The invariant of the decoder: between its steps the iterator is behind the
\* last view, and has as many transactions before it as the header says, if the
\* header is intact; it stops behind everything intact.
WireInv ==
  /\ IsReceived(txs, data, damage)
  /\ AreViews(views, data)
  /\ AreExact(views, txs, damage)
  /\ cursor # None => /\ cursor = EndsOf(views, Len(views)) /\ cursor <= Len(data)
                      /\ BLOCK_HEADER_SIZE <= Len(data)
                      /\ BLOCK_HEADER_SIZE <= damage => remaining + Len(views) = Len(txs)
  /\ cursor = None => views = <<>>
  /\ remaining \in Nat
  /\ stopped => \A i \in 1..Len(txs) : TxEnd(txs, i) <= damage => i <= Len(views)

\* No views are views, and exact.
LEMMA NoViews ==
  ASSUME NEW d, NEW ts, NEW n
  PROVE  /\ AreViews(<<>>, d) /\ AreExact(<<>>, ts, n)
         /\ Len(<<>>) = 0 /\ EndsOf(<<>>, 0) = 3
<1> DEFINE V == {TxView(e) : e \in Seq(Nat)}
           vs == <<>>
<1>1. vs \in Seq(V) /\ Len(vs) = 0
  BY EmptySeq
<1>2. 1..Len(vs) = {}
  BY <1>1
<1> HIDE DEF V, vs
<1>3. AreViews(vs, d)
  BY <1>1, <1>2 DEF AreViews, V
<1>4. AreExact(vs, ts, n)
  BY <1>2 DEF AreExact
<1>5. EndsOf(vs, 0) = 3
  BY <1>1, <1>2, EndsFacts
<1> QED
  BY <1>1, <1>3, <1>4, <1>5 DEF vs

\* A block that is cut short is as encoded before that.
LEMMA CutIsReceived ==
  ASSUME NEW ts \in Seq(WireTxs), NEW n \in 0..Len(Encoded(ts))
  PROVE  IsReceived(ts, SubSeq(Encoded(ts), 1, n), n)
<1> DEFINE w == Encoded(ts)
           d == SubSeq(w, 1, n)
<1>1. w \in Seq(Nat) /\ Len(w) \in Nat /\ \A k \in 1..Len(w) : w[k] \in Nat
  BY EncodedFacts, LenProperties, ElementOfSeq
<1> HIDE DEF w
<1>2. n \in 0..Len(w)
  BY DEF w
<1>3. n \in Nat /\ n <= Len(w) /\ \A k \in 1..n : w[k] \in Nat
  BY <1>1, <1>2
<1>4. /\ d \in Seq(Nat) /\ Len(d) = (IF 1 <= n THEN n - 1 + 1 ELSE 0)
      /\ \A k \in 1..(n - 1 + 1) : d[k] = w[1 + k - 1]
  BY <1>3, SubSeqProperties
<1> HIDE DEF d
<1>5. n - 1 + 1 = n /\ \A k \in 1..n : 1 + k - 1 = k
  BY <1>3
<1>6. Len(d) = n /\ \A k \in 1..n : d[k] = w[k]
  <2>1. Len(d) = n
    BY <1>3, <1>4, <1>5
  <2> QED
    BY <1>4, <1>5, <2>1
<1>7. n <= Len(d)
  BY <1>3, <1>6
<1> QED
  BY <1>3, <1>4, <1>6, <1>7 DEF IsReceived, d, w

\* The same with one cell changed.
LEMMA ChangedIsReceived ==
  ASSUME NEW ts \in Seq(WireTxs), NEW i \in 1..Len(Encoded(ts)), NEW c \in Cells
  PROVE  IsReceived(ts, [Encoded(ts) EXCEPT ![i] = c], i - 1)
<1> DEFINE w == Encoded(ts)
           d == [w EXCEPT ![i] = c]
<1>1. w \in Seq(Nat) /\ Len(w) \in Nat /\ c \in Nat
  BY EncodedFacts, LenProperties, WireAssumption
<1> HIDE DEF w
<1>2. i \in 1..Len(w)
  BY DEF w
<1>3. /\ d \in Seq(Nat) /\ Len(d) = Len(w)
      /\ \A j \in 1..Len(w) : d[j] = IF j = i THEN c ELSE w[j]
  BY <1>1, <1>2, ExceptSeq
<1> HIDE DEF d
<1>4. i - 1 \in Nat /\ i - 1 <= Len(w) /\ \A k \in 1..(i - 1) : k \in 1..Len(w) /\ k # i
  BY <1>1, <1>2
<1>5. i - 1 <= Len(d) /\ \A k \in 1..(i - 1) : d[k] = w[k]
  BY <1>3, <1>4
<1> QED
  BY <1>3, <1>4, <1>5 DEF IsReceived, d, w

\* A buffer that was received and not yet opened.
LEMMA WireInitEstablishesInv ==
  ASSUME NEW blocks, blocks \subseteq Seq(WireTxs), WireInit(blocks)
  PROVE  WireInv
<1>1. txs \in Seq(WireTxs)
  BY DEF WireInit
<1>2. IsReceived(txs, data, damage)
  <2>1. CASE \E n \in 0..Len(Encoded(txs)) : Cut(n)
    <3>1. PICK n \in 0..Len(Encoded(txs)) : Cut(n)
      BY <2>1
    <3> QED
      BY <1>1, <3>1, CutIsReceived DEF Cut
  <2>2. CASE \E i \in 1..Len(Encoded(txs)), c \in Cells : Changed(i, c)
    <3>1. PICK i \in 1..Len(Encoded(txs)), c \in Cells : Changed(i, c)
      BY <2>2
    <3> QED
      BY <1>1, <3>1, ChangedIsReceived DEF Changed
  <2> QED
    BY <2>1, <2>2 DEF WireInit
<1>3. cursor = None /\ remaining = 0 /\ views = <<>> /\ stopped = FALSE
  BY DEF WireInit
<1>4. AreViews(views, data) /\ AreExact(views, txs, damage)
  BY <1>3, NoViews
<1> QED
  BY <1>2, <1>3, <1>4 DEF WireInv

\* A transaction before the damage is behind a header before the damage.
LEMMA IntactHeader ==
  ASSUME NEW ts, NEW d, NEW n, IsReceived(ts, d, n), 3 <= n
  PROVE  VersionOK(d) /\ BLOCK_HEADER_SIZE <= Len(d) /\ d[3] = Len(ts)
<1>1. /\ ts \in Seq(WireTxs) /\ d \in Seq(Nat) /\ n \in Nat /\ n <= Len(d)
      /\ \A k \in 1..n : d[k] = Encoded(ts)[k]
  BY DEF IsReceived
<1>2. Len(d) \in Nat
  BY <1>1, LenProperties
<1>3. 1 \in 1..n /\ 3 \in 1..n
  BY <1>1
<1>4. d[1] = EXPECTED_WIRE_VERSION /\ d[3] = Len(ts)
  BY <1>1, <1>3, EncodedFacts
<1>5. 3 <= Len(d) /\ d # <<>>
  BY <1>1, <1>2
<1> QED
  BY <1>4, <1>5 DEF VersionOK, BLOCK_HEADER_SIZE

\* Where a transaction is intact the header before it is.
LEMMA IntactEnd ==
  ASSUME NEW ts, NEW d, NEW n, IsReceived(ts, d, n), NEW i \in 1..Len(ts), TxEnd(ts, i) <= n
  PROVE  3 <= n
<1>1. ts \in Seq(WireTxs) /\ n \in Nat
  BY DEF IsReceived
<1>2. i \in 0..Len(ts)
  <2>1. Len(ts) \in Nat
    BY <1>1, LenProperties
  <2> QED
    BY <2>1
<1>3. TxEnd(ts, i) \in Nat /\ TxEnd(ts, i) >= 3
  BY <1>1, <1>2, TxEndFacts
<1> QED
  BY <1>1, <1>3

\* BlockView::parse accepts an intact header.
LEMMA OpenPreservesInv == WireInv /\ Open => WireInv'
<1> SUFFICES ASSUME WireInv, Open PROVE WireInv'
  OBVIOUS
<1>1. /\ IsReceived(txs, data, damage) /\ AreViews(views, data)
      /\ AreExact(views, txs, damage) /\ views = <<>> /\ remaining \in Nat
  BY DEF WireInv, Open
<1>2. UNCHANGED <<txs, data, damage, views>>
  BY DEF Open
<1>3. IsReceived(txs, data, damage)' /\ AreViews(views, data)' /\ AreExact(views, txs, damage)'
  BY <1>1, <1>2
<1>4. Len(views) = 0 /\ EndsOf(views, Len(views)) = 3
  BY <1>1, NoViews
<1>5. /\ txs \in Seq(WireTxs) /\ data \in Seq(Nat) /\ damage \in Nat
      /\ Len(data) \in Nat /\ Len(txs) \in Nat
  BY <1>1, LenProperties DEF IsReceived
<1>6. CASE VersionOK(data) /\ BLOCK_HEADER_SIZE <= Len(data)
  <2>1. /\ cursor' = 3 /\ remaining' = data[3] /\ stopped' = stopped /\ ~stopped
    BY <1>6 DEF Open, BLOCK_HEADER_SIZE
  <2>2. 3 <= Len(data) /\ 3 \in 1..Len(data)
    BY <1>5, <1>6 DEF BLOCK_HEADER_SIZE
  <2>3. remaining' \in Nat
    BY <1>5, <2>1, <2>2, ElementOfSeq
  <2>4. 3 <= damage => remaining' + Len(views) = Len(txs)
    <3> SUFFICES ASSUME 3 <= damage PROVE remaining' + Len(views) = Len(txs)
      OBVIOUS
    <3>1. remaining' = Len(txs)
      BY <1>1, <2>1, IntactHeader
    <3> QED
      BY <1>4, <1>5, <3>1
  <2>5. cursor' # None
    BY <2>1 DEF None
  <2>6. /\ cursor' = EndsOf(views', Len(views')) /\ cursor' <= Len(data')
        /\ BLOCK_HEADER_SIZE <= Len(data')
        /\ BLOCK_HEADER_SIZE <= damage' => remaining' + Len(views') = Len(txs')
    BY <1>2, <1>4, <2>1, <2>2, <2>4 DEF BLOCK_HEADER_SIZE
  <2> QED
    BY <1>3, <2>1, <2>3, <2>5, <2>6 DEF WireInv
<1>7. CASE ~(VersionOK(data) /\ BLOCK_HEADER_SIZE <= Len(data))
  <2>1. cursor' = None /\ remaining' = remaining
    BY <1>7 DEF Open
  <2>2. \A i \in 1..Len(txs) : ~(TxEnd(txs, i) <= damage)
    BY <1>1, <1>7, IntactEnd, IntactHeader
  <2> QED
    BY <1>1, <1>2, <1>3, <2>1, <2>2 DEF WireInv
<1> QED
  BY <1>6, <1>7

\* BlockTxIter::next views the next transaction if it is intact, and else either
\* views cells that lie in the buffer or stops.
LEMMA NextPreservesWireInv == WireInv /\ next => WireInv'
<1> SUFFICES ASSUME WireInv, next PROVE WireInv'
  OBVIOUS
<1> DEFINE m == Len(views)
           p == EndsOf(views, m)
           view == TxView(Behind(data, p))
           ws == Append(views, view)
<1>1. /\ IsReceived(txs, data, damage) /\ AreViews(views, data)
      /\ AreExact(views, txs, damage) /\ remaining \in Nat
      /\ cursor = p /\ p <= Len(data) /\ BLOCK_HEADER_SIZE <= Len(data)
      /\ BLOCK_HEADER_SIZE <= damage => remaining + m = Len(txs)
      /\ cursor # None /\ ~stopped
  BY DEF WireInv, next
<1>2. UNCHANGED <<txs, data, damage>>
  BY DEF next
<1>3. IsReceived(txs, data, damage)'
  BY <1>1, <1>2
<1>4. /\ txs \in Seq(WireTxs) /\ data \in Seq(Nat) /\ damage \in Nat
      /\ Len(data) \in Nat /\ Len(txs) \in Nat /\ m \in Nat
  <2>1. m \in Nat
    BY <1>1, LenProperties DEF AreViews
  <2> QED
    BY <1>1, <2>1, LenProperties DEF IsReceived
<1>5. view = TxView(SubSeq(data, cursor + 1, Len(data)))
  BY <1>1 DEF Behind
<1>6. m + 1 <= Len(txs) /\ TxEnd(txs, m + 1) <= damage => view = ViewOf(txs[m + 1])
  BY <1>1, NextIsExact
<1> HIDE DEF p, view
<1>7. CASE remaining = 0 \/ view = NoView
  <2>1. stopped' = TRUE /\ UNCHANGED <<cursor, remaining, views>>
    BY <1>5, <1>7 DEF next
  <2>2. ASSUME NEW i \in 1..Len(txs), TxEnd(txs, i) <= damage PROVE i <= m
    <3> SUFFICES ASSUME ~(i <= m) PROVE FALSE
      OBVIOUS
    <3>1. m + 1 \in 1..Len(txs) /\ m + 1 \in 0..i /\ m + 1 <= Len(txs)
      BY <1>4
    <3>2. TxEnd(txs, m + 1) <= TxEnd(txs, i)
      BY <1>4, <3>1, TxEndGrows
    <3>3. TxEnd(txs, m + 1) \in Nat /\ TxEnd(txs, i) \in Nat
      <4>1. m + 1 \in 0..Len(txs) /\ i \in 0..Len(txs)
        BY <1>4, <3>1
      <4> QED
        BY <1>4, <4>1, TxEndFacts
    <3>4. TxEnd(txs, m + 1) <= damage
      BY <1>4, <2>2, <3>2, <3>3
    <3>5. view = ViewOf(txs[m + 1])
      BY <1>6, <3>1, <3>4
    <3>6. txs[m + 1] \in WireTxs
      BY <1>4, <3>1, ElementOfSeq
    <3>7. view # NoView
      BY <3>5, <3>6, ViewOfFacts
    <3>8. remaining + m = Len(txs)
      BY <1>1, <2>2, IntactEnd DEF BLOCK_HEADER_SIZE
    <3>9. remaining # 0
      BY <1>1, <1>4, <3>1, <3>8
    <3> QED
      BY <1>7, <3>7, <3>9
  <2>3. \A i \in 1..Len(txs) : TxEnd(txs, i) <= damage => i <= m
    BY <2>2
  <2> QED
    BY <1>1, <1>2, <1>3, <2>1, <2>3 DEF WireInv, p
<1>8. CASE remaining # 0 /\ view # NoView
  <2>1. /\ cursor' = skip(data, p, view.parsed_len) /\ remaining' = remaining - 1
        /\ views' = ws /\ stopped' = stopped
    BY <1>1, <1>5, <1>8 DEF next
  <2>2. /\ AreViews(ws, data) /\ Len(ws) = m + 1
        /\ \A i \in 1..m : ws[i] = views[i]
        /\ ws[m + 1] = view
        /\ EndsOf(ws, m + 1) = skip(data, p, view.parsed_len)
        /\ EndsOf(ws, m + 1) <= Len(data)
    BY <1>1, <1>4, <1>8, OneMoreView DEF p, view
  <2> HIDE DEF ws
  <2>3. AreExact(ws, txs, damage)
    <3> SUFFICES ASSUME NEW i \in 1..Len(ws), i <= Len(txs), TxEnd(txs, i) <= damage
                 PROVE  ws[i] = ViewOf(txs[i])
      BY DEF AreExact
    <3>1. CASE i \in 1..m
      BY <1>1, <2>2, <3>1 DEF AreExact
    <3>2. CASE i = m + 1
      BY <1>6, <2>2, <3>2
    <3> QED
      BY <1>4, <2>2, <3>1, <3>2
  <2>4. remaining' \in Nat /\ (remaining + m = Len(txs) => remaining' + (m + 1) = Len(txs))
    BY <1>1, <1>4, <1>8, <2>1
  <2>5. /\ cursor' = EndsOf(views', Len(views')) /\ cursor' <= Len(data')
        /\ BLOCK_HEADER_SIZE <= Len(data')
        /\ BLOCK_HEADER_SIZE <= damage' => remaining' + Len(views') = Len(txs')
    BY <1>1, <1>2, <2>1, <2>2, <2>4
  <2>6. cursor' # None
    <3>1. m + 1 \in 0..Len(ws) /\ Len(ws) \in Nat
      BY <1>4, <2>2
    <3>2. \A i \in 1..Len(ws) : ws[i].parsed_len \in Nat
      BY <2>2 DEF AreViews
    <3>3. EndsOf(ws, m + 1) \in Nat
      BY <3>1, <3>2, EndsFacts
    <3> QED
      BY <2>1, <2>2, <3>3 DEF None
  <2>7. AreViews(views', data') /\ AreExact(views', txs', damage') /\ ~stopped'
    BY <1>1, <1>2, <2>1, <2>2, <2>3
  <2> QED
    BY <1>3, <2>4, <2>5, <2>6, <2>7 DEF WireInv
<1> QED
  BY <1>7, <1>8

\* The invariant says of the views what ViewsAreExact does.
LEMMA WireInvImpliesExact == WireInv => ViewsAreExact
<1> SUFFICES ASSUME WireInv PROVE ViewsAreExact
  OBVIOUS
<1>1. /\ IsReceived(txs, data, damage) /\ AreViews(views, data)
      /\ AreExact(views, txs, damage)
  BY DEF WireInv
<1>2. txs \in Seq(WireTxs) /\ data \in Seq(Nat) /\ damage \in Nat /\ Len(txs) \in Nat
  BY <1>1, LenProperties DEF IsReceived
<1>3. \A i : ViewEnd(i) = EndsOf(views, i)
  BY DEF ViewEnd, EndsOf
<1>4. \A i \in 1..Len(txs) : EndOf(i) = TxEnd(txs, i)
  BY <1>2, EndOfIsTxEnd
<1>5. cursor # None => cursor = ViewEnd(Len(views)) /\ cursor <= Len(data)
  BY <1>3 DEF WireInv
<1> DEFINE intact == {i \in 1..Len(txs) : EndOf(i) <= damage}
<1>6. \A i \in intact \cap 1..Len(views) : views[i] = ViewOf(txs[i])
  <2> SUFFICES ASSUME NEW i \in 1..Len(txs), EndOf(i) <= damage, i \in 1..Len(views)
               PROVE  views[i] = ViewOf(txs[i])
    OBVIOUS
  <2>1. i <= Len(txs)
    BY <1>2
  <2> QED
    BY <1>1, <1>4, <2>1 DEF AreExact
<1>7. stopped => \A i \in intact : i <= Len(views)
  BY <1>4 DEF WireInv
<1>8. ASSUME NEW i \in 1..Len(views)
      PROVE  LET raw == SubSeq(data, ViewEnd(i - 1) + 1, ViewEnd(i))
             IN  check_min_fee(raw, views[i].fee) /\ ~check_min_fee(raw, views[i].fee + 1)
  <2>1. cursor # None
    <3> SUFFICES ASSUME cursor = None PROVE FALSE
      OBVIOUS
    <3>1. Len(views) = 0
      BY NoViews DEF WireInv
    <3> QED
      BY <3>1
  <2>2. 3 <= Len(data)
    BY <2>1 DEF WireInv, BLOCK_HEADER_SIZE
  <2>3. ViewEnd(i - 1) = EndsOf(views, i - 1) /\ ViewEnd(i) = EndsOf(views, i)
    BY <1>3
  <2> QED
    BY <1>1, <1>2, <2>2, <2>3, ViewsHaveFees
<1> QED
  BY <1>5, <1>6, <1>7, <1>8 DEF ViewsAreExact
-----------------------------------------------------------------------------
(******************************** Theorems *********************************)

\* The invariant of the parts, each about variables of its own.
FormatsInv == BloomInv /\ WalkInv /\ MergeInv /\ BlocksInv /\ RootInv /\ WireInv

\* A step of another part leaves the filter alone.
LEMMA BloomUntouched ==
  ASSUME BloomInv, UNCHANGED bloomVars
  PROVE  BloomInv'
BY DEF BloomInv, bloomVars

\* A step of another part leaves the walk alone.
LEMMA WalkUntouched ==
  ASSUME WalkInv, UNCHANGED walkVars
  PROVE  WalkInv'
<1>1. /\ UNCHANGED <<parent_records, epoch_records, record, visited, stack, acyclic>>
      /\ ParentCount' = ParentCount /\ Seen' = Seen
      /\ \A S, h : ParentsIn(S, h)' = ParentsIn(S, h)
      /\ \A C, S : HoldsAncestors(C, S)' = HoldsAncestors(C, S)
      /\ OnCycle(epoch_records)' = OnCycle(epoch_records)
  BY DEF walkVars, ParentCount, ParentsOf, Seen, ParentsIn, HoldsAncestors, OnCycle
<1>2. WalkTypeOK' /\ SeenAreAncestors'
  BY <1>1 DEF WalkInv, WalkTypeOK, SeenAreAncestors
<1>3. acyclic' # "no" => ParentsAreSeen' /\ RecordComesFirst'
  BY <1>1 DEF WalkInv, ParentsAreSeen, RecordComesFirst
<1>4. (acyclic' = "yes" => stack' = <<>>) /\ WalkFindsCycles'
  BY <1>1 DEF WalkInv, WalkFindsCycles
<1> QED
  BY <1>2, <1>3, <1>4 DEF WalkInv

\* A step of another part leaves the merge alone.
LEMMA MergeUntouched ==
  ASSUME MergeInv, UNCHANGED mergeVars
  PROVE  MergeInv'
<1>1. UNCHANGED <<runs, at, heap, exhausted, last_key, merged, returned, violations>>
  BY DEF mergeVars
<1>2. /\ RunIds' = RunIds /\ Entries' = Entries
      /\ \A i : Readable(i)' = Readable(i)
      /\ AllInOrder' = AllInOrder
  BY <1>1, RunsAreFixed
<1>3. MergeTypeOK' /\ HeapHoldsTheFronts'
  BY <1>1, <1>2 DEF MergeInv, MergeTypeOK, HeapHoldsTheFronts
<1>4. \A i \in RunIds : RunIsReturned(i)'
  BY <1>1, <1>2 DEF MergeInv, RunIsReturned
<1>5. MergedSoFar' /\ HeapIsAhead' /\ NewestAhead' /\ ViolatorsDescend'
  BY <1>1, <1>2 DEF MergeInv, MergedSoFar, HeapIsAhead, NewestAhead, ViolatorsDescend
<1> QED
  BY <1>2, <1>3, <1>4, <1>5 DEF MergeInv

\* A step of another part leaves the blocks alone.
LEMMA BlocksUntouched ==
  ASSUME BlocksInv, UNCHANGED blocksVars
  PROVE  BlocksInv'
BY DEF BlocksInv, IsSealed, blocksVars

\* A step of another part leaves the roots alone.
LEMMA RootUntouched ==
  ASSUME RootInv, UNCHANGED rootVars
  PROVE  RootInv'
BY DEF RootInv, RootArgs, rootVars

\* A step of another part leaves the decoder alone.
LEMMA WireUntouched ==
  ASSUME WireInv, UNCHANGED wireVars
  PROVE  WireInv'
BY DEF WireInv, wireVars

\* The parts' inputs are filters new makes, any calls, any runs and any states.
LEMMA FormatsInitEstablishesInv == FormatsInit => FormatsInv
<1> SUFFICES ASSUME FormatsInit PROVE FormatsInv
  OBVIOUS
<1>1. BloomInv
  <2> DEFINE filters == InputsOf("bloom", NewFilters, new(0, 0))
  <2>1. BloomInit(filters)
    BY DEF FormatsInit
  <2>2. \A f \in NewFilters : \E args \in ExpectedKeys \X BitsPerKey : f = new(args[1], args[2])
    BY DEF NewFilters
  <2>3. \A f \in filters : \E e \in Nat, b \in Nat : f = new(e, b)
    <3>1. \A args \in ExpectedKeys \X BitsPerKey : args[1] \in Nat /\ args[2] \in Nat
      BY BloomAssumption
    <3>2. \A f \in NewFilters : \E e \in Nat, b \in Nat : f = new(e, b)
      BY <2>2, <3>1
    <3>3. \E e \in Nat, b \in Nat : new(0, 0) = new(e, b)
      OBVIOUS
    <3>4. \A f \in filters : f \in NewFilters \/ f = new(0, 0)
      BY DEF InputsOf
    <3> QED
      BY <3>2, <3>3, <3>4
  <2>4. \A f \in filters : f \in Filters /\ BitsInWords(f)
    BY <2>3, NewFilter
  <2> HIDE DEF filters
  <2> QED
    BY <2>1, <2>4, BloomInitEstablishesInv
<1>2. WalkInv
  <2> DEFINE first == [parents |-> [h \in RecordHashes |-> <<>>], map |-> {},
                       record |-> CHOOSE h \in RecordHashes : TRUE]
             calls == InputsOf("walk", Calls, first)
  <2>1. WalkInit(calls)
    BY DEF FormatsInit
  <2>2. /\ first.parents \in [RecordHashes -> Seq(RecordHashes)]
        /\ first.map \subseteq RecordHashes /\ first.record \in RecordHashes
    BY PresenceAssumption, EmptySeq
  <2>3. \A c \in Calls : /\ c.parents \in [RecordHashes -> Seq(RecordHashes)]
                         /\ c.map \subseteq RecordHashes
                         /\ c.record \in RecordHashes
    BY PresenceAssumption DEF Calls
  <2> HIDE DEF first
  <2>4. \A c \in calls : /\ c.parents \in [RecordHashes -> Seq(RecordHashes)]
                         /\ c.map \subseteq RecordHashes
                         /\ c.record \in RecordHashes
    BY <2>2, <2>3 DEF InputsOf
  <2> HIDE DEF calls
  <2> QED
    BY <2>1, <2>4, WalkInitEstablishesInv
<1>3. MergeInv
  <2> DEFINE lists == InputsOf("merge", Runs, <<>>)
  <2>1. MergeInit(lists)
    BY DEF FormatsInit
  <2>2. <<>> \in Seq(Seq(Items))
    BY EmptySeq
  <2>3. lists \subseteq Seq(Seq(Items))
    BY <2>2, RunsAssumption DEF InputsOf
  <2> HIDE DEF lists
  <2> QED
    BY <2>1, <2>3, MergeInitEstablishesInv
<1>4. BlocksInv
  BY DEF FormatsInit, BlocksInit, BlocksInv
<1>5. RootInv
  <2> DEFINE first == [utxos |-> <<>>, spent |-> <<>>]
             states == InputsOf("roots", States, first)
  <2>1. RootInit(states)
    BY DEF FormatsInit
  <2>2. first.utxos \in Seq(Utxos) /\ first.spent \in Seq(Nullifiers)
    BY EmptySeq
  <2> HIDE DEF first
  <2>3. \A s \in states : s.utxos \in Seq(Utxos) /\ s.spent \in Seq(Nullifiers)
    BY <2>2, StatesType DEF InputsOf
  <2> HIDE DEF states
  <2> QED
    BY <2>1, <2>3, RootInitEstablishesInv
<1>6. WireInv
  <2> DEFINE blocks == InputsOf("wire", WireBlocks, <<>>)
  <2>1. WireInit(blocks)
    BY DEF FormatsInit
  <2>2. <<>> \in Seq(WireTxs)
    BY EmptySeq
  <2>3. \A ts \in WireBlocks : ts \in Seq(WireTxs)
    BY WireAssumption DEF WireBlocks
  <2>4. blocks \subseteq Seq(WireTxs)
    BY <2>2, <2>3 DEF InputsOf
  <2> HIDE DEF blocks
  <2> QED
    BY <2>1, <2>4, WireInitEstablishesInv
<1> QED
  BY <1>1, <1>2, <1>3, <1>4, <1>5, <1>6 DEF FormatsInv

\* A step moves one part, by its own lemma, and leaves the others alone.
LEMMA FormatsNextPreservesInv ==
  ASSUME FormatsInv, [FormatsNext]_formatVars
  PROVE  FormatsInv'
<1>1. BloomInv /\ WalkInv /\ MergeInv /\ BlocksInv /\ RootInv /\ WireInv
  BY DEF FormatsInv
<1>2. BloomNext \/ UNCHANGED bloomVars
  BY DEF FormatsNext, formatVars
<1>3. verify_dag_acyclic \/ UNCHANGED walkVars
  BY DEF FormatsNext, formatVars
<1>4. next_entry \/ UNCHANGED mergeVars
  BY DEF FormatsNext, formatVars
<1>5. BlocksNext \/ UNCHANGED blocksVars
  BY DEF FormatsNext, formatVars
<1>6. RootNext \/ UNCHANGED rootVars
  BY DEF FormatsNext, formatVars
<1>7. BloomInv'
  BY <1>1, <1>2, BloomNextPreservesInv, BloomUntouched
<1>8. WalkInv'
  BY <1>1, <1>3, PopPreservesInv, ReturnPreservesInv, WalkUntouched DEF verify_dag_acyclic
<1>9. MergeInv'
  BY <1>1, <1>4, NextEntryPreservesInv, MergeUntouched
<1>10. BlocksInv'
  BY <1>1, <1>5, BlocksNextPreservesInv, BlocksUntouched
<1>11. RootInv'
  BY <1>1, <1>6, RootNextPreservesInv, RootUntouched
<1>12. WireNext \/ UNCHANGED wireVars
  BY DEF FormatsNext, formatVars
<1>13. WireInv'
  BY <1>1, <1>12, OpenPreservesInv, NextPreservesWireInv, WireUntouched DEF WireNext
<1> QED
  BY <1>7, <1>8, <1>9, <1>10, <1>11, <1>13 DEF FormatsInv

\* The invariant holds of every behaviour of the parts.
THEOREM FormatsInvHolds == FormatsSpec => []FormatsInv
<1>1. FormatsInit => FormatsInv
  BY FormatsInitEstablishesInv
<1>2. FormatsInv /\ [FormatsNext]_formatVars => FormatsInv'
  BY FormatsNextPreservesInv
<1> QED
  BY <1>1, <1>2, PTL DEF FormatsSpec

\* However often a filter is saved, cut short and read back with from_bytes or
\* from_raw, a key that was added is found, unless whole words were lost.
THEOREM NeverFalseNegatives == FormatsSpec => []NoFalseNegatives
<1>1. FormatsInv => NoFalseNegatives
  <2> SUFFICES ASSUME FormatsInv PROVE NoFalseNegatives
    OBVIOUS
  <2>1. Finds(filter, added, lost)
    BY DEF FormatsInv, BloomInv
  <2>2. PICK q \in Nat : lost = WORD_BYTES * q
    BY <2>1 DEF Finds
  <2>3. WORD_BYTES \in Nat \ {0}
    BY BloomAssumption
  <2>4. lost % WORD_BYTES = 0 /\ lost \in Nat
    BY <2>2, <2>3, Multiple
  <2>5. CASE lost = 0
    BY <2>1, <2>5 DEF Finds, NoFalseNegatives
  <2>6. CASE lost # 0
    BY <2>4, <2>6 DEF NoFalseNegatives
  <2> QED
    BY <2>5, <2>6
<1> QED
  BY <1>1, FormatsInvHolds, PTL

\* verify_dag_acyclic returns false if and only if the record lies on a cycle
\* of the map's records, for any records, and its stack never outgrows the
\* parents of what it has visited.
THEOREM WalkAlwaysFindsCycles == FormatsSpec => []WalkFindsCycles
<1>1. FormatsInv => WalkFindsCycles
  BY DEF FormatsInv, WalkInv
<1> QED
  BY <1>1, FormatsInvHolds, PTL

\* The merging iterator returns the entries of any runs, sorted or not, failing
\* or not, in ascending order, and loses none but those after an error or of a
\* run that descends.
THEOREM MergeAlwaysFaithful == FormatsSpec => []MergeIsFaithful
<1>1. FormatsInv => MergeIsFaithful
  BY MergeInvImpliesFaithful DEF FormatsInv
<1> QED
  BY <1>1, FormatsInvHolds, PTL

\* Whatever wire_decode and validate_internal accept under the hash of a valid
\* block is that block, for any transactions and however they were changed on
\* the way, unless one spends nothing.
THEOREM HashAlwaysNamesOneBlock == FormatsSpec => []HashNamesOneBlock
<1>1. FormatsInv => HashNamesOneBlock
  BY BlocksInvImpliesOne DEF FormatsInv
<1> QED
  BY <1>1, FormatsInvHolds, PTL

\* A block that passes validate_internal at its producer, with a state and
\* within the wire's bounds on inputs, outputs and witnesses, is decoded by
\* wire_decode under the same hash and passes there.
THEOREM ValidBlocksAlwaysArrive == FormatsSpec => []ValidBlocksArrive
<1>1. FormatsInv => ValidBlocksArrive
  BY BlocksInvImpliesArrive DEF FormatsInv
<1> QED
  BY <1>1, FormatsInvHolds, PTL

\* compute_state_root and compute_state_preview return one root if and only if
\* they were given the same UTXOs and the same spent nullifiers, in whatever
\* order, for any lists of any length that they accept.
THEOREM RootAlwaysIdentifiesState == FormatsSpec => []RootIdentifiesState
<1>1. FormatsInv => RootIdentifiesState
  BY RootInvImpliesIdentifies DEF FormatsInv
<1> QED
  BY <1>1, FormatsInvHolds, PTL

\* BlockTxIter views, one behind the other, exactly the transactions that were
\* encoded before the damage and does not stop before the first damaged one,
\* whatever the cells behind it hold; check_min_fee finds the fee of every view.
THEOREM ViewsAlwaysExact == FormatsSpec => []ViewsAreExact
<1>1. FormatsInv => ViewsAreExact
  BY WireInvImpliesExact DEF FormatsInv
<1> QED
  BY <1>1, FormatsInvHolds, PTL
=============================================================================
