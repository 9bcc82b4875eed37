------------------------------- MODULE Bloom --------------------------------
(***************************************************************************)
(* aevum-db's Bloom filter: a bit vector in whole words, filled by double  *)
(* hashing, and saved as its number of hashes followed by its words.  The  *)
(* file may come back cut short.  Bits are numbered through all words.     *)
(***************************************************************************)
EXTENDS Integers, FiniteSets

CONSTANTS
  BloomKeys,
  HashKey,             \* HashKey[k]: its two hashes, as hash_key yields them
  WORD_BITS,           \* 64
  WORD_BYTES,          \* 8
  HEADER_BYTES,        \* 4, of num_hashes
  MAX_HASHES,          \* 32
  U64,                 \* 2^64: hashes wrap
  ExpectedKeys,        \* the arguments new is called with
  BitsPerKey,
  SIZE_MAX             \* bound: words of a filter

ASSUME BloomAssumption ==
  /\ {WORD_BITS, WORD_BYTES, MAX_HASHES, U64} \subseteq Nat \ {0}
  /\ HEADER_BYTES \in 0..WORD_BYTES
  /\ HashKey \in [BloomKeys -> (0..(U64 - 1)) \X (0..(U64 - 1))]
  /\ ExpectedKeys \subseteq Nat /\ BitsPerKey \subseteq Nat

VARIABLES
  filter,              \* [bits, words, num_hashes]: bits is the set of the ones
  file,                \* what was saved last, with its added and lost
  added,               \* history: the keys the filter should hold
  lost                 \* history: bytes missing from the files it was read from

bloomVars == <<filter, file, added, lost>>
-----------------------------------------------------------------------------
Larger(a, b) == IF a >= b THEN a ELSE b
Clamped(n) == IF n < 1 THEN 1 ELSE IF n > MAX_HASHES THEN MAX_HASHES ELSE n
CeilingDiv(a, b) == (a + b - 1) \div b

\* 0.693147 hashes for each bit per key.
new(expected, per_key) ==
  LET bits == Larger(expected * Larger(per_key, 1), WORD_BITS)
  IN  [bits |-> {}, words |-> CeilingDiv(bits, WORD_BITS),
       num_hashes |-> Clamped(CeilingDiv(bits * 693147, Larger(expected, 1) * 1000000))]

\* A filter is never without a word.
from_raw(bits, words, num_hashes) ==
  [bits |-> bits, words |-> Larger(words, 1), num_hashes |-> Clamped(num_hashes)]

\* h2 is made odd.
double_hash(k) == <<HashKey[k][1], (HashKey[k][2] + 1) - (HashKey[k][2] % 2)>>
bit_index(f, h, i) == ((h[1] + i * h[2]) % U64) % (f.words * WORD_BITS)

\* The bits add sets for k.
BitsSet(f, k) == {bit_index(f, double_hash(k), i) : i \in 0..(f.num_hashes - 1)}
may_contain(f, k) ==
  \A i \in 0..(f.num_hashes - 1) : bit_index(f, double_hash(k), i) \in f.bits

\* The length of to_bytes.
SavedBytes(f) == HEADER_BYTES + f.words * WORD_BYTES

\* What from_bytes makes of the first n bytes of f's serialisation.  Mutant: a
\* tail that is not a whole word is ignored.
Refused == [words |-> 0]
FromBytesAnyTail(f, n) ==
  LET words == (n - HEADER_BYTES) \div WORD_BYTES
  IN  IF n < WORD_BYTES \/ words = 0
        THEN Refused
        ELSE [bits |-> {b \in f.bits : b < words * WORD_BITS}, words |-> words,
              num_hashes |-> Clamped(f.num_hashes)]
from_bytes(f, n) ==
  LET words == (n - HEADER_BYTES) \div WORD_BYTES
  IN  IF n < WORD_BYTES \/ words = 0 \/ (n - HEADER_BYTES) % WORD_BYTES # 0
        THEN Refused
        ELSE [bits |-> {b \in f.bits : b < words * WORD_BITS}, words |-> words,
              num_hashes |-> Clamped(f.num_hashes)]

NewFilters ==
  {f \in {new(args[1], args[2]) : args \in ExpectedKeys \X BitsPerKey} : f.words <= SIZE_MAX}

BloomInit(filters) ==
  /\ filter \in filters
  /\ file = [filter |-> filter, added |-> {}, lost |-> 0]
  /\ added = {}
  /\ lost = 0

add(k) ==
  /\ filter' = [filter EXCEPT !.bits = @ \cup BitsSet(filter, k)]
  /\ added' = added \cup {k}
  /\ UNCHANGED <<file, lost>>

\* to_bytes.
Save ==
  /\ file' = [filter |-> filter, added |-> added, lost |-> lost]
  /\ UNCHANGED <<filter, added, lost>>

\* from_bytes of the first n bytes of the file; None leaves things as they are.
Load(n) ==
  LET f == from_bytes(file.filter, n)
  IN  /\ f # Refused
      /\ filter' = f
      /\ added' = file.added
      /\ lost' = file.lost + SavedBytes(file.filter) - n
      /\ UNCHANGED file

\* from_raw of the words of a table's filter block.
LoadRaw ==
  /\ filter' = from_raw(file.filter.bits, file.filter.words, file.filter.num_hashes)
  /\ added' = file.added
  /\ lost' = file.lost
  /\ UNCHANGED file

BloomNext ==
  \/ \E k \in BloomKeys : add(k)
  \/ Save
  \/ \E n \in 0..(HEADER_BYTES + SIZE_MAX * WORD_BYTES) :
       n <= SavedBytes(file.filter) /\ Load(n)
  \/ LoadRaw
-----------------------------------------------------------------------------
\* A key that was added is found, also by the filter read back from a file; a
\* file that ends in the middle of a word is refused.  One that lost whole
\* words is not recognised, and promises nothing.
NoFalseNegatives ==
  \/ lost > 0 /\ lost % WORD_BYTES = 0
  \/ \A k \in added : may_contain(filter, k)
=============================================================================
