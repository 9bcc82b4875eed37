------------------------------- MODULE Merge --------------------------------
(***************************************************************************)
(* aevum-db's merging iterator: sorted runs of entries, the next entry of  *)
(* each in a heap, and next_entry, which pops the first of them and draws  *)
(* the next one of its run.  A run may fail at any point, and it may not   *)
(* be sorted.                                                              *)
(***************************************************************************)
EXTENDS Integers, Sequences, FiniteSets

CONSTANTS
  Runs,                \* the lists of runs considered
  NoKey                \* last_key before the first entry: below every key

\* A run is a sequence of entries [key, seq], or of errors.
Failed == [failed |-> TRUE]
Items == [key : {k \in Int : k > NoKey}, seq : Nat] \cup {Failed}
ASSUME RunsAssumption == NoKey \in Int /\ Runs \subseteq Seq(Seq(Items))

VARIABLES
  runs,                \* the runs merged
  at,                  \* at[i]: the entries drawn from run i
  heap,                \* the entries drawn and not returned, each with its iter_idx
  exhausted,           \* the runs that are not drawn from any more
  last_key,
  merged,              \* history: the entries returned
  returned,            \* history: returned[i], those of run i
  violations           \* history: the runs whose entry was refused

mergeVars == <<runs, at, heap, exhausted, last_key, merged, returned,
               violations>>
-----------------------------------------------------------------------------
\* HeapEntry's order, the heap's greatest first: the smaller key, then the
\* newer entry, then the later run.
Before(e, f) ==
  \/ e.key < f.key
  \/ e.key = f.key /\ e.seq > f.seq
  \/ e.key = f.key /\ e.seq = f.seq /\ e.iter_idx > f.iter_idx
Top == CHOOSE e \in heap : \A f \in heap \ {e} : Before(e, f)

Drawn(i, item) == [key |-> item.key, seq |-> item.seq, iter_idx |-> i]

\* After n entries the run ends or fails.  Mutant: an entry too soon.
EndsEarly(run, n) == n + 1 >= Len(run) \/ run[n + 1] = Failed
Ends(run, n) == n >= Len(run) \/ run[n + 1] = Failed

\* MergeIterator::new draws the first entry of every run.
MergeInit(lists) ==
  /\ runs \in lists
  /\ at = [i \in 1..Len(runs) |-> IF Ends(runs[i], 0) THEN 0 ELSE 1]
  /\ heap = {Drawn(i, runs[i][1]) : i \in {j \in 1..Len(runs) : ~Ends(runs[j], 0)}}
  /\ exhausted = {i \in 1..Len(runs) : Ends(runs[i], 0)}
  /\ last_key = NoKey
  /\ merged = <<>>
  /\ returned = [i \in 1..Len(runs) |-> <<>>]
  /\ violations = {}

\* The rest of the heap, and what push_next(i) adds to it: a run that fails is
\* exhausted like one that ends.
push_next(i, rest) ==
  IF i \in exhausted \/ Ends(runs[i], at[i])
    THEN heap' = rest /\ exhausted' = exhausted \cup {i} /\ UNCHANGED at
    ELSE /\ heap' = rest \cup {Drawn(i, runs[i][at[i] + 1])}
         /\ at' = [at EXCEPT ![i] = @ + 1]
         /\ UNCHANGED exhausted

\* An entry below the last one is dropped with an error, and its run is not
\* drawn from again.
next_entry ==
  /\ heap # {}
  /\ LET e == Top
     IN  IF last_key > e.key
           THEN /\ heap' = heap \ {e}
                /\ violations' = violations \cup {e.iter_idx}
                /\ UNCHANGED <<at, exhausted, last_key, merged, returned>>
           ELSE /\ last_key' = e.key
                /\ merged' = Append(merged, e)
                /\ returned' = [returned EXCEPT ![e.iter_idx] = Append(@, e)]
                /\ push_next(e.iter_idx, heap \ {e})
                /\ UNCHANGED violations
  /\ UNCHANGED runs
-----------------------------------------------------------------------------
\* The positions of run i that can be read: everything before its first error.
Readable(i) == {j \in 1..Len(runs[i]) : \A k \in 1..j : runs[i][k] # Failed}

\* No key below an earlier one; of one key, no entry newer than an earlier one.
Ascends(s, positions) ==
  \A j, k \in positions : j < k => s[j].key <= s[k].key
NewestFirst(s, positions) ==
  \A j, k \in positions : j < k /\ s[j].key = s[k].key => s[j].seq >= s[k].seq

\* Keys never descend, whatever the runs; of one key, the newest entry comes
\* first if it does in every run.  Each run's entries come in the run's order
\* and none twice.  At the end all have come that precede the run's first
\* error, unless the run was reported for descending, and only a run that does
\* descend is: one run that fails or is not sorted costs no other run an entry.
MergeIsFaithful ==
  /\ Ascends(merged, 1..Len(merged))
  /\ (\A i \in 1..Len(runs) : Ascends(runs[i], Readable(i)) /\ NewestFirst(runs[i], Readable(i)))
       => NewestFirst(merged, 1..Len(merged))
  /\ \A i \in 1..Len(runs) :
       /\ \A j \in 1..Len(returned[i]) :
            j \in Readable(i) /\ returned[i][j] = Drawn(i, runs[i][j])
       /\ heap = {} /\ i \notin violations => 1..Len(returned[i]) = Readable(i)
       /\ i \in violations => ~Ascends(runs[i], Readable(i))
=============================================================================
