------------------------------ MODULE Presence ------------------------------
(***************************************************************************)
(* verify_dag_acyclic: the walk over an epoch's presence records that      *)
(* should tell whether a record lies on a cycle of parents, pop by pop.    *)
(* The records are any the type allows: their hashes are not recomputed.   *)
(***************************************************************************)
EXTENDS Collections, SequencesExt

CONSTANTS
  RecordHashes,
  ParentLists              \* the parent_records a record may have

ASSUME PresenceAssumption == RecordHashes # {} /\ ParentLists \subseteq Seq(RecordHashes)

VARIABLES
  parent_records,          \* parent_records[h]: of the record with hash h
  epoch_records,           \* the hashes of the records in the map
  record,                  \* the hash of the record verified
  visited, stack,          \* of the walk
  acyclic                  \* its result, "walking" before there is one

walkVars == <<parent_records, epoch_records, record, visited, stack, acyclic>>
-----------------------------------------------------------------------------
\* The parents a walk finds: those of the records in the map.
ParentsOf(h) == IF h \in epoch_records THEN parent_records[h] ELSE <<>>

\* What a pop of current leaves to be popped, above the rest.  Mutant: the
\* last parent only.
PushedLast(current) ==
  IF ParentsOf(current) = <<>> THEN <<>> ELSE <<Last(ParentsOf(current))>>
Pushed(current) == ParentsOf(current)

\* What verify_dag_acyclic is called with.
Calls == [parents : [RecordHashes -> ParentLists], map : SUBSET RecordHashes,
          record : RecordHashes]
WalkInit(calls) ==
  /\ \E c \in calls : /\ parent_records = c.parents
                      /\ epoch_records = c.map
                      /\ record = c.record
  /\ visited = {}
  /\ stack = <<record>>
  /\ acyclic = "walking"

\* A parent that is the record verified ends the walk.
pop ==
  /\ acyclic = "walking"
  /\ stack # <<>>
  /\ LET current == Last(stack)
         rest == Front(stack)
     IN  /\ visited' = visited \cup {current}
         /\ IF current \in visited \/ (current = record /\ rest # <<>>)
              THEN stack' = rest /\ UNCHANGED acyclic
              ELSE IF record \in ToSet(ParentsOf(current))
                     THEN acyclic' = "no" /\ stack' = rest
                     ELSE stack' = rest \o Pushed(current) /\ UNCHANGED acyclic
  /\ UNCHANGED <<parent_records, epoch_records, record>>

Return ==
  /\ acyclic = "walking"
  /\ stack = <<>>
  /\ acyclic' = "yes"
  /\ UNCHANGED <<parent_records, epoch_records, record, visited, stack>>

verify_dag_acyclic == pop \/ Return
-----------------------------------------------------------------------------
\* The record lies on a cycle of the records in S: no set holds its ancestors
\* and not itself.
ParentsIn(S, h) == IF h \in S THEN ToSet(parent_records[h]) ELSE {}
HoldsAncestors(C, S) ==
  ParentsIn(S, record) \subseteq C /\ \A h \in C : ParentsIn(S, h) \subseteq C
OnCycle(S) == \A C \in SUBSET RecordHashes : HoldsAncestors(C, S) => record \in C

\* The walk reports a cycle if and only if the record lies on one of the map's
\* records; each record's parents are pushed at most once, so that the walk
\* comes to an end.
ParentCount == [h \in RecordHashes |-> Len(ParentsOf(h))]
WalkFindsCycles ==
  /\ acyclic = "no" => OnCycle(epoch_records)
  /\ acyclic = "yes" => ~OnCycle(epoch_records)
  /\ Len(stack) <= 1 + Weight(visited, ParentCount)

\* What the comment on verify_dag_acyclic says: "Verify that adding a record
\* does not create a cycle in the epoch DAG".  A record that passes lies on no
\* cycle once it is added.
AddingIsVerified == acyclic = "yes" => ~OnCycle(epoch_records \cup {record})
=============================================================================
