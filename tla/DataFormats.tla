---------------------------- MODULE DataFormats -----------------------------
(***************************************************************************)
(* The parts that turn data into other data: the zero-copy decoder, the    *)
(* sealing and checking of blocks, state roots, the walk over presence     *)
(* records, and the merge and the Bloom filter of the database.  They      *)
(* share no state, so that a behaviour moves only one of them, the part,   *)
(* while the others rest at one of their initial states.                   *)
(***************************************************************************)
EXTENDS WireView, Blocks, StateRoot, Presence, Merge, Bloom

VARIABLE part

formatVars == <<part, wireVars, blocksVars, rootVars, walkVars, mergeVars, bloomVars>>

\* The inputs of a part that moves, or the first of them.
InputsOf(p, inputs, first) == IF part = p THEN inputs ELSE {first}

FormatsInit ==
  /\ part \in {"wire", "blocks", "roots", "walk", "merge", "bloom"}
  /\ WireInit(InputsOf("wire", WireBlocks, <<>>)) /\ (part # "wire" => data = <<>>)
  /\ BlocksInit
  /\ RootInit(InputsOf("roots", States, [utxos |-> <<>>, spent |-> <<>>]))
  /\ WalkInit(InputsOf("walk", Calls, [parents |-> [h \in RecordHashes |-> <<>>], map |-> {},
                                       record |-> CHOOSE h \in RecordHashes : TRUE]))
  /\ MergeInit(InputsOf("merge", Runs, <<>>))
  /\ BloomInit(InputsOf("bloom", NewFilters, new(0, 0)))

FormatsNext ==
  /\ \/ /\ part = "wire" /\ WireNext
        /\ UNCHANGED <<blocksVars, rootVars, walkVars, mergeVars, bloomVars>>
     \/ /\ part = "blocks" /\ BlocksNext
        /\ UNCHANGED <<wireVars, rootVars, walkVars, mergeVars, bloomVars>>
     \/ /\ part = "roots" /\ RootNext
        /\ UNCHANGED <<wireVars, blocksVars, walkVars, mergeVars, bloomVars>>
     \/ /\ part = "walk" /\ verify_dag_acyclic
        /\ UNCHANGED <<wireVars, blocksVars, rootVars, mergeVars, bloomVars>>
     \/ /\ part = "merge" /\ next_entry
        /\ UNCHANGED <<wireVars, blocksVars, rootVars, walkVars, bloomVars>>
     \/ /\ part = "bloom" /\ BloomNext
        /\ UNCHANGED <<wireVars, blocksVars, rootVars, walkVars, mergeVars>>
  /\ UNCHANGED part

FormatsSpec == FormatsInit /\ [][FormatsNext]_formatVars
=============================================================================
