------------------------------- MODULE Value --------------------------------
(***************************************************************************)
(* The places where value is created, divided and moved: the block reward  *)
(* with its fees, the reward of a compute task in escrow, the provenance   *)
(* of satoshis and the accounts of L2.  They share no state, so that a     *)
(* behaviour moves only one of them, the part.                             *)
(***************************************************************************)
EXTENDS Economics, Escrow, DnaRange, L2State

VARIABLE part

valueVars == <<part, economicsVars, escrowVars, dnaVars, l2Vars>>

ValueInit ==
  /\ part \in {"economics", "escrow", "dna", "l2"}
  /\ EconomicsInit
  /\ EscrowInit
  /\ DnaInit
  /\ L2Init

ValueNext ==
  /\ \/ /\ part = "economics" /\ EconomicsNext
        /\ UNCHANGED <<escrowVars, dnaVars, l2Vars>>
     \/ /\ part = "escrow" /\ EscrowNext
        /\ UNCHANGED <<economicsVars, dnaVars, l2Vars>>
     \/ /\ part = "dna" /\ DnaNext
        /\ UNCHANGED <<economicsVars, escrowVars, l2Vars>>
     \/ /\ part = "l2" /\ L2Next
        /\ UNCHANGED <<economicsVars, escrowVars, dnaVars>>
  /\ UNCHANGED part

ValueSpec == ValueInit /\ [][ValueNext]_valueVars
=============================================================================
