------------------------------- MODULE Chains -------------------------------
(***************************************************************************)
(* The two chains a node keeps: the blocks it executes and the settlements *)
(* it accepts.  The code links them by the checkpoint a block may carry,   *)
(* and shares no state between them: a behaviour moves one, the part.      *)
(***************************************************************************)
EXTENDS ChainState, Settlement

VARIABLE part

ChainsInit == part \in {"blocks", "settlements"} /\ Init /\ SettlementInit

ChainsNext ==
  /\ \/ part = "blocks" /\ Next /\ UNCHANGED settlementVars
     \/ part = "settlements" /\ SettlementNext /\ UNCHANGED vars
  /\ UNCHANGED part

ChainsSpec == ChainsInit /\ [][ChainsNext]_<<part, vars, settlementVars>>
=============================================================================
