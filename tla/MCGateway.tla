----------------------------- MODULE MCGateway ------------------------------
(***************************************************************************)
(* Two workers and three requests, among them a transaction without        *)
(* inputs and two that need none; the node's limit is no transaction at    *)
(* all, the pool's is three.  Two senders, three nonces and a cache of     *)
(* none to two nonces; times before, in and after the window.              *)
(***************************************************************************)
EXTENDS Gateway

MCTxs == {"spend", "empty", "coinbase", "heartbeat"}
MCFee == [t \in MCTxs |-> 1]
MCEstimatedSize == [t \in MCTxs |-> 1]
MCNullifiers == {"n"}
MCInputs == [spend |-> {"n"}, empty |-> {}, coinbase |-> {}, heartbeat |-> {}]
MCTxType == [spend |-> "Standard", empty |-> "Standard",
             coinbase |-> "Coinbase", heartbeat |-> "Heartbeat"]
MCBlockLimits == {[max_tx |-> 1, max_bytes |-> 4]}
=============================================================================
