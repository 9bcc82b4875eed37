---------------------------- MODULE MCMembership ----------------------------
(***************************************************************************)
(* TrustModel: the bootstrap key and six others, so that the quorum rises  *)
(* above its minimum and the limit on delegates is reached.                *)
(*                                                                         *)
(* Dht: ids of two bytes of two bits.  Our id is 00.00.  Three nodes share *)
(* the bucket of the highest bit, which has room for two; two more are in  *)
(* two other buckets, and one bucket stays empty.  Callers' clocks         *)
(* disagree.                                                               *)
(***************************************************************************)
EXTENDS Membership

MCKeys == {"genesis", "k1", "k2", "k3", "k4", "k5", "k6"}

High == <<0, 1>>
Low == <<0, 0>>
Mid == <<1, 1>>
MCIds == {{High}, {High, Low}, {High, Mid}, {Low}, {Mid}, {}}
=============================================================================
