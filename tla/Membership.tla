----------------------------- MODULE Membership -----------------------------
(***************************************************************************)
(* Whom a node knows and whom it trusts: the Kademlia table and the        *)
(* delegates.  They share no state, so that a behaviour moves only one of  *)
(* them, the part.                                                         *)
(***************************************************************************)
EXTENDS TrustModel, Dht

VARIABLE part

MembershipInit == part \in {"trust", "dht"} /\ Init /\ DhtInit

MembershipNext ==
  /\ \/ part = "trust" /\ Next /\ UNCHANGED buckets
     \/ part = "dht" /\ DhtNext /\ UNCHANGED vars
  /\ UNCHANGED part

MembershipSpec == MembershipInit /\ [][MembershipNext]_<<part, vars, buckets>>
=============================================================================
