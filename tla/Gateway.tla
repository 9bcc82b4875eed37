------------------------------- MODULE Gateway -------------------------------
(***************************************************************************)
(* The two ways into a node: the HTTP server with the mempool behind it,   *)
(* and the authentication of API requests.  They share no state, so that a *)
(* behaviour moves only one of them.                                       *)
(***************************************************************************)
EXTENDS HttpServer, Auth

gatewayVars == <<vars, httpVars, authVars>>

GatewayInit == Init /\ HttpInit /\ AuthInit

\* The HTTP server is explored beside one size of the cache only.
AnySize == CHOOSE s \in CacheSizes : TRUE

GatewayNext ==
  \/ HttpNext /\ AuthInit /\ nonce_cache_size = AnySize /\ UNCHANGED authVars
  \/ AuthNext /\ Init /\ HttpInit /\ UNCHANGED <<vars, httpVars>>

GatewaySpec == GatewayInit /\ [][GatewayNext]_gatewayVars /\ HttpFairness
=============================================================================
