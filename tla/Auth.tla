-------------------------------- MODULE Auth --------------------------------
(***************************************************************************)
(* aevum-api's request authentication: a clock set by the caller, a cache  *)
(* that remembers for each sender the nonces it has used, and verify,      *)
(* which takes &mut self and is therefore atomic.  Requests arrive in any  *)
(* order, any number of times, and altered on the way.                     *)
(***************************************************************************)
EXTENDS Collections

CONSTANTS
  Keys,                 \* public keys
  Contents,             \* body, chain_id, endpoint and api_version together
  Nonces,
  Clock,                \* the times tick is called with and requests carry
  max_timestamp_drift,
  max_future_drift,
  CacheSizes,           \* the configurations of nonce_cache_size considered
  MaxAccepted           \* bound: requests accepted from one sender

ASSUME AuthAssumption ==
  /\ Clock \subseteq Nat /\ 0 \in Clock /\ CacheSizes \subseteq Nat
  /\ {max_timestamp_drift, max_future_drift, MaxAccepted} \subseteq Nat

VARIABLES
  nonce_cache_size,
  current_time,
  nonces,               \* address |-> queue of nonces
  accepted              \* history: accepted[k], the nonces accepted from k in order

authVars == <<nonce_cache_size, current_time, nonces, accepted>>
-----------------------------------------------------------------------------
\* blake3 over everything but the key and the signature; the fields after the
\* body have fixed lengths, so that no two requests share a payload.
build_payload(req) == <<req.content, req.timestamp, req.nonce>>

\* A signature is the key and the payload it was made for.
Signature(key, payload) == <<key, payload>>

\* What may arrive: signed as it is, or with another content than the one that
\* was signed.
Requests ==
  [public_key : Keys, content : Contents, timestamp : Clock, nonce : Nonces,
   signed : Contents]
SignatureOf(req) == Signature(req.public_key, <<req.signed, req.timestamp, req.nonce>>)

contains(addr, nonce) ==
  /\ addr \in DOMAIN nonces
  /\ \E i \in 1..Len(nonces[addr]) : nonces[addr][i] = nonce

\* The queue makes room before it grows, so that it holds one nonce even if
\* its size is 0.
Pushed(queue, nonce) ==
  Append(IF Len(queue) >= nonce_cache_size /\ queue # <<>>
           THEN Tail(queue) ELSE queue, nonce)

insert(addr, nonce) ==
  nonces' = Put(nonces, {addr},
                Pushed(IF addr \in DOMAIN nonces THEN nonces[addr] ELSE <<>>, nonce))

\* The checks in their order.
Verdict(req) ==
  CASE req.timestamp > current_time + max_future_drift -> "FutureTimestamp"
    [] SaturatingSub(current_time, req.timestamp) > max_timestamp_drift -> "Expired"
    [] contains(req.public_key, req.nonce) -> "Replay"
    [] SignatureOf(req) # Signature(req.public_key, build_payload(req)) -> "InvalidSignature"
    [] OTHER -> "Valid"

AuthInit ==
  /\ nonce_cache_size \in CacheSizes
  /\ current_time = 0
  /\ nonces = [a \in {} |-> <<>>]
  /\ accepted = [k \in Keys |-> <<>>]

\* The time is whatever the caller says, also an earlier one.
tick(time) ==
  /\ current_time' = time
  /\ UNCHANGED <<nonce_cache_size, nonces, accepted>>

\* The history of what was accepted.
Accept(req) ==
  accepted' = [accepted EXCEPT ![req.public_key] = Append(@, req.nonce)]

\* Mutant: the nonce is remembered before the signature is looked at.
VerifyRememberingFirst(req) ==
  /\ Len(accepted[req.public_key]) < MaxAccepted
  /\ IF Verdict(req) \in {"Valid", "InvalidSignature"}
       THEN insert(req.public_key, req.nonce)
       ELSE UNCHANGED nonces
  /\ IF Verdict(req) = "Valid" THEN Accept(req) ELSE UNCHANGED accepted
  /\ UNCHANGED <<nonce_cache_size, current_time>>
verify(req) ==
  /\ Len(accepted[req.public_key]) < MaxAccepted
  /\ IF Verdict(req) = "Valid"
       THEN /\ insert(req.public_key, req.nonce)
            /\ Accept(req)
       ELSE UNCHANGED <<nonces, accepted>>
  /\ UNCHANGED <<nonce_cache_size, current_time>>

AuthNext ==
  \/ \E time \in Clock : tick(time)
  \/ \E req \in Requests : verify(req)
-----------------------------------------------------------------------------
Capacity == IF nonce_cache_size = 0 THEN 1 ELSE nonce_cache_size

\* A nonce is accepted again only after as many other requests of the same
\* sender as the cache holds: neither refused requests, nor those of other
\* senders, nor a clock that jumps make the cache forget.
ReplayNeedsAFullCache ==
  \A k \in Keys :
    \A i, j \in 1..Len(accepted[k]) :
      i < j /\ accepted[k][i] = accepted[k][j] => j - i > Capacity
=============================================================================
