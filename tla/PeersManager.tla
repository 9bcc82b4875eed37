---------------------------- MODULE PeersManager ----------------------------
(***************************************************************************)
(* aevum-p2p's peer registry: four concurrent maps and three atomic        *)
(* counters, each consistent on its own, with no lock around them all.     *)
(* An operation is a sequence of accesses to single maps or counters.  A   *)
(* thread's todo list holds the accesses its operation still has to make,  *)
(* in the code's order; each is one atomic step.                           *)
(*                                                                         *)
(* The tasks that call the registry are not part of the repository.  They  *)
(* are assumed to accept an inbound peer after can_accept, to dial after   *)
(* try_reserve_outbound_slot, and to end a dial with register_peer or      *)
(* mark_connect_failed.                                                    *)
(***************************************************************************)
EXTENDS Collections

CONSTANTS
  Threads,
  Nodes,              \* node ids
  Addrs,              \* socket addresses
  Ips,
  Ip,                 \* Ip[a]: the IP address of a
  MAX_PEERS,
  MAX_OUTBOUND,
  MAX_CONNECTING,
  MAX_PER_IP,
  RATE_LIMIT_PER_SEC,
  ReportedHeights,    \* heights given to update_peer_height
  WORD,               \* AtomicUsize counts modulo WORD
  MaxOps              \* bound: operations started

ASSUME AddrsAssumption ==
  /\ IsFiniteSet(Threads) /\ Threads # {} /\ IsFiniteSet(Nodes) /\ IsFiniteSet(Addrs)
  /\ Ip \in [Addrs -> Ips]
ASSUME LimitsAssumption ==
  /\ {MAX_PEERS, MAX_OUTBOUND, MAX_CONNECTING, MAX_PER_IP, RATE_LIMIT_PER_SEC, MaxOps}
       \subseteq Nat
  /\ ReportedHeights \subseteq Nat
  /\ WORD \in Nat /\ Cardinality(Nodes) < WORD

VARIABLES
  peers,                 \* node |-> its PeerState
  addr_to_peer,          \* address |-> node
  ip_connections,        \* IP |-> number of connections
  last_connect_attempt,  \* address |-> age of the last attempt
  connected_count,
  outbound_count,
  connecting_count,
  todo,                  \* todo[t]: the accesses left in t's operation
  dialing,               \* dialing[a]: dials of a reserved and not ended
  ops,                   \* operations started
  touched,               \* history: the nodes and IPs t's operation has touched
  raced                  \* history: those of operations that touched the same at once

maps == <<peers, addr_to_peer, ip_connections, last_connect_attempt>>
counts == <<connected_count, outbound_count, connecting_count>>
history == <<touched, raced>>
vars == <<maps, counts, todo, dialing, ops, history>>

\* An attempt is younger than CONNECT_RETRY, due for another one, or older than
\* ATTEMPT_TTL.
Ages == {"fresh", "due", "expired"}
PeerState == [addr : Addrs, outbound : BOOLEAN, open : BOOLEAN,
              peer_height : Nat, msg_count : Nat]

\* One access to one map or counter.
Access ==
  [op : {"addr_remove", "ip_decrement", "ip_remove", "ip_increment", "check_ip",
         "check_connecting", "check_retry", "note_attempt", "connecting_add"},
   addr : Addrs]
  \cup [op : {"connected_add", "connected_sub", "outbound_add", "outbound_sub",
              "connecting_sub"}]
  \cup [op : {"peers_insert"}, node : Nodes, addr : Addrs, outbound : BOOLEAN]
  \cup [op : {"addr_insert"}, node : Nodes, addr : Addrs]
  \cup [op : {"peers_remove", "peers_probe"}, node : Nodes]

Do(op) == <<[op |-> op]>>
DoAt(op, a) == <<[op |-> op, addr |-> a]>>
DoFor(op, n) == <<[op |-> op, node |-> n]>>
When(c, s) == IF c THEN s ELSE <<>>

\* fetch_add and fetch_sub wrap around.
Wrap(v) == v % WORD
-----------------------------------------------------------------------------
Init ==
  /\ peers = [n \in {} |-> 0]
  /\ addr_to_peer = [a \in {} |-> 0]
  /\ ip_connections = [i \in {} |-> 0]
  /\ last_connect_attempt = [a \in {} |-> 0]
  /\ connected_count = 0
  /\ outbound_count = 0
  /\ connecting_count = 0
  /\ todo = [t \in Threads |-> <<>>]
  /\ dialing = [a \in Addrs |-> 0]
  /\ ops = 0
  /\ touched = [t \in Threads |-> {}]
  /\ raced = {}

Idle(t) == todo[t] = <<>>
Quiescent == \A t \in Threads : Idle(t)

\* t starts an operation whose remaining accesses are s.
Start(t, s) ==
  /\ Idle(t)
  /\ ops < MaxOps
  /\ ops' = ops + 1
  /\ todo' = [todo EXCEPT ![t] = s]

\* t makes the next access of its operation, and s comes before the rest.
Upcoming(t, op) == todo[t] # <<>> /\ Head(todo[t]).op = op
Arg(t) == Head(todo[t])
Continue(t, s) == todo' = [todo EXCEPT ![t] = s \o Tail(@)] /\ UNCHANGED ops
Return(t) == todo' = [todo EXCEPT ![t] = <<>>] /\ UNCHANGED ops

\* t touches the nodes and IPs S: a race if the operation of another thread has
\* touched one of them, and then everything the two have touched is raced.
Touch(t, S) ==
  LET mine == S \cup touched[t]
      rivals == {u \in Threads \ {t} : touched[u] \cap mine # {}}
  IN /\ touched' = [touched EXCEPT ![t] = IF todo'[t] = <<>> THEN {} ELSE mine]
     /\ raced' = IF rivals = {} THEN raced
                 ELSE raced \cup mine \cup UNION {touched[u] : u \in rivals}
-----------------------------------------------------------------------------
(************************ Registering and removing *************************)

\* The accesses that take a displaced or removed state out of the other maps.
\* Mutants: the connection is left in the per-IP count, or in the outbound one.
UnlinkLeavingIp(s) == DoAt("addr_remove", s.addr) \o When(s.outbound, Do("outbound_sub"))
UnlinkLeavingOutbound(s) == DoAt("addr_remove", s.addr) \o DoAt("ip_decrement", s.addr)
Unlink(s) ==
  DoAt("addr_remove", s.addr) \o DoAt("ip_decrement", s.addr)
    \o When(s.outbound, Do("outbound_sub"))

\* The accesses that enter a new state into the other maps.
Link(n, a, outbound) ==
  <<[op |-> "addr_insert", node |-> n, addr |-> a]>> \o DoAt("ip_increment", a)
    \o When(outbound, Do("outbound_add")) \o Do("connecting_sub")

Registered(n) == n \in DOMAIN peers
NewState(a, outbound) == [addr |-> a, outbound |-> outbound, open |-> TRUE,
                          peer_height |-> 0, msg_count |-> 0]
IpsOf(n) == IF Registered(n) THEN {Ip[peers[n].addr]} ELSE {}

\* register_peer's first access, and the plan for the others.
RegisterPlan(n, a, outbound) ==
  (IF Registered(n) THEN Unlink(peers[n]) ELSE Do("connected_add"))
    \o Link(n, a, outbound)
PutPeer(t, n, a, outbound) ==
  /\ peers' = Put(peers, {n}, NewState(a, outbound))
  /\ Touch(t, {n, Ip[a]} \cup IpsOf(n))

\* An acceptor: can_accept reads the counter and then the map, register_peer
\* follows if both allow it.
Accept(t, n, a) ==
  /\ connected_count < MAX_PEERS
  /\ Start(t, DoAt("check_ip", a)
               \o <<[op |-> "peers_insert", node |-> n, addr |-> a, outbound |-> FALSE]>>)
  /\ Touch(t, {})
  /\ UNCHANGED <<maps, counts, dialing>>

CheckIp(t) ==
  LET a == Arg(t).addr
  IN /\ Upcoming(t, "check_ip")
     /\ IF Ip[a] \in DOMAIN ip_connections => ip_connections[Ip[a]] < MAX_PER_IP
          THEN Continue(t, <<>>) ELSE Return(t)
     /\ Touch(t, {})
     /\ UNCHANGED <<maps, counts, dialing>>

RegisterInbound(t) ==
  LET r == Arg(t)
  IN /\ Upcoming(t, "peers_insert")
     /\ Continue(t, RegisterPlan(r.node, r.addr, r.outbound))
     /\ PutPeer(t, r.node, r.addr, r.outbound)
     /\ UNCHANGED <<addr_to_peer, ip_connections, last_connect_attempt, counts, dialing>>

\* A dial that has succeeded.
RegisterOutbound(t, n, a) ==
  /\ dialing[a] > 0
  /\ dialing' = [dialing EXCEPT ![a] = @ - 1]
  /\ Start(t, RegisterPlan(n, a, TRUE))
  /\ PutPeer(t, n, a, TRUE)
  /\ UNCHANGED <<addr_to_peer, ip_connections, last_connect_attempt, counts>>

\* remove_peer of a registered node; of any other it does nothing.
DropPeer(t, n) ==
  /\ peers' = Drop(peers, {n})
  /\ Touch(t, {n} \cup IpsOf(n))
RemovalPlan(n) == When(Registered(n), Unlink(peers[n]) \o Do("connected_sub"))
RemovePeer(t, n) ==
  /\ Registered(n)
  /\ Start(t, RemovalPlan(n))
  /\ DropPeer(t, n)
  /\ UNCHANGED <<addr_to_peer, ip_connections, last_connect_attempt, counts, dialing>>

AddrRemove(t) ==
  /\ Upcoming(t, "addr_remove")
  /\ addr_to_peer' = Drop(addr_to_peer, {Arg(t).addr})
  /\ Continue(t, <<>>)
  /\ Touch(t, {})
  /\ UNCHANGED <<peers, ip_connections, last_connect_attempt, counts, dialing>>

AddrInsert(t) ==
  /\ Upcoming(t, "addr_insert")
  /\ addr_to_peer' = Put(addr_to_peer, {Arg(t).addr}, Arg(t).node)
  /\ Continue(t, <<>>)
  /\ Touch(t, {})
  /\ UNCHANGED <<peers, ip_connections, last_connect_attempt, counts, dialing>>

\* decrement_ip: the entry is lowered under its guard; an entry that reached
\* zero is removed afterwards, by then perhaps no longer zero.
IpDecrement(t) ==
  LET ip == Ip[Arg(t).addr]
      left == SaturatingSub(ip_connections[ip], 1)
  IN /\ Upcoming(t, "ip_decrement")
     /\ IF ip \in DOMAIN ip_connections
          THEN /\ ip_connections' = [ip_connections EXCEPT ![ip] = left]
               /\ Continue(t, When(left = 0, DoAt("ip_remove", Arg(t).addr)))
          ELSE UNCHANGED ip_connections /\ Continue(t, <<>>)
     /\ Touch(t, {})
     /\ UNCHANGED <<peers, addr_to_peer, last_connect_attempt, counts, dialing>>

IpRemove(t) ==
  /\ Upcoming(t, "ip_remove")
  /\ ip_connections' = Drop(ip_connections, {Ip[Arg(t).addr]})
  /\ Continue(t, <<>>)
  /\ Touch(t, {})
  /\ UNCHANGED <<peers, addr_to_peer, last_connect_attempt, counts, dialing>>

IpIncrement(t) ==
  LET ip == Ip[Arg(t).addr]
      old == IF ip \in DOMAIN ip_connections THEN ip_connections[ip] ELSE 0
  IN /\ Upcoming(t, "ip_increment")
     /\ ip_connections' = Put(ip_connections, {ip}, old + 1)
     /\ Continue(t, <<>>)
     /\ Touch(t, {})
     /\ UNCHANGED <<peers, addr_to_peer, last_connect_attempt, counts, dialing>>

\* The counters: connected and outbound wrap, connecting saturates.
ConnectedAdd(t) ==
  /\ Upcoming(t, "connected_add")
  /\ connected_count' = Wrap(connected_count + 1)
  /\ Continue(t, <<>>)
  /\ Touch(t, {})
  /\ UNCHANGED <<maps, outbound_count, connecting_count, dialing>>
ConnectedSub(t) ==
  /\ Upcoming(t, "connected_sub")
  /\ connected_count' = Wrap(connected_count - 1)
  /\ Continue(t, <<>>)
  /\ Touch(t, {})
  /\ UNCHANGED <<maps, outbound_count, connecting_count, dialing>>
OutboundAdd(t) ==
  /\ Upcoming(t, "outbound_add")
  /\ outbound_count' = Wrap(outbound_count + 1)
  /\ Continue(t, <<>>)
  /\ Touch(t, {})
  /\ UNCHANGED <<maps, connected_count, connecting_count, dialing>>
OutboundSub(t) ==
  /\ Upcoming(t, "outbound_sub")
  /\ outbound_count' = Wrap(outbound_count - 1)
  /\ Continue(t, <<>>)
  /\ Touch(t, {})
  /\ UNCHANGED <<maps, connected_count, connecting_count, dialing>>
ConnectingSub(t) ==
  /\ Upcoming(t, "connecting_sub")
  /\ connecting_count' = SaturatingSub(connecting_count, 1)
  /\ Continue(t, <<>>)
  /\ Touch(t, {})
  /\ UNCHANGED <<maps, connected_count, outbound_count, dialing>>
-----------------------------------------------------------------------------
(******************************* Dialling **********************************)

\* try_reserve_outbound_slot checks the two counters, then the age of the last
\* attempt; only then does it record the attempt and count it.
TryReserve(t, a) ==
  /\ outbound_count < MAX_OUTBOUND
  /\ Start(t, DoAt("check_connecting", a) \o DoAt("check_retry", a)
               \o DoAt("note_attempt", a) \o DoAt("connecting_add", a))
  /\ Touch(t, {Ip[a]})
  /\ UNCHANGED <<maps, counts, dialing>>

\* Mutant: the slots taken are not counted.
CheckConnectingNever(t) ==
  /\ Upcoming(t, "check_connecting")
  /\ Continue(t, <<>>)
  /\ Touch(t, {})
  /\ UNCHANGED <<maps, counts, dialing>>
CheckConnecting(t) ==
  /\ Upcoming(t, "check_connecting")
  /\ IF connecting_count < MAX_CONNECTING THEN Continue(t, <<>>) ELSE Return(t)
  /\ Touch(t, {})
  /\ UNCHANGED <<maps, counts, dialing>>

\* Expired attempts are dropped; a fresh one to this address ends the call.
\* Mutant: the age is not looked at.
CheckRetryNever(t) ==
  /\ Upcoming(t, "check_retry")
  /\ Continue(t, <<>>)
  /\ Touch(t, {})
  /\ UNCHANGED <<maps, counts, dialing>>
CheckRetry(t) ==
  LET kept == Drop(last_connect_attempt,
                   {b \in DOMAIN last_connect_attempt : last_connect_attempt[b] = "expired"})
      a == Arg(t).addr
  IN /\ Upcoming(t, "check_retry")
     /\ last_connect_attempt' = kept
     /\ IF a \in DOMAIN kept /\ kept[a] = "fresh" THEN Return(t) ELSE Continue(t, <<>>)
     /\ Touch(t, {})
     /\ UNCHANGED <<peers, addr_to_peer, ip_connections, counts, dialing>>

NoteAttempt(t) ==
  /\ Upcoming(t, "note_attempt")
  /\ last_connect_attempt' = Put(last_connect_attempt, {Arg(t).addr}, "fresh")
  /\ Continue(t, <<>>)
  /\ Touch(t, {})
  /\ UNCHANGED <<peers, addr_to_peer, ip_connections, counts, dialing>>

\* The slot is taken and the caller starts to dial.
ConnectingAdd(t) ==
  /\ Upcoming(t, "connecting_add")
  /\ connecting_count' = connecting_count + 1
  /\ dialing' = [dialing EXCEPT ![Arg(t).addr] = @ + 1]
  /\ Continue(t, <<>>)
  /\ Touch(t, {})
  /\ UNCHANGED <<maps, connected_count, outbound_count>>

MarkConnectFailed(t, a) ==
  /\ dialing[a] > 0
  /\ dialing' = [dialing EXCEPT ![a] = @ - 1]
  /\ last_connect_attempt' = Put(last_connect_attempt, {a}, "fresh")
  /\ Start(t, Do("connecting_sub"))
  /\ Touch(t, {Ip[a]})
  /\ UNCHANGED <<peers, addr_to_peer, ip_connections, counts>>
-----------------------------------------------------------------------------
(******************************* Messages **********************************)

\* The ways broadcast may walk the map.
Walks == {s \in [1..Cardinality(Nodes) -> Nodes] :
            \A i, j \in DOMAIN s : s[i] = s[j] => i = j}

\* broadcast first walks all peers, noting those whose channel is closed, and
\* then removes the noted ones by their node id.
Broadcast(t, walk) ==
  /\ Start(t, [i \in DOMAIN walk |-> [op |-> "peers_probe", node |-> walk[i]]])
  /\ Touch(t, {})
  /\ UNCHANGED <<maps, counts, dialing>>

\* Mutant: every peer is noted.
ProbeAll(t) ==
  LET n == Arg(t).node
  IN /\ Upcoming(t, "peers_probe")
     /\ todo' = [todo EXCEPT ![t] = Tail(@) \o When(Registered(n), DoFor("peers_remove", n))]
     /\ Touch(t, {n} \cup IpsOf(n))
     /\ UNCHANGED <<maps, counts, dialing, ops>>
Probe(t) ==
  LET n == Arg(t).node
      dead == Registered(n) /\ ~peers[n].open
  IN /\ Upcoming(t, "peers_probe")
     /\ todo' = [todo EXCEPT ![t] = Tail(@) \o When(dead, DoFor("peers_remove", n))]
     /\ Touch(t, IF dead THEN {n} \cup IpsOf(n) ELSE {})
     /\ UNCHANGED <<maps, counts, dialing, ops>>

RemoveDead(t) ==
  LET n == Arg(t).node
  IN /\ Upcoming(t, "peers_remove")
     /\ Continue(t, RemovalPlan(n))
     /\ DropPeer(t, n)
     /\ UNCHANGED <<addr_to_peer, ip_connections, last_connect_attempt, counts, dialing>>

\* send_to holds the entry's guard throughout; the second may have elapsed.
SendTo(t, n, elapsed) ==
  LET sent == IF elapsed THEN 0 ELSE peers[n].msg_count
  IN /\ Registered(n)
     /\ peers' = [peers EXCEPT ![n].msg_count =
                    IF sent < RATE_LIMIT_PER_SEC THEN sent + 1 ELSE sent]
     /\ Start(t, <<>>)
     /\ UNCHANGED <<addr_to_peer, ip_connections, last_connect_attempt, counts,
                    dialing, history>>

UpdatePeerHeight(t, n, h) ==
  /\ Registered(n)
  /\ h > peers[n].peer_height
  /\ peers' = [peers EXCEPT ![n].peer_height = h]
  /\ Start(t, <<>>)
  /\ UNCHANGED <<addr_to_peer, ip_connections, last_connect_attempt, counts, dialing, history>>

\* The receiving half of n's channel is dropped.
ChannelCloses(n) ==
  /\ Registered(n)
  /\ peers[n].open
  /\ peers' = [peers EXCEPT ![n].open = FALSE]
  /\ UNCHANGED <<addr_to_peer, ip_connections, last_connect_attempt, counts, todo,
                 dialing, ops, history>>

\* Time passes for an attempt.
Age(a) ==
  /\ a \in DOMAIN last_connect_attempt
  /\ last_connect_attempt[a] # "expired"
  /\ last_connect_attempt' = [last_connect_attempt EXCEPT ![a] =
                                IF @ = "fresh" THEN "due" ELSE "expired"]
  /\ UNCHANGED <<peers, addr_to_peer, ip_connections, counts, todo, dialing, ops, history>>
-----------------------------------------------------------------------------
StartOperation(t) ==
  \/ \E n \in Nodes, a \in Addrs : Accept(t, n, a) \/ RegisterOutbound(t, n, a)
  \/ \E n \in Nodes : RemovePeer(t, n)
  \/ \E a \in Addrs : TryReserve(t, a) \/ MarkConnectFailed(t, a)
  \/ \E walk \in Walks : Broadcast(t, walk)
  \/ \E n \in Nodes, elapsed \in BOOLEAN : SendTo(t, n, elapsed)
  \/ \E n \in Nodes, h \in ReportedHeights : UpdatePeerHeight(t, n, h)
NextAccess(t) ==
  \/ CheckIp(t) \/ RegisterInbound(t) \/ AddrRemove(t) \/ AddrInsert(t)
  \/ IpDecrement(t) \/ IpRemove(t) \/ IpIncrement(t)
  \/ ConnectedAdd(t) \/ ConnectedSub(t) \/ OutboundAdd(t) \/ OutboundSub(t)
  \/ ConnectingSub(t) \/ CheckConnecting(t) \/ CheckRetry(t) \/ NoteAttempt(t)
  \/ ConnectingAdd(t) \/ Probe(t) \/ RemoveDead(t)
Next ==
  \/ \E t \in Threads : StartOperation(t) \/ NextAccess(t)
  \/ \E n \in Nodes : ChannelCloses(n)
  \/ \E a \in Addrs : Age(a)

Spec == Init /\ [][Next]_vars
-----------------------------------------------------------------------------
\* The counters stay words of WORD values, though they wrap.
TypeOK ==
  /\ IsMap(peers, Nodes, PeerState)
  /\ IsMap(addr_to_peer, Addrs, Nodes)
  /\ IsMap(ip_connections, Ips, Nat)
  /\ IsMap(last_connect_attempt, Addrs, Ages)
  /\ connected_count \in 0..(WORD - 1)
  /\ outbound_count \in 0..(WORD - 1)
  /\ connecting_count \in Nat
  /\ todo \in [Threads -> Seq(Access)]
  /\ dialing \in [Addrs -> Nat]
  /\ ops \in 0..MaxOps
  /\ touched \in [Threads -> SUBSET (Nodes \cup Ips)]
  /\ raced \subseteq Nodes \cup Ips

Outbound == {n \in DOMAIN peers : peers[n].outbound}
PeersOn(ip) == {n \in DOMAIN peers : Ip[peers[n].addr] = ip}

\* Whatever operations ran at once, and although a counter may have wrapped
\* below zero in between, once they have all returned connected_count and
\* outbound_count are the numbers of registered and of outbound peers.
CountsSettle ==
  Quiescent => /\ connected_count = Cardinality(DOMAIN peers)
               /\ outbound_count = Cardinality(Outbound)

\* No dialling slot leaks: once all operations have returned, no more slots are
\* taken than dials are under way.  There may be fewer, since registering an
\* inbound peer releases a slot it never took, so that more dials than slots run.
\* And although the check of the slots and the taking of one are separate, each
\* further thread overshoots the limit by at most one slot.
SlotsAreKept ==
  /\ Quiescent => connecting_count <= Weight(Addrs, dialing)
  /\ connecting_count <= MAX_CONNECTING + Cardinality(Threads) - 1

\* Operations that run at once can spoil routes and per-IP counts only of the
\* IPs they both touch: on every other IP, once all have returned, each route
\* leads to a registered peer at that address, and the count is exact.
UnracedIpsAreExact ==
  Quiescent =>
    \A ip \in Ips \ raced :
      /\ \A a \in DOMAIN addr_to_peer : Ip[a] = ip =>
           addr_to_peer[a] \in DOMAIN peers /\ peers[addr_to_peer[a]].addr = a
      /\ ip \in DOMAIN ip_connections <=> PeersOn(ip) # {}
      /\ ip \in DOMAIN ip_connections => ip_connections[ip] = Cardinality(PeersOn(ip))

\* On an unraced IP, broadcast only disconnects a peer whose channel is closed,
\* although it removes by node id after the walk.
BroadcastSparesTheLiving ==
  [][\A n \in DOMAIN peers \ DOMAIN peers' :
       (\E t \in Threads : RemoveDead(t)) /\ peers[n].open => IpsOf(n) \subseteq raced']_vars

\* On an unraced IP, no attempt follows a fresh one to the same address.
RetriesAreSpaced ==
  [][\A t \in Threads : NoteAttempt(t) =>
       LET a == Arg(t).addr
       IN a \in DOMAIN last_connect_attempt /\ last_connect_attempt[a] = "fresh"
            => Ip[a] \in raced]_vars
=============================================================================
