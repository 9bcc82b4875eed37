----------------------------- MODULE PeersProofs -----------------------------
(***************************************************************************)
(* The peer registry for any number of threads, nodes, addresses and IPs:  *)
(* what holds in the middle of its operations, and from it what holds once *)
(* they have returned.                                                     *)
(*                                                                         *)
(* A thread's plan is the set of accesses it still has to make.  The       *)
(* invariant says of each map and counter that it differs from the         *)
(* registered peers by exactly what the plans will do to it.  For the      *)
(* counters all plans count.  For the routes and per-IP counts, on an IP   *)
(* that is not raced, only one thread's plan can: a second one would have  *)
(* touched the IP too.                                                     *)
(***************************************************************************)
EXTENDS PeersManager, CollectionLemmas

\* The accesses of a list, and those t has planned.
Accesses(s) == {s[i] : i \in 1..Len(s)}
Plan(t) == Accesses(todo[t])
\* A has an access of kind op, or one to ip.
Has(A, op) == \E x \in A : x.op = op
HasOn(A, op, ip) == \E x \in A : x.op = op /\ Ip[x.addr] = ip
Bit(b) == IF b THEN 1 ELSE 0

Checks == {"check_ip", "check_connecting", "check_retry"}
Broadcasts == {"peers_probe", "peers_remove"}
IpWrites == {"ip_decrement", "ip_remove", "ip_increment"}
Dials == {"check_connecting", "check_retry", "note_attempt", "connecting_add"}

\* An operation may make an access of kind x before one of kind y.
MayPrecede(x, y) ==
  /\ x \notin {"peers_insert", "connecting_add"}
  /\ x \in Checks => y \in Dials \cup {"peers_insert"}
  /\ y \in Checks => x \in Checks
  /\ x \in Broadcasts => y \in Broadcasts
  /\ x = y => x \in Broadcasts
  /\ {x, y} \subseteq IpWrites => y = "ip_increment"

Ordered(s) ==
  \A i, j \in 1..Len(s) : i < j => MayPrecede(s[i].op, s[j].op)

\* The attempt that is noted is the one whose age was checked.
SameAddr(A) ==
  \A x, y \in A : x.op = "check_retry" /\ y.op = "note_attempt" => x.addr = y.addr

PlansAreOrdered == \A t \in Threads : Ordered(todo[t]) /\ SameAddr(Plan(t))

\* What an access works on was touched before.
IsTouched(x, S) ==
  /\ x.op \in Dials \cup IpWrites \cup {"addr_remove", "addr_insert"} => Ip[x.addr] \in S
  /\ x.op \in {"addr_insert", "peers_remove"} => x.node \in S
PlansAreTouched ==
  \A t \in Threads : /\ \A x \in Plan(t) : IsTouched(x, touched[t])
                     /\ Idle(t) => touched[t] = {}
\* Operations that have touched the same have raced.
RacesAreMarked ==
  \A t, u \in Threads :
    t # u /\ touched[t] \cap touched[u] # {} => touched[t] \cup touched[u] \subseteq raced
-----------------------------------------------------------------------------
\* A counter, with the subtractions and without the additions still to be made,
\* is the number of peers.
Waiting(op) == {t \in Threads : Has(Plan(t), op)}
CountersAreExplained ==
  /\ connected_count = Wrap(Cardinality(DOMAIN peers) + Cardinality(Waiting("connected_sub"))
                              - Cardinality(Waiting("connected_add")))
  /\ outbound_count = Wrap(Cardinality(Outbound) + Cardinality(Waiting("outbound_sub"))
                              - Cardinality(Waiting("outbound_add")))

\* A slot taken belongs to a dial under way or will be given back, and each
\* thread that found a slot free will take one more at most.
Admitted == {t \in Threads : Has(Plan(t), "connecting_add") /\ ~Has(Plan(t), "check_connecting")}
SlotsAreExplained ==
  /\ connecting_count <= Weight(Addrs, dialing) + Cardinality(Waiting("connecting_sub"))
  /\ connecting_count + Cardinality(Admitted) <= MAX_CONNECTING + Cardinality(Threads) - 1
-----------------------------------------------------------------------------
Connections(ip) == IF ip \in DOMAIN ip_connections THEN ip_connections[ip] ELSE 0

\* No thread but t is at work on the unraced ip.
AloneOn(t, ip) == ip \notin raced /\ \A u \in Threads \ {t} : ip \notin touched[u]

\* The count of an IP that t alone works on.
IpExplained(t, ip) ==
  /\ Connections(ip) + Bit(HasOn(Plan(t), "ip_increment", ip))
       = Cardinality(PeersOn(ip)) + Bit(HasOn(Plan(t), "ip_decrement", ip))
  /\ ip \in DOMAIN ip_connections
       <=> Connections(ip) > 0 \/ HasOn(Plan(t), "ip_remove", ip)
  /\ HasOn(Plan(t), "ip_remove", ip) => Connections(ip) = 0
  /\ HasOn(Plan(t), "ip_increment", ip) => PeersOn(ip) # {}
IpsAreExplained ==
  \A t \in Threads, ip \in Ips : AloneOn(t, ip) => IpExplained(t, ip)

\* A route on an unraced IP leads to its peer or will be removed, and a route to
\* be entered will lead to its peer.
At(n, a) == n \in DOMAIN peers /\ peers[n].addr = a
RoutesAreExplained ==
  \A a \in Addrs : Ip[a] \notin raced =>
    /\ a \in DOMAIN addr_to_peer =>
         \/ At(addr_to_peer[a], a)
         \/ \E t \in Threads : \E x \in Plan(t) : x.op = "addr_remove" /\ x.addr = a
    /\ \A t \in Threads : \A x \in Plan(t) :
         x.op = "addr_insert" /\ x.addr = a => At(x.node, a)
-----------------------------------------------------------------------------
\* A peer noted for removal has a closed channel, or its IP is raced.
DeadAreClosed ==
  \A t \in Threads : \A x \in Plan(t) :
    x.op = "peers_remove" /\ Registered(x.node) /\ peers[x.node].open
      => IpsOf(x.node) \subseteq raced

\* An attempt past the check of its age does not follow a fresh one, or its IP
\* is raced.
Fresh(a) == a \in DOMAIN last_connect_attempt /\ last_connect_attempt[a] = "fresh"
AttemptsAreDue ==
  \A t \in Threads : \A x \in Plan(t) :
    x.op = "note_attempt" /\ ~Has(Plan(t), "check_retry") /\ Fresh(x.addr) => Ip[x.addr] \in raced

Inv ==
  /\ TypeOK
  /\ PlansAreOrdered
  /\ PlansAreTouched
  /\ RacesAreMarked
  /\ CountersAreExplained
  /\ SlotsAreExplained
  /\ IpsAreExplained
  /\ RoutesAreExplained
  /\ DeadAreClosed
  /\ AttemptsAreDue
-----------------------------------------------------------------------------
(********************************** Plans **********************************)

\* The head of a plan and what is left behind it.
LEMMA TailOfPlan ==
  ASSUME NEW s \in Seq(Access), s # <<>>, Ordered(s)
  PROVE  /\ Head(s) \in Access
         /\ Tail(s) \in Seq(Access)
         /\ Accesses(s) = {Head(s)} \cup Accesses(Tail(s))
         /\ Ordered(Tail(s))
         /\ \A x \in Accesses(Tail(s)) : MayPrecede(Head(s).op, x.op)
<1>1. /\ Len(s) \in Nat /\ Len(s) >= 1 /\ Head(s) = s[1] /\ Head(s) \in Access
      /\ Tail(s) \in Seq(Access) /\ Len(Tail(s)) = Len(s) - 1
      /\ \A i \in 1..(Len(s) - 1) : Tail(s)[i] = s[i + 1]
  OBVIOUS
<1>2. Accesses(s) \subseteq {Head(s)} \cup Accesses(Tail(s))
  <2> SUFFICES ASSUME NEW i \in 1..Len(s)
               PROVE  s[i] \in {Head(s)} \cup Accesses(Tail(s))
    BY DEF Accesses
  <2>1. CASE i = 1
    BY <1>1, <2>1
  <2>2. CASE i # 1
    <3>1. i - 1 \in 1..Len(Tail(s)) /\ Tail(s)[i - 1] = s[i]
      BY <1>1, <2>2
    <3> QED
      BY <3>1 DEF Accesses
  <2> QED
    BY <2>1, <2>2
<1>3. {Head(s)} \cup Accesses(Tail(s)) \subseteq Accesses(s)
  <2>1. \A i \in 1..Len(Tail(s)) : i + 1 \in 1..Len(s) /\ Tail(s)[i] = s[i + 1]
    BY <1>1
  <2> QED
    BY <1>1, <2>1 DEF Accesses
<1>4. Ordered(Tail(s))
  <2> SUFFICES ASSUME NEW i \in 1..Len(Tail(s)), NEW j \in 1..Len(Tail(s)), i < j
               PROVE  MayPrecede(Tail(s)[i].op, Tail(s)[j].op)
    BY DEF Ordered
  <2>1. i + 1 \in 1..Len(s) /\ j + 1 \in 1..Len(s) /\ i + 1 < j + 1
        /\ Tail(s)[i] = s[i + 1] /\ Tail(s)[j] = s[j + 1]
    BY <1>1
  <2> QED
    BY <2>1 DEF Ordered
<1>5. \A x \in Accesses(Tail(s)) : MayPrecede(Head(s).op, x.op)
  <2> SUFFICES ASSUME NEW i \in 1..Len(Tail(s))
               PROVE  MayPrecede(Head(s).op, Tail(s)[i].op)
    BY DEF Accesses
  <2>1. i + 1 \in 1..Len(s) /\ 1 \in 1..Len(s) /\ 1 < i + 1 /\ Tail(s)[i] = s[i + 1]
    BY <1>1
  <2> QED
    BY <1>1, <2>1 DEF Ordered
<1> QED
  BY <1>1, <1>2, <1>3, <1>4, <1>5

\* One plan followed by another.
LEMMA PlansJoined ==
  ASSUME NEW r \in Seq(Access), NEW s \in Seq(Access), Ordered(r), Ordered(s),
         \A x \in Accesses(r), y \in Accesses(s) : MayPrecede(x.op, y.op)
  PROVE  /\ r \o s \in Seq(Access)
         /\ Accesses(r \o s) = Accesses(r) \cup Accesses(s)
         /\ Ordered(r \o s)
<1> DEFINE q == r \o s
<1>1. /\ q \in Seq(Access) /\ Len(r) \in Nat /\ Len(s) \in Nat /\ Len(q) = Len(r) + Len(s)
      /\ \A i \in 1..Len(q) : q[i] = IF i <= Len(r) THEN r[i] ELSE s[i - Len(r)]
  OBVIOUS
<1> HIDE DEF q
<1>2. \A i \in 1..Len(q) : \/ i \in 1..Len(r) /\ q[i] = r[i]
                           \/ i - Len(r) \in 1..Len(s) /\ i > Len(r) /\ q[i] = s[i - Len(r)]
  BY <1>1
<1>3. Accesses(q) \subseteq Accesses(r) \cup Accesses(s)
  BY <1>2 DEF Accesses
<1>4. Accesses(r) \subseteq Accesses(q)
  <2>1. \A i \in 1..Len(r) : i \in 1..Len(q) /\ q[i] = r[i]
    BY <1>1
  <2> QED
    BY <2>1 DEF Accesses
<1>5. Accesses(s) \subseteq Accesses(q)
  <2>1. \A i \in 1..Len(s) : i + Len(r) \in 1..Len(q) /\ q[i + Len(r)] = s[i]
    BY <1>1
  <2> QED
    BY <2>1 DEF Accesses
<1>6. Ordered(q)
  <2> SUFFICES ASSUME NEW i \in 1..Len(q), NEW j \in 1..Len(q), i < j
               PROVE  MayPrecede(q[i].op, q[j].op)
    BY DEF Ordered
  <2>1. CASE i \in 1..Len(r) /\ j \in 1..Len(r)
    BY <1>1, <2>1 DEF Ordered
  <2>2. CASE i > Len(r) /\ j > Len(r)
    <3>1. /\ i - Len(r) \in 1..Len(s) /\ j - Len(r) \in 1..Len(s)
          /\ i - Len(r) < j - Len(r) /\ q[i] = s[i - Len(r)] /\ q[j] = s[j - Len(r)]
      BY <1>1, <2>2
    <3> QED
      BY <3>1 DEF Ordered
  <2>3. CASE i \in 1..Len(r) /\ j > Len(r)
    <3>1. /\ q[i] = r[i] /\ j - Len(r) \in 1..Len(s) /\ q[j] = s[j - Len(r)]
      BY <1>1, <2>3
    <3> QED
      BY <2>3, <3>1 DEF Accesses
  <2> QED
    BY <1>1, <2>1, <2>2, <2>3
<1> QED
  BY <1>1, <1>3, <1>4, <1>5, <1>6 DEF q

\* A plan of a single access.
LEMMA PlanOfOne ==
  ASSUME NEW x \in Access
  PROVE  <<x>> \in Seq(Access) /\ Accesses(<<x>>) = {x} /\ Ordered(<<x>>)
<1>1. <<x>> \in Seq(Access) /\ Len(<<x>>) = 1 /\ <<x>>[1] = x
  OBVIOUS
<1>2. Accesses(<<x>>) = {x}
  BY <1>1 DEF Accesses
<1>3. Ordered(<<x>>)
  BY <1>1 DEF Ordered
<1> QED
  BY <1>1, <1>2, <1>3

\* The plan of an operation that is over.
LEMMA PlanOfNone ==
  <<>> \in Seq(Access) /\ Accesses(<<>>) = {} /\ Ordered(<<>>)
<1>1. <<>> \in Seq(Access) /\ Len(<<>>) = 0
  OBVIOUS
<1>2. 1..0 = {}
  OBVIOUS
<1> QED
  BY <1>1, <1>2 DEF Accesses, Ordered

\* The accesses there are.
LEMMA KindsOfAccess ==
  /\ \A op \in {"addr_remove", "ip_decrement", "ip_remove", "ip_increment", "check_ip",
                "check_connecting", "check_retry", "note_attempt", "connecting_add"},
        a \in Addrs : [op |-> op, addr |-> a] \in Access
  /\ \A op \in {"connected_add", "connected_sub", "outbound_add", "outbound_sub",
                "connecting_sub"} : [op |-> op] \in Access
  /\ \A n \in Nodes, a \in Addrs, o \in BOOLEAN :
       [op |-> "peers_insert", node |-> n, addr |-> a, outbound |-> o] \in Access
  /\ \A n \in Nodes, a \in Addrs : [op |-> "addr_insert", node |-> n, addr |-> a] \in Access
  /\ \A op \in {"peers_remove", "peers_probe"}, n \in Nodes : [op |-> op, node |-> n] \in Access
BY DEF Access

IsPlan(s, A) == s \in Seq(Access) /\ Accesses(s) = A /\ Ordered(s)

\* The plan of one access to a counter.
LEMMA PlanDo ==
  ASSUME NEW op \in {"connected_add", "connected_sub", "outbound_add", "outbound_sub",
                     "connecting_sub"}
  PROVE  IsPlan(Do(op), {[op |-> op]})
BY KindsOfAccess, PlanOfOne DEF Do, IsPlan

\* The plan of one access for an address.
LEMMA PlanDoAt ==
  ASSUME NEW op \in {"addr_remove", "ip_decrement", "ip_remove", "ip_increment", "check_ip",
                     "check_connecting", "check_retry", "note_attempt", "connecting_add"},
         NEW a \in Addrs
  PROVE  IsPlan(DoAt(op, a), {[op |-> op, addr |-> a]})
BY KindsOfAccess, PlanOfOne DEF DoAt, IsPlan

\* A plan that depends on a condition.
LEMMA PlanWhen ==
  ASSUME NEW c \in BOOLEAN, NEW s, NEW A, IsPlan(s, A)
  PROVE  IsPlan(When(c, s), IF c THEN A ELSE {})
BY PlanOfNone DEF When, IsPlan

\* A plan followed by another one.
LEMMA PlanJoin ==
  ASSUME NEW r, NEW A, IsPlan(r, A), NEW s, NEW B, IsPlan(s, B),
         \A x \in A, y \in B : MayPrecede(x.op, y.op)
  PROVE  IsPlan(r \o s, A \cup B)
BY PlansJoined DEF IsPlan

Unlinking(a, o) ==
  {[op |-> "addr_remove", addr |-> a], [op |-> "ip_decrement", addr |-> a]}
    \cup (IF o THEN {[op |-> "outbound_sub"]} ELSE {})
Linking(n, a, o) ==
  {[op |-> "addr_insert", node |-> n, addr |-> a], [op |-> "ip_increment", addr |-> a],
   [op |-> "connecting_sub"]}
    \cup (IF o THEN {[op |-> "outbound_add"]} ELSE {})

\* The plan that takes a state out of the other maps.
LEMMA PlanUnlink ==
  ASSUME NEW st, st.addr \in Addrs, st.outbound \in BOOLEAN
  PROVE  IsPlan(Unlink(st), Unlinking(st.addr, st.outbound))
<1> DEFINE a == st.addr
           A == {[op |-> "addr_remove", addr |-> a]}
           B == {[op |-> "ip_decrement", addr |-> a]}
           C == IF st.outbound THEN {[op |-> "outbound_sub"]} ELSE {}
<1>1. IsPlan(DoAt("addr_remove", a), A) /\ IsPlan(DoAt("ip_decrement", a), B)
  BY PlanDoAt
<1>2. IsPlan(When(st.outbound, Do("outbound_sub")), C)
  BY PlanDo, PlanWhen
<1>3. \A x \in A, y \in B : MayPrecede(x.op, y.op)
  BY DEF MayPrecede, Checks, Broadcasts, IpWrites
<1>4. \A x \in A \cup B, y \in C : MayPrecede(x.op, y.op)
  BY DEF MayPrecede, Checks, Broadcasts, IpWrites
<1> HIDE DEF A, B, C
<1>5. IsPlan(DoAt("addr_remove", a) \o DoAt("ip_decrement", a), A \cup B)
  BY <1>1, <1>3, PlanJoin
<1>6. IsPlan(Unlink(st), (A \cup B) \cup C)
  BY <1>2, <1>4, <1>5, PlanJoin DEF Unlink
<1>7. (A \cup B) \cup C = Unlinking(st.addr, st.outbound)
  BY DEF A, B, C, Unlinking
<1> QED
  BY <1>6, <1>7

\* The plan that enters a state into the other maps.
LEMMA PlanLink ==
  ASSUME NEW n \in Nodes, NEW a \in Addrs, NEW o \in BOOLEAN
  PROVE  IsPlan(Link(n, a, o), Linking(n, a, o))
<1> DEFINE A == {[op |-> "addr_insert", node |-> n, addr |-> a]}
           B == {[op |-> "ip_increment", addr |-> a]}
           C == IF o THEN {[op |-> "outbound_add"]} ELSE {}
           D == {[op |-> "connecting_sub"]}
<1>1. /\ IsPlan(<<[op |-> "addr_insert", node |-> n, addr |-> a]>>, A)
      /\ IsPlan(DoAt("ip_increment", a), B)
      /\ IsPlan(Do("connecting_sub"), D)
  BY PlanDoAt, PlanDo, PlanOfOne, KindsOfAccess DEF IsPlan
<1>2. IsPlan(When(o, Do("outbound_add")), C)
  BY PlanDo, PlanWhen
<1>3. \A x \in A, y \in B : MayPrecede(x.op, y.op)
  BY DEF MayPrecede, Checks, Broadcasts, IpWrites
<1>4. \A x \in A \cup B, y \in C : MayPrecede(x.op, y.op)
  BY DEF MayPrecede, Checks, Broadcasts, IpWrites
<1>5. \A x \in (A \cup B) \cup C, y \in D : MayPrecede(x.op, y.op)
  BY DEF MayPrecede, Checks, Broadcasts, IpWrites
<1> HIDE DEF A, B, C, D
<1>6. IsPlan(<<[op |-> "addr_insert", node |-> n, addr |-> a]>> \o DoAt("ip_increment", a), A \cup B)
  BY <1>1, <1>3, PlanJoin
<1>7. IsPlan((<<[op |-> "addr_insert", node |-> n, addr |-> a]>> \o DoAt("ip_increment", a))
               \o When(o, Do("outbound_add")), (A \cup B) \cup C)
  BY <1>2, <1>4, <1>6, PlanJoin
<1>8. IsPlan(Link(n, a, o), ((A \cup B) \cup C) \cup D)
  BY <1>1, <1>5, <1>7, PlanJoin DEF Link
<1>9. ((A \cup B) \cup C) \cup D = Linking(n, a, o)
  BY DEF A, B, C, D, Linking
<1> QED
  BY <1>8, <1>9

\* What register_peer has to do after its first access.
Registering(n, a, o) ==
  (IF Registered(n) THEN Unlinking(peers[n].addr, peers[n].outbound)
   ELSE {[op |-> "connected_add"]}) \cup Linking(n, a, o)
\* What remove_peer has to do.
Removing(n) ==
  IF Registered(n)
    THEN Unlinking(peers[n].addr, peers[n].outbound) \cup {[op |-> "connected_sub"]}
    ELSE {}

\* The parts of a registered state.
LEMMA PeerFields ==
  ASSUME TypeOK, NEW n, Registered(n)
  PROVE  n \in Nodes /\ peers[n] \in PeerState /\ peers[n].addr \in Addrs /\ peers[n].outbound \in BOOLEAN
<1>1. n \in Nodes /\ peers[n] \in PeerState
  BY DEF TypeOK, IsMap, Registered
<1> QED
  BY <1>1 DEF PeerState

\* The plan of register_peer.
LEMMA PlanRegister ==
  ASSUME TypeOK, NEW n \in Nodes, NEW a \in Addrs, NEW o \in BOOLEAN
  PROVE  IsPlan(RegisterPlan(n, a, o), Registering(n, a, o))
<1>1. IsPlan(Link(n, a, o), Linking(n, a, o))
  BY PlanLink
<1>2. CASE Registered(n)
  <2>1. IsPlan(Unlink(peers[n]), Unlinking(peers[n].addr, peers[n].outbound))
    BY <1>2, PeerFields, PlanUnlink
  <2>2. \A x \in Unlinking(peers[n].addr, peers[n].outbound), y \in Linking(n, a, o) :
          MayPrecede(x.op, y.op)
    BY DEF Unlinking, Linking, MayPrecede, Checks, Broadcasts, IpWrites
  <2> QED
    BY <1>1, <1>2, <2>1, <2>2, PlanJoin DEF RegisterPlan, Registering
<1>3. CASE ~Registered(n)
  <2>1. IsPlan(Do("connected_add"), {[op |-> "connected_add"]})
    BY PlanDo
  <2>2. \A x \in {[op |-> "connected_add"]}, y \in Linking(n, a, o) : MayPrecede(x.op, y.op)
    BY DEF Linking, MayPrecede, Checks, Broadcasts, IpWrites
  <2> QED
    BY <1>1, <1>3, <2>1, <2>2, PlanJoin DEF RegisterPlan, Registering
<1> QED
  BY <1>2, <1>3

\* The plan of remove_peer.
LEMMA PlanRemove ==
  ASSUME TypeOK, NEW n
  PROVE  IsPlan(RemovalPlan(n), Removing(n))
<1>1. CASE Registered(n)
  <2>1. IsPlan(Unlink(peers[n]), Unlinking(peers[n].addr, peers[n].outbound))
    BY <1>1, PeerFields, PlanUnlink
  <2>2. IsPlan(Do("connected_sub"), {[op |-> "connected_sub"]})
    BY PlanDo
  <2>3. \A x \in Unlinking(peers[n].addr, peers[n].outbound), y \in {[op |-> "connected_sub"]} :
          MayPrecede(x.op, y.op)
    BY DEF Unlinking, MayPrecede, Checks, Broadcasts, IpWrites
  <2> QED
    BY <1>1, <2>1, <2>2, <2>3, PlanJoin DEF RemovalPlan, Removing, When
<1>2. CASE ~Registered(n)
  BY <1>2, PlanOfNone DEF RemovalPlan, Removing, When, IsPlan
<1> QED
  BY <1>1, <1>2
-----------------------------------------------------------------------------
(*************************** A thread's next plan ***************************)

\* t's plan becomes A, the others' stay.
Becomes(t, A) ==
  /\ todo' \in [Threads -> Seq(Access)]
  /\ \A u \in Threads : Ordered(todo'[u])
  /\ Plan(t)' = A
  /\ \A u \in Threads \ {t} : todo'[u] = todo[u] /\ Plan(u)' = Plan(u)

\* t's list is replaced.
LEMMA PlanReplaced ==
  ASSUME TypeOK, PlansAreOrdered, NEW t \in Threads, NEW s, NEW A, IsPlan(s, A),
         todo' = [todo EXCEPT ![t] = s]
  PROVE  Becomes(t, A)
<1>1. todo \in [Threads -> Seq(Access)] /\ s \in Seq(Access)
  BY DEF TypeOK, IsPlan
<1>2. todo' \in [Threads -> Seq(Access)] /\ todo'[t] = s /\ \A u \in Threads \ {t} : todo'[u] = todo[u]
  BY <1>1
<1>3. \A u \in Threads : Ordered(todo'[u])
  BY <1>2 DEF PlansAreOrdered, IsPlan
<1>4. Plan(t)' = A /\ \A u \in Threads \ {t} : Plan(u)' = Plan(u)
  BY <1>2 DEF Plan, IsPlan
<1> QED
  BY <1>2, <1>3, <1>4 DEF Becomes

Rest(t) == Accesses(Tail(todo[t]))

\* t's next access and the rest of its plan.
LEMMA RestOfPlan ==
  ASSUME TypeOK, PlansAreOrdered, NEW t \in Threads, todo[t] # <<>>
  PROVE  /\ Arg(t) \in Access /\ Plan(t) = {Arg(t)} \cup Rest(t)
         /\ IsPlan(Tail(todo[t]), Rest(t))
         /\ \A y \in Rest(t) : y \in Access /\ MayPrecede(Arg(t).op, y.op)
<1>1. todo[t] \in Seq(Access) /\ Ordered(todo[t])
  BY DEF TypeOK, PlansAreOrdered
<1>2. /\ Head(todo[t]) \in Access
      /\ Tail(todo[t]) \in Seq(Access)
      /\ Accesses(todo[t]) = {Head(todo[t])} \cup Accesses(Tail(todo[t]))
      /\ Ordered(Tail(todo[t]))
      /\ \A x \in Accesses(Tail(todo[t])) : MayPrecede(Head(todo[t]).op, x.op)
  BY <1>1, TailOfPlan
<1>3. \A y \in Rest(t) : y \in Access
  BY <1>2 DEF Accesses, Rest
<1> QED
  BY <1>2, <1>3 DEF Arg, Plan, Rest, IsPlan

\* An access is made and more are planned.
LEMMA PlanContinued ==
  ASSUME TypeOK, PlansAreOrdered, NEW t \in Threads, todo[t] # <<>>,
         NEW s, NEW A, IsPlan(s, A), Continue(t, s),
         \A x \in A, y \in Rest(t) : MayPrecede(x.op, y.op)
  PROVE  Becomes(t, A \cup Rest(t))
<1>1. IsPlan(s \o Tail(todo[t]), A \cup Rest(t))
  BY RestOfPlan, PlanJoin
<1>2. todo' = [todo EXCEPT ![t] = s \o Tail(todo[t])]
  BY DEF Continue
<1> QED
  BY <1>1, <1>2, PlanReplaced

\* An access is made.
LEMMA PlanAdvanced ==
  ASSUME TypeOK, PlansAreOrdered, NEW t \in Threads, todo[t] # <<>>, Continue(t, <<>>)
  PROVE  Becomes(t, Rest(t))
<1>1. IsPlan(<<>>, {})
  BY PlanOfNone DEF IsPlan
<1>2. Becomes(t, {} \cup Rest(t))
  BY <1>1, PlanContinued
<1>3. {} \cup Rest(t) = Rest(t)
  OBVIOUS
<1> QED
  BY <1>2, <1>3

\* An operation ends early.
LEMMA PlanAbandoned ==
  ASSUME TypeOK, PlansAreOrdered, NEW t \in Threads, Return(t)
  PROVE  Becomes(t, {})
<1>1. IsPlan(<<>>, {})
  BY PlanOfNone DEF IsPlan
<1> QED
  BY <1>1, PlanReplaced DEF Return

\* An operation starts.
LEMMA PlanStarted ==
  ASSUME TypeOK, PlansAreOrdered, NEW t \in Threads, NEW s, NEW A, IsPlan(s, A), Start(t, s)
  PROVE  Plan(t) = {} /\ Becomes(t, A)
<1>1. Plan(t) = {}
  BY PlanOfNone DEF Start, Idle, Plan
<1> QED
  BY <1>1, PlanReplaced DEF Start
-----------------------------------------------------------------------------
(***************************** What is touched *****************************)

\* A step of t that touches S and what t's new plan A works on.
LEMMA TouchKeepsTheMarks ==
  ASSUME TypeOK, PlansAreTouched, RacesAreMarked, NEW t \in Threads, NEW A, Becomes(t, A),
         NEW S \in SUBSET (Nodes \cup Ips), Touch(t, S),
         \A x \in A : IsTouched(x, S \cup touched[t])
  PROVE  /\ touched' \in [Threads -> SUBSET (Nodes \cup Ips)]
         /\ raced' \subseteq Nodes \cup Ips
         /\ raced \subseteq raced'
         /\ PlansAreTouched'
         /\ RacesAreMarked'
<1> DEFINE mine == S \cup touched[t]
           rivals == {u \in Threads \ {t} : touched[u] \cap mine # {}}
<1>1. /\ touched' = [touched EXCEPT ![t] = IF todo'[t] = <<>> THEN {} ELSE mine]
      /\ raced' = IF rivals = {} THEN raced
                  ELSE raced \cup mine \cup UNION {touched[u] : u \in rivals}
  BY DEF Touch
<1>2. touched \in [Threads -> SUBSET (Nodes \cup Ips)] /\ raced \subseteq Nodes \cup Ips
  BY DEF TypeOK
<1>3. touched' \in [Threads -> SUBSET (Nodes \cup Ips)] /\ raced' \subseteq Nodes \cup Ips
  BY <1>1, <1>2
<1>4. raced \subseteq raced'
  BY <1>1
<1>5. /\ \A u \in Threads \ {t} : touched'[u] = touched[u]
      /\ touched'[t] \subseteq mine /\ (todo'[t] # <<>> => touched'[t] = mine)
      /\ (todo'[t] = <<>> => touched'[t] = {})
  BY <1>1, <1>2
<1>6. \A u \in Threads \ {t} : touched[u] \cap mine # {} => mine \cup touched[u] \subseteq raced'
  BY <1>1
<1> HIDE DEF mine, rivals
<1>7. PlansAreTouched'
  <2>1. \A u \in Threads \ {t} : /\ \A x \in Plan(u)' : IsTouched(x, touched'[u])
                                 /\ todo'[u] = <<>> => touched'[u] = {}
    BY <1>5 DEF PlansAreTouched, Idle, Becomes
  <2>2. todo'[t] = <<>> => Plan(t)' = {}
    BY PlanOfNone DEF Plan
  <2>3. \A x \in Plan(t)' : IsTouched(x, touched'[t])
    BY <1>5, <2>2 DEF Becomes, mine
  <2> QED
    BY <1>5, <2>1, <2>3 DEF PlansAreTouched, Idle
<1>8. RacesAreMarked'
  <2> SUFFICES ASSUME NEW u \in Threads, NEW v \in Threads, u # v,
                      touched'[u] \cap touched'[v] # {}
               PROVE  touched'[u] \cup touched'[v] \subseteq raced'
    BY DEF RacesAreMarked
  <2>1. CASE u # t /\ v # t
    BY <1>4, <1>5, <2>1 DEF RacesAreMarked
  <2>2. CASE u = t
    BY <1>5, <1>6, <2>2
  <2>3. CASE v = t
    BY <1>5, <1>6, <2>3
  <2> QED
    BY <2>1, <2>2, <2>3
<1> QED
  BY <1>3, <1>4, <1>7, <1>8

\* A step of t keeps everything about plans and what they touch.
Booked(t) ==
  /\ todo' \in [Threads -> Seq(Access)]
  /\ touched' \in [Threads -> SUBSET (Nodes \cup Ips)]
  /\ raced' \subseteq Nodes \cup Ips
  /\ raced \subseteq raced'
  /\ \A u \in Threads \ {t} : touched'[u] = touched[u]
  /\ (touched'[t] = {} /\ Plan(t)' = {}) \/ touched[t] \subseteq touched'[t]
  /\ PlansAreOrdered'
  /\ PlansAreTouched'
  /\ RacesAreMarked'

\* What a step of t does to plans and to what is touched, given t's new plan.
LEMMA StepIsBooked ==
  ASSUME Inv, NEW t \in Threads, NEW A, Becomes(t, A), SameAddr(A),
         NEW S \in SUBSET (Nodes \cup Ips), Touch(t, S),
         \A x \in A : IsTouched(x, S \cup touched[t])
  PROVE  Booked(t)
<1>1. /\ touched' \in [Threads -> SUBSET (Nodes \cup Ips)]
      /\ raced' \subseteq Nodes \cup Ips
      /\ raced \subseteq raced'
      /\ PlansAreTouched'
      /\ RacesAreMarked'
  BY TouchKeepsTheMarks DEF Inv
<1>2. touched \in [Threads -> SUBSET (Nodes \cup Ips)]
  BY DEF Inv, TypeOK
<1>3. /\ \A u \in Threads \ {t} : touched'[u] = touched[u]
      /\ touched'[t] = IF todo'[t] = <<>> THEN {} ELSE S \cup touched[t]
  BY <1>2 DEF Touch
<1>4. todo'[t] = <<>> => Plan(t)' = {}
  BY PlanOfNone DEF Plan
<1>5. PlansAreOrdered'
  BY DEF Becomes, Inv, PlansAreOrdered
<1> QED
  BY <1>1, <1>3, <1>4, <1>5 DEF Booked, Becomes

\* An access is made and nothing new is planned or touched.
LEMMA AdvanceIsBooked ==
  ASSUME Inv, NEW t \in Threads, todo[t] # <<>>, Continue(t, <<>>), Touch(t, {})
  PROVE  Becomes(t, Rest(t)) /\ Booked(t)
<1>1. Becomes(t, Rest(t))
  BY PlanAdvanced DEF Inv
<1>2. Rest(t) \subseteq Plan(t)
  BY RestOfPlan DEF Inv
<1>3. \A x \in Rest(t) : IsTouched(x, {} \cup touched[t])
  <2>1. {} \cup touched[t] = touched[t]
    OBVIOUS
  <2> QED
    BY <1>2, <2>1 DEF Inv, PlansAreTouched
<1>4. SameAddr(Rest(t))
  BY <1>2 DEF Inv, PlansAreOrdered, SameAddr
<1> QED
  BY <1>1, <1>3, <1>4, StepIsBooked

\* A check fails and the operation is over.
LEMMA ReturnIsBooked ==
  ASSUME Inv, NEW t \in Threads, Return(t), Touch(t, {})
  PROVE  Becomes(t, {}) /\ Booked(t)
<1>1. Becomes(t, {})
  BY PlanAbandoned DEF Inv
<1>2. SameAddr({})
  BY DEF SameAddr
<1> QED
  BY <1>1, <1>2, StepIsBooked

\* Nothing about plans changes.
LEMMA RestIsBooked ==
  ASSUME Inv, NEW t \in Threads, UNCHANGED <<todo, history>>
  PROVE  Becomes(t, Plan(t)) /\ Booked(t)
<1>1. /\ UNCHANGED <<todo, touched, raced>>
      /\ \A u \in Threads : Plan(u)' = Plan(u)
  BY DEF history, Plan
<1> QED
  BY <1>1 DEF Becomes, Booked, Inv, TypeOK, PlansAreOrdered, PlansAreTouched, RacesAreMarked, Idle
-----------------------------------------------------------------------------
(************************** What most steps leave **************************)

\* A and B have the same accesses of the given kinds.
Alike(A, B, kinds) == \A x \in A \cup B : x.op \in kinds => (x \in A <=> x \in B)

CounterKinds == {"connected_add", "connected_sub", "outbound_add", "outbound_sub"}

\* Threads are waiting for op as before, but for t.
LEMMA WaitingChanges ==
  ASSUME Inv, NEW t \in Threads, NEW A, Becomes(t, A), NEW op
  PROVE  /\ Cardinality(Waiting(op)) \in Nat /\ Cardinality(Waiting(op)') \in Nat
         /\ Cardinality(Waiting(op)') =
              Cardinality(Waiting(op)) - Bit(Has(Plan(t), op)) + Bit(Has(A, op))
<1> DEFINE W == Waiting(op)
           V == Waiting(op)'
<1>1. /\ \A u \in Threads : u \in W <=> Has(Plan(u), op)
      /\ \A u \in Threads : u \in V <=> Has(Plan(u)', op)
      /\ W \subseteq Threads /\ V \subseteq Threads
  BY DEF Waiting
<1>2. IsFiniteSet(W) /\ IsFiniteSet(V) /\ Cardinality(W) \in Nat /\ Cardinality(V) \in Nat
  BY <1>1, AddrsAssumption, FS_Subset, FS_CardinalityType
<1>3. /\ \A u \in Threads \ {t} : u \in W <=> u \in V
      /\ t \in V <=> Has(A, op)
      /\ t \in W <=> Has(Plan(t), op)
  BY <1>1 DEF Becomes
<1> HIDE DEF W, V
<1>4. CASE Has(Plan(t), op) /\ Has(A, op)
  <2>1. W = V
    BY <1>1, <1>3, <1>4
  <2> QED
    BY <1>2, <1>4, <2>1 DEF Bit, W, V
<1>5. CASE Has(Plan(t), op) /\ ~Has(A, op)
  <2>1. V = W \ {t} /\ t \in W
    BY <1>1, <1>3, <1>5
  <2>2. Cardinality(V) = Cardinality(W) - 1
    BY <1>2, <2>1, FS_RemoveElement
  <2> QED
    BY <1>2, <1>5, <2>2 DEF Bit, W, V
<1>6. CASE ~Has(Plan(t), op) /\ Has(A, op)
  <2>1. V = W \cup {t} /\ t \notin W
    BY <1>1, <1>3, <1>6
  <2>2. Cardinality(V) = Cardinality(W) + 1
    BY <1>2, <2>1, FS_AddElement
  <2> QED
    BY <1>2, <1>6, <2>2 DEF Bit, W, V
<1>7. CASE ~Has(Plan(t), op) /\ ~Has(A, op)
  <2>1. W = V
    BY <1>1, <1>3, <1>7
  <2> QED
    BY <1>2, <1>7, <2>1 DEF Bit, W, V
<1> QED
  BY <1>4, <1>5, <1>6, <1>7

\* Plans alike in some kinds have the same of these.
LEMMA AlikeHas ==
  ASSUME NEW A, NEW B, NEW kinds, Alike(A, B, kinds)
  PROVE  /\ \A op \in kinds : Has(A, op) <=> Has(B, op)
         /\ \A op \in kinds : \A ip : HasOn(A, op, ip) <=> HasOn(B, op, ip)
BY DEF Alike, Has, HasOn

\* The counters of connections stay explained.
LEMMA CountersStay ==
  ASSUME Inv, NEW t \in Threads, NEW A, Becomes(t, A), Alike(A, Plan(t), CounterKinds),
         UNCHANGED <<connected_count, outbound_count>>,
         DOMAIN peers' = DOMAIN peers, Outbound' = Outbound
  PROVE  CountersAreExplained'
<1>1. \A op \in CounterKinds : Cardinality(Waiting(op)') = Cardinality(Waiting(op))
  BY WaitingChanges, AlikeHas DEF Bit
<1> QED
  BY <1>1 DEF Inv, CountersAreExplained, CounterKinds

\* The slots stay explained.
LEMMA SlotsStay ==
  ASSUME Inv, NEW t \in Threads, NEW A, Becomes(t, A), UNCHANGED <<connecting_count, dialing>>,
         Has(Plan(t), "connecting_sub") => Has(A, "connecting_sub"),
         Has(A, "connecting_add") /\ ~Has(A, "check_connecting") => t \in Admitted
  PROVE  SlotsAreExplained'
<1>1. /\ Cardinality(Waiting("connecting_sub")) \in Nat
      /\ Cardinality(Waiting("connecting_sub")') \in Nat
      /\ Cardinality(Waiting("connecting_sub")') >= Cardinality(Waiting("connecting_sub"))
  BY WaitingChanges DEF Bit
<1>2. Admitted' \subseteq Admitted /\ Admitted \subseteq Threads
  BY DEF Admitted, Becomes
<1>3. IsFiniteSet(Admitted) /\ IsFiniteSet(Admitted') /\ IsFiniteSet(Threads)
  BY <1>2, AddrsAssumption, FS_Subset
<1>4. /\ Cardinality(Admitted) \in Nat /\ Cardinality(Admitted') \in Nat
      /\ Cardinality(Threads) \in Nat /\ Cardinality(Admitted') <= Cardinality(Admitted)
  BY <1>2, <1>3, FS_CardinalityType, FS_Subset
<1>5. Weight(Addrs, dialing) \in Nat /\ connecting_count \in Nat /\ MAX_CONNECTING \in Nat
  BY WeightType, AddrsAssumption, LimitsAssumption DEF Inv, TypeOK
<1> QED
  BY <1>1, <1>4, <1>5 DEF Inv, SlotsAreExplained

\* Nobody who did not touch ip has an access to it planned.
LEMMA UntouchedIsUnplanned ==
  ASSUME NEW A, NEW S, \A x \in A : IsTouched(x, S), NEW ip, ip \notin S
  PROVE  \A op \in IpWrites : ~HasOn(A, op, ip)
BY DEF IsTouched, HasOn

\* If a step of t explains the IPs t is alone on, and leaves the IPs that others
\* work on, it explains them all.
LEMMA IpsTransfer ==
  ASSUME Inv, NEW t \in Threads, NEW A, Becomes(t, A), Booked(t),
         \A ip \in Ips : AloneOn(t, ip) /\ AloneOn(t, ip)' => IpExplained(t, ip)',
         \A ip \in Ips, u \in Threads \ {t} : ip \notin raced' /\ ip \in touched[u] =>
           /\ PeersOn(ip)' = PeersOn(ip)
           /\ Connections(ip)' = Connections(ip)
           /\ (ip \in DOMAIN ip_connections') = (ip \in DOMAIN ip_connections)
  PROVE  IpsAreExplained'
<1> SUFFICES ASSUME NEW u \in Threads, NEW ip \in Ips, AloneOn(u, ip)'
             PROVE  IpExplained(u, ip)'
  BY DEF IpsAreExplained
<1>1. ip \notin raced /\ ip \notin raced' /\ \A v \in Threads \ {u} : ip \notin touched'[v]
  BY DEF AloneOn, Booked
<1>2. \A v \in Threads \ {t} : touched'[v] = touched[v] /\ Plan(v)' = Plan(v)
  BY DEF Booked, Becomes
<1>3. CASE u = t
  <2>1. AloneOn(t, ip)
    BY <1>1, <1>2, <1>3 DEF AloneOn
  <2> QED
    BY <1>3, <2>1
<1>4. CASE u # t /\ ip \in touched[u]
  <2>1. ip \notin touched[t]
    BY <1>1, <1>4 DEF Inv, RacesAreMarked
  <2>2. AloneOn(u, ip)
    BY <1>1, <1>2, <2>1 DEF AloneOn
  <2>3. IpExplained(u, ip)
    BY <2>2 DEF Inv, IpsAreExplained
  <2>4. Plan(u)' = Plan(u)
    BY <1>2, <1>4
  <2>5. /\ PeersOn(ip)' = PeersOn(ip)
        /\ Connections(ip)' = Connections(ip)
        /\ (ip \in DOMAIN ip_connections') = (ip \in DOMAIN ip_connections)
    BY <1>1, <1>4
  <2> QED
    BY <2>3, <2>4, <2>5 DEF IpExplained
<1>5. CASE u # t /\ ip \notin touched[u]
  <2>1. AloneOn(t, ip) /\ AloneOn(t, ip)'
    BY <1>1, <1>2, <1>5 DEF AloneOn
  <2>2. IpExplained(t, ip)'
    BY <2>1
  <2>3. ip \notin touched'[t] /\ ip \notin touched'[u]
    BY <1>1, <1>2, <1>5
  <2>4. \A v \in {t, u} : \A op \in IpWrites : ~HasOn(Plan(v)', op, ip)
    BY <2>3, UntouchedIsUnplanned DEF Booked, PlansAreTouched
  <2>5. /\ HasOn(Plan(t)', "ip_increment", ip) = HasOn(Plan(u)', "ip_increment", ip)
        /\ HasOn(Plan(t)', "ip_decrement", ip) = HasOn(Plan(u)', "ip_decrement", ip)
        /\ HasOn(Plan(t)', "ip_remove", ip) = HasOn(Plan(u)', "ip_remove", ip)
    BY <2>4 DEF IpWrites, HasOn
  <2> QED
    BY <2>2, <2>5 DEF IpExplained
<1> QED
  BY <1>3, <1>4, <1>5

\* The per-IP counts stay explained.
LEMMA IpsStay ==
  ASSUME Inv, NEW t \in Threads, NEW A, Becomes(t, A), Booked(t),
         Alike(A, Plan(t), IpWrites), UNCHANGED ip_connections,
         \A ip \in Ips : PeersOn(ip)' = PeersOn(ip)
  PROVE  IpsAreExplained'
<1>1. \A ip \in Ips : Connections(ip)' = Connections(ip)
  BY DEF Connections
<1>2. ASSUME NEW ip \in Ips, AloneOn(t, ip)
      PROVE  IpExplained(t, ip)'
  <2>1. IpExplained(t, ip)
    BY <1>2 DEF Inv, IpsAreExplained
  <2>2. \A op \in IpWrites : HasOn(Plan(t)', op, ip) <=> HasOn(Plan(t), op, ip)
    BY AlikeHas DEF Becomes
  <2>3. /\ HasOn(Plan(t)', "ip_increment", ip) = HasOn(Plan(t), "ip_increment", ip)
        /\ HasOn(Plan(t)', "ip_decrement", ip) = HasOn(Plan(t), "ip_decrement", ip)
        /\ HasOn(Plan(t)', "ip_remove", ip) = HasOn(Plan(t), "ip_remove", ip)
    BY <2>2 DEF IpWrites, HasOn
  <2> QED
    BY <1>1, <2>1, <2>3 DEF IpExplained
<1> QED
  BY <1>1, <1>2, IpsTransfer

RouteKinds == {"addr_remove", "addr_insert"}

\* The routes stay explained.
LEMMA RoutesStay ==
  ASSUME Inv, NEW t \in Threads, NEW A, Becomes(t, A), raced \subseteq raced',
         Alike(A, Plan(t), RouteKinds), UNCHANGED addr_to_peer,
         \A n, a : At(n, a)' = At(n, a)
  PROVE  RoutesAreExplained'
<1> SUFFICES ASSUME NEW a \in Addrs, Ip[a] \notin raced'
             PROVE  /\ a \in DOMAIN addr_to_peer =>
                         \/ At(addr_to_peer[a], a)
                         \/ \E u \in Threads : \E x \in Plan(u)' :
                              x.op = "addr_remove" /\ x.addr = a
                    /\ \A u \in Threads : \A x \in Plan(u)' :
                         x.op = "addr_insert" /\ x.addr = a => At(x.node, a)
  BY DEF RoutesAreExplained
<1>1. \A u \in Threads : \A x : x.op \in RouteKinds => (x \in Plan(u)' <=> x \in Plan(u))
  BY DEF Becomes, Alike
<1>2. /\ a \in DOMAIN addr_to_peer =>
           \/ At(addr_to_peer[a], a)
           \/ \E u \in Threads : \E x \in Plan(u) : x.op = "addr_remove" /\ x.addr = a
      /\ \A u \in Threads : \A x \in Plan(u) : x.op = "addr_insert" /\ x.addr = a => At(x.node, a)
  BY DEF Inv, RoutesAreExplained
<1> QED
  BY <1>1, <1>2 DEF RouteKinds

\* The peers noted for removal stay closed ones.
LEMMA DeadStay ==
  ASSUME Inv, NEW t \in Threads, NEW A, Becomes(t, A), raced \subseteq raced',
         \A x \in A : x.op = "peers_remove" => x \in Plan(t),
         \A n \in DOMAIN peers' : peers'[n].open =>
           n \in DOMAIN peers /\ peers[n].open /\ peers'[n].addr = peers[n].addr
  PROVE  DeadAreClosed'
<1> SUFFICES ASSUME NEW u \in Threads, NEW x \in Plan(u)', x.op = "peers_remove",
                    x.node \in DOMAIN peers', peers'[x.node].open
             PROVE  Ip[peers'[x.node].addr] \in raced'
  BY DEF DeadAreClosed, Registered, IpsOf
<1>1. x \in Plan(u)
  BY DEF Becomes
<1>2. x.node \in DOMAIN peers /\ peers[x.node].open /\ peers'[x.node].addr = peers[x.node].addr
  OBVIOUS
<1>3. Ip[peers[x.node].addr] \in raced
  BY <1>1, <1>2 DEF Inv, DeadAreClosed, Registered, IpsOf
<1> QED
  BY <1>2, <1>3

\* The attempts stay due.
LEMMA AttemptsStay ==
  ASSUME Inv, NEW t \in Threads, NEW A, Becomes(t, A), raced \subseteq raced',
         \A a : Fresh(a)' => Fresh(a),
         \A x \in A : x.op = "note_attempt" /\ ~Has(A, "check_retry") =>
           x \in Plan(t) /\ ~Has(Plan(t), "check_retry")
  PROVE  AttemptsAreDue'
<1> SUFFICES ASSUME NEW u \in Threads, NEW x \in Plan(u)', x.op = "note_attempt",
                    ~Has(Plan(u)', "check_retry"), Fresh(x.addr)'
             PROVE  Ip[x.addr] \in raced'
  BY DEF AttemptsAreDue
<1>1. x \in Plan(u) /\ ~Has(Plan(u), "check_retry")
  BY DEF Becomes
<1>2. Ip[x.addr] \in raced
  BY <1>1 DEF Inv, AttemptsAreDue
<1> QED
  BY <1>2

\* The part of TypeOK that is not about plans and what they touch.
MapsTyped ==
  /\ IsMap(peers, Nodes, PeerState)
  /\ IsMap(addr_to_peer, Addrs, Nodes)
  /\ IsMap(ip_connections, Ips, Nat)
  /\ IsMap(last_connect_attempt, Addrs, Ages)
  /\ connected_count \in 0..(WORD - 1)
  /\ outbound_count \in 0..(WORD - 1)
  /\ connecting_count \in Nat
  /\ dialing \in [Addrs -> Nat]
  /\ ops \in 0..MaxOps

\* The invariant from its parts, after a step of t.
LEMMA PartsMakeInv ==
  ASSUME NEW t, Booked(t), MapsTyped', CountersAreExplained', SlotsAreExplained',
         IpsAreExplained', RoutesAreExplained', DeadAreClosed', AttemptsAreDue'
  PROVE  Inv'
BY DEF Booked, MapsTyped, TypeOK, Inv

\* A step that leaves peers, routes, per-IP counts and plans for them alone.
LEMMA QuietStep ==
  ASSUME Inv, NEW t \in Threads, NEW A, Becomes(t, A), Booked(t),
         UNCHANGED <<peers, addr_to_peer, ip_connections>>,
         Alike(A, Plan(t), IpWrites), Alike(A, Plan(t), RouteKinds),
         \A x \in A : x.op = "peers_remove" => x \in Plan(t)
  PROVE  /\ IpsAreExplained' /\ RoutesAreExplained' /\ DeadAreClosed'
         /\ DOMAIN peers' = DOMAIN peers /\ Outbound' = Outbound
<1>1. raced \subseteq raced'
  BY DEF Booked
<1>2. \A ip \in Ips : PeersOn(ip)' = PeersOn(ip)
  BY DEF PeersOn
<1>3. \A n, a : At(n, a)' = At(n, a)
  BY DEF At
<1>4. IpsAreExplained'
  BY <1>2, IpsStay
<1>5. RoutesAreExplained'
  BY <1>1, <1>3, RoutesStay
<1>6. DeadAreClosed'
  BY <1>1, DeadStay
<1> QED
  BY <1>4, <1>5, <1>6 DEF Outbound

\* What is left of t's plan once its first access is made.
LEMMA AdvanceLeaves ==
  ASSUME Inv, NEW t \in Threads, todo[t] # <<>>
  PROVE  /\ Plan(t) = {Arg(t)} \cup Rest(t)
         /\ Arg(t) \in Access
         /\ \A kinds : Arg(t).op \notin kinds => Alike(Rest(t), Plan(t), kinds)
         /\ \A op : Arg(t).op # op => (Has(Rest(t), op) <=> Has(Plan(t), op))
         /\ \A y \in Rest(t) : y \in Access /\ MayPrecede(Arg(t).op, y.op)
         /\ Arg(t).op \notin Broadcasts => ~Has(Rest(t), Arg(t).op)
         /\ Arg(t).op \in {"peers_insert", "connecting_add"} => Rest(t) = {}
<1>1. /\ Plan(t) = {Arg(t)} \cup Rest(t)
      /\ Arg(t) \in Access
      /\ \A y \in Rest(t) : y \in Access /\ MayPrecede(Arg(t).op, y.op)
  BY RestOfPlan DEF Inv
<1> QED
  BY <1>1 DEF Alike, Has, MayPrecede

\* Behind a failing check there was only what depends on it.
LEMMA ReturnLeaves ==
  ASSUME Inv, NEW t \in Threads, todo[t] # <<>>, Arg(t).op \in Checks
  PROVE  /\ Alike({}, Plan(t), CounterKinds) /\ Alike({}, Plan(t), IpWrites)
         /\ Alike({}, Plan(t), RouteKinds)
         /\ ~Has(Plan(t), "connecting_sub")
<1>1. \A x \in Plan(t) : x.op \in Checks \cup Dials \cup {"peers_insert"}
  BY AdvanceLeaves DEF MayPrecede
<1> QED
  BY <1>1 DEF Alike, Has, CounterKinds, IpWrites, RouteKinds, Checks, Dials

\* What making an access leaves alone, whatever else it is about.
LEMMA AdvanceKeeps ==
  ASSUME Inv, NEW t \in Threads, todo[t] # <<>>, Continue(t, <<>>), Touch(t, {}), UNCHANGED peers
  PROVE  /\ Becomes(t, Rest(t)) /\ Booked(t)
         /\ UNCHANGED <<connected_count, outbound_count>> /\ Arg(t).op \notin CounterKinds
              => CountersAreExplained'
         /\ UNCHANGED <<connecting_count, dialing>>
            /\ Arg(t).op \notin {"connecting_sub", "connecting_add", "check_connecting"}
              => SlotsAreExplained'
         /\ UNCHANGED ip_connections /\ Arg(t).op \notin IpWrites => IpsAreExplained'
         /\ UNCHANGED addr_to_peer /\ Arg(t).op \notin RouteKinds => RoutesAreExplained'
         /\ DeadAreClosed'
         /\ (\A a : Fresh(a)' => Fresh(a)) /\ Arg(t).op # "check_retry" => AttemptsAreDue'
<1>1. Becomes(t, Rest(t)) /\ Booked(t) /\ raced \subseteq raced'
  BY AdvanceIsBooked DEF Booked
<1>2. /\ Outbound' = Outbound /\ \A ip \in Ips : PeersOn(ip)' = PeersOn(ip)
      /\ \A n, a : At(n, a)' = At(n, a)
  BY DEF Outbound, PeersOn, At
<1>3. Rest(t) \subseteq Plan(t)
  BY AdvanceLeaves
<1>4. ASSUME UNCHANGED <<connected_count, outbound_count>>, Arg(t).op \notin CounterKinds
      PROVE  CountersAreExplained'
  BY <1>1, <1>2, <1>4, AdvanceLeaves, CountersStay
<1>5. ASSUME UNCHANGED <<connecting_count, dialing>>,
             Arg(t).op \notin {"connecting_sub", "connecting_add", "check_connecting"}
      PROVE  SlotsAreExplained'
  <2>1. \A op \in {"connecting_sub", "connecting_add", "check_connecting"} :
          Has(Rest(t), op) <=> Has(Plan(t), op)
    BY <1>5, AdvanceLeaves
  <2>2. Has(Rest(t), "connecting_add") /\ ~Has(Rest(t), "check_connecting") => t \in Admitted
    BY <2>1 DEF Admitted
  <2> QED
    BY <1>1, <1>5, <2>1, <2>2, SlotsStay
<1>6. ASSUME UNCHANGED ip_connections, Arg(t).op \notin IpWrites
      PROVE  IpsAreExplained'
  BY <1>1, <1>2, <1>6, AdvanceLeaves, IpsStay
<1>7. ASSUME UNCHANGED addr_to_peer, Arg(t).op \notin RouteKinds
      PROVE  RoutesAreExplained'
  BY <1>1, <1>2, <1>7, AdvanceLeaves, RoutesStay
<1>8. DeadAreClosed'
  BY <1>1, <1>3, DeadStay
<1>9. ASSUME \A a : Fresh(a)' => Fresh(a), Arg(t).op # "check_retry"
      PROVE  AttemptsAreDue'
  <2>1. Has(Rest(t), "check_retry") <=> Has(Plan(t), "check_retry")
    BY <1>9, AdvanceLeaves
  <2> QED
    BY <1>1, <1>3, <1>9, <2>1, AttemptsStay
<1> QED
  BY <1>1, <1>4, <1>5, <1>6, <1>7, <1>8, <1>9

\* A check fails.
LEMMA ReturnPreservesInv ==
  ASSUME Inv, NEW t \in Threads, todo[t] # <<>>, Arg(t).op \in Checks, Return(t), Touch(t, {}),
         UNCHANGED <<peers, addr_to_peer, ip_connections, counts, dialing>>,
         IsMap(last_connect_attempt', Addrs, Ages), \A a : Fresh(a)' => Fresh(a)
  PROVE  Inv'
<1>1. Becomes(t, {}) /\ Booked(t) /\ raced \subseteq raced'
  BY ReturnIsBooked DEF Booked
<1>2. /\ Alike({}, Plan(t), CounterKinds) /\ Alike({}, Plan(t), IpWrites)
      /\ Alike({}, Plan(t), RouteKinds) /\ ~Has(Plan(t), "connecting_sub")
  BY ReturnLeaves
<1>3. MapsTyped'
  BY DEF MapsTyped, Inv, TypeOK, counts, Return
<1>4. /\ IpsAreExplained' /\ RoutesAreExplained' /\ DeadAreClosed'
      /\ DOMAIN peers' = DOMAIN peers /\ Outbound' = Outbound
  BY <1>1, <1>2, QuietStep
<1>5. CountersAreExplained'
  BY <1>1, <1>2, <1>4, CountersStay DEF counts
<1>6. ~Has({}, "connecting_add")
  BY DEF Has
<1>7. SlotsAreExplained'
  BY <1>1, <1>2, <1>6, SlotsStay DEF counts
<1>8. AttemptsAreDue'
  BY <1>1, AttemptsStay
<1> QED
  BY <1>1, <1>3, <1>4, <1>5, <1>7, <1>8, PartsMakeInv
-----------------------------------------------------------------------------
(************************* Checks and single counts ************************)

\* An acceptor starts: everything is as before but for its plan.
LEMMA AcceptPreservesInv ==
  ASSUME Inv, NEW t \in Threads, NEW n \in Nodes, NEW a \in Addrs, Accept(t, n, a)
  PROVE  Inv'
<1> DEFINE x == [op |-> "check_ip", addr |-> a]
           y == [op |-> "peers_insert", node |-> n, addr |-> a, outbound |-> FALSE]
           A == {x} \cup {y}
<1>1. IsPlan(DoAt("check_ip", a), {x}) /\ IsPlan(<<y>>, {y})
  BY PlanDoAt, PlanOfOne, KindsOfAccess DEF IsPlan
<1>2. MayPrecede(x.op, y.op)
  BY DEF MayPrecede, Checks, Broadcasts, IpWrites
<1>3. IsPlan(DoAt("check_ip", a) \o <<y>>, A)
  BY <1>1, <1>2, PlanJoin
<1>4. Plan(t) = {} /\ Becomes(t, A)
  BY <1>3, PlanStarted DEF Accept, Inv
<1>5. /\ \A z \in A : z.op \in {"check_ip", "peers_insert"}
      /\ \A z \in A : IsTouched(z, {} \cup touched[t])
      /\ SameAddr(A)
  BY DEF IsTouched, SameAddr, Dials, IpWrites
<1> HIDE DEF A, x, y
<1>6. Booked(t)
  BY <1>4, <1>5, StepIsBooked DEF Accept
<1>7. /\ Alike(A, Plan(t), CounterKinds) /\ Alike(A, Plan(t), IpWrites)
      /\ Alike(A, Plan(t), RouteKinds)
      /\ ~Has(A, "connecting_add") /\ ~Has(Plan(t), "connecting_sub")
      /\ \A z \in A : z.op \notin {"peers_remove", "note_attempt"}
  BY <1>4, <1>5 DEF Alike, Has, CounterKinds, IpWrites, RouteKinds
<1>8. UNCHANGED <<maps, counts, dialing>> /\ ops' \in 0..MaxOps
  BY LimitsAssumption DEF Accept, Start, Inv, TypeOK
<1>9. MapsTyped'
  BY <1>8 DEF MapsTyped, Inv, TypeOK, maps, counts
<1>10. /\ IpsAreExplained' /\ RoutesAreExplained' /\ DeadAreClosed'
       /\ DOMAIN peers' = DOMAIN peers /\ Outbound' = Outbound
  BY <1>4, <1>6, <1>7, <1>8, QuietStep DEF maps
<1>11. CountersAreExplained'
  BY <1>4, <1>7, <1>8, <1>10, CountersStay DEF counts
<1>12. SlotsAreExplained'
  BY <1>4, <1>7, <1>8, SlotsStay DEF counts
<1>13. AttemptsAreDue'
  BY <1>4, <1>6, <1>7, <1>8, AttemptsStay DEF maps, Fresh, Booked
<1> QED
  BY <1>6, <1>9, <1>10, <1>11, <1>12, <1>13, PartsMakeInv

\* can_accept's second check passes, or the peer is turned away.
LEMMA CheckIpPreservesInv ==
  ASSUME Inv, NEW t \in Threads, CheckIp(t)
  PROVE  Inv'
<1>1. /\ todo[t] # <<>> /\ Arg(t).op = "check_ip" /\ Touch(t, {})
      /\ UNCHANGED <<maps, counts, dialing, ops>> /\ (Continue(t, <<>>) \/ Return(t))
  BY DEF CheckIp, Upcoming, Arg, Continue, Return
<1>2. IsMap(last_connect_attempt', Addrs, Ages) /\ \A a : Fresh(a)' => Fresh(a)
  BY <1>1 DEF Inv, TypeOK, maps, Fresh
<1>3. CASE Return(t)
  BY <1>1, <1>2, <1>3, ReturnPreservesInv DEF maps, Checks
<1>4. CASE Continue(t, <<>>)
  <2>1. MapsTyped'
    BY <1>1 DEF MapsTyped, Inv, TypeOK, maps, counts
  <2> QED
    BY <1>1, <1>2, <1>4, <2>1, AdvanceKeeps, PartsMakeInv
    DEF maps, counts, CounterKinds, IpWrites, RouteKinds
<1> QED
  BY <1>1, <1>3, <1>4

\* A remainder is the only one.
LEMMA RemainderIsUnique ==
  ASSUME NEW b \in Nat \ {0}, NEW k \in Int, NEW m \in 0..(b - 1)
  PROVE  (b * k + m) % b = m
<1> DEFINE a == b * k + m
           q == a \div b
           r == a % b
<1>1. a \in Int
  OBVIOUS
<1>2. q \in Int /\ r \in Nat /\ r < b /\ a = b * q + r
  BY <1>1, DivMod
<1>3. b * k + m = b * q + r
  BY <1>2
<1> HIDE DEF a, q, r
<1>4. \A i \in Int : i >= 1 => b * i >= b
  OBVIOUS
<1>5. b * (k - q) = b * k - b * q /\ b * (q - k) = b * q - b * k
  BY <1>2
<1>6. k - q \in Int /\ q - k \in Int /\ b * k \in Int /\ b * q \in Int
  BY <1>2
<1>7. ~(k - q >= 1)
  BY <1>2, <1>3, <1>4, <1>5, <1>6
<1>8. ~(q - k >= 1)
  BY <1>2, <1>3, <1>4, <1>5, <1>6
<1>9. k = q
  BY <1>2, <1>7, <1>8
<1>10. m = r
  BY <1>2, <1>3, <1>6, <1>9
<1> QED
  BY <1>10 DEF r, a

\* Multiples of the divisor do not count.
LEMMA SameRemainder ==
  ASSUME NEW b \in Nat \ {0}, NEW k \in Int, NEW n \in Int
  PROVE  (b * k + n) % b = n % b
<1>1. n % b \in 0..(b - 1) /\ n \div b \in Int /\ n = b * (n \div b) + (n % b)
  BY DivMod
<1> DEFINE m == n % b
           q == n \div b
<1>2. m \in 0..(b - 1) /\ q \in Int /\ n = b * q + m
  BY <1>1
<1> HIDE DEF m, q
<1>3. b * k + n = b * (k + q) + m
  BY <1>2
<1>4. (b * (k + q) + m) % b = m
  BY <1>2, RemainderIsUnique
<1> QED
  BY <1>3, <1>4 DEF m

\* Wrapping counters add up as if they did not wrap.
LEMMA WrapSteps ==
  ASSUME NEW v \in Int
  PROVE  /\ Wrap(v) \in 0..(WORD - 1)
         /\ Wrap(Wrap(v) + 1) = Wrap(v + 1)
         /\ Wrap(Wrap(v) - 1) = Wrap(v - 1)
<1>1. WORD \in Nat \ {0}
  <2>1. Cardinality(Nodes) \in Nat
    BY AddrsAssumption, FS_CardinalityType
  <2> QED
    BY <2>1, LimitsAssumption
<1> DEFINE q == v \div WORD
           m == v % WORD
<1>2. m \in 0..(WORD - 1) /\ q \in Int /\ v = WORD * q + m
  BY <1>1, DivMod
<1> HIDE DEF q, m
<1>3. /\ (WORD * q + (m + 1)) % WORD = (m + 1) % WORD
      /\ (WORD * q + (m - 1)) % WORD = (m - 1) % WORD
  <2>1. \A n \in Int : (WORD * q + n) % WORD = n % WORD
    BY <1>1, <1>2, SameRemainder, Zenon
  <2>2. m + 1 \in Int /\ m - 1 \in Int
    BY <1>2
  <2> HIDE <1>1, <1>2
  <2> QED
    BY <2>1, <2>2, Zenon
<1>4. v + 1 = WORD * q + (m + 1) /\ v - 1 = WORD * q + (m - 1)
  BY <1>1, <1>2
<1> QED
  BY <1>2, <1>3, <1>4 DEF Wrap, m

\* An access of its kind is the only one a thread has planned.
LEMMA WaitingAfterAccess ==
  ASSUME Inv, NEW t \in Threads, todo[t] # <<>>, Arg(t).op \notin Broadcasts, Becomes(t, Rest(t))
  PROVE  \A op : /\ Cardinality(Waiting(op)) \in Nat /\ Cardinality(Waiting(op)') \in Nat
                 /\ Cardinality(Waiting(op)') =
                      IF op = Arg(t).op THEN Cardinality(Waiting(op)) - 1
                      ELSE Cardinality(Waiting(op))
<1> TAKE op
<1>1. /\ Cardinality(Waiting(op)) \in Nat /\ Cardinality(Waiting(op)') \in Nat
      /\ Cardinality(Waiting(op)') =
           Cardinality(Waiting(op)) - Bit(Has(Plan(t), op)) + Bit(Has(Rest(t), op))
  BY WaitingChanges
<1>2. CASE op = Arg(t).op
  <2>1. ~Has(Rest(t), op) /\ Has(Plan(t), op)
    BY <1>2, AdvanceLeaves DEF Has
  <2> QED
    BY <1>1, <1>2, <2>1 DEF Bit
<1>3. CASE op # Arg(t).op
  <2>1. Has(Rest(t), op) <=> Has(Plan(t), op)
    BY <1>3, AdvanceLeaves
  <2> QED
    BY <1>1, <1>3, <2>1 DEF Bit
<1> QED
  BY <1>2, <1>3

\* Sets of peers have a size.
LEMMA PeersFinite ==
  ASSUME TypeOK
  PROVE  /\ IsFiniteSet(DOMAIN peers) /\ Cardinality(DOMAIN peers) \in Nat
         /\ IsFiniteSet(Outbound) /\ Cardinality(Outbound) \in Nat
         /\ \A ip : IsFiniteSet(PeersOn(ip)) /\ Cardinality(PeersOn(ip)) \in Nat
<1>1. DOMAIN peers \subseteq Nodes /\ Outbound \subseteq Nodes /\ \A ip : PeersOn(ip) \subseteq Nodes
  BY DEF TypeOK, IsMap, Outbound, PeersOn
<1>2. \A S \in SUBSET Nodes : IsFiniteSet(S) /\ Cardinality(S) \in Nat
  BY AddrsAssumption, FS_Subset, FS_CardinalityType
<1> QED
  BY <1>1, <1>2

\* fetch_add and fetch_sub of the counters of connections.
LEMMA CountPreservesInv ==
  ASSUME Inv, NEW t \in Threads,
         ConnectedAdd(t) \/ ConnectedSub(t) \/ OutboundAdd(t) \/ OutboundSub(t)
  PROVE  Inv'
<1>1. /\ todo[t] # <<>> /\ Arg(t).op \in CounterKinds /\ Continue(t, <<>>) /\ Touch(t, {})
      /\ UNCHANGED <<peers, addr_to_peer, ip_connections, last_connect_attempt,
                     connecting_count, dialing, ops>>
  BY DEF ConnectedAdd, ConnectedSub, OutboundAdd, OutboundSub, Upcoming, Arg, maps,
         CounterKinds, Continue
<1>2. /\ Becomes(t, Rest(t)) /\ Booked(t)
      /\ SlotsAreExplained' /\ IpsAreExplained' /\ RoutesAreExplained' /\ DeadAreClosed'
      /\ AttemptsAreDue'
  BY <1>1, AdvanceKeeps DEF CounterKinds, IpWrites, RouteKinds, Fresh
<1>3. \A op : /\ Cardinality(Waiting(op)) \in Nat /\ Cardinality(Waiting(op)') \in Nat
              /\ Cardinality(Waiting(op)') =
                   IF op = Arg(t).op THEN Cardinality(Waiting(op)) - 1
                   ELSE Cardinality(Waiting(op))
  BY <1>1, <1>2, WaitingAfterAccess DEF CounterKinds, Broadcasts
<1> DEFINE D == Cardinality(DOMAIN peers)
           O == Cardinality(Outbound)
           W(op) == Cardinality(Waiting(op))
           V(op) == Cardinality(Waiting(op)')
<1>4. D \in Nat /\ O \in Nat /\ Cardinality(DOMAIN peers') = D /\ Cardinality(Outbound') = O
  BY <1>1, PeersFinite DEF Inv, Outbound
<1>5. /\ connected_count = Wrap(D + W("connected_sub") - W("connected_add"))
      /\ outbound_count = Wrap(O + W("outbound_sub") - W("outbound_add"))
  BY DEF Inv, CountersAreExplained
<1>6. \A op : W(op) \in Nat /\ V(op) \in Nat
              /\ V(op) = IF op = Arg(t).op THEN W(op) - 1 ELSE W(op)
  BY <1>3
<1>7. SUFFICES /\ connected_count' = Wrap(D + V("connected_sub") - V("connected_add"))
               /\ outbound_count' = Wrap(O + V("outbound_sub") - V("outbound_add"))
  <2>1. CountersAreExplained'
    BY <1>4, <1>7 DEF CountersAreExplained
  <2>2. connected_count' \in 0..(WORD - 1) /\ outbound_count' \in 0..(WORD - 1)
    BY <1>4, <1>6, <1>7, WrapSteps
  <2>3. MapsTyped'
    BY <1>1, <2>2 DEF MapsTyped, Inv, TypeOK
  <2> QED
    BY <1>2, <2>1, <2>3, PartsMakeInv
<1> HIDE DEF D, O, W, V
<1>8. CASE ConnectedAdd(t)
  <2>1. /\ connected_count' = Wrap(connected_count + 1) /\ outbound_count' = outbound_count
        /\ Arg(t).op = "connected_add"
    BY <1>8 DEF ConnectedAdd, Upcoming, Arg
  <2>2. D + V("connected_sub") - V("connected_add") = (D + W("connected_sub") - W("connected_add")) + 1
    BY <1>4, <1>6, <2>1
  <2>3. V("outbound_sub") = W("outbound_sub") /\ V("outbound_add") = W("outbound_add")
    BY <1>6, <2>1
  <2> QED
    BY <1>4, <1>5, <1>6, <2>1, <2>2, <2>3, WrapSteps
<1>9. CASE ConnectedSub(t)
  <2>1. /\ connected_count' = Wrap(connected_count - 1) /\ outbound_count' = outbound_count
        /\ Arg(t).op = "connected_sub"
    BY <1>9 DEF ConnectedSub, Upcoming, Arg
  <2>2. D + V("connected_sub") - V("connected_add") = (D + W("connected_sub") - W("connected_add")) - 1
    BY <1>4, <1>6, <2>1
  <2>3. V("outbound_sub") = W("outbound_sub") /\ V("outbound_add") = W("outbound_add")
    BY <1>6, <2>1
  <2> QED
    BY <1>4, <1>5, <1>6, <2>1, <2>2, <2>3, WrapSteps
<1>10. CASE OutboundAdd(t)
  <2>1. /\ outbound_count' = Wrap(outbound_count + 1) /\ connected_count' = connected_count
        /\ Arg(t).op = "outbound_add"
    BY <1>10 DEF OutboundAdd, Upcoming, Arg
  <2>2. O + V("outbound_sub") - V("outbound_add") = (O + W("outbound_sub") - W("outbound_add")) + 1
    BY <1>4, <1>6, <2>1
  <2>3. V("connected_sub") = W("connected_sub") /\ V("connected_add") = W("connected_add")
    BY <1>6, <2>1
  <2> QED
    BY <1>4, <1>5, <1>6, <2>1, <2>2, <2>3, WrapSteps
<1>11. CASE OutboundSub(t)
  <2>1. /\ outbound_count' = Wrap(outbound_count - 1) /\ connected_count' = connected_count
        /\ Arg(t).op = "outbound_sub"
    BY <1>11 DEF OutboundSub, Upcoming, Arg
  <2>2. O + V("outbound_sub") - V("outbound_add") = (O + W("outbound_sub") - W("outbound_add")) - 1
    BY <1>4, <1>6, <2>1
  <2>3. V("connected_sub") = W("connected_sub") /\ V("connected_add") = W("connected_add")
    BY <1>6, <2>1
  <2> QED
    BY <1>4, <1>5, <1>6, <2>1, <2>2, <2>3, WrapSteps
<1> QED
  BY <1>8, <1>9, <1>10, <1>11

\* The slot of a dial that ended is given back.
LEMMA ConnectingSubPreservesInv ==
  ASSUME Inv, NEW t \in Threads, ConnectingSub(t)
  PROVE  Inv'
<1>1. /\ todo[t] # <<>> /\ Arg(t).op = "connecting_sub" /\ Continue(t, <<>>) /\ Touch(t, {})
      /\ UNCHANGED <<peers, addr_to_peer, ip_connections, last_connect_attempt,
                     connected_count, outbound_count, dialing, ops>>
      /\ connecting_count' = SaturatingSub(connecting_count, 1)
  BY DEF ConnectingSub, Upcoming, Arg, maps, Continue
<1>2. /\ Becomes(t, Rest(t)) /\ Booked(t)
      /\ CountersAreExplained' /\ IpsAreExplained' /\ RoutesAreExplained' /\ DeadAreClosed'
      /\ AttemptsAreDue'
  BY <1>1, AdvanceKeeps DEF CounterKinds, IpWrites, RouteKinds, Fresh
<1>3. /\ Cardinality(Waiting("connecting_sub")) \in Nat
      /\ Cardinality(Waiting("connecting_sub")') \in Nat
      /\ Cardinality(Waiting("connecting_sub")') = Cardinality(Waiting("connecting_sub")) - 1
  BY <1>1, <1>2, WaitingAfterAccess DEF Broadcasts
<1>4. Admitted' = Admitted
  <2>1. \A op \in {"connecting_add", "check_connecting"} : Has(Rest(t), op) <=> Has(Plan(t), op)
    BY <1>1, AdvanceLeaves
  <2> QED
    BY <1>2, <2>1 DEF Admitted, Becomes
<1>5. /\ connecting_count \in Nat /\ MAX_CONNECTING \in Nat /\ Weight(Addrs, dialing) \in Nat
      /\ Cardinality(Threads) \in Nat /\ Cardinality(Admitted) \in Nat
  <2>1. Admitted \subseteq Threads
    BY DEF Admitted
  <2> QED
    BY <2>1, AddrsAssumption, LimitsAssumption, WeightType, FS_Subset, FS_CardinalityType
    DEF Inv, TypeOK
<1>6. connecting_count' \in Nat /\ connecting_count' <= connecting_count
      /\ (connecting_count' = 0 \/ connecting_count' = connecting_count - 1)
  BY <1>1, <1>5 DEF SaturatingSub
<1>7. SlotsAreExplained'
  <2>1. connecting_count' <= Weight(Addrs, dialing) + Cardinality(Waiting("connecting_sub")')
    BY <1>3, <1>5, <1>6 DEF Inv, SlotsAreExplained
  <2>2. connecting_count' + Cardinality(Admitted) <= MAX_CONNECTING + Cardinality(Threads) - 1
    BY <1>5, <1>6 DEF Inv, SlotsAreExplained
  <2> QED
    BY <1>1, <1>4, <2>1, <2>2 DEF SlotsAreExplained
<1>8. MapsTyped'
  BY <1>1, <1>6 DEF MapsTyped, Inv, TypeOK
<1> QED
  BY <1>2, <1>7, <1>8, PartsMakeInv
-----------------------------------------------------------------------------
(********************************* Dialling ********************************)

\* Touching what another thread has touched marks all that the two touched.
LEMMA RivalsAreMarked ==
  ASSUME NEW t \in Threads, NEW u \in Threads \ {t}, NEW S, Touch(t, S),
         touched[u] \cap (S \cup touched[t]) # {}
  PROVE  S \cup touched[t] \cup touched[u] \subseteq raced'
BY DEF Touch

Reserving(a) ==
  {[op |-> "check_connecting", addr |-> a], [op |-> "check_retry", addr |-> a],
   [op |-> "note_attempt", addr |-> a], [op |-> "connecting_add", addr |-> a]}

\* The plan of try_reserve_outbound_slot.
LEMMA PlanReserve ==
  ASSUME NEW a \in Addrs
  PROVE  IsPlan(DoAt("check_connecting", a) \o DoAt("check_retry", a)
                  \o DoAt("note_attempt", a) \o DoAt("connecting_add", a), Reserving(a))
<1> DEFINE A == {[op |-> "check_connecting", addr |-> a]}
           B == {[op |-> "check_retry", addr |-> a]}
           C == {[op |-> "note_attempt", addr |-> a]}
           D == {[op |-> "connecting_add", addr |-> a]}
<1>1. /\ IsPlan(DoAt("check_connecting", a), A) /\ IsPlan(DoAt("check_retry", a), B)
      /\ IsPlan(DoAt("note_attempt", a), C) /\ IsPlan(DoAt("connecting_add", a), D)
  BY PlanDoAt
<1>2. /\ \A x \in A, y \in B : MayPrecede(x.op, y.op)
      /\ \A x \in A \cup B, y \in C : MayPrecede(x.op, y.op)
      /\ \A x \in (A \cup B) \cup C, y \in D : MayPrecede(x.op, y.op)
  BY DEF MayPrecede, Checks, Broadcasts, IpWrites, Dials
<1> HIDE DEF A, B, C, D
<1>3. IsPlan(DoAt("check_connecting", a) \o DoAt("check_retry", a), A \cup B)
  BY <1>1, <1>2, PlanJoin
<1>4. IsPlan((DoAt("check_connecting", a) \o DoAt("check_retry", a)) \o DoAt("note_attempt", a),
             (A \cup B) \cup C)
  BY <1>1, <1>2, <1>3, PlanJoin
<1>5. IsPlan(((DoAt("check_connecting", a) \o DoAt("check_retry", a)) \o DoAt("note_attempt", a))
               \o DoAt("connecting_add", a), ((A \cup B) \cup C) \cup D)
  BY <1>1, <1>2, <1>4, PlanJoin
<1>6. ((A \cup B) \cup C) \cup D = Reserving(a)
  BY DEF A, B, C, D, Reserving
<1> QED
  BY <1>5, <1>6

\* A dialler starts; its IP is touched from here on.
LEMMA TryReservePreservesInv ==
  ASSUME Inv, NEW t \in Threads, NEW a \in Addrs, TryReserve(t, a)
  PROVE  Inv'
<1> DEFINE A == Reserving(a)
<1>1. Plan(t) = {} /\ Becomes(t, A)
  BY PlanReserve, PlanStarted DEF TryReserve, Inv
<1>2. /\ \A z \in A : z.op \in Dials /\ IsTouched(z, {Ip[a]} \cup touched[t])
      /\ SameAddr(A) /\ Has(A, "check_connecting") /\ Has(A, "check_retry")
  BY DEF IsTouched, SameAddr, Dials, IpWrites, Reserving, Has
<1> HIDE DEF A
<1>3. Booked(t)
  <2>1. {Ip[a]} \in SUBSET (Nodes \cup Ips)
    BY AddrsAssumption
  <2> QED
    BY <1>1, <1>2, <2>1, StepIsBooked DEF TryReserve
<1>4. /\ Alike(A, Plan(t), CounterKinds) /\ Alike(A, Plan(t), IpWrites)
      /\ Alike(A, Plan(t), RouteKinds) /\ ~Has(Plan(t), "connecting_sub")
      /\ \A z \in A : z.op # "peers_remove"
  BY <1>1, <1>2 DEF Alike, Has, CounterKinds, IpWrites, RouteKinds, Dials
<1>5. UNCHANGED <<maps, counts, dialing>> /\ ops' \in 0..MaxOps
  BY LimitsAssumption DEF TryReserve, Start, Inv, TypeOK
<1>6. MapsTyped'
  BY <1>5 DEF MapsTyped, Inv, TypeOK, maps, counts
<1>7. /\ IpsAreExplained' /\ RoutesAreExplained' /\ DeadAreClosed'
      /\ DOMAIN peers' = DOMAIN peers /\ Outbound' = Outbound
  BY <1>1, <1>3, <1>4, <1>5, QuietStep DEF maps
<1>8. CountersAreExplained'
  BY <1>1, <1>4, <1>5, <1>7, CountersStay DEF counts
<1>9. SlotsAreExplained'
  BY <1>1, <1>2, <1>4, <1>5, SlotsStay DEF counts
<1>10. AttemptsAreDue'
  BY <1>1, <1>2, <1>3, <1>5, AttemptsStay DEF maps, Fresh, Booked
<1> QED
  BY <1>3, <1>6, <1>7, <1>8, <1>9, <1>10, PartsMakeInv

\* The numbers that the slots are counted with.
LEMMA SlotTypes ==
  ASSUME Inv
  PROVE  /\ connecting_count \in Nat /\ MAX_CONNECTING \in Nat /\ Weight(Addrs, dialing) \in Nat
         /\ Cardinality(Threads) \in Nat /\ Cardinality(Threads) >= 1
         /\ \A S \in SUBSET Threads : /\ IsFiniteSet(S) /\ Cardinality(S) \in Nat
                                      /\ Cardinality(S) <= Cardinality(Threads)
<1>1. \A S \in SUBSET Threads : /\ IsFiniteSet(S) /\ Cardinality(S) \in Nat
                                /\ Cardinality(S) <= Cardinality(Threads)
  BY AddrsAssumption, FS_Subset, FS_CardinalityType
<1>2. Cardinality(Threads) \in Nat /\ Cardinality(Threads) # 0
  BY AddrsAssumption, FS_CardinalityType, FS_EmptySet
<1> QED
  BY <1>1, <1>2, AddrsAssumption, LimitsAssumption, WeightType DEF Inv, TypeOK

\* A thread that finds a slot free is admitted; there is one place for each.
LEMMA CheckConnectingPreservesInv ==
  ASSUME Inv, NEW t \in Threads, CheckConnecting(t)
  PROVE  Inv'
<1>1. /\ todo[t] # <<>> /\ Arg(t).op = "check_connecting" /\ Touch(t, {})
      /\ UNCHANGED <<maps, counts, dialing, ops>>
      /\ \/ connecting_count < MAX_CONNECTING /\ Continue(t, <<>>)
         \/ Return(t)
  BY DEF CheckConnecting, Upcoming, Arg, Continue, Return
<1>2. IsMap(last_connect_attempt', Addrs, Ages) /\ \A a : Fresh(a)' => Fresh(a)
  BY <1>1 DEF Inv, TypeOK, maps, Fresh
<1>3. CASE Return(t)
  BY <1>1, <1>2, <1>3, ReturnPreservesInv DEF maps, Checks
<1>4. CASE connecting_count < MAX_CONNECTING /\ Continue(t, <<>>)
  <2>1. MapsTyped'
    BY <1>1 DEF MapsTyped, Inv, TypeOK, maps, counts
  <2>2. /\ Becomes(t, Rest(t)) /\ Booked(t)
        /\ CountersAreExplained' /\ IpsAreExplained' /\ RoutesAreExplained' /\ DeadAreClosed'
        /\ AttemptsAreDue'
    BY <1>1, <1>2, <1>4, AdvanceKeeps DEF maps, counts, CounterKinds, IpWrites, RouteKinds
  <2>3. Cardinality(Waiting("connecting_sub")') = Cardinality(Waiting("connecting_sub"))
    BY <1>1, <2>2, WaitingAfterAccess DEF Broadcasts
  <2>4. Admitted' \in SUBSET Threads
    BY DEF Admitted
  <2>5. connecting_count + Cardinality(Admitted') <= MAX_CONNECTING + Cardinality(Threads) - 1
    BY <1>4, <2>4, SlotTypes
  <2>6. SlotsAreExplained'
    BY <1>1, <2>3, <2>5 DEF Inv, SlotsAreExplained, counts
  <2> QED
    BY <2>1, <2>2, <2>6, PartsMakeInv
<1> QED
  BY <1>1, <1>3, <1>4

\* Expired attempts are forgotten; after a fresh one the call ends.
LEMMA CheckRetryPreservesInv ==
  ASSUME Inv, NEW t \in Threads, CheckRetry(t)
  PROVE  Inv'
<1> DEFINE kept == Drop(last_connect_attempt,
                        {b \in DOMAIN last_connect_attempt : last_connect_attempt[b] = "expired"})
<1>0. PICK a : a = Arg(t).addr
  OBVIOUS
<1>1. /\ todo[t] # <<>> /\ Arg(t).op = "check_retry" /\ Touch(t, {})
      /\ UNCHANGED <<peers, addr_to_peer, ip_connections, counts, dialing, ops>>
      /\ last_connect_attempt' = kept
      /\ \/ ~Fresh(a)' /\ Continue(t, <<>>)
         \/ Return(t)
  BY <1>0 DEF CheckRetry, Upcoming, Arg, Continue, Return, Fresh
<1>2. IsMap(last_connect_attempt', Addrs, Ages) /\ \A b : Fresh(b)' => Fresh(b)
  BY <1>1 DEF Inv, TypeOK, Fresh, IsMap, Drop
<1>3. CASE Return(t)
  BY <1>1, <1>2, <1>3, ReturnPreservesInv DEF Checks
<1>4. CASE ~Fresh(a)' /\ Continue(t, <<>>)
  <2>1. MapsTyped'
    BY <1>1, <1>2 DEF MapsTyped, Inv, TypeOK, counts
  <2>2. /\ Becomes(t, Rest(t)) /\ Booked(t)
        /\ CountersAreExplained' /\ SlotsAreExplained' /\ IpsAreExplained'
        /\ RoutesAreExplained' /\ DeadAreClosed'
    BY <1>1, <1>4, AdvanceKeeps DEF counts, CounterKinds, IpWrites, RouteKinds
  <2>3. AttemptsAreDue'
    <3> SUFFICES ASSUME NEW u \in Threads, NEW x \in Plan(u)', x.op = "note_attempt",
                        ~Has(Plan(u)', "check_retry"), Fresh(x.addr)'
                 PROVE  Ip[x.addr] \in raced'
      BY DEF AttemptsAreDue
    <3>1. CASE u = t
      <4>1. x \in Plan(t) /\ Arg(t) \in Plan(t)
        BY <1>1, <2>2, <3>1, AdvanceLeaves DEF Becomes
      <4>2. x.addr = a
        BY <1>0, <1>1, <4>1 DEF Inv, PlansAreOrdered, SameAddr
      <4> QED
        BY <1>4, <4>2
    <3>2. CASE u # t
      <4>1. x \in Plan(u) /\ ~Has(Plan(u), "check_retry")
        BY <2>2, <3>2 DEF Becomes
      <4> QED
        BY <1>2, <2>2, <4>1 DEF Inv, AttemptsAreDue, Booked
    <3> QED
      BY <3>1, <3>2
  <2> QED
    BY <2>1, <2>2, <2>3, PartsMakeInv
<1> QED
  BY <1>1, <1>3, <1>4

\* Another thread about to note the same attempt has touched the same IP.
LEMMA NoteAttemptPreservesInv ==
  ASSUME Inv, NEW t \in Threads, NoteAttempt(t)
  PROVE  Inv'
<1> DEFINE a == Arg(t).addr
<1>1. /\ todo[t] # <<>> /\ Arg(t).op = "note_attempt" /\ Touch(t, {}) /\ Continue(t, <<>>)
      /\ UNCHANGED <<peers, addr_to_peer, ip_connections, counts, dialing, ops>>
      /\ last_connect_attempt' = Put(last_connect_attempt, {a}, "fresh")
  BY DEF NoteAttempt, Upcoming, Arg, Continue
<1>2. Arg(t) \in Access /\ a \in Addrs /\ Arg(t) \in Plan(t)
  <2>1. Arg(t) \in Access /\ Arg(t) \in Plan(t)
    BY <1>1, AdvanceLeaves
  <2> QED
    BY <1>1, <2>1 DEF Access
<1>3. IsMap(last_connect_attempt', Addrs, Ages) /\ \A b : Fresh(b)' => Fresh(b) \/ b = a
  BY <1>1, <1>2 DEF Inv, TypeOK, Fresh, IsMap, Put, Ages
<1>4. MapsTyped'
  BY <1>1, <1>3 DEF MapsTyped, Inv, TypeOK, counts
<1>5. /\ Becomes(t, Rest(t)) /\ Booked(t)
      /\ CountersAreExplained' /\ SlotsAreExplained' /\ IpsAreExplained'
      /\ RoutesAreExplained' /\ DeadAreClosed'
  BY <1>1, AdvanceKeeps DEF counts, CounterKinds, IpWrites, RouteKinds
<1>6. AttemptsAreDue'
  <2> SUFFICES ASSUME NEW u \in Threads, NEW x \in Plan(u)', x.op = "note_attempt",
                      ~Has(Plan(u)', "check_retry"), Fresh(x.addr)'
               PROVE  Ip[x.addr] \in raced'
    BY DEF AttemptsAreDue
  <2>1. u # t
    BY <1>1, <1>5, AdvanceLeaves DEF Becomes, Has, Broadcasts
  <2>2. x \in Plan(u) /\ ~Has(Plan(u), "check_retry")
    BY <1>5, <2>1 DEF Becomes
  <2>3. CASE Fresh(x.addr)
    BY <1>5, <2>2, <2>3 DEF Inv, AttemptsAreDue, Booked
  <2>4. CASE x.addr = a
    <3>1. Ip[a] \in touched[t] /\ Ip[a] \in touched[u]
      BY <1>1, <1>2, <2>2, <2>4 DEF Inv, PlansAreTouched, IsTouched, Dials
    <3>2. Ip[a] \in raced
      BY <2>1, <3>1 DEF Inv, RacesAreMarked
    <3> QED
      BY <1>5, <2>4, <3>2 DEF Booked
  <2> QED
    BY <1>3, <2>3, <2>4
<1> QED
  BY <1>4, <1>5, <1>6, PartsMakeInv

\* The dials under way after those of one address change.
LEMMA DialsChange ==
  ASSUME Inv, NEW a \in Addrs, NEW k \in Nat, dialing' = [dialing EXCEPT ![a] = k]
  PROVE  /\ dialing' \in [Addrs -> Nat] /\ dialing[a] \in Nat
         /\ Weight(Addrs, dialing') \in Nat
         /\ Weight(Addrs, dialing') = Weight(Addrs, dialing) - dialing[a] + k
<1>1. dialing \in [Addrs -> Nat]
  BY DEF Inv, TypeOK
<1>2. /\ dialing' \in [Addrs -> Nat] /\ dialing'[a] = k
      /\ \A b \in Addrs \ {a} : dialing[b] = dialing'[b]
  BY <1>1
<1>3. /\ Weight(Addrs, dialing) \in Nat /\ dialing[a] <= Weight(Addrs, dialing)
      /\ Weight(Addrs, dialing') = Weight(Addrs, dialing) - dialing[a] + dialing'[a]
  <2>1. IsFiniteSet(Addrs) /\ \A b \in Addrs : dialing[b] \in Nat /\ dialing'[b] \in Nat
    BY <1>1, <1>2, AddrsAssumption
  <2>2. \A b \in Addrs \ {a} : dialing[b] = dialing'[b]
    BY <1>2
  <2>3. ASSUME NEW v, NEW w, \A b \in Addrs : v[b] \in Nat /\ w[b] \in Nat,
               \A b \in Addrs \ {a} : v[b] = w[b]
        PROVE  /\ Weight(Addrs, v) \in Nat /\ v[a] <= Weight(Addrs, v)
               /\ Weight(Addrs, w) = Weight(Addrs, v) - v[a] + w[a]
    BY <2>1, <2>3, WeightChange
  <2> QED
    BY <2>1, <2>2, <2>3, Zenon
<1> QED
  BY <1>1, <1>2, <1>3

\* An admitted thread takes its slot.
LEMMA ConnectingAddPreservesInv ==
  ASSUME Inv, NEW t \in Threads, ConnectingAdd(t)
  PROVE  Inv'
<1>1. /\ todo[t] # <<>> /\ Arg(t).op = "connecting_add" /\ Touch(t, {}) /\ Continue(t, <<>>)
      /\ UNCHANGED <<peers, addr_to_peer, ip_connections, last_connect_attempt,
                     connected_count, outbound_count, ops>>
      /\ connecting_count' = connecting_count + 1
      /\ dialing' = [dialing EXCEPT ![Arg(t).addr] = @ + 1]
  BY DEF ConnectingAdd, Upcoming, Arg, Continue, maps
<1>2. Arg(t).addr \in Addrs /\ Plan(t) = {Arg(t)} /\ Rest(t) = {}
  <2>1. Arg(t) \in Access /\ Plan(t) = {Arg(t)} \cup Rest(t) /\ Rest(t) = {}
    BY <1>1, AdvanceLeaves
  <2> QED
    BY <1>1, <2>1 DEF Access
<1>3. /\ Becomes(t, Rest(t)) /\ Booked(t)
      /\ CountersAreExplained' /\ IpsAreExplained' /\ RoutesAreExplained' /\ DeadAreClosed'
      /\ AttemptsAreDue'
  BY <1>1, AdvanceKeeps DEF CounterKinds, IpWrites, RouteKinds, Fresh
<1>4. /\ dialing' \in [Addrs -> Nat]
      /\ Weight(Addrs, dialing') = Weight(Addrs, dialing) + 1
  <2>1. dialing[Arg(t).addr] \in Nat
    BY <1>2 DEF Inv, TypeOK
  <2>2. dialing[Arg(t).addr] + 1 \in Nat
        /\ dialing' = [dialing EXCEPT ![Arg(t).addr] = dialing[Arg(t).addr] + 1]
    BY <1>1, <2>1
  <2>3. /\ dialing' \in [Addrs -> Nat]
        /\ Weight(Addrs, dialing') = Weight(Addrs, dialing) - dialing[Arg(t).addr]
                                       + (dialing[Arg(t).addr] + 1)
    BY <1>2, <2>2, DialsChange
  <2> QED
    BY <2>1, <2>3, SlotTypes
<1>5. /\ Cardinality(Waiting("connecting_sub")) \in Nat
      /\ Cardinality(Waiting("connecting_sub")') = Cardinality(Waiting("connecting_sub"))
  BY <1>1, <1>3, WaitingAfterAccess DEF Broadcasts
<1>6. t \in Admitted /\ Admitted' = Admitted \ {t} /\ Admitted \in SUBSET Threads
  BY <1>1, <1>2, <1>3 DEF Admitted, Has, Becomes
<1>7. Cardinality(Admitted') = Cardinality(Admitted) - 1 /\ Cardinality(Admitted) \in Nat
  BY <1>6, SlotTypes, FS_RemoveElement
<1>8. MapsTyped'
  BY <1>1, <1>4, SlotTypes DEF MapsTyped, Inv, TypeOK
<1>9. SlotsAreExplained'
  <2>1. connecting_count' <= Weight(Addrs, dialing') + Cardinality(Waiting("connecting_sub")')
    BY <1>1, <1>4, <1>5, SlotTypes DEF Inv, SlotsAreExplained
  <2>2. connecting_count' + Cardinality(Admitted') <= MAX_CONNECTING + Cardinality(Threads) - 1
    BY <1>1, <1>7, SlotTypes DEF Inv, SlotsAreExplained
  <2> QED
    BY <2>1, <2>2 DEF SlotsAreExplained
<1> QED
  BY <1>3, <1>8, <1>9, PartsMakeInv

\* A dial that fails ends, and its slot will be given back.
LEMMA MarkConnectFailedPreservesInv ==
  ASSUME Inv, NEW t \in Threads, NEW a \in Addrs, MarkConnectFailed(t, a)
  PROVE  Inv'
<1> DEFINE A == {[op |-> "connecting_sub"]}
<1>1. /\ dialing[a] > 0 /\ dialing' = [dialing EXCEPT ![a] = @ - 1]
      /\ last_connect_attempt' = Put(last_connect_attempt, {a}, "fresh")
      /\ Start(t, Do("connecting_sub")) /\ Touch(t, {Ip[a]})
      /\ UNCHANGED <<peers, addr_to_peer, ip_connections, counts>>
  BY DEF MarkConnectFailed
<1>2. Plan(t) = {} /\ Becomes(t, A)
  BY <1>1, PlanDo, PlanStarted DEF Inv
<1>3. /\ \A z \in A : z.op = "connecting_sub" /\ IsTouched(z, {Ip[a]} \cup touched[t])
      /\ SameAddr(A) /\ Has(A, "connecting_sub") /\ ~Has(A, "connecting_add")
  BY DEF IsTouched, SameAddr, Dials, IpWrites, Has
<1> HIDE DEF A
<1>4. Booked(t)
  <2>1. {Ip[a]} \in SUBSET (Nodes \cup Ips)
    BY AddrsAssumption
  <2> QED
    BY <1>1, <1>2, <1>3, <2>1, StepIsBooked
<1>5. /\ Alike(A, Plan(t), CounterKinds) /\ Alike(A, Plan(t), IpWrites)
      /\ Alike(A, Plan(t), RouteKinds) /\ ~Has(Plan(t), "connecting_sub")
      /\ \A z \in A : z.op # "peers_remove"
  BY <1>2, <1>3 DEF Alike, Has, CounterKinds, IpWrites, RouteKinds
<1>6. IsMap(last_connect_attempt', Addrs, Ages) /\ \A b : Fresh(b)' => Fresh(b) \/ b = a
  BY <1>1 DEF Inv, TypeOK, Fresh, IsMap, Put, Ages
<1>7. /\ dialing' \in [Addrs -> Nat]
      /\ Weight(Addrs, dialing') = Weight(Addrs, dialing) - 1
  <2>1. dialing[a] \in Nat /\ dialing[a] - 1 \in Nat /\ dialing' = [dialing EXCEPT ![a] = dialing[a] - 1]
    BY <1>1 DEF Inv, TypeOK
  <2>2. /\ dialing' \in [Addrs -> Nat]
        /\ Weight(Addrs, dialing') = Weight(Addrs, dialing) - dialing[a] + (dialing[a] - 1)
    BY <2>1, DialsChange
  <2> QED
    BY <2>1, <2>2, SlotTypes
<1>8. MapsTyped'
  BY <1>1, <1>6, <1>7, LimitsAssumption DEF MapsTyped, Inv, TypeOK, counts, Start
<1>9. /\ IpsAreExplained' /\ RoutesAreExplained' /\ DeadAreClosed'
      /\ DOMAIN peers' = DOMAIN peers /\ Outbound' = Outbound
  BY <1>1, <1>2, <1>4, <1>5, QuietStep
<1>10. CountersAreExplained'
  BY <1>1, <1>2, <1>5, <1>9, CountersStay DEF counts
<1>11. SlotsAreExplained'
  <2>1. /\ Cardinality(Waiting("connecting_sub")) \in Nat
        /\ Cardinality(Waiting("connecting_sub")') = Cardinality(Waiting("connecting_sub")) + 1
    <3>1. /\ Cardinality(Waiting("connecting_sub")) \in Nat
          /\ Cardinality(Waiting("connecting_sub")') = Cardinality(Waiting("connecting_sub"))
               - Bit(Has(Plan(t), "connecting_sub")) + Bit(Has(A, "connecting_sub"))
      BY <1>2, WaitingChanges
    <3> QED
      BY <1>3, <1>5, <3>1 DEF Bit
  <2>2. Admitted' = Admitted
    BY <1>2, <1>3 DEF Admitted, Becomes, Has
  <2>3. connecting_count <= Weight(Addrs, dialing') + Cardinality(Waiting("connecting_sub")')
    BY <1>7, <2>1, SlotTypes DEF Inv, SlotsAreExplained
  <2> QED
    BY <1>1, <2>2, <2>3 DEF Inv, SlotsAreExplained, counts
<1>12. AttemptsAreDue'
  <2> SUFFICES ASSUME NEW u \in Threads, NEW x \in Plan(u)', x.op = "note_attempt",
                      ~Has(Plan(u)', "check_retry"), Fresh(x.addr)'
               PROVE  Ip[x.addr] \in raced'
    BY DEF AttemptsAreDue
  <2>1. u # t
    BY <1>2, <1>3 DEF Becomes
  <2>2. x \in Plan(u) /\ ~Has(Plan(u), "check_retry")
    BY <1>2, <2>1 DEF Becomes
  <2>3. CASE Fresh(x.addr)
    BY <1>4, <2>2, <2>3 DEF Inv, AttemptsAreDue, Booked
  <2>4. CASE x.addr = a
    <3>1. Ip[a] \in touched[u]
      BY <2>2, <2>4 DEF Inv, PlansAreTouched, IsTouched, Dials
    <3> QED
      BY <1>1, <2>1, <2>4, <3>1, RivalsAreMarked
  <2> QED
    BY <1>6, <2>3, <2>4
<1> QED
  BY <1>4, <1>8, <1>9, <1>10, <1>11, <1>12, PartsMakeInv
-----------------------------------------------------------------------------
(*************************** Routes and IP counts **************************)

\* The route to a removed peer is taken out.
LEMMA AddrRemovePreservesInv ==
  ASSUME Inv, NEW t \in Threads, AddrRemove(t)
  PROVE  Inv'
<1>0. PICK b : b = Arg(t).addr
  OBVIOUS
<1>1. /\ todo[t] # <<>> /\ Arg(t).op = "addr_remove" /\ Touch(t, {}) /\ Continue(t, <<>>)
      /\ UNCHANGED <<peers, ip_connections, last_connect_attempt, counts, dialing, ops>>
      /\ addr_to_peer' = Drop(addr_to_peer, {b})
  BY <1>0 DEF AddrRemove, Upcoming, Arg, Continue
<1>2. MapsTyped'
  BY <1>1 DEF MapsTyped, Inv, TypeOK, counts, IsMap, Drop
<1>3. /\ Becomes(t, Rest(t)) /\ Booked(t)
      /\ CountersAreExplained' /\ SlotsAreExplained' /\ IpsAreExplained' /\ DeadAreClosed'
      /\ AttemptsAreDue'
  BY <1>1, AdvanceKeeps DEF counts, CounterKinds, IpWrites, Fresh
<1>4. RoutesAreExplained'
  <2> SUFFICES ASSUME NEW a \in Addrs, Ip[a] \notin raced'
               PROVE  /\ a \in DOMAIN addr_to_peer' =>
                           \/ At(addr_to_peer'[a], a)
                           \/ \E u \in Threads : \E x \in Plan(u)' :
                                x.op = "addr_remove" /\ x.addr = a
                      /\ \A u \in Threads : \A x \in Plan(u)' :
                           x.op = "addr_insert" /\ x.addr = a => At(x.node, a)
    <3>1. \A m, c : At(m, c)' <=> At(m, c)
      BY <1>1 DEF At
    <3> QED
      BY <3>1 DEF RoutesAreExplained
  <2>1. /\ \A u \in Threads : \A x : x \in Plan(u) /\ x # Arg(t) => x \in Plan(u)'
        /\ \A u \in Threads : Plan(u)' \subseteq Plan(u)
    BY <1>1, <1>3, AdvanceLeaves DEF Becomes
  <2>2. /\ a \in DOMAIN addr_to_peer =>
             \/ At(addr_to_peer[a], a)
             \/ \E u \in Threads : \E x \in Plan(u) : x.op = "addr_remove" /\ x.addr = a
        /\ \A u \in Threads : \A x \in Plan(u) :
             x.op = "addr_insert" /\ x.addr = a => At(x.node, a)
    BY <1>3 DEF Inv, RoutesAreExplained, Booked
  <2>3. ASSUME a \in DOMAIN addr_to_peer'
        PROVE  \/ At(addr_to_peer'[a], a)
               \/ \E u \in Threads : \E x \in Plan(u)' : x.op = "addr_remove" /\ x.addr = a
    <3>1. a # b /\ a \in DOMAIN addr_to_peer /\ addr_to_peer'[a] = addr_to_peer[a]
      BY <1>1, <2>3 DEF Drop
    <3> QED
      BY <1>0, <2>1, <2>2, <3>1
  <2> QED
    BY <2>1, <2>2, <2>3
<1> QED
  BY <1>2, <1>3, <1>4, PartsMakeInv

\* The route is entered while its peer is registered at the address, or the IP
\* is raced.
LEMMA AddrInsertPreservesInv ==
  ASSUME Inv, NEW t \in Threads, AddrInsert(t)
  PROVE  Inv'
<1>0. PICK b, n : b = Arg(t).addr /\ n = Arg(t).node
  OBVIOUS
<1>1. /\ todo[t] # <<>> /\ Arg(t).op = "addr_insert" /\ Touch(t, {}) /\ Continue(t, <<>>)
      /\ UNCHANGED <<peers, ip_connections, last_connect_attempt, counts, dialing, ops>>
      /\ addr_to_peer' = Put(addr_to_peer, {b}, n)
  BY <1>0 DEF AddrInsert, Upcoming, Arg, Continue
<1>2. b \in Addrs /\ n \in Nodes /\ Arg(t) \in Plan(t)
  <2>1. Arg(t) \in Access /\ Arg(t) \in Plan(t)
    BY <1>1, AdvanceLeaves
  <2> QED
    BY <1>0, <1>1, <2>1 DEF Access
<1>3. MapsTyped'
  BY <1>1, <1>2 DEF MapsTyped, Inv, TypeOK, counts, IsMap, Put
<1>4. /\ Becomes(t, Rest(t)) /\ Booked(t)
      /\ CountersAreExplained' /\ SlotsAreExplained' /\ IpsAreExplained' /\ DeadAreClosed'
      /\ AttemptsAreDue'
  BY <1>1, AdvanceKeeps DEF counts, CounterKinds, IpWrites, Fresh
<1>5. RoutesAreExplained'
  <2> SUFFICES ASSUME NEW a \in Addrs, Ip[a] \notin raced'
               PROVE  /\ a \in DOMAIN addr_to_peer' =>
                           \/ At(addr_to_peer'[a], a)
                           \/ \E u \in Threads : \E x \in Plan(u)' :
                                x.op = "addr_remove" /\ x.addr = a
                      /\ \A u \in Threads : \A x \in Plan(u)' :
                           x.op = "addr_insert" /\ x.addr = a => At(x.node, a)
    <3>1. \A m, c : At(m, c)' <=> At(m, c)
      BY <1>1 DEF At
    <3> QED
      BY <3>1 DEF RoutesAreExplained
  <2>1. /\ \A u \in Threads : \A x : x \in Plan(u) /\ x # Arg(t) => x \in Plan(u)'
        /\ \A u \in Threads : Plan(u)' \subseteq Plan(u)
    BY <1>1, <1>4, AdvanceLeaves DEF Becomes
  <2>2. /\ a \in DOMAIN addr_to_peer =>
             \/ At(addr_to_peer[a], a)
             \/ \E u \in Threads : \E x \in Plan(u) : x.op = "addr_remove" /\ x.addr = a
        /\ \A u \in Threads : \A x \in Plan(u) :
             x.op = "addr_insert" /\ x.addr = a => At(x.node, a)
    BY <1>4 DEF Inv, RoutesAreExplained, Booked
  <2>3. ASSUME a \in DOMAIN addr_to_peer'
        PROVE  \/ At(addr_to_peer'[a], a)
               \/ \E u \in Threads : \E x \in Plan(u)' : x.op = "addr_remove" /\ x.addr = a
    <3>1. CASE a = b
      <4>1. addr_to_peer'[a] = n
        BY <1>1, <3>1 DEF Put
      <4> QED
        BY <1>0, <1>1, <1>2, <2>2, <3>1, <4>1
    <3>2. CASE a # b
      <4>1. a \in DOMAIN addr_to_peer /\ addr_to_peer'[a] = addr_to_peer[a]
        BY <1>1, <2>3, <3>2 DEF Put
      <4> QED
        BY <1>1, <2>1, <2>2, <4>1
    <3> QED
      BY <3>1, <3>2
  <2> QED
    BY <2>1, <2>2, <2>3
<1> QED
  BY <1>3, <1>4, <1>5, PartsMakeInv

\* An access of t to the count of one IP j explains all counts if it explains
\* that of j: nobody else works on j, or j is raced.
LEMMA IpWriteTransfer ==
  ASSUME Inv, NEW t \in Threads, todo[t] # <<>>, Arg(t).op \in IpWrites,
         NEW j, j = Ip[Arg(t).addr], NEW A, Becomes(t, A), Booked(t), UNCHANGED peers,
         \A i \in Ips \ {j} : /\ Connections(i)' = Connections(i)
                              /\ (i \in DOMAIN ip_connections') = (i \in DOMAIN ip_connections)
                              /\ \A op \in IpWrites : HasOn(A, op, i) <=> HasOn(Plan(t), op, i),
         AloneOn(t, j) => IpExplained(t, j)'
  PROVE  IpsAreExplained'
<1>1. \A ip \in Ips : PeersOn(ip)' = PeersOn(ip)
  BY DEF PeersOn
<1>2. j \in touched[t]
  <2>1. Arg(t) \in Plan(t)
    BY AdvanceLeaves
  <2> QED
    BY <2>1 DEF Inv, PlansAreTouched, IsTouched
<1>3. ASSUME NEW ip \in Ips, AloneOn(t, ip)
      PROVE  IpExplained(t, ip)'
  <2>1. CASE ip = j
    BY <1>3, <2>1
  <2>2. CASE ip # j
    <3>1. IpExplained(t, ip)
      BY <1>3 DEF Inv, IpsAreExplained
    <3>2. \A op \in IpWrites : HasOn(Plan(t)', op, ip) <=> HasOn(Plan(t), op, ip)
      BY <2>2 DEF Becomes
    <3>3. /\ HasOn(Plan(t)', "ip_increment", ip) = HasOn(Plan(t), "ip_increment", ip)
          /\ HasOn(Plan(t)', "ip_decrement", ip) = HasOn(Plan(t), "ip_decrement", ip)
          /\ HasOn(Plan(t)', "ip_remove", ip) = HasOn(Plan(t), "ip_remove", ip)
      BY <3>2 DEF IpWrites, HasOn
    <3>4. /\ Connections(ip)' = Connections(ip) /\ PeersOn(ip)' = PeersOn(ip)
          /\ (ip \in DOMAIN ip_connections') = (ip \in DOMAIN ip_connections)
      BY <1>1, <2>2
    <3> QED
      BY <3>1, <3>3, <3>4 DEF IpExplained
  <2> QED
    BY <2>1, <2>2
<1>4. ASSUME NEW ip \in Ips, NEW u \in Threads \ {t}, ip \notin raced', ip \in touched[u]
      PROVE  /\ PeersOn(ip)' = PeersOn(ip)
             /\ Connections(ip)' = Connections(ip)
             /\ (ip \in DOMAIN ip_connections') = (ip \in DOMAIN ip_connections)
  <2>1. ip # j
    BY <1>2, <1>4 DEF Inv, RacesAreMarked, Booked
  <2> QED
    BY <1>1, <2>1
<1> QED
  BY <1>3, <1>4, IpsTransfer

\* What t has planned for the IP it is about to write to.
LEMMA IpWriteAhead ==
  ASSUME Inv, NEW t \in Threads, todo[t] # <<>>, Arg(t).op \in IpWrites,
         NEW j, j = Ip[Arg(t).addr]
  PROVE  /\ Arg(t).addr \in Addrs /\ j \in Ips
         /\ \A op : HasOn(Plan(t), op, j) <=> op = Arg(t).op \/ HasOn(Rest(t), op, j)
         /\ \A op, i : i # j => (HasOn(Rest(t), op, i) <=> HasOn(Plan(t), op, i))
         /\ \A i : ~HasOn(Rest(t), "ip_decrement", i) /\ ~HasOn(Rest(t), "ip_remove", i)
         /\ Arg(t).op = "ip_increment" => \A i : ~HasOn(Rest(t), "ip_increment", i)
<1>1. /\ Plan(t) = {Arg(t)} \cup Rest(t) /\ Arg(t) \in Access
      /\ \A y \in Rest(t) : MayPrecede(Arg(t).op, y.op)
  BY AdvanceLeaves
<1>2. Arg(t).addr \in Addrs
  BY <1>1 DEF Access, IpWrites
<1>3. \A y \in Rest(t) : /\ y.op \notin {"ip_decrement", "ip_remove"}
                         /\ Arg(t).op = "ip_increment" => y.op # "ip_increment"
  BY <1>1 DEF MayPrecede, IpWrites, Broadcasts
<1>4. /\ \A op : HasOn(Plan(t), op, j) <=> op = Arg(t).op \/ HasOn(Rest(t), op, j)
      /\ \A op, i : i # j => (HasOn(Rest(t), op, i) <=> HasOn(Plan(t), op, i))
  BY <1>1 DEF HasOn
<1>5. /\ \A i : ~HasOn(Rest(t), "ip_decrement", i) /\ ~HasOn(Rest(t), "ip_remove", i)
      /\ Arg(t).op = "ip_increment" => \A i : ~HasOn(Rest(t), "ip_increment", i)
  BY <1>3 DEF HasOn
<1> QED
  BY <1>2, <1>4, <1>5, AddrsAssumption

\* The numbers that connections are counted with.
LEMMA ConnectionTypes ==
  ASSUME Inv
  PROVE  \A ip \in Ips : /\ Connections(ip) \in Nat /\ IsFiniteSet(PeersOn(ip))
                         /\ Cardinality(PeersOn(ip)) \in Nat
                         /\ (Cardinality(PeersOn(ip)) = 0) = (PeersOn(ip) = {})
BY PeersFinite, FS_EmptySet DEF Inv, TypeOK, IsMap, Connections

\* The count is lowered; if nothing is left, the entry will be removed.
LEMMA IpDecrementPreservesInv ==
  ASSUME Inv, NEW t \in Threads, IpDecrement(t)
  PROVE  Inv'
<1>0. PICK a, j : a = Arg(t).addr /\ j = Ip[a]
  OBVIOUS
<1>1. /\ todo[t] # <<>> /\ Arg(t).op = "ip_decrement" /\ Touch(t, {}) /\ UNCHANGED ops
      /\ UNCHANGED <<peers, addr_to_peer, last_connect_attempt, counts, dialing>>
  BY DEF IpDecrement, Upcoming, Arg, Continue
<1>2. /\ a \in Addrs /\ j \in Ips
      /\ \A op : HasOn(Plan(t), op, j) <=> op = "ip_decrement" \/ HasOn(Rest(t), op, j)
      /\ \A op, i : i # j => (HasOn(Rest(t), op, i) <=> HasOn(Plan(t), op, i))
      /\ \A i : ~HasOn(Rest(t), "ip_decrement", i) /\ ~HasOn(Rest(t), "ip_remove", i)
  BY <1>0, <1>1, IpWriteAhead DEF IpWrites
<1>3. Connections(j) \in Nat /\ Cardinality(PeersOn(j)) \in Nat /\ PeersOn(j)' = PeersOn(j)
      /\ (Cardinality(PeersOn(j)) = 0) = (PeersOn(j) = {})
  BY <1>1, <1>2, ConnectionTypes DEF PeersOn
\* On an IP that t is alone on, the entry is there.
<1>4. ASSUME AloneOn(t, j)
      PROVE  /\ j \in DOMAIN ip_connections /\ Connections(j) > 0
             /\ Connections(j) + Bit(HasOn(Rest(t), "ip_increment", j)) = Cardinality(PeersOn(j)) + 1
             /\ HasOn(Rest(t), "ip_increment", j) => PeersOn(j) # {}
  <2>1. IpExplained(t, j)
    BY <1>2, <1>4 DEF Inv, IpsAreExplained
  <2>2. /\ HasOn(Plan(t), "ip_decrement", j) /\ ~HasOn(Plan(t), "ip_remove", j)
        /\ HasOn(Plan(t), "ip_increment", j) <=> HasOn(Rest(t), "ip_increment", j)
    BY <1>2
  <2>3. Connections(j) + Bit(HasOn(Rest(t), "ip_increment", j)) = Cardinality(PeersOn(j)) + 1
    BY <2>1, <2>2 DEF IpExplained, Bit
  <2>4. HasOn(Rest(t), "ip_increment", j) => PeersOn(j) # {}
    BY <2>1, <2>2 DEF IpExplained
  <2>5. Connections(j) > 0
    BY <1>3, <2>3, <2>4 DEF Bit
  <2> QED
    BY <2>1, <2>3, <2>4, <2>5 DEF IpExplained
<1>5. CASE j \notin DOMAIN ip_connections
  <2>1. UNCHANGED ip_connections /\ Continue(t, <<>>)
    BY <1>0, <1>5 DEF IpDecrement
  <2>2. MapsTyped'
    BY <1>1, <2>1 DEF MapsTyped, Inv, TypeOK, counts
  <2>3. /\ Becomes(t, Rest(t)) /\ Booked(t)
        /\ CountersAreExplained' /\ SlotsAreExplained' /\ RoutesAreExplained' /\ DeadAreClosed'
        /\ AttemptsAreDue'
    BY <1>1, <2>1, AdvanceKeeps DEF counts, CounterKinds, RouteKinds, Fresh
  <2>4. \A i \in Ips : Connections(i)' = Connections(i)
    BY <2>1 DEF Connections
  <2>5. IpsAreExplained'
    BY <1>0, <1>1, <1>2, <1>4, <1>5, <2>1, <2>3, <2>4, IpWriteTransfer DEF IpWrites
  <2> QED
    BY <2>2, <2>3, <2>5, PartsMakeInv
<1>6. CASE j \in DOMAIN ip_connections
  <2> DEFINE left == SaturatingSub(ip_connections[j], 1)
             x == [op |-> "ip_remove", addr |-> a]
             N == IF left = 0 THEN {x} ELSE {}
             A == N \cup Rest(t)
  <2>1. /\ ip_connections' = [ip_connections EXCEPT ![j] = left]
        /\ Continue(t, When(left = 0, DoAt("ip_remove", a)))
    BY <1>0, <1>6 DEF IpDecrement
  <2>2. /\ ip_connections[j] \in Nat /\ left \in Nat /\ Connections(j) = ip_connections[j]
        /\ Connections(j) > 0 => left = Connections(j) - 1
    BY <1>3, <1>6 DEF Connections, SaturatingSub
  <2>3. /\ IsMap(ip_connections', Ips, Nat) /\ DOMAIN ip_connections' = DOMAIN ip_connections
        /\ ip_connections'[j] = left
        /\ \A i \in DOMAIN ip_connections \ {j} : ip_connections'[i] = ip_connections[i]
    BY <1>6, <2>1, <2>2 DEF Inv, TypeOK, IsMap
  <2>4. Connections(j)' = left /\ \A i \in Ips \ {j} : Connections(i)' = Connections(i)
    BY <1>6, <2>3 DEF Connections
  <2>5. IsPlan(When(left = 0, DoAt("ip_remove", a)), N)
    <3>1. (left = 0) \in BOOLEAN
      OBVIOUS
    <3>2. IsPlan(DoAt("ip_remove", a), {x})
      BY <1>2, PlanDoAt
    <3> QED
      BY <3>1, <3>2, PlanWhen
  <2>6. \A y \in Rest(t) : /\ y.op \notin Checks \cup {"ip_decrement", "ip_remove"}
                           /\ y \in Plan(t)
    BY <1>1, AdvanceLeaves DEF MayPrecede, IpWrites, Checks, Broadcasts
  <2>7. \A y \in N, z \in Rest(t) : MayPrecede(y.op, z.op)
    BY <2>6 DEF MayPrecede, Checks, Broadcasts, IpWrites
  <2> HIDE DEF left
  <2>8. Becomes(t, A)
    BY <1>1, <2>1, <2>5, <2>7, PlanContinued DEF Inv
  <2>9. Ip[a] \in touched[t]
    <3>1. Arg(t) \in Plan(t)
      BY <1>1, AdvanceLeaves
    <3> QED
      BY <1>0, <1>1, <3>1 DEF Inv, PlansAreTouched, IsTouched, IpWrites
  <2>10. \A y \in A : IsTouched(y, {} \cup touched[t])
    <3>1. {} \cup touched[t] = touched[t]
      OBVIOUS
    <3>2. \A y \in Rest(t) : IsTouched(y, touched[t])
      BY <2>6 DEF Inv, PlansAreTouched
    <3>3. IsTouched(x, touched[t])
      BY <2>9 DEF IsTouched
    <3> QED
      BY <3>1, <3>2, <3>3
  <2>11. SameAddr(A)
    BY <2>6 DEF SameAddr, Checks
  <2>12. Booked(t)
    BY <1>1, <2>8, <2>10, <2>11, StepIsBooked
  <2>13. /\ \A i : ~HasOn(A, "ip_decrement", i)
         /\ \A i : HasOn(A, "ip_increment", i) <=> HasOn(Rest(t), "ip_increment", i)
         /\ \A i : HasOn(A, "ip_remove", i) <=> left = 0 /\ i = j
    <3>1. /\ x.op = "ip_remove" /\ Ip[x.addr] = j
          /\ \A y : y \in A <=> (left = 0 /\ y = x) \/ y \in Rest(t)
      BY <1>0
    <3> HIDE DEF A, N, x
    <3>2. \A i : ~HasOn(A, "ip_decrement", i)
      BY <2>6, <3>1 DEF HasOn
    <3>3. \A i : HasOn(A, "ip_increment", i) <=> HasOn(Rest(t), "ip_increment", i)
      BY <3>1 DEF HasOn
    <3>4. \A i : HasOn(A, "ip_remove", i) <=> left = 0 /\ i = j
      BY <2>6, <3>1 DEF HasOn
    <3> QED
      BY <3>2, <3>3, <3>4
  <2>14. /\ \A op \in CounterKinds \cup RouteKinds \cup
                      {"connecting_sub", "connecting_add", "check_connecting", "check_retry",
                       "note_attempt", "peers_remove"} :
              \A y : y.op = op => (y \in A <=> y \in Plan(t))
    <3>1. Plan(t) = {Arg(t)} \cup Rest(t)
      BY <1>1, AdvanceLeaves
    <3> QED
      BY <1>1, <3>1 DEF CounterKinds, RouteKinds
  <2> HIDE DEF A, N, x
  <2>15. IpsAreExplained'
    <3>1. \A i \in Ips \ {j} : \A op \in IpWrites : HasOn(A, op, i) <=> HasOn(Plan(t), op, i)
      BY <1>2, <2>13 DEF IpWrites
    <3>2. ASSUME AloneOn(t, j)
          PROVE  IpExplained(t, j)'
      <4>1. /\ Connections(j) > 0 /\ Connections(j)' = Connections(j) - 1
            /\ Connections(j) + Bit(HasOn(Rest(t), "ip_increment", j)) = Cardinality(PeersOn(j)) + 1
        BY <1>4, <2>2, <2>4, <3>2
      <4>2. /\ HasOn(Plan(t)', "ip_increment", j) <=> HasOn(Rest(t), "ip_increment", j)
            /\ ~HasOn(Plan(t)', "ip_decrement", j)
            /\ HasOn(Plan(t)', "ip_remove", j) <=> Connections(j)' = 0
        BY <2>4, <2>8, <2>13 DEF Becomes
      <4>3. Connections(j)' + Bit(HasOn(Plan(t)', "ip_increment", j))
              = Cardinality(PeersOn(j)') + Bit(HasOn(Plan(t)', "ip_decrement", j))
        BY <1>3, <4>1, <4>2 DEF Bit
      <4>4. /\ j \in DOMAIN ip_connections'
            /\ Connections(j)' > 0 \/ HasOn(Plan(t)', "ip_remove", j)
        BY <1>3, <1>6, <2>3, <4>1, <4>2
      <4>5. HasOn(Plan(t)', "ip_increment", j) => PeersOn(j)' # {}
        BY <1>3, <1>4, <3>2, <4>2
      <4> QED
        BY <4>2, <4>3, <4>4, <4>5 DEF IpExplained
    <3> QED
      BY <1>0, <1>1, <2>3, <2>4, <2>8, <2>12, <3>1, <3>2, IpWriteTransfer DEF IpWrites
  <2>16. CountersAreExplained'
    BY <1>1, <2>8, <2>14, CountersStay DEF Alike, counts, Outbound
  <2>17. SlotsAreExplained'
    BY <1>1, <2>8, <2>14, SlotsStay DEF counts, Has, Admitted
  <2>18. RoutesAreExplained'
    <3>1. \A n, b : At(n, b)' = At(n, b)
      BY <1>1 DEF At
    <3> QED
      BY <1>1, <2>8, <2>12, <2>14, <3>1, RoutesStay DEF Alike, Booked
  <2>19. DeadAreClosed'
    BY <1>1, <2>8, <2>12, <2>14, DeadStay DEF Booked
  <2>20. AttemptsAreDue'
    BY <1>1, <2>8, <2>12, <2>14, AttemptsStay DEF Booked, Fresh, Has
  <2>21. MapsTyped'
    BY <1>1, <2>3 DEF MapsTyped, Inv, TypeOK, counts
  <2> QED
    BY <2>12, <2>15, <2>16, <2>17, <2>18, <2>19, <2>20, <2>21, PartsMakeInv
<1> QED
  BY <1>5, <1>6

\* An entry that reached zero is removed.
LEMMA IpRemovePreservesInv ==
  ASSUME Inv, NEW t \in Threads, IpRemove(t)
  PROVE  Inv'
<1>0. PICK a, j : a = Arg(t).addr /\ j = Ip[a]
  OBVIOUS
<1>1. /\ todo[t] # <<>> /\ Arg(t).op = "ip_remove" /\ Touch(t, {}) /\ Continue(t, <<>>)
      /\ UNCHANGED <<peers, addr_to_peer, last_connect_attempt, counts, dialing, ops>>
      /\ ip_connections' = Drop(ip_connections, {j})
  BY <1>0 DEF IpRemove, Upcoming, Arg, Continue
<1>2. /\ a \in Addrs /\ j \in Ips
      /\ \A op : HasOn(Plan(t), op, j) <=> op = "ip_remove" \/ HasOn(Rest(t), op, j)
      /\ \A op, i : i # j => (HasOn(Rest(t), op, i) <=> HasOn(Plan(t), op, i))
      /\ \A i : ~HasOn(Rest(t), "ip_decrement", i) /\ ~HasOn(Rest(t), "ip_remove", i)
  BY <1>0, <1>1, IpWriteAhead DEF IpWrites
<1>3. Connections(j) \in Nat /\ Cardinality(PeersOn(j)) \in Nat /\ PeersOn(j)' = PeersOn(j)
  BY <1>1, <1>2, ConnectionTypes DEF PeersOn
<1>4. MapsTyped'
  BY <1>1 DEF MapsTyped, Inv, TypeOK, counts, IsMap, Drop
<1>5. /\ Becomes(t, Rest(t)) /\ Booked(t)
      /\ CountersAreExplained' /\ SlotsAreExplained' /\ RoutesAreExplained' /\ DeadAreClosed'
      /\ AttemptsAreDue'
  BY <1>1, AdvanceKeeps DEF counts, CounterKinds, RouteKinds, Fresh
<1>6. /\ j \notin DOMAIN ip_connections' /\ Connections(j)' = 0
      /\ \A i \in Ips \ {j} : /\ Connections(i)' = Connections(i)
                              /\ (i \in DOMAIN ip_connections') = (i \in DOMAIN ip_connections)
  BY <1>1 DEF Connections, Drop
<1>7. ASSUME AloneOn(t, j)
      PROVE  IpExplained(t, j)'
  <2>1. IpExplained(t, j)
    BY <1>2, <1>7 DEF Inv, IpsAreExplained
  <2>2. /\ HasOn(Plan(t), "ip_remove", j) /\ ~HasOn(Plan(t), "ip_decrement", j)
        /\ HasOn(Plan(t), "ip_increment", j) <=> HasOn(Rest(t), "ip_increment", j)
    BY <1>2
  <2>3. /\ HasOn(Plan(t)', "ip_increment", j) <=> HasOn(Plan(t), "ip_increment", j)
        /\ ~HasOn(Plan(t)', "ip_decrement", j) /\ ~HasOn(Plan(t)', "ip_remove", j)
    BY <1>2, <1>5, <2>2 DEF Becomes
  <2>4. Connections(j) = 0
    BY <2>1, <2>2 DEF IpExplained
  <2>5. Connections(j)' + Bit(HasOn(Plan(t)', "ip_increment", j))
          = Cardinality(PeersOn(j)') + Bit(HasOn(Plan(t)', "ip_decrement", j))
    BY <1>3, <1>6, <2>1, <2>2, <2>3, <2>4 DEF IpExplained, Bit
  <2>6. HasOn(Plan(t)', "ip_increment", j) => PeersOn(j)' # {}
    BY <1>3, <2>1, <2>3 DEF IpExplained
  <2> QED
    BY <1>6, <2>3, <2>5, <2>6 DEF IpExplained
<1>8. IpsAreExplained'
  BY <1>0, <1>1, <1>2, <1>5, <1>6, <1>7, IpWriteTransfer DEF IpWrites
<1> QED
  BY <1>4, <1>5, <1>8, PartsMakeInv

\* A new connection is counted.
LEMMA IpIncrementPreservesInv ==
  ASSUME Inv, NEW t \in Threads, IpIncrement(t)
  PROVE  Inv'
<1>0. PICK a, j, c : a = Arg(t).addr /\ j = Ip[a] /\ c = Connections(j)
  OBVIOUS
<1>1. /\ todo[t] # <<>> /\ Arg(t).op = "ip_increment" /\ Touch(t, {}) /\ Continue(t, <<>>)
      /\ UNCHANGED <<peers, addr_to_peer, last_connect_attempt, counts, dialing, ops>>
      /\ ip_connections' = Put(ip_connections, {j}, c + 1)
  BY <1>0 DEF IpIncrement, Upcoming, Arg, Continue, Connections
<1>2. /\ a \in Addrs /\ j \in Ips
      /\ \A op : HasOn(Plan(t), op, j) <=> op = "ip_increment" \/ HasOn(Rest(t), op, j)
      /\ \A op, i : i # j => (HasOn(Rest(t), op, i) <=> HasOn(Plan(t), op, i))
      /\ \A i : /\ ~HasOn(Rest(t), "ip_decrement", i) /\ ~HasOn(Rest(t), "ip_remove", i)
                /\ ~HasOn(Rest(t), "ip_increment", i)
  BY <1>0, <1>1, IpWriteAhead DEF IpWrites
<1>3. c \in Nat /\ Cardinality(PeersOn(j)) \in Nat /\ PeersOn(j)' = PeersOn(j)
  BY <1>0, <1>1, <1>2, ConnectionTypes DEF PeersOn
<1>4. MapsTyped'
  BY <1>1, <1>2, <1>3 DEF MapsTyped, Inv, TypeOK, counts, IsMap, Put
<1>5. /\ Becomes(t, Rest(t)) /\ Booked(t)
      /\ CountersAreExplained' /\ SlotsAreExplained' /\ RoutesAreExplained' /\ DeadAreClosed'
      /\ AttemptsAreDue'
  BY <1>1, AdvanceKeeps DEF counts, CounterKinds, RouteKinds, Fresh
<1>6. /\ j \in DOMAIN ip_connections' /\ Connections(j)' = c + 1
      /\ \A i \in Ips \ {j} : /\ Connections(i)' = Connections(i)
                              /\ (i \in DOMAIN ip_connections') = (i \in DOMAIN ip_connections)
  BY <1>1 DEF Connections, Put
<1>7. ASSUME AloneOn(t, j)
      PROVE  IpExplained(t, j)'
  <2>1. IpExplained(t, j)
    BY <1>2, <1>7 DEF Inv, IpsAreExplained
  <2>2. /\ HasOn(Plan(t), "ip_increment", j) /\ ~HasOn(Plan(t), "ip_decrement", j)
    BY <1>2
  <2>3. /\ ~HasOn(Plan(t)', "ip_increment", j)
        /\ ~HasOn(Plan(t)', "ip_decrement", j) /\ ~HasOn(Plan(t)', "ip_remove", j)
    BY <1>2, <1>5 DEF Becomes
  <2>4. Connections(j)' + Bit(HasOn(Plan(t)', "ip_increment", j))
          = Cardinality(PeersOn(j)') + Bit(HasOn(Plan(t)', "ip_decrement", j))
    BY <1>0, <1>3, <1>6, <2>1, <2>2, <2>3 DEF IpExplained, Bit
  <2> QED
    BY <1>3, <1>6, <2>3, <2>4 DEF IpExplained
<1>8. IpsAreExplained'
  BY <1>0, <1>1, <1>2, <1>5, <1>6, <1>7, IpWriteTransfer DEF IpWrites
<1> QED
  BY <1>4, <1>5, <1>8, PartsMakeInv
-----------------------------------------------------------------------------
(************************ Registering and removing *************************)

\* What register_peer and remove_peer plan, by kind.
LEMMA RegisteringKinds ==
  ASSUME Inv, NEW n \in Nodes, NEW a \in Addrs, NEW o \in BOOLEAN
  PROVE  /\ Has(Registering(n, a, o), "connecting_sub")
         /\ \A op \in {"connecting_add", "check_retry", "note_attempt", "peers_remove",
                       "connected_sub", "ip_remove"} : ~Has(Registering(n, a, o), op)
         /\ Has(Registering(n, a, o), "connected_add") <=> ~Registered(n)
         /\ Has(Registering(n, a, o), "outbound_add") <=> o
         /\ Has(Registering(n, a, o), "outbound_sub") <=> Registered(n) /\ peers[n].outbound
         /\ \A ip : HasOn(Registering(n, a, o), "ip_increment", ip) <=> Ip[a] = ip
         /\ \A ip : HasOn(Registering(n, a, o), "ip_decrement", ip)
                      <=> Registered(n) /\ Ip[peers[n].addr] = ip
         /\ \A ip : ~HasOn(Registering(n, a, o), "ip_remove", ip)
         /\ \A x \in Registering(n, a, o) : x.op = "addr_insert" => x.node = n /\ x.addr = a
         /\ Registered(n) => [op |-> "addr_remove", addr |-> peers[n].addr] \in Registering(n, a, o)
         /\ \A S : {n, Ip[a]} \cup IpsOf(n) \subseteq S =>
              \A x \in Registering(n, a, o) : IsTouched(x, S)
<1> DEFINE A == Registering(n, a, o)
           Members ==
             /\ [op |-> "connecting_sub"] \in A /\ [op |-> "ip_increment", addr |-> a] \in A
             /\ o => [op |-> "outbound_add"] \in A
             /\ ~Registered(n) => [op |-> "connected_add"] \in A
             /\ Registered(n) => /\ [op |-> "addr_remove", addr |-> peers[n].addr] \in A
                                 /\ [op |-> "ip_decrement", addr |-> peers[n].addr] \in A
                                 /\ peers[n].outbound => [op |-> "outbound_sub"] \in A
           Kinds(x) ==
             /\ x.op \notin {"connecting_add", "check_retry", "note_attempt", "peers_remove",
                             "connected_sub", "ip_remove"}
             /\ x.op = "connected_add" => ~Registered(n)
             /\ x.op = "outbound_add" => o
             /\ x.op = "outbound_sub" => Registered(n) /\ peers[n].outbound
             /\ x.op = "ip_increment" => x.addr = a
             /\ x.op = "ip_decrement" => Registered(n) /\ x.addr = peers[n].addr
             /\ x.op = "addr_insert" => x.node = n /\ x.addr = a
           Touching ==
             \A S : {n, Ip[a]} \cup IpsOf(n) \subseteq S => \A x \in A : IsTouched(x, S)
<1>1. Members /\ (\A x \in A : Kinds(x)) /\ Touching
  <2>1. CASE Registered(n)
    <3>1. \A x : x \in A <=>
            \/ x = [op |-> "addr_remove", addr |-> peers[n].addr]
            \/ x = [op |-> "ip_decrement", addr |-> peers[n].addr]
            \/ peers[n].outbound /\ x = [op |-> "outbound_sub"]
            \/ x = [op |-> "addr_insert", node |-> n, addr |-> a]
            \/ x = [op |-> "ip_increment", addr |-> a]
            \/ x = [op |-> "connecting_sub"]
            \/ o /\ x = [op |-> "outbound_add"]
      BY <2>1 DEF Registering, Unlinking, Linking
    <3>2. IpsOf(n) = {Ip[peers[n].addr]}
      BY <2>1 DEF IpsOf
    <3> HIDE DEF A
    <3>3. Members
      BY <2>1, <3>1
    <3>4. \A x \in A : Kinds(x)
      BY <2>1, <3>1
    <3>5. Touching
      BY <2>1, <3>1, <3>2 DEF IsTouched, Dials, IpWrites
    <3> QED
      BY <3>3, <3>4, <3>5
  <2>2. CASE ~Registered(n)
    <3>1. \A x : x \in A <=>
            \/ x = [op |-> "connected_add"]
            \/ x = [op |-> "addr_insert", node |-> n, addr |-> a]
            \/ x = [op |-> "ip_increment", addr |-> a]
            \/ x = [op |-> "connecting_sub"]
            \/ o /\ x = [op |-> "outbound_add"]
      BY <2>2 DEF Registering, Linking
    <3> HIDE DEF A
    <3>3. Members
      BY <2>2, <3>1
    <3>4. \A x \in A : Kinds(x)
      BY <2>2, <3>1
    <3>5. Touching
      BY <2>2, <3>1 DEF IsTouched, Dials, IpWrites
    <3> QED
      BY <3>3, <3>4, <3>5
  <2> QED
    BY <2>1, <2>2
<1>2. \A x \in A : Has(A, x.op) /\ HasOn(A, x.op, Ip[x.addr])
  BY DEF Has, HasOn
<1> HIDE DEF A
<1>3. \A op \in {"connecting_add", "check_retry", "note_attempt", "peers_remove",
                 "connected_sub", "ip_remove"} : ~Has(A, op) /\ \A ip : ~HasOn(A, op, ip)
  BY <1>1 DEF Has, HasOn
<1>4. Has(A, "connecting_sub")
  <2>1. [op |-> "connecting_sub"] \in A /\ [op |-> "connecting_sub"].op = "connecting_sub"
    BY <1>1
  <2> QED
    BY <1>2, <2>1
<1>5. Has(A, "connected_add") <=> ~Registered(n)
  <2>1. [op |-> "connected_add"].op = "connected_add"
    OBVIOUS
  <2> QED
    BY <1>1, <1>2, <2>1 DEF Has
<1>6. Has(A, "outbound_add") <=> o
  <2>1. [op |-> "outbound_add"].op = "outbound_add"
    OBVIOUS
  <2> QED
    BY <1>1, <1>2, <2>1 DEF Has
<1>7. Has(A, "outbound_sub") <=> Registered(n) /\ peers[n].outbound
  <2>1. [op |-> "outbound_sub"].op = "outbound_sub"
    OBVIOUS
  <2> QED
    BY <1>1, <1>2, <2>1 DEF Has
<1>8. \A ip : HasOn(A, "ip_increment", ip) <=> Ip[a] = ip
  <2> DEFINE y == [op |-> "ip_increment", addr |-> a]
  <2>1. y.op = "ip_increment" /\ y.addr = a /\ y \in A
    BY <1>1
  <2> HIDE DEF y
  <2> QED
    BY <1>1, <1>2, <2>1 DEF HasOn
<1>9. \A ip : HasOn(A, "ip_decrement", ip) <=> Registered(n) /\ Ip[peers[n].addr] = ip
  <2> DEFINE y == [op |-> "ip_decrement", addr |-> peers[n].addr]
  <2>1. y.op = "ip_decrement" /\ y.addr = peers[n].addr /\ (Registered(n) => y \in A)
    BY <1>1
  <2> HIDE DEF y
  <2> QED
    BY <1>1, <1>2, <2>1 DEF HasOn
<1> QED
  BY <1>1, <1>3, <1>4, <1>5, <1>6, <1>7, <1>8, <1>9 DEF A

\* One element is taken out of a finite set or put into it.
LEMMA CardinalityMoves ==
  ASSUME NEW S, NEW T, NEW n, IsFiniteSet(S), \A m : m # n => (m \in S <=> m \in T)
  PROVE  Cardinality(S) \in Nat /\ Cardinality(T) = Cardinality(S) - Bit(n \in S) + Bit(n \in T)
<1>1. Cardinality(S) \in Nat
  BY FS_CardinalityType
<1>2. CASE n \in S /\ n \notin T
  <2>1. T = S \ {n}
    BY <1>2
  <2> QED
    BY <1>1, <1>2, <2>1, FS_RemoveElement DEF Bit
<1>3. CASE n \notin S /\ n \in T
  <2>1. T = S \cup {n}
    BY <1>3
  <2> QED
    BY <1>1, <1>3, <2>1, FS_AddElement DEF Bit
<1>4. CASE (n \in S) = (n \in T)
  <2>1. S = T
    BY <1>4
  <2> QED
    BY <1>1, <1>4, <2>1 DEF Bit
<1> QED
  BY <1>2, <1>3, <1>4

\* register_peer's first access: the maps and counters that do not follow yet
\* are explained by what the plan will do.
LEMMA PutPeerKeeps ==
  ASSUME Inv, NEW t \in Threads, NEW n \in Nodes, NEW a \in Addrs, NEW o \in BOOLEAN,
         \A x \in Plan(t) : x.op = "peers_insert", Becomes(t, Registering(n, a, o)),
         PutPeer(t, n, a, o),
         UNCHANGED <<addr_to_peer, ip_connections, last_connect_attempt, counts>>
  PROVE  /\ Booked(t) /\ IsMap(peers', Nodes, PeerState)
         /\ CountersAreExplained' /\ IpsAreExplained' /\ RoutesAreExplained'
         /\ DeadAreClosed' /\ AttemptsAreDue'
         /\ Admitted' = Admitted
         /\ Cardinality(Waiting("connecting_sub")) \in Nat
         /\ Cardinality(Waiting("connecting_sub")') = Cardinality(Waiting("connecting_sub")) + 1
<1> DEFINE A == Registering(n, a, o)
           S == {n, Ip[a]} \cup IpsOf(n)
           old == Registered(n) /\ peers[n].outbound
<1>1. peers' = Put(peers, {n}, NewState(a, o)) /\ Touch(t, S)
  BY DEF PutPeer
<1>2. /\ DOMAIN peers' = DOMAIN peers \cup {n} /\ peers'[n] = NewState(a, o)
      /\ \A m \in DOMAIN peers \ {n} : peers'[m] = peers[m]
  BY <1>1 DEF Put
<1>3. /\ NewState(a, o) \in PeerState /\ NewState(a, o).addr = a /\ NewState(a, o).outbound = o
  BY DEF NewState, PeerState
<1>4. IsMap(peers', Nodes, PeerState)
  BY <1>1, <1>3 DEF Inv, TypeOK, IsMap, Put
<1>5. S \in SUBSET (Nodes \cup Ips)
  BY AddrsAssumption, PeerFields DEF IpsOf, Inv
<1>6. /\ Has(A, "connecting_sub")
      /\ \A op \in {"connecting_add", "check_retry", "note_attempt", "peers_remove",
                    "connected_sub", "ip_remove"} : ~Has(A, op)
      /\ Has(A, "connected_add") <=> ~Registered(n)
      /\ Has(A, "outbound_add") <=> o
      /\ Has(A, "outbound_sub") <=> old
      /\ \A ip : HasOn(A, "ip_increment", ip) <=> Ip[a] = ip
      /\ \A ip : HasOn(A, "ip_decrement", ip) <=> Registered(n) /\ Ip[peers[n].addr] = ip
      /\ \A ip : ~HasOn(A, "ip_remove", ip)
      /\ \A x \in A : x.op = "addr_insert" => x.node = n /\ x.addr = a
      /\ Registered(n) => [op |-> "addr_remove", addr |-> peers[n].addr] \in A
      /\ \A R : S \subseteq R => \A x \in A : IsTouched(x, R)
  BY RegisteringKinds
<1>7. Becomes(t, A)
  OBVIOUS
<1>8. /\ \A op : op # "peers_insert" => ~Has(Plan(t), op)
      /\ \A op \in IpWrites : \A ip : ~HasOn(Plan(t), op, ip)
  BY DEF Has, HasOn, IpWrites
<1> HIDE DEF A, old
<1>9. Booked(t)
  <2>1. SameAddr(A)
    BY <1>6 DEF SameAddr, Has
  <2>2. S \subseteq S \cup touched[t]
    OBVIOUS
  <2>3. \A x \in A : IsTouched(x, S \cup touched[t])
    BY <1>6, <2>2
  <2> QED
    BY <1>1, <1>5, <1>7, <2>1, <2>3, StepIsBooked
\* A thread that has touched the node or one of the IPs is a rival.
<1>10. ASSUME NEW u \in Threads \ {t}, touched[u] \cap S # {}
       PROVE  S \cup touched[u] \subseteq raced'
  BY <1>1, <1>10, RivalsAreMarked
<1>11. \A op : /\ Cardinality(Waiting(op)) \in Nat /\ Cardinality(Waiting(op)') \in Nat
               /\ op # "peers_insert" =>
                    Cardinality(Waiting(op)') = Cardinality(Waiting(op)) + Bit(Has(A, op))
  <2> TAKE op
  <2>1. /\ Cardinality(Waiting(op)) \in Nat /\ Cardinality(Waiting(op)') \in Nat
        /\ Cardinality(Waiting(op)') =
             Cardinality(Waiting(op)) - Bit(Has(Plan(t), op)) + Bit(Has(A, op))
    BY <1>7, WaitingChanges
  <2> QED
    BY <1>8, <2>1 DEF Bit
<1> HIDE DEF S
<1>12. CountersAreExplained'
  <2> DEFINE D == Cardinality(DOMAIN peers)
             O == Cardinality(Outbound)
             W(op) == Cardinality(Waiting(op))
             V(op) == Cardinality(Waiting(op)')
  <2>1. /\ D \in Nat /\ O \in Nat /\ IsFiniteSet(DOMAIN peers) /\ IsFiniteSet(Outbound)
    BY PeersFinite DEF Inv
  <2>2. Cardinality(DOMAIN peers') = D + Bit(~Registered(n))
    <3>1. Cardinality(DOMAIN peers') = D - Bit(n \in DOMAIN peers) + Bit(n \in DOMAIN peers')
      BY <1>2, <2>1, CardinalityMoves
    <3> QED
      BY <1>2, <2>1, <3>1 DEF Bit, Registered
  <2>3. Cardinality(Outbound') = O - Bit(old) + Bit(o)
    <3>1. /\ \A m : m # n => (m \in Outbound <=> m \in Outbound')
          /\ n \in Outbound <=> old
          /\ n \in Outbound' <=> o
      BY <1>2, <1>3 DEF Outbound, old, Registered
    <3>2. Cardinality(Outbound') = O - Bit(n \in Outbound) + Bit(n \in Outbound')
      BY <2>1, <3>1, CardinalityMoves
    <3> QED
      BY <3>1, <3>2 DEF Bit
  <2>4. /\ V("connected_sub") = W("connected_sub")
        /\ V("connected_add") = W("connected_add") + Bit(~Registered(n))
        /\ V("outbound_sub") = W("outbound_sub") + Bit(old)
        /\ V("outbound_add") = W("outbound_add") + Bit(o)
        /\ \A op : W(op) \in Nat
    BY <1>6, <1>11 DEF Bit
  <2>5. /\ connected_count = Wrap(D + W("connected_sub") - W("connected_add"))
        /\ outbound_count = Wrap(O + W("outbound_sub") - W("outbound_add"))
        /\ connected_count' = connected_count /\ outbound_count' = outbound_count
    BY DEF Inv, CountersAreExplained, counts
  <2>6. \A b : Bit(b) \in Nat
    BY DEF Bit
  <2> HIDE DEF D, O, W, V
  <2>7. Cardinality(DOMAIN peers') + V("connected_sub") - V("connected_add")
          = D + W("connected_sub") - W("connected_add")
    BY <2>1, <2>2, <2>4, <2>6
  <2>8. Cardinality(Outbound') + V("outbound_sub") - V("outbound_add")
          = O + W("outbound_sub") - W("outbound_add")
    BY <2>1, <2>3, <2>4, <2>6
  <2>9. /\ connected_count' = Wrap(Cardinality(DOMAIN peers') + V("connected_sub") - V("connected_add"))
        /\ outbound_count' = Wrap(Cardinality(Outbound') + V("outbound_sub") - V("outbound_add"))
    BY <2>5, <2>7, <2>8
  <2> QED
    BY <2>9 DEF CountersAreExplained, V
<1>13. IpsAreExplained'
  <2>1. \A ip : /\ \A m : m # n => (m \in PeersOn(ip) <=> m \in PeersOn(ip)')
                /\ n \in PeersOn(ip) <=> Registered(n) /\ Ip[peers[n].addr] = ip
                /\ n \in PeersOn(ip)' <=> Ip[a] = ip
    BY <1>2, <1>3 DEF PeersOn, Registered
  <2>2. UNCHANGED ip_connections /\ \A ip : Connections(ip)' = Connections(ip)
    BY DEF Connections
  <2>3. ASSUME NEW ip \in Ips, AloneOn(t, ip)
        PROVE  IpExplained(t, ip)'
    <3>1. IpExplained(t, ip)
      BY <2>3 DEF Inv, IpsAreExplained
    <3>2. /\ Connections(ip) \in Nat /\ Cardinality(PeersOn(ip)) \in Nat
          /\ Cardinality(PeersOn(ip)') =
               Cardinality(PeersOn(ip)) - Bit(n \in PeersOn(ip)) + Bit(n \in PeersOn(ip)')
      BY <2>1, ConnectionTypes, CardinalityMoves
    <3>3. /\ Connections(ip) = Cardinality(PeersOn(ip))
          /\ ip \in DOMAIN ip_connections <=> Connections(ip) > 0
      BY <1>8, <3>1, <3>2 DEF IpExplained, IpWrites, Bit
    <3>4. /\ HasOn(Plan(t)', "ip_increment", ip) <=> n \in PeersOn(ip)'
          /\ HasOn(Plan(t)', "ip_decrement", ip) <=> n \in PeersOn(ip)
          /\ ~HasOn(Plan(t)', "ip_remove", ip)
      BY <1>6, <1>7, <2>1 DEF Becomes
    <3>5. Connections(ip)' + Bit(HasOn(Plan(t)', "ip_increment", ip))
            = Cardinality(PeersOn(ip)') + Bit(HasOn(Plan(t)', "ip_decrement", ip))
      BY <2>2, <3>2, <3>3, <3>4 DEF Bit
    <3>6. HasOn(Plan(t)', "ip_increment", ip) => PeersOn(ip)' # {}
      BY <3>4
    <3> QED
      BY <2>2, <3>3, <3>4, <3>5, <3>6 DEF IpExplained
  <2>4. ASSUME NEW ip \in Ips, NEW u \in Threads \ {t}, ip \notin raced', ip \in touched[u]
        PROVE  /\ PeersOn(ip)' = PeersOn(ip)
               /\ Connections(ip)' = Connections(ip)
               /\ (ip \in DOMAIN ip_connections') = (ip \in DOMAIN ip_connections)
    <3>1. ip \notin S
      BY <1>10, <2>4
    <3>2. Ip[a] # ip /\ ~(Registered(n) /\ Ip[peers[n].addr] = ip)
      BY <3>1 DEF S, IpsOf
    <3>3. PeersOn(ip)' = PeersOn(ip)
      BY <2>1, <3>2
    <3> QED
      BY <2>2, <3>3
  <2> QED
    BY <1>7, <1>9, <2>3, <2>4, IpsTransfer
<1>14. RoutesAreExplained'
  <2>1. \A m, c : At(m, c)' <=> (m # n /\ At(m, c)) \/ (m = n /\ c = a)
    BY <1>2, <1>3 DEF At
  <2>2. UNCHANGED addr_to_peer /\ raced \subseteq raced'
    BY <1>9 DEF Booked
  <2>3. ASSUME NEW c \in Addrs, Ip[c] \notin raced', c \in DOMAIN addr_to_peer
        PROVE  \/ At(addr_to_peer[c], c)'
               \/ \E u \in Threads : \E x \in Plan(u)' : x.op = "addr_remove" /\ x.addr = c
    <3>1. \/ At(addr_to_peer[c], c)
          \/ \E u \in Threads : \E x \in Plan(u) : x.op = "addr_remove" /\ x.addr = c
      BY <2>2, <2>3 DEF Inv, RoutesAreExplained
    <3>2. CASE At(addr_to_peer[c], c) /\ addr_to_peer[c] # n
      BY <2>1, <2>2, <3>2
    <3>3. CASE At(addr_to_peer[c], c) /\ addr_to_peer[c] = n
      <4>1. Registered(n) /\ peers[n].addr = c
        BY <3>3 DEF At, Registered
      <4>2. [op |-> "addr_remove", addr |-> c] \in Plan(t)'
        BY <1>6, <1>7, <4>1 DEF Becomes
      <4> QED
        BY <4>2
    <3>4. CASE \E u \in Threads : \E x \in Plan(u) : x.op = "addr_remove" /\ x.addr = c
      <4>1. PICK u \in Threads : \E x \in Plan(u) : x.op = "addr_remove" /\ x.addr = c
        BY <3>4
      <4>2. u # t
        BY <4>1
      <4> QED
        BY <1>7, <4>1, <4>2 DEF Becomes
    <3> QED
      BY <3>1, <3>2, <3>3, <3>4
  <2>4. ASSUME NEW c \in Addrs, Ip[c] \notin raced', NEW u \in Threads, NEW x \in Plan(u)',
               x.op = "addr_insert", x.addr = c
        PROVE  At(x.node, c)'
    <3>1. CASE u = t
      BY <1>6, <1>7, <2>1, <2>4, <3>1 DEF Becomes
    <3>2. CASE u # t
      <4>1. x \in Plan(u)
        BY <1>7, <3>2 DEF Becomes
      <4>2. At(x.node, c)
        BY <2>2, <2>4, <4>1 DEF Inv, RoutesAreExplained
      <4>3. x.node \in touched[u] /\ Ip[c] \in touched[u]
        BY <2>4, <4>1 DEF Inv, PlansAreTouched, IsTouched
      <4>4. x.node # n
        BY <1>10, <2>4, <3>2, <4>3 DEF S
      <4> QED
        BY <2>1, <4>2, <4>4
    <3> QED
      BY <3>1, <3>2
  <2> QED
    BY <2>2, <2>3, <2>4 DEF RoutesAreExplained
<1>15. DeadAreClosed'
  <2> SUFFICES ASSUME NEW u \in Threads, NEW x \in Plan(u)', x.op = "peers_remove",
                      x.node \in DOMAIN peers', peers'[x.node].open
               PROVE  Ip[peers'[x.node].addr] \in raced'
    BY DEF DeadAreClosed, Registered, IpsOf
  <2>1. u # t
    BY <1>6, <1>7 DEF Becomes, Has
  <2>2. x \in Plan(u) /\ x.node \in touched[u]
    BY <1>7, <2>1 DEF Becomes, Inv, PlansAreTouched, IsTouched
  <2>3. CASE x.node = n
    BY <1>2, <1>3, <1>10, <2>1, <2>2, <2>3 DEF S
  <2>4. CASE x.node # n
    <3>1. x.node \in DOMAIN peers /\ peers'[x.node] = peers[x.node]
      BY <1>2, <2>4
    <3>2. Ip[peers[x.node].addr] \in raced
      BY <2>2, <3>1 DEF Inv, DeadAreClosed, Registered, IpsOf
    <3> QED
      BY <1>9, <3>1, <3>2 DEF Booked
  <2> QED
    BY <2>3, <2>4
<1>16. AttemptsAreDue'
  BY <1>6, <1>7, <1>9, AttemptsStay DEF Booked, Fresh, Has
<1>17. Admitted' = Admitted
  BY <1>6, <1>7, <1>8 DEF Admitted, Becomes
<1>18. Cardinality(Waiting("connecting_sub")') = Cardinality(Waiting("connecting_sub")) + 1
  BY <1>6, <1>11 DEF Bit
<1> QED
  BY <1>4, <1>9, <1>11, <1>12, <1>13, <1>14, <1>15, <1>16, <1>17, <1>18

\* An accepted peer is registered.
LEMMA RegisterInboundPreservesInv ==
  ASSUME Inv, NEW t \in Threads, RegisterInbound(t)
  PROVE  Inv'
<1>0. PICK n, a, o : n = Arg(t).node /\ a = Arg(t).addr /\ o = Arg(t).outbound
  OBVIOUS
<1>1. /\ todo[t] # <<>> /\ Arg(t).op = "peers_insert"
      /\ Continue(t, RegisterPlan(n, a, o)) /\ PutPeer(t, n, a, o)
      /\ UNCHANGED <<addr_to_peer, ip_connections, last_connect_attempt, counts, dialing, ops>>
  BY <1>0 DEF RegisterInbound, Upcoming, Arg, Continue
<1>2. Plan(t) = {Arg(t)} /\ Rest(t) = {} /\ Arg(t) \in Access
  BY <1>1, AdvanceLeaves
<1>3. n \in Nodes /\ a \in Addrs /\ o \in BOOLEAN
  BY <1>0, <1>1, <1>2 DEF Access
<1>4. Becomes(t, Registering(n, a, o))
  <2>1. IsPlan(RegisterPlan(n, a, o), Registering(n, a, o))
    BY <1>3, PlanRegister DEF Inv
  <2>2. \A x \in Registering(n, a, o), y \in Rest(t) : MayPrecede(x.op, y.op)
    BY <1>2
  <2>3. Becomes(t, Registering(n, a, o) \cup Rest(t))
    BY <1>1, <2>1, <2>2, PlanContinued DEF Inv
  <2>4. Registering(n, a, o) \cup Rest(t) = Registering(n, a, o)
    BY <1>2
  <2> QED
    BY <2>3, <2>4
<1>5. /\ Booked(t) /\ IsMap(peers', Nodes, PeerState)
      /\ CountersAreExplained' /\ IpsAreExplained' /\ RoutesAreExplained'
      /\ DeadAreClosed' /\ AttemptsAreDue'
      /\ Admitted' = Admitted
      /\ Cardinality(Waiting("connecting_sub")) \in Nat
      /\ Cardinality(Waiting("connecting_sub")') = Cardinality(Waiting("connecting_sub")) + 1
  <2>1. \A x \in Plan(t) : x.op = "peers_insert"
    BY <1>1, <1>2
  <2> QED
    BY <1>1, <1>3, <1>4, <2>1, PutPeerKeeps
<1>6. MapsTyped'
  BY <1>1, <1>5 DEF MapsTyped, Inv, TypeOK, counts
<1>7. SlotsAreExplained'
  <2>1. connecting_count <= Weight(Addrs, dialing) + Cardinality(Waiting("connecting_sub")')
    BY <1>5, SlotTypes DEF Inv, SlotsAreExplained
  <2> QED
    BY <1>1, <1>5, <2>1 DEF Inv, SlotsAreExplained, counts
<1> QED
  BY <1>5, <1>6, <1>7, PartsMakeInv

\* A dialled peer is registered: its dial ends, and its slot will be given back.
LEMMA RegisterOutboundPreservesInv ==
  ASSUME Inv, NEW t \in Threads, NEW n \in Nodes, NEW a \in Addrs, RegisterOutbound(t, n, a)
  PROVE  Inv'
<1>1. /\ dialing[a] > 0 /\ dialing' = [dialing EXCEPT ![a] = @ - 1]
      /\ Start(t, RegisterPlan(n, a, TRUE)) /\ PutPeer(t, n, a, TRUE)
      /\ UNCHANGED <<addr_to_peer, ip_connections, last_connect_attempt, counts>>
  BY DEF RegisterOutbound
<1>2. Plan(t) = {} /\ Becomes(t, Registering(n, a, TRUE))
  BY <1>1, PlanRegister, PlanStarted DEF Inv
<1>3. /\ Booked(t) /\ IsMap(peers', Nodes, PeerState)
      /\ CountersAreExplained' /\ IpsAreExplained' /\ RoutesAreExplained'
      /\ DeadAreClosed' /\ AttemptsAreDue'
      /\ Admitted' = Admitted
      /\ Cardinality(Waiting("connecting_sub")) \in Nat
      /\ Cardinality(Waiting("connecting_sub")') = Cardinality(Waiting("connecting_sub")) + 1
  <2>1. \A x \in Plan(t) : x.op = "peers_insert"
    BY <1>2
  <2> QED
    BY <1>1, <1>2, <2>1, PutPeerKeeps
<1>4. /\ dialing' \in [Addrs -> Nat]
      /\ Weight(Addrs, dialing') = Weight(Addrs, dialing) - 1
  <2>1. dialing[a] \in Nat /\ dialing[a] - 1 \in Nat /\ dialing' = [dialing EXCEPT ![a] = dialing[a] - 1]
    BY <1>1 DEF Inv, TypeOK
  <2>2. /\ dialing' \in [Addrs -> Nat]
        /\ Weight(Addrs, dialing') = Weight(Addrs, dialing) - dialing[a] + (dialing[a] - 1)
    BY <2>1, DialsChange
  <2> QED
    BY <2>1, <2>2, SlotTypes
<1>5. MapsTyped'
  BY <1>1, <1>3, <1>4, LimitsAssumption DEF MapsTyped, Inv, TypeOK, counts, Start
<1>6. SlotsAreExplained'
  <2>1. connecting_count <= Weight(Addrs, dialing') + Cardinality(Waiting("connecting_sub")')
    BY <1>3, <1>4, SlotTypes DEF Inv, SlotsAreExplained
  <2> QED
    BY <1>1, <1>3, <2>1 DEF Inv, SlotsAreExplained, counts
<1> QED
  BY <1>3, <1>5, <1>6, PartsMakeInv

\* What remove_peer plans for a registered node, by kind.
LEMMA RemovingKinds ==
  ASSUME Inv, NEW n, Registered(n), NEW A, NEW R, A = Removing(n) \cup R,
         \A x \in R : x.op \in Broadcasts
  PROVE  /\ Has(A, "connected_sub")
         /\ \A op \in {"connecting_add", "connecting_sub", "check_retry", "note_attempt",
                       "connected_add", "outbound_add"} : ~Has(A, op)
         /\ Has(A, "outbound_sub") <=> peers[n].outbound
         /\ \A ip : HasOn(A, "ip_decrement", ip) <=> Ip[peers[n].addr] = ip
         /\ \A ip : ~HasOn(A, "ip_increment", ip) /\ ~HasOn(A, "ip_remove", ip)
         /\ [op |-> "addr_remove", addr |-> peers[n].addr] \in A
         /\ \A x \in A : x.op # "addr_insert" /\ (x.op = "peers_remove" => x \in R)
         /\ \A S : IpsOf(n) \subseteq S => \A x \in A : IsTouched(x, S) \/ x \in R
<1>1. \A x : x \in A <=>
        \/ x = [op |-> "addr_remove", addr |-> peers[n].addr]
        \/ x = [op |-> "ip_decrement", addr |-> peers[n].addr]
        \/ peers[n].outbound /\ x = [op |-> "outbound_sub"]
        \/ x = [op |-> "connected_sub"]
        \/ x \in R
  BY DEF Removing, Unlinking
<1>2. IpsOf(n) = {Ip[peers[n].addr]}
  BY DEF IpsOf
<1>3. \A x \in A :
        /\ x.op \notin {"connecting_add", "connecting_sub", "check_retry", "note_attempt",
                        "connected_add", "outbound_add", "ip_increment", "ip_remove", "addr_insert"}
        /\ x.op = "outbound_sub" => peers[n].outbound
        /\ x.op = "ip_decrement" => x.addr = peers[n].addr
        /\ x.op = "peers_remove" => x \in R
  BY <1>1 DEF Broadcasts
<1>4. \A x \in A : Has(A, x.op) /\ HasOn(A, x.op, Ip[x.addr])
  BY DEF Has, HasOn
<1>5. \A S : IpsOf(n) \subseteq S => \A x \in A : IsTouched(x, S) \/ x \in R
  BY <1>1, <1>2 DEF IsTouched, Dials, IpWrites
<1>6. Has(A, "connected_sub")
  <2>1. [op |-> "connected_sub"] \in A /\ [op |-> "connected_sub"].op = "connected_sub"
    BY <1>1
  <2> QED
    BY <1>4, <2>1
<1>7. Has(A, "outbound_sub") <=> peers[n].outbound
  <2>1. /\ [op |-> "outbound_sub"].op = "outbound_sub"
        /\ peers[n].outbound => [op |-> "outbound_sub"] \in A
    BY <1>1
  <2> QED
    BY <1>3, <1>4, <2>1 DEF Has
<1>8. \A ip : HasOn(A, "ip_decrement", ip) <=> Ip[peers[n].addr] = ip
  <2> DEFINE y == [op |-> "ip_decrement", addr |-> peers[n].addr]
  <2>1. y.op = "ip_decrement" /\ y.addr = peers[n].addr /\ y \in A
    BY <1>1
  <2> HIDE DEF y
  <2> QED
    BY <1>3, <1>4, <2>1 DEF HasOn
<1>9. /\ \A op \in {"connecting_add", "connecting_sub", "check_retry", "note_attempt",
                    "connected_add", "outbound_add"} : ~Has(A, op)
      /\ \A ip : ~HasOn(A, "ip_increment", ip) /\ ~HasOn(A, "ip_remove", ip)
  BY <1>3 DEF Has, HasOn
<1> QED
  BY <1>1, <1>3, <1>5, <1>6, <1>7, <1>8, <1>9

\* The first access of remove_peer, from a thread that has only the rest R of a
\* broadcast before it.
LEMMA DropPeerPreservesInv ==
  ASSUME Inv, NEW t \in Threads, NEW n \in Nodes, NEW R \in SUBSET Plan(t),
         \A x \in Plan(t) : x.op \in Broadcasts, Becomes(t, Removing(n) \cup R),
         DropPeer(t, n), ops' \in 0..MaxOps,
         UNCHANGED <<addr_to_peer, ip_connections, last_connect_attempt, counts, dialing>>
  PROVE  Inv'
<1> DEFINE A == Removing(n) \cup R
           S == {n} \cup IpsOf(n)
<1>1. peers' = Drop(peers, {n}) /\ Touch(t, S)
  BY DEF DropPeer
<1>2. /\ DOMAIN peers' = DOMAIN peers \ {n}
      /\ \A m \in DOMAIN peers' : peers'[m] = peers[m]
  BY <1>1 DEF Drop
<1>3. MapsTyped'
  <2>1. IsMap(peers', Nodes, PeerState)
    BY <1>1 DEF Inv, TypeOK, IsMap, Drop
  <2> QED
    BY <2>1 DEF MapsTyped, Inv, TypeOK, counts
<1>4. S \in SUBSET (Nodes \cup Ips)
  BY AddrsAssumption, PeerFields DEF IpsOf, Inv
<1>5. Becomes(t, A) /\ \A x \in R : x.op \in Broadcasts
  OBVIOUS
<1>6. /\ \A op : op \notin Broadcasts => ~Has(Plan(t), op)
      /\ \A op \in IpWrites : \A ip : ~HasOn(Plan(t), op, ip)
  BY DEF Has, HasOn, IpWrites, Broadcasts
<1>7. \A x \in R : IsTouched(x, S \cup touched[t])
  <2>1. \A x \in R : IsTouched(x, touched[t])
    BY DEF Inv, PlansAreTouched
  <2>2. touched[t] \subseteq S \cup touched[t]
    OBVIOUS
  <2> HIDE DEF S
  <2> QED
    BY <2>1, <2>2 DEF IsTouched
\* A thread that has touched the node or its IP is a rival.
<1>8. ASSUME NEW u \in Threads \ {t}, touched[u] \cap S # {}
      PROVE  S \cup touched[u] \subseteq raced'
  BY <1>1, <1>8, RivalsAreMarked
<1>9. CASE ~Registered(n)
  <2>1. UNCHANGED peers
    BY <1>1, <1>9 DEF Drop, Registered, Inv, TypeOK, IsMap
  <2>2. A = R
    BY <1>9 DEF Removing
  <2>3. SameAddr(R)
    BY <1>5 DEF SameAddr, Broadcasts
  <2>4. Becomes(t, R) /\ Booked(t)
    BY <1>1, <1>4, <1>5, <1>7, <2>2, <2>3, StepIsBooked
  <2>5. /\ Alike(R, Plan(t), CounterKinds) /\ Alike(R, Plan(t), IpWrites)
        /\ Alike(R, Plan(t), RouteKinds)
        /\ ~Has(R, "connecting_add") /\ ~Has(Plan(t), "connecting_sub")
        /\ \A x \in R : x.op # "note_attempt"
    BY DEF Alike, Has, CounterKinds, IpWrites, RouteKinds, Broadcasts
  <2>6. /\ IpsAreExplained' /\ RoutesAreExplained' /\ DeadAreClosed'
        /\ DOMAIN peers' = DOMAIN peers /\ Outbound' = Outbound
    BY <2>1, <2>4, <2>5, QuietStep
  <2>7. CountersAreExplained'
    BY <2>4, <2>5, <2>6, CountersStay DEF counts
  <2>8. SlotsAreExplained'
    BY <2>4, <2>5, SlotsStay DEF counts
  <2>9. AttemptsAreDue'
    BY <2>4, <2>5, AttemptsStay DEF Fresh, Booked
  <2> QED
    BY <1>3, <2>4, <2>6, <2>7, <2>8, <2>9, PartsMakeInv
<1>10. CASE Registered(n)
  <2>1. /\ Has(A, "connected_sub")
        /\ \A op \in {"connecting_add", "connecting_sub", "check_retry", "note_attempt",
                      "connected_add", "outbound_add"} : ~Has(A, op)
        /\ Has(A, "outbound_sub") <=> peers[n].outbound
        /\ \A ip : HasOn(A, "ip_decrement", ip) <=> Ip[peers[n].addr] = ip
        /\ \A ip : ~HasOn(A, "ip_increment", ip) /\ ~HasOn(A, "ip_remove", ip)
        /\ [op |-> "addr_remove", addr |-> peers[n].addr] \in A
        /\ \A x \in A : x.op # "addr_insert" /\ (x.op = "peers_remove" => x \in R)
        /\ \A Q : IpsOf(n) \subseteq Q => \A x \in A : IsTouched(x, Q) \/ x \in R
    BY <1>5, <1>10, RemovingKinds
  <2> HIDE DEF A
  <2>2. Booked(t)
    <3>1. SameAddr(A)
      BY <2>1 DEF SameAddr, Has
    <3>2. IpsOf(n) \subseteq S \cup touched[t]
      OBVIOUS
    <3>3. \A x \in A : IsTouched(x, S \cup touched[t])
      BY <1>7, <2>1, <3>2
    <3> QED
      BY <1>1, <1>4, <1>5, <3>1, <3>3, StepIsBooked
  <2> HIDE DEF S
  <2>3. \A op : /\ Cardinality(Waiting(op)) \in Nat /\ Cardinality(Waiting(op)') \in Nat
                /\ op \notin Broadcasts =>
                     Cardinality(Waiting(op)') = Cardinality(Waiting(op)) + Bit(Has(A, op))
    <3> TAKE op
    <3>1. /\ Cardinality(Waiting(op)) \in Nat /\ Cardinality(Waiting(op)') \in Nat
          /\ Cardinality(Waiting(op)') =
               Cardinality(Waiting(op)) - Bit(Has(Plan(t), op)) + Bit(Has(A, op))
      BY <1>5, WaitingChanges
    <3> QED
      BY <1>6, <3>1 DEF Bit
  <2>4. CountersAreExplained'
    <3> DEFINE D == Cardinality(DOMAIN peers)
               O == Cardinality(Outbound)
               W(op) == Cardinality(Waiting(op))
               V(op) == Cardinality(Waiting(op)')
    <3>1. D \in Nat /\ O \in Nat /\ IsFiniteSet(DOMAIN peers) /\ IsFiniteSet(Outbound)
      BY PeersFinite DEF Inv
    <3>2. Cardinality(DOMAIN peers') = D - 1
      BY <1>2, <1>10, <3>1, FS_RemoveElement DEF Registered
    <3>3. Cardinality(Outbound') = O - Bit(peers[n].outbound)
      <4>1. /\ \A m : m # n => (m \in Outbound <=> m \in Outbound')
            /\ n \in Outbound <=> peers[n].outbound
            /\ n \notin Outbound'
        BY <1>2, <1>10 DEF Outbound, Registered
      <4>2. Cardinality(Outbound') = O - Bit(n \in Outbound) + Bit(n \in Outbound')
        BY <3>1, <4>1, CardinalityMoves
      <4> QED
        BY <3>1, <4>1, <4>2 DEF Bit
    <3>4. /\ V("connected_sub") = W("connected_sub") + 1
          /\ V("connected_add") = W("connected_add")
          /\ V("outbound_sub") = W("outbound_sub") + Bit(peers[n].outbound)
          /\ V("outbound_add") = W("outbound_add")
          /\ \A op : W(op) \in Nat
      BY <2>1, <2>3 DEF Bit, Broadcasts
    <3>5. /\ connected_count = Wrap(D + W("connected_sub") - W("connected_add"))
          /\ outbound_count = Wrap(O + W("outbound_sub") - W("outbound_add"))
          /\ connected_count' = connected_count /\ outbound_count' = outbound_count
      BY DEF Inv, CountersAreExplained, counts
    <3>6. \A b : Bit(b) \in Nat
      BY DEF Bit
    <3> HIDE DEF D, O, W, V
    <3>7. Cardinality(DOMAIN peers') + V("connected_sub") - V("connected_add")
            = D + W("connected_sub") - W("connected_add")
      BY <3>1, <3>2, <3>4, <3>6
    <3>8. Cardinality(Outbound') + V("outbound_sub") - V("outbound_add")
            = O + W("outbound_sub") - W("outbound_add")
      BY <3>1, <3>3, <3>4, <3>6
    <3>9. /\ connected_count' = Wrap(Cardinality(DOMAIN peers') + V("connected_sub") - V("connected_add"))
          /\ outbound_count' = Wrap(Cardinality(Outbound') + V("outbound_sub") - V("outbound_add"))
      BY <3>5, <3>7, <3>8
    <3> QED
      BY <3>9 DEF CountersAreExplained, V
  <2>5. IpsAreExplained'
    <3>1. \A ip : /\ \A m : m # n => (m \in PeersOn(ip) <=> m \in PeersOn(ip)')
                  /\ n \in PeersOn(ip) <=> Ip[peers[n].addr] = ip
                  /\ n \notin PeersOn(ip)'
      BY <1>2, <1>10 DEF PeersOn, Registered
    <3>2. UNCHANGED ip_connections /\ \A ip : Connections(ip)' = Connections(ip)
      BY DEF Connections
    <3>3. ASSUME NEW ip \in Ips, AloneOn(t, ip)
          PROVE  IpExplained(t, ip)'
      <4>1. IpExplained(t, ip)
        BY <3>3 DEF Inv, IpsAreExplained
      <4>2. /\ Connections(ip) \in Nat /\ Cardinality(PeersOn(ip)) \in Nat
            /\ Cardinality(PeersOn(ip)') =
                 Cardinality(PeersOn(ip)) - Bit(n \in PeersOn(ip)) + Bit(n \in PeersOn(ip)')
        BY <3>1, ConnectionTypes, CardinalityMoves
      <4>3. /\ Connections(ip) = Cardinality(PeersOn(ip))
            /\ ip \in DOMAIN ip_connections <=> Connections(ip) > 0
        BY <1>6, <4>1, <4>2 DEF IpExplained, IpWrites, Bit
      <4>4. /\ ~HasOn(Plan(t)', "ip_increment", ip)
            /\ HasOn(Plan(t)', "ip_decrement", ip) <=> n \in PeersOn(ip)
            /\ ~HasOn(Plan(t)', "ip_remove", ip)
        BY <1>5, <2>1, <3>1 DEF Becomes
      <4>5. Connections(ip)' + Bit(HasOn(Plan(t)', "ip_increment", ip))
              = Cardinality(PeersOn(ip)') + Bit(HasOn(Plan(t)', "ip_decrement", ip))
        BY <3>1, <3>2, <4>2, <4>3, <4>4 DEF Bit
      <4> QED
        BY <3>2, <4>3, <4>4, <4>5 DEF IpExplained
    <3>4. ASSUME NEW ip \in Ips, NEW u \in Threads \ {t}, ip \notin raced', ip \in touched[u]
          PROVE  /\ PeersOn(ip)' = PeersOn(ip)
                 /\ Connections(ip)' = Connections(ip)
                 /\ (ip \in DOMAIN ip_connections') = (ip \in DOMAIN ip_connections)
      <4>1. ip \notin S
        BY <1>8, <3>4
      <4>2. Ip[peers[n].addr] # ip
        BY <1>10, <4>1 DEF S, IpsOf
      <4>3. PeersOn(ip)' = PeersOn(ip)
        <5>1. \A m : m \in PeersOn(ip)' <=> m \in PeersOn(ip)
          BY <3>1, <4>2
        <5> QED
          BY <5>1 DEF PeersOn
      <4> QED
        BY <3>2, <4>3
    <3> QED
      BY <1>5, <2>2, <3>3, <3>4, IpsTransfer
  <2>6. RoutesAreExplained'
    <3>1. \A m, c : At(m, c)' <=> m # n /\ At(m, c)
      BY <1>2 DEF At
    <3>2. UNCHANGED addr_to_peer /\ raced \subseteq raced'
      BY <2>2 DEF Booked
    <3>3. ASSUME NEW c \in Addrs, Ip[c] \notin raced', c \in DOMAIN addr_to_peer
          PROVE  \/ At(addr_to_peer[c], c)'
                 \/ \E u \in Threads : \E x \in Plan(u)' : x.op = "addr_remove" /\ x.addr = c
      <4>1. \/ At(addr_to_peer[c], c)
            \/ \E u \in Threads : \E x \in Plan(u) : x.op = "addr_remove" /\ x.addr = c
        BY <3>2, <3>3 DEF Inv, RoutesAreExplained
      <4>2. CASE At(addr_to_peer[c], c) /\ addr_to_peer[c] # n
        BY <3>1, <3>2, <4>2
      <4>3. CASE At(addr_to_peer[c], c) /\ addr_to_peer[c] = n
        <5>1. peers[n].addr = c
          BY <4>3 DEF At
        <5>2. [op |-> "addr_remove", addr |-> c] \in Plan(t)'
          BY <1>5, <2>1, <5>1 DEF Becomes
        <5> QED
          BY <5>2
      <4>4. CASE \E u \in Threads : \E x \in Plan(u) : x.op = "addr_remove" /\ x.addr = c
        <5>1. PICK u \in Threads : \E x \in Plan(u) : x.op = "addr_remove" /\ x.addr = c
          BY <4>4
        <5>2. u # t
          BY <5>1 DEF Broadcasts
        <5> QED
          BY <1>5, <5>1, <5>2 DEF Becomes
      <4> QED
        BY <4>1, <4>2, <4>3, <4>4
    <3>4. ASSUME NEW c \in Addrs, Ip[c] \notin raced', NEW u \in Threads, NEW x \in Plan(u)',
                 x.op = "addr_insert", x.addr = c
          PROVE  At(x.node, c)'
      <4>1. u # t
        BY <1>5, <2>1, <3>4 DEF Becomes
      <4>2. x \in Plan(u)
        BY <1>5, <4>1 DEF Becomes
      <4>3. At(x.node, c)
        BY <3>2, <3>4, <4>2 DEF Inv, RoutesAreExplained
      <4>4. x.node \in touched[u] /\ Ip[c] \in touched[u]
        BY <3>4, <4>2 DEF Inv, PlansAreTouched, IsTouched
      <4>5. x.node # n
        BY <1>8, <3>4, <4>1, <4>4 DEF S
      <4> QED
        BY <3>1, <4>3, <4>5
    <3> QED
      BY <3>2, <3>3, <3>4 DEF RoutesAreExplained
  <2>7. DeadAreClosed'
    BY <1>2, <1>5, <2>1, <2>2, DeadStay DEF Booked
  <2>8. AttemptsAreDue'
    BY <1>5, <2>1, <2>2, AttemptsStay DEF Booked, Fresh, Has
  <2>9. SlotsAreExplained'
    BY <1>5, <1>6, <2>1, SlotsStay DEF counts, Broadcasts
  <2> QED
    BY <1>3, <2>2, <2>4, <2>5, <2>6, <2>7, <2>8, <2>9, PartsMakeInv
<1> QED
  BY <1>9, <1>10

\* remove_peer starts.
LEMMA RemovePeerPreservesInv ==
  ASSUME Inv, NEW t \in Threads, NEW n \in Nodes, RemovePeer(t, n)
  PROVE  Inv'
<1>1. /\ Start(t, RemovalPlan(n)) /\ DropPeer(t, n)
      /\ UNCHANGED <<addr_to_peer, ip_connections, last_connect_attempt, counts, dialing>>
  BY DEF RemovePeer
<1>2. Plan(t) = {} /\ Becomes(t, Removing(n))
  BY <1>1, PlanRemove, PlanStarted DEF Inv
<1>3. ops' \in 0..MaxOps
  BY <1>1, LimitsAssumption DEF Start, Inv, TypeOK
<1>4. Becomes(t, Removing(n) \cup {})
  <2>1. Removing(n) \cup {} = Removing(n)
    OBVIOUS
  <2> QED
    BY <1>2, <2>1
<1>5. {} \in SUBSET Plan(t) /\ \A x \in Plan(t) : x.op \in Broadcasts
  BY <1>2
<1> QED
  BY <1>1, <1>3, <1>4, <1>5, DropPeerPreservesInv

\* What a broadcast still has to do is to probe and to remove.
LEMMA BroadcastAhead ==
  ASSUME Inv, NEW t \in Threads, todo[t] # <<>>, Arg(t).op \in Broadcasts
  PROVE  /\ Arg(t).node \in Nodes /\ Arg(t) \in Plan(t) /\ Rest(t) \in SUBSET Plan(t)
         /\ \A x \in Plan(t) : x.op \in Broadcasts
         /\ IsPlan(Tail(todo[t]), Rest(t))
<1>1. /\ Plan(t) = {Arg(t)} \cup Rest(t) /\ Arg(t) \in Access
      /\ \A y \in Rest(t) : MayPrecede(Arg(t).op, y.op)
  BY AdvanceLeaves
<1>2. Arg(t).node \in Nodes
  BY <1>1 DEF Access, Broadcasts
<1>3. \A x \in Plan(t) : x.op \in Broadcasts
  BY <1>1 DEF MayPrecede
<1>4. IsPlan(Tail(todo[t]), Rest(t))
  BY RestOfPlan DEF Inv
<1> QED
  BY <1>1, <1>2, <1>3, <1>4

\* broadcast removes a peer it has noted.
LEMMA RemoveDeadPreservesInv ==
  ASSUME Inv, NEW t \in Threads, RemoveDead(t)
  PROVE  Inv'
<1>0. PICK n : n = Arg(t).node
  OBVIOUS
<1>1. /\ todo[t] # <<>> /\ Arg(t).op = "peers_remove"
      /\ Continue(t, RemovalPlan(n)) /\ DropPeer(t, n)
      /\ UNCHANGED <<addr_to_peer, ip_connections, last_connect_attempt, counts, dialing, ops>>
  BY <1>0 DEF RemoveDead, Upcoming, Arg, Continue
<1>2. /\ n \in Nodes /\ Rest(t) \in SUBSET Plan(t) /\ \A x \in Plan(t) : x.op \in Broadcasts
  BY <1>0, <1>1, BroadcastAhead DEF Broadcasts
<1>3. Becomes(t, Removing(n) \cup Rest(t))
  <2>1. IsPlan(RemovalPlan(n), Removing(n))
    BY <1>2, PlanRemove DEF Inv
  <2>2. \A x \in Removing(n), y \in Rest(t) : MayPrecede(x.op, y.op)
    <3>1. \A x \in Removing(n) : x.op \in {"addr_remove", "ip_decrement", "outbound_sub", "connected_sub"}
      BY DEF Removing, Unlinking
    <3> QED
      BY <1>2, <3>1 DEF MayPrecede, Checks, Broadcasts, IpWrites
  <2> QED
    BY <1>1, <2>1, <2>2, PlanContinued DEF Inv
<1>4. ops' \in 0..MaxOps
  BY <1>1 DEF Inv, TypeOK
<1> QED
  BY <1>1, <1>2, <1>3, <1>4, DropPeerPreservesInv
-----------------------------------------------------------------------------
(******************************** Messages *********************************)

\* broadcast starts its walk.
LEMMA BroadcastPreservesInv ==
  ASSUME Inv, NEW t \in Threads, NEW walk \in Walks, Broadcast(t, walk)
  PROVE  Inv'
<1> DEFINE s == [i \in DOMAIN walk |-> [op |-> "peers_probe", node |-> walk[i]]]
           A == Accesses(s)
<1>1. IsPlan(s, A) /\ \A x \in A : x.op = "peers_probe"
  <2>1. Cardinality(Nodes) \in Nat /\ walk \in [1..Cardinality(Nodes) -> Nodes]
    BY AddrsAssumption, FS_CardinalityType DEF Walks
  <2> DEFINE N == Cardinality(Nodes)
  <2>2. s \in [1..N -> Access] /\ \A i \in 1..N : s[i].op = "peers_probe"
    BY <2>1, KindsOfAccess
  <2>3. s \in Seq(Access) /\ Len(s) = N
    BY <2>1, <2>2
  <2> HIDE DEF s, N
  <2>4. \A x \in A : x.op = "peers_probe"
    BY <2>2, <2>3 DEF Accesses
  <2>5. Ordered(s)
    BY <2>2, <2>3 DEF Ordered, MayPrecede, Checks, Broadcasts, IpWrites
  <2> QED
    BY <2>3, <2>4, <2>5 DEF IsPlan
<1>2. Start(t, s) /\ Touch(t, {}) /\ UNCHANGED <<maps, counts, dialing>>
  BY DEF Broadcast
<1> HIDE DEF s, A
<1>3. Plan(t) = {} /\ Becomes(t, A)
  BY <1>1, <1>2, PlanStarted DEF Inv
<1>4. SameAddr(A) /\ \A x \in A : IsTouched(x, {} \cup touched[t])
  BY <1>1 DEF SameAddr, IsTouched, Dials, IpWrites
<1>5. Booked(t)
  BY <1>2, <1>3, <1>4, StepIsBooked
<1>6. /\ Alike(A, Plan(t), CounterKinds) /\ Alike(A, Plan(t), IpWrites)
      /\ Alike(A, Plan(t), RouteKinds)
      /\ ~Has(A, "connecting_add") /\ ~Has(Plan(t), "connecting_sub")
      /\ \A z \in A : z.op \notin {"peers_remove", "note_attempt"}
  BY <1>1, <1>3 DEF Alike, Has, CounterKinds, IpWrites, RouteKinds
<1>7. ops' \in 0..MaxOps
  BY <1>2, LimitsAssumption DEF Start, Inv, TypeOK
<1>8. MapsTyped'
  BY <1>2, <1>7 DEF MapsTyped, Inv, TypeOK, maps, counts
<1>9. /\ IpsAreExplained' /\ RoutesAreExplained' /\ DeadAreClosed'
      /\ DOMAIN peers' = DOMAIN peers /\ Outbound' = Outbound
  BY <1>2, <1>3, <1>5, <1>6, QuietStep DEF maps
<1>10. CountersAreExplained'
  BY <1>2, <1>3, <1>6, <1>9, CountersStay DEF counts
<1>11. SlotsAreExplained'
  BY <1>2, <1>3, <1>6, SlotsStay DEF counts
<1>12. AttemptsAreDue'
  BY <1>2, <1>3, <1>5, <1>6, AttemptsStay DEF maps, Fresh, Booked
<1> QED
  BY <1>5, <1>8, <1>9, <1>10, <1>11, <1>12, PartsMakeInv

\* A peer is noted for removal while its channel is closed.
LEMMA ProbePreservesInv ==
  ASSUME Inv, NEW t \in Threads, Probe(t)
  PROVE  Inv'
<1>0. PICK n, dead : n = Arg(t).node /\ dead = (Registered(n) /\ ~peers[n].open)
  OBVIOUS
<1> DEFINE S == IF dead THEN {n} \cup IpsOf(n) ELSE {}
           x == [op |-> "peers_remove", node |-> n]
           N == IF dead THEN {x} ELSE {}
           A == Rest(t) \cup N
<1>1. /\ todo[t] # <<>> /\ Arg(t).op = "peers_probe"
      /\ todo' = [todo EXCEPT ![t] = Tail(todo[t]) \o When(dead, DoFor("peers_remove", n))]
      /\ Touch(t, S) /\ UNCHANGED <<maps, counts, dialing, ops>>
  BY <1>0 DEF Probe, Upcoming, Arg
<1>2. /\ n \in Nodes /\ Rest(t) \in SUBSET Plan(t) /\ \A y \in Plan(t) : y.op \in Broadcasts
      /\ IsPlan(Tail(todo[t]), Rest(t)) /\ dead \in BOOLEAN
  BY <1>0, <1>1, BroadcastAhead DEF Broadcasts
<1>3. IsPlan(When(dead, DoFor("peers_remove", n)), N)
  <2>1. IsPlan(DoFor("peers_remove", n), {x})
    BY <1>2, KindsOfAccess, PlanOfOne DEF DoFor, IsPlan
  <2> QED
    BY <1>2, <2>1, PlanWhen
<1>4. \A y \in Rest(t), z \in N : MayPrecede(y.op, z.op)
  BY <1>2 DEF MayPrecede, Checks, Broadcasts, IpWrites
<1>5. Becomes(t, A)
  <2>1. IsPlan(Tail(todo[t]) \o When(dead, DoFor("peers_remove", n)), A)
    BY <1>2, <1>3, <1>4, PlanJoin
  <2> HIDE DEF A
  <2> QED
    BY <1>1, <2>1, PlanReplaced DEF Inv
<1>6. S \in SUBSET (Nodes \cup Ips)
  BY <1>0, <1>2, AddrsAssumption, PeerFields DEF IpsOf, Inv
<1>7. /\ \A y \in A : y.op \in Broadcasts /\ IsTouched(y, S \cup touched[t])
      /\ SameAddr(A)
  <2>1. \A y \in Rest(t) : IsTouched(y, touched[t])
    BY <1>2 DEF Inv, PlansAreTouched
  <2>2. \A y \in Rest(t) : IsTouched(y, S \cup touched[t])
    BY <2>1 DEF IsTouched
  <2>3. \A y \in N : IsTouched(y, S \cup touched[t]) /\ y.op \in Broadcasts
    BY DEF IsTouched, Dials, IpWrites, Broadcasts
  <2> QED
    BY <1>2, <2>2, <2>3 DEF SameAddr, Broadcasts
<1>8. \A y \in A : y \in Plan(t) \/ (dead /\ y.node = n)
  BY <1>2
<1> HIDE DEF A, N, S, x
<1>9. Booked(t) /\ raced \subseteq raced'
  BY <1>1, <1>5, <1>6, <1>7, StepIsBooked DEF Booked
<1>10. /\ Alike(A, Plan(t), CounterKinds) /\ Alike(A, Plan(t), IpWrites)
       /\ Alike(A, Plan(t), RouteKinds)
       /\ ~Has(A, "connecting_add") /\ ~Has(Plan(t), "connecting_sub")
       /\ \A z \in A : z.op # "note_attempt"
  BY <1>2, <1>7 DEF Alike, Has, CounterKinds, IpWrites, RouteKinds, Broadcasts
<1>11. MapsTyped'
  BY <1>1 DEF MapsTyped, Inv, TypeOK, maps, counts
<1>12. /\ Outbound' = Outbound /\ \A ip \in Ips : PeersOn(ip)' = PeersOn(ip)
       /\ \A m, a : At(m, a)' = At(m, a)
  BY <1>1 DEF Outbound, PeersOn, At, maps
<1>13. IpsAreExplained'
  BY <1>1, <1>5, <1>9, <1>10, <1>12, IpsStay DEF maps
<1>14. RoutesAreExplained'
  BY <1>1, <1>5, <1>9, <1>10, <1>12, RoutesStay DEF maps
<1>15. CountersAreExplained'
  BY <1>1, <1>5, <1>10, <1>12, CountersStay DEF counts, maps
<1>16. SlotsAreExplained'
  BY <1>1, <1>5, <1>10, SlotsStay DEF counts
<1>17. AttemptsAreDue'
  BY <1>1, <1>5, <1>9, <1>10, AttemptsStay DEF maps, Fresh
<1>18. DeadAreClosed'
  <2> SUFFICES ASSUME NEW u \in Threads, NEW y \in Plan(u)', y.op = "peers_remove",
                      y.node \in DOMAIN peers, peers[y.node].open
               PROVE  Ip[peers[y.node].addr] \in raced'
    BY <1>1 DEF DeadAreClosed, Registered, IpsOf, maps
  <2>1. y \in Plan(u)
    BY <1>0, <1>5, <1>8 DEF Becomes, Registered
  <2> QED
    BY <1>9, <2>1 DEF Inv, DeadAreClosed, Registered, IpsOf
<1> QED
  BY <1>9, <1>11, <1>13, <1>14, <1>15, <1>16, <1>17, <1>18, PartsMakeInv

\* A step that changes no plan and neither a peer's address nor its direction.
LEMMA PeersUpdated ==
  ASSUME Inv, UNCHANGED <<todo, history, addr_to_peer, ip_connections, counts, dialing>>,
         DOMAIN peers' = DOMAIN peers, IsMap(peers', Nodes, PeerState), ops' \in 0..MaxOps,
         \A n \in DOMAIN peers : /\ peers'[n].addr = peers[n].addr
                                 /\ peers'[n].outbound = peers[n].outbound
                                 /\ peers'[n].open => peers[n].open,
         IsMap(last_connect_attempt', Addrs, Ages), \A a : Fresh(a)' => Fresh(a)
  PROVE  Inv'
<1>1. PICK t \in Threads : TRUE
  BY AddrsAssumption
<1>2. Becomes(t, Plan(t)) /\ Booked(t) /\ raced \subseteq raced'
  BY RestIsBooked DEF Booked
<1>3. \A kinds : Alike(Plan(t), Plan(t), kinds)
  BY DEF Alike
<1>4. Outbound' = Outbound /\ \A ip \in Ips : PeersOn(ip)' = PeersOn(ip)
  BY DEF Outbound, PeersOn
<1>5. \A n, a : At(n, a)' = At(n, a)
  BY DEF At
<1>6. MapsTyped'
  BY DEF MapsTyped, Inv, TypeOK, counts
<1>7. IpsAreExplained'
  BY <1>2, <1>3, <1>4, IpsStay
<1>8. RoutesAreExplained'
  BY <1>2, <1>3, <1>5, RoutesStay
<1>9. CountersAreExplained'
  BY <1>2, <1>3, <1>4, CountersStay DEF counts
<1>10. SlotsAreExplained'
  BY <1>2, SlotsStay DEF counts, Admitted
<1>11. DeadAreClosed'
  BY <1>2, DeadStay
<1>12. AttemptsAreDue'
  BY <1>2, AttemptsStay
<1> QED
  BY <1>2, <1>6, <1>7, <1>8, <1>9, <1>10, <1>11, <1>12, PartsMakeInv

\* An operation of a single access is over when it has started.
LEMMA OverAtOnce ==
  ASSUME Inv, NEW t \in Threads, Start(t, <<>>)
  PROVE  UNCHANGED todo /\ ops' \in 0..MaxOps
BY LimitsAssumption DEF Inv, TypeOK, Start, Idle

\* send_to counts a message.
LEMMA SendToPreservesInv ==
  ASSUME Inv, NEW t \in Threads, NEW n \in Nodes, NEW elapsed \in BOOLEAN, SendTo(t, n, elapsed)
  PROVE  Inv'
<1> DEFINE sent == IF elapsed THEN 0 ELSE peers[n].msg_count
           k == IF sent < RATE_LIMIT_PER_SEC THEN sent + 1 ELSE sent
<1>1. /\ Registered(n) /\ peers' = [peers EXCEPT ![n].msg_count = k] /\ Start(t, <<>>)
      /\ UNCHANGED <<addr_to_peer, ip_connections, last_connect_attempt, counts, dialing, history>>
  BY DEF SendTo
<1>2. n \in DOMAIN peers /\ peers[n] \in PeerState /\ peers \in [DOMAIN peers -> PeerState]
      /\ DOMAIN peers \subseteq Nodes
  BY <1>1 DEF Registered, Inv, TypeOK, IsMap
<1>3. k \in Nat
  <2>1. peers[n].msg_count \in Nat /\ RATE_LIMIT_PER_SEC \in Nat
    BY <1>2, LimitsAssumption DEF PeerState
  <2> QED
    BY <2>1
<1> HIDE DEF k
<1>4. /\ DOMAIN peers' = DOMAIN peers /\ IsMap(peers', Nodes, PeerState)
      /\ \A m \in DOMAIN peers : /\ peers'[m].addr = peers[m].addr
                                 /\ peers'[m].outbound = peers[m].outbound
                                 /\ peers'[m].open => peers[m].open
  <2>1. [peers[n] EXCEPT !.msg_count = k] \in PeerState
    BY <1>2, <1>3 DEF PeerState
  <2>2. /\ DOMAIN peers' = DOMAIN peers /\ peers'[n] = [peers[n] EXCEPT !.msg_count = k]
        /\ \A m \in DOMAIN peers \ {n} : peers'[m] = peers[m]
        /\ peers' \in [DOMAIN peers -> PeerState]
    BY <1>1, <1>2, <2>1
  <2>3. /\ peers'[n].addr = peers[n].addr /\ peers'[n].outbound = peers[n].outbound
        /\ peers'[n].open = peers[n].open
    BY <1>2, <2>2 DEF PeerState
  <2> QED
    BY <1>2, <2>2, <2>3 DEF IsMap
<1>5. UNCHANGED todo /\ ops' \in 0..MaxOps
  BY <1>1, OverAtOnce
<1>6. IsMap(last_connect_attempt', Addrs, Ages) /\ \A a : Fresh(a)' => Fresh(a)
  BY <1>1 DEF Inv, TypeOK, Fresh
<1> QED
  BY <1>1, <1>4, <1>5, <1>6, PeersUpdated

\* A greater height is noted.
LEMMA UpdatePeerHeightPreservesInv ==
  ASSUME Inv, NEW t \in Threads, NEW n \in Nodes, NEW h \in ReportedHeights,
         UpdatePeerHeight(t, n, h)
  PROVE  Inv'
<1>1. /\ Registered(n) /\ peers' = [peers EXCEPT ![n].peer_height = h] /\ Start(t, <<>>)
      /\ UNCHANGED <<addr_to_peer, ip_connections, last_connect_attempt, counts, dialing, history>>
  BY DEF UpdatePeerHeight
<1>2. n \in DOMAIN peers /\ peers[n] \in PeerState /\ peers \in [DOMAIN peers -> PeerState]
      /\ DOMAIN peers \subseteq Nodes /\ h \in Nat
  BY <1>1, LimitsAssumption DEF Registered, Inv, TypeOK, IsMap
<1>3. /\ DOMAIN peers' = DOMAIN peers /\ IsMap(peers', Nodes, PeerState)
      /\ \A m \in DOMAIN peers : /\ peers'[m].addr = peers[m].addr
                                 /\ peers'[m].outbound = peers[m].outbound
                                 /\ peers'[m].open => peers[m].open
  <2>1. [peers[n] EXCEPT !.peer_height = h] \in PeerState
    BY <1>2 DEF PeerState
  <2>2. /\ DOMAIN peers' = DOMAIN peers /\ peers'[n] = [peers[n] EXCEPT !.peer_height = h]
        /\ \A m \in DOMAIN peers \ {n} : peers'[m] = peers[m]
        /\ peers' \in [DOMAIN peers -> PeerState]
    BY <1>1, <1>2, <2>1
  <2>3. /\ peers'[n].addr = peers[n].addr /\ peers'[n].outbound = peers[n].outbound
        /\ peers'[n].open = peers[n].open
    BY <1>2, <2>2 DEF PeerState
  <2> QED
    BY <1>2, <2>2, <2>3 DEF IsMap
<1>4. UNCHANGED todo /\ ops' \in 0..MaxOps
  BY <1>1, OverAtOnce
<1>5. IsMap(last_connect_attempt', Addrs, Ages) /\ \A a : Fresh(a)' => Fresh(a)
  BY <1>1 DEF Inv, TypeOK, Fresh
<1> QED
  BY <1>1, <1>3, <1>4, <1>5, PeersUpdated

\* A channel closes.
LEMMA ChannelClosesPreservesInv ==
  ASSUME Inv, NEW n \in Nodes, ChannelCloses(n)
  PROVE  Inv'
<1>1. /\ Registered(n) /\ peers' = [peers EXCEPT ![n].open = FALSE]
      /\ UNCHANGED <<addr_to_peer, ip_connections, last_connect_attempt, counts, todo,
                     dialing, ops, history>>
  BY DEF ChannelCloses
<1>2. n \in DOMAIN peers /\ peers[n] \in PeerState /\ peers \in [DOMAIN peers -> PeerState]
      /\ DOMAIN peers \subseteq Nodes
  BY <1>1 DEF Registered, Inv, TypeOK, IsMap
<1>3. /\ DOMAIN peers' = DOMAIN peers /\ IsMap(peers', Nodes, PeerState)
      /\ \A m \in DOMAIN peers : /\ peers'[m].addr = peers[m].addr
                                 /\ peers'[m].outbound = peers[m].outbound
                                 /\ peers'[m].open => peers[m].open
  <2>1. [peers[n] EXCEPT !.open = FALSE] \in PeerState
    BY <1>2 DEF PeerState
  <2>2. /\ DOMAIN peers' = DOMAIN peers /\ peers'[n] = [peers[n] EXCEPT !.open = FALSE]
        /\ \A m \in DOMAIN peers \ {n} : peers'[m] = peers[m]
        /\ peers' \in [DOMAIN peers -> PeerState]
    BY <1>1, <1>2, <2>1
  <2>3. /\ peers'[n].addr = peers[n].addr /\ peers'[n].outbound = peers[n].outbound
        /\ ~peers'[n].open
    BY <1>2, <2>2 DEF PeerState
  <2> QED
    BY <1>2, <2>2, <2>3 DEF IsMap
<1>4. ops' \in 0..MaxOps
  BY <1>1 DEF Inv, TypeOK
<1>5. IsMap(last_connect_attempt', Addrs, Ages) /\ \A a : Fresh(a)' => Fresh(a)
  BY <1>1 DEF Inv, TypeOK, Fresh
<1> QED
  BY <1>1, <1>3, <1>4, <1>5, PeersUpdated

\* An attempt grows older.
LEMMA AgePreservesInv ==
  ASSUME Inv, NEW a \in Addrs, Age(a)
  PROVE  Inv'
<1>1. /\ a \in DOMAIN last_connect_attempt
      /\ last_connect_attempt' = [last_connect_attempt EXCEPT ![a] =
                                    IF @ = "fresh" THEN "due" ELSE "expired"]
      /\ UNCHANGED <<peers, addr_to_peer, ip_connections, counts, todo, dialing, ops, history>>
  BY DEF Age
<1>2. IsMap(last_connect_attempt', Addrs, Ages) /\ \A b : Fresh(b)' => Fresh(b)
  BY <1>1 DEF Inv, TypeOK, Fresh, IsMap, Ages
<1>3. IsMap(peers', Nodes, PeerState) /\ ops' \in 0..MaxOps
  BY <1>1 DEF Inv, TypeOK
<1> QED
  BY <1>1, <1>2, <1>3, PeersUpdated
-----------------------------------------------------------------------------
(******************************** Theorems *********************************)

\* Small counts do not wrap.
LEMMA WrapOfSmall ==
  ASSUME NEW v \in 0..(WORD - 1)
  PROVE  Wrap(v) = v
<1>1. WORD \in Nat \ {0}
  BY LimitsAssumption
<1>2. (WORD * 0 + v) % WORD = v
  BY <1>1, RemainderIsUnique
<1>3. WORD * 0 + v = v
  BY <1>1
<1> QED
  BY <1>2, <1>3 DEF Wrap

\* A registry of no peers with nothing planned.
LEMMA InitEstablishesInv == Init => Inv
<1> SUFFICES ASSUME Init PROVE Inv
  OBVIOUS
<1> USE DEF Init
<1>1. Cardinality(Nodes) \in Nat /\ WORD \in Nat /\ WORD > 0
  BY AddrsAssumption, LimitsAssumption, FS_CardinalityType
<1>2. /\ DOMAIN peers = {} /\ DOMAIN addr_to_peer = {} /\ DOMAIN ip_connections = {}
      /\ DOMAIN last_connect_attempt = {}
  OBVIOUS
<1>3. TypeOK
  <2>1. /\ IsMap(peers, Nodes, PeerState) /\ IsMap(addr_to_peer, Addrs, Nodes)
        /\ IsMap(ip_connections, Ips, Nat) /\ IsMap(last_connect_attempt, Addrs, Ages)
    BY DEF IsMap
  <2>2. todo \in [Threads -> Seq(Access)]
    BY PlanOfNone
  <2> QED
    BY <1>1, <2>1, <2>2, LimitsAssumption DEF TypeOK
<1>4. \A t \in Threads : todo[t] = <<>> /\ touched[t] = {} /\ Plan(t) = {} /\ Ordered(todo[t])
  BY PlanOfNone DEF Plan
<1>5. PlansAreOrdered /\ PlansAreTouched /\ RacesAreMarked
  BY <1>4 DEF PlansAreOrdered, PlansAreTouched, RacesAreMarked, SameAddr
<1>6. Outbound = {} /\ Admitted = {} /\ \A op : Waiting(op) = {}
  BY <1>2, <1>4 DEF Outbound, Admitted, Waiting, Has
<1>7. Cardinality({}) = 0
  BY FS_EmptySet
<1>8. CountersAreExplained
  <2>1. Wrap(0) = 0
    BY <1>1, WrapOfSmall
  <2>2. 0 + 0 - 0 = 0
    OBVIOUS
  <2> QED
    BY <1>2, <1>6, <1>7, <2>1, <2>2 DEF CountersAreExplained
<1>9. SlotsAreExplained
  <2>1. Weight(Addrs, dialing) = 0
    BY WeightOfNothing
  <2>2. Cardinality(Threads) \in Nat /\ Cardinality(Threads) # 0 /\ MAX_CONNECTING \in Nat
    BY AddrsAssumption, LimitsAssumption, FS_CardinalityType, FS_EmptySet
  <2>3. Cardinality(Waiting("connecting_sub")) = 0 /\ Cardinality(Admitted) = 0
    BY <1>6, <1>7, Zenon
  <2>4. connecting_count = 0
    OBVIOUS
  <2> QED
    BY <2>1, <2>2, <2>3, <2>4 DEF SlotsAreExplained
<1>10. IpsAreExplained
  <2> SUFFICES ASSUME NEW t \in Threads, NEW ip \in Ips
               PROVE  IpExplained(t, ip)
    BY DEF IpsAreExplained
  <2>1. \A op : ~HasOn(Plan(t), op, ip)
    BY <1>4 DEF HasOn
  <2>2. PeersOn(ip) = {} /\ Connections(ip) = 0
    BY <1>2 DEF PeersOn, Connections
  <2> QED
    BY <1>2, <1>7, <2>1, <2>2 DEF IpExplained, Bit
<1>11. RoutesAreExplained /\ DeadAreClosed /\ AttemptsAreDue
  BY <1>2, <1>4 DEF RoutesAreExplained, DeadAreClosed, AttemptsAreDue
<1> QED
  BY <1>3, <1>5, <1>8, <1>9, <1>10, <1>11 DEF Inv

\* Every step of every thread keeps the invariant.
LEMMA StepPreservesInv == Inv /\ [Next]_vars => Inv'
<1> SUFFICES ASSUME Inv, [Next]_vars PROVE Inv'
  OBVIOUS
<1>1. CASE UNCHANGED vars
  <2>1. UNCHANGED <<todo, history, addr_to_peer, ip_connections, counts, dialing, peers, ops,
                    last_connect_attempt>>
    BY <1>1 DEF vars, maps
  <2>2. /\ IsMap(peers', Nodes, PeerState) /\ ops' \in 0..MaxOps
        /\ IsMap(last_connect_attempt', Addrs, Ages) /\ \A a : Fresh(a)' => Fresh(a)
    BY <2>1 DEF Inv, TypeOK, Fresh
  <2> QED
    BY <2>1, <2>2, PeersUpdated
<1>2. ASSUME NEW t \in Threads, StartOperation(t)
      PROVE  Inv'
  <2>1. ASSUME NEW n \in Nodes, NEW a \in Addrs, Accept(t, n, a) \/ RegisterOutbound(t, n, a)
        PROVE  Inv'
    BY <2>1, AcceptPreservesInv, RegisterOutboundPreservesInv
  <2>2. ASSUME NEW n \in Nodes, RemovePeer(t, n)
        PROVE  Inv'
    BY <2>2, RemovePeerPreservesInv
  <2>3. ASSUME NEW a \in Addrs, TryReserve(t, a) \/ MarkConnectFailed(t, a)
        PROVE  Inv'
    BY <2>3, TryReservePreservesInv, MarkConnectFailedPreservesInv
  <2>4. ASSUME NEW walk \in Walks, Broadcast(t, walk)
        PROVE  Inv'
    BY <2>4, BroadcastPreservesInv
  <2>5. ASSUME NEW n \in Nodes, NEW elapsed \in BOOLEAN, SendTo(t, n, elapsed)
        PROVE  Inv'
    BY <2>5, SendToPreservesInv
  <2>6. ASSUME NEW n \in Nodes, NEW h \in ReportedHeights, UpdatePeerHeight(t, n, h)
        PROVE  Inv'
    BY <2>6, UpdatePeerHeightPreservesInv
  <2> QED
    BY <1>2, <2>1, <2>2, <2>3, <2>4, <2>5, <2>6 DEF StartOperation
<1>3. ASSUME NEW t \in Threads, NextAccess(t)
      PROVE  Inv'
  <2>1. CASE CheckIp(t) \/ RegisterInbound(t) \/ AddrRemove(t) \/ AddrInsert(t)
    BY <2>1, CheckIpPreservesInv, RegisterInboundPreservesInv, AddrRemovePreservesInv,
       AddrInsertPreservesInv
  <2>2. CASE IpDecrement(t) \/ IpRemove(t) \/ IpIncrement(t)
    BY <2>2, IpDecrementPreservesInv, IpRemovePreservesInv, IpIncrementPreservesInv
  <2>3. CASE ConnectedAdd(t) \/ ConnectedSub(t) \/ OutboundAdd(t) \/ OutboundSub(t)
    BY <2>3, CountPreservesInv
  <2>4. CASE ConnectingSub(t) \/ CheckConnecting(t) \/ CheckRetry(t) \/ NoteAttempt(t)
             \/ ConnectingAdd(t)
    BY <2>4, ConnectingSubPreservesInv, CheckConnectingPreservesInv, CheckRetryPreservesInv,
       NoteAttemptPreservesInv, ConnectingAddPreservesInv
  <2>5. CASE Probe(t) \/ RemoveDead(t)
    BY <2>5, ProbePreservesInv, RemoveDeadPreservesInv
  <2> QED
    BY <1>3, <2>1, <2>2, <2>3, <2>4, <2>5 DEF NextAccess
<1>4. ASSUME NEW n \in Nodes, ChannelCloses(n)
      PROVE  Inv'
  BY <1>4, ChannelClosesPreservesInv
<1>5. ASSUME NEW a \in Addrs, Age(a)
      PROVE  Inv'
  BY <1>5, AgePreservesInv
<1> QED
  BY <1>1, <1>2, <1>3, <1>4, <1>5 DEF Next

\* However the accesses of the threads interleave, the registry keeps its
\* types and every count, entry and route is explained by the peers and by the
\* accesses still to be made, or belongs to a raced IP.
THEOREM InvHolds == Spec => []Inv
BY InitEstablishesInv, StepPreservesInv, PTL DEF Spec

\* Once all operations have returned, connected_count and outbound_count are
\* the numbers of registered and of outbound peers, whatever ran at once and
\* although fetch_sub may have wrapped them below zero meanwhile.
THEOREM CountsAlwaysSettle == Spec => []CountsSettle
<1>1. Inv => CountsSettle
  <2> SUFFICES ASSUME Inv, Quiescent
               PROVE  /\ connected_count = Cardinality(DOMAIN peers)
                      /\ outbound_count = Cardinality(Outbound)
    BY DEF CountsSettle
  <2>1. \A t \in Threads : Plan(t) = {}
    BY PlanOfNone DEF Quiescent, Idle, Plan
  <2>2. \A op : Waiting(op) = {}
    BY <2>1 DEF Waiting, Has
  <2>3. Cardinality({}) = 0
    BY FS_EmptySet
  <2>4. /\ Cardinality(DOMAIN peers) \in 0..(WORD - 1)
        /\ Cardinality(Outbound) \in 0..(WORD - 1)
    <3>1. DOMAIN peers \subseteq Nodes /\ Outbound \subseteq Nodes
      BY DEF Inv, TypeOK, IsMap, Outbound
    <3>2. \A S \in SUBSET Nodes : Cardinality(S) \in Nat /\ Cardinality(S) <= Cardinality(Nodes)
      BY AddrsAssumption, FS_Subset, FS_CardinalityType
    <3>3. Cardinality(Nodes) \in Nat /\ WORD \in Nat /\ Cardinality(Nodes) < WORD
      BY <3>2, LimitsAssumption
    <3> QED
      BY <3>1, <3>2, <3>3
  <2>5. \A op : Cardinality(Waiting(op)) = 0
    BY <2>2, <2>3, Zenon
  <2>6. /\ connected_count = Wrap(Cardinality(DOMAIN peers))
        /\ outbound_count = Wrap(Cardinality(Outbound))
    <3>1. \A k \in 0..(WORD - 1) : k + 0 - 0 = k
      OBVIOUS
    <3>2. /\ connected_count = Wrap(Cardinality(DOMAIN peers) + 0 - 0)
          /\ outbound_count = Wrap(Cardinality(Outbound) + 0 - 0)
      BY <2>5 DEF Inv, CountersAreExplained
    <3> QED
      BY <2>4, <3>1, <3>2
  <2> QED
    BY <2>4, <2>6, WrapOfSmall
<1> QED
  BY <1>1, InvHolds, PTL

\* Once all operations have returned, no more slots are taken than dials are under
\* way, and check and reservation being separate lets the slots taken exceed
\* MAX_CONNECTING by at most one for each further thread.
THEOREM SlotsAlwaysKept == Spec => []SlotsAreKept
<1>1. Inv => SlotsAreKept
  <2> SUFFICES ASSUME Inv PROVE SlotsAreKept
    OBVIOUS
  <2>1. Admitted \in SUBSET Threads
    BY DEF Admitted
  <2>2. connecting_count <= MAX_CONNECTING + Cardinality(Threads) - 1
    BY <2>1, SlotTypes DEF Inv, SlotsAreExplained
  <2>3. ASSUME Quiescent
        PROVE  connecting_count <= Weight(Addrs, dialing)
    <3>1. \A t \in Threads : Plan(t) = {}
      BY <2>3, PlanOfNone DEF Quiescent, Idle, Plan
    <3>2. Waiting("connecting_sub") = {}
      BY <3>1 DEF Waiting, Has
    <3>3. Cardinality(Waiting("connecting_sub")) = 0
      BY <3>2, FS_EmptySet
    <3> QED
      BY <3>3, SlotTypes DEF Inv, SlotsAreExplained
  <2> QED
    BY <2>2, <2>3 DEF SlotsAreKept
<1> QED
  BY <1>1, InvHolds, PTL

\* On every IP that no two operations touched at once, once all have returned,
\* the per-IP count is the number of its peers, an entry is there just when it
\* has one, and each route leads to a registered peer at that address.
THEOREM UnracedIpsAlwaysExact == Spec => []UnracedIpsAreExact
<1>1. Inv => UnracedIpsAreExact
  <2> SUFFICES ASSUME Inv, Quiescent, NEW ip \in Ips \ raced
               PROVE  /\ \A a \in DOMAIN addr_to_peer : Ip[a] = ip =>
                           addr_to_peer[a] \in DOMAIN peers /\ peers[addr_to_peer[a]].addr = a
                      /\ ip \in DOMAIN ip_connections <=> PeersOn(ip) # {}
                      /\ ip \in DOMAIN ip_connections =>
                           ip_connections[ip] = Cardinality(PeersOn(ip))
    BY DEF UnracedIpsAreExact
  <2>1. \A t \in Threads : Plan(t) = {} /\ touched[t] = {}
    BY PlanOfNone DEF Quiescent, Idle, Plan, Inv, PlansAreTouched
  <2>2. \A a \in DOMAIN addr_to_peer : Ip[a] = ip =>
          addr_to_peer[a] \in DOMAIN peers /\ peers[addr_to_peer[a]].addr = a
    BY <2>1 DEF Inv, TypeOK, IsMap, RoutesAreExplained, At
  <2>3. PICK t \in Threads : TRUE
    BY AddrsAssumption
  <2>4. IpExplained(t, ip)
    BY <2>1 DEF Inv, IpsAreExplained, AloneOn
  <2>5. \A op : ~HasOn(Plan(t), op, ip)
    BY <2>1 DEF HasOn
  <2>6. /\ Connections(ip) \in Nat /\ Cardinality(PeersOn(ip)) \in Nat
        /\ (Cardinality(PeersOn(ip)) = 0) = (PeersOn(ip) = {})
    BY ConnectionTypes
  <2>7. /\ Connections(ip) = Cardinality(PeersOn(ip))
        /\ ip \in DOMAIN ip_connections <=> Connections(ip) > 0
    BY <2>4, <2>5, <2>6 DEF IpExplained, Bit
  <2> QED
    BY <2>2, <2>6, <2>7 DEF Connections
<1> QED
  BY <1>1, InvHolds, PTL

\* broadcast removes by node id after its walk, yet on an unraced IP it never
\* disconnects a peer whose channel is open.
THEOREM BroadcastAlwaysSparesTheLiving == Spec => BroadcastSparesTheLiving
<1> DEFINE Spares ==
      \A n \in DOMAIN peers \ DOMAIN peers' :
        (\E t \in Threads : RemoveDead(t)) /\ peers[n].open => IpsOf(n) \subseteq raced'
<1>1. Inv => Spares
  <2> SUFFICES ASSUME Inv, NEW n \in DOMAIN peers \ DOMAIN peers',
                      NEW t \in Threads, RemoveDead(t), peers[n].open
               PROVE  IpsOf(n) \subseteq raced'
    OBVIOUS
  <2>0. PICK m : m = Arg(t).node
    OBVIOUS
  <2>1. /\ todo[t] # <<>> /\ Arg(t).op = "peers_remove" /\ peers' = Drop(peers, {m})
        /\ Touch(t, {m} \cup IpsOf(m))
    BY <2>0 DEF RemoveDead, Upcoming, Arg, DropPeer
  <2>2. n = m
    BY <2>1 DEF Drop
  <2>3. Arg(t) \in Plan(t)
    BY <2>1, AdvanceLeaves
  <2>4. IpsOf(n) \subseteq raced
    BY <2>0, <2>1, <2>2, <2>3 DEF Inv, DeadAreClosed, Registered
  <2>5. raced \subseteq raced'
    BY <2>1 DEF Touch
  <2> QED
    BY <2>4, <2>5
<1>2. Inv => [Spares]_vars
  BY <1>1
<1>3. Spec => [][Spares]_vars
  BY <1>2, InvHolds, PTL
<1> QED
  BY <1>3 DEF BroadcastSparesTheLiving

\* try_reserve_outbound_slot looks at the last attempt's age before it notes a
\* new one; on an unraced IP no attempt follows a fresh one to its address.
THEOREM RetriesAlwaysSpaced == Spec => RetriesAreSpaced
<1> DEFINE Spaced ==
      \A t \in Threads : NoteAttempt(t) =>
        LET a == Arg(t).addr
        IN a \in DOMAIN last_connect_attempt /\ last_connect_attempt[a] = "fresh"
             => Ip[a] \in raced
<1>1. Inv => Spaced
  <2> SUFFICES ASSUME Inv, NEW t \in Threads, NoteAttempt(t), Fresh(Arg(t).addr)
               PROVE  Ip[Arg(t).addr] \in raced
    BY DEF Fresh
  <2>1. todo[t] # <<>> /\ Arg(t).op = "note_attempt"
    BY DEF NoteAttempt, Upcoming, Arg
  <2>2. Plan(t) = {Arg(t)} \cup Rest(t) /\ \A y \in Rest(t) : MayPrecede("note_attempt", y.op)
    BY <2>1, AdvanceLeaves
  <2>3. ~Has(Plan(t), "check_retry")
    BY <2>1, <2>2 DEF Has, MayPrecede, Checks
  <2> QED
    BY <2>1, <2>2, <2>3 DEF Inv, AttemptsAreDue
<1>2. Inv => [Spaced]_vars
  BY <1>1
<1>3. Spec => [][Spaced]_vars
  BY <1>2, InvHolds, PTL
<1> QED
  BY <1>3 DEF RetriesAreSpaced
=============================================================================
