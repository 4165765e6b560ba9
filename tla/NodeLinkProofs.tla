--------------------------- MODULE NodeLinkProofs ---------------------------
(***************************************************************************)
(* Theorems of NodeLink, for any nodes, addresses and number of            *)
(* disturbances.                                                           *)
(***************************************************************************)
EXTENDS NodeLink, FiniteSetTheorems, TLAPS

\* What a datagram to a node may be.
Datagram == Answer \cup Push

LEMMA DatagramTypes ==
  ASSUME NEW d \in Datagram
  PROVE  /\ d.type \in {"keepalive", "policy"}
         /\ d.type = "policy" => d.status \in Status
BY DEF Datagram, Answer, Push

-----------------------------------------------------------------------------
(* Addresses.  There is one for each node, so a node that joins for the       *)
(* first time finds a free one.                                               *)

\* An entry is absent, and has no address, or it has one of its own.
EntryInv ==
  /\ \A n \in Node : \/ entry[n] = Absent
                     \/ /\ entry[n].status # "absent"
                        /\ entry[n].addr \in Address
  /\ \A n, m \in Node : entry[n].addr = entry[m].addr => n = m \/ entry[n] = Absent

LEMMA AFreeAddress ==
  ASSUME EntryInv, NEW n \in Node, entry[n].status = "absent"
  PROVE  Free # {}
<1> SUFFICES ASSUME Free = {} PROVE FALSE
  OBVIOUS
<1> DEFINE owner == [a \in Address |-> CHOOSE m \in Node : entry[m].addr = a]
<1>1. \A a \in Address : \E m \in Node : entry[m].addr = a
  BY DEF Free
<1>2. \A a \in Address : owner[a] \in Node /\ entry[owner[a]].addr = a
  BY <1>1
<1>3. \A a \in Address : owner[a] # n
  BY <1>2, AddressesSuffice DEF EntryInv, Absent
<1>4. owner \in [Address -> Node \ {n}]
  BY <1>2, <1>3
<1>5. /\ IsFiniteSet(Node \ {n}) /\ Cardinality(Node \ {n}) = Cardinality(Node) - 1
      /\ Cardinality(Node) \in Nat /\ Cardinality(Address) \in Nat
  BY AddressesSuffice, FS_RemoveElement, FS_CardinalityType
<1>6. \E a, b \in Address : a # b /\ owner[a] = owner[b]
  <2> HIDE DEF owner
  <2>1. Cardinality(Node \ {n}) < Cardinality(Address)
    BY <1>5, AddressesSuffice
  <2> QED
    BY <1>4, <1>5, <2>1, AddressesSuffice, FS_PigeonHole
<1> QED
  BY <1>2, <1>6

\* The least element of a set of addresses.  (Of the intervals 0 .. x with x in
\* the set one is smallest: strict inclusion of finite sets is well-founded.)
LEMMA LowestIsThere ==
  ASSUME NEW S, S \subseteq Nat, S # {}
  PROVE  Lowest(S) \in S
<1> DEFINE T == {0 .. x : x \in S}
<1>1. T \subseteq FiniteSubsetsOf(Nat) /\ T # {}
  <2>1. \A x \in S : 0 .. x \subseteq Nat /\ IsFiniteSet(0 .. x)
    BY FS_Interval
  <2> QED
    BY <2>1 DEF FiniteSubsetsOf
<1>2. \E X \in T : \A Y \in T : <<Y, X>> \notin StrictSubsetOrdering(Nat)
  <2> HIDE DEF T
  <2> QED
    BY <1>1, FS_StrictSubsetOrderingWellFounded, WFMin, Zenon
<1>3. PICK x \in S : \A y \in S : <<0 .. y, 0 .. x>> \notin StrictSubsetOrdering(Nat)
  BY <1>2
<1>4. \A y \in S : x <= y
  <2> SUFFICES ASSUME NEW y \in S, y < x PROVE FALSE
    OBVIOUS
  <2>1. /\ x \in 0 .. x /\ x \notin 0 .. y
        /\ 0 .. y \subseteq 0 .. x
    OBVIOUS
  <2>2. <<0 .. y, 0 .. x>> \in StrictSubsetOrdering(Nat)
    BY <2>1 DEF StrictSubsetOrdering
  <2> QED
    BY <1>3, <2>2
<1> QED
  BY <1>4 DEF Lowest

\* What a join makes of the entries: the joining node has one, the others keep
\* theirs.
LEMMA RegisterEntries ==
  ASSUME EntryInv, entry \in [Node -> [status : Status, addr : Address \cup {NoAddress}]],
         NEW n \in Node, Register(n)
  PROVE  /\ EntryInv'
         /\ entry' \in [Node -> [status : Status, addr : Address \cup {NoAddress}]]
         /\ entry'[n] = Registered(n) /\ entry'[n].status # "absent" /\ entry'[n].addr \in Address
         /\ entry[n] # Absent => entry'[n] = entry[n]
         /\ entry[n] = Absent => entry'[n].status = "active"
         /\ \A m \in Node \ {n} : entry'[m] = entry[m]
<1>1. /\ entry'[n] = Registered(n)
      /\ \A m \in Node \ {n} : entry'[m] = entry[m]
      /\ entry' = [entry EXCEPT ![n] = Registered(n)]
  BY DEF Register
<1>2. CASE entry[n].status = "absent"
  <2> DEFINE a == Lowest(Free)
  <2>1. a \in Free
    BY <1>2, AFreeAddress, LowestIsThere, AddressesSuffice DEF Free
  <2> HIDE DEF a
  <2>2. a \in Address /\ \A m \in Node : entry[m].addr # a
    BY <2>1 DEF Free
  <2>3. Registered(n) = [status |-> "active", addr |-> a]
    BY <1>2 DEF Registered, a
  <2>4. entry[n] = Absent
    BY <1>2 DEF EntryInv
  <2> QED
    BY <1>1, <2>2, <2>3, <2>4 DEF EntryInv, Absent, Status
<1>3. CASE entry[n].status # "absent"
  <2>1. entry' = entry
    BY <1>1, <1>3 DEF Registered
  <2> QED
    BY <1>1, <1>3, <2>1 DEF EntryInv, Absent
<1> QED
  BY <1>2, <1>3

-----------------------------------------------------------------------------
(* Types. *)

\* The steps in which the server registers a node.
Registers(n) == Join(n) \/ LoseReply(n)

LEMMA RegistersRegisters ==
  ASSUME NEW n \in Node, Registers(n)
  PROVE  Register(n) /\ UNCHANGED <<generation, up>>
BY DEF Registers, Join, Answered, LoseReply, Register

\* The entries after any step.
LEMMA StepEntries ==
  ASSUME TypeOK, EntryInv, [Next]_vars
  PROVE  /\ EntryInv'
         /\ entry' \in [Node -> [status : Status, addr : Address \cup {NoAddress}]]
<1>t. entry \in [Node -> [status : Status, addr : Address \cup {NoAddress}]]
  BY DEF TypeOK
<1>1. ASSUME NEW n \in Node, Registers(n)
      PROVE  /\ EntryInv'
             /\ entry' \in [Node -> [status : Status, addr : Address \cup {NoAddress}]]
  BY <1>t, <1>1, RegistersRegisters, RegisterEntries
<1>2. ASSUME NEW n \in Node, SetStatus(n)
      PROVE  /\ EntryInv'
             /\ entry' \in [Node -> [status : Status, addr : Address \cup {NoAddress}]]
  <2>1. \A m \in Node : /\ entry'[m].addr = entry[m].addr
                        /\ entry[m] = Absent => entry'[m] = entry[m]
                        /\ entry[m] # Absent => entry'[m].status \in {"active", "blocked"}
    BY <1>t, <1>2 DEF SetStatus, EntryInv, Absent, Status
  <2>2. entry' \in [Node -> [status : Status, addr : Address \cup {NoAddress}]]
    BY <1>t, <1>2 DEF SetStatus, Status
  <2>3. \A m \in Node : \/ entry'[m] = Absent
                       \/ /\ entry'[m].status # "absent"
                          /\ entry'[m].addr \in Address
    BY <2>1 DEF EntryInv
  <2> QED
    BY <2>1, <2>2, <2>3 DEF EntryInv
<1>3. CASE Reinstall
  <2>1. entry' = [n \in Node |-> Absent] /\ Absent' = Absent
    BY <1>3 DEF Reinstall, Absent
  <2>2. Absent \in [status : Status, addr : Address \cup {NoAddress}]
    BY DEF Absent, Status
  <2>3. EntryInv'
    BY <2>1 DEF EntryInv
  <2> QED
    BY <2>1, <2>2, <2>3
<1>4. CASE UNCHANGED entry
  BY <1>t, <1>4 DEF EntryInv
<1>5. ASSUME NEW n \in Node, NodeNext(n), ~ Registers(n) PROVE UNCHANGED entry
  BY <1>5 DEF NodeNext, Registers, Rejoin, KeepAlive, ReadAnswer, Silence, ReadDirect, ReadPolicy,
              LoseDatagram, UseServer, RestartNode, server
<1>6. ServerDown \/ ServerUp \/ UNCHANGED vars => UNCHANGED entry
  BY DEF ServerDown, ServerUp, vars, server
<1> QED
  BY <1>1, <1>2, <1>3, <1>4, <1>5, <1>6 DEF Next

\* The datagrams under way after any step.
LEMMA StepDatagrams ==
  ASSUME TypeOK, EntryInv, [Next]_vars
  PROVE  toNode' \in [Node -> Seq(Datagram)]
<1>t. /\ toNode \in [Node -> Seq(Datagram)] /\ generation \in Nat
  BY DEF TypeOK, Datagram
<1>1. ASSUME NEW n \in Node, KeepAlive(n) PROVE toNode' \in [Node -> Seq(Datagram)]
  <2>1. [type |-> "keepalive", key |-> generation] \in Datagram
    BY <1>t DEF Datagram, Answer
  <2> QED
    BY <1>t, <1>1, <2>1 DEF KeepAlive
<1>2. ASSUME NEW n \in Node, SetStatus(n) PROVE toNode' \in [Node -> Seq(Datagram)]
  <2>1. \A m \in Node : Notice(m) \in Datagram
    BY <1>t, StepEntries DEF Notice, Datagram, Push
  <2> QED
    BY <1>t, <1>2, <2>1 DEF SetStatus, Broadcast
<1>3. ASSUME NEW n \in Node, ReadAnswer(n) \/ ReadPolicy(n) \/ LoseDatagram(n)
      PROVE  toNode' \in [Node -> Seq(Datagram)]
  <2>1. toNode[n] # <<>> /\ toNode' = [toNode EXCEPT ![n] = Tail(@)]
    BY <1>3 DEF ReadAnswer, ReadPolicy, LoseDatagram
  <2> QED
    BY <1>t, <2>1
<1>4. ASSUME NEW n \in Node, RestartNode(n) PROVE toNode' \in [Node -> Seq(Datagram)]
  BY <1>t, <1>4 DEF RestartNode
<1>5. CASE UNCHANGED toNode
  BY <1>t, <1>5
<1> QED
  BY <1>1, <1>2, <1>3, <1>4, <1>5
  DEF Next, NodeNext, Join, Answered, LoseReply, Rejoin, Silence, ReadDirect, UseServer,
      ServerDown, ServerUp, Reinstall, vars

\* The server and the counters after any step.
LEMMA StepServer ==
  ASSUME TypeOK, [Next]_vars
  PROVE  /\ generation' \in Nat /\ generation <= generation'
         /\ known' \subseteq Node /\ up' \in BOOLEAN
         /\ missed' \in [Node -> BOOLEAN] /\ events' \in 0..MaxEvents
<1>t. /\ generation \in Nat /\ known \subseteq Node /\ up \in BOOLEAN
      /\ missed \in [Node -> BOOLEAN] /\ events \in 0..MaxEvents
  BY DEF TypeOK
<1> DEFINE Goal == /\ generation' \in Nat /\ generation <= generation'
                   /\ known' \subseteq Node /\ up' \in BOOLEAN
                   /\ missed' \in [Node -> BOOLEAN] /\ events' \in 0..MaxEvents
<1>e. ASSUME NEW kind, Disturb(kind) PROVE events' \in 0..MaxEvents
  BY <1>t, <1>e, MaxEventsIsNumber DEF Disturb
<1>1. ASSUME NEW n \in Node, Registers(n) PROVE Goal
  <2>1. UNCHANGED <<generation, up, missed>> /\ known' = known \cup {n}
    BY <1>1, RegistersRegisters DEF Registers, Join, Answered, LoseReply, Register
  <2>2. events' \in 0..MaxEvents
    BY <1>t, <1>1, <1>e DEF Registers, Join, Answered, LoseReply
  <2> QED
    BY <1>t, <2>1, <2>2
<1>2. ASSUME NEW n \in Node, NodeNext(n), ~ Registers(n) PROVE Goal
  <2>1. UNCHANGED <<generation, up>> /\ known' \subseteq Node
    BY <1>t, <1>2 DEF NodeNext, Registers, Rejoin, KeepAlive, ReadAnswer, Silence, ReadDirect,
                      ReadPolicy, LoseDatagram, UseServer, RestartNode, server
  <2>2. missed' \in [Node -> BOOLEAN]
    BY <1>t, <1>2 DEF NodeNext, Registers, Rejoin, KeepAlive, ReadAnswer, Silence, ReadDirect,
                      ReadPolicy, LoseDatagram, UseServer, RestartNode
  <2>3. events' \in 0..MaxEvents
    BY <1>t, <1>2, <1>e DEF NodeNext, Registers, Rejoin, KeepAlive, ReadAnswer, Silence,
                            ReadDirect, ReadPolicy, LoseDatagram, UseServer, RestartNode
  <2> QED
    BY <1>t, <2>1, <2>2, <2>3
<1>3. ASSUME NEW n \in Node, SetStatus(n) PROVE Goal
  <2>1. UNCHANGED <<generation, known, up>> /\ events' \in 0..MaxEvents
    BY <1>3, <1>e DEF SetStatus
  <2>2. missed' \in [Node -> BOOLEAN]
    <3>1. \A m \in Node : (~ Told(m) /\ (missed[m] \/ entry'[m].status # "absent")) \in BOOLEAN
      OBVIOUS
    <3> QED
      BY <1>3, <3>1 DEF SetStatus, Broadcast, NotTold
  <2> QED
    BY <1>t, <2>1, <2>2
<1>4. CASE ServerDown \/ ServerUp
  <2>1. UNCHANGED <<generation, missed>> /\ known' \subseteq Node /\ up' \in BOOLEAN
    BY <1>t, <1>4 DEF ServerDown, ServerUp
  <2>2. events' \in 0..MaxEvents
    BY <1>t, <1>4, <1>e DEF ServerDown, ServerUp
  <2> QED
    BY <1>t, <2>1, <2>2
<1>5. CASE Reinstall
  BY <1>t, <1>5, <1>e DEF Reinstall
<1>6. CASE UNCHANGED vars
  BY <1>t, <1>6 DEF vars, server
<1> QED
  BY <1>1, <1>2, <1>3, <1>4, <1>5, <1>6 DEF Next

\* The nodes after any step.
LEMMA StepNodes ==
  ASSUME TypeOK, EntryInv, [Next]_vars
  PROVE  /\ trusted' \in [Node -> 0..generation']
         /\ addr' \in [Node -> Address \cup {NoAddress}]
         /\ device' \in [Node -> Address \cup {NoAddress}]
         /\ seen' \in [Node -> {"recent", "stale"}]
         /\ watch' \in [Node -> {"joining", "watching"}]
         /\ selfBlocked' \in [Node -> BOOLEAN]
         /\ serverPeer' \in [Node -> 0..generation']
         /\ \A n \in Node : watch'[n] = "watching" => NoAddress \notin {addr'[n], device'[n]}
<1>t. /\ trusted \in [Node -> 0..generation] /\ generation \in Nat
      /\ addr \in [Node -> Address \cup {NoAddress}]
      /\ device \in [Node -> Address \cup {NoAddress}]
      /\ seen \in [Node -> {"recent", "stale"}]
      /\ watch \in [Node -> {"joining", "watching"}]
      /\ selfBlocked \in [Node -> BOOLEAN]
      /\ serverPeer \in [Node -> 0..generation]
      /\ \A n \in Node : watch[n] = "watching" => NoAddress \notin {addr[n], device[n]}
      /\ generation' \in Nat /\ generation <= generation'
  BY StepServer DEF TypeOK
<1>a. NoAddress \notin Address
  BY AddressesSuffice
<1> DEFINE Goal == /\ trusted' \in [Node -> 0..generation']
                   /\ addr' \in [Node -> Address \cup {NoAddress}]
                   /\ device' \in [Node -> Address \cup {NoAddress}]
                   /\ seen' \in [Node -> {"recent", "stale"}]
                   /\ watch' \in [Node -> {"joining", "watching"}]
                   /\ selfBlocked' \in [Node -> BOOLEAN]
                   /\ serverPeer' \in [Node -> 0..generation']
                   /\ \A n \in Node : watch'[n] = "watching" => NoAddress \notin {addr'[n], device'[n]}
<1>1. ASSUME NEW n \in Node, Join(n) PROVE Goal
  <2>1. /\ Registered(n).addr \in Address
        /\ trusted' = [trusted EXCEPT ![n] = generation] /\ generation' = generation
        /\ serverPeer' \in [Node -> 0..generation]
        /\ seen' = [seen EXCEPT ![n] = "recent"]
        /\ UNCHANGED selfBlocked
    <3>1. Register(n)
      BY <1>1, RegistersRegisters DEF Registers
    <3>2. serverPeer' \in [Node -> 0..generation]
      BY <1>t, <1>1 DEF Join
    <3> QED
      BY <1>1, <3>1, <3>2, RegisterEntries DEF Join, Answered, Register, TypeOK
  <2>2. CASE UNCHANGED <<addr, device, watch>>
    BY <1>t, <2>1, <2>2
  <2>3. CASE Adopt(n, Registered(n).addr)
    BY <1>t, <1>a, <2>1, <2>3 DEF Adopt
  <2> QED
    BY <1>1, <2>2, <2>3 DEF Join, Answered
<1>2. ASSUME NEW n \in Node, Rejoin(n) \/ ReadAnswer(n) \/ Silence(n) \/ ReadDirect(n) \/ ReadPolicy(n)
      PROVE  Goal
  <2>1. UNCHANGED <<trusted, addr, device, serverPeer, generation>>
    BY <1>2 DEF Rejoin, ReadAnswer, Silence, ReadDirect, ReadPolicy, server
  <2>2. seen' \in [Node -> {"recent", "stale"}]
    BY <1>t, <1>2 DEF Rejoin, ReadAnswer, Silence, ReadDirect, ReadPolicy
  <2>3. UNCHANGED watch \/ watch' = [watch EXCEPT ![n] = "joining"]
    BY <1>2 DEF Rejoin, ReadAnswer, Silence, ReadDirect, ReadPolicy
  <2>4. selfBlocked' \in [Node -> BOOLEAN]
    BY <1>t, <1>2 DEF Rejoin, ReadAnswer, Silence, ReadDirect, ReadPolicy
  <2> QED
    BY <1>t, <2>1, <2>2, <2>3, <2>4
<1>3. ASSUME NEW n \in Node, RestartNode(n) PROVE Goal
  <2>1. UNCHANGED <<trusted, generation>>
    BY <1>3 DEF RestartNode, server
  <2> QED
    BY <1>t, <1>3, <2>1 DEF RestartNode
<1>4. CASE UNCHANGED nodes
  BY <1>t, <1>4 DEF nodes
<1>u. ASSUME NEW n \in Node, UseServer(n) PROVE Goal
  BY <1>t, <1>u DEF UseServer, SealsFor
<1>5. ASSUME NEW n \in Node, LoseReply(n) \/ KeepAlive(n) \/ LoseDatagram(n) \/ SetStatus(n)
      PROVE  UNCHANGED nodes
  BY <1>5 DEF LoseReply, KeepAlive, LoseDatagram, SetStatus
<1>6. ServerDown \/ ServerUp \/ Reinstall \/ UNCHANGED vars => UNCHANGED nodes
  BY DEF ServerDown, ServerUp, Reinstall, vars
<1> QED
  BY <1>1, <1>2, <1>3, <1>4, <1>5, <1>6, <1>u DEF Next, NodeNext

LEMMA NodeLinkTyped == Spec => [](TypeOK /\ EntryInv)
<1>1. ASSUME Init PROVE TypeOK /\ EntryInv
  <2>1. entry \in [Node -> [status : Status, addr : Address \cup {NoAddress}]] /\ EntryInv
    <3>1. Absent \in [status : Status, addr : Address \cup {NoAddress}]
      BY DEF Absent, Status
    <3>2. entry = [n \in Node |-> Absent]
      BY <1>1 DEF Init
    <3> QED
      BY <3>1, <3>2 DEF EntryInv
  <2>2. /\ toNode \in [Node -> Seq(Datagram)] /\ events \in 0..MaxEvents
        /\ generation \in Nat /\ trusted \in [Node -> 0..generation]
        /\ serverPeer \in [Node -> 0..generation]
    BY <1>1, MaxEventsIsNumber DEF Init
  <2> QED
    BY <1>1, <2>1, <2>2 DEF Init, TypeOK, Datagram
<1>2. TypeOK /\ EntryInv /\ [Next]_vars => TypeOK' /\ EntryInv'
  <2> SUFFICES ASSUME TypeOK, EntryInv, [Next]_vars PROVE TypeOK' /\ EntryInv'
    OBVIOUS
  <2> QED
    BY StepEntries, StepDatagrams, StepServer, StepNodes DEF TypeOK, Datagram
<1> QED
  BY <1>1, <1>2, PTL DEF Spec

\* Whatever is lost, stopped or removed, every variable keeps its type, and a
\* node that serves has its address and its device.
THEOREM NodeLinkTypesCorrect == Spec => []TypeOK
BY NodeLinkTyped, PTL

-----------------------------------------------------------------------------
(* The address of a node.  A node has the present key from a reply of the     *)
(* present server, which has an entry for it ever since; and it watches only  *)
(* once it has taken over the address of that entry.  Its own entry of the    *)
(* server is never of another key than the trusted one, since the step that   *)
(* changes the one drops the other.                                           *)

PeerIsTrusted(n) == serverPeer[n] \in {0, trusted[n]}

LinkInv ==
  \A n \in Node :
    /\ PeerIsTrusted(n)
    /\ trusted[n] = generation =>
         /\ entry[n] # Absent
         /\ watch[n] = "watching" => addr[n] = entry[n].addr

LEMMA StepKeepsLink ==
  ASSUME TypeOK, EntryInv, LinkInv, [Next]_vars
  PROVE  LinkInv'
<1>t. /\ trusted \in [Node -> 0..generation] /\ generation \in Nat
      /\ addr \in [Node -> Address \cup {NoAddress}]
      /\ watch \in [Node -> {"joining", "watching"}]
      /\ serverPeer \in [Node -> 0..generation]
      /\ entry \in [Node -> [status : Status, addr : Address \cup {NoAddress}]]
  BY DEF TypeOK
<1>p. \A n \in Node : PeerIsTrusted(n)'
  <2> SUFFICES ASSUME NEW m \in Node, PeerIsTrusted(m)
               PROVE  serverPeer'[m] \in {0, trusted'[m]}
    BY DEF LinkInv, PeerIsTrusted
  <2>1. ASSUME NEW n \in Node, Join(n) PROVE serverPeer'[m] \in {0, trusted'[m]}
    BY <1>t, <2>1 DEF Join, PeerIsTrusted
  <2>2. ASSUME NEW n \in Node, UseServer(n) PROVE serverPeer'[m] \in {0, trusted'[m]}
    BY <1>t, <2>2 DEF UseServer, SealsFor, PeerIsTrusted
  <2>3. ASSUME NEW n \in Node, RestartNode(n) PROVE serverPeer'[m] \in {0, trusted'[m]}
    BY <1>t, <2>3 DEF RestartNode, PeerIsTrusted
  <2>4. CASE UNCHANGED <<serverPeer, trusted>>
    BY <2>4 DEF PeerIsTrusted
  <2>5. ASSUME NEW n \in Node, NodeNext(n), ~ Join(n), ~ UseServer(n), ~ RestartNode(n)
        PROVE  UNCHANGED <<serverPeer, trusted>>
    BY <2>5 DEF NodeNext, LoseReply, Rejoin, KeepAlive, ReadAnswer, Silence, ReadDirect, ReadPolicy,
                LoseDatagram, nodes
  <2>6. ASSUME ~ \E n \in Node : NodeNext(n) PROVE UNCHANGED <<serverPeer, trusted>>
    BY <2>6 DEF Next, SetStatus, ServerDown, ServerUp, Reinstall, vars, nodes
  <2> QED
    BY <2>1, <2>2, <2>3, <2>4, <2>5, <2>6
<1>1. ASSUME NEW n \in Node, Registers(n) PROVE LinkInv'
  <2>r. Register(n) /\ UNCHANGED generation
    BY <1>1, RegistersRegisters
  <2>e. /\ entry'[n] = Registered(n) /\ entry'[n].status # "absent"
        /\ entry[n] # Absent => entry'[n] = entry[n]
        /\ \A m \in Node \ {n} : entry'[m] = entry[m]
    BY <1>t, <2>r, RegisterEntries
  <2>1. CASE LoseReply(n)
    <3>1. UNCHANGED <<trusted, addr, watch>>
      BY <2>1 DEF LoseReply, nodes
    <3> QED
      BY <1>p, <2>r, <2>e, <3>1 DEF LinkInv, Absent
  <2>2. CASE Join(n)
    <3>1. \A m \in Node \ {n} : /\ trusted'[m] = trusted[m] /\ watch'[m] = watch[m]
                               /\ addr'[m] = addr[m]
      BY <1>t, <2>2 DEF Join, Answered, Adopt
    <3>2. watch'[n] = "watching" => addr'[n] = Registered(n).addr
      BY <1>t, <2>2 DEF Join, Answered, Adopt
    <3> QED
      BY <1>p, <2>r, <2>e, <3>1, <3>2 DEF LinkInv, Absent
  <2> QED
    BY <1>1, <2>1, <2>2 DEF Registers
<1>2. ASSUME NEW n \in Node, NodeNext(n), ~ Registers(n) PROVE LinkInv'
  <2>1. UNCHANGED <<generation, entry, trusted>>
    BY <1>2 DEF NodeNext, Registers, Rejoin, KeepAlive, ReadAnswer, Silence, ReadDirect, ReadPolicy,
                LoseDatagram, UseServer, RestartNode, server, nodes
  <2>2. \A m \in Node : watch'[m] = "watching" => watch[m] = "watching" /\ addr'[m] = addr[m]
    BY <1>t, <1>2 DEF NodeNext, Registers, Rejoin, KeepAlive, ReadAnswer, Silence, ReadDirect,
                      ReadPolicy, LoseDatagram, UseServer, RestartNode, server, nodes
  <2> QED
    BY <1>p, <2>1, <2>2 DEF LinkInv, Absent
<1>3. ASSUME NEW n \in Node, SetStatus(n) PROVE LinkInv'
  <2>1. UNCHANGED <<generation, trusted, addr, watch>>
    BY <1>3 DEF SetStatus, nodes
  <2>2. \A m \in Node : /\ entry'[m].addr = entry[m].addr
                        /\ entry'[m].status = "absent" => entry'[m] = entry[m]
    BY <1>t, <1>3 DEF SetStatus
  <2> QED
    BY <1>p, <2>1, <2>2 DEF LinkInv, Absent
<1>4. CASE Reinstall
  <2>1. generation' = generation + 1 /\ trusted' = trusted
    BY <1>4 DEF Reinstall, nodes
  <2>2. \A n \in Node : trusted'[n] # generation'
    BY <1>t, <2>1
  <2> QED
    BY <1>p, <2>2 DEF LinkInv
<1>5. CASE ServerDown \/ ServerUp \/ UNCHANGED vars
  <2>1. UNCHANGED <<generation, entry, trusted, addr, watch>>
    BY <1>5 DEF ServerDown, ServerUp, vars, server, nodes
  <2> QED
    BY <1>p, <2>1 DEF LinkInv, Absent
<1> QED
  BY <1>1, <1>2, <1>3, <1>4, <1>5 DEF Next

\* tryJoin and adoptVPNIP: a node that watches its link and trusts the present
\* server works under the address of its own entry, and of no other, and seals
\* for that server.
THEOREM LinkedNodeIsRegistered == Spec => []LinkedIsRegistered
<1>1. Init => LinkInv
  BY DEF Init, LinkInv, PeerIsTrusted
<1>2. TypeOK /\ EntryInv /\ LinkInv /\ [Next]_vars => LinkInv'
  BY StepKeepsLink
<1>3. EntryInv /\ LinkInv => LinkedIsRegistered
  BY DEF EntryInv, LinkInv, PeerIsTrusted, LinkedIsRegistered, SealsFor, Absent
<1> QED
  BY <1>1, <1>2, <1>3, NodeLinkTyped, PTL DEF Spec

-----------------------------------------------------------------------------
(* The last push in a queue of datagrams. *)

HasPush(q) == \E i \in DOMAIN q : q[i].type = "policy"

LastPush(q, i) ==
  /\ i \in DOMAIN q
  /\ q[i].type = "policy"
  /\ \A j \in DOMAIN q : j > i => q[j].type # "policy"

\* A keep-alive behind the others leaves the last push what it is; a push
\* becomes the last one.
LEMMA PushAppended ==
  ASSUME NEW q \in Seq(Datagram), NEW d \in Datagram
  PROVE  LET r == Append(q, d)
         IN  /\ d.type = "keepalive" =>
                  /\ HasPush(r) <=> HasPush(q)
                  /\ \A i : LastPush(r, i) => LastPush(q, i) /\ r[i] = q[i]
             /\ d.type = "policy" =>
                  /\ HasPush(r)
                  /\ \A i : LastPush(r, i) => r[i] = d
<1> DEFINE r == Append(q, d)
<1>1. /\ Len(q) \in Nat /\ DOMAIN q = 1..Len(q) /\ DOMAIN r = 1..(Len(q) + 1)
      /\ \A i \in DOMAIN q : r[i] = q[i]
      /\ r[Len(q) + 1] = d
  OBVIOUS
<1> HIDE DEF r
<1>2. DOMAIN r = DOMAIN q \cup {Len(q) + 1} /\ Len(q) + 1 \notin DOMAIN q
      /\ \A i \in DOMAIN q : i \in Nat /\ Len(q) + 1 > i
  BY <1>1
<1>3. d.type = "keepalive" =>
        /\ HasPush(r) <=> HasPush(q)
        /\ \A i : LastPush(r, i) => LastPush(q, i) /\ r[i] = q[i]
  BY <1>1, <1>2 DEF HasPush, LastPush
<1>4. d.type = "policy" => HasPush(r) /\ \A i : LastPush(r, i) => r[i] = d
  BY <1>1, <1>2 DEF HasPush, LastPush
<1> QED
  BY <1>3, <1>4 DEF r

\* Without its first datagram a queue has the same last push, or it was that one.
LEMMA PushTaken ==
  ASSUME NEW q \in Seq(Datagram), q # <<>>
  PROVE  /\ \A i : LastPush(Tail(q), i) => LastPush(q, i + 1) /\ Tail(q)[i] = q[i + 1]
         /\ Head(q).type = "keepalive" => (HasPush(Tail(q)) <=> HasPush(q))
         /\ Head(q).type = "policy" => HasPush(q)
         /\ Head(q).type = "policy" /\ ~ HasPush(Tail(q)) => LastPush(q, 1) /\ q[1] = Head(q)
<1> DEFINE r == Tail(q)
<1>1. /\ Len(q) \in Nat \ {0} /\ DOMAIN q = 1..Len(q) /\ DOMAIN r = 1..(Len(q) - 1)
      /\ \A i \in DOMAIN r : r[i] = q[i + 1]
      /\ Head(q) = q[1]
  OBVIOUS
<1> HIDE DEF r
<1>2. /\ \A j \in DOMAIN q : j # 1 => j - 1 \in DOMAIN r /\ r[j - 1] = q[j]
      /\ \A i \in DOMAIN r : i \in Nat /\ i + 1 \in DOMAIN q
      /\ 1 \in DOMAIN q
  BY <1>1
<1>3. ASSUME NEW i, LastPush(r, i) PROVE LastPush(q, i + 1) /\ r[i] = q[i + 1]
  <2>1. i \in DOMAIN r /\ i \in Nat /\ i + 1 \in DOMAIN q /\ r[i] = q[i + 1]
    BY <1>1, <1>2, <1>3 DEF LastPush
  <2>2. ASSUME NEW j \in DOMAIN q, j > i + 1 PROVE q[j].type # "policy"
    <3>1. \E k \in DOMAIN r : k > i /\ r[k] = q[j]
      <4>1. j - 1 \in DOMAIN r /\ j - 1 > i /\ r[j - 1] = q[j]
        BY <1>1, <1>2, <2>1, <2>2
      <4> QED
        BY <4>1
    <3> QED
      BY <1>3, <3>1 DEF LastPush
  <2> QED
    BY <1>3, <2>1, <2>2 DEF LastPush
<1>4. HasPush(r) => HasPush(q)
  BY <1>1, <1>2 DEF HasPush
<1>5. Head(q).type = "keepalive" /\ HasPush(q) => HasPush(r)
  BY <1>1, <1>2 DEF HasPush
<1>6. ASSUME Head(q).type = "policy" PROVE HasPush(q)
  BY <1>1, <1>2, <1>6 DEF HasPush
<1>7. ASSUME Head(q).type = "policy", ~ HasPush(r) PROVE LastPush(q, 1) /\ q[1] = Head(q)
  <2>1. ASSUME NEW j \in DOMAIN q, j > 1 PROVE q[j].type # "policy"
    <3>1. j # 1
      BY <1>1, <2>1
    <3>2. \E k \in DOMAIN r : r[k] = q[j]
      BY <1>2, <3>1
    <3> QED
      BY <1>7, <3>2 DEF HasPush
  <2> QED
    BY <1>1, <1>2, <1>7, <2>1 DEF LastPush
<1> QED
  BY <1>3, <1>4, <1>5, <1>6, <1>7 DEF r

-----------------------------------------------------------------------------
(* The standing of a node.  As long as it has missed no change, the last push *)
(* on its way says what the server's entry says; and when none is on its way, *)
(* the node has it from the last one it read.                                 *)

StandingIs(e, blocked, q) ==
  /\ e = Absent => ~ blocked /\ ~ HasPush(q)
  /\ e # Absent /\ ~ HasPush(q) => blocked = (e.status = "blocked")
  /\ \A i : LastPush(q, i) => q[i].status = e.status

Standing(n) == StandingIs(entry[n], selfBlocked[n], toNode[n])

StatusInv == \A n \in Node : ~ missed[n] => Standing(n)

LEMMA StandingNext ==
  ASSUME NEW n \in Node
  PROVE  Standing(n)' <=> StandingIs(entry'[n], selfBlocked'[n], toNode'[n])
BY DEF Standing, StandingIs, HasPush, LastPush, Absent

LEMMA StandingStays ==
  ASSUME NEW n \in Node, Standing(n),
         entry'[n] = entry[n], selfBlocked'[n] = selfBlocked[n], toNode'[n] = toNode[n]
  PROVE  Standing(n)'
BY StandingNext DEF Standing

LEMMA StandingAppended ==
  ASSUME NEW e, NEW blocked, NEW q \in Seq(Datagram), NEW d \in Datagram
  PROVE  /\ d.type = "keepalive" /\ StandingIs(e, blocked, q) => StandingIs(e, blocked, Append(q, d))
         /\ d.type = "policy" /\ e # Absent /\ d.status = e.status => StandingIs(e, blocked, Append(q, d))
<1> DEFINE r == Append(q, d)
<1>1. /\ d.type = "keepalive" =>
           /\ HasPush(r) <=> HasPush(q)
           /\ \A i : LastPush(r, i) => LastPush(q, i) /\ r[i] = q[i]
      /\ d.type = "policy" =>
           /\ HasPush(r)
           /\ \A i : LastPush(r, i) => r[i] = d
  BY PushAppended
<1> HIDE DEF r
<1>2. d.type = "keepalive" /\ StandingIs(e, blocked, q) => StandingIs(e, blocked, r)
  BY <1>1 DEF StandingIs
<1>3. d.type = "policy" /\ e # Absent /\ d.status = e.status => StandingIs(e, blocked, r)
  BY <1>1 DEF StandingIs
<1> QED
  BY <1>2, <1>3 DEF r

LEMMA StandingTaken ==
  ASSUME NEW e, NEW blocked, NEW q \in Seq(Datagram), q # <<>>, StandingIs(e, blocked, q)
  PROVE  /\ Head(q).type = "keepalive" => StandingIs(e, blocked, Tail(q))
         /\ Head(q).type = "policy" =>
              \A b : HasPush(Tail(q)) \/ b = (Head(q).status = "blocked") => StandingIs(e, b, Tail(q))
<1> DEFINE r == Tail(q)
<1>1. /\ \A i : LastPush(r, i) => LastPush(q, i + 1) /\ r[i] = q[i + 1]
      /\ Head(q).type = "keepalive" => (HasPush(r) <=> HasPush(q))
      /\ Head(q).type = "policy" => HasPush(q)
      /\ Head(q).type = "policy" /\ ~ HasPush(r) => LastPush(q, 1) /\ q[1] = Head(q)
  BY PushTaken
<1> HIDE DEF r
<1>2. \A i : LastPush(r, i) => r[i].status = e.status
  BY <1>1 DEF StandingIs
<1>3. Head(q).type = "keepalive" => StandingIs(e, blocked, r)
  BY <1>1, <1>2 DEF StandingIs
<1>4. ASSUME Head(q).type = "policy", NEW b, HasPush(r) \/ b = (Head(q).status = "blocked")
      PROVE  StandingIs(e, b, r)
  <2>1. e # Absent
    BY <1>1, <1>4 DEF StandingIs
  <2>2. ~ HasPush(r) => Head(q).status = e.status
    BY <1>1, <1>4 DEF StandingIs
  <2> QED
    BY <1>2, <1>4, <2>1, <2>2 DEF StandingIs
<1> QED
  BY <1>3, <1>4 DEF r

\* The steps of a node concern its own standing.
LEMMA NodeKeepsStatus ==
  ASSUME TypeOK, EntryInv, StatusInv, NEW n \in Node, NodeNext(n)
  PROVE  StatusInv'
<1>t. /\ selfBlocked \in [Node -> BOOLEAN] /\ missed \in [Node -> BOOLEAN]
      /\ toNode \in [Node -> Seq(Datagram)] /\ toNode[n] \in Seq(Datagram)
      /\ entry \in [Node -> [status : Status, addr : Address \cup {NoAddress}]]
  BY DEF TypeOK, Datagram
<1>o. \A m \in Node \ {n} : /\ entry'[m] = entry[m] /\ selfBlocked'[m] = selfBlocked[m]
                           /\ toNode'[m] = toNode[m] /\ missed'[m] = missed[m]
  <2>1. CASE Registers(n)
    <3>1. \A m \in Node \ {n} : entry'[m] = entry[m]
      BY <1>t, <2>1, RegistersRegisters, RegisterEntries
    <3>2. UNCHANGED <<selfBlocked, toNode, missed>>
      BY <2>1 DEF Registers, Join, Answered, LoseReply, nodes
    <3> QED
      BY <3>1, <3>2
  <2>2. CASE ~ Registers(n)
    <3>1. UNCHANGED entry
      BY <2>2 DEF NodeNext, Registers, Rejoin, KeepAlive, ReadAnswer, Silence, ReadDirect, ReadPolicy,
                  LoseDatagram, UseServer, RestartNode, server
    <3>2. \A m \in Node \ {n} : selfBlocked'[m] = selfBlocked[m] /\ missed'[m] = missed[m]
      BY <1>t, <2>2 DEF NodeNext, Registers, Rejoin, KeepAlive, ReadAnswer, Silence, ReadDirect,
                        ReadPolicy, LoseDatagram, UseServer, RestartNode, nodes
    <3>3. \A m \in Node \ {n} : toNode'[m] = toNode[m]
      BY <1>t, <2>2 DEF NodeNext, Registers, Rejoin, KeepAlive, ReadAnswer, Silence, ReadDirect,
                        ReadPolicy, LoseDatagram, UseServer, RestartNode
    <3> QED
      BY <3>1, <3>2, <3>3
  <2> QED
    BY <2>1, <2>2
<1>n. SUFFICES ASSUME ~ missed'[n]
              PROVE  StandingIs(entry'[n], selfBlocked'[n], toNode'[n])
  BY <1>o, StandingStays, StandingNext DEF StatusInv
<1>1. CASE Registers(n)
  <2>1. /\ entry'[n].status # "absent"
        /\ entry[n] # Absent => entry'[n] = entry[n]
        /\ entry[n] = Absent => entry'[n].status = "active"
    BY <1>t, <1>1, RegistersRegisters, RegisterEntries
  <2>2. UNCHANGED <<selfBlocked, toNode, missed>>
    BY <1>1 DEF Registers, Join, Answered, LoseReply, nodes
  <2>3. Standing(n)
    BY <1>n, <2>2 DEF StatusInv
  <2>4. CASE entry[n] = Absent
    <3>1. ~ selfBlocked[n] /\ \A i : ~ LastPush(toNode[n], i)
      BY <2>3, <2>4 DEF Standing, StandingIs, HasPush, LastPush
    <3>2. entry'[n] # Absent
      BY <2>1 DEF Absent
    <3> QED
      BY <1>t, <2>1, <2>2, <2>4, <3>1, <3>2 DEF StandingIs
  <2>5. CASE entry[n] # Absent
    BY <2>1, <2>2, <2>3, <2>5 DEF Standing
  <2> QED
    BY <2>4, <2>5
<1>2. CASE Rejoin(n) \/ Silence(n) \/ ReadDirect(n) \/ UseServer(n)
  <2>1. UNCHANGED <<entry, selfBlocked, toNode, missed>>
    BY <1>2 DEF Rejoin, Silence, ReadDirect, UseServer, server
  <2> QED
    BY <1>n, <2>1 DEF StatusInv, Standing
<1>3. CASE KeepAlive(n)
  <2> DEFINE d == [type |-> "keepalive", key |-> generation]
  <2>1. d \in Datagram /\ d.type = "keepalive"
    BY DEF Datagram, Answer, TypeOK
  <2>2. UNCHANGED <<entry, selfBlocked, missed>> /\ toNode'[n] = Append(toNode[n], d)
    BY <1>3, <1>t DEF KeepAlive, nodes
  <2> HIDE DEF d
  <2>3. Standing(n)
    BY <1>n, <2>2 DEF StatusInv
  <2> QED
    BY <1>t, <2>1, <2>2, <2>3, StandingAppended DEF Standing
<1>4. CASE ReadAnswer(n)
  <2>1. /\ UNCHANGED <<entry, selfBlocked, missed>> /\ toNode'[n] = Tail(toNode[n])
        /\ toNode[n] # <<>> /\ Head(toNode[n]).type = "keepalive"
    BY <1>4, <1>t DEF ReadAnswer, server
  <2>2. Standing(n)
    BY <1>n, <2>1 DEF StatusInv
  <2> QED
    BY <1>t, <2>1, <2>2, StandingTaken DEF Standing
<1>5. CASE ReadPolicy(n)
  <2>1. /\ UNCHANGED entry /\ toNode'[n] = Tail(toNode[n])
        /\ toNode[n] # <<>> /\ Head(toNode[n]).type = "policy"
    BY <1>5, <1>t DEF ReadPolicy, server
  <2>2. \/ ~ missed[n] /\ selfBlocked'[n] = (Head(toNode[n]).status = "blocked")
        \/ ~ missed[n] /\ HasPush(Tail(toNode[n]))
    BY <1>5, <1>t, <1>n DEF ReadPolicy, Superseded, HasPush
  <2>3. Standing(n)
    BY <2>2 DEF StatusInv
  <2>4. \A b : HasPush(Tail(toNode[n])) \/ b = (Head(toNode[n]).status = "blocked")
               => StandingIs(entry[n], b, Tail(toNode[n]))
    BY <1>t, <2>1, <2>3, StandingTaken DEF Standing
  <2>5. StandingIs(entry[n], selfBlocked'[n], Tail(toNode[n]))
    BY <2>2, <2>4, Zenon
  <2> QED
    BY <2>1, <2>5
<1>6. CASE LoseDatagram(n)
  <2>1. /\ UNCHANGED <<entry, selfBlocked>> /\ toNode'[n] = Tail(toNode[n])
        /\ toNode[n] # <<>>
    BY <1>6, <1>t DEF LoseDatagram, server, nodes
  <2>2. /\ ~ missed[n]
        /\ Head(toNode[n]).type = "policy" => HasPush(Tail(toNode[n]))
    BY <1>6, <1>t, <1>n DEF LoseDatagram, Superseded, HasPush
  <2>3. Standing(n)
    BY <2>2 DEF StatusInv
  <2>4. Head(toNode[n]).type \in {"keepalive", "policy"}
    <3>1. Head(toNode[n]) \in Datagram
      BY <1>t, <2>1
    <3> QED
      BY <3>1, DatagramTypes
  <2> QED
    BY <1>t, <2>1, <2>2, <2>3, <2>4, StandingTaken DEF Standing
<1>7. CASE RestartNode(n)
  BY <1>7, <1>t, <1>n DEF RestartNode
<1> QED
  BY <1>1, <1>2, <1>3, <1>4, <1>5, <1>6, <1>7 DEF NodeNext, Registers

\* A command: who is told has the change on its way, who is not has missed it.
LEMMA CommandKeepsStatus ==
  ASSUME TypeOK, EntryInv, StatusInv, NEW k \in Node, SetStatus(k)
  PROVE  StatusInv'
<1> SUFFICES ASSUME NEW n \in Node, ~ missed'[n]
             PROVE  StandingIs(entry'[n], selfBlocked'[n], toNode'[n])
  BY StandingNext DEF StatusInv
<1>t. /\ toNode \in [Node -> Seq(Datagram)] /\ generation \in Nat
      /\ entry \in [Node -> [status : Status, addr : Address \cup {NoAddress}]]
      /\ entry' \in [Node -> [status : Status, addr : Address \cup {NoAddress}]]
  BY StepEntries DEF TypeOK, Datagram, Next
<1>b. /\ toNode'[n] = IF Told(n) THEN Append(toNode[n], Notice(n)) ELSE toNode[n]
      /\ missed'[n] = (~ Told(n) /\ (missed[n] \/ entry'[n].status # "absent"))
      /\ UNCHANGED selfBlocked
  BY DEF SetStatus, Broadcast, NotTold, nodes
<1>1. CASE Told(n)
  <2>1. Notice(n) \in Datagram /\ Notice(n).type = "policy" /\ Notice(n).status = entry'[n].status
    BY <1>t DEF Notice, Datagram, Push
  <2>2. entry'[n] # Absent
    BY <1>1 DEF Told, Absent
  <2>3. toNode'[n] = Append(toNode[n], Notice(n)) /\ toNode[n] \in Seq(Datagram)
    BY <1>t, <1>b, <1>1
  <2>4. StandingIs(entry'[n], selfBlocked'[n], Append(toNode[n], Notice(n)))
    BY <2>1, <2>2, <2>3, StandingAppended
  <2> QED
    BY <2>3, <2>4
<1>2. CASE ~ Told(n)
  <2>1. ~ missed[n] /\ entry'[n].status = "absent"
    BY <1>b, <1>2
  <2>2. entry'[n] = entry[n]
    BY <1>t, <2>1 DEF SetStatus
  <2> QED
    BY <1>b, <1>2, <2>1, <2>2 DEF StatusInv, Standing
<1> QED
  BY <1>1, <1>2

\* broadcastPolicyChanged and handlePolicyChanged: a node that has missed no
\* change knows whether the server has it blocked.
THEOREM NodeKnowsItsStatus == Spec => []StatusKnown
<1>1. ASSUME Init PROVE StatusInv
  <2>1. ASSUME NEW n \in Node PROVE ~ HasPush(toNode[n]) /\ \A i : ~ LastPush(toNode[n], i)
    BY <1>1, <2>1 DEF Init, HasPush, LastPush
  <2>2. \A n \in Node : entry[n] = Absent /\ ~ selfBlocked[n]
    BY <1>1 DEF Init
  <2> QED
    BY <2>1, <2>2 DEF StatusInv, Standing, StandingIs
<1>2. ASSUME TypeOK, EntryInv, StatusInv, [Next]_vars
      PROVE  StatusInv'
  <2>1. CASE ServerDown \/ ServerUp \/ UNCHANGED vars
    <3>1. UNCHANGED <<entry, selfBlocked, toNode, missed>>
      BY <2>1 DEF ServerDown, ServerUp, vars, server, nodes
    <3> QED
      BY <1>2, <3>1, StandingStays DEF StatusInv
  <2>2. CASE Reinstall
    BY <2>2 DEF Reinstall, StatusInv
  <2> QED
    BY <1>2, <2>1, <2>2, NodeKeepsStatus, CommandKeepsStatus DEF Next
<1>3. ASSUME TypeOK, StatusInv PROVE StatusKnown
  <2> SUFFICES ASSUME NEW n \in Node, ~ missed[n], ~ PushUnderWay(n), entry[n].status # "absent"
               PROVE  selfBlocked[n] = (entry[n].status = "blocked")
    BY DEF StatusKnown
  <2>1. ~ HasPush(toNode[n]) /\ entry[n] # Absent
    BY DEF HasPush, PushUnderWay, Absent
  <2> QED
    BY <1>3, <2>1 DEF StatusInv, Standing, StandingIs
<1> QED
  BY <1>1, <1>2, <1>3, NodeLinkTyped, PTL DEF Spec
=============================================================================
