------------------------------ MODULE NodeLink ------------------------------
(***************************************************************************)
(* The link between nodes and server once they run (internal/node/data.go  *)
(* and node.go against internal/server): keep-alives and their answers,    *)
(* serverWatch and its rejoins, the key of the server that a node trusts,  *)
(* and the status that policy pushes carry.                                *)
(*                                                                         *)
(* All nodes are machines of the admin, which the server approves at once. *)
(* The exchange of a join is one step (NodeJoin has its datagrams), and so *)
(* is a keep-alive with what the server makes of it; answers and pushes    *)
(* are datagrams, read in the order in which they were sent.  Removing     *)
(* state.json gives a server another identity and an empty registry:       *)
(* another generation.                                                     *)
(***************************************************************************)
EXTENDS Naturals, FiniteSets, Sequences

CONSTANTS
  Node,
  Address,    \* numbers, which the server gives away in order
  NoAddress,
  Events,     \* the kinds of disturbance that may happen
  MaxEvents   \* bound: how many of them

EventKind == {"command", "outage", "reinstall", "restart", "lose", "traffic"}

ASSUME AddressesSuffice ==
  /\ IsFiniteSet(Node)
  /\ Address \subseteq Nat
  /\ IsFiniteSet(Address)
  /\ Cardinality(Node) <= Cardinality(Address)
  /\ NoAddress \notin Address
ASSUME EventsAreKnown == Events \subseteq EventKind
ASSUME MaxEventsIsNumber == MaxEvents \in Nat

VARIABLES
  generation,   \* how often the server has got another identity
  entry,        \* the registry: per node its status and address
  known,        \* nodes whose endpoint the server has
  up,           \* does the server run?
  trusted,      \* per node: the generation of the server key it has stored
  addr,         \* n.vpnIP
  device,       \* the address of the TUN device
  seen,         \* is lastServerSeen recent, or will the watch find it stale?
  watch,        \* is serverWatch (or the first join) watching or joining?
  selfBlocked,
  serverPeer,   \* n.peers of the server's address: whose key it has; 0: no entry
  toNode,       \* datagrams under way to a node
  missed,       \* history: has a change of the node's status not reached it?
  events        \* how many disturbances there have been

server == <<generation, entry, known, up>>
nodes == <<trusted, addr, device, seen, watch, selfBlocked, serverPeer>>
vars == <<server, nodes, toNode, missed, events>>

Status == {"absent", "active", "blocked"}
Answer == [type: {"keepalive"}, key: Nat]
Push == [type: {"policy"}, key: Nat, status: Status]
Absent == [status |-> "absent", addr |-> NoAddress]

Init ==
  /\ generation = 1
  /\ entry = [n \in Node |-> Absent]
  /\ known = {}
  /\ up = TRUE
  /\ trusted = [n \in Node |-> 0]
  /\ addr = [n \in Node |-> NoAddress]
  /\ device = [n \in Node |-> NoAddress]
  /\ seen = [n \in Node |-> "recent"]
  /\ watch = [n \in Node |-> "joining"]
  /\ selfBlocked = [n \in Node |-> FALSE]
  /\ serverPeer = [n \in Node |-> 0]
  /\ toNode = [n \in Node |-> <<>>]
  /\ missed = [n \in Node |-> FALSE]
  /\ events = 0

Disturb(kind) ==
  /\ kind \in Events
  /\ events < MaxEvents
  /\ events' = events + 1

-----------------------------------------------------------------------------
(* Joining and rejoining. *)

Free == Address \ {entry[n].addr : n \in Node}

Lowest(S) == CHOOSE a \in S : \A b \in S : a <= b

\* RegisterJoin and autoApproveAdmin: a key that is known keeps its entry.
Registered(n) ==
  IF entry[n].status = "absent"
  THEN [status |-> "active", addr |-> Lowest(Free)]
  ELSE entry[n]

\* sendJoinReply remembers where the address leads, for a blocked machine too.
Register(n) ==
  /\ entry' = [entry EXCEPT ![n] = Registered(n)]
  /\ known' = known \cup {n}
  /\ UNCHANGED <<generation, up>>

\* Mutant of Adopt: a node that has its device keeps its address, too.
AdoptOnce(n, a) ==
  /\ addr' = [addr EXCEPT ![n] = IF device[n] = NoAddress THEN a ELSE @]
  /\ device' = [device EXCEPT ![n] = IF @ = NoAddress THEN a ELSE @]
  /\ watch' = [watch EXCEPT ![n] = "watching"]

\* adoptVPNIP: the address is taken over; a device that is there stays.
Adopt(n, a) ==
  /\ addr' = [addr EXCEPT ![n] = a]
  /\ device' = [device EXCEPT ![n] = IF @ = NoAddress THEN a ELSE @]
  /\ watch' = [watch EXCEPT ![n] = "watching"]

\* Mutant of Answered: any answer but a rejection ends the join.
AnsweredAnyhow(n) ==
  /\ watch[n] = "joining"
  /\ up
  /\ Register(n)
  /\ seen' = [seen EXCEPT ![n] = "recent"]
  /\ IF Registered(n).status = "active"
     THEN Adopt(n, Registered(n).addr)
     ELSE watch' = [watch EXCEPT ![n] = "watching"] /\ UNCHANGED <<addr, device>>
  /\ UNCHANGED <<selfBlocked, toNode, missed, events>>

\* tryJoin: the server answers a machine that it has blocked, too, and that
\* machine tries again.
Answered(n) ==
  /\ watch[n] = "joining"
  /\ up
  /\ Register(n)
  /\ seen' = [seen EXCEPT ![n] = "recent"]
  /\ IF Registered(n).status = "active"
     THEN Adopt(n, Registered(n).addr)
     ELSE UNCHANGED <<addr, device, watch>>
  /\ UNCHANGED <<selfBlocked, toNode, missed, events>>

\* Mutant of Join: the entry with the old key stays.
JoinKeepingPeer(n) ==
  /\ Answered(n)
  /\ trusted' = [trusted EXCEPT ![n] = generation]
  /\ UNCHANGED serverPeer

\* acceptServerKeys: the reply brings the server's key, whatever was trusted,
\* and the entry with another key goes.  (An entry that is just being made
\* from the old key is stored before it is deleted: both hold n.mu.)
Join(n) ==
  /\ Answered(n)
  /\ trusted' = [trusted EXCEPT ![n] = generation]
  /\ serverPeer' = [serverPeer EXCEPT ![n] = IF trusted[n] = generation THEN @ ELSE 0]

\* The server has registered the node, and its reply is lost.
LoseReply(n) ==
  /\ watch[n] = "joining"
  /\ up
  /\ Disturb("lose")
  /\ Register(n)
  /\ UNCHANGED <<nodes, toNode, missed>>

\* serverWatch, once a second.
Rejoin(n) ==
  /\ watch[n] = "watching"
  /\ seen[n] = "stale"
  /\ watch' = [watch EXCEPT ![n] = "joining"]
  /\ seen' = [seen EXCEPT ![n] = "recent"]
  /\ UNCHANGED <<server, trusted, addr, device, selfBlocked, serverPeer, toNode, missed, events>>

-----------------------------------------------------------------------------
(* Keep-alives. *)

\* The server finds the sender by its address and checks its key; it answers
\* blocked machines, too.
Heard(n) == up /\ addr[n] # NoAddress /\ entry[n].addr = addr[n]

Awaits(n) == \E i \in DOMAIN toNode[n] : toNode[n][i].type = "keepalive"

\* Mutant of KeepAlive: the server answers and does not note the endpoint.
KeepAliveUnnoted(n) ==
  /\ Heard(n)
  /\ ~ Awaits(n)
  /\ toNode' = [toNode EXCEPT ![n] = Append(@, [type |-> "keepalive", key |-> generation])]
  /\ UNCHANGED <<server, nodes, missed, events>>

\* keepAliveLoop, while no answer is under way.
KeepAlive(n) ==
  /\ Heard(n)
  /\ ~ Awaits(n)
  /\ known' = known \cup {n}
  /\ toNode' = [toNode EXCEPT ![n] = Append(@, [type |-> "keepalive", key |-> generation])]
  /\ UNCHANGED <<generation, entry, up, nodes, missed, events>>

\* readFromUDP: any datagram counts as a sign of the server, but an answer
\* whose signature does not fit marks the link as stale.
ReadAnswer(n) ==
  /\ toNode[n] # <<>>
  /\ Head(toNode[n]).type = "keepalive"
  /\ toNode' = [toNode EXCEPT ![n] = Tail(@)]
  /\ seen' = [seen EXCEPT ![n] = IF Head(toNode[n]).key = trusted[n] THEN "recent" ELSE "stale"]
  /\ UNCHANGED <<server, trusted, addr, device, watch, selfBlocked, serverPeer, missed, events>>

\* Nothing has come for fifteen seconds.
Silence(n) ==
  /\ ~ Heard(n)
  /\ toNode[n] = <<>>
  /\ seen[n] = "recent"
  /\ seen' = [seen EXCEPT ![n] = "stale"]
  /\ UNCHANGED <<server, trusted, addr, device, watch, selfBlocked, serverPeer, toNode, missed,
                 events>>

\* A datagram of a peer counts as a sign of the server, too, and so does one
\* of the server's host, before anything is verified.
ReadDirect(n) ==
  /\ Disturb("traffic")
  /\ addr[n] # NoAddress
  /\ seen[n] = "stale"
  /\ seen' = [seen EXCEPT ![n] = "recent"]
  /\ UNCHANGED <<server, trusted, addr, device, watch, selfBlocked, serverPeer, toNode, missed>>

-----------------------------------------------------------------------------
(* Packets between the node and the server's host. *)

\* ensureServerPeer: the key to which the node seals packets for the server.  An
\* entry is never refreshed; a missing one is made from the trusted key.
SealsFor(n) == IF serverPeer[n] = 0 THEN trusted[n] ELSE serverPeer[n]

\* readFromTUN and sendTo, of a packet to the server, which notes the endpoint
\* of an active sender before it tries to open the packet (localData).  What
\* the server's host sends (sendLocalData) makes the entry in the same way.
UseServer(n) ==
  /\ addr[n] # NoAddress
  /\ ~ selfBlocked[n]
  /\ serverPeer' = [serverPeer EXCEPT ![n] = SealsFor(n)]
  /\ known' = IF Heard(n) /\ entry[n].status = "active" THEN known \cup {n} ELSE known
  /\ UNCHANGED <<generation, entry, up, trusted, addr, device, seen, watch, selfBlocked,
                 toNode, missed, events>>

-----------------------------------------------------------------------------
(* Commands and the status they push. *)

Told(n) == n \in known /\ entry'[n].status # "absent"

Notice(n) == [type |-> "policy", key |-> generation, status |-> entry'[n].status]

NotTold ==
  [n \in Node |-> ~ Told(n) /\ (missed[n] \/ entry'[n].status # "absent")]

\* Mutant of Broadcast: blocked machines are skipped.
BroadcastToActive ==
  /\ toNode' = [n \in Node |->
       IF Told(n) /\ entry'[n].status = "active" THEN Append(toNode[n], Notice(n)) ELSE toNode[n]]
  /\ missed' = NotTold

\* broadcastPolicyChanged: every machine whose endpoint is known is told its
\* own status.
Broadcast ==
  /\ toNode' = [n \in Node |-> IF Told(n) THEN Append(toNode[n], Notice(n)) ELSE toNode[n]]
  /\ missed' = NotTold

\* deny of an active machine, and allow of a blocked one.
SetStatus(n) ==
  /\ up
  /\ Disturb("command")
  /\ \/ entry[n].status = "active" /\ entry' = [entry EXCEPT ![n].status = "blocked"]
     \/ entry[n].status = "blocked" /\ entry' = [entry EXCEPT ![n].status = "active"]
  /\ Broadcast
  /\ UNCHANGED <<generation, known, up, nodes>>

\* Is there a push behind the datagram that comes next?
Superseded(n) == \E i \in DOMAIN Tail(toNode[n]) : Tail(toNode[n])[i].type = "policy"

\* handlePolicyChanged: what the trusted key has not signed is ignored.
ReadPolicy(n) ==
  LET m == Head(toNode[n])
  IN  /\ toNode[n] # <<>>
      /\ m.type = "policy"
      /\ toNode' = [toNode EXCEPT ![n] = Tail(@)]
      /\ seen' = [seen EXCEPT ![n] = "recent"]
      /\ IF m.key = trusted[n]
         THEN selfBlocked' = [selfBlocked EXCEPT ![n] = (m.status = "blocked")] /\ UNCHANGED missed
         ELSE missed' = [missed EXCEPT ![n] = @ \/ ~ Superseded(n)] /\ UNCHANGED selfBlocked
      /\ UNCHANGED <<server, trusted, addr, device, watch, serverPeer, events>>

LoseDatagram(n) ==
  /\ toNode[n] # <<>>
  /\ Disturb("lose")
  /\ toNode' = [toNode EXCEPT ![n] = Tail(@)]
  /\ missed' = [missed EXCEPT ![n] = @ \/ (Head(toNode[n]).type = "policy" /\ ~ Superseded(n))]
  /\ UNCHANGED <<server, nodes>>

-----------------------------------------------------------------------------
(* Stops and starts. *)

ServerDown ==
  /\ up
  /\ Disturb("outage")
  /\ up' = FALSE
  /\ known' = {}
  /\ UNCHANGED <<generation, entry, nodes, toNode, missed>>

ServerUp ==
  /\ ~ up
  /\ up' = TRUE
  /\ UNCHANGED <<generation, entry, known, nodes, toNode, missed, events>>

\* state.json is removed while the server is down.
Reinstall ==
  /\ ~ up
  /\ Disturb("reinstall")
  /\ generation' = generation + 1
  /\ entry' = [n \in Node |-> Absent]
  /\ missed' = [n \in Node |-> TRUE]
  /\ UNCHANGED <<known, up, nodes, toNode>>

\* The node's process starts again; its state.json has the server's key.
RestartNode(n) ==
  /\ Disturb("restart")
  /\ addr' = [addr EXCEPT ![n] = NoAddress]
  /\ device' = [device EXCEPT ![n] = NoAddress]
  /\ seen' = [seen EXCEPT ![n] = "recent"]
  /\ watch' = [watch EXCEPT ![n] = "joining"]
  /\ selfBlocked' = [selfBlocked EXCEPT ![n] = FALSE]
  /\ serverPeer' = [serverPeer EXCEPT ![n] = 0]
  /\ toNode' = [toNode EXCEPT ![n] = <<>>]
  /\ missed' = [missed EXCEPT ![n] = TRUE]
  /\ UNCHANGED <<server, trusted>>

-----------------------------------------------------------------------------
NodeNext(n) ==
  \/ Join(n) \/ LoseReply(n) \/ Rejoin(n)
  \/ KeepAlive(n) \/ ReadAnswer(n) \/ Silence(n) \/ ReadDirect(n)
  \/ ReadPolicy(n) \/ LoseDatagram(n) \/ UseServer(n) \/ RestartNode(n)

Next ==
  \/ \E n \in Node : NodeNext(n) \/ SetStatus(n)
  \/ ServerDown \/ ServerUp \/ Reinstall

\* Loops and timers run, and a server that is down comes back.
Fairness ==
  /\ \A n \in Node : /\ WF_vars(Join(n)) /\ WF_vars(Rejoin(n)) /\ WF_vars(KeepAlive(n))
                     /\ WF_vars(ReadAnswer(n)) /\ WF_vars(ReadPolicy(n)) /\ WF_vars(Silence(n))
  /\ WF_vars(ServerUp)

Spec == Init /\ [][Next]_vars /\ Fairness

-----------------------------------------------------------------------------
(* Type correctness: the registry, the nodes and the datagrams under way to  *)
(* them; and a node that serves has its address and its device (Run, which   *)
(* calls serve when join has returned).                                      *)
TypeOK ==
  /\ generation \in Nat
  /\ entry \in [Node -> [status : Status, addr : Address \cup {NoAddress}]]
  /\ known \subseteq Node
  /\ up \in BOOLEAN
  /\ trusted \in [Node -> 0..generation]
  /\ addr \in [Node -> Address \cup {NoAddress}]
  /\ device \in [Node -> Address \cup {NoAddress}]
  /\ seen \in [Node -> {"recent", "stale"}]
  /\ watch \in [Node -> {"joining", "watching"}]
  /\ \A n \in Node : watch[n] = "watching" => NoAddress \notin {addr[n], device[n]}
  /\ selfBlocked \in [Node -> BOOLEAN]
  /\ serverPeer \in [Node -> 0..generation]
  /\ toNode \in [Node -> Seq(Answer \cup Push)]
  /\ missed \in [Node -> BOOLEAN]
  /\ events \in 0..MaxEvents

PushUnderWay(n) == \E i \in DOMAIN toNode[n] : toNode[n][i].type = "policy"

(* A node that has got the last push about itself knows its standing: it is   *)
(* silent exactly while the server has it blocked, through keep-alives,       *)
(* outages, rejoins and pushes signed by an older key (handlePolicyChanged).  *)
(* The push is the only message that carries the status to a running node, so *)
(* nothing is said of a node that missed it.                                  *)
StatusKnown ==
  \A n \in Node :
    ~ missed[n] /\ ~ PushUnderWay(n) /\ entry[n].status # "absent"
      => selfBlocked[n] = (entry[n].status = "blocked")

(* A node that watches the link and trusts the server's present key works     *)
(* under the address that the server has for it, which no other entry has,    *)
(* and seals its packets to the server for that key, although its entry of    *)
(* the server never ages and no push drops it: after any sequence of losses,  *)
(* restarts and removals of the state (tryJoin, adoptVPNIP, acceptServerKeys, *)
(* ensureServerPeer).                                                         *)
LinkedIsRegistered ==
  \A n \in Node :
    watch[n] = "watching" /\ trusted[n] = generation
      => /\ entry[n].status # "absent"
         /\ addr[n] = entry[n].addr
         /\ SealsFor(n) = generation
         /\ \A m \in Node \ {n} : entry[m].addr # addr[n]

Follows(n) ==
  /\ trusted[n] = generation
  /\ entry[n].status = "active"
       => watch[n] = "watching" /\ addr[n] = entry[n].addr /\ n \in known

(* Once disturbances end, every node finds the server again: it trusts the    *)
(* present key, works under the address that the server has for it unless it  *)
(* is blocked, and the server knows where to reach it (serverWatch,           *)
(* serverAuthFailed, keepAliveLoop).                                          *)
FollowsServer == \A n \in Node : <>[]Follows(n)
=============================================================================
