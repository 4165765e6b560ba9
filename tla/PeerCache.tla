----------------------------- MODULE PeerCache -----------------------------
(***************************************************************************)
(* The data plane of the nodes (internal/node/data.go) on the server's     *)
(* (Relay): each node's cache of its peers, the queries that fill it, the  *)
(* pushes that drop it and the packets it lets out and in.                 *)
(*                                                                         *)
(* Three kinds of goroutine of a node interleave: readFromTUN (Tun), which *)
(* sends the packets of the applications; readFromUDP, whose handlers run  *)
(* whole between two of its reads; and the Workers that handleData starts  *)
(* with go.  Tun and the workers wait for answers on one channel of        *)
(* capacity one, queryReplyCh.                                             *)
(*                                                                         *)
(* Abstractions.  An endpoint is the node behind it.  What sendTo does     *)
(* with the entry that ensurePeer has just stored is one step with the     *)
(* storing: it reads the entry by its own pointer, so a drop in between    *)
(* changes nothing.  The fields of an entry are written and read as one.   *)
(* sendTo finds lastSeen at most a second old, so p2pFreshAfter never      *)
(* decides.  A wait ends by the timeout only when no query or answer of    *)
(* the node is under way; at the nodes Slow it may, once, end too early.   *)
(***************************************************************************)
EXTENDS Relay, Sequences

CONSTANTS
  Tun,         \* the goroutine readFromTUN of each node
  Worker,      \* the goroutines that handleData starts
  Started,     \* bound: <<node, worker>>; a worker beyond it is not started
  Traffic,     \* the <<src, dst, kind>> that the applications send
  Direct,      \* the <<src, dst>> between which direct packets get through
  QueueLimit,  \* how many packets cachePacket keeps for a peer (4)
  Slow,        \* bound: the nodes that may, once, time out too early
  MaxFaults,   \* bound: datagrams lost and nodes timed out too early
  MaxPackets,  \* bound: packets under way when an application sends another
  NoEntry,     \* no entry in the cache
  NoNode       \* no endpoint

Thread == Worker \cup {Tun}

ASSUME TunIsNoWorker == Tun \notin Worker
ASSUME WorkersAreFinite == IsFiniteSet(Worker)
ASSUME StartedIsTyped == Started \subseteq Node \X Worker
ASSUME TrafficIsTyped == Traffic \subseteq Node \X Node \X Kind
ASSUME SlowAreNodes == Slow \subseteq Node
ASSUME NoNodeIsOutside == NoNode \notin Node
ASSUME LimitsAreNumbers == {QueueLimit, MaxFaults, MaxPackets} \subseteq Nat

VARIABLES
  selfBlocked,  \* per node: the server has said that it is blocked
  cache,        \* per node and peer: n.peers
  pending,      \* per node and peer: packets that came before an entry
  replyCh,      \* per node: queryReplyCh
  job,          \* per node and thread: what the goroutine is doing
  sent,         \* history: <<src, dst>> of which src has sent a packet to dst
  heard,        \* history: <<src, dst, kind>> that reached an application
  lost,         \* how many datagrams have been lost
  early         \* the nodes that have timed out before an answer came

faults == <<lost, early>>
node == <<selfBlocked, cache, pending, replyCh, job, sent, heard>>
vars == <<policy, flows, net, node, faults>>

\* A peer as the cache knows it.  direct is directOK; fresh, that lastSeen is
\* less than a second ago.
Entry == [owner: Node, call: BOOLEAN, back: BOOLEAN, addr: Node \cup {NoNode},
          direct: BOOLEAN, fresh: BOOLEAN]

Arrival == [direct: BOOLEAN, packet: Packet]

\* Tun waits to send a packet of some kind; a worker starts or waits to
\* refresh an entry, or to flush a queue it then drains.
Idle == [step |-> "idle"]

Job == {Idle}
  \cup [step: {"send"}, about: Node, kind: Kind]
  \cup [step: {"startRefresh", "refresh", "startFlush", "flush"}, about: Node]
  \cup [step: {"drain"}, queue: Seq(Arrival)]

Waits(j) == j.step \in {"send", "refresh", "flush"}

Init ==
  /\ ServerInit
  /\ selfBlocked = [n \in Node |-> FALSE]
  /\ cache = [n \in Node |-> [p \in Node |-> NoEntry]]
  /\ pending = [n \in Node |-> [p \in Node |-> <<>>]]
  /\ replyCh = [n \in Node |-> <<>>]
  /\ job = [n \in Node |-> [t \in Thread |-> Idle]]
  /\ sent = {}
  /\ heard = {}
  /\ lost = 0
  /\ early = {}

-----------------------------------------------------------------------------
(* Sending: readFromTUN, sendTo and ensurePeer. *)

Fresh(n, p) == cache[n][p] # NoEntry /\ cache[n][p].fresh

\* An entry that is missing or a second old is asked for again.
MustAsk(n, p) == ~ Fresh(n, p)

\* The datagrams of a packet: direct to the endpoint when both may call, and
\* through the relay unless the peer has lately sent a direct one itself.
Outgoing(n, p, kind, e) ==
  LET packet == [from |-> n, to |-> p, kind |-> kind, key |-> e.owner]
      both == e.call /\ e.back
  IN {[type |-> "data", to |-> a, direct |-> TRUE, packet |-> packet] :
        a \in {e.addr} \cap {b \in Node : both /\ <<n, b>> \in Direct}}
     \cup {[type |-> "relay", packet |-> q] :
        q \in {packet} \ {r \in {packet} : both /\ e.direct}}

\* sendTo, once ensurePeer has returned entry e: a call that is not permitted
\* drops the entry instead.
SendTo(n, p, kind, e) ==
  LET denied == kind = "call" /\ ~ e.call
  IN /\ cache' = [cache EXCEPT ![n][p] = IF denied THEN NoEntry ELSE e]
     /\ net' = IF denied THEN net ELSE net \cup Outgoing(n, p, kind, e)
     /\ sent' = IF denied THEN sent ELSE sent \cup {<<n, p>>}

\* Mutant: a stale entry is refreshed without waiting for the answer.
AskInBackground(n, t, j) ==
  /\ job' = [job EXCEPT ![n][t] = IF cache[n][j.about] = NoEntry THEN j ELSE Idle]
  /\ net' = net \cup {[type |-> "query", from |-> n, about |-> j.about, by |-> t]}

\* queryPeer: send the query and wait.
Ask(n, t, j) ==
  /\ job' = [job EXCEPT ![n][t] = j]
  /\ net' = net \cup {[type |-> "query", from |-> n, about |-> j.about, by |-> t]}

PacketsUnderWay == {m \in net : m.type \in {"data", "relay"}}

ReadFromTUN(n, p, kind) ==
  /\ job[n][Tun] = Idle
  /\ ~ selfBlocked[n]
  /\ Cardinality(PacketsUnderWay) < MaxPackets
  /\ \/ /\ ~ MustAsk(n, p)
        /\ SendTo(n, p, kind, cache[n][p])
        /\ UNCHANGED job
     \/ /\ MustAsk(n, p)
        /\ Ask(n, Tun, [step |-> "send", about |-> p, kind |-> kind])
        /\ UNCHANGED <<cache, sent>>
  /\ UNCHANGED <<server, selfBlocked, pending, replyCh, heard, faults>>

\* What a worker does once there is an entry: a flush takes the queue.
TakeQueue(n, w, j) ==
  /\ job' = [job EXCEPT ![n][w] =
       IF j.step \in {"startFlush", "flush"}
         THEN [step |-> "drain", queue |-> pending[n][j.about]]
         ELSE Idle]
  /\ pending' = IF j.step \in {"startFlush", "flush"}
                  THEN [pending EXCEPT ![n][j.about] = <<>>]
                  ELSE pending

\* A worker looks for a fresh entry.
StartWorker(n, w) ==
  LET j == job[n][w]
  IN /\ j.step \in {"startRefresh", "startFlush"}
     /\ \/ /\ ~ MustAsk(n, j.about)
           /\ TakeQueue(n, w, j)
           /\ UNCHANGED net
        \/ /\ MustAsk(n, j.about)
           /\ Ask(n, w, [step |-> IF j.step = "startFlush" THEN "flush" ELSE "refresh",
                         about |-> j.about])
           /\ UNCHANGED pending
     /\ UNCHANGED <<server, selfBlocked, cache, replyCh, sent, heard, faults>>

\* The entry made from an answer: nothing of the old one is kept.
Learned(info) ==
  [owner |-> info.owner, call |-> info.call, back |-> info.back,
   addr |-> IF info.addr THEN info.owner ELSE NoNode,
   direct |-> FALSE, fresh |-> TRUE]

\* A waiting thread takes whatever answer is in the channel.
TakeAnswer(n, t) ==
  LET j == job[n][t]
  IN /\ Waits(j)
     /\ replyCh[n] # <<>>
     /\ LET info == Head(replyCh[n])
        IN \/ /\ info = NotFound
              /\ job' = [job EXCEPT ![n][t] = Idle]
              /\ UNCHANGED <<cache, pending, net, sent>>
           \/ /\ info # NotFound /\ j.step = "send"
              /\ SendTo(n, j.about, j.kind, Learned(info))
              /\ job' = [job EXCEPT ![n][t] = Idle]
              /\ UNCHANGED pending
           \/ /\ info # NotFound /\ j.step # "send"
              /\ cache' = [cache EXCEPT ![n][j.about] = Learned(info)]
              /\ TakeQueue(n, t, j)
              /\ UNCHANGED <<net, sent>>
     /\ replyCh' = [replyCh EXCEPT ![n] = <<>>]
     /\ UNCHANGED <<server, selfBlocked, heard, faults>>

UnderWay(n) ==
  {m \in net : (m.type = "query" /\ m.from = n) \/ (m.type = "answer" /\ m.to = n)}

\* The timeout: a packet that waited is dropped, a queue stays where it is.
GiveUp(n, t) ==
  /\ Waits(job[n][t])
  /\ replyCh[n] = <<>>
  /\ job' = [job EXCEPT ![n][t] = Idle]
  /\ UNCHANGED <<server, net, selfBlocked, cache, pending, replyCh, sent, heard>>

QueryTimeout(n, t) == UnderWay(n) = {} /\ GiveUp(n, t) /\ UNCHANGED faults

FaultsHappen == lost + Cardinality(early) < MaxFaults

\* The timeout before the answer has come.
EarlyTimeout(n, t) ==
  /\ n \in Slow \ early /\ FaultsHappen
  /\ UnderWay(n) # {}
  /\ GiveUp(n, t)
  /\ early' = early \cup {n}
  /\ UNCHANGED lost

-----------------------------------------------------------------------------
(* Receiving: readFromUDP and handleData. *)

\* Mutant: the queue has no limit.
CacheEveryPacket(n, p, a) == [pending EXCEPT ![n][p] = Append(@, a)]

CachePacket(n, p, a) ==
  IF Len(pending[n][p]) >= QueueLimit
    THEN pending
    ELSE [pending EXCEPT ![n][p] = Append(@, a)]

FreeWorkers(n, jobs) == {w \in Worker : <<n, w>> \in Started /\ jobs[w] = Idle}

\* Start a worker, if the bound leaves one.  jobs are the threads of the node.
Spawn(n, jobs, j) ==
  \/ \E w \in FreeWorkers(n, jobs) :
       job' = [job EXCEPT ![n] = [jobs EXCEPT ![w] = j]]
  \/ /\ FreeWorkers(n, jobs) = {}
     /\ job' = [job EXCEPT ![n] = jobs]

\* Mutant: a relayed packet keeps the entry fresh, too.
MarkedByAny(e, a) ==
  IF a.direct
    THEN [e EXCEPT !.addr = a.packet.from, !.direct = TRUE, !.fresh = TRUE]
    ELSE [e EXCEPT !.fresh = TRUE]

\* A direct packet shows the endpoint of its sender and keeps the entry
\* fresh, before its signature is looked at.
Marked(e, a) ==
  IF a.direct
    THEN [e EXCEPT !.addr = a.packet.from, !.direct = TRUE, !.fresh = TRUE]
    ELSE e

\* The packet is for this node, its signature fits the entry, and so does
\* the key it is sealed with.
Opens(n, e, a) ==
  /\ a.packet.to = n
  /\ e.owner = a.packet.from
  /\ a.packet.key = n

\* handleData, of a packet that has arrived or has waited in a queue.
HandleData(n, a, jobs) ==
  LET p == a.packet.from
      e == cache[n][p]
  IN \/ /\ selfBlocked[n]
        /\ job' = [job EXCEPT ![n] = jobs]
        /\ UNCHANGED <<cache, pending, heard>>
     \/ /\ ~ selfBlocked[n] /\ e = NoEntry
        /\ pending' = CachePacket(n, p, a)
        /\ Spawn(n, jobs, [step |-> "startFlush", about |-> p])
        /\ UNCHANGED <<cache, heard>>
     \/ /\ ~ selfBlocked[n] /\ e # NoEntry
        /\ cache' = [cache EXCEPT ![n][p] = Marked(e, a)]
        /\ \/ /\ ~ Opens(n, e, a)
              /\ job' = [job EXCEPT ![n] = jobs]
              /\ UNCHANGED heard
           \/ /\ Opens(n, e, a) /\ a.packet.kind = "call" /\ ~ e.back
              /\ Spawn(n, jobs, [step |-> "startRefresh", about |-> p])
              /\ UNCHANGED heard
           \/ /\ Opens(n, e, a) /\ (a.packet.kind = "reply" \/ e.back)
              /\ heard' = heard \cup {<<p, n, a.packet.kind>>}
              /\ job' = [job EXCEPT ![n] = jobs]
        /\ UNCHANGED pending

ReadData(n, m) ==
  /\ m.type = "data" /\ m.to = n
  /\ HandleData(n, [direct |-> m.direct, packet |-> m.packet], job[n])
  /\ net' = net \ {m}
  /\ UNCHANGED <<server, selfBlocked, replyCh, sent, faults>>

\* deliver: an answer that finds the channel full is dropped.
ReadAnswer(n, m) ==
  /\ m.type = "answer" /\ m.to = n
  /\ replyCh' = IF replyCh[n] = <<>>
                  THEN [replyCh EXCEPT ![n] = <<m.info>>]
                  ELSE replyCh
  /\ net' = net \ {m}
  /\ UNCHANGED <<server, selfBlocked, cache, pending, job, sent, heard, faults>>

\* handlePolicyChanged
ReadPolicy(n, m) ==
  /\ m.type = "policy" /\ m.to = n
  /\ selfBlocked' = [selfBlocked EXCEPT ![n] = m.blocked]
  /\ cache' = [cache EXCEPT ![n] = [p \in Node |-> NoEntry]]
  /\ net' = net \ {m}
  /\ UNCHANGED <<server, pending, replyCh, job, sent, heard, faults>>

\* A worker hands the next packet of its queue to handleData.
Drain(n, w) ==
  LET j == job[n][w]
  IN /\ j.step = "drain"
     /\ \/ /\ j.queue = <<>>
           /\ job' = [job EXCEPT ![n][w] = Idle]
           /\ UNCHANGED <<cache, pending, heard>>
        \/ /\ j.queue # <<>>
           /\ HandleData(n, Head(j.queue),
                         [job[n] EXCEPT ![w].queue = Tail(j.queue)])
     /\ UNCHANGED <<server, net, selfBlocked, replyCh, sent, faults>>

-----------------------------------------------------------------------------
(* Time and faults. *)

\* A second has passed since the entry's lastSeen.
Age(n, p) ==
  /\ Fresh(n, p)
  /\ cache' = [cache EXCEPT ![n][p].fresh = FALSE]
  /\ UNCHANGED <<server, net, selfBlocked, pending, replyCh, job, sent, heard, faults>>

Lose(m) ==
  /\ FaultsHappen
  /\ lost' = lost + 1
  /\ net' = net \ {m}
  /\ UNCHANGED <<server, node, early>>

ServerNext ==
  /\ \/ \E c \in Commands : AdminCommand(c)
     \/ \E m \in net : HandlePeerQuery(m) \/ RelayData(m)
     \/ \E f \in flows : ExpireFlow(f)
  /\ UNCHANGED <<node, faults>>

NodeNext(n) ==
  \/ \E p \in Node, kind \in Kind : <<n, p, kind>> \in Traffic /\ ReadFromTUN(n, p, kind)
  \/ \E t \in Thread : TakeAnswer(n, t) \/ QueryTimeout(n, t) \/ EarlyTimeout(n, t)
  \/ \E w \in Worker : StartWorker(n, w) \/ Drain(n, w)
  \/ \E m \in net : ReadData(n, m) \/ ReadAnswer(n, m) \/ ReadPolicy(n, m)
  \/ \E p \in Node : Age(n, p)

Next ==
  \/ ServerNext
  \/ \E n \in Node : NodeNext(n)
  \/ \E m \in net : Lose(m)

\* The server and the goroutines of the nodes run, control datagrams arrive
\* unless they are lost, and seconds pass.  Nobody has to send packets, and no
\* packet has to arrive.
Fairness ==
  /\ WF_vars(\E m \in net : HandlePeerQuery(m) /\ UNCHANGED <<node, faults>>)
  /\ \A n \in Node :
       /\ WF_vars(\E m \in net : ReadAnswer(n, m))
       /\ WF_vars(\E m \in net : ReadPolicy(n, m))
       /\ \A t \in Thread : WF_vars(TakeAnswer(n, t)) /\ WF_vars(QueryTimeout(n, t))
       /\ \A w \in Worker : WF_vars(StartWorker(n, w)) /\ WF_vars(Drain(n, w))
       /\ \A p \in Node : WF_vars(Age(n, p))

Spec == Init /\ [][Next]_vars /\ Fairness

-----------------------------------------------------------------------------
(* Properties. *)

Message ==
  [type: {"policy"}, to: Node, blocked: BOOLEAN]
  \cup [type: {"query"}, from: Node, about: Node, by: Thread]
  \cup [type: {"answer"}, to: Node, by: Thread, info: Info \cup {NotFound}]
  \cup [type: {"relay"}, packet: Packet]
  \cup [type: {"data"}, to: Node, direct: BOOLEAN, packet: Packet]

\* The variables have their types; a queue holds at most QueueLimit packets,
\* queryReplyCh one answer.
TypeOK ==
  /\ active \subseteq Node
  /\ grants \subseteq Node \X Targets
  /\ {flows, permitted, sent} \subseteq SUBSET (Node \X Node)
  /\ heard \subseteq Node \X Node \X Kind
  /\ changes \in 0 .. MaxChanges
  /\ lost \in 0 .. MaxFaults
  /\ early \subseteq Slow
  /\ net \subseteq Message
  /\ selfBlocked \in [Node -> BOOLEAN]
  /\ cache \in [Node -> [Node -> Entry \cup {NoEntry}]]
  /\ pending \in [Node -> [Node -> Seq(Arrival)]]
  /\ \A n, p \in Node : Len(pending[n][p]) <= QueueLimit
  /\ replyCh \in [Node -> Seq(Info \cup {NotFound})]
  /\ \A n \in Node : Len(replyCh[n]) <= 1
  /\ job \in [Node -> [Thread -> Job]]

\* README, Access Control: a call that reaches an application comes from a
\* machine that was permitted to call it at some time, although the relay lets
\* calls through wherever it sees a flow of the other direction, and answers
\* about other machines end up in the cache.
CallsWerePermitted ==
  \A src, dst \in Node : <<src, dst, "call">> \in heard => <<src, dst>> \in permitted

\* policy.go, AllowP2P: "the weaker side never learns addresses".  A node has
\* the endpoint of another, from an answer or from the datagrams it sends,
\* only if each of the two was permitted to call the other, under whatever
\* address the endpoint is kept.
Mutual(n, p) == {<<n, p>>, <<p, n>>} \subseteq permitted

EndpointsAreMutual ==
  /\ \A n, p \in Node :
       cache[n][p] # NoEntry /\ cache[n][p].addr # NoNode => Mutual(n, cache[n][p].addr)
  /\ \A m \in net : m.type = "data" /\ m.direct => Mutual(m.packet.from, m.to)

\* README, Access Control: "The caller may start a call, the other side may
\* only answer".  What reaches an application is what the firewall lets
\* through, which knows no relay, no cache and no message.
Access == INSTANCE Firewall

ImplementsFirewall == Access!Spec

\* Nothing is left over for a later query: when no thread of a node waits for
\* an answer, none is in the channel or under way, whichever queries or
\* answers have been lost and whoever has taken whose answer.  So threads that
\* mix up their answers do not shift those of later queries.
NoLeftover ==
  \A n \in Node \ early :
    (\A t \in Thread : ~ Waits(job[n][t])) => replyCh[n] = <<>> /\ UnderWay(n) = {}

\* A node is able to start calls to p without asking again.
MayCall(n, p) == Fresh(n, p) /\ cache[n][p].call

\* broadcastPolicyChanged "tells every machine to refresh its cached policy",
\* and test/t-multiuser.sh: "revoke closes the path again".  A node that is
\* for ever denied a peer ends up without a permission that it would use,
\* even when the pushes are lost or overtaken by an answer.  It holds between
\* machines that reach each other through the relay only.
RevokedCallsEnd ==
  \A n, p \in Node :
    <>[](~ AllowRelay(n, p)) => <>[](~ MayCall(n, p))

=============================================================================
