-------------------------- MODULE PeerCacheProofs --------------------------
(***************************************************************************)
(* Theorems of PeerCache, for any nodes, threads, grants, commands,        *)
(* traffic and numbers of faults.                                          *)
(***************************************************************************)
EXTENDS PeerCache, FiniteSetTheorems, TLAPS

-----------------------------------------------------------------------------
(* What an answer to n says of a machine is true of the pairs ps: that it   *)
(* may call n, and that the two may know each other's endpoints.            *)

Both(x, y, ps) == {<<x, y>>, <<y, x>>} \subseteq ps

Vouched(info, n, ps) ==
  info # NotFound => /\ info.back => <<info.owner, n>> \in ps
                     /\ info.addr => Both(n, info.owner, ps)

-----------------------------------------------------------------------------
(* What the records hold. *)

LEMMA JobTypes ==
  ASSUME NEW j \in Job
  PROVE  /\ j.step = "send" => j.about \in Node /\ j.kind \in Kind
         /\ j.step \in {"startRefresh", "refresh", "startFlush", "flush"} => j.about \in Node
         /\ j.step = "drain" => j.queue \in Seq(Arrival)
BY DEF Job, Idle

LEMMA MessageTypes ==
  ASSUME NEW m \in Message
  PROVE  /\ m.type = "policy" => m.to \in Node /\ m.blocked \in BOOLEAN
         /\ m.type = "query" => m.from \in Node /\ m.about \in Node /\ m.by \in Thread
         /\ m.type = "answer" => m.to \in Node /\ m.by \in Thread /\ m.info \in Info \cup {NotFound}
         /\ m.type = "relay" => m.packet \in Packet
         /\ m.type = "data" => m.to \in Node /\ m.direct \in BOOLEAN /\ m.packet \in Packet
BY DEF Message

LEMMA LearnedType ==
  ASSUME NEW info \in Info
  PROVE  Learned(info) \in Entry /\ Learned(info).owner = info.owner /\ Learned(info).back = info.back
BY DEF Learned, Info, Entry

LEMMA OutgoingTypes ==
  ASSUME NEW n \in Node, NEW p \in Node, NEW kind \in Kind, NEW e \in Entry
  PROVE  /\ Outgoing(n, p, kind, e) \subseteq Message
         /\ \A m \in Outgoing(n, p, kind, e) : m.type \in {"data", "relay"}
<1>1. [from |-> n, to |-> p, kind |-> kind, key |-> e.owner] \in Packet
  BY DEF Packet, Entry
<1>2. ASSUME NEW m \in Outgoing(n, p, kind, e)
      PROVE  m \in Message /\ m.type \in {"data", "relay"}
  <2>1. CASE \E x \in Node : m = [type |-> "data", to |-> x, direct |-> TRUE,
                                 packet |-> [from |-> n, to |-> p, kind |-> kind, key |-> e.owner]]
    BY <1>1, <2>1 DEF Message
  <2>2. CASE m = [type |-> "relay", packet |-> [from |-> n, to |-> p, kind |-> kind, key |-> e.owner]]
    BY <1>1, <2>2 DEF Message
  <2> QED
    BY <1>2, <2>1, <2>2 DEF Outgoing
<1> QED
  BY <1>2

LEMMA MarkedType ==
  ASSUME NEW e \in Entry, NEW a \in Arrival
  PROVE  Marked(e, a) \in Entry /\ Marked(e, a).owner = e.owner /\ Marked(e, a).back = e.back
BY DEF Marked, Entry, Arrival, Packet

-----------------------------------------------------------------------------
(* The steps of the server. *)

LEMMA CommandTypes ==
  ASSUME TypeOK, NEW c \in Commands, AdminCommand(c)
  PROVE  /\ active' \subseteq Node /\ grants' \subseteq Node \X Targets
         /\ permitted' \subseteq Node \X Node /\ changes' \in 0 .. MaxChanges
         /\ net' \subseteq Message /\ flows' = flows
<1>c. c \in Command
  BY CommandsAreTyped
<1>1. active' \subseteq Node
  BY <1>c DEF AdminCommand, Active, TypeOK, Command
<1>2. grants' \subseteq Node \X Targets
  BY <1>c DEF AdminCommand, Grants, TypeOK, Command
<1>3. permitted' \subseteq Node \X Node
  BY DEF AdminCommand, PairsAllowed, TypeOK
<1>4. changes' \in 0 .. MaxChanges
  BY MaxChangesIsNumber DEF AdminCommand, TypeOK
<1>5. net' \subseteq Message
  <2>1. ASSUME NEW n \in Node, NEW b \in BOOLEAN
        PROVE  [type |-> "policy", to |-> n, blocked |-> b] \in Message
    BY DEF Message
  <2>2. \A n \in Node : (n \notin active') \in BOOLEAN
    OBVIOUS
  <2>3. PolicyPushes(active') \subseteq Message
    BY <2>1, <2>2 DEF PolicyPushes
  <2> QED
    BY <2>3 DEF AdminCommand, TypeOK
<1> QED
  BY <1>1, <1>2, <1>3, <1>4, <1>5 DEF AdminCommand

LEMMA AnswerTypes ==
  ASSUME NEW src \in Node, NEW dst \in Node
  PROVE  /\ AnswerAbout(src, dst) \in Info \cup {NotFound}
         /\ Vouched(AnswerAbout(src, dst), src, PairsAllowed(grants))
<1> DEFINE may == src \in active /\ AllowRelay(src, dst)
           info == [owner |-> dst, call |-> may, back |-> AllowRelay(dst, src),
                    addr |-> AllowP2P(src, dst)]
<1>0. AnswerAbout(src, dst) = IF dst \in active THEN info ELSE NotFound
  BY DEF AnswerAbout
<1>1. may \in BOOLEAN /\ AllowRelay(dst, src) \in BOOLEAN /\ AllowP2P(src, dst) \in BOOLEAN
  BY DEF AllowRelay, AllowP2P, Allowed, IsGranted
<1> HIDE DEF may
<1>2. info \in Info
  BY <1>1 DEF Info
<1>3. Vouched(info, src, PairsAllowed(grants))
  <2>1. AllowRelay(dst, src) => <<dst, src>> \in PairsAllowed(grants)
    BY DEF AllowRelay, PairsAllowed
  <2>2. AllowRelay(src, dst) => <<src, dst>> \in PairsAllowed(grants)
    BY DEF AllowRelay, PairsAllowed
  <2>3. info.owner = dst /\ info.back = AllowRelay(dst, src) /\ info.addr = AllowP2P(src, dst)
    OBVIOUS
  <2> HIDE DEF info
  <2> QED
    BY <2>1, <2>2, <2>3 DEF Vouched, Both, AllowP2P
<1>4. Vouched(NotFound, src, PairsAllowed(grants))
  BY DEF Vouched
<1> HIDE DEF info
<1> QED
  BY <1>0, <1>2, <1>3, <1>4

LEMMA QueryTypes ==
  ASSUME TypeOK, NEW m \in net, HandlePeerQuery(m)
  PROVE  net' \subseteq Message
<1>1. m \in Message
  BY DEF TypeOK
<1>2. m.from \in Node /\ m.about \in Node /\ m.by \in Thread
  BY <1>1, MessageTypes DEF HandlePeerQuery
<1>3. AnswerAbout(m.from, m.about) \in Info \cup {NotFound}
  BY <1>2, AnswerTypes
<1> DEFINE r == [type |-> "answer", to |-> m.from, by |-> m.by, info |-> AnswerAbout(m.from, m.about)]
<1>4. r \in Message
  BY <1>2, <1>3 DEF Message
<1> QED
  BY <1>4 DEF HandlePeerQuery, TypeOK

LEMMA RelayTypes ==
  ASSUME TypeOK, NEW m \in net, RelayData(m)
  PROVE  net' \subseteq Message /\ flows' \subseteq Node \X Node
<1>1. m.packet \in Packet
  BY MessageTypes DEF TypeOK, RelayData
<1>2. m.packet.to \in Node /\ m.packet.from \in Node
  BY <1>1 DEF Packet
<1>3. [type |-> "data", to |-> m.packet.to, direct |-> FALSE, packet |-> m.packet] \in Message
  BY <1>1, <1>2 DEF Message
<1>4. net' \subseteq Message
  BY <1>3 DEF RelayData, TypeOK
<1>5. flows' \subseteq Node \X Node
  BY <1>2 DEF RelayData, TypeOK
<1> QED
  BY <1>4, <1>5

LEMMA ServerTypes ==
  ASSUME TypeOK, ServerNext
  PROVE  TypeOK'
<1>n. UNCHANGED <<node, faults>>
  BY DEF ServerNext
<1>1. ASSUME NEW c \in Commands, AdminCommand(c) PROVE TypeOK'
  BY <1>n, <1>1, CommandTypes DEF TypeOK, node, faults
<1>2. ASSUME NEW m \in net, HandlePeerQuery(m) PROVE TypeOK'
  BY <1>n, <1>2, QueryTypes DEF TypeOK, node, faults, server, policy, HandlePeerQuery
<1>3. ASSUME NEW m \in net, RelayData(m) PROVE TypeOK'
  BY <1>n, <1>3, RelayTypes DEF TypeOK, node, faults, policy, RelayData
<1>4. ASSUME NEW f \in flows, ExpireFlow(f) PROVE TypeOK'
  BY <1>n, <1>4 DEF TypeOK, node, faults, policy, ExpireFlow
<1> QED
  BY <1>1, <1>2, <1>3, <1>4 DEF ServerNext

-----------------------------------------------------------------------------
(* The steps of a node. *)

Jobs == [Thread -> Job]
Queues == [Node -> [Node -> Seq(Arrival)]]
Caches == [Node -> [Node -> Entry \cup {NoEntry}]]

LEMMA SetJob ==
  ASSUME TypeOK, NEW n \in Node, NEW t \in Thread, NEW j \in Job, job' = [job EXCEPT ![n][t] = j]
  PROVE  job' \in [Node -> Jobs]
BY DEF TypeOK, Jobs

LEMMA IdleIsJob == Idle \in Job
BY DEF Job

LEMMA SendToTypes ==
  ASSUME TypeOK, NEW n \in Node, NEW p \in Node, NEW kind \in Kind, NEW e \in Entry,
         SendTo(n, p, kind, e)
  PROVE  cache' \in Caches /\ net' \subseteq Message /\ sent' \subseteq Node \X Node
<1>1. cache' \in Caches
  BY DEF SendTo, TypeOK, Caches
<1>2. net' \subseteq Message
  BY OutgoingTypes DEF SendTo, TypeOK
<1>3. sent' \subseteq Node \X Node
  BY DEF SendTo, TypeOK
<1> QED
  BY <1>1, <1>2, <1>3

LEMMA AskTypes ==
  ASSUME TypeOK, NEW n \in Node, NEW t \in Thread, NEW j \in Job, j.about \in Node, Ask(n, t, j)
  PROVE  job' \in [Node -> Jobs] /\ net' \subseteq Message
<1>1. [type |-> "query", from |-> n, about |-> j.about, by |-> t] \in Message
  BY DEF Message
<1> QED
  BY <1>1, SetJob DEF Ask, TypeOK

LEMMA ReadFromTUNTypes ==
  ASSUME TypeOK, NEW n \in Node, NEW p \in Node, NEW kind \in Kind, ReadFromTUN(n, p, kind)
  PROVE  TypeOK'
<1>1. CASE ~ MustAsk(n, p) /\ SendTo(n, p, kind, cache[n][p]) /\ UNCHANGED job
  <2>1. cache[n][p] \in Entry
    BY <1>1 DEF MustAsk, Fresh, TypeOK
  <2> QED
    BY <1>1, <2>1, SendToTypes DEF ReadFromTUN, TypeOK, Caches, server, policy, faults
<1>2. CASE Ask(n, Tun, [step |-> "send", about |-> p, kind |-> kind]) /\ UNCHANGED <<cache, sent>>
  <2>1. [step |-> "send", about |-> p, kind |-> kind] \in Job /\ Tun \in Thread
    BY DEF Job, Thread
  <2> QED
    BY <1>2, <2>1, AskTypes DEF ReadFromTUN, TypeOK, Jobs, server, policy, faults
<1> QED
  BY <1>1, <1>2 DEF ReadFromTUN

LEMMA TakeQueueTypes ==
  ASSUME TypeOK, NEW n \in Node, NEW w \in Thread, NEW j \in Job, j.about \in Node, TakeQueue(n, w, j)
  PROVE  /\ job' \in [Node -> Jobs] /\ pending' \in Queues
         /\ \A q, p \in Node : Len(pending'[q][p]) <= QueueLimit
<1>q. QueueLimit \in Nat
  BY LimitsAreNumbers
<1>1. CASE j.step \in {"startFlush", "flush"}
  <2>1. [step |-> "drain", queue |-> pending[n][j.about]] \in Job
    BY DEF TypeOK, Job
  <2>2. job' \in [Node -> Jobs]
    BY <1>1, <2>1, SetJob DEF TakeQueue
  <2>3. pending' = [pending EXCEPT ![n][j.about] = <<>>]
    BY <1>1 DEF TakeQueue
  <2> QED
    BY <1>q, <2>2, <2>3 DEF TypeOK, Queues
<1>2. CASE j.step \notin {"startFlush", "flush"}
  BY <1>2, SetJob, IdleIsJob DEF TakeQueue, TypeOK, Queues
<1> QED
  BY <1>1, <1>2

LEMMA StartWorkerTypes ==
  ASSUME TypeOK, NEW n \in Node, NEW w \in Worker, StartWorker(n, w)
  PROVE  TypeOK'
<1> DEFINE j == job[n][w]
<1>1. w \in Thread /\ j \in Job /\ j.step \in {"startRefresh", "startFlush"}
  BY DEF Thread, TypeOK, StartWorker
<1>2. j.about \in Node
  BY <1>1, JobTypes
<1>3. CASE TakeQueue(n, w, j) /\ UNCHANGED net
  BY <1>1, <1>2, <1>3, TakeQueueTypes DEF StartWorker, TypeOK, Jobs, Queues, server, policy, faults
<1>4. CASE UNCHANGED pending /\ \E s \in {"flush", "refresh"} : Ask(n, w, [step |-> s, about |-> j.about])
  <2>1. PICK s \in {"flush", "refresh"} : Ask(n, w, [step |-> s, about |-> j.about])
    BY <1>4
  <2>2. [step |-> s, about |-> j.about] \in Job
    BY <1>2 DEF Job
  <2>3. job' \in [Node -> Jobs] /\ net' \subseteq Message
    BY <1>1, <1>2, <2>1, <2>2, AskTypes
  <2> QED
    BY <1>4, <2>3 DEF StartWorker, TypeOK, Jobs, server, policy, faults
<1> QED
  BY <1>3, <1>4 DEF StartWorker

LEMMA TakeAnswerTypes ==
  ASSUME TypeOK, NEW n \in Node, NEW t \in Thread, TakeAnswer(n, t)
  PROVE  TypeOK'
<1> DEFINE j == job[n][t]
           info == Head(replyCh[n])
<1>1. j \in Job /\ j.step \in {"send", "refresh", "flush"}
  BY DEF TakeAnswer, Waits, TypeOK
<1>2. j.about \in Node /\ (j.step = "send" => j.kind \in Kind)
  BY <1>1, JobTypes
<1>3. info \in Info \cup {NotFound}
  BY DEF TakeAnswer, TypeOK
<1>4. /\ replyCh' \in [Node -> Seq(Info \cup {NotFound})]
      /\ \A q \in Node : Len(replyCh'[q]) <= 1
  BY DEF TakeAnswer, TypeOK
<1>5. UNCHANGED <<server, selfBlocked, heard, faults>>
  BY DEF TakeAnswer
<1> DEFINE Goal == /\ cache' \in Caches /\ net' \subseteq Message
                   /\ sent' \subseteq Node \X Node
                   /\ job' \in [Node -> Jobs] /\ pending' \in Queues
                   /\ \A q, p \in Node : Len(pending'[q][p]) <= QueueLimit
<1>6. ASSUME job' = [job EXCEPT ![n][t] = Idle], UNCHANGED <<cache, pending, net, sent>>
      PROVE  Goal
  BY <1>6, SetJob, IdleIsJob DEF TypeOK, Caches, Queues
<1>7. ASSUME /\ info # NotFound /\ j.step = "send"
           /\ SendTo(n, j.about, j.kind, Learned(info))
           /\ job' = [job EXCEPT ![n][t] = Idle]
           /\ UNCHANGED pending
      PROVE  Goal
  <2>1. cache' \in Caches /\ net' \subseteq Message /\ sent' \subseteq Node \X Node
    BY <1>2, <1>3, <1>7, LearnedType, SendToTypes
  <2>2. job' \in [Node -> Jobs]
    BY <1>7, SetJob, IdleIsJob
  <2> QED
    BY <1>7, <2>1, <2>2 DEF TypeOK, Queues
<1>8. ASSUME /\ info # NotFound /\ j.step # "send"
           /\ cache' = [cache EXCEPT ![n][j.about] = Learned(info)]
           /\ TakeQueue(n, t, j)
           /\ UNCHANGED <<net, sent>>
      PROVE  Goal
  <2>1. cache' \in Caches
    BY <1>2, <1>3, <1>8, LearnedType DEF TypeOK, Caches
  <2> QED
    BY <1>1, <1>2, <1>8, <2>1, TakeQueueTypes DEF TypeOK
<1>9. Goal
  BY <1>6, <1>7, <1>8 DEF TakeAnswer
<1> HIDE DEF j, info
<1> QED
  BY <1>4, <1>5, <1>9 DEF TypeOK, Jobs, Queues, Caches, server, policy, faults

LEMMA TimeoutTypes ==
  ASSUME TypeOK, NEW n \in Node, NEW t \in Thread, QueryTimeout(n, t) \/ EarlyTimeout(n, t)
  PROVE  TypeOK'
<1>1. GiveUp(n, t) /\ UNCHANGED lost /\ early' \subseteq Slow
  BY DEF QueryTimeout, EarlyTimeout, TypeOK, faults
<1>2. job' \in [Node -> Jobs]
  BY <1>1, SetJob, IdleIsJob DEF GiveUp
<1> QED
  BY <1>1, <1>2 DEF GiveUp, TypeOK, Jobs, server, policy

LEMMA SpawnTypes ==
  ASSUME TypeOK, NEW n \in Node, NEW jobs \in Jobs, NEW j \in Job, Spawn(n, jobs, j)
  PROVE  job' \in [Node -> Jobs]
<1>1. CASE job' = [job EXCEPT ![n] = jobs]
  BY <1>1 DEF TypeOK, Jobs
<1>2. ASSUME NEW w \in Worker, job' = [job EXCEPT ![n] = [jobs EXCEPT ![w] = j]]
      PROVE  job' \in [Node -> Jobs]
  <2>1. [jobs EXCEPT ![w] = j] \in Jobs
    BY DEF Jobs
  <2> QED
    BY <1>2, <2>1 DEF TypeOK, Jobs
<1> QED
  BY <1>1, <1>2 DEF Spawn, FreeWorkers

LEMMA HandleDataTypes ==
  ASSUME TypeOK, NEW n \in Node, NEW a \in Arrival, NEW jobs \in Jobs, HandleData(n, a, jobs)
  PROVE  /\ cache' \in Caches /\ job' \in [Node -> Jobs] /\ heard' \subseteq Node \X Node \X Kind
         /\ pending' \in Queues /\ \A q, p \in Node : Len(pending'[q][p]) <= QueueLimit
<1> DEFINE p == a.packet.from
           e == cache[n][p]
<1>1. p \in Node /\ a.packet.kind \in Kind /\ QueueLimit \in Nat
  BY LimitsAreNumbers DEF Arrival, Packet
<1>2. e \in Entry \cup {NoEntry}
  BY <1>1 DEF TypeOK
<1>t. /\ job \in [Node -> Jobs] /\ pending \in Queues /\ cache \in Caches
      /\ heard \subseteq Node \X Node \X Kind
      /\ \A q, r \in Node : Len(pending[q][r]) <= QueueLimit
  BY DEF TypeOK, Jobs, Queues, Caches
<1>3. \A s \in {"startFlush", "startRefresh"} : [step |-> s, about |-> p] \in Job
  BY <1>1 DEF Job
<1> HIDE DEF p, e
<1>4. CASE selfBlocked[n]
  BY <1>t, <1>4 DEF HandleData
<1>5. CASE ~ selfBlocked[n] /\ e = NoEntry
  <2>1. /\ pending' = CachePacket(n, p, a) /\ UNCHANGED <<cache, heard>>
        /\ Spawn(n, jobs, [step |-> "startFlush", about |-> p])
    BY <1>5 DEF HandleData, p, e
  <2>2. pending' \in Queues /\ \A q, r \in Node : Len(pending'[q][r]) <= QueueLimit
    <3>1. CASE Len(pending[n][p]) >= QueueLimit
      BY <1>t, <2>1, <3>1 DEF CachePacket
    <3>2. CASE ~ Len(pending[n][p]) >= QueueLimit
      <4>1. pending' = [pending EXCEPT ![n][p] = Append(@, a)]
        BY <2>1, <3>2 DEF CachePacket
      <4>2. /\ pending[n][p] \in Seq(Arrival)
            /\ Append(pending[n][p], a) \in Seq(Arrival)
            /\ Len(Append(pending[n][p], a)) <= QueueLimit
        <5>1. pending[n][p] \in Seq(Arrival)
          BY <1>t, <1>1 DEF Queues
        <5> QED
          BY <1>1, <3>2, <5>1
      <4> QED
        BY <1>t, <1>1, <4>1, <4>2 DEF Queues
    <3> QED
      BY <3>1, <3>2
  <2> QED
    BY <1>t, <1>3, <2>1, <2>2, SpawnTypes
<1>6. CASE ~ selfBlocked[n] /\ e # NoEntry
  <2>1. /\ cache' = [cache EXCEPT ![n][p] = Marked(e, a)] /\ UNCHANGED pending
        /\ \/ job' = [job EXCEPT ![n] = jobs]
           \/ Spawn(n, jobs, [step |-> "startRefresh", about |-> p])
        /\ heard' \in {heard, heard \cup {<<p, n, a.packet.kind>>}}
    BY <1>6 DEF HandleData, p, e
  <2>2. Marked(e, a) \in Entry
    BY <1>2, <1>6, MarkedType
  <2>3. cache' \in Caches
    BY <1>t, <2>1, <2>2 DEF Caches
  <2>4. job' \in [Node -> Jobs]
    BY <1>t, <1>3, <2>1, SpawnTypes
  <2> QED
    BY <1>t, <1>1, <2>1, <2>3, <2>4
<1> QED
  BY <1>4, <1>5, <1>6

LEMMA ReadTypes ==
  ASSUME TypeOK, NEW n \in Node, NEW m \in net, ReadData(n, m) \/ ReadAnswer(n, m) \/ ReadPolicy(n, m)
  PROVE  TypeOK'
<1>m. m \in Message
  BY DEF TypeOK
<1>1. CASE ReadData(n, m)
  <2>1. [direct |-> m.direct, packet |-> m.packet] \in Arrival
    BY <1>1, <1>m, MessageTypes DEF ReadData, Arrival
  <2>2. job[n] \in Jobs
    BY DEF TypeOK, Jobs
  <2>3. /\ cache' \in Caches /\ job' \in [Node -> Jobs] /\ heard' \subseteq Node \X Node \X Kind
        /\ pending' \in Queues /\ \A q, p \in Node : Len(pending'[q][p]) <= QueueLimit
    BY <1>1, <2>1, <2>2, HandleDataTypes DEF ReadData
  <2> QED
    BY <1>1, <2>3 DEF ReadData, TypeOK, Jobs, Queues, Caches, server, policy, faults
<1>2. CASE ReadAnswer(n, m)
  <2>1. m.info \in Info \cup {NotFound}
    BY <1>2, <1>m, MessageTypes DEF ReadAnswer
  <2>2. /\ replyCh' \in [Node -> Seq(Info \cup {NotFound})]
        /\ \A q \in Node : Len(replyCh'[q]) <= 1
    BY <1>2, <2>1 DEF ReadAnswer, TypeOK
  <2> QED
    BY <1>2, <2>2 DEF ReadAnswer, TypeOK, server, policy, faults
<1>3. CASE ReadPolicy(n, m)
  <2>1. m.blocked \in BOOLEAN
    BY <1>3, <1>m, MessageTypes DEF ReadPolicy
  <2> QED
    BY <1>3, <2>1 DEF ReadPolicy, TypeOK, server, policy, faults
<1> QED
  BY <1>1, <1>2, <1>3

LEMMA DrainTypes ==
  ASSUME TypeOK, NEW n \in Node, NEW w \in Worker, Drain(n, w)
  PROVE  TypeOK'
<1> DEFINE j == job[n][w]
<1>1. w \in Thread /\ j \in Job /\ j.step = "drain"
  BY DEF Thread, TypeOK, Drain
<1>2. j.queue \in Seq(Arrival)
  BY <1>1, JobTypes
<1>3. CASE job' = [job EXCEPT ![n][w] = Idle] /\ UNCHANGED <<cache, pending, heard>>
  <2>1. job' \in [Node -> Jobs]
    BY <1>1, <1>3, SetJob, IdleIsJob
  <2> QED
    BY <1>3, <2>1 DEF Drain, TypeOK, Jobs, server, policy, faults
<1>4. CASE j.queue # <<>> /\ HandleData(n, Head(j.queue), [job[n] EXCEPT ![w].queue = Tail(j.queue)])
  <2>1. Head(j.queue) \in Arrival /\ Tail(j.queue) \in Seq(Arrival)
    BY <1>2, <1>4
  <2>2. [j EXCEPT !.queue = Tail(j.queue)] \in Job
    BY <1>1, <2>1 DEF Job, Idle
  <2>3. [job[n] EXCEPT ![w].queue = Tail(j.queue)] \in Jobs
    BY <1>1, <2>2 DEF TypeOK, Jobs
  <2>4. /\ cache' \in Caches /\ job' \in [Node -> Jobs] /\ heard' \subseteq Node \X Node \X Kind
        /\ pending' \in Queues /\ \A q, p \in Node : Len(pending'[q][p]) <= QueueLimit
    BY <1>4, <2>1, <2>3, HandleDataTypes
  <2> QED
    BY <2>4 DEF Drain, TypeOK, Jobs, Queues, Caches, server, policy, faults
<1> QED
  BY <1>3, <1>4 DEF Drain

LEMMA OtherTypes ==
  ASSUME TypeOK, \/ \E n, p \in Node : Age(n, p)
                 \/ \E m \in net : Lose(m)
                 \/ UNCHANGED vars
  PROVE  TypeOK'
<1>1. ASSUME NEW n \in Node, NEW p \in Node, Age(n, p) PROVE TypeOK'
  <2>1. cache[n][p] \in Entry
    BY <1>1 DEF Age, Fresh, TypeOK
  <2>2. cache' \in Caches
    BY <1>1, <2>1 DEF Age, TypeOK, Caches, Entry
  <2> QED
    BY <1>1, <2>2 DEF Age, TypeOK, Caches, server, policy, faults
<1>2. ASSUME NEW m \in net, Lose(m) PROVE TypeOK'
  <2>1. lost' \in 0 .. MaxFaults
    <3>1. early \subseteq Node /\ IsFiniteSet(early)
      BY SlowAreNodes, NodesAreFinite, FS_Subset DEF TypeOK
    <3>2. Cardinality(early) \in Nat
      BY <3>1, FS_CardinalityType
    <3> QED
      BY <1>2, <3>2, LimitsAreNumbers DEF Lose, FaultsHappen, TypeOK
  <2> QED
    BY <1>2, <2>1 DEF Lose, TypeOK, server, policy, node
<1>3. CASE UNCHANGED vars
  BY <1>3 DEF vars, TypeOK, policy, node, faults
<1> QED
  BY <1>1, <1>2, <1>3

LEMMA InitTypes == Init => TypeOK
<1> SUFFICES ASSUME Init PROVE TypeOK
  OBVIOUS
<1>1. permitted \subseteq Node \X Node /\ grants \subseteq Node \X Targets
  BY OldGrantsAreTyped DEF Init, ServerInit, PairsAllowed, Targets
<1>2. job \in [Node -> [Thread -> Job]]
  BY IdleIsJob DEF Init
<1>3. changes \in 0 .. MaxChanges /\ lost \in 0 .. MaxFaults
  BY MaxChangesIsNumber, LimitsAreNumbers DEF Init, ServerInit
<1>4. /\ pending \in [Node -> [Node -> Seq(Arrival)]]
      /\ \A n, p \in Node : Len(pending[n][p]) <= QueueLimit
      /\ replyCh \in [Node -> Seq(Info \cup {NotFound})]
      /\ \A n \in Node : Len(replyCh[n]) <= 1
  BY LimitsAreNumbers DEF Init
<1> QED
  BY <1>1, <1>2, <1>3, <1>4 DEF Init, ServerInit, TypeOK

\* handleData and cachePacket, deliver and its channel: every variable keeps
\* its type, queues and channel their limits, whatever happens.
THEOREM PeerCacheTypesCorrect == Spec => []TypeOK
<1>1. TypeOK /\ [Next]_vars => TypeOK'
  BY ServerTypes, ReadFromTUNTypes, StartWorkerTypes, TakeAnswerTypes, TimeoutTypes, ReadTypes,
     DrainTypes, OtherTypes, TrafficIsTyped
  DEF Next, NodeNext
<1> QED
  BY InitTypes, <1>1, PTL DEF Spec

-----------------------------------------------------------------------------
(* What reaches an application, and who learns whose endpoint.              *)
(*                                                                         *)
(* Permissions: what an answer, the channel or an entry says to the node    *)
(* that holds it, of calls from a machine or of its endpoint, was true      *)
(* once.  Passage: a packet for the relay has been sent, a flow was         *)
(* permitted and used, and what is on its way to a node or waits in one of  *)
(* its queues may reach it.  Neither is inductive without the other: the    *)
(* endpoints come from direct packets, too, and a direct packet goes where  *)
(* its sender's entry says.                                                 *)

AnswersVouched(ms, ps) == \A m \in ms : m.type = "answer" => Vouched(m.info, m.to, ps)

ChannelsVouched(chs, ps) ==
  \A n \in Node : \A i \in 1 .. Len(chs[n]) : Vouched(chs[n][i], n, ps)

EntryVouched(e, n, ps) ==
  /\ e.back => <<e.owner, n>> \in ps
  /\ e.addr # NoNode => Both(n, e.addr, ps)

EntriesVouched(cs, ps) ==
  \A n, p \in Node : cs[n][p] # NoEntry => EntryVouched(cs[n][p], n, ps)

CallsVouched(hs, ps) ==
  \A src, dst \in Node : <<src, dst, "call">> \in hs => <<src, dst>> \in ps

Permissions ==
  /\ PairsAllowed(grants) \subseteq permitted
  /\ AnswersVouched(net, permitted)
  /\ ChannelsVouched(replyCh, permitted)
  /\ EntriesVouched(cache, permitted)
  /\ CallsVouched(heard, permitted)

MayReach(src, dst, ps, ss) == <<src, dst>> \in ps \/ <<dst, src>> \in ps \cap ss

\* A packet a that arrives at n, or waits there.
Backed(a, n, ps, ss) ==
  /\ a.direct => Both(n, a.packet.from, ps)
  /\ a.packet.to = n => MayReach(a.packet.from, n, ps, ss)

QueueBacked(q, n, ps, ss) == \A i \in 1 .. Len(q) : Backed(q[i], n, ps, ss)

NetBacked(ms, ps, ss) ==
  \A m \in ms : /\ m.type = "relay" => <<m.packet.from, m.packet.to>> \in ss
                /\ m.type = "data" => Backed(m, m.to, ps, ss)

PendingBacked(qs, ps, ss) == \A n, p \in Node : QueueBacked(qs[n][p], n, ps, ss)

JobBacked(j, n, ps, ss) == j.step = "drain" => QueueBacked(j.queue, n, ps, ss)

JobsBacked(js, ps, ss) == \A n \in Node, t \in Thread : JobBacked(js[n][t], n, ps, ss)

Passage ==
  /\ flows \subseteq permitted \cap sent
  /\ NetBacked(net, permitted, sent)
  /\ PendingBacked(pending, permitted, sent)
  /\ JobsBacked(job, permitted, sent)

LEMMA PermissionsInit == Init => Permissions
<1> SUFFICES ASSUME Init PROVE Permissions
  OBVIOUS
<1>1. /\ PairsAllowed(grants) \subseteq permitted /\ AnswersVouched(net, permitted)
      /\ CallsVouched(heard, permitted)
  BY DEF Init, ServerInit, AnswersVouched, CallsVouched
<1>2. ChannelsVouched(replyCh, permitted)
  BY DEF Init, ChannelsVouched
<1>3. EntriesVouched(cache, permitted)
  BY DEF Init, EntriesVouched, EntryVouched
<1> QED
  BY <1>1, <1>2, <1>3 DEF Permissions

LEMMA PassageInit == Init => Passage
<1> SUFFICES ASSUME Init PROVE Passage
  OBVIOUS
<1>1. flows \subseteq permitted \cap sent /\ NetBacked(net, permitted, sent)
  BY DEF Init, ServerInit, NetBacked
<1>2. PendingBacked(pending, permitted, sent)
  BY DEF Init, PendingBacked, QueueBacked
<1>3. JobsBacked(job, permitted, sent)
  BY DEF Init, JobsBacked, JobBacked, Idle
<1> QED
  BY <1>1, <1>2, <1>3 DEF Passage

\* While nobody issues a command, the parts may be shown one by one.
LEMMA PermissionsByParts ==
  ASSUME Permissions, UNCHANGED policy,
         AnswersVouched(net', permitted), ChannelsVouched(replyCh', permitted),
         EntriesVouched(cache', permitted), CallsVouched(heard', permitted)
  PROVE  Permissions'
<1>1. grants' = grants /\ permitted' = permitted
  BY DEF policy
<1>2. (PairsAllowed(grants) \subseteq permitted)'
  BY <1>1 DEF Permissions, PairsAllowed, Allowed, IsGranted
<1>3. AnswersVouched(net, permitted)'
  BY <1>1 DEF AnswersVouched, Vouched, Both
<1>4. ChannelsVouched(replyCh, permitted)'
  BY <1>1 DEF ChannelsVouched, Vouched, Both
<1>5. EntriesVouched(cache, permitted)' /\ CallsVouched(heard, permitted)'
  BY <1>1 DEF EntriesVouched, EntryVouched, Both, CallsVouched
<1> QED
  BY <1>1, <1>2, <1>3, <1>4, <1>5 DEF Permissions

LEMMA PassageByParts ==
  ASSUME UNCHANGED permitted, flows' \subseteq permitted \cap sent',
         NetBacked(net', permitted, sent'), PendingBacked(pending', permitted, sent'),
         JobsBacked(job', permitted, sent')
  PROVE  Passage'
<1>1. NetBacked(net, permitted, sent)'
  BY DEF NetBacked, Backed, MayReach, Both
<1>2. PendingBacked(pending, permitted, sent)'
  BY DEF PendingBacked, QueueBacked, Backed, MayReach, Both
<1>3. JobsBacked(job, permitted, sent)'
  BY DEF JobsBacked, JobBacked, QueueBacked, Backed, MayReach, Both
<1> QED
  BY <1>1, <1>2, <1>3 DEF Passage

\* Permissions and packets are only added: what is backed stays so.
LEMMA StaysBacked ==
  ASSUME NEW ps, NEW ss, NEW qs, NEW ts, ps \subseteq qs, ss \subseteq ts
  PROVE  /\ \A a, n : Backed(a, n, ps, ss) => Backed(a, n, qs, ts)
         /\ \A q, n : QueueBacked(q, n, ps, ss) => QueueBacked(q, n, qs, ts)
         /\ \A ms : NetBacked(ms, ps, ss) => NetBacked(ms, qs, ts)
         /\ \A p : PendingBacked(p, ps, ss) => PendingBacked(p, qs, ts)
         /\ \A js : JobsBacked(js, ps, ss) => JobsBacked(js, qs, ts)
<1>1. \A a, n : Backed(a, n, ps, ss) => Backed(a, n, qs, ts)
  BY DEF Backed, MayReach, Both
<1>2. \A q, n : QueueBacked(q, n, ps, ss) => QueueBacked(q, n, qs, ts)
  BY <1>1 DEF QueueBacked
<1>3. \A ms : NetBacked(ms, ps, ss) => NetBacked(ms, qs, ts)
  BY <1>1 DEF NetBacked
<1>4. \A p : PendingBacked(p, ps, ss) => PendingBacked(p, qs, ts)
  BY <1>2 DEF PendingBacked
<1>5. \A js : JobsBacked(js, ps, ss) => JobsBacked(js, qs, ts)
  BY <1>2 DEF JobsBacked, JobBacked
<1> QED
  BY <1>1, <1>2, <1>3, <1>4, <1>5

-----------------------------------------------------------------------------
(* The steps of the server. *)

LEMMA CommandPermissions ==
  ASSUME TypeOK, Permissions, NEW c \in Commands, AdminCommand(c), UNCHANGED <<node, faults>>
  PROVE  Permissions'
<1>1. permitted \subseteq permitted' /\ UNCHANGED <<replyCh, cache, heard>>
  BY DEF AdminCommand, node
<1>2. (PairsAllowed(grants) \subseteq permitted)'
  BY DEF AdminCommand, PairsAllowed, Allowed, IsGranted
<1>3. AnswersVouched(net, permitted)'
  <2>1. \A m \in net' : m.type = "answer" => m \in net
    BY DEF AdminCommand, PolicyPushes
  <2> QED
    BY <1>1, <2>1 DEF Permissions, AnswersVouched, Vouched, Both
<1>4. ChannelsVouched(replyCh, permitted)'
  BY <1>1 DEF Permissions, ChannelsVouched, Vouched, Both
<1>5. EntriesVouched(cache, permitted)' /\ CallsVouched(heard, permitted)'
  BY <1>1 DEF Permissions, EntriesVouched, EntryVouched, Both, CallsVouched
<1> QED
  BY <1>1, <1>2, <1>3, <1>4, <1>5 DEF Permissions

LEMMA ServerPermissions ==
  ASSUME TypeOK, Permissions, ServerNext
  PROVE  Permissions'
<1>n. UNCHANGED <<node, faults>>
  BY DEF ServerNext
<1>u. UNCHANGED <<replyCh, cache, heard>>
  BY <1>n DEF node
<1>0. ASSUME UNCHANGED policy, AnswersVouched(net', permitted)
      PROVE  Permissions'
  BY <1>u, <1>0, PermissionsByParts DEF Permissions
<1>1. ASSUME NEW c \in Commands, AdminCommand(c) PROVE Permissions'
  BY <1>n, <1>1, CommandPermissions
<1>2. ASSUME NEW m \in net, HandlePeerQuery(m) PROVE Permissions'
  <2>1. m.from \in Node /\ m.about \in Node
    BY <1>2, MessageTypes DEF HandlePeerQuery, TypeOK
  <2> DEFINE r == [type |-> "answer", to |-> m.from, by |-> m.by, info |-> AnswerAbout(m.from, m.about)]
  <2>2. Vouched(AnswerAbout(m.from, m.about), m.from, permitted)
    BY <2>1, AnswerTypes DEF Vouched, Both, Permissions
  <2>3. Vouched(r.info, r.to, permitted)
    BY <2>2
  <2>4. net' = (net \ {m}) \cup {r}
    BY <1>2 DEF HandlePeerQuery
  <2> HIDE DEF r
  <2>5. AnswersVouched(net', permitted)
    BY <2>3, <2>4 DEF AnswersVouched, Permissions
  <2> QED
    BY <1>0, <1>2, <2>5 DEF HandlePeerQuery, server
<1>3. ASSUME NEW m \in net, RelayData(m) PROVE Permissions'
  <2>1. \A x \in net' : x.type = "answer" => x \in net
    BY <1>3 DEF RelayData
  <2> QED
    BY <1>0, <1>3, <2>1 DEF RelayData, AnswersVouched, Permissions
<1>4. ASSUME NEW f \in flows, ExpireFlow(f) PROVE Permissions'
  BY <1>0, <1>4 DEF ExpireFlow, Permissions
<1> QED
  BY <1>1, <1>2, <1>3, <1>4 DEF ServerNext

\* A step that only takes packets from the net, or adds other messages.
LEMMA QuietNet ==
  ASSUME Passage, \A m \in net' : m.type \in {"relay", "data"} => m \in net
  PROVE  NetBacked(net', permitted, sent)
BY DEF Passage, NetBacked

\* relayData: what passes is permitted, or answers a flow.
LEMMA RelayPassage ==
  ASSUME TypeOK, Permissions, Passage, NEW m \in net, RelayData(m)
  PROVE  flows' \subseteq permitted \cap sent /\ NetBacked(net', permitted, sent)
<1> DEFINE p == m.packet
<1>1. p.from \in Node /\ p.to \in Node
  BY MessageTypes DEF RelayData, TypeOK, Packet
<1>2. <<p.from, p.to>> \in sent
  BY DEF RelayData, Passage, NetBacked
<1>3. AllowRelay(p.from, p.to) => <<p.from, p.to>> \in permitted
  BY <1>1 DEF AllowRelay, PairsAllowed, Permissions
<1>4. Passes(p) => MayReach(p.from, p.to, permitted, sent)
  BY <1>3 DEF Passes, MayReach, Passage
<1> DEFINE d == [type |-> "data", to |-> p.to, direct |-> FALSE, packet |-> p]
<1>5. Passes(p) => Backed(d, d.to, permitted, sent)
  BY <1>4 DEF Backed
<1>6. net' = (net \ {m}) \cup (IF Passes(p) THEN {d} ELSE {})
  BY DEF RelayData
<1>7. d.type = "data"
  OBVIOUS
<1> HIDE DEF d
<1>8. NetBacked(net', permitted, sent)
  BY <1>5, <1>6, <1>7 DEF NetBacked, Passage
<1>9. flows' \subseteq permitted \cap sent
  BY <1>2, <1>3 DEF RelayData, Passage
<1> QED
  BY <1>8, <1>9

LEMMA ServerPassage ==
  ASSUME TypeOK, Permissions, Passage, ServerNext
  PROVE  Passage'
<1>u. UNCHANGED <<pending, job, sent>>
  BY DEF ServerNext, node
<1>0. ASSUME UNCHANGED permitted, flows' \subseteq permitted \cap sent,
             NetBacked(net', permitted, sent)
      PROVE  Passage'
  BY <1>u, <1>0, PassageByParts DEF Passage
<1>1. ASSUME NEW c \in Commands, AdminCommand(c) PROVE Passage'
  <2>1. permitted \subseteq permitted' /\ flows' = flows /\ sent \subseteq sent'
    BY <1>u, <1>1 DEF AdminCommand
  <2>2. NetBacked(net', permitted, sent)
    BY <1>1, QuietNet DEF AdminCommand, PolicyPushes
  <2> QED
    BY <1>u, <2>1, <2>2, StaysBacked DEF Passage
<1>2. ASSUME NEW m \in net, HandlePeerQuery(m) PROVE Passage'
  <2>1. NetBacked(net', permitted, sent)
    BY <1>2, QuietNet DEF HandlePeerQuery
  <2> QED
    BY <1>0, <1>2, <2>1 DEF HandlePeerQuery, server, policy, Passage
<1>3. ASSUME NEW m \in net, RelayData(m) PROVE Passage'
  BY <1>0, <1>3, RelayPassage DEF RelayData, policy
<1>4. ASSUME NEW f \in flows, ExpireFlow(f) PROVE Passage'
  BY <1>0, <1>4 DEF ExpireFlow, policy, Passage
<1> QED
  BY <1>1, <1>2, <1>3, <1>4 DEF ServerNext

-----------------------------------------------------------------------------
(* The steps of the nodes: Permissions.                                     *)

\* Storing an entry that is vouched for, or dropping one.
LEMMA StoreVouched ==
  ASSUME TypeOK, Permissions, NEW n \in Node, NEW p \in Node, NEW e,
         e # NoEntry => EntryVouched(e, n, permitted), cache' = [cache EXCEPT ![n][p] = e]
  PROVE  EntriesVouched(cache', permitted)
<1> SUFFICES ASSUME NEW q \in Node, NEW r \in Node
             PROVE  cache'[q][r] # NoEntry => EntryVouched(cache'[q][r], q, permitted)
  BY DEF EntriesVouched
<1>1. CASE q = n /\ r = p
  <2>1. cache'[q][r] = e
    BY <1>1 DEF TypeOK
  <2> QED
    BY <1>1, <2>1
<1>2. CASE ~ (q = n /\ r = p)
  <2>1. cache'[q][r] = cache[q][r]
    BY <1>2 DEF TypeOK
  <2> QED
    BY <2>1 DEF Permissions, EntriesVouched
<1> QED
  BY <1>1, <1>2

LEMMA SendToVouched ==
  ASSUME TypeOK, Permissions, NEW n \in Node, NEW p \in Node, NEW kind \in Kind, NEW e \in Entry,
         EntryVouched(e, n, permitted), SendTo(n, p, kind, e)
  PROVE  EntriesVouched(cache', permitted) /\ AnswersVouched(net', permitted)
<1>1. EntriesVouched(cache', permitted)
  <2>1. PICK x \in {e, NoEntry} : cache' = [cache EXCEPT ![n][p] = x]
    BY DEF SendTo
  <2> QED
    BY <2>1, StoreVouched
<1>2. \A m \in net' : m.type = "answer" => m \in net
  BY OutgoingTypes DEF SendTo
<1> QED
  BY <1>1, <1>2 DEF AnswersVouched, Permissions

LEMMA ReadFromTUNPermissions ==
  ASSUME TypeOK, Permissions, NEW n \in Node, NEW p \in Node, NEW kind \in Kind,
         ReadFromTUN(n, p, kind)
  PROVE  Permissions'
<1>u. UNCHANGED <<policy, replyCh, heard>>
  BY DEF ReadFromTUN, server
<1>1. CASE ~ MustAsk(n, p) /\ SendTo(n, p, kind, cache[n][p])
  <2>1. cache[n][p] \in Entry /\ EntryVouched(cache[n][p], n, permitted)
    BY <1>1 DEF MustAsk, Fresh, TypeOK, Permissions, EntriesVouched
  <2>2. EntriesVouched(cache', permitted) /\ AnswersVouched(net', permitted)
    BY <1>1, <2>1, SendToVouched
  <2> QED
    BY <1>u, <2>2, PermissionsByParts DEF Permissions
<1>2. CASE Ask(n, Tun, [step |-> "send", about |-> p, kind |-> kind]) /\ UNCHANGED <<cache, sent>>
  <2>1. \A m \in net' : m.type = "answer" => m \in net
    BY <1>2 DEF Ask
  <2>2. AnswersVouched(net', permitted)
    BY <2>1 DEF AnswersVouched, Permissions
  <2> QED
    BY <1>u, <1>2, <2>2, PermissionsByParts DEF Permissions
<1> QED
  BY <1>1, <1>2 DEF ReadFromTUN

LEMMA StartWorkerPermissions ==
  ASSUME TypeOK, Permissions, NEW n \in Node, NEW w \in Worker, StartWorker(n, w)
  PROVE  Permissions'
<1>1. UNCHANGED <<policy, cache, replyCh, heard>>
  BY DEF StartWorker, server
<1>2. \A m \in net' : m.type = "answer" => m \in net
  BY DEF StartWorker, Ask
<1>3. AnswersVouched(net', permitted)
  BY <1>2 DEF AnswersVouched, Permissions
<1> QED
  BY <1>1, <1>3, PermissionsByParts DEF Permissions

\* An entry made from an answer keeps no endpoint but the answer's.
LEMMA LearnedVouched ==
  ASSUME NEW info \in Info, NEW n \in Node, info # NotFound, Vouched(info, n, permitted)
  PROVE  EntryVouched(Learned(info), n, permitted)
BY DEF Learned, Info, Vouched, EntryVouched

\* What a waiting thread does with the answer it takes.
LEMMA TakenAnswer ==
  ASSUME TypeOK, Permissions, NEW n \in Node, NEW t \in Thread, TakeAnswer(n, t)
  PROVE  LET j == job[n][t]
             e == Learned(Head(replyCh[n]))
         IN \/ UNCHANGED <<cache, pending, net, sent>> /\ job' = [job EXCEPT ![n][t] = Idle]
            \/ /\ e \in Entry /\ EntryVouched(e, n, permitted) /\ j.about \in Node
               /\ \/ /\ j.kind \in Kind /\ SendTo(n, j.about, j.kind, e)
                     /\ job' = [job EXCEPT ![n][t] = Idle] /\ UNCHANGED pending
                  \/ /\ cache' = [cache EXCEPT ![n][j.about] = e]
                     /\ TakeQueue(n, t, j) /\ UNCHANGED <<net, sent>>
<1> DEFINE j == job[n][t]
           info == Head(replyCh[n])
<1>1. j \in Job /\ j.step \in {"send", "refresh", "flush"}
  BY DEF TakeAnswer, Waits, TypeOK
<1>2. j.about \in Node /\ (j.step = "send" => j.kind \in Kind)
  BY <1>1, JobTypes
<1>3. info \in Info \cup {NotFound} /\ Vouched(info, n, permitted)
  <2>1. replyCh[n] \in Seq(Info \cup {NotFound}) /\ replyCh[n] # <<>>
    BY DEF TakeAnswer, TypeOK
  <2>2. info = replyCh[n][1] /\ 1 \in 1 .. Len(replyCh[n]) /\ info \in Info \cup {NotFound}
    BY <2>1
  <2> QED
    BY <2>2 DEF Permissions, ChannelsVouched
<1>4. info # NotFound => Learned(info) \in Entry /\ EntryVouched(Learned(info), n, permitted)
  BY <1>3, LearnedType, LearnedVouched
<1> QED
  BY <1>2, <1>4 DEF TakeAnswer

LEMMA TakeAnswerPermissions ==
  ASSUME TypeOK, Permissions, NEW n \in Node, NEW t \in Thread, TakeAnswer(n, t)
  PROVE  Permissions'
<1> DEFINE j == job[n][t]
           e == Learned(Head(replyCh[n]))
<1>1. ChannelsVouched(replyCh', permitted)
  BY DEF TakeAnswer, TypeOK, ChannelsVouched, Permissions
<1>2. UNCHANGED <<policy, heard>>
  BY DEF TakeAnswer, server
<1> DEFINE Goal == EntriesVouched(cache', permitted) /\ AnswersVouched(net', permitted)
<1>3. ASSUME UNCHANGED <<cache, net>>
      PROVE  Goal
  BY <1>3 DEF Permissions
<1>4. ASSUME e \in Entry, EntryVouched(e, n, permitted), j.about \in Node, j.kind \in Kind,
             SendTo(n, j.about, j.kind, e)
      PROVE  Goal
  BY <1>4, SendToVouched
<1>5. ASSUME e \in Entry, EntryVouched(e, n, permitted), j.about \in Node,
             cache' = [cache EXCEPT ![n][j.about] = e], UNCHANGED net
      PROVE  Goal
  BY <1>5, StoreVouched DEF Permissions
<1>6. Goal
  BY <1>3, <1>4, <1>5, TakenAnswer
<1> QED
  BY <1>1, <1>2, <1>6, PermissionsByParts DEF Permissions

\* What a packet that reaches an application shows: the signature of one that
\* opens fits the entry, which vouches for a call, and the packet itself was
\* let through.
Heard(src, n, kind) ==
  /\ heard' = heard \cup {<<src, n, kind>>}
  /\ <<src, n>> \in permitted \/ (kind = "reply" /\ <<n, src>> \in permitted \cap sent)

LEMMA HandleDataHears ==
  ASSUME TypeOK, Permissions, NEW n \in Node, NEW a \in Arrival, NEW jobs,
         Backed(a, n, permitted, sent), HandleData(n, a, jobs)
  PROVE  UNCHANGED heard \/ \E src \in Node, kind \in Kind : Heard(src, n, kind)
<1> DEFINE p == a.packet.from
           e == cache[n][p]
<1>1. p \in Node /\ a.packet.kind \in Kind
  BY DEF Arrival, Packet
<1>2. SUFFICES ASSUME e # NoEntry, Opens(n, e, a), a.packet.kind = "reply" \/ e.back,
                      heard' = heard \cup {<<p, n, a.packet.kind>>}
               PROVE  Heard(p, n, a.packet.kind)
  BY <1>1 DEF HandleData
<1>3. e.owner = p /\ a.packet.to = n
  BY <1>2 DEF Opens
<1>4. e.back => <<p, n>> \in permitted
  BY <1>1, <1>2, <1>3 DEF Permissions, EntriesVouched, EntryVouched
<1>5. MayReach(p, n, permitted, sent)
  BY <1>3 DEF Backed
<1> QED
  BY <1>2, <1>4, <1>5 DEF Heard, MayReach

LEMMA HeardVouched ==
  ASSUME Permissions, UNCHANGED heard \/ \E src, n \in Node, kind \in Kind : Heard(src, n, kind)
  PROVE  CallsVouched(heard', permitted)
<1> SUFFICES ASSUME NEW x \in Node, NEW y \in Node, <<x, y, "call">> \in heard'
             PROVE  <<x, y>> \in permitted
  BY DEF CallsVouched
<1>1. CASE <<x, y, "call">> \in heard
  BY <1>1 DEF Permissions, CallsVouched
<1>2. CASE <<x, y, "call">> \notin heard
  <2>1. PICK src \in Node, n \in Node, kind \in Kind : Heard(src, n, kind)
    BY <1>2
  <2>2. <<x, y, "call">> = <<src, n, kind>>
    BY <1>2, <2>1 DEF Heard
  <2>3. x = src /\ y = n /\ kind = "call"
    BY <2>2
  <2> QED
    BY <2>1, <2>3 DEF Heard
<1> QED
  BY <1>1, <1>2

\* A direct packet arrives only from where its receiver's endpoint is known.
LEMMA HandleDataVouched ==
  ASSUME TypeOK, Permissions, NEW n \in Node, NEW a \in Arrival, NEW jobs,
         Backed(a, n, permitted, sent), HandleData(n, a, jobs)
  PROVE  EntriesVouched(cache', permitted)
<1> DEFINE p == a.packet.from
           e == cache[n][p]
<1>1. p \in Node
  BY DEF Arrival, Packet
<1>2. e # NoEntry => e \in Entry
  BY <1>1 DEF TypeOK
<1>3. e # NoEntry => EntryVouched(e, n, permitted)
  BY <1>1 DEF Permissions, EntriesVouched
<1>4. CASE UNCHANGED cache
  BY <1>4 DEF Permissions
<1>5. CASE e # NoEntry /\ cache' = [cache EXCEPT ![n][p] = Marked(e, a)]
  <2>1. /\ Marked(e, a).owner = e.owner /\ Marked(e, a).back = e.back
        /\ Marked(e, a).addr = IF a.direct THEN p ELSE e.addr
    BY <1>2, <1>5 DEF Marked, Entry
  <2>2. EntryVouched(Marked(e, a), n, permitted)
    BY <1>3, <1>5, <2>1 DEF EntryVouched, Backed
  <2> QED
    BY <1>1, <1>5, <2>2, StoreVouched
<1> QED
  BY <1>4, <1>5 DEF HandleData

LEMMA ArrivalBacked ==
  ASSUME TypeOK, Passage, NEW n \in Node, NEW m \in net, m.type = "data", m.to = n
  PROVE  LET a == [direct |-> m.direct, packet |-> m.packet]
         IN a \in Arrival /\ Backed(a, n, permitted, sent)
<1>1. m.direct \in BOOLEAN /\ m.packet \in Packet
  BY MessageTypes DEF TypeOK
<1>2. Backed(m, n, permitted, sent)
  BY DEF Passage, NetBacked
<1> QED
  BY <1>1, <1>2 DEF Arrival, Backed

LEMMA ReadPermissions ==
  ASSUME TypeOK, Permissions, Passage, NEW n \in Node, NEW m \in net,
         ReadData(n, m) \/ ReadAnswer(n, m) \/ ReadPolicy(n, m)
  PROVE  Permissions'
<1>n. net' \subseteq net /\ UNCHANGED policy
  BY DEF ReadData, ReadAnswer, ReadPolicy, server
<1>a. AnswersVouched(net', permitted)
  BY <1>n DEF AnswersVouched, Permissions
<1>1. CASE ReadData(n, m)
  <2> DEFINE a == [direct |-> m.direct, packet |-> m.packet]
  <2>1. a \in Arrival /\ Backed(a, n, permitted, sent) /\ HandleData(n, a, job[n])
    BY <1>1, ArrivalBacked DEF ReadData
  <2> HIDE DEF a
  <2>2. EntriesVouched(cache', permitted) /\ CallsVouched(heard', permitted)
    BY <2>1, HandleDataVouched, HandleDataHears, HeardVouched
  <2> QED
    BY <1>n, <1>a, <1>1, <2>2, PermissionsByParts DEF ReadData, Permissions
<1>2. CASE ReadAnswer(n, m)
  <2>1. Vouched(m.info, n, permitted)
    BY <1>2 DEF ReadAnswer, Permissions, AnswersVouched
  <2>2. ChannelsVouched(replyCh', permitted)
    <3>1. CASE replyCh' = replyCh
      BY <3>1 DEF Permissions
    <3>2. CASE replyCh' = [replyCh EXCEPT ![n] = <<m.info>>]
      BY <2>1, <3>2 DEF Permissions, ChannelsVouched, TypeOK
    <3> QED
      BY <1>2, <3>1, <3>2 DEF ReadAnswer
  <2> QED
    BY <1>n, <1>a, <1>2, <2>2, PermissionsByParts DEF ReadAnswer, Permissions
<1>3. CASE ReadPolicy(n, m)
  <2>1. EntriesVouched(cache', permitted)
    BY <1>3 DEF ReadPolicy, Permissions, EntriesVouched, EntryVouched, TypeOK
  <2> QED
    BY <1>n, <1>a, <1>3, <2>1, PermissionsByParts DEF ReadPolicy, Permissions
<1> QED
  BY <1>1, <1>2, <1>3

\* The head of a queue that a worker drains, and what is left of it.
LEMMA DrainBacked ==
  ASSUME TypeOK, Passage, NEW n \in Node, NEW w \in Worker,
         job[n][w].step = "drain", job[n][w].queue # <<>>
  PROVE  LET q == job[n][w].queue
         IN /\ Head(q) \in Arrival /\ Backed(Head(q), n, permitted, sent)
            /\ QueueBacked(Tail(q), n, permitted, sent)
<1> DEFINE q == job[n][w].queue
<1>1. w \in Thread /\ job[n][w] \in Job
  BY DEF Thread, TypeOK
<1>2. q \in Seq(Arrival)
  BY <1>1, JobTypes
<1>3. QueueBacked(q, n, permitted, sent)
  BY <1>1 DEF Passage, JobsBacked, JobBacked
<1> HIDE DEF q
<1>4. q # <<>>
  BY DEF q
<1>5. /\ Head(q) \in Arrival /\ Head(q) = q[1] /\ 1 \in 1 .. Len(q)
      /\ \A i \in 1 .. Len(Tail(q)) : i + 1 \in 1 .. Len(q) /\ Tail(q)[i] = q[i + 1]
  BY <1>2, <1>4
<1> QED
  BY <1>3, <1>5 DEF QueueBacked, q

LEMMA DrainPermissions ==
  ASSUME TypeOK, Permissions, Passage, NEW n \in Node, NEW w \in Worker, Drain(n, w)
  PROVE  Permissions'
<1> DEFINE q == job[n][w].queue
<1>1. EntriesVouched(cache', permitted) /\ CallsVouched(heard', permitted)
  <2>1. CASE UNCHANGED <<cache, heard>>
    BY <2>1 DEF Permissions
  <2>2. CASE q # <<>> /\ HandleData(n, Head(q), [job[n] EXCEPT ![w].queue = Tail(q)])
    <3>1. Head(q) \in Arrival /\ Backed(Head(q), n, permitted, sent)
      BY <2>2, DrainBacked DEF Drain
    <3> QED
      BY <2>2, <3>1, HandleDataVouched, HandleDataHears, HeardVouched
  <2> QED
    BY <2>1, <2>2 DEF Drain
<1> QED
  BY <1>1, PermissionsByParts DEF Drain, Permissions, server

LEMMA OtherPermissions ==
  ASSUME TypeOK, Permissions, \/ \E n \in Node, t \in Thread : QueryTimeout(n, t) \/ EarlyTimeout(n, t)
                              \/ \E n, p \in Node : Age(n, p)
                              \/ \E m \in net : Lose(m)
                              \/ UNCHANGED vars
  PROVE  Permissions'
<1>1. net' \subseteq net /\ UNCHANGED <<policy, replyCh, heard>>
  BY DEF QueryTimeout, EarlyTimeout, GiveUp, Age, Lose, server, node, vars
<1>2. AnswersVouched(net', permitted)
  BY <1>1 DEF AnswersVouched, Permissions
<1>3. EntriesVouched(cache', permitted)
  <2>1. CASE UNCHANGED cache
    BY <2>1 DEF Permissions
  <2>2. ASSUME NEW n \in Node, NEW p \in Node, Age(n, p)
        PROVE  EntriesVouched(cache', permitted)
    <3>1. cache[n][p] \in Entry /\ EntryVouched(cache[n][p], n, permitted) /\ cache[n][p] # NoEntry
      BY <2>2 DEF Age, Fresh, TypeOK, Permissions, EntriesVouched
    <3> DEFINE e == [cache[n][p] EXCEPT !.fresh = FALSE]
    <3>2. e.owner = cache[n][p].owner /\ e.back = cache[n][p].back /\ e.addr = cache[n][p].addr
      BY <3>1 DEF Entry
    <3>3. cache' = [cache EXCEPT ![n][p] = e]
      BY <2>2 DEF Age, TypeOK
    <3> HIDE DEF e
    <3>4. EntryVouched(e, n, permitted)
      BY <3>1, <3>2 DEF EntryVouched
    <3> QED
      BY <3>3, <3>4, StoreVouched
  <2> QED
    BY <2>1, <2>2 DEF QueryTimeout, EarlyTimeout, GiveUp, Lose, node, vars
<1> QED
  BY <1>1, <1>2, <1>3, PermissionsByParts DEF Permissions

-----------------------------------------------------------------------------
(* The steps of the nodes: Passage.                                         *)

\* sendTo: the relay gets a packet that has been sent, and an endpoint gets
\* one because of an entry that vouches for it.
LEMMA SendToBacked ==
  ASSUME TypeOK, Passage, NEW n \in Node, NEW p \in Node, NEW kind \in Kind, NEW e \in Entry,
         EntryVouched(e, n, permitted), SendTo(n, p, kind, e)
  PROVE  sent \subseteq sent' /\ NetBacked(net', permitted, sent')
<1>1. sent \subseteq sent' /\ NetBacked(net, permitted, sent')
  BY StaysBacked DEF SendTo, Passage
<1> DEFINE packet == [from |-> n, to |-> p, kind |-> kind, key |-> e.owner]
<1>2. ASSUME NEW m \in Outgoing(n, p, kind, e), <<n, p>> \in sent'
      PROVE  /\ m.type = "relay" => <<m.packet.from, m.packet.to>> \in sent'
             /\ m.type = "data" => Backed(m, m.to, permitted, sent')
  <2>1. CASE m = [type |-> "relay", packet |-> packet]
    BY <1>2, <2>1
  <2>2. ASSUME NEW x \in Node, x = e.addr,
               m = [type |-> "data", to |-> x, direct |-> TRUE, packet |-> packet]
        PROVE  m.type = "data" /\ Backed(m, m.to, permitted, sent')
    <3>1. Both(n, x, permitted)
      BY <2>2, NoNodeIsOutside DEF EntryVouched
    <3> QED
      BY <2>2, <3>1 DEF Backed, Both, MayReach
  <2> QED
    BY <2>1, <2>2 DEF Outgoing
<1>3. CASE net' = net
  BY <1>1, <1>3
<1>4. CASE net' = net \cup Outgoing(n, p, kind, e) /\ <<n, p>> \in sent'
  BY <1>1, <1>2, <1>4 DEF NetBacked
<1> QED
  BY <1>1, <1>3, <1>4 DEF SendTo

\* A packet sent, and nothing else.
LEMMA SentPassage ==
  ASSUME Passage, UNCHANGED <<policy, flows>>, sent \subseteq sent',
         NetBacked(net', permitted, sent'), PendingBacked(pending', permitted, sent),
         JobsBacked(job', permitted, sent)
  PROVE  Passage'
<1>1. PendingBacked(pending', permitted, sent') /\ JobsBacked(job', permitted, sent')
  BY StaysBacked
<1> QED
  BY <1>1, PassageByParts DEF Passage, policy

LEMMA SetJobBacked ==
  ASSUME TypeOK, Passage, NEW n \in Node, NEW t \in Thread, NEW j,
         JobBacked(j, n, permitted, sent), job' = [job EXCEPT ![n][t] = j]
  PROVE  JobsBacked(job', permitted, sent)
<1> SUFFICES ASSUME NEW q \in Node, NEW u \in Thread
             PROVE  JobBacked(job'[q][u], q, permitted, sent)
  BY DEF JobsBacked
<1>1. CASE q = n /\ u = t
  <2>1. job'[q][u] = j
    BY <1>1 DEF TypeOK
  <2> QED
    BY <1>1, <2>1
<1>2. CASE ~ (q = n /\ u = t)
  <2>1. job'[q][u] = job[q][u]
    BY <1>2 DEF TypeOK
  <2> QED
    BY <2>1 DEF Passage, JobsBacked
<1> QED
  BY <1>1, <1>2

LEMMA IdleIsBacked == ASSUME NEW n PROVE JobBacked(Idle, n, permitted, sent)
BY DEF JobBacked, Idle

LEMMA ReadFromTUNPassage ==
  ASSUME TypeOK, Permissions, Passage, NEW n \in Node, NEW p \in Node, NEW kind \in Kind,
         ReadFromTUN(n, p, kind)
  PROVE  Passage'
<1>u. UNCHANGED <<policy, flows, pending>>
  BY DEF ReadFromTUN, server
<1>1. CASE ~ MustAsk(n, p) /\ SendTo(n, p, kind, cache[n][p]) /\ UNCHANGED job
  <2>1. cache[n][p] \in Entry /\ EntryVouched(cache[n][p], n, permitted)
    BY <1>1 DEF MustAsk, Fresh, TypeOK, Permissions, EntriesVouched
  <2>2. sent \subseteq sent' /\ NetBacked(net', permitted, sent')
    BY <1>1, <2>1, SendToBacked
  <2> QED
    BY <1>u, <1>1, <2>2, SentPassage DEF Passage
<1>2. CASE Ask(n, Tun, [step |-> "send", about |-> p, kind |-> kind]) /\ UNCHANGED <<cache, sent>>
  <2>1. NetBacked(net', permitted, sent)
    BY <1>2, QuietNet DEF Ask
  <2>2. JobsBacked(job', permitted, sent)
    BY <1>2, SetJobBacked DEF Ask, Thread, JobBacked
  <2> QED
    BY <1>u, <1>2, <2>1, <2>2, SentPassage DEF Passage
<1> QED
  BY <1>1, <1>2 DEF ReadFromTUN

\* A flush takes a queue whose packets are all backed.
LEMMA TakeQueueBacked ==
  ASSUME TypeOK, Passage, NEW n \in Node, NEW t \in Thread, NEW j, j.about \in Node,
         TakeQueue(n, t, j)
  PROVE  PendingBacked(pending', permitted, sent) /\ JobsBacked(job', permitted, sent)
<1>1. CASE j.step \in {"startFlush", "flush"}
  <2> DEFINE q == pending[n][j.about]
             k == [step |-> "drain", queue |-> q]
  <2>1. QueueBacked(q, n, permitted, sent)
    BY DEF Passage, PendingBacked
  <2>2. JobBacked(k, n, permitted, sent)
    BY <2>1 DEF JobBacked
  <2>3. JobsBacked(job', permitted, sent)
    BY <1>1, <2>2, SetJobBacked DEF TakeQueue
  <2>4. pending' = [pending EXCEPT ![n][j.about] = <<>>]
    BY <1>1 DEF TakeQueue
  <2>5. PendingBacked(pending', permitted, sent)
    BY <2>4 DEF Passage, PendingBacked, QueueBacked, TypeOK
  <2> QED
    BY <2>3, <2>5
<1>2. CASE j.step \notin {"startFlush", "flush"}
  BY <1>2, SetJobBacked, IdleIsBacked DEF TakeQueue, Passage
<1> QED
  BY <1>1, <1>2

LEMMA StartWorkerPassage ==
  ASSUME TypeOK, Passage, NEW n \in Node, NEW w \in Worker, StartWorker(n, w)
  PROVE  Passage'
<1> DEFINE j == job[n][w]
<1>1. w \in Thread /\ j \in Job /\ j.step \in {"startRefresh", "startFlush"}
  BY DEF Thread, TypeOK, StartWorker
<1>2. j.about \in Node
  BY <1>1, JobTypes
<1>3. NetBacked(net', permitted, sent)
  BY QuietNet DEF StartWorker, Ask
<1>4. PendingBacked(pending', permitted, sent) /\ JobsBacked(job', permitted, sent)
  <2>1. CASE TakeQueue(n, w, j)
    BY <1>1, <1>2, <2>1, TakeQueueBacked
  <2>2. ASSUME NEW s \in {"flush", "refresh"}, Ask(n, w, [step |-> s, about |-> j.about]),
               UNCHANGED pending
        PROVE  PendingBacked(pending', permitted, sent) /\ JobsBacked(job', permitted, sent)
    BY <1>1, <2>2, SetJobBacked DEF Ask, JobBacked, Passage
  <2> QED
    BY <2>1, <2>2 DEF StartWorker
<1> QED
  BY <1>3, <1>4, SentPassage DEF StartWorker, server

LEMMA TakeAnswerPassage ==
  ASSUME TypeOK, Permissions, Passage, NEW n \in Node, NEW t \in Thread, TakeAnswer(n, t)
  PROVE  Passage'
<1> DEFINE j == job[n][t]
           e == Learned(Head(replyCh[n]))
<1>0. UNCHANGED <<policy, flows>>
  BY DEF TakeAnswer, server
<1>1. ASSUME UNCHANGED <<pending, net, sent>>, job' = [job EXCEPT ![n][t] = Idle]
      PROVE  Passage'
  BY <1>0, <1>1, SetJobBacked, IdleIsBacked, SentPassage DEF Passage
<1>2. ASSUME e \in Entry, EntryVouched(e, n, permitted), j.about \in Node, j.kind \in Kind,
             SendTo(n, j.about, j.kind, e), job' = [job EXCEPT ![n][t] = Idle], UNCHANGED pending
      PROVE  Passage'
  <2>2. sent \subseteq sent' /\ NetBacked(net', permitted, sent')
    BY <1>2, SendToBacked
  <2>3. JobsBacked(job', permitted, sent)
    BY <1>2, SetJobBacked, IdleIsBacked
  <2> QED
    BY <1>0, <1>2, <2>2, <2>3, SentPassage DEF Passage
<1>3. ASSUME j.about \in Node, TakeQueue(n, t, j), UNCHANGED <<net, sent>>
      PROVE  Passage'
  BY <1>0, <1>3, TakeQueueBacked, SentPassage DEF Passage
<1> QED
  BY <1>1, <1>2, <1>3, TakenAnswer

LEMMA NoNewJobs ==
  ASSUME TypeOK, Passage, NEW n \in Node, NEW jobs \in Jobs,
         \A t \in Thread : JobBacked(jobs[t], n, permitted, sent),
         job' = [job EXCEPT ![n] = jobs]
  PROVE  JobsBacked(job', permitted, sent)
<1> SUFFICES ASSUME NEW q \in Node, NEW t \in Thread
             PROVE  JobBacked(job'[q][t], q, permitted, sent)
  BY DEF JobsBacked
<1>1. CASE q = n
  <2>1. job'[q] = jobs
    BY <1>1 DEF TypeOK
  <2> QED
    BY <1>1, <2>1
<1>2. CASE q # n
  <2>1. job'[q] = job[q]
    BY <1>2 DEF TypeOK
  <2> QED
    BY <2>1 DEF Passage, JobsBacked
<1> QED
  BY <1>1, <1>2

LEMMA SpawnBacked ==
  ASSUME TypeOK, Passage, NEW n \in Node, NEW jobs \in Jobs,
         \A t \in Thread : JobBacked(jobs[t], n, permitted, sent),
         NEW j \in Job, j.step # "drain", Spawn(n, jobs, j)
  PROVE  JobsBacked(job', permitted, sent)
<1>1. CASE job' = [job EXCEPT ![n] = jobs]
  BY <1>1, NoNewJobs
<1>2. ASSUME NEW w \in Worker, job' = [job EXCEPT ![n] = [jobs EXCEPT ![w] = j]]
      PROVE  JobsBacked(job', permitted, sent)
  <2> DEFINE js == [jobs EXCEPT ![w] = j]
  <2>1. js \in Jobs
    BY DEF Jobs
  <2>2. \A t \in Thread : JobBacked(js[t], n, permitted, sent)
    BY DEF Jobs, JobBacked
  <2> HIDE DEF js
  <2> QED
    BY <1>2, <2>1, <2>2, NoNewJobs DEF js
<1> QED
  BY <1>1, <1>2 DEF Spawn, FreeWorkers

\* handleData keeps a packet, in cachePacket, only as it has arrived.
LEMMA HandleDataBacked ==
  ASSUME TypeOK, Passage, NEW n \in Node, NEW a \in Arrival, NEW jobs \in Jobs,
         \A t \in Thread : JobBacked(jobs[t], n, permitted, sent),
         Backed(a, n, permitted, sent), HandleData(n, a, jobs)
  PROVE  PendingBacked(pending', permitted, sent) /\ JobsBacked(job', permitted, sent)
<1> DEFINE p == a.packet.from
<1>1. p \in Node
  BY DEF Arrival, Packet
<1>2. PendingBacked(CachePacket(n, p, a), permitted, sent)
  <2>1. QueueBacked(pending[n][p], n, permitted, sent) /\ pending[n][p] \in Seq(Arrival)
    BY <1>1 DEF Passage, PendingBacked, TypeOK
  <2>2. QueueBacked(Append(pending[n][p], a), n, permitted, sent)
    BY <2>1 DEF QueueBacked
  <2>3. CASE CachePacket(n, p, a) = pending
    BY <2>3 DEF Passage
  <2>4. CASE CachePacket(n, p, a) = [pending EXCEPT ![n][p] = Append(@, a)]
    <3> SUFFICES ASSUME NEW x \in Node, NEW y \in Node
                 PROVE  QueueBacked(CachePacket(n, p, a)[x][y], x, permitted, sent)
      BY DEF PendingBacked
    <3>1. CASE x = n /\ y = p
      <4>1. CachePacket(n, p, a)[x][y] = Append(pending[n][p], a)
        BY <1>1, <2>4, <3>1 DEF TypeOK
      <4> QED
        BY <2>2, <3>1, <4>1
    <3>2. CASE ~ (x = n /\ y = p)
      <4>1. CachePacket(n, p, a)[x][y] = pending[x][y]
        BY <1>1, <2>4, <3>2 DEF TypeOK
      <4> QED
        BY <4>1 DEF Passage, PendingBacked
    <3> QED
      BY <3>1, <3>2
  <2> QED
    BY <2>3, <2>4 DEF CachePacket
<1>3. pending' = pending \/ pending' = CachePacket(n, p, a)
  BY DEF HandleData
<1>4. \/ job' = [job EXCEPT ![n] = jobs]
      \/ \E s \in {"startFlush", "startRefresh"} : Spawn(n, jobs, [step |-> s, about |-> p])
  BY DEF HandleData
<1>5. ASSUME NEW s \in {"startFlush", "startRefresh"}
      PROVE  [step |-> s, about |-> p] \in Job /\ [step |-> s, about |-> p].step # "drain"
  BY <1>1 DEF Job
<1>6. JobsBacked(job', permitted, sent)
  BY <1>4, <1>5, NoNewJobs, SpawnBacked
<1> QED
  BY <1>2, <1>3, <1>6 DEF Passage

LEMMA ReadPassage ==
  ASSUME TypeOK, Passage, NEW n \in Node, NEW m \in net,
         ReadData(n, m) \/ ReadAnswer(n, m) \/ ReadPolicy(n, m)
  PROVE  Passage'
<1>1. UNCHANGED <<policy, flows, sent>> /\ net' \subseteq net
  BY DEF ReadData, ReadAnswer, ReadPolicy, server
<1>2. NetBacked(net', permitted, sent)
  BY <1>1, QuietNet
<1>3. CASE ReadData(n, m)
  <2> DEFINE a == [direct |-> m.direct, packet |-> m.packet]
  <2>1. a \in Arrival /\ Backed(a, n, permitted, sent) /\ HandleData(n, a, job[n])
    BY <1>3, ArrivalBacked DEF ReadData
  <2>2. job[n] \in Jobs /\ \A t \in Thread : JobBacked(job[n][t], n, permitted, sent)
    BY DEF TypeOK, Jobs, Passage, JobsBacked
  <2> HIDE DEF a
  <2>3. PendingBacked(pending', permitted, sent) /\ JobsBacked(job', permitted, sent)
    BY <2>1, <2>2, HandleDataBacked
  <2> QED
    BY <1>1, <1>2, <2>3, SentPassage
<1>4. CASE UNCHANGED <<pending, job>>
  BY <1>1, <1>2, <1>4, SentPassage DEF Passage
<1> QED
  BY <1>3, <1>4 DEF ReadAnswer, ReadPolicy

LEMMA DrainPassage ==
  ASSUME TypeOK, Passage, NEW n \in Node, NEW w \in Worker, Drain(n, w)
  PROVE  Passage'
<1> DEFINE j == job[n][w]
           q == j.queue
<1>1. w \in Thread /\ j \in Job /\ j.step = "drain"
  BY DEF Thread, TypeOK, Drain
<1>2. UNCHANGED <<policy, flows, sent, net>>
  BY DEF Drain, server
<1>3. CASE job' = [job EXCEPT ![n][w] = Idle] /\ UNCHANGED pending
  BY <1>1, <1>2, <1>3, SetJobBacked, IdleIsBacked, SentPassage DEF Passage
<1>4. CASE q # <<>> /\ HandleData(n, Head(q), [job[n] EXCEPT ![w].queue = Tail(q)])
  <2> DEFINE jobs == [job[n] EXCEPT ![w].queue = Tail(q)]
             k == [j EXCEPT !.queue = Tail(q)]
  <2>1. /\ Head(q) \in Arrival /\ Backed(Head(q), n, permitted, sent)
        /\ QueueBacked(Tail(q), n, permitted, sent)
    BY <1>1, <1>4, DrainBacked
  <2>2. q \in Seq(Arrival)
    BY <1>1, JobTypes
  <2>3. Tail(q) \in Seq(Arrival)
    BY <1>4, <2>2
  <2>4. k \in Job /\ k.queue = Tail(q)
    <3>1. j \in [step : {"drain"}, queue : Seq(Arrival)]
      BY <1>1 DEF Job, Idle
    <3>2. k \in [step : {"drain"}, queue : Seq(Arrival)] /\ k.queue = Tail(q)
      BY <2>3, <3>1
    <3> QED
      BY <3>2 DEF Job
  <2>5. jobs[w] = k /\ \A t \in Thread \ {w} : jobs[t] = job[n][t]
    BY <1>1 DEF TypeOK
  <2>6. jobs \in Jobs
    BY <1>1, <2>4 DEF TypeOK, Jobs
  <2>7. JobBacked(k, n, permitted, sent)
    BY <2>1, <2>4 DEF JobBacked
  <2>8. \A t \in Thread : JobBacked(jobs[t], n, permitted, sent)
    <3> HIDE DEF k, jobs
    <3> QED
      BY <2>5, <2>7 DEF Passage, JobsBacked
  <2> HIDE DEF jobs
  <2>9. PendingBacked(pending', permitted, sent) /\ JobsBacked(job', permitted, sent)
    BY <1>4, <2>1, <2>6, <2>8, HandleDataBacked DEF jobs
  <2> QED
    BY <1>2, <2>9, SentPassage DEF Passage
<1> QED
  BY <1>3, <1>4 DEF Drain

LEMMA OtherPassage ==
  ASSUME TypeOK, Passage, \/ \E n \in Node, t \in Thread : QueryTimeout(n, t) \/ EarlyTimeout(n, t)
                          \/ \E n, p \in Node : Age(n, p)
                          \/ \E m \in net : Lose(m)
                          \/ UNCHANGED vars
  PROVE  Passage'
<1>1. net' \subseteq net /\ UNCHANGED <<policy, flows, sent, pending>>
  BY DEF QueryTimeout, EarlyTimeout, GiveUp, Age, Lose, server, node, vars
<1>2. NetBacked(net', permitted, sent)
  BY <1>1, QuietNet
<1>3. JobsBacked(job', permitted, sent)
  <2>1. CASE UNCHANGED job
    BY <2>1 DEF Passage
  <2>2. ASSUME NEW n \in Node, NEW t \in Thread, GiveUp(n, t)
        PROVE  JobsBacked(job', permitted, sent)
    BY <2>2, SetJobBacked, IdleIsBacked DEF GiveUp
  <2> QED
    BY <2>1, <2>2 DEF QueryTimeout, EarlyTimeout, Age, Lose, node, vars
<1> QED
  BY <1>1, <1>2, <1>3, SentPassage DEF Passage

-----------------------------------------------------------------------------
(* The data plane is a firewall.                                            *)

LEMMA PassageAndPermissions ==
  TypeOK /\ Permissions /\ Passage /\ [Next]_vars => Permissions' /\ Passage'
<1> SUFFICES ASSUME TypeOK, Permissions, Passage, [Next]_vars PROVE Permissions' /\ Passage'
  OBVIOUS
<1>1. Permissions'
  BY ServerPermissions, ReadFromTUNPermissions, StartWorkerPermissions, TakeAnswerPermissions,
     ReadPermissions, DrainPermissions, OtherPermissions, TrafficIsTyped
  DEF Next, NodeNext
<1>2. Passage'
  BY ServerPassage, ReadFromTUNPassage, StartWorkerPassage, TakeAnswerPassage,
     ReadPassage, DrainPassage, OtherPassage, TrafficIsTyped
  DEF Next, NodeNext
<1> QED
  BY <1>1, <1>2

LEMMA PassageAlways == Spec => [](TypeOK /\ Permissions /\ Passage)
BY PermissionsInit, PassageInit, PassageAndPermissions, PeerCacheTypesCorrect, PTL DEF Spec

\* README, Access Control: whatever is lost, overtaken or mixed up, a call
\* reaches an application only from a machine that was permitted to call it.
THEOREM CallsReachOnlyByPermission == Spec => []CallsWerePermitted
<1>1. Permissions => CallsWerePermitted
  BY DEF Permissions, CallsVouched, CallsWerePermitted
<1> QED
  BY PassageAlways, <1>1, PTL

\* policy.go, AllowP2P: a machine knows the endpoint of another, and sends to
\* it directly, only if each was permitted to call the other, however it has
\* learned it and whoever took whose answer.
THEOREM EndpointsStayPrivate == Spec => []EndpointsAreMutual
<1>1. TypeOK /\ Permissions /\ Passage => EndpointsAreMutual
  <2> SUFFICES ASSUME TypeOK, Permissions, Passage PROVE EndpointsAreMutual
    OBVIOUS
  <2>1. ASSUME NEW n \in Node, NEW p \in Node, cache[n][p] # NoEntry, cache[n][p].addr # NoNode
        PROVE  Mutual(n, cache[n][p].addr)
    BY <2>1 DEF Permissions, EntriesVouched, EntryVouched, Both, Mutual
  <2>2. ASSUME NEW m \in net, m.type = "data", m.direct
        PROVE  Mutual(m.packet.from, m.to)
    BY <2>2 DEF Passage, NetBacked, Backed, Both, Mutual
  <2> QED
    BY <2>1, <2>2 DEF EndpointsAreMutual
<1> QED
  BY PassageAlways, <1>1, PTL

\* What a step is to the firewall.
LEMMA ServerPermits ==
  ASSUME TypeOK, TypeOK', ServerNext
  PROVE  Access!Permit \/ UNCHANGED Access!vars
<1>1. UNCHANGED <<sent, heard>>
  BY DEF ServerNext, node
<1>2. permitted \subseteq permitted' /\ permitted' \subseteq Node \X Node
  BY DEF ServerNext, AdminCommand, HandlePeerQuery, RelayData, ExpireFlow, server, policy, TypeOK
<1> QED
  BY <1>1, <1>2 DEF Access!Permit

LEMMA SendToSends ==
  ASSUME NEW n, NEW p, NEW kind, NEW e, SendTo(n, p, kind, e), UNCHANGED <<permitted, heard>>
  PROVE  Access!Send(n, p) \/ UNCHANGED Access!vars
BY DEF SendTo, Access!Send, Access!vars

LEMMA HandleDataIsHeard ==
  ASSUME TypeOK, Permissions, NEW n \in Node, NEW a \in Arrival, NEW jobs,
         Backed(a, n, permitted, sent), HandleData(n, a, jobs), UNCHANGED <<permitted, sent>>
  PROVE  Access!Next \/ UNCHANGED Access!vars
<1>1. CASE UNCHANGED heard
  BY <1>1 DEF Access!vars
<1>2. ASSUME NEW src \in Node, NEW kind \in Kind, Heard(src, n, kind)
      PROVE  Access!Next
  <2>1. Access!Hear(src, n, kind)
    BY <1>2 DEF Heard, Access!Hear, Access!Answers
  <2> QED
    BY <2>1 DEF Access!Next, Kind
<1> QED
  BY <1>1, <1>2, HandleDataHears

LEMMA NodeActsAsFirewall ==
  ASSUME TypeOK, Permissions, Passage, NEW n \in Node, NodeNext(n)
  PROVE  Access!Next \/ UNCHANGED Access!vars
<1> DEFINE Goal == Access!Next \/ UNCHANGED Access!vars
<1>1. ASSUME NEW p \in Node, NEW kind \in Kind, ReadFromTUN(n, p, kind)
      PROVE  Goal
  <2>1. UNCHANGED <<permitted, heard>>
    BY <1>1 DEF ReadFromTUN, server, policy
  <2> QED
    BY <1>1, <2>1, SendToSends DEF ReadFromTUN, Access!Next, Access!vars
<1>2. ASSUME NEW t \in Thread, TakeAnswer(n, t)
      PROVE  Goal
  <2>1. UNCHANGED <<permitted, heard>>
    BY <1>2 DEF TakeAnswer, server, policy
  <2>2. CASE UNCHANGED sent
    BY <2>1, <2>2 DEF Access!vars
  <2>3. ASSUME NEW p \in Node, NEW kind, NEW e, SendTo(n, p, kind, e)
        PROVE  Goal
    BY <2>1, <2>3, SendToSends DEF Access!Next
  <2> QED
    BY <1>2, <2>2, <2>3, TakenAnswer
<1>3. ASSUME NEW m \in net, ReadData(n, m)
      PROVE  Goal
  <2> DEFINE a == [direct |-> m.direct, packet |-> m.packet]
  <2>1. /\ a \in Arrival /\ Backed(a, n, permitted, sent)
        /\ HandleData(n, a, job[n]) /\ UNCHANGED <<permitted, sent>>
    BY <1>3, ArrivalBacked DEF ReadData, server, policy
  <2> HIDE DEF a
  <2> QED
    BY <2>1, HandleDataIsHeard
<1>4. ASSUME NEW w \in Worker, Drain(n, w)
      PROVE  Goal
  <2> DEFINE q == job[n][w].queue
  <2>1. UNCHANGED <<permitted, sent>>
    BY <1>4 DEF Drain, server, policy
  <2>2. CASE UNCHANGED heard
    BY <2>1, <2>2 DEF Access!vars
  <2>3. CASE q # <<>> /\ HandleData(n, Head(q), [job[n] EXCEPT ![w].queue = Tail(q)])
    <3>1. Head(q) \in Arrival /\ Backed(Head(q), n, permitted, sent)
      BY <1>4, <2>3, DrainBacked DEF Drain
    <3> QED
      BY <2>1, <2>3, <3>1, HandleDataIsHeard
  <2> QED
    BY <1>4, <2>2, <2>3 DEF Drain
<1>5. CASE UNCHANGED <<permitted, sent, heard>>
  BY <1>5 DEF Access!vars
<1>6. ASSUME \/ \E t \in Thread : QueryTimeout(n, t) \/ EarlyTimeout(n, t)
             \/ \E w \in Worker : StartWorker(n, w)
             \/ \E m \in net : ReadAnswer(n, m) \/ ReadPolicy(n, m)
             \/ \E p \in Node : Age(n, p)
      PROVE  UNCHANGED <<permitted, sent, heard>>
  BY <1>6 DEF QueryTimeout, EarlyTimeout, GiveUp, StartWorker, ReadAnswer, ReadPolicy, Age,
              server, policy
<1> QED
  BY <1>1, <1>2, <1>3, <1>4, <1>5, <1>6, TrafficIsTyped DEF NodeNext

\* README, Access Control: the server's policy, the relay with its flows, the
\* answers, the caches, the queues and the direct paths together let through
\* what a firewall lets through that knows of none of them.
THEOREM DataPlaneIsAFirewall == Spec => ImplementsFirewall
<1>1. Init => Access!Init
  BY DEF Init, ServerInit, PairsAllowed, Access!Init
<1>2. TypeOK /\ TypeOK' /\ Permissions /\ Passage /\ [Next]_vars => [Access!Next]_(Access!vars)
  <2> SUFFICES ASSUME TypeOK, TypeOK', Permissions, Passage, [Next]_vars
               PROVE  Access!Next \/ UNCHANGED Access!vars
    OBVIOUS
  <2>1. CASE ServerNext
    BY <2>1, ServerPermits DEF Access!Next
  <2>2. ASSUME NEW n \in Node, NodeNext(n)
        PROVE  Access!Next \/ UNCHANGED Access!vars
    BY <2>2, NodeActsAsFirewall
  <2>3. CASE UNCHANGED vars \/ \E m \in net : Lose(m)
    BY <2>3 DEF vars, Lose, server, policy, node, Access!vars
  <2> QED
    BY <2>1, <2>2, <2>3 DEF Next
<1> QED
  BY PassageAlways, <1>1, <1>2, PTL DEF Spec, ImplementsFirewall, Access!Spec

-----------------------------------------------------------------------------
(* Nothing is left over for a later query: until a node gives up too early, *)
(* it has at most as many queries, answers and answers in its channel as    *)
(* threads that wait.                                                       *)

Of(n, ms) ==
  {m \in ms : (m.type = "query" /\ m.from = n) \/ (m.type = "answer" /\ m.to = n)}

Waiting(js) == {t \in Thread : Waits(js[t])}

Matched(n, ms, ch, js) ==
  IsFiniteSet(Of(n, ms)) /\ Cardinality(Of(n, ms)) + Len(ch) <= Cardinality(Waiting(js))

EveryAnswerAwaited == \A n \in Node \ early : Matched(n, net, replyCh[n], job[n])

LEMMA OneMore ==
  ASSUME NEW S, IsFiniteSet(S), NEW q, NEW T, T \subseteq S \cup {q}
  PROVE  /\ IsFiniteSet(T) /\ Cardinality(T) \in Nat /\ Cardinality(S) \in Nat
         /\ Cardinality(T) <= Cardinality(S) + 1
<1> DEFINE U == S \cup {q}
<1>1. IsFiniteSet(U) /\ Cardinality(S) \in Nat /\ Cardinality(U) <= Cardinality(S) + 1
  BY FS_AddElement, FS_CardinalityType
<1>2. Cardinality(U) \in Nat
  BY <1>1, FS_CardinalityType
<1>3. T \subseteq U
  OBVIOUS
<1> HIDE DEF U
<1>4. IsFiniteSet(T) /\ Cardinality(T) <= Cardinality(U)
  BY <1>1, <1>3, FS_Subset
<1>5. Cardinality(T) \in Nat
  BY <1>4, FS_CardinalityType
<1> QED
  BY <1>1, <1>2, <1>4, <1>5

LEMMA OneForOne ==
  ASSUME NEW S, IsFiniteSet(S), NEW m \in S, NEW r, NEW T, T \subseteq (S \ {m}) \cup {r}
  PROVE  /\ IsFiniteSet(T) /\ Cardinality(T) \in Nat /\ Cardinality(S) \in Nat
         /\ Cardinality(T) <= Cardinality(S)
<1> DEFINE U == S \ {m}
<1>1. IsFiniteSet(U) /\ Cardinality(U) = Cardinality(S) - 1 /\ Cardinality(S) \in Nat
  BY FS_RemoveElement, FS_CardinalityType
<1>2. T \subseteq U \cup {r}
  OBVIOUS
<1> HIDE DEF U
<1>3. /\ IsFiniteSet(T) /\ Cardinality(T) \in Nat /\ Cardinality(U) \in Nat
      /\ Cardinality(T) <= Cardinality(U) + 1
  BY <1>1, <1>2, OneMore
<1> QED
  BY <1>1, <1>3

LEMMA WaitingIsFinite ==
  ASSUME NEW js
  PROVE  IsFiniteSet(Waiting(js)) /\ Cardinality(Waiting(js)) \in Nat
<1>1. IsFiniteSet(Thread)
  BY WorkersAreFinite, FS_Union, FS_Singleton DEF Thread
<1>2. Waiting(js) \subseteq Thread
  BY DEF Waiting
<1> QED
  BY <1>1, <1>2, FS_Subset, FS_CardinalityType

\* What a node that matches may do and still match.
LEMMA FewerStillMatch ==
  ASSUME NEW n, NEW ms, NEW ms2, NEW ch \in Seq(Info \cup {NotFound}), NEW js, NEW js2,
         Matched(n, ms, ch, js), Of(n, ms2) \subseteq Of(n, ms), Waiting(js2) = Waiting(js)
  PROVE  Matched(n, ms2, ch, js2)
<1>1. /\ IsFiniteSet(Of(n, ms2)) /\ Cardinality(Of(n, ms2)) \in Nat
      /\ Cardinality(Of(n, ms)) \in Nat /\ Cardinality(Of(n, ms2)) <= Cardinality(Of(n, ms))
  BY FS_Subset, FS_CardinalityType DEF Matched
<1> QED
  BY <1>1, WaitingIsFinite DEF Matched

LEMMA AskingMatches ==
  ASSUME NEW n, NEW ms, NEW q, NEW ch \in Seq(Info \cup {NotFound}), NEW js, NEW t \in Thread, NEW j,
         Matched(n, ms, ch, js), t \in DOMAIN js, ~ Waits(js[t]), Waits(j)
  PROVE  Matched(n, ms \cup {q}, ch, [js EXCEPT ![t] = j])
<1>1. Of(n, ms \cup {q}) \subseteq Of(n, ms) \cup {q}
  BY DEF Of
<1>3. /\ IsFiniteSet(Of(n, ms \cup {q})) /\ Cardinality(Of(n, ms \cup {q})) \in Nat
      /\ Cardinality(Of(n, ms)) \in Nat
      /\ Cardinality(Of(n, ms \cup {q})) <= Cardinality(Of(n, ms)) + 1
  BY <1>1, OneMore DEF Matched
<1>4. Waiting([js EXCEPT ![t] = j]) = Waiting(js) \cup {t} /\ t \notin Waiting(js)
  BY DEF Waiting
<1>5. Cardinality(Waiting([js EXCEPT ![t] = j])) = Cardinality(Waiting(js)) + 1
  BY <1>4, WaitingIsFinite, FS_AddElement
<1> QED
  BY <1>3, <1>5, WaitingIsFinite DEF Matched

LEMMA TakingMatches ==
  ASSUME NEW n, NEW ms, NEW ms2, NEW ch \in Seq(Info \cup {NotFound}), NEW js, NEW t \in Thread, NEW j,
         Matched(n, ms, ch, js), t \in DOMAIN js, Waits(js[t]), ~ Waits(j),
         Of(n, ms2) \subseteq Of(n, ms), ch # <<>>
  PROVE  Matched(n, ms2, <<>>, [js EXCEPT ![t] = j])
<1>1. /\ IsFiniteSet(Of(n, ms2)) /\ Cardinality(Of(n, ms2)) \in Nat
      /\ Cardinality(Of(n, ms)) \in Nat /\ Cardinality(Of(n, ms2)) <= Cardinality(Of(n, ms))
  BY FS_Subset, FS_CardinalityType DEF Matched
<1>2. Len(ch) \in Nat /\ Len(ch) >= 1
  OBVIOUS
<1>3. Waiting([js EXCEPT ![t] = j]) = Waiting(js) \ {t} /\ t \in Waiting(js)
  BY DEF Waiting
<1>4. Cardinality(Waiting([js EXCEPT ![t] = j])) = Cardinality(Waiting(js)) - 1
  BY <1>3, WaitingIsFinite, FS_RemoveElement
<1> QED
  BY <1>1, <1>2, <1>4, WaitingIsFinite DEF Matched

LEMMA NothingMatches ==
  ASSUME NEW n, NEW ms, NEW js, Of(n, ms) = {}
  PROVE  Matched(n, ms, <<>>, js)
BY FS_EmptySet, WaitingIsFinite DEF Matched

-----------------------------------------------------------------------------

LEMMA AwaitedByParts ==
  ASSUME \A n \in Node \ early' : Matched(n, net', replyCh'[n], job'[n])
  PROVE  EveryAnswerAwaited'
<1> QED
  BY DEF EveryAnswerAwaited, Matched, Of, Waiting, Waits

LEMMA AwaitedInit == Init => EveryAnswerAwaited
<1> SUFFICES ASSUME Init, NEW n \in Node PROVE Matched(n, net, replyCh[n], job[n])
  BY DEF EveryAnswerAwaited
<1>1. Of(n, net) = {} /\ replyCh[n] = <<>>
  BY DEF Init, ServerInit, Of
<1> QED
  BY <1>1, NothingMatches

\* A step that leaves channels, jobs and the nodes that gave up alone matches
\* where no new query or answer is under way.
LEMMA QuietStepAwaited ==
  ASSUME TypeOK, EveryAnswerAwaited, UNCHANGED <<replyCh, early>>,
         \A n \in Node : Waiting(job'[n]) = Waiting(job[n]),
         \A m \in net' : m.type \in {"query", "answer"} => m \in net
  PROVE  EveryAnswerAwaited'
<1>1. ASSUME NEW n \in Node \ early'
      PROVE  Matched(n, net', replyCh'[n], job'[n])
  <2>1. Of(n, net') \subseteq Of(n, net)
    BY DEF Of
  <2>2. Matched(n, net, replyCh[n], job[n]) /\ replyCh[n] \in Seq(Info \cup {NotFound})
    BY DEF EveryAnswerAwaited, TypeOK
  <2> QED
    BY <2>1, <2>2, FewerStillMatch
<1> QED
  BY <1>1, AwaitedByParts

LEMMA ServerAwaited ==
  ASSUME TypeOK, EveryAnswerAwaited, ServerNext
  PROVE  EveryAnswerAwaited'
<1>u. UNCHANGED <<replyCh, early, job>>
  BY DEF ServerNext, node, faults
<1>1. ASSUME NEW c \in Commands, AdminCommand(c) PROVE EveryAnswerAwaited'
  BY <1>u, <1>1, QuietStepAwaited DEF AdminCommand, PolicyPushes
<1>2. ASSUME NEW m \in net, HandlePeerQuery(m) PROVE EveryAnswerAwaited'
  <2> DEFINE r == [type |-> "answer", to |-> m.from, by |-> m.by, info |-> AnswerAbout(m.from, m.about)]
  <2>1. net' = (net \ {m}) \cup {r} /\ m.type = "query" /\ r.type = "answer" /\ r.to = m.from
    BY <1>2 DEF HandlePeerQuery
  <2> HIDE DEF r
  <2>2. ASSUME NEW n \in Node \ early
        PROVE  Matched(n, net', replyCh'[n], job'[n])
    <3>0. Matched(n, net, replyCh[n], job[n]) /\ replyCh[n] \in Seq(Info \cup {NotFound})
      BY DEF EveryAnswerAwaited, TypeOK
    <3>1. CASE n # m.from
      <4>1. Of(n, net') \subseteq Of(n, net)
        BY <2>1, <3>1 DEF Of
      <4> QED
        BY <1>u, <3>0, <4>1, FewerStillMatch
    <3>2. CASE n = m.from
      <4>1. Of(n, net') \subseteq (Of(n, net) \ {m}) \cup {r} /\ m \in Of(n, net)
        BY <2>1, <3>2 DEF Of
      <4>2. /\ IsFiniteSet(Of(n, net')) /\ Cardinality(Of(n, net')) \in Nat
            /\ Cardinality(Of(n, net)) \in Nat
            /\ Cardinality(Of(n, net')) <= Cardinality(Of(n, net))
        <5>1. IsFiniteSet(Of(n, net))
          BY <3>0 DEF Matched
        <5> QED
          BY <4>1, <5>1, OneForOne
      <4> QED
        BY <1>u, <3>0, <4>2, WaitingIsFinite DEF Matched
    <3> QED
      BY <3>1, <3>2
  <2> QED
    BY <1>u, <2>2, AwaitedByParts
<1>3. ASSUME NEW m \in net, RelayData(m) PROVE EveryAnswerAwaited'
  BY <1>u, <1>3, QuietStepAwaited DEF RelayData
<1>4. ASSUME NEW f \in flows, ExpireFlow(f) PROVE EveryAnswerAwaited'
  BY <1>u, <1>4, QuietStepAwaited DEF ExpireFlow
<1> QED
  BY <1>1, <1>2, <1>3, <1>4 DEF ServerNext

LEMMA AskAwaited ==
  ASSUME TypeOK, EveryAnswerAwaited, NEW n \in Node, NEW t \in Thread, NEW j,
         ~ Waits(job[n][t]), Waits(j), Ask(n, t, j), UNCHANGED <<replyCh, early>>
  PROVE  EveryAnswerAwaited'
<1> DEFINE q == [type |-> "query", from |-> n, about |-> j.about, by |-> t]
<1>1. net' = net \cup {q} /\ q.type = "query" /\ q.from = n
  BY DEF Ask
<1>2. job' = [job EXCEPT ![n] = [job[n] EXCEPT ![t] = j]]
  BY DEF Ask
<1> HIDE DEF q
<1>3. ASSUME NEW x \in Node \ early'
      PROVE  Matched(x, net', replyCh'[x], job'[x])
  <2>0. Matched(x, net, replyCh[x], job[x]) /\ replyCh[x] \in Seq(Info \cup {NotFound})
    BY DEF EveryAnswerAwaited, TypeOK
  <2>1. CASE x = n
    <3>1. t \in DOMAIN job[n] /\ job'[n] = [job[n] EXCEPT ![t] = j]
      BY <1>2 DEF TypeOK
    <3>2. Matched(n, net \cup {q}, replyCh[n], [job[n] EXCEPT ![t] = j])
      BY <2>0, <2>1, <3>1, AskingMatches
    <3> QED
      BY <1>1, <2>1, <3>1, <3>2
  <2>2. CASE x # n
    <3>1. job'[x] = job[x]
      BY <1>2, <2>2 DEF TypeOK
    <3>2. Of(x, net') \subseteq Of(x, net)
      BY <1>1, <2>2 DEF Of
    <3> QED
      BY <2>0, <3>1, <3>2, FewerStillMatch
  <2> QED
    BY <2>1, <2>2
<1> QED
  BY <1>3, AwaitedByParts

LEMMA ReadFromTUNAwaited ==
  ASSUME TypeOK, EveryAnswerAwaited, NEW n \in Node, NEW p \in Node, NEW kind \in Kind,
         ReadFromTUN(n, p, kind)
  PROVE  EveryAnswerAwaited'
<1>u. UNCHANGED <<replyCh, early>>
  BY DEF ReadFromTUN, faults
<1>1. CASE ~ MustAsk(n, p) /\ SendTo(n, p, kind, cache[n][p]) /\ UNCHANGED job
  <2>1. cache[n][p] \in Entry
    BY <1>1 DEF MustAsk, Fresh, TypeOK
  <2>2. \A m \in net' : m.type \in {"query", "answer"} => m \in net
    BY <1>1, <2>1, OutgoingTypes DEF SendTo
  <2> QED
    BY <1>u, <1>1, <2>2, QuietStepAwaited
<1>2. CASE Ask(n, Tun, [step |-> "send", about |-> p, kind |-> kind])
  <2>1. Tun \in Thread /\ ~ Waits(job[n][Tun]) /\ Waits([step |-> "send", about |-> p, kind |-> kind])
    BY DEF ReadFromTUN, Thread, Waits, Idle
  <2> QED
    BY <1>u, <1>2, <2>1, AskAwaited
<1> QED
  BY <1>1, <1>2 DEF ReadFromTUN

\* The waiting threads of a node after a job that does not wait has become
\* another that does not wait.
LEMMA OneJobOfNode ==
  ASSUME TypeOK, NEW n \in Node, NEW t \in Thread, NEW j, ~ Waits(job[n][t]), ~ Waits(j),
         job' = [job EXCEPT ![n][t] = j]
  PROVE  \A x \in Node : Waiting(job'[x]) = Waiting(job[x])
BY DEF TypeOK, Waiting

LEMMA StartWorkerAwaited ==
  ASSUME TypeOK, EveryAnswerAwaited, NEW n \in Node, NEW w \in Worker, StartWorker(n, w)
  PROVE  EveryAnswerAwaited'
<1> DEFINE j == job[n][w]
<1>1. w \in Thread /\ ~ Waits(j) /\ UNCHANGED <<replyCh, early>>
  BY DEF Thread, StartWorker, Waits, faults
<1>2. CASE TakeQueue(n, w, j) /\ UNCHANGED net
  <2>0. ~ Waits(Idle) /\ \A queue : ~ Waits([step |-> "drain", queue |-> queue])
    BY DEF Waits, Idle
  <2>1. PICK k : job' = [job EXCEPT ![n][w] = k] /\ ~ Waits(k)
    BY <1>2, <2>0 DEF TakeQueue
  <2>2. \A x \in Node : Waiting(job'[x]) = Waiting(job[x])
    BY <1>1, <2>1, OneJobOfNode
  <2> QED
    BY <1>1, <1>2, <2>2, QuietStepAwaited
<1>3. CASE \E s \in {"flush", "refresh"} : Ask(n, w, [step |-> s, about |-> j.about])
  <2>1. PICK s \in {"flush", "refresh"} : Ask(n, w, [step |-> s, about |-> j.about])
    BY <1>3
  <2>2. Waits([step |-> s, about |-> j.about])
    BY DEF Waits
  <2> QED
    BY <1>1, <2>1, <2>2, AskAwaited
<1> QED
  BY <1>2, <1>3 DEF StartWorker

LEMMA TakeAnswerAwaited ==
  ASSUME TypeOK, EveryAnswerAwaited, NEW n \in Node, NEW t \in Thread, TakeAnswer(n, t)
  PROVE  EveryAnswerAwaited'
<1> DEFINE j == job[n][t]
           info == Head(replyCh[n])
<1>1. j \in Job /\ j.step \in {"send", "refresh", "flush"} /\ Waits(j)
  BY DEF TakeAnswer, Waits, TypeOK
<1>2. j.about \in Node /\ (j.step = "send" => j.kind \in Kind)
  BY <1>1, JobTypes
<1>3. info \in Info \cup {NotFound}
  BY DEF TakeAnswer, TypeOK
<1>4. \A m \in net' : m.type \in {"query", "answer"} => m \in net
  <2>1. CASE UNCHANGED net
    BY <2>1
  <2>2. CASE info # NotFound /\ j.step = "send" /\ SendTo(n, j.about, j.kind, Learned(info))
    BY <1>2, <1>3, <2>2, LearnedType, OutgoingTypes DEF SendTo
  <2> QED
    BY <2>1, <2>2 DEF TakeAnswer
<1>5. PICK k : job' = [job EXCEPT ![n][t] = k] /\ ~ Waits(k)
  <2>1. ~ Waits(Idle) /\ \A queue : ~ Waits([step |-> "drain", queue |-> queue])
    BY DEF Waits, Idle
  <2> QED
    BY <2>1 DEF TakeAnswer, TakeQueue
<1>6. job' = [job EXCEPT ![n] = [job[n] EXCEPT ![t] = k]]
  BY <1>5
<1>7. replyCh[n] # <<>> /\ replyCh' = [replyCh EXCEPT ![n] = <<>>] /\ UNCHANGED early
  BY DEF TakeAnswer, faults
<1>8. ASSUME NEW x \in Node \ early'
      PROVE  Matched(x, net', replyCh'[x], job'[x])
  <2>0. Matched(x, net, replyCh[x], job[x]) /\ replyCh[x] \in Seq(Info \cup {NotFound})
    BY <1>7 DEF EveryAnswerAwaited, TypeOK
  <2>1. Of(x, net') \subseteq Of(x, net)
    BY <1>4 DEF Of
  <2>2. CASE x = n
    <3>1. /\ t \in DOMAIN job[n] /\ job'[n] = [job[n] EXCEPT ![t] = k]
          /\ replyCh'[n] = <<>>
      BY <1>6, <1>7 DEF TypeOK
    <3>2. Matched(n, net', <<>>, [job[n] EXCEPT ![t] = k])
      BY <1>1, <1>5, <1>7, <2>0, <2>1, <2>2, <3>1, TakingMatches
    <3> QED
      BY <2>2, <3>1, <3>2
  <2>3. CASE x # n
    <3>1. job'[x] = job[x] /\ replyCh'[x] = replyCh[x]
      BY <1>6, <1>7, <2>3 DEF TypeOK
    <3> QED
      BY <2>0, <2>1, <3>1, FewerStillMatch
  <2> QED
    BY <2>2, <2>3
<1> QED
  BY <1>8, AwaitedByParts

LEMMA TimeoutAwaited ==
  ASSUME TypeOK, EveryAnswerAwaited, NEW n \in Node, NEW t \in Thread,
         QueryTimeout(n, t) \/ EarlyTimeout(n, t)
  PROVE  EveryAnswerAwaited'
<1>1. /\ replyCh[n] = <<>> /\ UNCHANGED <<net, replyCh>>
      /\ job' = [job EXCEPT ![n][t] = Idle]
      /\ early \subseteq early' /\ (UnderWay(n) = {} \/ n \in early')
  BY DEF QueryTimeout, EarlyTimeout, GiveUp, faults
<1>2. ASSUME NEW x \in Node \ early'
      PROVE  Matched(x, net', replyCh'[x], job'[x])
  <2>1. CASE x = n
    <3>1. Of(n, net') = {}
      BY <1>1, <2>1 DEF UnderWay, Of
    <3> QED
      BY <1>1, <2>1, <3>1, NothingMatches
  <2>2. CASE x # n
    <3>1. job'[x] = job[x]
      BY <1>1, <2>2 DEF TypeOK
    <3> QED
      BY <1>1, <3>1 DEF EveryAnswerAwaited
  <2> QED
    BY <2>1, <2>2
<1> QED
  BY <1>2, AwaitedByParts

\* A handler starts workers, which do not wait yet, and no others.
LEMMA HandleDataWaiting ==
  ASSUME TypeOK, NEW n \in Node, NEW a \in Arrival, NEW jobs \in Jobs, HandleData(n, a, jobs),
         Waiting(jobs) = Waiting(job[n])
  PROVE  \A x \in Node : Waiting(job'[x]) = Waiting(job[x])
<1>1. CASE job' = [job EXCEPT ![n] = jobs]
  BY <1>1 DEF TypeOK
<1>2. ASSUME NEW w \in Worker, NEW k, jobs[w] = Idle, ~ Waits(k),
             job' = [job EXCEPT ![n] = [jobs EXCEPT ![w] = k]]
      PROVE  \A x \in Node : Waiting(job'[x]) = Waiting(job[x])
  <2>1. Waiting([jobs EXCEPT ![w] = k]) = Waiting(jobs)
    BY <1>2 DEF Waiting, Waits, Idle, Jobs
  <2> QED
    BY <1>2, <2>1 DEF TypeOK
<1>3. \A s \in {"startFlush", "startRefresh"} : ~ Waits([step |-> s, about |-> a.packet.from])
  BY DEF Waits
<1>4. ASSUME NEW s \in {"startFlush", "startRefresh"},
             Spawn(n, jobs, [step |-> s, about |-> a.packet.from])
      PROVE  \A x \in Node : Waiting(job'[x]) = Waiting(job[x])
  BY <1>1, <1>2, <1>3, <1>4 DEF Spawn, FreeWorkers
<1> QED
  BY <1>1, <1>4 DEF HandleData

LEMMA ReadAwaited ==
  ASSUME TypeOK, EveryAnswerAwaited, NEW n \in Node, NEW m \in net,
         ReadData(n, m) \/ ReadAnswer(n, m) \/ ReadPolicy(n, m)
  PROVE  EveryAnswerAwaited'
<1>m. m \in Message
  BY DEF TypeOK
<1>1. CASE ReadData(n, m)
  <2>1. [direct |-> m.direct, packet |-> m.packet] \in Arrival
    BY <1>1, <1>m, MessageTypes DEF ReadData, Arrival
  <2>2. job[n] \in Jobs
    BY DEF TypeOK, Jobs
  <2>3. \A x \in Node : Waiting(job'[x]) = Waiting(job[x])
    BY <1>1, <2>1, <2>2, HandleDataWaiting DEF ReadData
  <2> QED
    BY <1>1, <2>3, QuietStepAwaited DEF ReadData, faults
<1>2. CASE ReadAnswer(n, m)
  <2>1. ASSUME NEW x \in Node \ early'
        PROVE  Matched(x, net', replyCh'[x], job'[x])
    <3>0. /\ Matched(x, net, replyCh[x], job[x]) /\ replyCh[x] \in Seq(Info \cup {NotFound})
          /\ net' = net \ {m} /\ job' = job
      BY <1>2 DEF EveryAnswerAwaited, TypeOK, ReadAnswer, faults
    <3>1. CASE replyCh'[x] = replyCh[x]
      <4>1. Of(x, net') \subseteq Of(x, net)
        BY <3>0 DEF Of
      <4> QED
        BY <3>0, <3>1, <4>1, FewerStillMatch
    <3>2. CASE x = n /\ replyCh[n] = <<>> /\ replyCh'[n] = <<m.info>>
      <4>1. Of(x, net') = Of(x, net) \ {m} /\ m \in Of(x, net)
        BY <1>2, <3>0, <3>2 DEF Of, ReadAnswer
      <4>2. /\ IsFiniteSet(Of(x, net'))
            /\ Cardinality(Of(x, net')) = Cardinality(Of(x, net)) - 1
            /\ Cardinality(Of(x, net)) \in Nat
        <5>1. IsFiniteSet(Of(x, net))
          BY <3>0 DEF Matched
        <5> QED
          BY <4>1, <5>1, FS_RemoveElement, FS_CardinalityType
      <4>3. Len(replyCh[x]) = 0 /\ Len(replyCh'[x]) = 1
        BY <3>2
      <4> QED
        BY <3>0, <4>2, <4>3, WaitingIsFinite DEF Matched
    <3> QED
      BY <1>2, <3>1, <3>2 DEF ReadAnswer, TypeOK
  <2> QED
    BY <2>1, AwaitedByParts
<1>3. CASE ReadPolicy(n, m)
  BY <1>3, QuietStepAwaited DEF ReadPolicy, faults
<1> QED
  BY <1>1, <1>2, <1>3

LEMMA DrainAwaited ==
  ASSUME TypeOK, EveryAnswerAwaited, NEW n \in Node, NEW w \in Worker, Drain(n, w)
  PROVE  EveryAnswerAwaited'
<1> DEFINE j == job[n][w]
<1>1. w \in Thread /\ j \in Job /\ j.step = "drain" /\ ~ Waits(j)
  BY DEF Thread, TypeOK, Drain, Waits
<1>2. j.queue \in Seq(Arrival)
  BY <1>1, JobTypes
<1>3. \A x \in Node : Waiting(job'[x]) = Waiting(job[x])
  <2>1. CASE job' = [job EXCEPT ![n][w] = Idle]
    <3>1. ~ Waits(Idle)
      BY DEF Waits, Idle
    <3> QED
      BY <1>1, <2>1, <3>1, OneJobOfNode
  <2>2. CASE j.queue # <<>> /\ HandleData(n, Head(j.queue), [job[n] EXCEPT ![w].queue = Tail(j.queue)])
    <3>1. Head(j.queue) \in Arrival /\ Tail(j.queue) \in Seq(Arrival)
      BY <1>2, <2>2
    <3> DEFINE k == [j EXCEPT !.queue = Tail(j.queue)]
    <3>2. k \in Job /\ k.step = "drain"
      BY <1>1, <3>1 DEF Job, Idle
    <3>3. [job[n] EXCEPT ![w].queue = Tail(j.queue)] = [job[n] EXCEPT ![w] = k]
      OBVIOUS
    <3> HIDE DEF k
    <3>4. [job[n] EXCEPT ![w] = k] \in Jobs
      BY <3>2 DEF TypeOK, Jobs
    <3>5. Waiting([job[n] EXCEPT ![w] = k]) = Waiting(job[n])
      BY <1>1, <3>2 DEF Waiting, Waits, TypeOK
    <3> QED
      BY <2>2, <3>1, <3>3, <3>4, <3>5, HandleDataWaiting
  <2> QED
    BY <2>1, <2>2 DEF Drain
<1> QED
  BY <1>3, QuietStepAwaited DEF Drain, faults

LEMMA OtherAwaited ==
  ASSUME TypeOK, EveryAnswerAwaited, \/ \E n, p \in Node : Age(n, p)
                                     \/ \E m \in net : Lose(m)
                                     \/ UNCHANGED vars
  PROVE  EveryAnswerAwaited'
<1>1. net' \subseteq net /\ UNCHANGED <<replyCh, job, early>>
  BY DEF Age, Lose, faults, node, vars
<1> QED
  BY <1>1, QuietStepAwaited

\* queryPeer and deliver: threads may take each other's answers, but none of
\* these is left when nobody waits, at a node that does not give up too early.
THEOREM NothingIsLeftOver == Spec => []NoLeftover
<1>1. EveryAnswerAwaited /\ TypeOK /\ [Next]_vars => EveryAnswerAwaited'
  BY ServerAwaited, ReadFromTUNAwaited, StartWorkerAwaited, TakeAnswerAwaited, TimeoutAwaited,
     ReadAwaited, DrainAwaited, OtherAwaited, TrafficIsTyped
  DEF Next, NodeNext
<1>2. EveryAnswerAwaited /\ TypeOK => NoLeftover
  <2> SUFFICES ASSUME EveryAnswerAwaited, TypeOK, NEW n \in Node \ early,
                      \A t \in Thread : ~ Waits(job[n][t])
               PROVE  replyCh[n] = <<>> /\ UnderWay(n) = {}
    BY DEF NoLeftover
  <2>1. Waiting(job[n]) = {} /\ Matched(n, net, replyCh[n], job[n])
    BY DEF Waiting, EveryAnswerAwaited
  <2>2. Cardinality(Waiting(job[n])) = 0
    BY <2>1, FS_EmptySet
  <2>3. Cardinality(Of(n, net)) \in Nat /\ Len(replyCh[n]) \in Nat
    BY <2>1, FS_CardinalityType DEF Matched, TypeOK
  <2>4. Cardinality(Of(n, net)) = 0 /\ Len(replyCh[n]) = 0
    BY <2>1, <2>2, <2>3 DEF Matched
  <2>5. Of(n, net) = {}
    BY <2>1, <2>4, FS_EmptySet DEF Matched
  <2> QED
    BY <2>4, <2>5 DEF TypeOK, UnderWay, Of
<1> QED
  BY AwaitedInit, PeerCacheTypesCorrect, <1>1, <1>2, PTL DEF Spec
=============================================================================
