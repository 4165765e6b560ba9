--------------------------- MODULE NodeJoinProofs ---------------------------
(***************************************************************************)
(* NodeJoin for any number and any kinds of fault: types, that no node     *)
(* joins before it is approved, and that the handshake stays in step as    *)
(* long as no answer is late or doubled.                                   *)
(***************************************************************************)
EXTENDS NodeJoin, FiniteSetTheorems, TLAPS

(* Sequences. *)

\* What is left of a path holds nothing new, and keeps its order.
LEMMA TailOf ==
  ASSUME NEW S, NEW q \in Seq(S), q # <<>>
  PROVE  /\ Head(q) \in S
         /\ Head(q) = q[1]
         /\ 1 \in DOMAIN q
         /\ Tail(q) \in Seq(S)
         /\ Len(Tail(q)) = Len(q) - 1
         /\ \A i \in DOMAIN Tail(q) : i + 1 \in DOMAIN q /\ Tail(q)[i] = q[i + 1]
OBVIOUS

\* Sending makes a longer path of the same kind of messages.
LEMMA AppendTo ==
  ASSUME NEW S, NEW q \in Seq(S), NEW x \in S
  PROVE  /\ Append(q, x) \in Seq(S)
         /\ Len(Append(q, x)) = Len(q) + 1
         /\ \A i \in DOMAIN Append(q, x) :
              (i \in DOMAIN q /\ Append(q, x)[i] = q[i]) \/ Append(q, x)[i] = x
OBVIOUS

LEMMA EmptyPath == \A S : <<>> \in Seq(S) /\ Len(<<>>) = 0
OBVIOUS

LEMMA OneMessage ==
  ASSUME NEW S, NEW x \in S
  PROVE  <<x>> \in Seq(S) /\ Len(<<x>>) = 1
OBVIOUS

\* A finite set of numbers leaves one of the first few unused.
LEMMA OneIsFree ==
  ASSUME NEW S, IsFiniteSet(S)
  PROVE  \E n \in 1 .. Cardinality(S) + 1 : n \notin S
<1> SUFFICES ASSUME 1 .. Cardinality(S) + 1 \subseteq S PROVE FALSE
  OBVIOUS
<1>1. Cardinality(S) \in Nat
  BY FS_CardinalityType
<1>2. Cardinality(1 .. Cardinality(S) + 1) = Cardinality(S) + 1
  <2>1. 1 \in Int /\ Cardinality(S) + 1 \in Int
    BY <1>1
  <2>2. Cardinality(1 .. Cardinality(S) + 1)
          = IF 1 > Cardinality(S) + 1 THEN 0 ELSE (Cardinality(S) + 1) - 1 + 1
    BY <2>1, FS_Interval
  <2> QED BY <1>1, <2>2
<1>3. Cardinality(1 .. Cardinality(S) + 1) <= Cardinality(S)
  BY FS_Subset
<1> QED BY <1>1, <1>2, <1>3

\* The elements of a sequence are finitely many.
LEMMA ElementsAreFinite ==
  ASSUME NEW S, NEW q \in Seq(S)
  PROVE  IsFiniteSet({q[i] : i \in DOMAIN q})
<1>1. DOMAIN q = 1 .. Len(q) /\ Len(q) \in Nat
  OBVIOUS
<1>2. IsFiniteSet(DOMAIN q)
  <2>1. 1 \in Int /\ Len(q) \in Int
    BY <1>1
  <2> QED BY <1>1, <2>1, FS_Interval
<1>3. [i \in DOMAIN q |-> q[i]] \in Surjection(DOMAIN q, {q[i] : i \in DOMAIN q})
  BY DEF Surjection
<1> QED BY <1>2, <1>3, FS_Surjection

-----------------------------------------------------------------------------
(* Types. *)

\* A nonce can always be drawn.
LEMMA FreshNonceType ==
  ASSUME TypeOK
  PROVE  FreshNonce \in Nat
<1> DEFINE All == {toServer[i] : i \in DOMAIN toServer} \cup {toNode[i] : i \in DOMAIN toNode}
                    \cup {joinCh[i] : i \in DOMAIN joinCh}
           Carriers == {n \in All : n.type \in {"proof", "challenge"}}
<1>1. IsFiniteSet(All)
  <2>1. IsFiniteSet({toServer[i] : i \in DOMAIN toServer})
    BY ElementsAreFinite DEF TypeOK, NodeOK, NetOK
  <2>2. IsFiniteSet({toNode[i] : i \in DOMAIN toNode})
    BY ElementsAreFinite DEF TypeOK, NodeOK, NetOK
  <2>3. IsFiniteSet({joinCh[i] : i \in DOMAIN joinCh})
    BY ElementsAreFinite DEF TypeOK, NodeOK, NetOK
  <2> QED BY <2>1, <2>2, <2>3, FS_Union
<1>2. IsFiniteSet(Carriers)
  BY <1>1, FS_Subset
<1>3. IsFiniteSet({m.nonce : m \in Carriers})
  <2>1. [m \in Carriers |-> m.nonce] \in Surjection(Carriers, {m.nonce : m \in Carriers})
    BY DEF Surjection
  <2> HIDE DEF Carriers
  <2> QED BY <1>2, <2>1, FS_Surjection
<1>4. IsFiniteSet(NoncesInUse)
  <2>1. NoncesInUse = {nonce} \cup {m.nonce : m \in Carriers}
    BY DEF NoncesInUse
  <2> HIDE DEF Carriers
  <2> QED BY <1>3, <2>1, FS_Singleton, FS_Union
<1>5. Cardinality(NoncesInUse) \in Nat
  BY <1>4, FS_CardinalityType
<1>6. FreshNonce \in 1 .. Cardinality(NoncesInUse) + 1
  BY <1>4, OneIsFree DEF FreshNonce
<1> QED BY <1>5, <1>6

\* What a command, a registration or an approval makes of the entry; only a
\* command that is not whole leaves it allowed without an address.
Change(e) ==
  \/ e \in Decided
  \/ e = Registered
  \/ ~ Whole /\ CanAllow /\ e = Allowed
  \/ approving /\ e = [entry EXCEPT !.addressed = TRUE]

\* The changes one by one: what a command may leave.
UserBlocked ==
  [entry EXCEPT !.user = "blocked", !.machine = IF @ = "absent" THEN @ ELSE "blocked"]

UserUnblocked ==
  [entry EXCEPT !.user = "active", !.machine = IF @ = "blocked" THEN "active" ELSE @]

LEMMA UserDecidedCases ==
  ASSUME entry \in Entry, NEW e \in UserDecided
  PROVE  \/ entry.user = "pending" /\ e = [entry EXCEPT !.user = "active"]
         \/ entry.user = "pending" /\ e = Without("absent")
         \/ entry.user = "active" /\ e = UserBlocked
         \/ entry.user = "blocked" /\ e = UserUnblocked
<1>1. CASE entry.user = "pending"
  BY <1>1 DEF UserDecided
<1>2. CASE entry.user = "active"
  BY <1>2 DEF UserDecided, UserBlocked
<1>3. CASE entry.user = "blocked"
  BY <1>3 DEF UserDecided, UserUnblocked
<1>4. CASE entry.user = "absent"
  BY <1>4 DEF UserDecided
<1> QED BY <1>1, <1>2, <1>3, <1>4 DEF Entry, Status

LEMMA MachineDecidedCases ==
  ASSUME entry \in Entry, NEW e \in MachineDecided
  PROVE  \/ entry.machine = "pending" /\ e = Without(entry.user)
         \/ entry.machine = "active" /\ e = [entry EXCEPT !.machine = "blocked"]
         \/ entry.machine = "blocked" /\ e = [entry EXCEPT !.machine = "active"]
<1>1. CASE entry.machine = "pending"
  BY <1>1 DEF MachineDecided
<1>2. CASE entry.machine = "active"
  BY <1>2 DEF MachineDecided
<1>3. CASE entry.machine = "blocked"
  BY <1>3 DEF MachineDecided
<1>4. CASE entry.machine = "absent"
  BY <1>4 DEF MachineDecided
<1> QED BY <1>1, <1>2, <1>3, <1>4 DEF Entry, Status

\* A changed entry is an entry.
LEMMA ChangeTypes ==
  ASSUME entry \in Entry
  PROVE  /\ Registered \in Entry
         /\ [Allowed EXCEPT !.addressed = TRUE] \in Entry
         /\ \A e : Change(e) => e \in Entry
<1>1. Registered \in Entry
  BY DEF Registered, Entry, Status
<1>2. Allowed \in Entry
  BY DEF Allowed, Entry, Status
<1>3. [Allowed EXCEPT !.addressed = TRUE] \in Entry
  BY <1>2 DEF Entry
<1>4. [entry EXCEPT !.addressed = TRUE] \in Entry
  BY DEF Entry
<1>5. ASSUME NEW e \in UserDecided PROVE e \in Entry
  <2>1. CASE entry.user = "pending" /\ e = [entry EXCEPT !.user = "active"]
    BY <2>1 DEF Entry, Status
  <2>2. CASE entry.user = "pending" /\ e = Without("absent")
    BY <2>2 DEF Without, Entry, Status
  <2>3. CASE entry.user = "active" /\ e = UserBlocked
    BY <2>3 DEF UserBlocked, Entry, Status
  <2>4. CASE entry.user = "blocked" /\ e = UserUnblocked
    BY <2>4 DEF UserUnblocked, Entry, Status
  <2> QED BY <2>1, <2>2, <2>3, <2>4, UserDecidedCases
<1>6. ASSUME NEW e \in MachineDecided PROVE e \in Entry
  <2>1. CASE entry.machine = "pending" /\ e = Without(entry.user)
    BY <2>1 DEF Without, Entry, Status
  <2>2. CASE entry.machine = "active" /\ e = [entry EXCEPT !.machine = "blocked"]
    BY <2>2 DEF Entry, Status
  <2>3. CASE entry.machine = "blocked" /\ e = [entry EXCEPT !.machine = "active"]
    BY <2>3 DEF Entry, Status
  <2> QED BY <2>1, <2>2, <2>3, MachineDecidedCases
<1> QED
  BY <1>1, <1>2, <1>3, <1>4, <1>5, <1>6 DEF Change, Decided

\* What a step does to the registry: it stores a change, and perhaps fails to
\* save it, or reads back what it has saved.
LEMMA StoreStep ==
  ASSUME [Next]_vars
  PROVE  \/ UNCHANGED <<entry, disk>>
         \/ \E e : Change(e) /\ entry' = e /\ disk' \in {disk, e}
         \/ /\ CanAllow
            /\ entry' = [Allowed EXCEPT !.addressed = TRUE]
            /\ disk' = entry' \/ (~ Whole /\ disk' = Allowed)
         \/ Restart /\ entry' = disk /\ disk' = disk
<1>1. CASE Lose \/ Receive \/ JoinLoop \/ Rejoin
  BY <1>1 DEF Lose, Receive, JoinLoop, Rejoin, SendRequest, ReadFirst, ReadSecond, JoinTimeout,
     WakeUp, ReadApproval, ApprovalTimeout, server
<1>2. CASE HandleRequest
  <2>1. (entry.user = "absent" /\ Store(Registered)) \/ StoreNothing
    BY <1>2 DEF HandleRequest
  <2> QED BY <2>1 DEF Change, Store, StoreNothing
<1>3. CASE RefuseProof
  BY <1>3 DEF RefuseProof
<1>4. CASE AcceptProof
  BY <1>4 DEF AcceptProof, Store, StoreNothing, Change
<1>5. CASE FailSave
  BY <1>5 DEF FailSave, Change
<1>6. CASE Approve \/ ConsoleAllow \/ ConsoleFinish \/ Decide
  BY <1>6 DEF Approve, ConsoleAllow, ConsoleFinish, Decide, Store, Change, Whole
<1>7. CASE FailCommand
  <2>0. ~ Whole
    BY <1>7 DEF FailCommand, Fault, Whole
  <2>1. CASE StopAfterAllow
    BY <2>0, <2>1 DEF StopAfterAllow, Store, Change
  <2>2. CASE StopConsole
    BY <2>2 DEF StopConsole, Change
  <2>3. CASE entry' \in Decided /\ UNCHANGED <<disk, approving>>
    BY <2>3 DEF Change
  <2> QED BY <1>7, <2>1, <2>2, <2>3 DEF FailCommand
<1>8. CASE Restart
  BY <1>8 DEF Restart
<1>9. CASE UNCHANGED vars
  BY <1>9 DEF vars, server
<1> QED
  BY <1>1, <1>2, <1>3, <1>4, <1>5, <1>6, <1>7, <1>8, <1>9 DEF Next, Serve, Admins

\* So the registry keeps its types.
LEMMA StoreTypes ==
  ASSUME TypeOK, [Next]_vars
  PROVE  entry' \in Entry /\ disk' \in Entry
<1>1. entry \in Entry /\ disk \in Entry
  BY DEF TypeOK, ServerOK
<1>2. CASE /\ CanAllow
           /\ entry' = [Allowed EXCEPT !.addressed = TRUE]
           /\ disk' = entry' \/ (~ Whole /\ disk' = Allowed)
  BY <1>1, <1>2, ChangeTypes DEF Change
<1> QED BY <1>1, <1>2, StoreStep, ChangeTypes

\* A reply has the right type whatever the registry says of the machine.
LEMMA AnswerTypes ==
  ASSUME TypeOK
  PROVE  /\ ReplyOf("pending", FALSE) \in JoinMessage \cup Push
         /\ ReplyOf("rejected", FALSE) \in JoinMessage \cup Push
         /\ ReplyOf(JoinResult, entry.addressed) \in JoinMessage \cup Push
         /\ [type |-> "challenge", nonce |-> FreshNonce] \in JoinMessage \cup Push
<1>1. FreshNonce \in Nat
  BY FreshNonceType
<1>2. JoinResult \in Result /\ entry.addressed \in BOOLEAN
  <2>1. entry \in Entry
    BY DEF TypeOK, ServerOK
  <2>2. entry.machine \in Status /\ entry.addressed \in BOOLEAN
    BY <2>1 DEF Entry
  <2>3. CASE Barred
    BY <2>2, <2>3 DEF JoinResult, Result
  <2>4. CASE ~ Barred
    <3>1. Registered.machine \in {"pending", "active"}
      <4>1. CASE entry.machine = "absent"
        BY <2>1, <2>4, <4>1 DEF Registered, Entry
      <4>2. CASE entry.machine # "absent"
        BY <2>2, <2>4, <4>2 DEF Registered, Barred, Status
      <4> QED BY <4>1, <4>2
    <3> QED BY <2>2, <2>4, <3>1 DEF JoinResult, Result
  <2> QED BY <2>3, <2>4
<1> QED
  BY <1>1, <1>2 DEF ReplyOf, JoinMessage, Reply, Challenge, Result

\* A fault is counted.
LEMMA FaultTypes ==
  ASSUME NEW kind, Fault(kind), regime \in Regime
  PROVE  regime' \in Regime
<1>1. PICK c \in BOOLEAN, k \in SUBSET FaultKind, n \in 0 .. MaxFaults :
        regime = [console |-> c, kinds |-> k, count |-> n]
  BY DEF Regime
<1>2. regime' = [console |-> c, kinds |-> k, count |-> n + 1]
  BY <1>1 DEF Fault
<1>3. n < MaxFaults
  BY <1>1 DEF Fault
<1>4. n + 1 \in 0 .. MaxFaults
  BY <1>3, MaxFaultsIsNumber
<1> QED BY <1>2, <1>4 DEF Regime

\* Once more: what arrives, and what is left.
LEMMA ArrivesTypes ==
  ASSUME NEW S, NEW q \in Seq(S), NEW rest, Arrives(q, rest), regime \in Regime
  PROVE  rest \in Seq(S) /\ Head(q) \in S /\ regime' \in Regime
BY FaultTypes DEF Arrives

LEMMA ElapseTypes ==
  ASSUME Elapse, regime \in Regime
  PROVE  regime' \in Regime
BY FaultTypes DEF Elapse

\* What tryJoin does with a reply.
LEMMA AnsweredCases ==
  ASSUME NEW m \in Reply, Answered(m)
  PROVE  \/ m.result = "active" /\ BringUp
         \/ m.result = "active" /\ Fatal
         \/ m.result = "pending" /\ Goto("awaitApproval")
         \/ Goto("sleep")
<1>1. m.result \in Result /\ m.ip \in BOOLEAN
  BY DEF Reply
<1>2. CASE m.result = "active" /\ m.ip
  BY <1>2 DEF Answered
<1>3. CASE m.result = "active" /\ ~ m.ip
  BY <1>3 DEF Answered
<1>4. CASE m.result = "pending"
  BY <1>4 DEF Answered
<1>5. CASE m.result \in {"blocked", "rejected"}
  BY <1>5 DEF Answered
<1> QED BY <1>1, <1>2, <1>3, <1>4, <1>5 DEF Result

LEMMA AnsweredTypes ==
  ASSUME NEW m \in Reply, Answered(m), tunnel \in BOOLEAN
  PROVE  /\ pc' \in {"sleep", "awaitApproval", "joined", "dead"}
         /\ tunnel' \in BOOLEAN
BY AnsweredCases DEF BringUp, Fatal, Goto

\* A message of the join channel is a challenge or a reply.
LEMMA JoinMessageKinds ==
  ASSUME NEW m \in JoinMessage
  PROVE  /\ m.type = "challenge" => m \in Challenge
         /\ m.type # "challenge" => m \in Reply
BY DEF JoinMessage, Challenge, Reply

\* A full channel keeps what it has.
LEMMA DeliverTypes ==
  ASSUME NEW S, NEW ch \in Seq(S), Len(ch) <= 1, NEW m \in S
  PROVE  Deliver(ch, m) \in Seq(S) /\ Len(Deliver(ch, m)) <= 1
<1>1. CASE ch = <<>>
  BY <1>1, OneMessage DEF Deliver
<1>2. CASE ch # <<>>
  BY <1>2 DEF Deliver
<1> QED BY <1>1, <1>2

LEMMA InitTypes == Init => TypeOK
<1> SUFFICES ASSUME Init PROVE TypeOK
  OBVIOUS
<1>1. NodeOK
  <2>1. joinCh \in Seq(JoinMessage) /\ Len(joinCh) <= 1
    BY EmptyPath DEF Init
  <2>2. approveCh \in Seq(Push) /\ Len(approveCh) <= 1
    BY EmptyPath DEF Init
  <2>3. pc = "request" /\ tunnel \in BOOLEAN
    BY DEF Init
  <2> QED BY <2>1, <2>2, <2>3 DEF NodeOK
<1>2. NetOK
  <2>1. regime \in Regime
    <3>1. PICK c \in Circumstances : regime = [console |-> c.console, kinds |-> c.kinds, count |-> 0]
      BY DEF Init
    <3>2. c \in [console: BOOLEAN, kinds: SUBSET FaultKind]
      BY CircumstancesAreKnown
    <3>3. 0 \in 0 .. MaxFaults
      BY MaxFaultsIsNumber
    <3> QED BY <3>1, <3>2, <3>3 DEF Regime
  <2>2. toServer \in Seq(Request \cup Proof) /\ toNode \in Seq(JoinMessage \cup Push)
    BY EmptyPath DEF Init
  <2> QED BY <2>1, <2>2 DEF NetOK
<1>3. ServerOK
  <2>1. entry \in Entry
    BY DEF Init, Entry, Status
  <2> QED BY <2>1 DEF Init, ServerOK, NoNonce
<1> QED BY <1>1, <1>2, <1>3 DEF TypeOK

\* What a step leaves alone keeps its type.
LEMMA Untouched ==
  ASSUME TypeOK
  PROVE  /\ UNCHANGED node => NodeOK'
         /\ UNCHANGED server => ServerOK'
         /\ UNCHANGED <<net, regime>> => NetOK'
BY DEF TypeOK, NodeOK, NetOK, ServerOK, node, net, server

\* The server's answer and the datagram it answers.
LEMMA HandleTypes ==
  ASSUME NetOK, NEW kind, NEW answer \in JoinMessage \cup Push, Handle(kind, answer)
  PROVE  NetOK'
<1>1. toServer' \in Seq(Request \cup Proof) /\ regime' \in Regime
  BY ArrivesTypes DEF NetOK, Handle
<1>2. toNode' \in Seq(JoinMessage \cup Push)
  BY AppendTo DEF NetOK, Handle
<1> QED BY <1>1, <1>2 DEF NetOK

\* Every step keeps the types.
LEMMA NodeStepTypes ==
  ASSUME TypeOK, Receive \/ JoinLoop \/ Rejoin
  PROVE  TypeOK'
<1> USE DEF TypeOK
<1>0. ServerOK'
  BY Untouched DEF Receive, JoinLoop, Rejoin, SendRequest, ReadFirst, ReadSecond, JoinTimeout,
     WakeUp, ReadApproval, ApprovalTimeout
<1>1. CASE Receive
  <2> DEFINE m == Head(toNode)
  <2>1. /\ toNode' \in Seq(JoinMessage \cup Push)
        /\ m \in JoinMessage \cup Push
        /\ regime' \in Regime
    BY <1>1, ArrivesTypes DEF Receive, NetOK
  <2>2. NetOK'
    BY <1>1, <2>1 DEF Receive, NetOK
  <2>3. CASE m.type = "push"
    <3>1. m \in Push
      BY <2>1, <2>3 DEF JoinMessage, Challenge, Reply, Push
    <3>2. approveCh' = Deliver(approveCh, m) /\ UNCHANGED <<pc, tunnel, joinCh>>
      BY <1>1, <2>3 DEF Receive
    <3> HIDE DEF m
    <3>3. NodeOK'
      BY <3>1, <3>2, DeliverTypes DEF NodeOK
    <3> QED BY <1>0, <2>2, <3>3
  <2>4. CASE m.type # "push"
    <3>1. m \in JoinMessage
      BY <2>1, <2>4 DEF Push
    <3>2. joinCh' = Deliver(joinCh, m) /\ UNCHANGED <<pc, tunnel, approveCh>>
      BY <1>1, <2>4 DEF Receive
    <3> HIDE DEF m
    <3>3. NodeOK'
      BY <3>1, <3>2, DeliverTypes DEF NodeOK
    <3> QED BY <1>0, <2>2, <3>3
  <2> QED BY <2>3, <2>4
<1>2. CASE SendRequest
  <2>1. [type |-> "request"] \in Request \cup Proof
    BY DEF Request
  <2>2. NetOK'
    BY <1>2, <2>1, AppendTo DEF SendRequest, Send, NetOK
  <2> QED BY <1>0, <1>2, <2>2 DEF SendRequest, NodeOK
<1>3. CASE ReadFirst
  <2>1. Head(joinCh) \in JoinMessage /\ joinCh' \in Seq(JoinMessage) /\ Len(joinCh') <= 1
    BY <1>3, TailOf DEF ReadFirst, NodeOK
  <2>2. CASE Head(joinCh).type = "challenge"
    <3>1. [type |-> "proof", nonce |-> Head(joinCh).nonce] \in Request \cup Proof
      BY <2>1, <2>2, JoinMessageKinds DEF Challenge, Proof
    <3>2. Goto("awaitSecond") /\ Send([type |-> "proof", nonce |-> Head(joinCh).nonce])
      BY <1>3, <2>2 DEF ReadFirst
    <3>3. NetOK'
      BY <1>3, <3>1, <3>2, AppendTo DEF ReadFirst, Send, NetOK
    <3> QED BY <1>0, <1>3, <2>1, <3>2, <3>3 DEF ReadFirst, Goto, NodeOK
  <2>3. CASE Head(joinCh).type # "challenge"
    <3>1. Answered(Head(joinCh)) /\ UNCHANGED <<net, regime>>
      BY <1>3, <2>3 DEF ReadFirst
    <3>2. pc' \in {"sleep", "awaitApproval", "joined", "dead"} /\ tunnel' \in BOOLEAN
      BY <2>1, <2>3, <3>1, JoinMessageKinds, AnsweredTypes DEF NodeOK
    <3>3. NodeOK'
      BY <1>3, <2>1, <3>2 DEF ReadFirst, NodeOK
    <3> QED BY <1>0, <3>1, <3>3, Untouched
  <2> QED BY <2>2, <2>3
<1>4. CASE ReadSecond
  <2>1. Head(joinCh) \in JoinMessage /\ joinCh' \in Seq(JoinMessage) /\ Len(joinCh') <= 1
    BY <1>4, TailOf DEF ReadSecond, NodeOK
  <2>2. pc' \in {"sleep", "awaitApproval", "joined", "dead"} /\ tunnel' \in BOOLEAN
    <3>1. CASE Head(joinCh).type = "challenge"
      BY <1>4, <3>1 DEF ReadSecond, Goto, NodeOK
    <3>2. CASE Head(joinCh).type # "challenge"
      <4>1. Answered(Head(joinCh))
        BY <1>4, <3>2 DEF ReadSecond
      <4> QED BY <2>1, <3>2, <4>1, JoinMessageKinds, AnsweredTypes DEF NodeOK
    <3> QED BY <3>1, <3>2
  <2>3. NodeOK'
    BY <1>4, <2>1, <2>2 DEF ReadSecond, NodeOK
  <2> QED BY <1>0, <1>4, <2>3, Untouched DEF ReadSecond
<1>5. CASE JoinTimeout \/ WakeUp \/ ApprovalTimeout
  <2>1. NetOK'
    BY <1>5, ElapseTypes DEF JoinTimeout, WakeUp, ApprovalTimeout, NetOK, net
  <2>2. NodeOK'
    BY <1>5 DEF JoinTimeout, WakeUp, ApprovalTimeout, Goto, NodeOK
  <2> QED BY <1>0, <2>1, <2>2
<1>6. CASE ReadApproval
  <2>1. approveCh' \in Seq(Push) /\ Len(approveCh') <= 1
    BY <1>6, TailOf DEF ReadApproval, NodeOK
  <2>2. NodeOK'
    BY <1>6, <2>1 DEF ReadApproval, BringUp, NodeOK
  <2> QED BY <1>0, <1>6, <2>2, Untouched DEF ReadApproval
<1>7. CASE Rejoin
  <2>1. NetOK'
    BY <1>7, FaultTypes DEF Rejoin, NetOK, net
  <2>2. NodeOK'
    BY <1>7 DEF Rejoin, Goto, NodeOK
  <2> QED BY <1>0, <2>1, <2>2
<1> QED
  BY <1>1, <1>2, <1>3, <1>4, <1>5, <1>6, <1>7 DEF JoinLoop

LEMMA ServerStepTypes ==
  ASSUME TypeOK, Serve \/ Admins \/ Restart
  PROVE  TypeOK'
<1> USE DEF TypeOK
<1>0. NodeOK'
  BY Untouched DEF Serve, Admins, Restart, HandleRequest, RefuseProof, AcceptProof, FailSave,
     Approve, ConsoleAllow, ConsoleFinish, Decide, FailCommand
<1>e. entry' \in Entry /\ disk' \in Entry
  BY StoreTypes DEF Next
<1>1. CASE HandleRequest
  <2>1. NetOK'
    BY <1>1, AnswerTypes, HandleTypes DEF HandleRequest
  <2>2. nonce' \in Nat /\ known' = TRUE /\ approving' = approving
    BY <1>1, FreshNonceType DEF HandleRequest, ServerOK
  <2> QED BY <1>0, <1>e, <2>1, <2>2 DEF ServerOK
<1>2. CASE RefuseProof
  <2>1. NetOK'
    BY <1>2, AnswerTypes, HandleTypes DEF RefuseProof
  <2>2. ServerOK'
    BY <1>2 DEF RefuseProof, ServerOK, NoNonce
  <2> QED BY <1>0, <2>1, <2>2
<1>3. CASE AcceptProof
  <2>1. NetOK'
    BY <1>3, AnswerTypes, HandleTypes DEF AcceptProof
  <2>2. nonce' = NoNonce /\ known' = TRUE /\ approving' = approving
    BY <1>3 DEF AcceptProof
  <2> QED BY <1>0, <1>e, <2>1, <2>2 DEF ServerOK, NoNonce
<1>4. CASE FailSave
  <2>1. toServer' \in Seq(Request \cup Proof)
    BY <1>4, TailOf DEF FailSave, NetOK
  <2>2. toNode' \in Seq(JoinMessage \cup Push)
    BY <1>4, AnswerTypes, AppendTo DEF FailSave, NetOK
  <2>3. regime' \in Regime
    BY <1>4, FaultTypes DEF FailSave, NetOK
  <2>4. /\ nonce' = nonce \/ nonce' = NoNonce
        /\ known' = TRUE /\ approving' = approving
    BY <1>4 DEF FailSave
  <2> QED BY <1>0, <1>e, <2>1, <2>2, <2>3, <2>4 DEF ServerOK, NoNonce, NetOK
<1>5. CASE Approve \/ ConsoleFinish
  <2>1. [type |-> "push"] \in JoinMessage \cup Push
    BY DEF Push
  <2>2. NetOK'
    <3>1. Notify /\ UNCHANGED <<toServer, regime>>
      BY <1>5 DEF Approve, ConsoleFinish
    <3>2. toNode' = toNode \/ toNode' = Append(toNode, [type |-> "push"])
      BY <3>1 DEF Notify
    <3>3. toNode' \in Seq(JoinMessage \cup Push)
      BY <2>1, <3>2, AppendTo DEF NetOK
    <3> QED BY <3>1, <3>3 DEF NetOK
  <2>3. UNCHANGED <<nonce, known>> /\ approving' \in BOOLEAN
    BY <1>5 DEF Approve, ConsoleFinish, ServerOK
  <2> QED BY <1>0, <1>e, <2>2, <2>3 DEF ServerOK
<1>6. CASE ConsoleAllow \/ Decide
  <2>1. UNCHANGED <<nonce, known>> /\ approving' \in BOOLEAN
    BY <1>6 DEF ConsoleAllow, Decide, ServerOK
  <2>2. NetOK'
    BY <1>6, Untouched DEF ConsoleAllow, Decide
  <2> QED BY <1>0, <1>e, <2>1, <2>2 DEF ServerOK
<1>7. CASE Restart
  <2>1. NetOK'
    BY <1>7, FaultTypes DEF Restart, NetOK, net
  <2>2. ServerOK'
    BY <1>7 DEF Restart, ServerOK, NoNonce
  <2> QED BY <1>0, <2>1, <2>2
<1>8. CASE FailCommand
  <2>1. NetOK'
    BY <1>8, FaultTypes DEF FailCommand, NetOK, net
  <2>2. UNCHANGED <<nonce, known>> /\ approving' \in BOOLEAN
    BY <1>8 DEF FailCommand, StopAfterAllow, StopConsole, ServerOK
  <2> QED BY <1>0, <1>e, <2>1, <2>2 DEF ServerOK
<1> QED
  BY <1>1, <1>2, <1>3, <1>4, <1>5, <1>6, <1>7, <1>8 DEF Serve, Admins

LEMMA StepTypes ==
  ASSUME TypeOK, [Next]_vars
  PROVE  TypeOK'
<1>1. CASE Lose
  <2>1. toServer' \in Seq(Request \cup Proof)
    BY <1>1, TailOf DEF Lose, TypeOK, NetOK
  <2>2. toNode' \in Seq(JoinMessage \cup Push)
    BY <1>1, TailOf DEF Lose, TypeOK, NetOK
  <2>3. regime' \in Regime
    BY <1>1, FaultTypes DEF Lose, TypeOK, NetOK
  <2> QED BY <1>1, <2>1, <2>2, <2>3, Untouched DEF Lose, TypeOK, NetOK
<1>2. CASE Receive \/ JoinLoop \/ Rejoin
  BY <1>2, NodeStepTypes
<1>3. CASE Serve \/ Admins \/ Restart
  BY <1>3, ServerStepTypes
<1>4. CASE UNCHANGED vars
  BY <1>4, Untouched DEF vars, TypeOK
<1> QED
  BY <1>1, <1>2, <1>3, <1>4 DEF Next

\* Types hold whatever faults happen, in any number: the channels never hold
\* more than one message each, of the kind that is read from them.
THEOREM NodeTypesCorrect == Spec => []TypeOK
<1>1. Init => TypeOK
  BY InitTypes
<1>2. TypeOK /\ [Next]_vars => TypeOK'
  BY StepTypes
<1> QED BY <1>1, <1>2, PTL DEF Spec

-----------------------------------------------------------------------------
(* No node joins before it is approved. *)

\* A change keeps the entry coherent, and an approval is only turned into a
\* block and back.
LEMMA ChangeCoherent ==
  ASSUME entry \in Entry, Coherent(entry), approving => entry.approved, NEW e, Change(e)
  PROVE  Coherent(e) /\ (entry.approved => e.approved)
<1>1. CASE e \in UserDecided
  <2>1. CASE entry.user = "pending" /\ e = [entry EXCEPT !.user = "active"]
    BY <2>1 DEF Entry, Status, Coherent
  <2>2. CASE entry.user = "pending" /\ e = Without("absent")
    BY <2>2 DEF Without, Entry, Status, Coherent
  <2>3. CASE entry.user = "active" /\ e = UserBlocked
    BY <2>3 DEF UserBlocked, Entry, Status, Coherent
  <2>4. CASE entry.user = "blocked" /\ e = UserUnblocked
    BY <2>4 DEF UserUnblocked, Entry, Status, Coherent
  <2> QED BY <1>1, <2>1, <2>2, <2>3, <2>4, UserDecidedCases
<1>2. CASE e \in MachineDecided
  <2>1. CASE entry.machine = "pending" /\ e = Without(entry.user)
    BY <2>1 DEF Without, Entry, Status, Coherent
  <2>2. CASE entry.machine = "active" /\ e = [entry EXCEPT !.machine = "blocked"]
    BY <2>2 DEF Entry, Status, Coherent
  <2>3. CASE entry.machine = "blocked" /\ e = [entry EXCEPT !.machine = "active"]
    BY <2>3 DEF Entry, Status, Coherent
  <2> QED BY <1>2, <2>1, <2>2, <2>3, MachineDecidedCases
<1>3. CASE e = Registered
  BY <1>3 DEF Registered, Entry, Status, Coherent
<1>4. CASE ~ Whole /\ CanAllow /\ e = Allowed
  BY <1>4 DEF CanAllow, Allowed, Entry, Status, Coherent
<1>5. CASE approving /\ e = [entry EXCEPT !.addressed = TRUE]
  BY <1>5 DEF Entry, Status, Coherent
<1> QED
  BY <1>1, <1>2, <1>3, <1>4, <1>5 DEF Change, Decided

\* An approval gives what an approved machine has.
LEMMA AllowedCoherent ==
  ASSUME entry \in Entry, CanAllow
  PROVE  /\ Coherent(Allowed) /\ Allowed.approved
         /\ Coherent([Allowed EXCEPT !.addressed = TRUE])
         /\ [Allowed EXCEPT !.addressed = TRUE].approved
<1>1. Allowed.machine = "active" /\ Allowed.user = "active" /\ Allowed.approved /\ Allowed \in Entry
  BY DEF CanAllow, Allowed, Entry, Status
<1> QED BY <1>1 DEF Entry, Status, Coherent

\* No change gives an address, unless a console command is about to.
LEMMA ChangeAddresses ==
  ASSUME entry \in Entry, ~ entry.addressed, ~ approving, NEW e, Change(e)
  PROVE  ~ e.addressed
<1>1. CASE e \in UserDecided
  <2>1. CASE entry.user = "pending" /\ e = [entry EXCEPT !.user = "active"]
    BY <2>1 DEF Entry
  <2>2. CASE entry.user = "pending" /\ e = Without("absent")
    BY <2>2 DEF Without, Entry
  <2>3. CASE entry.user = "active" /\ e = UserBlocked
    BY <2>3 DEF UserBlocked, Entry
  <2>4. CASE entry.user = "blocked" /\ e = UserUnblocked
    BY <2>4 DEF UserUnblocked, Entry
  <2> QED BY <1>1, <2>1, <2>2, <2>3, <2>4, UserDecidedCases
<1>2. CASE e \in MachineDecided
  <2>1. CASE entry.machine = "pending" /\ e = Without(entry.user)
    BY <2>1 DEF Without, Entry
  <2>2. CASE entry.machine = "active" /\ e = [entry EXCEPT !.machine = "blocked"]
    BY <2>2 DEF Entry
  <2>3. CASE entry.machine = "blocked" /\ e = [entry EXCEPT !.machine = "active"]
    BY <2>3 DEF Entry
  <2> QED BY <1>2, <2>1, <2>2, <2>3, MachineDecidedCases
<1>3. CASE e \in {Registered, Allowed}
  BY <1>3 DEF Registered, Allowed, Entry
<1> QED BY <1>1, <1>2, <1>3 DEF Change, Decided

\* Every step keeps the registry coherent, in memory and on disk, and what a
\* console command is finishing is approved.
LEMMA StepCoherent ==
  ASSUME TypeOK, [Next]_vars, ApprovalInv
  PROVE  /\ Coherent(entry)' /\ Coherent(disk)'
         /\ (approving => entry.approved)'
<1>1. entry \in Entry /\ Coherent(entry) /\ Coherent(disk) /\ (approving => entry.approved)
  BY DEF TypeOK, ServerOK, ApprovalInv
<1>2. Coherent(entry') /\ Coherent(disk')
  BY <1>1, StoreStep, ChangeCoherent, AllowedCoherent
<1>3. approving' => entry'.approved
  <2>1. CASE ConsoleAllow
    BY <1>1, <2>1, AllowedCoherent DEF ConsoleAllow, Store
  <2>2. CASE Restart \/ ConsoleFinish
    BY <2>2 DEF Restart, ConsoleFinish
  <2>3. CASE [Next]_vars /\ ~ ConsoleAllow /\ ~ Restart /\ ~ ConsoleFinish
    <3>1. approving' => approving
      <4>1. CASE Lose \/ Receive \/ JoinLoop \/ Rejoin \/ UNCHANGED vars
        BY <4>1 DEF Lose, Receive, JoinLoop, Rejoin, SendRequest, ReadFirst, ReadSecond,
           JoinTimeout, WakeUp, ReadApproval, ApprovalTimeout, vars, server
      <4>2. CASE Serve \/ Approve \/ Decide
        BY <4>2 DEF Serve, HandleRequest, RefuseProof, AcceptProof, FailSave, Approve, Decide
      <4>3. CASE FailCommand
        BY <4>3 DEF FailCommand, StopAfterAllow, StopConsole
      <4> QED BY <2>3, <4>1, <4>2, <4>3 DEF Next, Admins
    <3>2. entry' = entry \/ (\E e : Change(e) /\ entry' = e)
            \/ (CanAllow /\ entry' = [Allowed EXCEPT !.addressed = TRUE])
      BY <2>3, StoreStep
    <3> QED BY <1>1, <3>1, <3>2, ChangeCoherent, AllowedCoherent
  <2> QED BY <2>1, <2>2, <2>3
<1> QED BY <1>2, <1>3 DEF Coherent

\* Nobody loses an approval that is on disk.
LEMMA ApprovalLasts ==
  ASSUME TypeOK, [Next]_vars, ApprovalInv, Approved
  PROVE  Approved'
<1>1. /\ entry \in Entry /\ Coherent(entry) /\ (approving => entry.approved)
      /\ entry.approved /\ disk.approved
  BY DEF TypeOK, ServerOK, ApprovalInv, Approved
<1>2. CASE /\ CanAllow
           /\ entry' = [Allowed EXCEPT !.addressed = TRUE]
           /\ disk' = entry' \/ (~ Whole /\ disk' = Allowed)
  BY <1>1, <1>2, AllowedCoherent DEF Approved
<1>3. CASE \E e : Change(e) /\ entry' = e /\ disk' \in {disk, e}
  BY <1>1, <1>3, ChangeCoherent DEF Approved
<1>4. CASE UNCHANGED <<entry, disk>> \/ (entry' = disk /\ disk' = disk)
  BY <1>1, <1>4 DEF Approved
<1> QED BY <1>2, <1>3, <1>4, StoreStep

\* What is left of a path grants nothing that the path did not.
LEMMA ArrivesGrants ==
  ASSUME NEW q \in Seq(JoinMessage \cup Push), NEW rest, Arrives(q, rest),
         \A i \in DOMAIN q : ~ Grants(q[i])
  PROVE  ~ Grants(Head(q)) /\ \A i \in DOMAIN rest : ~ Grants(rest[i])
<1>1. q # <<>> /\ (rest = Tail(q) \/ rest = q)
  BY DEF Arrives
<1>2. ~ Grants(Head(q))
  BY <1>1, TailOf
<1>3. \A i \in DOMAIN Tail(q) : ~ Grants(Tail(q)[i])
  BY <1>1, TailOf
<1> QED BY <1>1, <1>2, <1>3

\* An answer to a node without an address grants nothing.
LEMMA AnswersGrantNothing ==
  ASSUME ~ entry.addressed
  PROVE  /\ ~ Grants(ReplyOf("pending", FALSE))
         /\ ~ Grants(ReplyOf("rejected", FALSE))
         /\ ~ Grants(ReplyOf(JoinResult, entry.addressed))
         /\ ~ Grants([type |-> "challenge", nonce |-> FreshNonce])
BY DEF Grants, ReplyOf

LEMMA AppendGrantsNothing ==
  ASSUME NEW q \in Seq(JoinMessage \cup Push), NEW x \in JoinMessage \cup Push, ~ Grants(x),
         \A i \in DOMAIN q : ~ Grants(q[i])
  PROVE  \A i \in DOMAIN Append(q, x) : ~ Grants(Append(q, x)[i])
BY AppendTo

\* What the node reads lets it in only if it grants.
LEMMA AnsweredGrantsNothing ==
  ASSUME NEW m \in Reply, Answered(m), ~ Grants(m), ~ tunnel, pc # "joined"
  PROVE  ~ tunnel' /\ pc' # "joined"
<1>1. m.result \in Result /\ m.ip \in BOOLEAN /\ ~ (m.result = "active" /\ m.ip)
  BY DEF Grants, Reply
<1>2. CASE m.result = "active" /\ ~ m.ip
  BY <1>2 DEF Answered, Fatal, Goto
<1>3. CASE m.result # "active"
  BY <1>3, AnsweredCases DEF Goto
<1> QED BY <1>1, <1>2, <1>3

\* A step that leaves the node unapproved grants it nothing.
LEMMA StepGrantsNothing ==
  ASSUME TypeOK, [Next]_vars, ApprovalInv, ~ Approved'
  PROVE  NothingGranted'
<1>1. ~ Approved
  BY ApprovalLasts
<1>2. NothingGranted
  BY <1>1 DEF ApprovalInv
<1> USE <1>1, <1>2 DEF TypeOK, NodeOK, NetOK
<1>0. ~ entry'.addressed /\ ~ disk'.addressed
  <2>1. ~ entry.addressed /\ ~ disk.addressed /\ ~ approving
    BY DEF NothingGranted
  <2>2. entry \in Entry /\ disk \in Entry
    BY DEF ServerOK
  <2>3. CASE UNCHANGED <<entry, disk>> \/ (entry' = disk /\ disk' = disk)
    BY <2>1, <2>3
  <2>4. CASE /\ CanAllow
             /\ entry' = [Allowed EXCEPT !.addressed = TRUE]
             /\ disk' = entry' \/ (~ Whole /\ disk' = Allowed)
    BY <2>2, <2>4, AllowedCoherent DEF Approved
  <2>5. CASE \E e : Change(e) /\ entry' = e /\ disk' \in {disk, e}
    <3>1. PICK e : Change(e) /\ entry' = e /\ disk' \in {disk, e}
      BY <2>5
    <3> QED BY <2>1, <2>2, <3>1, ChangeAddresses
  <2> QED BY <2>3, <2>4, <2>5, StoreStep
<1>3. CASE Lose
  <2>1. \A i \in DOMAIN toNode' : ~ Grants(toNode'[i])
    <3>1. toNode' = toNode \/ (toNode # <<>> /\ toNode' = Tail(toNode))
      BY <1>3 DEF Lose
    <3>2. \A i \in DOMAIN toNode : ~ Grants(toNode[i])
      BY DEF NothingGranted
    <3>3. toNode # <<>> => \A i \in DOMAIN Tail(toNode) : ~ Grants(Tail(toNode)[i])
      BY <3>2, TailOf
    <3> QED BY <3>1, <3>2, <3>3
  <2> QED BY <1>3, <2>1 DEF Lose, NothingGranted, node, server
<1>4. CASE Receive
  <2> DEFINE m == Head(toNode)
  <2>1. ~ Grants(m) /\ \A i \in DOMAIN toNode' : ~ Grants(toNode'[i])
    <3>1. Arrives(toNode, toNode') /\ \A i \in DOMAIN toNode : ~ Grants(toNode[i])
      BY <1>4 DEF Receive, NothingGranted
    <3> QED BY <3>1, ArrivesGrants
  <2>2. joinCh' = Deliver(joinCh, m) /\ UNCHANGED <<pc, tunnel, approveCh, server>>
    BY <1>4, <2>1 DEF Receive, Grants
  <2>3. \A i \in DOMAIN joinCh' : ~ Grants(joinCh'[i])
    <3> HIDE DEF m
    <3> QED BY <2>1, <2>2 DEF Deliver, NothingGranted
  <2> QED BY <2>1, <2>2, <2>3 DEF NothingGranted, server
<1>5. CASE SendRequest
  BY <1>5 DEF SendRequest, Send, NothingGranted, server
<1>6. CASE ReadFirst \/ ReadSecond
  <2>1. /\ Head(joinCh) \in JoinMessage
        /\ ~ Grants(Head(joinCh))
        /\ \A i \in DOMAIN joinCh' : ~ Grants(joinCh'[i])
    BY <1>6, TailOf DEF ReadFirst, ReadSecond, NothingGranted
  <2>2. ~ tunnel' /\ pc' # "joined"
    <3>1. CASE Head(joinCh).type = "challenge"
      BY <1>6, <3>1 DEF ReadFirst, ReadSecond, Goto, NothingGranted
    <3>2. CASE Head(joinCh).type # "challenge"
      <4>1. Answered(Head(joinCh)) /\ Head(joinCh) \in Reply
        BY <1>6, <2>1, <3>2, JoinMessageKinds DEF ReadFirst, ReadSecond
      <4> QED BY <2>1, <4>1, AnsweredGrantsNothing DEF NothingGranted
    <3> QED BY <3>1, <3>2
  <2>3. UNCHANGED <<approveCh, toNode, entry, disk, approving>>
    BY <1>6 DEF ReadFirst, ReadSecond, Send, net, server
  <2> QED BY <2>1, <2>2, <2>3 DEF NothingGranted
<1>7. CASE JoinTimeout \/ WakeUp \/ ApprovalTimeout
  BY <1>7 DEF JoinTimeout, WakeUp, ApprovalTimeout, Goto, NothingGranted, net, server
<1>8. CASE ReadApproval \/ Rejoin
  BY <1>8 DEF ReadApproval, Rejoin, NothingGranted
<1>9. CASE Serve
  <2>0. ~ entry.addressed
    BY DEF NothingGranted
  <2>1. PICK answer \in JoinMessage \cup Push : ~ Grants(answer) /\ toNode' = Append(toNode, answer)
    <3>1. CASE HandleRequest
      BY <2>0, <3>1, AnswerTypes, AnswersGrantNothing DEF HandleRequest, Handle
    <3>2. CASE RefuseProof
      BY <2>0, <3>2, AnswerTypes, AnswersGrantNothing DEF RefuseProof, Handle
    <3>3. CASE AcceptProof
      BY <2>0, <3>3, AnswerTypes, AnswersGrantNothing DEF AcceptProof, Handle
    <3>4. CASE FailSave
      BY <2>0, <3>4, AnswerTypes, AnswersGrantNothing DEF FailSave
    <3> QED BY <1>9, <3>1, <3>2, <3>3, <3>4 DEF Serve
  <2>2. \A i \in DOMAIN toNode' : ~ Grants(toNode'[i])
    BY <2>1, AppendGrantsNothing DEF NothingGranted
  <2>3. UNCHANGED <<node, approving>>
    BY <1>9 DEF Serve, HandleRequest, RefuseProof, AcceptProof, FailSave
  <2> QED BY <1>0, <2>2, <2>3 DEF NothingGranted, node
<1>10. CASE Admins
  <2>1. ~ Approve /\ ~ ConsoleAllow
    <3>1. entry \in Entry
      BY DEF ServerOK
    <3>2. CanAllow => Allowed.approved /\ [Allowed EXCEPT !.addressed = TRUE].approved
      BY <3>1, AllowedCoherent
    <3> QED BY <3>2 DEF Approve, ConsoleAllow, Store, Approved
  <2>2. ~ ConsoleFinish
    BY DEF ConsoleFinish, NothingGranted
  <2>3. UNCHANGED <<node, net>> /\ (approving' = approving \/ ~ approving')
    BY <1>10, <2>1, <2>2 DEF Admins, Decide, FailCommand, StopAfterAllow, StopConsole
  <2> QED BY <1>0, <2>3 DEF NothingGranted, node, net
<1>11. CASE Restart
  BY <1>0, <1>11 DEF Restart, NothingGranted, node, net
<1>12. CASE UNCHANGED vars
  BY <1>12 DEF vars, node, net, server, NothingGranted
<1> QED
  BY <1>3, <1>4, <1>5, <1>6, <1>7, <1>8, <1>9, <1>10, <1>11, <1>12 DEF Next, JoinLoop

LEMMA InitApproval == Init => ApprovalInv
<1>1. Init => NothingGranted
  BY DEF Init, NothingGranted
<1>2. Init => Coherent(entry) /\ Coherent(disk) /\ ~ approving
  BY DEF Init, Coherent
<1> QED BY <1>1, <1>2 DEF ApprovalInv

LEMMA StepApproval ==
  ASSUME TypeOK, ApprovalInv, [Next]_vars
  PROVE  ApprovalInv'
<1>1. Approved' \/ NothingGranted'
  BY StepGrantsNothing
<1> QED BY <1>1, StepCoherent DEF ApprovalInv

\* README, Join Flow: "A friend machine needs approval before it can join".
\* However many datagrams are lost, doubled or late, and wherever the approval
\* comes from, no node has its tunnel up that nobody has approved.
THEOREM NoJoinWithoutApproval == Spec => []JoinedWasApproved
<1>1. Init => TypeOK /\ ApprovalInv
  BY InitTypes, InitApproval
<1>2. (TypeOK /\ ApprovalInv) /\ [Next]_vars => (TypeOK /\ ApprovalInv)'
  BY StepTypes, StepApproval
<1>3. ApprovalInv => JoinedWasApproved
  BY DEF ApprovalInv, NothingGranted, Approved, JoinedWasApproved
<1> QED BY <1>1, <1>2, <1>3, PTL DEF Spec

-----------------------------------------------------------------------------
(* The handshake stays in step. *)

\* Without late and doubled datagrams, what arrives is gone, and a wait ends
\* only when nothing is under way.
LEMMA PromptFaults ==
  ASSUME Prompt
  PROVE  /\ \A q, rest : Arrives(q, rest) => q # <<>> /\ rest = Tail(q)
         /\ Elapse => toServer = <<>> /\ toNode = <<>>
BY DEF Prompt, Faults, Arrives, Elapse, Fault

\* The circumstances stay as they are.
LEMMA RegimeStays ==
  ASSUME TypeOK, [Next]_vars
  PROVE  Prompt' = Prompt /\ Whole' = Whole
<1> DEFINE Same == regime'.kinds = regime.kinds /\ regime'.console = regime.console
<1>1. \A kind : Fault(kind) => Same
  BY DEF TypeOK, NetOK, Regime, Fault
<1>2. Same
  <2>1. \A path, rest : Arrives(path, rest) => Same
    BY <1>1 DEF Arrives
  <2>2. Elapse => Same
    BY <1>1 DEF Elapse
  <2>3. CASE Lose \/ Rejoin \/ Restart
    BY <1>1, <2>3 DEF Lose, Rejoin, Restart
  <2>4. CASE Receive
    BY <2>1, <2>4 DEF Receive
  <2>5. CASE JoinLoop
    BY <2>2, <2>5 DEF JoinLoop, SendRequest, ReadFirst, ReadSecond, JoinTimeout, WakeUp,
       ReadApproval, ApprovalTimeout
  <2>6. CASE Serve
    BY <1>1, <2>1, <2>6 DEF Serve, HandleRequest, RefuseProof, AcceptProof, FailSave, Handle
  <2>7. CASE Admins
    BY <1>1, <2>7 DEF Admins, Approve, ConsoleAllow, ConsoleFinish, Decide, FailCommand
  <2>8. CASE UNCHANGED vars
    BY <2>8 DEF vars
  <2> QED BY <2>3, <2>4, <2>5, <2>6, <2>7, <2>8 DEF Next
<1> QED BY <1>2 DEF Prompt, Whole, Console, Faults

\* A path of one datagram is empty after it.
LEMMA LastOne ==
  ASSUME NEW S, NEW q \in Seq(S), q # <<>>, Len(q) <= 1
  PROVE  Tail(q) = <<>>
OBVIOUS

\* Dropping the first datagram to the node keeps the answers at most one, and
\* leaves none if it was the answer.
LEMMA FirstToNode ==
  ASSUME TypeOK, LockstepInv, toNode # <<>>, toNode' = Tail(toNode)
  PROVE  /\ \A i, j \in DOMAIN toNode' :
              toNode'[i].type # "push" /\ toNode'[j].type # "push" => i = j
         /\ NoAnswers => NoAnswers'
         /\ Head(toNode).type # "push" => NoAnswers'
<1>1. toNode \in Seq(JoinMessage \cup Push)
  BY DEF TypeOK, NetOK
<1>2. /\ Head(toNode) = toNode[1] /\ 1 \in DOMAIN toNode
      /\ \A i \in DOMAIN toNode' : i + 1 \in DOMAIN toNode /\ toNode'[i] = toNode[i + 1]
  BY <1>1, TailOf
<1>3. DOMAIN toNode' \subseteq Nat \ {0}
  BY <1>1
<1>4. \A i, j \in DOMAIN toNode :
        toNode[i].type # "push" /\ toNode[j].type # "push" => i = j
  BY DEF LockstepInv
<1>5. NoAnswers => NoAnswers'
  BY <1>2 DEF NoAnswers
<1>6. ASSUME NEW i \in DOMAIN toNode', NEW j \in DOMAIN toNode',
             toNode'[i].type # "push", toNode'[j].type # "push"
      PROVE  i = j
  <2>1. i + 1 = j + 1
    BY <1>2, <1>4, <1>6
  <2> QED BY <1>3, <2>1
<1>7. ASSUME Head(toNode).type # "push", NEW i \in DOMAIN toNode' PROVE toNode'[i].type = "push"
  <2> SUFFICES ASSUME toNode'[i].type # "push" PROVE FALSE
    OBVIOUS
  <2>1. i + 1 = 1
    BY <1>2, <1>4, <1>7
  <2> QED BY <1>3, <2>1
<1> QED BY <1>5, <1>6, <1>7 DEF NoAnswers

\* One more message to a node that no answer was on its way to.
LEMMA OneMoreToNode ==
  ASSUME TypeOK, NEW x \in JoinMessage \cup Push, toNode' = Append(toNode, x)
  PROVE  /\ NoAnswers =>
              \A i, j \in DOMAIN toNode' :
                toNode'[i].type # "push" /\ toNode'[j].type # "push" => i = j
         /\ NoAnswers /\ x.type = "push" => NoAnswers'
<1>1. toNode \in Seq(JoinMessage \cup Push)
  BY DEF TypeOK, NetOK
<1>2. \A i \in DOMAIN toNode' : i = Len(toNode) + 1 \/ (i \in DOMAIN toNode /\ toNode'[i] = toNode[i])
  BY <1>1
<1>3. \A i \in DOMAIN toNode' :
        (i \in DOMAIN toNode /\ toNode'[i] = toNode[i]) \/ toNode'[i] = x
  BY <1>1, AppendTo
<1> QED BY <1>2, <1>3 DEF NoAnswers

\* A push leaves the answers as they were.
LEMMA PushToNode ==
  ASSUME TypeOK, LockstepInv, NEW x, x.type = "push", x \in JoinMessage \cup Push,
         toNode' = Append(toNode, x)
  PROVE  /\ \A i, j \in DOMAIN toNode' :
              toNode'[i].type # "push" /\ toNode'[j].type # "push" => i = j
         /\ NoAnswers => NoAnswers'
<1>1. toNode \in Seq(JoinMessage \cup Push)
  BY DEF TypeOK, NetOK
<1>2. \A i \in DOMAIN toNode' :
        (i \in DOMAIN toNode /\ toNode'[i] = toNode[i]) \/ toNode'[i] = x
  BY <1>1, AppendTo
<1> QED BY <1>2 DEF NoAnswers, LockstepInv

\* A step of the join loop.
LEMMA JoinLoopInStep ==
  ASSUME Prompt, TypeOK, LockstepInv, JoinLoop
  PROVE  LockstepInv'
<1>1. /\ joinCh \in Seq(JoinMessage) /\ Len(joinCh) <= 1
      /\ toServer \in Seq(Request \cup Proof)
  BY DEF TypeOK, NodeOK, NetOK
<1>2. toNode' = toNode /\ (NoAnswers => NoAnswers')
  BY DEF JoinLoop, SendRequest, ReadFirst, ReadSecond, JoinTimeout, WakeUp, ReadApproval,
     ApprovalTimeout, Send, NoAnswers, net
<1>3. CASE SendRequest
  <2>1. toServer = <<>> /\ joinCh = <<>> /\ NoAnswers
    BY <1>3 DEF SendRequest, LockstepInv
  <2>2. toServer' = Append(toServer, [type |-> "request"]) /\ joinCh' = joinCh /\ pc' = "awaitFirst"
    BY <1>3 DEF SendRequest, Send
  <2>3. Len(toServer') <= 1
    <3>1. [type |-> "request"] \in Request \cup Proof
      BY DEF Request
    <3> QED BY <2>1, <2>2, <3>1, AppendTo, EmptyPath
  <2> QED BY <1>2, <2>1, <2>2, <2>3 DEF LockstepInv
<1>4. CASE ReadFirst \/ ReadSecond
  <2>1. joinCh' = <<>> /\ NoAnswers /\ toServer = <<>>
    <3>1. joinCh # <<>> /\ joinCh' = Tail(joinCh)
      BY <1>4 DEF ReadFirst, ReadSecond
    <3> QED BY <1>1, <3>1, LastOne DEF LockstepInv
  <2>2. CASE toServer' = toServer
    <3>1. Len(toServer') <= 1
      BY <2>2 DEF LockstepInv
    <3> QED BY <1>2, <2>1, <2>2, <3>1 DEF LockstepInv
  <2>3. CASE toServer' # toServer
    <3>1. ReadFirst /\ Head(joinCh).type = "challenge"
      BY <1>4, <2>3 DEF ReadFirst, ReadSecond, net
    <3>2. pc' = "awaitSecond" /\ Send([type |-> "proof", nonce |-> Head(joinCh).nonce])
      BY <3>1 DEF ReadFirst, Goto
    <3>3. [type |-> "proof", nonce |-> Head(joinCh).nonce] \in Request \cup Proof
      <4>1. Head(joinCh) \in JoinMessage
        BY <1>1, <3>1, TailOf DEF ReadFirst
      <4> QED BY <3>1, <4>1, JoinMessageKinds DEF Challenge, Proof
    <3>4. Len(toServer') <= 1
      BY <2>1, <3>2, <3>3, AppendTo, EmptyPath DEF Send
    <3> QED BY <1>2, <2>1, <3>2, <3>4 DEF LockstepInv
  <2> QED BY <2>2, <2>3
<1>5. CASE JoinTimeout
  <2>1. toServer = <<>> /\ toNode = <<>> /\ joinCh = <<>>
    BY <1>5, PromptFaults DEF JoinTimeout
  <2>2. NoAnswers
    BY <2>1 DEF NoAnswers
  <2> QED BY <1>2, <1>5, <2>1, <2>2 DEF JoinTimeout, LockstepInv, net
<1>6. CASE WakeUp \/ ReadApproval \/ ApprovalTimeout
  <2>1. toServer' = toServer /\ joinCh' = joinCh /\ pc \notin {"awaitFirst", "awaitSecond"}
    BY <1>6 DEF WakeUp, ReadApproval, ApprovalTimeout, net
  <2> QED BY <1>2, <2>1 DEF LockstepInv
<1> QED
  BY <1>3, <1>4, <1>5, <1>6 DEF JoinLoop

\* A datagram reaches the node.
LEMMA ReceiveInStep ==
  ASSUME Prompt, TypeOK, LockstepInv, Receive
  PROVE  LockstepInv'
<1> DEFINE m == Head(toNode)
<1>1. toNode # <<>> /\ toNode' = Tail(toNode)
  BY PromptFaults DEF Receive
<1>2. UNCHANGED <<pc, toServer>>
  BY DEF Receive
<1>3. CASE m.type = "push"
  <2>1. joinCh' = joinCh
    BY <1>3 DEF Receive
  <2> QED BY <1>1, <1>2, <2>1, FirstToNode DEF LockstepInv
<1>4. CASE m.type # "push"
  <2>1. ~ NoAnswers
    <3>1. 1 \in DOMAIN toNode /\ toNode[1] = m
      BY <1>1, TailOf DEF TypeOK, NetOK
    <3> QED BY <1>4, <3>1 DEF NoAnswers
  <2>2. pc \in {"awaitFirst", "awaitSecond"} /\ toServer = <<>>
    BY <2>1 DEF LockstepInv
  <2>3. NoAnswers'
    BY <1>1, <1>4, FirstToNode
  <2> QED BY <1>1, <1>2, <2>2, <2>3, FirstToNode DEF LockstepInv
<1> QED BY <1>3, <1>4

\* The server answers the one datagram under way.
LEMMA ServeInStep ==
  ASSUME Prompt, TypeOK, LockstepInv, Serve
  PROVE  LockstepInv'
<1>1. PICK answer \in JoinMessage \cup Push : toNode' = Append(toNode, answer)
  <2>1. CASE HandleRequest
    BY <2>1, AnswerTypes DEF HandleRequest, Handle
  <2>2. CASE RefuseProof
    BY <2>2, AnswerTypes DEF RefuseProof, Handle
  <2>3. CASE AcceptProof
    BY <2>3, AnswerTypes DEF AcceptProof, Handle
  <2>4. CASE FailSave
    BY <2>4, AnswerTypes DEF FailSave
  <2> QED BY <2>1, <2>2, <2>3, <2>4 DEF Serve
<1>2. toServer # <<>> /\ toServer' = Tail(toServer)
  BY PromptFaults DEF Serve, HandleRequest, RefuseProof, AcceptProof, FailSave, Handle
<1>3. toServer' = <<>>
  BY <1>2, LastOne DEF TypeOK, NetOK, LockstepInv
<1>4. joinCh = <<>> /\ NoAnswers /\ pc \in {"awaitFirst", "awaitSecond"}
  BY <1>2 DEF LockstepInv
<1>5. UNCHANGED node
  BY DEF Serve, HandleRequest, RefuseProof, AcceptProof, FailSave
<1>6. \A i, j \in DOMAIN toNode' : toNode'[i].type # "push" /\ toNode'[j].type # "push" => i = j
  BY <1>1, <1>4, OneMoreToNode
<1>7. Len(toServer') <= 1
  BY <1>3, EmptyPath
<1> QED BY <1>3, <1>4, <1>5, <1>6, <1>7 DEF LockstepInv, node

\* A command may push an approval besides.
LEMMA AdminsInStep ==
  ASSUME TypeOK, LockstepInv, Admins
  PROVE  LockstepInv'
<1>1. UNCHANGED <<node, toServer>>
  BY DEF Admins, Approve, ConsoleAllow, ConsoleFinish, Decide, FailCommand, net
<1>2. CASE toNode' = toNode
  BY <1>1, <1>2 DEF LockstepInv, NoAnswers, node
<1>3. CASE toNode' # toNode
  <2>1. toNode' = Append(toNode, [type |-> "push"])
    BY <1>3 DEF Admins, Approve, ConsoleAllow, ConsoleFinish, Decide, FailCommand, Notify, net
  <2>2. [type |-> "push"] \in JoinMessage \cup Push
    BY DEF Push
  <2> QED BY <1>1, <2>1, <2>2, PushToNode DEF LockstepInv, node
<1> QED BY <1>2, <1>3

\* A datagram is lost.
LEMMA LoseInStep ==
  ASSUME TypeOK, LockstepInv, Lose
  PROVE  LockstepInv'
<1>1. UNCHANGED node
  BY DEF Lose
<1>2. CASE toServer # <<>> /\ toServer' = Tail(toServer) /\ UNCHANGED toNode
  <2>1. toServer' = <<>>
    BY <1>2, LastOne DEF TypeOK, NetOK, LockstepInv
  <2>2. Len(toServer') <= 1
    BY <2>1, EmptyPath
  <2> QED BY <1>1, <1>2, <2>1, <2>2 DEF LockstepInv, NoAnswers, node
<1>3. CASE toNode # <<>> /\ toNode' = Tail(toNode) /\ UNCHANGED toServer
  BY <1>1, <1>3, FirstToNode DEF LockstepInv, node
<1> QED BY <1>2, <1>3 DEF Lose

\* The handshake stays in step as long as every answer comes in time and once:
\* lost datagrams, failed saves, restarts, outages and interrupted commands do
\* not matter.
THEOREM HandshakeInStep == Spec => []Lockstep
<1> DEFINE Inv == TypeOK /\ (Prompt => LockstepInv)
<1>1. Init => Inv
  <2>1. Init => LockstepInv
    BY EmptyPath DEF Init, LockstepInv, NoAnswers
  <2> QED BY <2>1, InitTypes
<1>2. Inv /\ [Next]_vars => Inv'
  <2> SUFFICES ASSUME TypeOK, Prompt, LockstepInv, [Next]_vars PROVE LockstepInv'
    BY StepTypes, RegimeStays
  <2>1. CASE Rejoin \/ Restart \/ UNCHANGED vars
    <3>1. UNCHANGED <<joinCh, net>> /\ (pc' = pc \/ pc = "joined")
      BY <2>1 DEF Rejoin, Restart, vars, node
    <3> QED BY <3>1 DEF LockstepInv, NoAnswers, net
  <2> QED
    BY <2>1, JoinLoopInStep, ReceiveInStep, ServeInStep, AdminsInStep, LoseInStep DEF Next
<1>3. Inv => Lockstep
  BY DEF LockstepInv, Lockstep
<1> QED BY <1>1, <1>2, <1>3, PTL DEF Spec

-----------------------------------------------------------------------------
(* The node of an approved machine goes on. *)

\* The message that stops a daemon: it joins, but brings no address.
Stops(m) == m.type = "reply" /\ m.result = "active" /\ ~ m.ip

\* The node has stopped, or will when it reads what is on its way.
Stopped ==
  \/ pc = "dead"
  \/ \E i \in DOMAIN toNode : Stops(toNode[i])
  \/ \E i \in DOMAIN joinCh : Stops(joinCh[i])

\* A machine that a block and an unblock of its user have made active.
Unapproved(e) == e.machine \in {"active", "blocked"} /\ ~ e.approved

\* The inductive form: who has been approved has an address, in memory and on
\* disk, and only a machine that never was and never will be can stop a node.
SurvivalInv ==
  /\ ~ approving
  /\ entry.approved => entry.addressed
  /\ disk.approved => disk.addressed
  /\ Stopped => Unapproved(entry) /\ Unapproved(disk)

\* An ordinary change gives no approval without an address, and no machine that
\* is active or blocked waits again.
LEMMA ChangeSurvives ==
  ASSUME entry \in Entry, Coherent(entry), Whole, ~ approving, NEW e, Change(e)
  PROVE  /\ (entry.approved => entry.addressed) => (e.approved => e.addressed)
         /\ Unapproved(entry) => Unapproved(e)
<1>1. CASE e \in UserDecided
  <2>1. CASE entry.user = "pending" /\ e = [entry EXCEPT !.user = "active"]
    BY <2>1 DEF Entry, Status, Coherent, Unapproved
  <2>2. CASE entry.user = "pending" /\ e = Without("absent")
    BY <2>2 DEF Without, Entry, Status, Coherent, Unapproved
  <2>3. CASE entry.user = "active" /\ e = UserBlocked
    BY <2>3 DEF UserBlocked, Entry, Status, Coherent, Unapproved
  <2>4. CASE entry.user = "blocked" /\ e = UserUnblocked
    BY <2>4 DEF UserUnblocked, Entry, Status, Coherent, Unapproved
  <2> QED BY <1>1, <2>1, <2>2, <2>3, <2>4, UserDecidedCases
<1>2. CASE e \in MachineDecided
  <2>1. CASE entry.machine = "pending" /\ e = Without(entry.user)
    BY <2>1 DEF Without, Entry, Status, Coherent, Unapproved
  <2>2. CASE entry.machine = "active" /\ e = [entry EXCEPT !.machine = "blocked"]
    BY <2>2 DEF Entry, Status, Coherent, Unapproved
  <2>3. CASE entry.machine = "blocked" /\ e = [entry EXCEPT !.machine = "active"]
    BY <2>3 DEF Entry, Status, Coherent, Unapproved
  <2> QED BY <1>2, <2>1, <2>2, <2>3, MachineDecidedCases
<1>3. CASE e = Registered
  BY <1>3 DEF Registered, Entry, Status, Unapproved
<1> QED
  BY <1>1, <1>2, <1>3 DEF Change, Decided

\* In the registry, every step keeps what SurvivalInv says.
LEMMA RegistrySurvives ==
  ASSUME TypeOK, ApprovalInv, Whole, SurvivalInv, [Next]_vars
  PROVE  /\ ~ approving'
         /\ entry'.approved => entry'.addressed
         /\ disk'.approved => disk'.addressed
         /\ Unapproved(entry) /\ Unapproved(disk) => Unapproved(entry') /\ Unapproved(disk')
<1>1. /\ entry \in Entry /\ Coherent(entry) /\ ~ approving
      /\ entry.approved => entry.addressed
      /\ disk.approved => disk.addressed
  BY DEF TypeOK, ServerOK, ApprovalInv, SurvivalInv
<1>2. ~ approving'
  <2>1. CASE Lose \/ Receive \/ JoinLoop \/ Rejoin \/ UNCHANGED vars
    BY <1>1, <2>1 DEF Lose, Receive, JoinLoop, Rejoin, SendRequest, ReadFirst, ReadSecond,
       JoinTimeout, WakeUp, ReadApproval, ApprovalTimeout, vars, server
  <2>2. CASE Serve \/ Approve \/ Decide \/ Restart
    BY <1>1, <2>2 DEF Serve, HandleRequest, RefuseProof, AcceptProof, FailSave, Approve, Decide,
       Restart
  <2>3. ~ ConsoleAllow /\ ~ ConsoleFinish /\ ~ FailCommand
    BY <1>1 DEF Whole, ConsoleAllow, ConsoleFinish, FailCommand, Fault
  <2> QED BY <2>1, <2>2, <2>3 DEF Next, Admins
<1>3. CASE UNCHANGED <<entry, disk>> \/ (entry' = disk /\ disk' = disk)
  BY <1>1, <1>2, <1>3
<1>4. CASE \E e : Change(e) /\ entry' = e /\ disk' \in {disk, e}
  BY <1>1, <1>2, <1>4, ChangeSurvives
<1>5. CASE CanAllow /\ entry' = [Allowed EXCEPT !.addressed = TRUE] /\ disk' = entry'
  <2>1. entry'.addressed
    BY <1>1, <1>5 DEF Allowed, Entry
  <2>2. ~ Unapproved(entry)
    BY <1>5 DEF CanAllow, Unapproved
  <2> QED BY <1>2, <1>5, <2>1, <2>2
<1> QED BY <1>3, <1>4, <1>5, StoreStep

\* A node stops over nothing but a message that stops it.
LEMMA NodeStepStops ==
  ASSUME TypeOK, Receive \/ JoinLoop \/ Rejoin \/ Lose, ~ Stopped
  PROVE  ~ Stopped'
<1> USE DEF TypeOK, NodeOK, NetOK
<1>2. ASSUME pc' # "dead",
             \A i \in DOMAIN toNode' : ~ Stops(toNode'[i]),
             \A i \in DOMAIN joinCh' : ~ Stops(joinCh'[i])
      PROVE  ~ Stopped'
  BY <1>2 DEF Stopped
<1>3. \A i \in DOMAIN Tail(toNode) : toNode # <<>> => ~ Stops(Tail(toNode)[i])
  BY TailOf DEF Stopped
<1>4. CASE Lose
  <2>1. toNode' = toNode \/ (toNode # <<>> /\ toNode' = Tail(toNode))
    BY <1>4 DEF Lose
  <2>2. UNCHANGED <<pc, joinCh>>
    BY <1>4 DEF Lose, node
  <2> QED BY <1>2, <1>3, <2>1, <2>2 DEF Stopped
<1>5. CASE Receive
  <2> DEFINE m == Head(toNode)
  <2>1. toNode # <<>> /\ toNode' \in {toNode, Tail(toNode)}
    BY <1>5 DEF Receive, Arrives
  <2>2. ~ Stops(m)
    BY <2>1, TailOf DEF Stopped
  <2>3. pc' = pc /\ joinCh' \in {joinCh, Deliver(joinCh, m)}
    BY <1>5 DEF Receive
  <2> HIDE DEF m
  <2>4. \A i \in DOMAIN joinCh' : ~ Stops(joinCh'[i])
    BY <2>2, <2>3 DEF Deliver, Stopped
  <2> QED BY <1>2, <1>3, <2>1, <2>3, <2>4 DEF Stopped
<1>6. CASE ReadFirst \/ ReadSecond
  <2> DEFINE m == Head(joinCh)
  <2>1. /\ m \in JoinMessage /\ ~ Stops(m)
        /\ \A i \in DOMAIN joinCh' : ~ Stops(joinCh'[i])
    BY <1>6, TailOf DEF ReadFirst, ReadSecond, Stopped
  <2>2. toNode' = toNode
    BY <1>6 DEF ReadFirst, ReadSecond, Send, net
  <2>3. \/ Goto("awaitSecond") \/ Goto("sleep")
        \/ m.type # "challenge" /\ Answered(m)
    BY <1>6 DEF ReadFirst, ReadSecond
  <2> HIDE DEF m
  <2>4. pc' # "dead"
    <3>1. CASE Goto("awaitSecond") \/ Goto("sleep")
      BY <3>1 DEF Goto
    <3>2. CASE m.type # "challenge" /\ Answered(m)
      <4>1. m \in Reply
        BY <2>1, <3>2, JoinMessageKinds
      <4>2. m.type = "reply" /\ m.result \in Result /\ m.ip \in BOOLEAN
        BY <4>1 DEF Reply
      <4>3. CASE m.result = "active"
        <5>1. m.ip
          BY <2>1, <4>2, <4>3 DEF Stops
        <5>2. BringUp
          BY <3>2, <4>3, <5>1 DEF Answered
        <5> QED BY <5>2 DEF BringUp
      <4>4. CASE m.result # "active"
        BY <3>2, <4>1, <4>4, AnsweredCases DEF Goto
      <4> QED BY <4>3, <4>4
    <3> QED BY <2>3, <3>1, <3>2
  <2> QED BY <1>2, <2>1, <2>2, <2>4 DEF Stopped
<1>7. CASE \/ SendRequest \/ JoinTimeout \/ WakeUp \/ ReadApproval \/ ApprovalTimeout
           \/ Rejoin
  <2>1. /\ pc' \in {"request", "awaitFirst", "sleep", "joined"}
        /\ UNCHANGED <<toNode, joinCh>>
    BY <1>7 DEF SendRequest, JoinTimeout, WakeUp, ReadApproval, ApprovalTimeout, Rejoin,
                Goto, BringUp, Send, net
  <2> QED BY <1>2, <2>1 DEF Stopped
<1> QED
  BY <1>4, <1>5, <1>6, <1>7 DEF JoinLoop

\* The server sends a message that stops a node only about a machine that is
\* active without an address, and leaves it so.
LEMMA ServerStepStops ==
  ASSUME TypeOK, Serve \/ Admins \/ Restart, ~ Stopped, Stopped'
  PROVE  /\ entry.machine = "active" /\ ~ entry.addressed
         /\ entry' = entry /\ disk' = entry
<1> USE DEF TypeOK
<1>1. UNCHANGED <<pc, joinCh>>
  BY DEF Serve, Admins, Restart, HandleRequest, RefuseProof, AcceptProof, FailSave,
         Approve, ConsoleAllow, ConsoleFinish, Decide, FailCommand, node
<1>2. \E i \in DOMAIN toNode' : Stops(toNode'[i])
  BY <1>1 DEF Stopped
<1>3. toNode' # toNode
  BY <1>2 DEF Stopped
<1>4. ~ \E x \in JoinMessage \cup Push : toNode' = Append(toNode, x) /\ ~ Stops(x)
  BY <1>2, AppendTo DEF NetOK, Stopped
<1>5. /\ ~ Stops(ReplyOf("pending", FALSE))
      /\ ~ Stops(ReplyOf("rejected", FALSE))
      /\ ~ Stops([type |-> "challenge", nonce |-> FreshNonce])
      /\ ~ Stops([type |-> "push"])
      /\ [type |-> "push"] \in JoinMessage \cup Push
  BY DEF Stops, ReplyOf, Push
<1>6. ~ HandleRequest /\ ~ RefuseProof /\ ~ FailSave
  BY <1>4, <1>5, AnswerTypes DEF HandleRequest, RefuseProof, FailSave, Handle
<1>7. ~ Admins
  BY <1>3, <1>4, <1>5 DEF Admins, Approve, ConsoleAllow, ConsoleFinish, Decide, FailCommand,
                          Notify, net
<1>8. ~ Restart
  BY <1>3 DEF Restart, net
<1>9. AcceptProof
  BY <1>6, <1>7, <1>8 DEF Serve
<1>10. JoinResult = "active" /\ ~ entry.addressed
  <2>1. Stops(ReplyOf(JoinResult, entry.addressed))
    BY <1>4, <1>9, AnswerTypes DEF AcceptProof, Handle
  <2> QED BY <2>1 DEF Stops, ReplyOf
<1>11. ~ Barred /\ Registered = entry /\ entry.machine = "active"
  <2>1. ~ Barred /\ Registered.machine = "active"
    BY <1>10 DEF JoinResult
  <2>2. entry.machine # "absent"
    <3> SUFFICES ASSUME entry.machine = "absent" PROVE FALSE
      OBVIOUS
    <3> QED BY <2>1 DEF Registered, ServerOK, Entry
  <2> QED BY <2>1, <2>2 DEF Registered
<1> QED BY <1>9, <1>10, <1>11 DEF AcceptProof, Store

\* So every step keeps it.
LEMMA StepSurvives ==
  ASSUME TypeOK, ApprovalInv, Whole, SurvivalInv, [Next]_vars
  PROVE  SurvivalInv'
<1>1. /\ ~ approving'
      /\ entry'.approved => entry'.addressed
      /\ disk'.approved => disk'.addressed
  BY RegistrySurvives
<1>2. Stopped' => Unapproved(entry') /\ Unapproved(disk')
  <2>1. CASE Stopped
    BY <2>1, RegistrySurvives DEF SurvivalInv
  <2>2. CASE ~ Stopped
    <3>1. CASE Lose \/ Receive \/ JoinLoop \/ Rejoin
      BY <2>2, <3>1, NodeStepStops
    <3>2. CASE Serve \/ Admins \/ Restart
      <4> SUFFICES ASSUME Stopped' PROVE Unapproved(entry') /\ Unapproved(disk')
        OBVIOUS
      <4>1. /\ entry.machine = "active" /\ ~ entry.addressed
            /\ entry' = entry /\ disk' = entry
        BY <2>2, <3>2, ServerStepStops
      <4> QED BY <4>1 DEF Unapproved, SurvivalInv
    <3>3. CASE UNCHANGED vars
      BY <2>2, <3>3 DEF vars, node, net, Stopped
    <3> QED BY <3>1, <3>2, <3>3 DEF Next
  <2> QED BY <2>1, <2>2
<1> QED BY <1>1, <1>2 DEF SurvivalInv, Unapproved

\* README, Join Flow: "The machine joins at once".  Where every command comes
\* through the tunnel and runs to its end, the node of a machine that an admin
\* has approved never reads that it is active without an address, over which
\* its daemon would stop, whatever is lost, doubled or late, whatever failed
\* saves and restarts undo, and however its user is blocked and unblocked.  A
\* node that does stop is one whose machine waited when its user was blocked.
THEOREM ApprovedNodeSurvives == Spec => []NodeSurvives
<1> DEFINE Inv == TypeOK /\ ApprovalInv /\ (Whole => SurvivalInv)
<1>1. Init => Inv
  <2>1. Init => SurvivalInv
    BY DEF Init, SurvivalInv, Stopped
  <2> QED BY <2>1, InitApproval, InitTypes
<1>2. Inv /\ [Next]_vars => Inv'
  <2> SUFFICES ASSUME TypeOK, ApprovalInv, Whole => SurvivalInv, [Next]_vars
               PROVE  TypeOK' /\ ApprovalInv' /\ (Whole' => SurvivalInv')
    OBVIOUS
  <2> QED BY StepTypes, StepApproval, StepSurvives, RegimeStays
<1>3. Inv => NodeSurvives
  BY DEF SurvivalInv, Stopped, Unapproved, NodeSurvives
<1> QED BY <1>1, <1>2, <1>3, PTL DEF Spec

=============================================================================
