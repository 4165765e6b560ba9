------------------------------ MODULE NodeJoin ------------------------------
(***************************************************************************)
(* How one node joins (internal/node/node.go), against the part of the     *)
(* server that answers it, over datagrams that may be lost, duplicated or  *)
(* late.                                                                   *)
(*                                                                         *)
(* The node runs two goroutines that this module interleaves: the join     *)
(* loop, which waits on channels of capacity one, and readFromUDP, which   *)
(* fills them and drops what does not fit.  A wait ends by a timeout only  *)
(* when nothing is under way, unless the fault "late" says that an answer  *)
(* took longer than the five seconds.                                      *)
(*                                                                         *)
(* The server is what ControlPlane says of one machine of an ordinary user *)
(* whose password is right: what the registry says of the two, in memory   *)
(* and on disk.  A command from the tunnel runs between two datagrams; an  *)
(* approval from the console runs beside them (Console).  Commands that    *)
(* race inside each other are left to ControlPlane.                        *)
(***************************************************************************)
EXTENDS Naturals, FiniteSets, Sequences

CONSTANTS
  Circumstances,  \* [console, kinds]: what a behaviour may meet with
  MaxFaults       \* bound: how many faults happen

FaultKind == {"lose", "duplicate", "late", "restart", "outage", "save", "command"}

ASSUME CircumstancesAreKnown ==
  Circumstances \subseteq [console: BOOLEAN, kinds: SUBSET FaultKind]
ASSUME MaxFaultsIsNumber == MaxFaults \in Nat

VARIABLES
  pc,          \* where the join loop stands
  tunnel,      \* has the node brought its tunnel up?
  joinCh,      \* joinReplyCh: challenges and replies
  approveCh,   \* approveCh: approval pushes
  toServer,    \* datagrams under way to the server, in order
  toNode,      \* datagrams under way to the node, in order
  entry,       \* what the registry says of the node's user and machine
  disk,        \* the same, as state.json has it
  approving,   \* has a console command allowed the machine, but not finished?
  nonce,       \* the server's outstanding challenge, or NoNonce
  known,       \* does the server know the machine's endpoint?
  regime       \* the circumstances of the behaviour, and the faults so far

node == <<pc, tunnel, joinCh, approveCh>>
net == <<toServer, toNode>>
server == <<entry, disk, approving, nonce, known>>
vars == <<node, net, server, regime>>

\* Do approvals come from the console?  Which kinds of fault may happen?
Console == regime.console
Faults == regime.kinds

NoNonce == 0

Status == {"absent", "pending", "active", "blocked"}

\* The status of the user and of its machine and whether the machine has an
\* address; approved is history: an admin has allowed the machine itself.
Entry == [user: Status, machine: Status, addressed: BOOLEAN, approved: BOOLEAN]

Result == {"pending", "active", "blocked", "rejected"}

Request == [type: {"request"}]
Proof == [type: {"proof"}, nonce: Nat]
Challenge == [type: {"challenge"}, nonce: Nat]
Reply == [type: {"reply"}, result: Result, ip: BOOLEAN]
Push == [type: {"push"}]

Init ==
  /\ pc = "request"
  /\ tunnel = FALSE
  /\ joinCh = <<>>
  /\ approveCh = <<>>
  /\ toServer = <<>>
  /\ toNode = <<>>
  /\ \E s \in {"absent", "active"} :
       entry = [user |-> s, machine |-> "absent", addressed |-> FALSE, approved |-> FALSE]
  /\ disk = entry
  /\ approving = FALSE
  /\ nonce = NoNonce
  /\ known = FALSE
  /\ \E c \in Circumstances :
       regime = [console |-> c.console, kinds |-> c.kinds, count |-> 0]

-----------------------------------------------------------------------------
(* The network. *)

Fault(kind) ==
  /\ kind \in Faults
  /\ regime.count < MaxFaults
  /\ regime' = [regime EXCEPT !.count = @ + 1]

\* The first datagram of a path arrives, and perhaps once more later.
Arrives(path, rest) ==
  /\ path # <<>>
  /\ \/ rest = Tail(path) /\ UNCHANGED regime
     \/ rest = path /\ Fault("duplicate")

Lose ==
  /\ Fault("lose")
  /\ \/ toServer # <<>> /\ toServer' = Tail(toServer) /\ UNCHANGED toNode
     \/ toNode # <<>> /\ toNode' = Tail(toNode) /\ UNCHANGED toServer
  /\ UNCHANGED <<node, server>>

\* Five seconds pass: whatever is under way arrives before, unless it is late.
Elapse ==
  \/ toServer = <<>> /\ toNode = <<>> /\ UNCHANGED regime
  \/ (toServer # <<>> \/ toNode # <<>>) /\ Fault("late")

-----------------------------------------------------------------------------
(* The node. *)

Send(m) == toServer' = Append(toServer, m) /\ UNCHANGED toNode

\* Mutant of Deliver: a full channel takes the message all the same.
DeliverAll(ch, m) == Append(ch, m)

\* deliver: a message that finds its channel full is dropped.
Deliver(ch, m) == IF ch = <<>> THEN <<m>> ELSE ch

\* readFromUDP, for the messages of the handshake.
Receive ==
  LET m == Head(toNode)
  IN  /\ Arrives(toNode, toNode')
      /\ IF m.type = "push"
         THEN approveCh' = Deliver(approveCh, m) /\ UNCHANGED joinCh
         ELSE joinCh' = Deliver(joinCh, m) /\ UNCHANGED approveCh
      /\ UNCHANGED <<pc, tunnel, toServer, server>>

\* tryJoin sends its request and waits for whatever comes first.
SendRequest ==
  /\ pc = "request"
  /\ pc' = "awaitFirst"
  /\ Send([type |-> "request"])
  /\ UNCHANGED <<tunnel, joinCh, approveCh, server, regime>>

Goto(label) == pc' = label /\ UNCHANGED tunnel

\* adoptVPNIP: the tunnel comes up, or is kept when this is a rejoin.
BringUp == pc' = "joined" /\ tunnel' = TRUE

\* An address that cannot be parsed is fatal.  In the first join Run returns
\* and the daemon stops; serverWatch logs it and keeps the tunnel.
Fatal == Goto(IF tunnel THEN "joined" ELSE "dead")

\* Mutant of Answered: whatever is not refused brings the tunnel up.
AnsweredAnyhow(m) ==
  IF m.result \in {"blocked", "rejected"} THEN Goto("sleep") ELSE BringUp

\* What tryJoin and join do with a reply.
Answered(m) ==
  CASE m.result = "active" /\ m.ip            -> BringUp
    [] m.result = "active" /\ ~ m.ip          -> Fatal
    [] m.result = "pending"                   -> Goto("awaitApproval")
    [] m.result \in {"blocked", "rejected"}   -> Goto("sleep")

\* The first message tryJoin reads: a challenge is answered with a proof.
ReadFirst ==
  /\ pc = "awaitFirst"
  /\ joinCh # <<>>
  /\ joinCh' = Tail(joinCh)
  /\ LET m == Head(joinCh)
     IN  IF m.type = "challenge"
         THEN Goto("awaitSecond") /\ Send([type |-> "proof", nonce |-> m.nonce])
         ELSE Answered(m) /\ UNCHANGED net
  /\ UNCHANGED <<approveCh, server, regime>>

\* The second message: another challenge is an unexpected message.
ReadSecond ==
  /\ pc = "awaitSecond"
  /\ joinCh # <<>>
  /\ joinCh' = Tail(joinCh)
  /\ LET m == Head(joinCh)
     IN  IF m.type = "challenge" THEN Goto("sleep") ELSE Answered(m)
  /\ UNCHANGED <<approveCh, net, server, regime>>

JoinTimeout ==
  /\ pc \in {"awaitFirst", "awaitSecond"}
  /\ joinCh = <<>>
  /\ Elapse
  /\ Goto("sleep")
  /\ UNCHANGED <<joinCh, approveCh, net, server>>

WakeUp ==
  /\ pc = "sleep"
  /\ Elapse
  /\ Goto("request")
  /\ UNCHANGED <<joinCh, approveCh, net, server>>

\* waitForApproval: a push carries the address.
ReadApproval ==
  /\ pc = "awaitApproval"
  /\ approveCh # <<>>
  /\ approveCh' = Tail(approveCh)
  /\ BringUp
  /\ UNCHANGED <<joinCh, net, server, regime>>

\* Mutant of ApprovalTimeout: it waits for the push again, and only for it.
PushOrNothing ==
  /\ pc = "awaitApproval"
  /\ approveCh = <<>>
  /\ Elapse
  /\ UNCHANGED <<node, net, server>>

\* waitForApproval gives up after five seconds and join tries again.
ApprovalTimeout ==
  /\ pc = "awaitApproval"
  /\ approveCh = <<>>
  /\ Elapse
  /\ Goto("request")
  /\ UNCHANGED <<joinCh, approveCh, net, server>>

\* serverWatch: nothing was heard for fifteen seconds, so join runs again.
Rejoin ==
  /\ pc = "joined"
  /\ Fault("outage")
  /\ Goto("request")
  /\ UNCHANGED <<joinCh, approveCh, net, server>>

-----------------------------------------------------------------------------
(* The server. *)

\* The server reads its next datagram and answers it.
Handle(kind, answer) ==
  /\ Head(toServer).type = kind
  /\ Arrives(toServer, toServer')
  /\ toNode' = Append(toNode, answer)

ReplyOf(result, ip) == [type |-> "reply", result |-> result, ip |-> ip]

\* A nonce that no message carries and the server does not hold: 32 random
\* bytes never come twice.
NoncesInUse ==
  {nonce} \cup {m.nonce : m \in
    {n \in {toServer[i] : i \in DOMAIN toServer} \cup {toNode[i] : i \in DOMAIN toNode}
           \cup {joinCh[i] : i \in DOMAIN joinCh} : n.type \in {"proof", "challenge"}}}

FreshNonce ==
  CHOOSE n \in 1 .. Cardinality(NoncesInUse) + 1 : n \notin NoncesInUse

\* A change of the registry, which saveLocked ends; and none.
Store(e) == entry' = e /\ disk' = e

StoreNothing == UNCHANGED <<entry, disk>>

\* RegisterJoin: nothing changes for a user or a machine that is blocked, and
\* what the user has not had before waits for approval.
Barred == entry.user = "blocked" \/ entry.machine = "blocked"

Registered ==
  IF Barred \/ entry.machine # "absent" THEN entry
  ELSE [entry EXCEPT !.machine = "pending",
                     !.user = IF @ = "absent" THEN "pending" ELSE @]

JoinResult == IF Barred THEN "blocked" ELSE Registered.machine

\* Mutant of HandleRequest: a user that has just been registered is sent a
\* challenge after the reply.
RegisterAndChallenge ==
  /\ toServer # <<>>
  /\ known' = TRUE
  /\ nonce' = FreshNonce
  /\ IF entry.user = "absent" THEN Store(Registered) ELSE StoreNothing
  /\ Head(toServer).type = "request"
  /\ Arrives(toServer, toServer')
  /\ toNode' = toNode \o (IF entry.user = "absent" THEN <<ReplyOf("pending", FALSE)>> ELSE <<>>)
                     \o <<[type |-> "challenge", nonce |-> FreshNonce]>>
  /\ UNCHANGED <<node, approving>>

\* handleJoinRequest: an unknown user is registered, others are challenged.
HandleRequest ==
  /\ toServer # <<>>
  /\ known' = TRUE
  /\ IF entry.user = "absent"
     THEN /\ Handle("request", ReplyOf("pending", FALSE))
          /\ Store(Registered)
          /\ UNCHANGED nonce
     ELSE /\ Handle("request", [type |-> "challenge", nonce |-> FreshNonce])
          /\ nonce' = FreshNonce
          /\ StoreNothing
  /\ UNCHANGED <<node, approving>>

\* handleJoinProof, when the proof does not answer the outstanding
\* challenge: it is used up all the same.
RefuseProof ==
  /\ toServer # <<>>
  /\ Handle("proof", ReplyOf("rejected", FALSE))
  /\ entry.user = "absent" \/ nonce = NoNonce \/ Head(toServer).nonce # nonce
  /\ nonce' = IF entry.user = "absent" THEN nonce ELSE NoNonce
  /\ UNCHANGED <<node, entry, disk, approving, known>>

\* handleJoinProof, when the proof is right: the reply says what RegisterJoin
\* found and the address, if there is one.
AcceptProof ==
  /\ toServer # <<>>
  /\ Handle("proof", ReplyOf(JoinResult, entry.addressed))
  /\ entry.user # "absent"
  /\ nonce # NoNonce
  /\ Head(toServer).nonce = nonce
  /\ nonce' = NoNonce
  /\ known' = TRUE
  /\ IF Barred THEN StoreNothing ELSE Store(Registered)
  /\ UNCHANGED <<node, approving>>

\* Either of the two registers, but the save fails: the reply rejects the
\* node, and the registry has changed in memory.
FailSave ==
  /\ toServer # <<>>
  /\ \/ /\ Head(toServer).type = "request"
        /\ entry.user = "absent"
        /\ UNCHANGED nonce
     \/ /\ Head(toServer) = [type |-> "proof", nonce |-> nonce]
        /\ nonce # NoNonce
        /\ entry.user # "absent"
        /\ ~ Barred
        /\ nonce' = NoNonce
  /\ entry' = Registered
  /\ Fault("save")
  /\ toServer' = Tail(toServer)
  /\ toNode' = Append(toNode, ReplyOf("rejected", FALSE))
  /\ known' = TRUE
  /\ UNCHANGED <<node, disk, approving>>

\* NotifyApprove: pushed when the machine's endpoint is known.
Notify == toNode' = IF known THEN Append(toNode, [type |-> "push"]) ELSE toNode

\* Allow: a pending machine of an active user.
CanAllow == entry.user = "active" /\ entry.machine = "pending"

Allowed == [entry EXCEPT !.machine = "active", !.approved = TRUE]

\* Mutant of Approve: the machine is allowed, but gets no address.
AllowOnly ==
  /\ ~ Console
  /\ CanAllow
  /\ Store(Allowed)
  /\ UNCHANGED <<node, net, approving, nonce, known, regime>>

\* allow of a pending machine, through the tunnel: Allow, AllocateIP,
\* SetMachineIP and NotifyApprove run between two datagrams.
Approve ==
  /\ ~ Console
  /\ CanAllow
  /\ Store([Allowed EXCEPT !.addressed = TRUE])
  /\ Notify
  /\ UNCHANGED <<node, toServer, approving, nonce, known, regime>>

\* The same from the console: datagrams are handled after Allow.
ConsoleAllow ==
  /\ Console
  /\ CanAllow
  /\ Store(Allowed)
  /\ approving' = TRUE
  /\ UNCHANGED <<node, net, nonce, known, regime>>

\* And the rest of it: SetMachineIP and NotifyApprove.
ConsoleFinish ==
  /\ approving
  /\ approving' = FALSE
  /\ Store([entry EXCEPT !.addressed = TRUE])
  /\ Notify
  /\ UNCHANGED <<node, toServer, nonce, known, regime>>

\* The machine is removed, and with user = "absent" its user, too.
Without(user) ==
  [user |-> user, machine |-> "absent", addressed |-> FALSE, approved |-> FALSE]

\* allow and deny of the user: a pending one is allowed or removed with its
\* machine.  Block takes its machine along, whatever that was, and Unblock
\* makes it active.
UserDecided ==
  CASE entry.user = "pending" -> {[entry EXCEPT !.user = "active"], Without("absent")}
    [] entry.user = "active"  ->
         {[entry EXCEPT !.user = "blocked",
                        !.machine = IF @ = "absent" THEN @ ELSE "blocked"]}
    [] entry.user = "blocked" ->
         {[entry EXCEPT !.user = "active", !.machine = IF @ = "blocked" THEN "active" ELSE @]}
    [] OTHER -> {}

\* deny of a pending or an active machine, allow of a blocked one.
MachineDecided ==
  CASE entry.machine = "pending" -> {Without(entry.user)}
    [] entry.machine = "active"  -> {[entry EXCEPT !.machine = "blocked"]}
    [] entry.machine = "blocked" -> {[entry EXCEPT !.machine = "active"]}
    [] OTHER -> {}

Decided == UserDecided \cup MachineDecided

Decide ==
  /\ \E e \in Decided : Store(e)
  /\ UNCHANGED <<node, net, approving, nonce, known, regime>>

\* An approval that stops after Allow: its save failed, or no address could be
\* allocated, or SetMachineIP changed the memory and its save failed.
StopAfterAllow ==
  /\ CanAllow
  /\ \/ entry' = Allowed /\ UNCHANGED disk
     \/ Store(Allowed)
     \/ ~ Console /\ entry' = [Allowed EXCEPT !.addressed = TRUE] /\ disk' = Allowed
  /\ UNCHANGED approving

\* The same when the console's Allow was a step of its own.
StopConsole ==
  /\ approving
  /\ approving' = FALSE
  /\ entry' \in {entry, [entry EXCEPT !.addressed = TRUE]}
  /\ UNCHANGED disk

\* A command ends with an error after it has changed the registry.
FailCommand ==
  /\ \/ StopAfterAllow
     \/ StopConsole
     \/ entry' \in Decided /\ UNCHANGED <<disk, approving>>
  /\ Fault("command")
  /\ UNCHANGED <<node, net, nonce, known>>

\* The server restarts with its state.json, which may lag behind what it had
\* in memory.  A console command it was running is not taken up again.
Restart ==
  /\ Fault("restart")
  /\ nonce' = NoNonce
  /\ known' = FALSE
  /\ approving' = FALSE
  /\ entry' = disk
  /\ UNCHANGED <<node, net, disk>>

-----------------------------------------------------------------------------
JoinLoop ==
  \/ SendRequest \/ ReadFirst \/ ReadSecond \/ JoinTimeout \/ WakeUp
  \/ ReadApproval \/ ApprovalTimeout

Serve == HandleRequest \/ RefuseProof \/ AcceptProof \/ FailSave

Admins == Approve \/ ConsoleAllow \/ ConsoleFinish \/ Decide \/ FailCommand

Next == Lose \/ Receive \/ JoinLoop \/ Rejoin \/ Serve \/ Admins \/ Restart

\* Goroutines and timers run, and a datagram that is not lost arrives.  The
\* admins may do nothing, and no fault has to happen.
Fairness ==
  /\ WF_vars(Receive)
  /\ WF_vars(JoinLoop)
  /\ WF_vars(Serve)
  /\ WF_vars(ConsoleFinish)

Spec == Init /\ [][Next]_vars /\ Fairness

-----------------------------------------------------------------------------
JoinMessage == Challenge \cup Reply

NodeOK ==
  /\ pc \in {"request", "awaitFirst", "awaitSecond", "sleep", "awaitApproval",
             "joined", "dead"}
  /\ tunnel \in BOOLEAN
  /\ joinCh \in Seq(JoinMessage) /\ Len(joinCh) <= 1
  /\ approveCh \in Seq(Push) /\ Len(approveCh) <= 1

Regime == [console: BOOLEAN, kinds: SUBSET FaultKind, count: 0 .. MaxFaults]

NetOK ==
  /\ toServer \in Seq(Request \cup Proof)
  /\ toNode \in Seq(JoinMessage \cup Push)
  /\ regime \in Regime

ServerOK ==
  /\ entry \in Entry
  /\ disk \in Entry
  /\ approving \in BOOLEAN
  /\ nonce \in Nat
  /\ known \in BOOLEAN

\* The channels hold at most one message each, of the kind read from them.
TypeOK == NodeOK /\ NetOK /\ ServerOK

\* README, Join Flow: "A friend machine needs approval before it can join".
\* A node that brings its tunnel up has been approved itself, whatever was lost,
\* duplicated or late, whichever old reply it has read, whatever a failed save
\* or a restart has undone, and whatever an unblock of its user made of it.
JoinedWasApproved == tunnel \/ pc = "joined" => entry.approved

\* The inductive form: the approval is on disk, or nothing that would let the
\* node in is on its way, in a channel or about to be sent.
Approved == entry.approved /\ disk.approved

Grants(m) == m.type = "push" \/ (m.type = "reply" /\ m.result = "active" /\ m.ip)

NothingGranted ==
  /\ ~ tunnel
  /\ pc # "joined"
  /\ ~ approving
  /\ ~ entry.addressed
  /\ ~ disk.addressed
  /\ approveCh = <<>>
  /\ \A i \in DOMAIN toNode : ~ Grants(toNode[i])
  /\ \A i \in DOMAIN joinCh : ~ Grants(joinCh[i])

\* What has not been approved has not been addressed, and what waits or is
\* not there has not been approved; a machine is there only with its user, and
\* it does not get further than a user that waits.
Coherent(e) ==
  /\ e.addressed => e.approved
  /\ e.approved => e.machine \in {"active", "blocked"}
  /\ e.user = "absent" => e.machine = "absent"
  /\ e.user = "pending" => e.machine \in {"absent", "pending"}

ApprovalInv ==
  /\ Coherent(entry) /\ Coherent(disk)
  /\ approving => entry.approved
  /\ Approved \/ NothingGranted

\* The inductive form: of a request, a proof and their answers, at most one is
\* anywhere, and none when tryJoin does not wait for one.
NoAnswers == \A i \in DOMAIN toNode : toNode[i].type = "push"

LockstepInv ==
  /\ pc \notin {"awaitFirst", "awaitSecond"} => toServer = <<>> /\ joinCh = <<>> /\ NoAnswers
  /\ Len(toServer) <= 1
  /\ toServer # <<>> => joinCh = <<>> /\ NoAnswers
  /\ joinCh # <<>> => NoAnswers
  /\ \A i, j \in DOMAIN toNode :
       toNode[i].type # "push" /\ toNode[j].type # "push" => i = j

\* Datagrams arrive once, and before their wait ends.
Prompt == Faults \cap {"late", "duplicate"} = {}

\* The handshake stays in step: when tryJoin sends a request, nothing of an
\* earlier try can still be read as its answer, unless a datagram was late or
\* came twice.
Lockstep == Prompt /\ pc = "request" => joinCh = <<>>

\* Every command comes through the tunnel and runs to its end.
Whole == ~ Console /\ "command" \notin Faults

\* The reply to a machine that an admin has approved carries its address, so
\* that its node does not stop its daemon over an empty one.  Unless a command
\* stands between the approval and the address, a node that stops so was never
\* approved: its machine waited when its user was blocked, and became active
\* with it.  README, Join Flow: "The machine joins at once".
NodeSurvives == Whole /\ pc = "dead" => ~ entry.approved

\* The registry lets the machine in, and an admin approved it.
LetIn == entry.user = "active" /\ entry.machine = "active" /\ entry.approved

\* README, Join Flow: "The machine joins at once.  A lost push is retried
\* every 5 seconds".
ApprovedJoins == <>[]LetIn => <>[](pc = "joined")

\* A machine that stays approved ends up joined where commands are whole and
\* answers prompt.
JoinsOnceApproved == (Whole /\ Prompt) => ApprovedJoins

=============================================================================
