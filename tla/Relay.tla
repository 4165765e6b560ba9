------------------------------- MODULE Relay -------------------------------
(***************************************************************************)
(* The server's data plane (internal/server/data.go, policy.go): who may   *)
(* call whom, the answers to peer queries, the relay with its flows, and   *)
(* the policy pushes that follow a command.                                *)
(*                                                                         *)
(* A machine is named by its address, and every machine here has one.      *)
(* Commands come through the tunnel, so that the socket loop runs a whole  *)
(* handler before the next datagram, and name a machine; ControlPlane has  *)
(* the console's and those that name a user.  The server knows every       *)
(* machine's endpoint.  The server as a peer (localData), the machine list *)
(* and the hole-punching intros are left out.                              *)
(*                                                                         *)
(* The network is a set of datagrams: it delivers them in any order.       *)
(***************************************************************************)
EXTENDS Naturals, FiniteSets

CONSTANTS
  Node,        \* the machines
  UserOf,      \* whose they are
  Admin,       \* the admin user
  Commands,    \* the [op, subject, to] that admins issue
  NoTarget,    \* an empty --to
  NotFound,    \* the answer about a machine that is not active
  OldGrants,   \* the grants that state.json may hold at the start
  MaxChanges   \* bound: commands

Targets == Node \cup {NoTarget}

Command == [op: {"allow", "deny"}, subject: Node, to: Targets]

ASSUME NodesAreFinite == IsFiniteSet(Node)
ASSUME UserOfIsFunction == DOMAIN UserOf = Node
ASSUME CommandsAreTyped == Commands \subseteq Command
ASSUME OldGrantsAreTyped == OldGrants \subseteq SUBSET (Node \X Node)
ASSUME NoTargetIsNoNode == NoTarget \notin Node
ASSUME MaxChangesIsNumber == MaxChanges \in Nat

VARIABLES
  active,     \* the active machines; the others are blocked
  grants,     \* <<subject, target>>; an allow without --to leaves an empty target
  flows,      \* <<src, dst>>: src has called dst in the last minute
  permitted,  \* history: <<src, dst>> that AllowRelay has ever let through
  changes,    \* how many commands there have been
  net         \* the datagrams under way

policy == <<active, grants, permitted, changes>>
server == <<policy, flows>>

Kind == {"call", "reply"}

\* An IP packet from one machine to another, sealed with the key that its
\* sender shares with the machine key, and signed by its sender.
Packet == [from: Node, to: Node, kind: Kind, key: Node]

\* What an answer says of its target: whose keys, who may call, and whether
\* its endpoint is part of the answer (HasAddr).
Info == [owner: Node, call: BOOLEAN, back: BOOLEAN, addr: BOOLEAN]

IsGranted(src, dst, gs) == <<src, dst>> \in gs

Allowed(src, dst, gs) ==
  \/ UserOf[src] = Admin
  \/ UserOf[src] = UserOf[dst]
  \/ UserOf[dst] = Admin /\ IsGranted(src, dst, gs)

AllowRelay(src, dst) == Allowed(src, dst, grants)

\* Mutant of AllowP2P: one direction is enough.
AllowOneWay(src, dst) == AllowRelay(src, dst) \/ AllowRelay(dst, src)

\* Whether the pair may connect directly and know each other's endpoints.
AllowP2P(src, dst) == AllowRelay(src, dst) /\ AllowRelay(dst, src)

PairsAllowed(gs) == {pair \in Node \X Node : Allowed(pair[1], pair[2], gs)}

ServerInit ==
  /\ active = Node
  /\ grants \in OldGrants
  /\ flows = {}
  /\ permitted = PairsAllowed(grants)
  /\ changes = 0
  /\ net = {}

-----------------------------------------------------------------------------
(* Commands. *)

\* broadcastPolicyChanged: every machine is told its own status.
PolicyPushes(on) ==
  {[type |-> "policy", to |-> n, blocked |-> n \notin on] : n \in Node}

\* allow of a blocked machine unblocks it and of an active one grants; deny
\* with a target revokes that grant, without one all of them, and blocks.
Grants(c) ==
  IF c.op = "allow"
    THEN IF c.subject \in active THEN grants \cup {<<c.subject, c.to>>} ELSE grants
    ELSE grants \ ({c.subject} \X (IF c.to = NoTarget THEN Targets ELSE {c.to}))

Active(c) ==
  IF c.op = "allow" THEN active \cup {c.subject}
  ELSE IF c.to = NoTarget THEN active \ {c.subject}
  ELSE active

AdminCommand(c) ==
  /\ changes < MaxChanges
  /\ changes' = changes + 1
  /\ grants' = Grants(c)
  /\ active' = Active(c)
  /\ permitted' = permitted \cup PairsAllowed(grants')
  /\ net' = net \cup PolicyPushes(active')
  /\ UNCHANGED flows

-----------------------------------------------------------------------------
(* Queries and relayed packets. *)

\* Mutant: what one may do, both may.
AnswerEitherWay(src, dst) ==
  LET either == AllowRelay(src, dst) \/ AllowRelay(dst, src)
  IN IF dst \in active
       THEN [owner |-> dst, call |-> either, back |-> either, addr |-> AllowP2P(src, dst)]
       ELSE NotFound

AnswerAbout(src, dst) ==
  IF dst \in active
    THEN [owner |-> dst,
          call  |-> src \in active /\ AllowRelay(src, dst),
          back  |-> AllowRelay(dst, src),
          addr  |-> AllowP2P(src, dst)]
    ELSE NotFound

\* Who asked (by) tells the copies of a datagram apart; no code reads it.
HandlePeerQuery(m) ==
  /\ m.type = "query"
  /\ net' = (net \ {m}) \cup
       {[type |-> "answer", to |-> m.from, by |-> m.by,
         info |-> AnswerAbout(m.from, m.about)]}
  /\ UNCHANGED server

\* Mutant of Passes: any packet between active machines.
PassesUnasked(p) == {p.from, p.to} \subseteq active

\* A packet passes when its sender may call its target, which is noted, or
\* when the target has called the sender in the last minute.
Passes(p) ==
  /\ {p.from, p.to} \subseteq active
  /\ AllowRelay(p.from, p.to) \/ <<p.to, p.from>> \in flows

RelayData(m) ==
  /\ m.type = "relay"
  /\ net' = (net \ {m}) \cup
       (IF Passes(m.packet)
          THEN {[type |-> "data", to |-> m.packet.to, direct |-> FALSE,
                 packet |-> m.packet]}
          ELSE {})
  /\ flows' = IF Passes(m.packet) /\ AllowRelay(m.packet.from, m.packet.to)
                THEN flows \cup {<<m.packet.from, m.packet.to>>}
                ELSE flows
  /\ UNCHANGED policy

\* A minute has passed since the flow was last noted.
ExpireFlow(f) ==
  /\ flows' = flows \ {f}
  /\ UNCHANGED <<policy, net>>

=============================================================================
