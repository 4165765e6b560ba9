---------------------------- MODULE ControlPlane ----------------------------
(***************************************************************************)
(* The server's control plane (internal/server/server.go and the admin     *)
(* request handler of data.go): the join handshake, the approval commands  *)
(* and address allocation, as interleavings of goroutines.                 *)
(*                                                                         *)
(* One goroutine, Udp, reads the socket and runs every datagram's handler  *)
(* to its end.  Every other thread serves console commands that arrive on  *)
(* the admin socket (daemon.handleAdmin calls AdminCommand directly), so   *)
(* it runs beside the socket loop.  A handler is a sequence of critical    *)
(* sections: calls on *State under State.mu, and accesses to the tables of *)
(* endpoints under Server.mu.  A step of this module is one of them with   *)
(* the local code up to the next one (the challenge nonces belong to the   *)
(* socket loop alone, so they need no step of their own).  What a handler  *)
(* has read stays in its frame and may be stale when it acts on it.        *)
(*                                                                         *)
(* Abstractions.  A remote address is the node behind it, named by the     *)
(* node's key.  A challenge nonce is the key of the node it was sent to: a *)
(* proof is valid when it answers the latest challenge of its own node.    *)
(* Messages to nodes that change no server state are left out.             *)
(***************************************************************************)
EXTENDS Registry

CONSTANTS
  Thread,       \* the goroutines that call into the server
  Udp,          \* the one that runs the socket loop
  Claims,       \* the [user, name, key, desired] the nodes' configs ask for
  Commands,     \* the [op, user, name, to] the admins issue
  NoTarget,     \* an empty --to
  NoFrame,      \* the frame of a thread that runs no handler
  MaxFaults,    \* bound: failed saves
  MaxRestarts   \* bound: crashes and restarts of the server process

Command == [op: {"allow", "deny"}, user: User, name: Name \cup {NoName},
            to: Target \cup {NoTarget}]

\* Where an address that is being allocated comes from.
Origin == {"subnet", "rebind", "auto", "approve"}

JoinStatusType == {"none"} \cup MachineStatus

\* A handler's local variables: its arguments, the machine status it has
\* read, who asked for an address with which pin, the address allocated or
\* looked up, the endpoint a push goes to, and the targets it still has to
\* revoke.
Frame == [user: User, name: Name \cup {NoName}, key: Key \cup {NoKey},
          desired: Nat, to: Target \cup {NoTarget},
          status: JoinStatusType, origin: Origin, pin: Nat,
          ip: Address \cup {NoAddress}, addr: Key \cup {NoKey},
          todo: SUBSET Target]

JoinLabel == {"getUser", "registerNew", "proven", "register", "ensureInSubnet",
              "rebindDesired", "autoApprove", "desiredOf", "answer", "reply"}

CommandLabel == {"allowRead", "allow", "unblock", "grant", "revokeTo",
                 "grantsOf", "revoke", "denyRead", "deny", "block",
                 "approveRead", "notify", "endpoint", "remember", "broadcast"}

Label == {"idle", "heard", "allocate", "assign"} \cup JoinLabel \cup CommandLabel

ASSUME ThreadsIncludeUdp == Udp \in Thread
ASSUME InputsAreTyped == Claims \subseteq Claim /\ Commands \subseteq Command
ASSUME AllowHasTarget == \A c \in Commands : c.op = "allow" => c.to # NoTarget
ASSUME NoTargetIsOutside == NoTarget \notin Target
ASSUME NoFrameIsOutside == NoFrame \notin Frame
ASSUME BoundsAreNumbers == MaxFaults \in Nat /\ MaxRestarts \in Nat

VARIABLES
  reg,          \* the registry in memory (server.st)
  disk,         \* state.json
  subnet,       \* cfg.Subnet
  nonces,       \* the node each (user, name)'s outstanding challenge went to
  endpoints,    \* the node that last joined as (user, name)
  ipEndpoints,  \* the node that last spoke for an address
  pc, frame,    \* per thread: the next call and the handler's locals
  faults, restarts

vars == <<reg, disk, subnet, nonces, endpoints, ipEndpoints, pc, frame,
          faults, restarts>>

memory == <<nonces, endpoints, ipEndpoints>>

NoNodes == [x \in User \X Name |-> NoKey]

\* The first start: state.json is absent and EnsureAdmin writes it.
Init ==
  /\ reg = EnsureAdmin(EmptyRegistry)
  /\ disk = reg
  /\ subnet \in Subnet
  /\ nonces = NoNodes
  /\ endpoints = NoNodes
  /\ ipEndpoints = [a \in Address |-> NoKey]
  /\ pc = [t \in Thread |-> "idle"]
  /\ frame = [t \in Thread |-> NoFrame]
  /\ faults = 0
  /\ restarts = 0

-----------------------------------------------------------------------------
(* Control flow and saving. *)

At(t, label) == pc[t] = label

Goto(t, label) ==
  /\ pc' = [pc EXCEPT ![t] = label]
  /\ UNCHANGED frame

\* Continue at label with local variables f.
GotoWith(t, label, f) ==
  /\ pc' = [pc EXCEPT ![t] = label]
  /\ frame' = [frame EXCEPT ![t] = f]

Return(t) == GotoWith(t, "idle", NoFrame)

ReadOnly == UNCHANGED <<reg, disk, faults>>

\* saveLocked after the memory has become r: the write and rename succeed,
\* or one of them fails and the operation reports an error.
SaveWorks(r) == reg' = r /\ disk' = r /\ UNCHANGED faults

SaveFails(r) ==
  /\ faults < MaxFaults
  /\ reg' = r
  /\ faults' = faults + 1
  /\ UNCHANGED disk

\* Where a handler goes on when its request for an address was honoured,
\* and when the allocation or the save failed.
AfterAssign(origin) ==
  CASE origin = "subnet"  -> "rebindDesired"
    [] origin = "rebind"  -> "autoApprove"
    [] origin = "auto"    -> "answer"
    [] origin = "approve" -> "notify"

AfterRefusal(t) ==
  CASE frame[t].origin = "subnet"  -> Goto(t, "rebindDesired")
    [] frame[t].origin = "rebind"  -> Goto(t, "autoApprove")
    [] frame[t].origin = "auto"    -> Goto(t, "answer")
    [] frame[t].origin = "approve" -> Return(t)

-----------------------------------------------------------------------------
(* The join handshake, in the socket loop. *)

JoinFrame(c) ==
  [user |-> c.user, name |-> c.name, key |-> c.key, desired |-> c.desired,
   to |-> NoTarget, status |-> "none", origin |-> "subnet", pin |-> 0,
   ip |-> NoAddress, addr |-> NoKey, todo |-> {}]

ClaimOf(f) ==
  [user |-> f.user, name |-> f.name, key |-> f.key, desired |-> f.desired]

\* Bound: a join that would add an entry to a full table is not explored.
Fits(c) == JoinAppends(reg, c) => HasRoom(reg)

\* handleJoinRequest notes where the request came from.
JoinRequest(c) ==
  /\ At(Udp, "idle")
  /\ Fits(c)
  /\ endpoints' = [endpoints EXCEPT ![<<c.user, c.name>>] = c.key]
  /\ GotoWith(Udp, "getUser", JoinFrame(c))
  /\ ReadOnly
  /\ UNCHANGED <<subnet, nonces, ipEndpoints, restarts>>

\* A user that is not known is registered next, a known one is sent a
\* challenge.
GetUser ==
  LET f == frame[Udp]
  IN  /\ At(Udp, "getUser")
      /\ IF reg.users[f.user] = "absent"
         THEN Goto(Udp, "registerNew") /\ UNCHANGED nonces
         ELSE /\ nonces' = [nonces EXCEPT ![<<f.user, f.name>>] = f.key]
              /\ Return(Udp)
      /\ ReadOnly
      /\ UNCHANGED <<subnet, endpoints, ipEndpoints, restarts>>

\* RegisterJoin for a user that is not known: its reply carries no address.
RegisterNew ==
  LET c == ClaimOf(frame[Udp])
  IN  /\ At(Udp, "registerNew")
      /\ IF JoinIsBlocked(reg, c) \/ JoinIsRefused(reg, c, TRUE)
         THEN ReadOnly
         ELSE SaveWorks(RegisterJoin(reg, c)) \/ SaveFails(RegisterJoin(reg, c))
      /\ Return(Udp)
      /\ UNCHANGED <<subnet, memory, restarts>>

\* handleJoinProof up to the verification of the proof.  valid says that
\* the proof answers the challenge the server holds for the claimed name.
JoinProof(c, valid) ==
  LET x == <<c.user, c.name>>
  IN  /\ At(Udp, "idle")
      /\ Fits(c)
      /\ valid => nonces[x] = c.key
      /\ IF reg.users[c.user] = "absent" \/ nonces[x] = NoKey
         THEN UNCHANGED <<nonces, pc, frame>>
         ELSE /\ nonces' = [nonces EXCEPT ![x] = NoKey]
              /\ IF valid THEN GotoWith(Udp, "proven", JoinFrame(c))
                          ELSE UNCHANGED <<pc, frame>>
      /\ ReadOnly
      /\ UNCHANGED <<subnet, endpoints, ipEndpoints, restarts>>

\* The sender of a valid proof is noted before it is registered.
Proven ==
  LET f == frame[Udp]
  IN  /\ At(Udp, "proven")
      /\ endpoints' = [endpoints EXCEPT ![<<f.user, f.name>>] = f.key]
      /\ Goto(Udp, "register")
      /\ ReadOnly
      /\ UNCHANGED <<subnet, nonces, ipEndpoints, restarts>>

\* RegisterJoin for a proven claim, without salt and verifier.
Register ==
  LET c == ClaimOf(frame[Udp])
      joined == [frame[Udp] EXCEPT !.status = JoinStatus(reg, c)]
  IN  /\ At(Udp, "register")
      /\ \/ /\ JoinIsBlocked(reg, c)
            /\ GotoWith(Udp, "ensureInSubnet", [frame[Udp] EXCEPT !.status = "blocked"])
            /\ ReadOnly
         \/ /\ JoinIsRefused(reg, c, FALSE)
            /\ Return(Udp)
            /\ ReadOnly
         \/ /\ ~ JoinIsBlocked(reg, c)
            /\ ~ JoinIsRefused(reg, c, FALSE)
            /\ \/ /\ SaveWorks(RegisterJoin(reg, c))
                  /\ GotoWith(Udp, "ensureInSubnet", joined)
               \/ /\ SaveFails(RegisterJoin(reg, c))
                  /\ Return(Udp)
      /\ UNCHANGED <<subnet, memory, restarts>>

\* Mutant of RequestAddress: the address is assigned before it is allocated.
RequestAssignment(t, origin, pin) ==
  GotoWith(t, "assign", [frame[t] EXCEPT !.origin = origin, !.pin = pin])

\* Ask for the address of the machine (user, name) on behalf of origin,
\* pinned to host number pin unless pin is 0.
RequestAddress(t, origin, pin) ==
  GotoWith(t, "allocate", [frame[t] EXCEPT !.origin = origin, !.pin = pin])

\* The address of the handler's machine, looked up by user and name.
CurrentIP(t) ==
  IF HasMachine(reg, frame[t].user, frame[t].name)
  THEN MachineNamed(reg, frame[t].user, frame[t].name).ip
  ELSE NoAddress

\* Mutant of EnsureInSubnet: an address of another subnet is kept.
KeepOldSubnet ==
  /\ At(Udp, "ensureInSubnet")
  /\ Goto(Udp, "rebindDesired")
  /\ ReadOnly
  /\ UNCHANGED <<subnet, memory, restarts>>

\* ensureInSubnet up to its lookup: an address outside the configured
\* subnet is replaced.
EnsureInSubnet ==
  /\ At(Udp, "ensureInSubnet")
  /\ LET ip == CurrentIP(Udp)
     IN  IF ip = NoAddress \/ ip[1] = subnet
         THEN Goto(Udp, "rebindDesired")
         ELSE RequestAddress(Udp, "subnet",
                MachineNamed(reg, frame[Udp].user, frame[Udp].name).desired)
  /\ ReadOnly
  /\ UNCHANGED <<subnet, memory, restarts>>

\* Mutant of RebindDesired: a pin is honoured before there is an address.
RebindUnaddressed ==
  /\ At(Udp, "rebindDesired")
  /\ IF frame[Udp].desired = 0 \/ CurrentIP(Udp) = <<subnet, frame[Udp].desired>>
     THEN Goto(Udp, "autoApprove")
     ELSE RequestAddress(Udp, "rebind", frame[Udp].desired)
  /\ ReadOnly
  /\ UNCHANGED <<subnet, memory, restarts>>

\* rebindDesired up to its lookup: an address whose host number is not the
\* one the claim pins is replaced.
RebindDesired ==
  /\ At(Udp, "rebindDesired")
  /\ LET ip == CurrentIP(Udp)
         desired == frame[Udp].desired
     IN  IF desired = 0 \/ ip = NoAddress \/ ip[2] = desired
         THEN Goto(Udp, "autoApprove")
         ELSE RequestAddress(Udp, "rebind", desired)
  /\ ReadOnly
  /\ UNCHANGED <<subnet, memory, restarts>>

\* A pending machine of the admin user is allowed on the spot.
AutoApprove ==
  LET f == frame[Udp]
  IN  /\ At(Udp, "autoApprove")
      /\ IF /\ f.status = "pending"
            /\ f.user = Admin
            /\ CanAllow(reg, f.user, f.name)
         THEN \/ SaveWorks(Allow(reg, f.user, f.name)) /\ Goto(Udp, "desiredOf")
              \/ SaveFails(Allow(reg, f.user, f.name)) /\ Goto(Udp, "answer")
         ELSE ReadOnly /\ Goto(Udp, "answer")
      /\ UNCHANGED <<subnet, memory, restarts>>

\* desiredOf: autoApproveAdmin reads the pin after it has allowed.
DesiredOf ==
  LET f == frame[Udp]
  IN  /\ At(Udp, "desiredOf")
      /\ RequestAddress(Udp, "auto",
           IF HasMachine(reg, f.user, f.name)
           THEN MachineNamed(reg, f.user, f.name).desired ELSE 0)
      /\ ReadOnly
      /\ UNCHANGED <<subnet, memory, restarts>>

\* The reply carries the address of the machine named in the claim ...
Answer ==
  /\ At(Udp, "answer")
  /\ GotoWith(Udp, "reply", [frame[Udp] EXCEPT !.ip = CurrentIP(Udp)])
  /\ ReadOnly
  /\ UNCHANGED <<subnet, memory, restarts>>

\* ... and sendJoinReply remembers the sender as that address's endpoint.
Reply ==
  LET f == frame[Udp]
  IN  /\ At(Udp, "reply")
      /\ ipEndpoints' = IF f.ip = NoAddress THEN ipEndpoints
                        ELSE [ipEndpoints EXCEPT ![f.ip] = f.key]
      /\ Return(Udp)
      /\ ReadOnly
      /\ UNCHANGED <<subnet, nonces, endpoints, restarts>>

-----------------------------------------------------------------------------
(* Address allocation, shared by joins and approvals: two calls on *State. *)

\* AllocateIP picks an address that nobody holds at this moment.
Allocate(t) ==
  LET f == frame[t]
  IN  /\ At(t, "allocate")
      /\ IF CanAllocate(reg, subnet, f.pin)
         THEN GotoWith(t, "assign", [f EXCEPT !.ip = AllocateIP(reg, subnet, f.pin)])
         ELSE AfterRefusal(t)
      /\ ReadOnly
      /\ UNCHANGED <<subnet, memory, restarts>>

\* SetMachineIP writes the picked address to the machine of that name.  An
\* automatic approval reports the machine as active only from here on.
Assign(t) ==
  LET f == frame[t]
      r == SetMachineIP(reg, f.user, f.name, f.ip)
  IN  /\ At(t, "assign")
      /\ IF HasMachine(reg, f.user, f.name)
         THEN \/ /\ SaveWorks(r)
                 /\ IF f.origin = "auto"
                    THEN GotoWith(t, "answer", [f EXCEPT !.status = "active"])
                    ELSE Goto(t, AfterAssign(f.origin))
              \/ SaveFails(r) /\ AfterRefusal(t)
         ELSE ReadOnly /\ AfterRefusal(t)
      /\ UNCHANGED <<subnet, memory, restarts>>

-----------------------------------------------------------------------------
(* The approval commands. *)

CommandFrame(c) ==
  [user |-> c.user, name |-> c.name, key |-> NoKey, desired |-> 0,
   to |-> c.to, status |-> "none", origin |-> "approve", pin |-> 0,
   ip |-> NoAddress, addr |-> NoKey, todo |-> {}]

\* Mutant of StartCommand: deny does not revoke grants first.
StartDenyUnrevoked(t, c) ==
  GotoWith(t, IF c.op = "allow" THEN "allowRead"
              ELSE IF c.to # NoTarget THEN "revokeTo" ELSE "denyRead",
           CommandFrame(c))

\* AdminCommand parses the target and dispatches on the operation.
StartCommand(t, c) ==
  GotoWith(t, IF c.op = "allow" THEN "allowRead"
              ELSE IF c.to # NoTarget THEN "revokeTo" ELSE "grantsOf",
           CommandFrame(c))

\* A console command, from daemon.handleAdmin.
ConsoleCommand(t, c) ==
  /\ t # Udp
  /\ At(t, "idle")
  /\ StartCommand(t, c)
  /\ ReadOnly
  /\ UNCHANGED <<subnet, memory, restarts>>

\* Mutant of Sender: any registered machine may sign for an address.
SenderAnyMachine(a, k) == SlotsWithIP(reg, a) # {} /\ SlotsOfKey(reg, k) # {}

\* The machine that a signed message from address a is checked against,
\* and that must have signed it.
Sender(a, k) == SlotsWithIP(reg, a) # {} /\ reg.machines[Min(SlotsWithIP(reg, a))].key = k

SignedFrame(u, a, k) ==
  [user |-> u, name |-> NoName, key |-> k, desired |-> 0, to |-> NoTarget,
   status |-> "none", origin |-> "approve", pin |-> 0, ip |-> a,
   addr |-> NoKey, todo |-> {}]

\* handleSigned looks up the machine of the source address and verifies its
\* signature.
Verify(a, k) ==
  /\ At(Udp, "idle")
  /\ Sender(a, k)
  /\ GotoWith(Udp, "heard",
              SignedFrame(reg.machines[Min(SlotsWithIP(reg, a))].user, a, k))
  /\ ReadOnly
  /\ UNCHANGED <<subnet, memory, restarts>>

\* Any signed message refreshes the endpoint of its source address.  A
\* command from a machine of the admin is then run in the socket loop; other
\* messages (a keep-alive) change nothing more.
Heard ==
  LET f == frame[Udp]
  IN  /\ At(Udp, "heard")
      /\ ipEndpoints' = [ipEndpoints EXCEPT ![f.ip] = f.key]
      /\ \/ Return(Udp)
         \/ f.user = Admin /\ \E c \in Commands : StartCommand(Udp, c)
      /\ ReadOnly
      /\ UNCHANGED <<subnet, nonces, endpoints, restarts>>

\* The status a command finds, and "absent" when there is no such entry.
StatusOf(u, n) ==
  IF n = NoName THEN reg.users[u]
  ELSE IF HasMachine(reg, u, n) THEN MachineNamed(reg, u, n).status ELSE "absent"

\* Mutant of AllowRead: a user that waits is granted its target at once.
AllowReadGrants(t) ==
  LET found == StatusOf(frame[t].user, frame[t].name)
  IN  /\ At(t, "allowRead")
      /\ \/ found = "absent" /\ Return(t)
         \/ found = "pending" /\ frame[t].name # NoName /\ Goto(t, "allow")
         \/ found = "blocked" /\ Goto(t, "unblock")
         \/ found = "pending" /\ frame[t].name = NoName /\ Goto(t, "grant")
         \/ found = "active" /\ Goto(t, "grant")
      /\ ReadOnly
      /\ UNCHANGED <<subnet, memory, restarts>>

\* allow, up to its lookup: what it will do depends on the status read here.
AllowRead(t) ==
  LET found == StatusOf(frame[t].user, frame[t].name)
  IN  /\ At(t, "allowRead")
      /\ \/ found = "absent"  /\ Return(t)
         \/ found = "pending" /\ Goto(t, "allow")
         \/ found = "blocked" /\ Goto(t, "unblock")
         \/ found = "active"  /\ Goto(t, "grant")
      /\ ReadOnly
      /\ UNCHANGED <<subnet, memory, restarts>>

\* One mutating call on *State: run op when the entry allows it and go on
\* at ok when the save works; any error ends the command.
Call(t, enabled, r, ok) ==
  /\ IF enabled
     THEN \/ SaveWorks(r) /\ Goto(t, ok)
          \/ SaveFails(r) /\ Return(t)
     ELSE ReadOnly /\ Return(t)
  /\ UNCHANGED <<subnet, memory, restarts>>

DoAllow(t) ==
  LET f == frame[t]
  IN  /\ At(t, "allow")
      /\ Call(t, CanAllow(reg, f.user, f.name), Allow(reg, f.user, f.name),
              IF f.name = NoName THEN "broadcast" ELSE "approveRead")

DoUnblock(t) ==
  LET f == frame[t]
  IN  /\ At(t, "unblock")
      /\ Call(t, Exists(reg, f.user, f.name), Unblock(reg, f.user, f.name), "broadcast")

\* Grant: a grant that is already there succeeds without a save.
DoGrant(t) ==
  LET f == frame[t]
  IN  /\ At(t, "grant")
      /\ IF f.to \in GrantsOf(reg, f.user, f.name)
         THEN /\ Goto(t, "broadcast")
              /\ ReadOnly
              /\ UNCHANGED <<subnet, memory, restarts>>
         ELSE Call(t, TRUE, AddGrant(reg, f.user, f.name, f.to), "broadcast")

\* approveMachine up to its lookup: an address only for a machine without one.
ApproveRead(t) ==
  LET f == frame[t]
      m == MachineNamed(reg, f.user, f.name)
  IN  /\ At(t, "approveRead")
      /\ \/ ~ HasMachine(reg, f.user, f.name) /\ Goto(t, "broadcast")
         \/ HasMachine(reg, f.user, f.name) /\
              IF m.ip = NoAddress THEN RequestAddress(t, "approve", m.desired)
                                  ELSE Goto(t, "notify")
      /\ ReadOnly
      /\ UNCHANGED <<subnet, memory, restarts>>

\* NotifyApprove looks up the address to push ...
Notify(t) ==
  LET ip == CurrentIP(t)
  IN  /\ At(t, "notify")
      /\ IF ip = NoAddress THEN Goto(t, "broadcast")
         ELSE GotoWith(t, "endpoint", [frame[t] EXCEPT !.ip = ip])
      /\ ReadOnly
      /\ UNCHANGED <<subnet, memory, restarts>>

\* ... and the node that last joined by that name, sends the push there ...
LookUpEndpoint(t) ==
  LET k == endpoints[<<frame[t].user, frame[t].name>>]
  IN  /\ At(t, "endpoint")
      /\ IF k = NoKey THEN Goto(t, "broadcast")
         ELSE GotoWith(t, "remember", [frame[t] EXCEPT !.addr = k])
      /\ ReadOnly
      /\ UNCHANGED <<subnet, memory, restarts>>

\* ... and makes that node the endpoint of the address.
RememberPush(t) ==
  /\ At(t, "remember")
  /\ ipEndpoints' = [ipEndpoints EXCEPT ![frame[t].ip] = frame[t].addr]
  /\ Goto(t, "broadcast")
  /\ ReadOnly
  /\ UNCHANGED <<subnet, nonces, endpoints, restarts>>

\* deny with a target revokes that one grant.
RevokeTo(t) ==
  LET f == frame[t]
  IN  /\ At(t, "revokeTo")
      /\ Call(t, TRUE, Revoke(reg, f.user, f.name, f.to), "broadcast")

\* deny without a target first revokes the grants it lists here ...
ListGrants(t) ==
  LET listed == GrantsOf(reg, frame[t].user, frame[t].name)
  IN  /\ At(t, "grantsOf")
      /\ GotoWith(t, IF listed = {} THEN "denyRead" ELSE "revoke",
                  [frame[t] EXCEPT !.todo = listed])
      /\ ReadOnly
      /\ UNCHANGED <<subnet, memory, restarts>>

\* ... one call each (in the order of the list; any order here) ...
RevokeListed(t) ==
  /\ At(t, "revoke")
  /\ \E target \in frame[t].todo :
       LET f == frame[t]
           left == f.todo \ {target}
           r == Revoke(reg, f.user, f.name, target)
       IN  \/ /\ SaveWorks(r)
              /\ GotoWith(t, IF left = {} THEN "denyRead" ELSE "revoke",
                          [f EXCEPT !.todo = left])
           \/ SaveFails(r) /\ Return(t)
  /\ UNCHANGED <<subnet, memory, restarts>>

\* Mutant of DenyRead: a blocked entry is removed, too.
DenyReadForgets(t) ==
  LET found == StatusOf(frame[t].user, frame[t].name)
  IN  /\ At(t, "denyRead")
      /\ \/ found = "absent" /\ Return(t)
         \/ found \in {"pending", "blocked"} /\ Goto(t, "deny")
         \/ found = "active" /\ Goto(t, "block")
      /\ ReadOnly
      /\ UNCHANGED <<subnet, memory, restarts>>

\* ... and then removes a pending entry or blocks an active one.
DenyRead(t) ==
  LET found == StatusOf(frame[t].user, frame[t].name)
  IN  /\ At(t, "denyRead")
      /\ \/ found = "absent"  /\ Return(t)
         \/ found = "pending" /\ Goto(t, "deny")
         \/ found = "blocked" /\ Goto(t, "broadcast")
         \/ found = "active"  /\ Goto(t, "block")
      /\ ReadOnly
      /\ UNCHANGED <<subnet, memory, restarts>>

DoDeny(t) ==
  LET f == frame[t]
  IN  /\ At(t, "deny")
      /\ Call(t, Exists(reg, f.user, f.name), Deny(reg, f.user, f.name), "broadcast")

DoBlock(t) ==
  LET f == frame[t]
  IN  /\ At(t, "block")
      /\ Call(t, Exists(reg, f.user, f.name), Block(reg, f.user, f.name), "broadcast")

\* broadcastPolicyChanged reads the machines and ends the command, which
\* reports success.
Broadcast(t) ==
  /\ At(t, "broadcast")
  /\ Return(t)
  /\ ReadOnly
  /\ UNCHANGED <<subnet, memory, restarts>>

-----------------------------------------------------------------------------
\* The server process dies at any point and starts again, perhaps with
\* another subnet in its config.  Only state.json survives.
Restart ==
  /\ restarts < MaxRestarts
  /\ restarts' = restarts + 1
  /\ reg' = EnsureAdmin(disk)
  /\ disk' = EnsureAdmin(disk)
  /\ subnet' \in Subnet
  /\ nonces' = NoNodes
  /\ endpoints' = NoNodes
  /\ ipEndpoints' = [a \in Address |-> NoKey]
  /\ pc' = [t \in Thread |-> "idle"]
  /\ frame' = [t \in Thread |-> NoFrame]
  /\ UNCHANGED faults

Join ==
  \/ \E c \in Claims : JoinRequest(c)
  \/ \E c \in Claims, valid \in BOOLEAN : JoinProof(c, valid)
  \/ GetUser \/ RegisterNew \/ Proven \/ Register
  \/ EnsureInSubnet \/ RebindDesired \/ AutoApprove \/ DesiredOf
  \/ Answer \/ Reply

Signed == (\E a \in Address, k \in Key : Verify(a, k)) \/ Heard

Handle(t) ==
  \/ \E c \in Commands : ConsoleCommand(t, c)
  \/ Allocate(t) \/ Assign(t)
  \/ AllowRead(t) \/ DoAllow(t) \/ DoUnblock(t) \/ DoGrant(t)
  \/ ApproveRead(t) \/ Notify(t) \/ LookUpEndpoint(t) \/ RememberPush(t)
  \/ RevokeTo(t) \/ ListGrants(t) \/ RevokeListed(t)
  \/ DenyRead(t) \/ DoDeny(t) \/ DoBlock(t) \/ Broadcast(t)

Next == Join \/ Signed \/ (\E t \in Thread : Handle(t)) \/ Restart

Spec == Init /\ [][Next]_vars

-----------------------------------------------------------------------------
(* Correctness.  A property of the registry holds in memory and on disk.   *)

Everywhere(P(_)) == P(reg) /\ P(disk)

StoreOK ==
  /\ reg \in RegistryType
  /\ disk \in RegistryType
  /\ faults \in 0 .. MaxFaults

MemoryOK ==
  /\ subnet \in Subnet
  /\ nonces \in [User \X Name -> Key \cup {NoKey}]
  /\ endpoints \in [User \X Name -> Key \cup {NoKey}]
  /\ ipEndpoints \in [Address -> Key \cup {NoKey}]
  /\ restarts \in 0 .. MaxRestarts

\* Thread t runs a join, on behalf of the claim in frame f.
InJoin(t, f) == t = Udp /\ f.name \in Name /\ f.key \in Key

\* What a thread that stands at a label may rely on.
LocalsOK(t, label, f) ==
  /\ label # "idle" => f \in Frame
  /\ label \in JoinLabel => InJoin(t, f)
  /\ label \in {"allocate", "assign"} =>
       f.name \in Name /\ (f.origin = "approve" \/ InJoin(t, f))
  /\ label \in {"approveRead", "notify", "endpoint", "remember"} => f.name \in Name
  /\ label \in {"assign", "endpoint", "remember", "heard"} => f.ip \in Address
  /\ label = "heard" => f.key \in Key
  /\ label = "remember" => f.addr \in Key
  /\ label \in {"allowRead", "grant", "revokeTo"} => f.to \in Target

ThreadsOK ==
  /\ pc \in [Thread -> Label]
  /\ frame \in [Thread -> Frame \cup {NoFrame}]
  /\ \A t \in Thread : LocalsOK(t, pc[t], frame[t])

\* Every variable has its type; a running handler has its locals, only the
\* socket loop runs joins, and no address is assigned before it is allocated.
TypeOK == StoreOK /\ MemoryOK /\ ThreadsOK

\* README, Configuration: "An address is bound to a machine key and cannot be
\* taken over".  No two entries hold one address, whatever sequence of joins,
\* pins, renames, approvals, subnet changes and restarts led here.
AddressesUnique == Everywhere(UniqueIP)

\* deny of a user removes its machines with it, and no join that is under
\* way leaves a machine behind whose user is gone.
NoOrphanMachines == Everywhere(NoOrphans)

\* A user that still waits for approval has no machine that got further:
\* nothing approves, blocks or unblocks a machine ahead of its user.
PendingUserOnlyPendingMachines == Everywhere(PendingOwnersWait)

\* README, Security: "the identity is the key".  A key that joins again, under
\* another name or after its user was removed, does not get a second entry.
OneEntryPerKey == Everywhere(UniqueKeys)

\* README, Configuration: a machine name is "unique per user".
NamesUnique == Everywhere(UniqueNames)

\* README, Commands: allow of a pending target shall "approve and allocate an
\* IP".  Nothing else leads to an address: a join that moves its machine to
\* another subnet or pin gives none to an entry that waits, and no failed save
\* or crash leaves one with an entry whose approval was lost.
PendingHasNoAddress == Everywhere(PendingUnaddressed)

\* README, Commands: deny of an active target shall "block and revoke
\* grants".  A blocked user holds no user-level grant that unblocking it
\* would silently bring back.
BlockedUserHasNoGrants ==
  \A u \in User : reg.users[u] = "blocked" => GrantsOf(reg, u, NoName) = {}

\* README, Commands: a grant is added when the target is active.  A user or
\* machine is granted nothing before its user has been approved, and a user
\* that deny removes leaves no grant behind, so that nobody who registers
\* under a free user name finds grants waiting for it.  (A free machine name
\* is different: a rename leaves the grants of the old name behind.)
GrantsNameApprovedUsers ==
  \A g \in reg.grants : reg.users[g.user] \notin {"absent", "pending"}

\* A machine that is active has an address, or a handler is about to give it
\* one.  README, Commands: allow of a pending target shall "approve and
\* allocate an IP".
ActiveHasAddress ==
  \A i \in Used(reg) :
    LET m == reg.machines[i]
    IN  m.status = "active" /\ m.ip = NoAddress =>
          \E t \in Thread :
            /\ pc[t] \in {"approveRead", "desiredOf", "allocate", "assign"}
            /\ frame[t].user = m.user /\ frame[t].name = m.name

\* README, Security: "The server allocates VPN addresses and binds them to
\* machine keys".  A reply that makes a node bring its tunnel up carries the
\* node's own address: the entry that the server looks up by the claimed name
\* has the key that proved itself.
ActiveReplyAddressOwned ==
  At(Udp, "answer") /\ frame[Udp].status = "active" /\ CurrentIP(Udp) # NoAddress =>
    MachineNamed(reg, frame[Udp].user, frame[Udp].name).key = frame[Udp].key

\* A node that joined leaves with an address of the configured subnet, unless
\* there is none to give (its pin is taken, or the subnet is full).
ReplyAddressInSubnet ==
  LET ip == CurrentIP(Udp)
  IN  At(Udp, "answer") /\ ip # NoAddress /\ ip[1] # subnet =>
        ~ CanAllocate(reg, subnet,
                      MachineNamed(reg, frame[Udp].user, frame[Udp].name).desired)

\* Once the datagrams for an address go to the machine that holds it, only a
\* restart sends them elsewhere, or a node that asked to join under that very
\* user and name, before the machine or while it was blocked.
EndpointStays ==
  [][restarts' = restarts =>
       \A i \in Used(reg) :
         LET m == reg.machines[i]
         IN  m.ip # NoAddress /\ ipEndpoints[m.ip] = m.key =>
               \/ ipEndpoints'[m.ip] = m.key
               \/ \E c \in Claims : /\ c.user = m.user /\ c.name = m.name
                                    /\ c.key = ipEndpoints'[m.ip]
    ]_vars

\* State.Deny: "Deny removes a pending user or machine".  No other entry ever
\* disappears, except by a restart that falls back to what was saved.
RemovesOnlyPending ==
  [][restarts' = restarts =>
       /\ \A u \in User : reg'.users[u] = "absent" => reg.users[u] \in {"absent", "pending"}
       /\ \A i \in Used(reg) :
            SlotsOfKey(reg', reg.machines[i].key) = {} => reg.machines[i].status = "pending"
    ]_vars

IsBlocked(r, k) ==
  /\ SlotsOfKey(r, k) # {}
  /\ \A i \in SlotsOfKey(r, k) : r.machines[i].status = "blocked"

\* README, Security: "Grants and blocks use keys".  A blocked key stays
\* blocked, whatever name it joins under and whatever happens to its user,
\* until an unblock command or a restart.
BlocksHold ==
  [][restarts' = restarts =>
       \A k \in Key : IsBlocked(reg, k) /\ ~ IsBlocked(reg', k) =>
         \E t \in Thread : pc[t] = "unblock"
    ]_vars

-----------------------------------------------------------------------------
(* What a registry says of a key: the first entry that has it. *)

EntryOf(r, k) == r.machines[Min(SlotsOfKey(r, k))]

StandingIn(r) ==
  [k \in Key |-> IF SlotsOfKey(r, k) = {} THEN "unknown" ELSE EntryOf(r, k).status]

AddressIn(r) ==
  [k \in Key |-> IF SlotsOfKey(r, k) = {} THEN NoAddress ELSE EntryOf(r, k).ip]

Book == INSTANCE Membership WITH
  Address   <- Address,
  standing  <- StandingIn(reg),
  address   <- AddressIn(reg),
  saved     <- [standing |-> StandingIn(disk), address |-> AddressIn(disk)]

\* While handlers run one by one, every step of the server is a step of
\* Membership or leaves the membership alone; a crash and the start after it
\* fall back to the membership that was saved.
ImplementsMembership == Book!Spec

=============================================================================
