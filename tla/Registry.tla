------------------------------ MODULE Registry ------------------------------
(***************************************************************************)
(* The server's persistent registry (internal/state/state.go): users,      *)
(* machines and grants, and one operator per operation of *State.          *)
(*                                                                         *)
(* Every operation of the code runs under State.mu, so an operation is a   *)
(* function from registries to registries together with the condition      *)
(* under which it reports an error.  Saving to disk belongs to the caller  *)
(* (ControlPlane.tla): saveLocked is the last thing an operation does, and *)
(* it runs after the memory has changed.                                   *)
(*                                                                         *)
(* Abstractions.  Users is a slice with unique names, so it is a function  *)
(* from names to statuses ("absent" when the slice has no such entry).     *)
(* Machines is a slice whose order matters (lookups return the first       *)
(* match), so it is a table of slots filled from 1 upwards without holes.  *)
(* Fingerprints, timestamps, the Trusted flag, which nothing sets, and     *)
(* the password verifier, which no operation here tells apart, are left    *)
(* out.  A grant's subject "user" or "user/machine" is the pair of the     *)
(* user and a machine name or NoName.                                      *)
(***************************************************************************)
EXTENDS Integers, FiniteSets, FiniteSetsExt

CONSTANTS
  User,         \* user names
  Name,         \* machine names
  Key,          \* machine keys (the public part identifies a machine)
  Admin,        \* the configured admin user
  Subnet,       \* the subnets the server may be configured with
  Host,         \* host numbers a subnet offers to machines (the server's is not one)
  MaxMachines,  \* bound: machine entries
  ServerName,   \* the grant target that stands for the server itself (a name
                \* like any other: nothing stops a machine from taking it)
  NoName, NoKey, NoAddress, NoMachine

ASSUME AdminIsUser == Admin \in User
ASSUME MaxMachinesIsNumber == MaxMachines \in Nat
ASSUME HostsAreNumbers == Host \subseteq Nat \ {0}
ASSUME NonesAreOutside ==
  /\ NoName \notin Name
  /\ NoKey \notin Key
  /\ NoAddress \notin Subnet \X Host
  /\ NoMachine \notin [user: User, name: Name, key: Key, desired: Nat,
                       status: {"pending", "active", "blocked"},
                       ip: (Subnet \X Host) \cup {NoAddress}]

Slot == 1 .. MaxMachines

\* A VPN address is a host number in a subnet (netip.Addr, its last octet).
Address == Subnet \X Host

Target == Name \cup {ServerName}

UserStatus == {"absent", "pending", "active", "blocked"}
MachineStatus == {"pending", "active", "blocked"}

\* desired = 0 asks for automatic allocation; ip = NoAddress is VPNIP == "".
Machine == [user: User, name: Name, key: Key, desired: Nat,
            status: MachineStatus, ip: Address \cup {NoAddress}]

\* What a join asks for: the node's config with its key.
Claim == [user: User, name: Name, key: Key, desired: Nat]

Grant == [user: User, name: Name \cup {NoName}, target: Target]

RegistryType == [users: [User -> UserStatus],
                 machines: [Slot -> Machine \cup {NoMachine}],
                 grants: SUBSET Grant]

EmptyRegistry == [users |-> [u \in User |-> "absent"],
                  machines |-> [i \in Slot |-> NoMachine],
                  grants |-> {}]

-----------------------------------------------------------------------------
(* Lookups: the slots that match, and the first of them. *)

Used(r) == {i \in Slot : r.machines[i] # NoMachine}

SlotsNamed(r, u, n) ==
  {i \in Used(r) : r.machines[i].user = u /\ r.machines[i].name = n}

SlotsOfUser(r, u) == {i \in Used(r) : r.machines[i].user = u}

SlotsOfKey(r, k) == {i \in Used(r) : r.machines[i].key = k}

SlotsWithIP(r, a) == {i \in Used(r) : r.machines[i].ip = a}

HasMachine(r, u, n) == SlotsNamed(r, u, n) # {}

SlotNamed(r, u, n) == Min(SlotsNamed(r, u, n))

MachineNamed(r, u, n) == r.machines[SlotNamed(r, u, n)]

-----------------------------------------------------------------------------
(* Edits of the machine table. *)

\* append(s.Machines, m): the first free slot, as used slots have no hole.
HasRoom(r) == Used(r) # Slot

AppendMachine(r, m) ==
  [r EXCEPT !.machines =
     [i \in Slot |-> IF i = Min(Slot \ Used(r)) THEN m ELSE r.machines[i]]]

\* removeMachine and removeUserMachines: keep the other entries in order.
RemoveSlots(r, gone) ==
  LET kept == Used(r) \ gone
      From(j) == {i \in kept : Cardinality({h \in kept : h <= i}) = j}
  IN  [r EXCEPT !.machines =
         [j \in Slot |-> IF From(j) = {} THEN NoMachine
                         ELSE r.machines[CHOOSE i \in From(j) : TRUE]]]

SetStatus(r, slots, s) ==
  [r EXCEPT !.machines =
     [i \in Slot |-> IF i \in slots THEN [r.machines[i] EXCEPT !.status = s]
                                    ELSE r.machines[i]]]

-----------------------------------------------------------------------------
(* Approval, denial, blocking.  n = NoName addresses the user itself. *)

\* Mutant of CanAllow: a machine may be approved ahead of its user.
CanAllowAnyOwner(r, u, n) ==
  IF n = NoName THEN r.users[u] = "pending"
  ELSE HasMachine(r, u, n) /\ MachineNamed(r, u, n).status = "pending"

CanAllow(r, u, n) ==
  IF n = NoName
  THEN r.users[u] = "pending"
  ELSE /\ HasMachine(r, u, n)
       /\ MachineNamed(r, u, n).status = "pending"
       /\ r.users[u] = "active"

Allow(r, u, n) ==
  IF n = NoName
  THEN [r EXCEPT !.users[u] = "active"]
  ELSE SetStatus(r, {SlotNamed(r, u, n)}, "active")

\* The entry that Deny, Block and Unblock look up before they act.
Exists(r, u, n) ==
  IF n = NoName THEN r.users[u] # "absent" ELSE HasMachine(r, u, n)

\* Mutants of Deny: the machines of a removed user stay; a machine takes its
\* siblings with it.
DenyUserOnly(r, u, n) ==
  IF n = NoName THEN [r EXCEPT !.users[u] = "absent"]
  ELSE RemoveSlots(r, SlotsNamed(r, u, n))

DenySiblings(r, u, n) ==
  RemoveSlots(IF n = NoName THEN [r EXCEPT !.users[u] = "absent"] ELSE r,
              SlotsOfUser(r, u))

\* Deny does not look at the status of the entry that it removes.
Deny(r, u, n) ==
  IF n = NoName
  THEN RemoveSlots([r EXCEPT !.users[u] = "absent"], SlotsOfUser(r, u))
  ELSE RemoveSlots(r, SlotsNamed(r, u, n))

Block(r, u, n) ==
  IF n = NoName
  THEN SetStatus([r EXCEPT !.users[u] = "blocked"], SlotsOfUser(r, u), "blocked")
  ELSE SetStatus(r, {SlotNamed(r, u, n)}, "blocked")

BlockedSlots(r, slots) == {i \in slots : r.machines[i].status = "blocked"}

Unblock(r, u, n) ==
  IF n = NoName
  THEN SetStatus([r EXCEPT !.users[u] = IF @ = "blocked" THEN "active" ELSE @],
                 BlockedSlots(r, SlotsOfUser(r, u)), "active")
  ELSE SetStatus(r, BlockedSlots(r, {SlotNamed(r, u, n)}), "active")

-----------------------------------------------------------------------------
(* Grants. *)

Subject(u, n, target) == [user |-> u, name |-> n, target |-> target]

GrantsOf(r, u, n) == {target \in Target : Subject(u, n, target) \in r.grants}

IsGranted(r, u, n, target) ==
  \/ Subject(u, NoName, target) \in r.grants
  \/ Subject(u, n, target) \in r.grants

\* An existing grant is answered without an append and without a save.
AddGrant(r, u, n, target) ==
  [r EXCEPT !.grants = @ \cup {Subject(u, n, target)}]

Revoke(r, u, n, target) ==
  [r EXCEPT !.grants = @ \ {Subject(u, n, target)}]

-----------------------------------------------------------------------------
(* RegisterJoin, for the claim c = [user, name, key, desired] of a node.   *)
(* fresh says that the call carries a salt and a verifier: true on the     *)
(* join-request path, false on the join-proof path.                        *)

\* Mutant of NameTaken: the names of machines that wait do not count.
NameTakenByApproved(r, c) ==
  \E i \in SlotsNamed(r, c.user, c.name) :
    r.machines[i].key # c.key /\ r.machines[i].status # "pending"

NameTaken(r, c) ==
  \E i \in SlotsNamed(r, c.user, c.name) : r.machines[i].key # c.key

NewMachine(c) ==
  [user |-> c.user, name |-> c.name, key |-> c.key, desired |-> c.desired,
   status |-> "pending", ip |-> NoAddress]

\* The entry a known user's claim is about: the first one with its key,
\* whoever owns it.
ClaimedSlot(r, c) == Min(SlotsOfKey(r, c.key))

JoinIsBlocked(r, c) ==
  \/ r.users[c.user] = "blocked"
  \/ /\ r.users[c.user] # "absent"
     /\ SlotsOfKey(r, c.key) # {}
     /\ r.machines[ClaimedSlot(r, c)].status = "blocked"

\* Mutant of JoinIsRefused: a known key may take any name.
RenameIsNotRefused(r, c, fresh) ==
  IF r.users[c.user] = "absent" THEN ~ fresh
  ELSE ~ JoinIsBlocked(r, c) /\ NameTaken(r, c) /\ SlotsOfKey(r, c.key) = {}

JoinIsRefused(r, c, fresh) ==
  IF r.users[c.user] = "absent" THEN ~ fresh
  ELSE /\ ~ JoinIsBlocked(r, c)
       /\ NameTaken(r, c)
       /\ SlotsOfKey(r, c.key) # {} => r.machines[ClaimedSlot(r, c)].name # c.name

\* Does the join append an entry?  (The bound on entries guards this.)
JoinAppends(r, c) ==
  r.users[c.user] = "absent" \/ SlotsOfKey(r, c.key) = {}

\* Mutant of Reclaimed: a rename gives up the address.
ReclaimedAfresh(m, c) ==
  [m EXCEPT !.name = c.name,
            !.desired = IF c.desired # 0 THEN c.desired ELSE @,
            !.ip = IF m.name = c.name THEN @ ELSE NoAddress]

\* A known key keeps its entry and takes the name and the pin it asks for.
Reclaimed(m, c) ==
  [m EXCEPT !.name = c.name,
            !.desired = IF c.desired # 0 THEN c.desired ELSE @]

\* Mutant of RegisterJoin: entries are found by name instead of key.
RegisterJoinByName(r, c) ==
  IF r.users[c.user] = "absent"
  THEN AppendMachine([r EXCEPT !.users[c.user] = "pending"], NewMachine(c))
  ELSE IF ~ HasMachine(r, c.user, c.name)
  THEN IF HasRoom(r) THEN AppendMachine(r, NewMachine(c)) ELSE r
  ELSE [r EXCEPT !.machines[SlotNamed(r, c.user, c.name)] = Reclaimed(@, c)]

RegisterJoin(r, c) ==
  IF r.users[c.user] = "absent"
  THEN AppendMachine([r EXCEPT !.users[c.user] = "pending"], NewMachine(c))
  ELSE IF SlotsOfKey(r, c.key) = {}
  THEN AppendMachine(r, NewMachine(c))
  ELSE [r EXCEPT !.machines[ClaimedSlot(r, c)] = Reclaimed(@, c)]

\* The status the join reports when it is neither refused nor blocked.
JoinStatus(r, c) ==
  IF JoinAppends(r, c) THEN "pending"
  ELSE r.machines[ClaimedSlot(r, c)].status

-----------------------------------------------------------------------------
(* Addresses. *)

UsedAddresses(r) == {r.machines[i].ip : i \in Used(r)}

FreeHosts(r, s) == {h \in Host : <<s, h>> \notin UsedAddresses(r)}

\* Mutant of CanAllocate: a pin is honoured whoever holds the address.
CanAllocatePin(r, s, desired) ==
  IF desired # 0 THEN desired \in 2 .. 254 /\ desired \in Host
                 ELSE FreeHosts(r, s) # {}

\* desired is usable when it is a host number from 2 to 254 of the subnet
\* that is not the server's and that nobody holds.
CanAllocate(r, s, desired) ==
  IF desired # 0 THEN desired \in 2 .. 254 /\ desired \in FreeHosts(r, s)
                 ELSE FreeHosts(r, s) # {}

AllocateIP(r, s, desired) ==
  <<s, IF desired # 0 THEN desired ELSE Min(FreeHosts(r, s))>>

SetMachineIP(r, u, n, a) ==
  [r EXCEPT !.machines[SlotNamed(r, u, n)] = [@ EXCEPT !.ip = a]]

-----------------------------------------------------------------------------
\* Mutant of EnsureAdmin: a start that creates the admin forgets the machines.
EnsureAdminAfresh(r) ==
  [r EXCEPT !.users[Admin] = "active", !.machines = [i \in Slot |-> NoMachine]]

\* EnsureAdmin: present and active, whatever the state file said.
EnsureAdmin(r) == [r EXCEPT !.users[Admin] = "active"]

-----------------------------------------------------------------------------
(* What a good registry looks like.  ControlPlane asks for these in memory *)
(* and on disk.                                                            *)

\* Every machine has an owner.
NoOrphans(r) == \A i \in Used(r) : r.users[r.machines[i].user] # "absent"

\* No two machines hold one address.
UniqueIP(r) ==
  \A i, j \in Used(r) :
    r.machines[i].ip # NoAddress /\ r.machines[i].ip = r.machines[j].ip => i = j

\* A user that waits for approval has only machines that wait, too.
PendingOwnersWait(r) ==
  \A i \in Used(r) :
    r.users[r.machines[i].user] = "pending" => r.machines[i].status = "pending"

\* A machine that waits for approval has no address.
PendingUnaddressed(r) ==
  \A i \in Used(r) : r.machines[i].status = "pending" => r.machines[i].ip = NoAddress

UniqueKeys(r) == \A k \in Key : Cardinality(SlotsOfKey(r, k)) <= 1

UniqueNames(r) == \A u \in User, n \in Name : Cardinality(SlotsNamed(r, u, n)) <= 1

=============================================================================
