--------------------------- MODULE RegistryProofs ---------------------------
(***************************************************************************)
(* Lemmas about the operators of Registry: what the operations return and  *)
(* which properties of a registry they preserve, for every value of the    *)
(* constants.  ControlPlaneProofs builds on them.                          *)
(***************************************************************************)
EXTENDS Registry, FiniteSetTheorems, TLAPS

\* A non-empty set of numbers has a least element, and Min picks it.  (The
\* intervals 0 .. x with x in S have a smallest one: strict inclusion of
\* finite sets is well-founded.)
LEMMA MinIsLeast ==
  ASSUME NEW S, S \subseteq Nat, S # {}
  PROVE  /\ Min(S) \in S
         /\ \A i \in S : Min(S) <= i
<1> DEFINE T == {0 .. x : x \in S}
<1>1. IsWellFoundedOn(StrictSubsetOrdering(Nat), FiniteSubsetsOf(Nat))
  BY FS_StrictSubsetOrderingWellFounded
<1>2. T \subseteq FiniteSubsetsOf(Nat)
  <2> SUFFICES ASSUME NEW x \in S PROVE 0 .. x \in FiniteSubsetsOf(Nat)
    OBVIOUS
  <2>1. IsFiniteSet(0 .. x)
    <3>1. 0 \in Int /\ x \in Int
      OBVIOUS
    <3> QED BY <3>1, FS_Interval
  <2> QED BY <2>1 DEF FiniteSubsetsOf
<1>3. T # {}
  OBVIOUS
<1>4. PICK X \in T : \A Y \in T : ~ (<<Y, X>> \in StrictSubsetOrdering(Nat))
  <2> HIDE DEF T
  <2> QED BY <1>1, <1>2, <1>3, WFMin, Zenon
<1>5. PICK x \in S : X = 0 .. x
  OBVIOUS
<1>6. \A y \in S : x <= y
  <2> SUFFICES ASSUME NEW y \in S, y < x PROVE FALSE
    BY <1>5
  <2>1. 0 .. y \subseteq 0 .. x /\ 0 .. y # 0 .. x
    <3>1. x \in 0 .. x /\ x \notin 0 .. y
      OBVIOUS
    <3> QED BY <3>1
  <2>2. <<0 .. y, X>> \in StrictSubsetOrdering(Nat)
    BY <2>1, <1>5 DEF StrictSubsetOrdering
  <2> QED BY <2>2, <1>4
<1> QED
  BY <1>6 DEF Min

-----------------------------------------------------------------------------
(* Lookups return entries.                                                 *)

\* A used slot holds a machine; lookups return used slots.
LEMMA UsedHoldsMachine ==
  ASSUME NEW r \in RegistryType, NEW i \in Used(r)
  PROVE  i \in Slot /\ r.machines[i] \in Machine
BY DEF RegistryType, Used

LEMMA LookupsAreUsed ==
  ASSUME NEW r \in RegistryType, NEW u, NEW n, NEW k, NEW a
  PROVE  /\ SlotsNamed(r, u, n) \subseteq Used(r)
         /\ SlotsOfUser(r, u) \subseteq Used(r)
         /\ SlotsOfKey(r, k) \subseteq Used(r)
         /\ SlotsWithIP(r, a) \subseteq Used(r)
         /\ Used(r) \subseteq Slot
         /\ Slot \subseteq Nat
BY MaxMachinesIsNumber DEF SlotsNamed, SlotsOfUser, SlotsOfKey, SlotsWithIP, Used, Slot

\* The first machine of a name is a machine of that name.
LEMMA SlotNamedIsNamed ==
  ASSUME NEW r \in RegistryType, NEW u, NEW n, HasMachine(r, u, n)
  PROVE  /\ SlotNamed(r, u, n) \in SlotsNamed(r, u, n)
         /\ SlotNamed(r, u, n) \in Used(r)
         /\ MachineNamed(r, u, n) \in Machine
<1>1. SlotsNamed(r, u, n) \subseteq Nat /\ SlotsNamed(r, u, n) # {}
  BY LookupsAreUsed DEF HasMachine
<1>2. SlotNamed(r, u, n) \in SlotsNamed(r, u, n)
  BY <1>1, MinIsLeast DEF SlotNamed
<1>3. SlotNamed(r, u, n) \in Used(r)
  BY <1>2, LookupsAreUsed
<1> QED
  BY <1>2, <1>3, UsedHoldsMachine DEF MachineNamed

\* The first machine of a key is a machine of that key.
LEMMA ClaimedSlotHasKey ==
  ASSUME NEW r \in RegistryType, NEW c, SlotsOfKey(r, c.key) # {}
  PROVE  /\ ClaimedSlot(r, c) \in SlotsOfKey(r, c.key)
         /\ ClaimedSlot(r, c) \in Used(r)
         /\ r.machines[ClaimedSlot(r, c)] \in Machine
<1>1. SlotsOfKey(r, c.key) \subseteq Nat
  BY LookupsAreUsed
<1>2. ClaimedSlot(r, c) \in SlotsOfKey(r, c.key)
  BY <1>1, MinIsLeast DEF ClaimedSlot
<1>3. ClaimedSlot(r, c) \in Used(r)
  BY <1>2, LookupsAreUsed
<1> QED
  BY <1>2, <1>3, UsedHoldsMachine

-----------------------------------------------------------------------------
(* Every operation returns a registry.                                     *)

LEMMA SetStatusType ==
  ASSUME NEW r \in RegistryType, NEW slots \in SUBSET Used(r), NEW s \in MachineStatus
  PROVE  SetStatus(r, slots, s) \in RegistryType
<1>1. \A i \in slots : [r.machines[i] EXCEPT !.status = s] \in Machine
  BY UsedHoldsMachine DEF Machine
<1>2. \A i \in Slot : r.machines[i] \in Machine \cup {NoMachine}
  BY DEF RegistryType
<1> QED
  BY <1>1, <1>2 DEF SetStatus, RegistryType

LEMMA RemoveSlotsType ==
  ASSUME NEW r \in RegistryType, NEW gone
  PROVE  RemoveSlots(r, gone) \in RegistryType
<1> DEFINE From(j) == {i \in Used(r) \ gone :
                         Cardinality({h \in Used(r) \ gone : h <= i}) = j}
           ms == [j \in Slot |-> IF From(j) = {} THEN NoMachine
                                 ELSE r.machines[CHOOSE i \in From(j) : TRUE]]
<1>1. \A j \in Slot : From(j) # {} => r.machines[CHOOSE i \in From(j) : TRUE] \in Machine
  BY UsedHoldsMachine
<1>2. ms \in [Slot -> Machine \cup {NoMachine}]
  BY <1>1
<1>3. RemoveSlots(r, gone) = [r EXCEPT !.machines = ms]
  BY DEF RemoveSlots
<1> HIDE DEF ms
<1> QED
  BY <1>2, <1>3 DEF RegistryType

LEMMA AppendType ==
  ASSUME NEW r \in RegistryType, NEW m \in Machine
  PROVE  AppendMachine(r, m) \in RegistryType
BY DEF AppendMachine, RegistryType

\* A status written to one user.
LEMMA SetUserType ==
  ASSUME NEW r \in RegistryType, NEW u \in User, NEW s \in UserStatus
  PROVE  [r EXCEPT !.users[u] = s] \in RegistryType
BY DEF RegistryType

\* Writing a user leaves the machine table alone.
LEMMA SetUserLookups ==
  ASSUME NEW r \in RegistryType, NEW u \in User, NEW s \in UserStatus, NEW v
  PROVE  LET q == [r EXCEPT !.users[u] = s]
         IN  /\ q.machines = r.machines
             /\ q.grants = r.grants
             /\ q.users = [r.users EXCEPT ![u] = s]
             /\ Used(q) = Used(r)
             /\ SlotsOfUser(q, v) = SlotsOfUser(r, v)
BY DEF RegistryType, Used, SlotsOfUser

LEMMA AllowType ==
  ASSUME NEW r \in RegistryType, NEW u \in User, NEW n \in Name \cup {NoName},
         CanAllow(r, u, n)
  PROVE  Allow(r, u, n) \in RegistryType
<1>1. CASE n = NoName
  BY <1>1, SetUserType DEF Allow, UserStatus
<1>2. CASE n # NoName
  BY <1>2, SlotNamedIsNamed, SetStatusType DEF Allow, CanAllow, MachineStatus
<1> QED
  BY <1>1, <1>2

LEMMA DenyType ==
  ASSUME NEW r \in RegistryType, NEW u \in User, NEW n \in Name \cup {NoName}
  PROVE  Deny(r, u, n) \in RegistryType
BY SetUserType, RemoveSlotsType DEF Deny, UserStatus

LEMMA BlockType ==
  ASSUME NEW r \in RegistryType, NEW u \in User, NEW n \in Name \cup {NoName},
         Exists(r, u, n)
  PROVE  Block(r, u, n) \in RegistryType
<1>1. CASE n = NoName
  <2> DEFINE q == [r EXCEPT !.users[u] = "blocked"]
  <2>1. q \in RegistryType
    BY SetUserType DEF UserStatus
  <2>2. SlotsOfUser(r, u) \subseteq Used(q)
    BY SetUserLookups, LookupsAreUsed DEF UserStatus
  <2> HIDE DEF q
  <2>3. SetStatus(q, SlotsOfUser(r, u), "blocked") \in RegistryType
    BY <2>1, <2>2, SetStatusType DEF MachineStatus
  <2> QED
    BY <1>1, <2>3 DEF Block, q
<1>2. CASE n # NoName
  BY <1>2, SlotNamedIsNamed, SetStatusType DEF Block, Exists, MachineStatus
<1> QED
  BY <1>1, <1>2

LEMMA UnblockType ==
  ASSUME NEW r \in RegistryType, NEW u \in User, NEW n \in Name \cup {NoName},
         Exists(r, u, n)
  PROVE  Unblock(r, u, n) \in RegistryType
<1>1. CASE n = NoName
  <2> DEFINE s == IF r.users[u] = "blocked" THEN "active" ELSE r.users[u]
             q == [r EXCEPT !.users[u] = s]
             slots == BlockedSlots(r, SlotsOfUser(r, u))
  <2>1. s \in UserStatus
    BY DEF UserStatus, RegistryType
  <2>2. q \in RegistryType
    BY <2>1, SetUserType
  <2>3. slots \subseteq Used(q)
    BY <2>1, SetUserLookups, LookupsAreUsed DEF BlockedSlots
  <2>4. Unblock(r, u, n) = SetStatus(q, slots, "active")
    BY <1>1 DEF Unblock
  <2> HIDE DEF q, slots
  <2> QED
    BY <2>2, <2>3, <2>4, SetStatusType DEF MachineStatus
<1>2. CASE n # NoName
  BY <1>2, SlotNamedIsNamed, SetStatusType DEF Unblock, Exists, BlockedSlots, MachineStatus
<1> QED
  BY <1>1, <1>2

LEMMA GrantTypes ==
  ASSUME NEW r \in RegistryType, NEW u \in User, NEW n \in Name \cup {NoName},
         NEW target \in Target
  PROVE  /\ AddGrant(r, u, n, target) \in RegistryType
         /\ Revoke(r, u, n, target) \in RegistryType
<1>1. Subject(u, n, target) \in Grant
  BY DEF Subject, Grant
<1> QED
  BY <1>1 DEF AddGrant, Revoke, RegistryType

LEMMA NewMachineType ==
  ASSUME NEW c \in Claim
  PROVE  NewMachine(c) \in Machine
BY DEF Claim, NewMachine, Machine, MachineStatus

LEMMA RegisterJoinType ==
  ASSUME NEW r \in RegistryType, NEW c \in Claim
  PROVE  RegisterJoin(r, c) \in RegistryType
<1>1. CASE r.users[c.user] = "absent"
  <2>1. [r EXCEPT !.users[c.user] = "pending"] \in RegistryType
    BY SetUserType DEF Claim, UserStatus
  <2> QED
    BY <1>1, <2>1, NewMachineType, AppendType DEF RegisterJoin
<1>2. CASE r.users[c.user] # "absent" /\ SlotsOfKey(r, c.key) = {}
  BY <1>2, NewMachineType, AppendType DEF RegisterJoin
<1>3. CASE r.users[c.user] # "absent" /\ SlotsOfKey(r, c.key) # {}
  <2> DEFINE i == ClaimedSlot(r, c)
             m == Reclaimed(r.machines[i], c)
  <2>1. i \in Slot /\ r.machines[i] \in Machine
    BY <1>3, ClaimedSlotHasKey, LookupsAreUsed
  <2>2. m \in Machine
    BY <2>1 DEF Machine, Claim, Reclaimed
  <2>3. RegisterJoin(r, c) = [r EXCEPT !.machines[i] = m]
    BY <1>3 DEF RegisterJoin
  <2> HIDE DEF m, i
  <2> QED
    BY <2>1, <2>2, <2>3 DEF RegistryType
<1> QED
  BY <1>1, <1>2, <1>3

LEMMA EnsureAdminType ==
  ASSUME NEW r \in RegistryType
  PROVE  EnsureAdmin(r) \in RegistryType
BY AdminIsUser, SetUserType DEF EnsureAdmin, UserStatus

LEMMA EmptyRegistryType == EmptyRegistry \in RegistryType
BY DEF EmptyRegistry, RegistryType, UserStatus

-----------------------------------------------------------------------------
(* Addresses.                                                              *)

\* What AllocateIP returns is an address of the subnet that nobody holds.
LEMMA AllocatedIsFree ==
  ASSUME NEW r \in RegistryType, NEW s \in Subnet, NEW desired \in Nat,
         CanAllocate(r, s, desired)
  PROVE  /\ AllocateIP(r, s, desired) \in Address
         /\ \A i \in Used(r) : r.machines[i].ip # AllocateIP(r, s, desired)
<1> DEFINE h == IF desired # 0 THEN desired ELSE Min(FreeHosts(r, s))
<1>1. FreeHosts(r, s) \subseteq Nat
  BY HostsAreNumbers DEF FreeHosts
<1>2. h \in FreeHosts(r, s)
  BY <1>1, MinIsLeast DEF CanAllocate
<1>3. h \in Host /\ <<s, h>> \notin UsedAddresses(r)
  BY <1>2 DEF FreeHosts
<1>4. AllocateIP(r, s, desired) = <<s, h>>
  BY DEF AllocateIP
<1> QED
  BY <1>3, <1>4 DEF Address, UsedAddresses

LEMMA SetMachineIPType ==
  ASSUME NEW r \in RegistryType, NEW u \in User, NEW n \in Name \cup {NoName},
         NEW a \in Address, HasMachine(r, u, n)
  PROVE  SetMachineIP(r, u, n, a) \in RegistryType
<1> DEFINE i == SlotNamed(r, u, n)
           m == [r.machines[i] EXCEPT !.ip = a]
<1>1. i \in Slot /\ r.machines[i] \in Machine
  BY SlotNamedIsNamed, LookupsAreUsed, UsedHoldsMachine
<1>2. m \in Machine
  BY <1>1 DEF Machine
<1>3. SetMachineIP(r, u, n, a) = [r EXCEPT !.machines[i] = m]
  BY DEF SetMachineIP
<1> HIDE DEF i, m
<1> QED
  BY <1>1, <1>2, <1>3 DEF RegistryType

-----------------------------------------------------------------------------
(* What the operations do to owners and addresses.                         *)

\* The machines of q are among those in the slots from of r, each of them
\* once, with the owners and addresses they have there.
InheritsFrom(r, from, q) ==
  \E f \in [Used(q) -> from] :
    /\ \A i, j \in Used(q) : f[i] = f[j] => i = j
    /\ \A i \in Used(q) : /\ q.machines[i].user = r.machines[f[i]].user
                          /\ q.machines[i].ip = r.machines[f[i]].ip

Inherits(r, q) == InheritsFrom(r, Used(r), q)

\* The same slots with the same owners and addresses.
LEMMA SameSlotsInherit ==
  ASSUME NEW r, NEW q, Used(q) = Used(r),
         \A i \in Used(r) : /\ q.machines[i].user = r.machines[i].user
                            /\ q.machines[i].ip = r.machines[i].ip
  PROVE  Inherits(r, q)
<1> DEFINE f == [i \in Used(q) |-> i]
<1>1. f \in [Used(q) -> Used(r)]
  OBVIOUS
<1>2. \A i \in Used(q) : f[i] = i
  OBVIOUS
<1> HIDE DEF f
<1> QED
  BY <1>1, <1>2 DEF Inherits, InheritsFrom

LEMMA InheritsComposes ==
  ASSUME NEW r, NEW p, NEW q, NEW from, Inherits(r, p), InheritsFrom(p, from, q),
         from \subseteq Used(p)
  PROVE  Inherits(r, q)
<1>1. PICK f \in [Used(p) -> Used(r)] :
        /\ \A i, j \in Used(p) : f[i] = f[j] => i = j
        /\ \A i \in Used(p) : /\ p.machines[i].user = r.machines[f[i]].user
                              /\ p.machines[i].ip = r.machines[f[i]].ip
  BY DEF Inherits, InheritsFrom
<1>2. PICK g \in [Used(q) -> from] :
        /\ \A i, j \in Used(q) : g[i] = g[j] => i = j
        /\ \A i \in Used(q) : /\ q.machines[i].user = p.machines[g[i]].user
                              /\ q.machines[i].ip = p.machines[g[i]].ip
  BY DEF InheritsFrom
<1> DEFINE h == [i \in Used(q) |-> f[g[i]]]
<1>3. \A i \in Used(q) : g[i] \in Used(p) /\ h[i] = f[g[i]]
  OBVIOUS
<1>4. h \in [Used(q) -> Used(r)]
  BY <1>3
<1>5. \A i, j \in Used(q) : h[i] = h[j] => i = j
  BY <1>1, <1>2, <1>3
<1>6. \A i \in Used(q) : /\ q.machines[i].user = r.machines[h[i]].user
                         /\ q.machines[i].ip = r.machines[h[i]].ip
  BY <1>1, <1>2, <1>3
<1> HIDE DEF h
<1> QED
  BY <1>4, <1>5, <1>6 DEF Inherits, InheritsFrom

\* What is inherited stays unique.
LEMMA InheritedIPsAreUnique ==
  ASSUME NEW r, NEW q, Inherits(r, q), UniqueIP(r)
  PROVE  UniqueIP(q)
<1>1. PICK f \in [Used(q) -> Used(r)] :
        /\ \A i, j \in Used(q) : f[i] = f[j] => i = j
        /\ \A i \in Used(q) : q.machines[i].ip = r.machines[f[i]].ip
  BY DEF Inherits, InheritsFrom
<1>2. ASSUME NEW i \in Used(q), NEW j \in Used(q),
             q.machines[i].ip # NoAddress, q.machines[i].ip = q.machines[j].ip
      PROVE  i = j
  <2>1. f[i] \in Used(r) /\ f[j] \in Used(r)
    OBVIOUS
  <2>2. r.machines[f[i]].ip # NoAddress /\ r.machines[f[i]].ip = r.machines[f[j]].ip
    BY <1>1, <1>2
  <2>3. f[i] = f[j]
    BY <2>1, <2>2 DEF UniqueIP
  <2> QED
    BY <1>1, <2>3
<1> QED
  BY <1>2 DEF UniqueIP

LEMMA SetStatusInherits ==
  ASSUME NEW r \in RegistryType, NEW slots \in SUBSET Used(r), NEW s \in MachineStatus
  PROVE  /\ Inherits(r, SetStatus(r, slots, s))
         /\ SetStatus(r, slots, s).users = r.users
<1> DEFINE q == SetStatus(r, slots, s)
<1>1. /\ q.users = r.users
      /\ \A i \in Slot : q.machines[i] = IF i \in slots
                                         THEN [r.machines[i] EXCEPT !.status = s]
                                         ELSE r.machines[i]
  BY DEF SetStatus, RegistryType
<1>2. \A i \in slots : i \in Slot /\ r.machines[i] \in Machine
  BY UsedHoldsMachine
<1>3. \A i \in slots : /\ q.machines[i] \in Machine
                       /\ q.machines[i].user = r.machines[i].user
                       /\ q.machines[i].ip = r.machines[i].ip
  BY <1>1, <1>2 DEF Machine
<1>4. NoMachine \notin Machine
  BY NonesAreOutside DEF Machine, MachineStatus, Address
<1>5. Used(q) = Used(r)
  <2>1. ASSUME NEW i \in Slot PROVE q.machines[i] # NoMachine <=> r.machines[i] # NoMachine
    BY <1>1, <1>2, <1>3, <1>4
  <2> QED BY <2>1 DEF Used
<1>6. \A i \in Used(r) : /\ q.machines[i].user = r.machines[i].user
                         /\ q.machines[i].ip = r.machines[i].ip
  BY <1>1, <1>3, LookupsAreUsed
<1> HIDE DEF q
<1>7. Inherits(r, q)
  BY <1>5, <1>6, SameSlotsInherit
<1> QED
  BY <1>1, <1>7 DEF q

LEMMA RemoveSlotsInherits ==
  ASSUME NEW r \in RegistryType, NEW gone
  PROVE  /\ InheritsFrom(r, Used(r) \ gone, RemoveSlots(r, gone))
         /\ RemoveSlots(r, gone).users = r.users
<1> DEFINE kept == Used(r) \ gone
           Rank(i) == Cardinality({h \in kept : h <= i})
           From(j) == {i \in kept : Rank(i) = j}
           f == [j \in Slot |-> CHOOSE i \in From(j) : TRUE]
           q == RemoveSlots(r, gone)
<1>1. /\ q.users = r.users
      /\ \A j \in Slot : q.machines[j] = IF From(j) = {} THEN NoMachine
                                         ELSE r.machines[CHOOSE i \in From(j) : TRUE]
  BY DEF RemoveSlots, RegistryType
<1>2. \A j \in Used(q) : j \in Slot /\ From(j) # {}
  BY <1>1 DEF Used
<1>3. \A j \in Used(q) : f[j] \in From(j)
  BY <1>2
<1> HIDE DEF q, f
<1>4. \A j \in Used(q) : f[j] \in kept /\ Rank(f[j]) = j
  BY <1>3
<1>5. \A j \in Used(q) : q.machines[j] = r.machines[f[j]]
  BY <1>1, <1>2 DEF f
<1> DEFINE g == [j \in Used(q) |-> f[j]]
<1>6. g \in [Used(q) -> kept] /\ \A j \in Used(q) : g[j] = f[j]
  BY <1>4
<1>7. \A i, j \in Used(q) : g[i] = g[j] => i = j
  BY <1>4, <1>6
<1> HIDE DEF g
<1>8. InheritsFrom(r, kept, q)
  BY <1>5, <1>6, <1>7 DEF InheritsFrom
<1> QED
  BY <1>1, <1>8 DEF q

LEMMA SetUserInherits ==
  ASSUME NEW r \in RegistryType, NEW u \in User, NEW s \in UserStatus
  PROVE  Inherits(r, [r EXCEPT !.users[u] = s])
<1> DEFINE q == [r EXCEPT !.users[u] = s]
<1>1. Used(q) = Used(r) /\ q.machines = r.machines
  BY SetUserLookups
<1> HIDE DEF q
<1> QED
  BY <1>1, SameSlotsInherit DEF q

LEMMA GrantsInherit ==
  ASSUME NEW r \in RegistryType, NEW u, NEW n, NEW target
  PROVE  /\ Inherits(r, AddGrant(r, u, n, target))
         /\ AddGrant(r, u, n, target).users = r.users
         /\ Inherits(r, Revoke(r, u, n, target))
         /\ Revoke(r, u, n, target).users = r.users
<1>1. ASSUME NEW q, q.machines = r.machines PROVE Inherits(r, q)
  <2>1. Used(q) = Used(r)
    BY <1>1 DEF Used
  <2> QED
    BY <1>1, <2>1, SameSlotsInherit
<1> DEFINE add == AddGrant(r, u, n, target)
           revoke == Revoke(r, u, n, target)
<1>2. add.machines = r.machines /\ add.users = r.users
  BY DEF AddGrant, RegistryType
<1>3. revoke.machines = r.machines /\ revoke.users = r.users
  BY DEF Revoke, RegistryType
<1> HIDE DEF add, revoke
<1> QED
  BY <1>1, <1>2, <1>3 DEF add, revoke

\* A status change of machines after one of a user.
LEMMA UserThenStatusInherits ==
  ASSUME NEW r \in RegistryType, NEW u \in User, NEW s \in UserStatus,
         NEW slots \in SUBSET Used(r), NEW z \in MachineStatus
  PROVE  LET q == SetStatus([r EXCEPT !.users[u] = s], slots, z)
         IN  Inherits(r, q) /\ q.users = [r.users EXCEPT ![u] = s]
<1> DEFINE p == [r EXCEPT !.users[u] = s]
           q == SetStatus(p, slots, z)
<1>1. /\ p \in RegistryType
      /\ Inherits(r, p)
      /\ p.users = [r.users EXCEPT ![u] = s]
      /\ slots \in SUBSET Used(p)
  BY SetUserType, SetUserInherits, SetUserLookups
<1> HIDE DEF p
<1>2. Inherits(p, q) /\ q.users = p.users
  BY <1>1, SetStatusInherits
<1> HIDE DEF q
<1>3. Inherits(r, q)
  BY <1>1, <1>2, InheritsComposes DEF Inherits
<1> QED
  BY <1>1, <1>2, <1>3 DEF q, p

\* What an approval, a block and an unblock do: owners and addresses stay, and
\* no user goes away.
LEMMA AllowInherits ==
  ASSUME NEW r \in RegistryType, NEW u \in User, NEW n \in Name \cup {NoName},
         CanAllow(r, u, n)
  PROVE  LET q == Allow(r, u, n)
         IN  /\ Inherits(r, q)
             /\ \A v \in User : q.users[v] = "absent" => r.users[v] = "absent"
<1>1. CASE n = NoName
  <2>1. Allow(r, u, n) = [r EXCEPT !.users[u] = "active"]
    BY <1>1 DEF Allow
  <2>2. "active" \in UserStatus
    BY DEF UserStatus
  <2>3. [r EXCEPT !.users[u] = "active"].users = [r.users EXCEPT ![u] = "active"]
    BY <2>2, SetUserLookups
  <2>4. r.users \in [User -> UserStatus]
    BY DEF RegistryType
  <2> QED
    BY <2>1, <2>2, <2>3, <2>4, SetUserInherits
<1>2. CASE n # NoName
  <2>1. {SlotNamed(r, u, n)} \in SUBSET Used(r) /\ "active" \in MachineStatus
    BY <1>2, SlotNamedIsNamed DEF CanAllow, MachineStatus
  <2> QED
    BY <1>2, <2>1, SetStatusInherits DEF Allow
<1> QED
  BY <1>1, <1>2

LEMMA BlockInherits ==
  ASSUME NEW r \in RegistryType, NEW u \in User, NEW n \in Name \cup {NoName},
         Exists(r, u, n)
  PROVE  LET q == Block(r, u, n)
         IN  /\ Inherits(r, q)
             /\ \A v \in User : q.users[v] = "absent" => r.users[v] = "absent"
<1>1. CASE n = NoName
  <2>1. "blocked" \in UserStatus /\ "blocked" \in MachineStatus
    BY DEF UserStatus, MachineStatus
  <2>2. SlotsOfUser(r, u) \in SUBSET Used(r)
    BY LookupsAreUsed
  <2>3. Block(r, u, n) = SetStatus([r EXCEPT !.users[u] = "blocked"], SlotsOfUser(r, u), "blocked")
    BY <1>1 DEF Block
  <2>4. r.users \in [User -> UserStatus]
    BY DEF RegistryType
  <2> QED
    BY <2>1, <2>2, <2>3, <2>4, UserThenStatusInherits
<1>2. CASE n # NoName
  <2>1. {SlotNamed(r, u, n)} \in SUBSET Used(r) /\ "blocked" \in MachineStatus
    BY <1>2, SlotNamedIsNamed DEF Exists, MachineStatus
  <2> QED
    BY <1>2, <2>1, SetStatusInherits DEF Block
<1> QED
  BY <1>1, <1>2

LEMMA UnblockInherits ==
  ASSUME NEW r \in RegistryType, NEW u \in User, NEW n \in Name \cup {NoName},
         Exists(r, u, n)
  PROVE  LET q == Unblock(r, u, n)
         IN  /\ Inherits(r, q)
             /\ \A v \in User : q.users[v] = "absent" => r.users[v] = "absent"
<1>1. CASE n = NoName
  <2> DEFINE s == IF r.users[u] = "blocked" THEN "active" ELSE r.users[u]
             slots == BlockedSlots(r, SlotsOfUser(r, u))
  <2>1. s \in UserStatus /\ "active" \in MachineStatus /\ s # "absent"
    BY <1>1 DEF UserStatus, MachineStatus, RegistryType, Exists
  <2>2. slots \in SUBSET Used(r)
    BY LookupsAreUsed DEF BlockedSlots
  <2>3. Unblock(r, u, n) = SetStatus([r EXCEPT !.users[u] = s], slots, "active")
    BY <1>1 DEF Unblock
  <2>4. r.users \in [User -> UserStatus]
    BY DEF RegistryType
  <2> HIDE DEF s, slots
  <2> QED
    BY <2>1, <2>2, <2>3, <2>4, UserThenStatusInherits
<1>2. CASE n # NoName
  <2>1. BlockedSlots(r, {SlotNamed(r, u, n)}) \in SUBSET Used(r) /\ "active" \in MachineStatus
    BY <1>2, SlotNamedIsNamed DEF Exists, MachineStatus, BlockedSlots
  <2> QED
    BY <1>2, <2>1, SetStatusInherits DEF Unblock
<1> QED
  BY <1>1, <1>2

LEMMA EnsureAdminInherits ==
  ASSUME NEW r \in RegistryType
  PROVE  LET q == EnsureAdmin(r)
         IN  /\ Inherits(r, q)
             /\ \A v \in User : q.users[v] = "absent" => r.users[v] = "absent"
<1>1. "active" \in UserStatus /\ EnsureAdmin(r) = [r EXCEPT !.users[Admin] = "active"]
  BY DEF UserStatus, EnsureAdmin
<1>2. [r EXCEPT !.users[Admin] = "active"].users = [r.users EXCEPT ![Admin] = "active"]
  BY <1>1, AdminIsUser, SetUserLookups
<1>3. r.users \in [User -> UserStatus]
  BY DEF RegistryType
<1> QED
  BY <1>1, <1>2, <1>3, AdminIsUser, SetUserInherits

\* A denial removes machines, and all of them when it removes the user.
LEMMA DenyInherits ==
  ASSUME NEW r \in RegistryType, NEW u \in User, NEW n \in Name \cup {NoName}
  PROVE  LET q == Deny(r, u, n)
             from == Used(r) \ (IF n = NoName THEN SlotsOfUser(r, u) ELSE {})
         IN  /\ InheritsFrom(r, from, q)
             /\ \A v \in User : q.users[v] = "absent" =>
                  r.users[v] = "absent" \/ (n = NoName /\ v = u)
<1>1. CASE n = NoName
  <2> DEFINE p == [r EXCEPT !.users[u] = "absent"]
             gone == SlotsOfUser(r, u)
             q == RemoveSlots(p, gone)
  <2>1. /\ p \in RegistryType
        /\ Used(p) = Used(r) /\ p.machines = r.machines
        /\ p.users = [r.users EXCEPT ![u] = "absent"]
    BY SetUserType, SetUserLookups DEF UserStatus
  <2>2. r.users \in [User -> UserStatus]
    BY DEF RegistryType
  <2> HIDE DEF p, gone
  <2>3. InheritsFrom(p, Used(p) \ gone, q) /\ q.users = p.users
    BY <2>1, RemoveSlotsInherits
  <2>4. Deny(r, u, n) = q
    BY <1>1 DEF Deny, p, gone
  <2> HIDE DEF q
  <2>5. InheritsFrom(r, Used(r) \ gone, q)
    BY <2>1, <2>3 DEF InheritsFrom
  <2> QED
    BY <1>1, <2>1, <2>2, <2>3, <2>4, <2>5 DEF gone
<1>2. CASE n # NoName
  <2> DEFINE gone == SlotsNamed(r, u, n)
             q == RemoveSlots(r, gone)
  <2>1. InheritsFrom(r, Used(r) \ gone, q) /\ q.users = r.users
    BY RemoveSlotsInherits
  <2>2. Deny(r, u, n) = q
    BY <1>2 DEF Deny
  <2> HIDE DEF gone, q
  <2>3. InheritsFrom(r, Used(r) \ {}, q)
    BY <2>1 DEF InheritsFrom
  <2> QED
    BY <1>2, <2>1, <2>2, <2>3
<1> QED
  BY <1>1, <1>2

\* Inheriting from some of the slots is inheriting.
LEMMA InheritsWeakens ==
  ASSUME NEW r, NEW q, NEW gone, InheritsFrom(r, Used(r) \ gone, q)
  PROVE  Inherits(r, q)
<1>1. PICK f \in [Used(q) -> Used(r) \ gone] :
        /\ \A i, j \in Used(q) : f[i] = f[j] => i = j
        /\ \A i \in Used(q) : /\ q.machines[i].user = r.machines[f[i]].user
                              /\ q.machines[i].ip = r.machines[f[i]].ip
  BY DEF InheritsFrom
<1>2. f \in [Used(q) -> Used(r)]
  OBVIOUS
<1> QED
  BY <1>1, <1>2 DEF Inherits, InheritsFrom

\* The machine an append writes is new and has no address yet.
LEMMA AppendEntries ==
  ASSUME NEW r \in RegistryType, NEW m \in Machine
  PROVE  LET q == AppendMachine(r, m)
         IN  /\ q.users = r.users
             /\ \A i \in Used(q) : \/ q.machines[i] = m /\ i = Min(Slot \ Used(r))
                                   \/ i \in Used(r) /\ q.machines[i] = r.machines[i]
BY DEF AppendMachine, RegistryType, Used

\* A known key's entry keeps its owner and its address.
LEMMA ReclaimInherits ==
  ASSUME NEW r \in RegistryType, NEW c \in Claim, ~ JoinAppends(r, c)
  PROVE  /\ Inherits(r, RegisterJoin(r, c))
         /\ RegisterJoin(r, c).users = r.users
<1> DEFINE k == ClaimedSlot(r, c)
           m == Reclaimed(r.machines[k], c)
           q == [r EXCEPT !.machines[k] = m]
<1>1. k \in Used(r) /\ k \in Slot /\ r.machines[k] \in Machine
  BY ClaimedSlotHasKey, LookupsAreUsed DEF JoinAppends
<1>2. m \in Machine /\ m.user = r.machines[k].user /\ m.ip = r.machines[k].ip
  BY <1>1 DEF Machine, Claim, Reclaimed
<1>3. NoMachine \notin Machine
  BY NonesAreOutside DEF Machine, MachineStatus, Address
<1>4. RegisterJoin(r, c) = q
  BY DEF RegisterJoin, JoinAppends
<1> HIDE DEF k, m
<1>5. q.users = r.users /\ q.machines = [r.machines EXCEPT ![k] = m]
  BY DEF RegistryType
<1>6. r.machines \in [Slot -> Machine \cup {NoMachine}]
  BY DEF RegistryType
<1> HIDE DEF q
<1>7. Used(q) = Used(r)
  BY <1>1, <1>2, <1>3, <1>5, <1>6 DEF Used
<1>8. \A i \in Used(r) : /\ q.machines[i].user = r.machines[i].user
                         /\ q.machines[i].ip = r.machines[i].ip
  BY <1>1, <1>2, <1>5, <1>6, LookupsAreUsed
<1>9. Inherits(r, q)
  BY <1>7, <1>8, SameSlotsInherit
<1> QED
  BY <1>4, <1>5, <1>9

-----------------------------------------------------------------------------
(* No operation leaves a machine without its user.                         *)

LEMMA InheritedHaveOwners ==
  ASSUME NEW r, NEW q, NEW gone,
         r \in RegistryType, NoOrphans(r), InheritsFrom(r, Used(r) \ gone, q),
         \A v \in User : q.users[v] = "absent" =>
           r.users[v] = "absent" \/ SlotsOfUser(r, v) \subseteq gone
  PROVE  NoOrphans(q)
<1>1. PICK f \in [Used(q) -> Used(r) \ gone] :
        \A i \in Used(q) : q.machines[i].user = r.machines[f[i]].user
  BY DEF InheritsFrom
<1>2. ASSUME NEW i \in Used(q) PROVE q.users[q.machines[i].user] # "absent"
  <2> DEFINE v == r.machines[f[i]].user
  <2>1. f[i] \in Used(r) /\ f[i] \notin gone
    OBVIOUS
  <2>2. v \in User /\ r.users[v] # "absent" /\ f[i] \in SlotsOfUser(r, v)
    BY <2>1, UsedHoldsMachine DEF Machine, NoOrphans, SlotsOfUser
  <2> QED
    BY <1>1, <2>1, <2>2
<1> QED
  BY <1>2 DEF NoOrphans

LEMMA NoOneLeft ==
  ASSUME NEW r \in RegistryType, NEW q, NoOrphans(r), Inherits(r, q),
         \A v \in User : q.users[v] = "absent" => r.users[v] = "absent"
  PROVE  NoOrphans(q)
<1>1. InheritsFrom(r, Used(r) \ {}, q)
  BY DEF Inherits, InheritsFrom
<1> QED
  BY <1>1, InheritedHaveOwners

LEMMA DenyOwners ==
  ASSUME NEW r \in RegistryType, NEW u \in User, NEW n \in Name \cup {NoName},
         NoOrphans(r)
  PROVE  NoOrphans(Deny(r, u, n))
<1> DEFINE gone == IF n = NoName THEN SlotsOfUser(r, u) ELSE {}
           q == Deny(r, u, n)
<1>1. /\ InheritsFrom(r, Used(r) \ gone, q)
      /\ \A v \in User : q.users[v] = "absent" =>
           r.users[v] = "absent" \/ (n = NoName /\ v = u)
  BY DenyInherits
<1>2. \A v \in User : q.users[v] = "absent" =>
        r.users[v] = "absent" \/ SlotsOfUser(r, v) \subseteq gone
  BY <1>1
<1> HIDE DEF gone, q
<1> QED
  BY <1>1, <1>2, InheritedHaveOwners DEF q

LEMMA RegisterJoinOwners ==
  ASSUME NEW r \in RegistryType, NEW c \in Claim, NoOrphans(r)
  PROVE  NoOrphans(RegisterJoin(r, c))
<1>1. CASE ~ JoinAppends(r, c)
  BY <1>1, ReclaimInherits, NoOneLeft
<1>2. CASE JoinAppends(r, c)
  <2> DEFINE p == IF r.users[c.user] = "absent"
                  THEN [r EXCEPT !.users[c.user] = "pending"] ELSE r
             q == AppendMachine(p, NewMachine(c))
  <2>1. c.user \in User /\ "pending" \in UserStatus /\ r.users \in [User -> UserStatus]
    BY DEF Claim, UserStatus, RegistryType
  <2>2. /\ p \in RegistryType /\ p.machines = r.machines /\ Used(p) = Used(r)
        /\ p.users[c.user] # "absent"
        /\ \A v \in User : p.users[v] = "absent" => r.users[v] = "absent"
    <3>1. CASE r.users[c.user] = "absent"
      <4> DEFINE known == [r EXCEPT !.users[c.user] = "pending"]
      <4>1. /\ known \in RegistryType /\ known.machines = r.machines
            /\ Used(known) = Used(r)
            /\ known.users = [r.users EXCEPT ![c.user] = "pending"]
        BY <2>1, SetUserType, SetUserLookups
      <4>2. p = known
        BY <3>1
      <4> HIDE DEF known, p
      <4> QED BY <2>1, <4>1, <4>2
    <3>2. CASE r.users[c.user] # "absent"
      BY <3>2
    <3> QED BY <3>1, <3>2
  <2>3. NewMachine(c) \in Machine /\ NewMachine(c).user = c.user
    BY NewMachineType DEF NewMachine
  <2>4. RegisterJoin(r, c) = q
    BY <1>2 DEF RegisterJoin, JoinAppends
  <2> HIDE DEF p
  <2>5. /\ q.users = p.users
        /\ \A i \in Used(q) : q.machines[i] = NewMachine(c) \/
             (i \in Used(r) /\ q.machines[i] = r.machines[i])
    BY <2>2, <2>3, AppendEntries
  <2> HIDE DEF q
  <2>6. \A i \in Used(r) : r.machines[i].user \in User /\ r.users[r.machines[i].user] # "absent"
    BY UsedHoldsMachine DEF Machine, NoOrphans
  <2> QED
    BY <2>2, <2>3, <2>4, <2>5, <2>6 DEF NoOrphans
<1> QED
  BY <1>1, <1>2

\* SetMachineIP changes one address and nothing else that matters here.
LEMMA SetMachineIPEffect ==
  ASSUME NEW r \in RegistryType, NEW u \in User, NEW n \in Name \cup {NoName},
         NEW a \in Address, HasMachine(r, u, n)
  PROVE  LET q == SetMachineIP(r, u, n, a)
             k == SlotNamed(r, u, n)
         IN  /\ q.users = r.users
             /\ Used(q) = Used(r)
             /\ k \in Used(r)
             /\ \A i \in Used(r) :
                  /\ q.machines[i].user = r.machines[i].user
                  /\ q.machines[i].ip = IF i = k THEN a ELSE r.machines[i].ip
<1> DEFINE k == SlotNamed(r, u, n)
           m == [r.machines[k] EXCEPT !.ip = a]
           q == SetMachineIP(r, u, n, a)
<1>1. k \in Used(r) /\ k \in Slot /\ r.machines[k] \in Machine
  BY SlotNamedIsNamed, LookupsAreUsed, UsedHoldsMachine
<1>2. m \in Machine /\ m.user = r.machines[k].user /\ m.ip = a
  BY <1>1 DEF Machine
<1>3. NoMachine \notin Machine
  BY NonesAreOutside DEF Machine, MachineStatus, Address
<1>4. q.users = r.users /\ q.machines = [r.machines EXCEPT ![k] = m]
  BY DEF SetMachineIP, RegistryType
<1>5. r.machines \in [Slot -> Machine \cup {NoMachine}]
  BY DEF RegistryType
<1> HIDE DEF k, m, q
<1>6. Used(q) = Used(r)
  BY <1>1, <1>2, <1>3, <1>4, <1>5 DEF Used
<1>7. \A i \in Used(r) : /\ q.machines[i].user = r.machines[i].user
                         /\ q.machines[i].ip = IF i = k THEN a ELSE r.machines[i].ip
  BY <1>1, <1>2, <1>4, <1>5, LookupsAreUsed
<1> QED
  BY <1>1, <1>4, <1>6, <1>7 DEF k, q

LEMMA SetMachineIPOwners ==
  ASSUME NEW r \in RegistryType, NEW u \in User, NEW n \in Name \cup {NoName},
         NEW a \in Address, HasMachine(r, u, n), NoOrphans(r)
  PROVE  NoOrphans(SetMachineIP(r, u, n, a))
<1> DEFINE q == SetMachineIP(r, u, n, a)
<1>1. /\ q.users = r.users /\ Used(q) = Used(r)
      /\ \A i \in Used(r) : q.machines[i].user = r.machines[i].user
  BY SetMachineIPEffect
<1> HIDE DEF q
<1>2. NoOrphans(q)
  BY <1>1 DEF NoOrphans
<1> QED
  BY <1>2 DEF q

-----------------------------------------------------------------------------
(* Which operations keep addresses unique.                                 *)

\* Nobody holds address a.
Unheld(r, a) == \A i \in Used(r) : r.machines[i].ip # a

\* An address that nobody holds may be written to a machine.
LEMMA SetMachineIPUnique ==
  ASSUME NEW r \in RegistryType, NEW u \in User, NEW n \in Name \cup {NoName},
         NEW a \in Address, HasMachine(r, u, n), UniqueIP(r), Unheld(r, a)
  PROVE  UniqueIP(SetMachineIP(r, u, n, a))
<1> DEFINE q == SetMachineIP(r, u, n, a)
           k == SlotNamed(r, u, n)
<1>1. /\ Used(q) = Used(r)
      /\ \A i \in Used(r) : q.machines[i].ip = IF i = k THEN a ELSE r.machines[i].ip
  BY SetMachineIPEffect
<1> HIDE DEF q, k
<1>2. ASSUME NEW i \in Used(q), NEW j \in Used(q),
             q.machines[i].ip # NoAddress, q.machines[i].ip = q.machines[j].ip
      PROVE  i = j
  BY <1>1, <1>2 DEF UniqueIP, Unheld
<1>3. UniqueIP(q)
  BY <1>2 DEF UniqueIP
<1> QED
  BY <1>3 DEF q

LEMMA RegisterJoinUnique ==
  ASSUME NEW r \in RegistryType, NEW c \in Claim, UniqueIP(r)
  PROVE  UniqueIP(RegisterJoin(r, c))
<1>1. CASE ~ JoinAppends(r, c)
  BY <1>1, ReclaimInherits, InheritedIPsAreUnique
<1>2. CASE JoinAppends(r, c)
  <2> DEFINE known == [r EXCEPT !.users[c.user] = "pending"]
             p == IF r.users[c.user] = "absent" THEN known ELSE r
             q == AppendMachine(p, NewMachine(c))
  <2>1. known \in RegistryType /\ known.machines = r.machines /\ Used(known) = Used(r)
    BY SetUserType, SetUserLookups DEF Claim, UserStatus
  <2> HIDE DEF known
  <2>2. p \in RegistryType /\ p.machines = r.machines /\ Used(p) = Used(r)
    BY <2>1
  <2>3. NewMachine(c) \in Machine /\ NewMachine(c).ip = NoAddress
    BY NewMachineType DEF NewMachine
  <2>4. RegisterJoin(r, c) = q
    BY <1>2 DEF RegisterJoin, JoinAppends, known
  <2> HIDE DEF p
  <2>5. \A i \in Used(q) : q.machines[i] = NewMachine(c) \/
             (i \in Used(r) /\ q.machines[i] = r.machines[i])
    BY <2>2, <2>3, AppendEntries
  <2> HIDE DEF q
  <2>6. ASSUME NEW i \in Used(q), NEW j \in Used(q),
               q.machines[i].ip # NoAddress, q.machines[i].ip = q.machines[j].ip
        PROVE  i = j
    BY <2>3, <2>5, <2>6 DEF UniqueIP
  <2> QED
    BY <2>4, <2>6 DEF UniqueIP
<1> QED
  BY <1>1, <1>2

\* A join gives no address.
LEMMA RegisterJoinAddresses ==
  ASSUME NEW r \in RegistryType, NEW c \in Claim, NEW i \in Used(RegisterJoin(r, c))
  PROVE  LET ip == RegisterJoin(r, c).machines[i].ip
         IN  ip = NoAddress \/ \E j \in Used(r) : ip = r.machines[j].ip
<1> DEFINE q == RegisterJoin(r, c)
<1>1. CASE ~ JoinAppends(r, c)
  <2>1. Inherits(r, q)
    BY <1>1, ReclaimInherits
  <2>2. PICK f \in [Used(q) -> Used(r)] :
          \A j \in Used(q) : q.machines[j].ip = r.machines[f[j]].ip
    BY <2>1 DEF Inherits, InheritsFrom
  <2> QED BY <2>2
<1>2. CASE JoinAppends(r, c)
  <2> DEFINE p == IF r.users[c.user] = "absent"
                  THEN [r EXCEPT !.users[c.user] = "pending"] ELSE r
  <2>1. p \in RegistryType /\ p.machines = r.machines /\ Used(p) = Used(r)
    BY SetUserType, SetUserLookups DEF Claim, UserStatus
  <2>2. NewMachine(c) \in Machine /\ NewMachine(c).ip = NoAddress
    BY NewMachineType DEF NewMachine
  <2>3. q = AppendMachine(p, NewMachine(c))
    BY <1>2 DEF RegisterJoin, JoinAppends
  <2> HIDE DEF p, q
  <2>4. q.machines[i] = NewMachine(c) \/ (i \in Used(r) /\ q.machines[i] = r.machines[i])
    BY <2>1, <2>2, <2>3, AppendEntries DEF q
  <2> QED BY <2>2, <2>4 DEF q
<1> QED
  BY <1>1, <1>2

-----------------------------------------------------------------------------
(* What the operations do to the entries, field by field.                  *)

\* The entries m and w are of one machine and differ at most in the status.
SameMachine(m, w) ==
  /\ w.user = m.user
  /\ w.name = m.name
  /\ w.key = m.key
  /\ w.desired = m.desired
  /\ w.ip = m.ip

\* q has the slots of r, and statuses aside its entries are those of r.
Restatused(r, q) ==
  /\ Used(q) = Used(r)
  /\ \A i \in Used(r) : SameMachine(r.machines[i], q.machines[i])

LEMMA SetStatusEffect ==
  ASSUME NEW r \in RegistryType, NEW slots \in SUBSET Used(r), NEW s \in MachineStatus
  PROVE  LET q == SetStatus(r, slots, s)
         IN  /\ q.users = r.users
             /\ q.grants = r.grants
             /\ Restatused(r, q)
             /\ \A i \in Used(r) : q.machines[i].status = IF i \in slots THEN s
                                                          ELSE r.machines[i].status
<1> DEFINE q == SetStatus(r, slots, s)
<1>1. /\ q.users = r.users
      /\ q.grants = r.grants
      /\ \A i \in Slot : q.machines[i] = IF i \in slots
                                         THEN [r.machines[i] EXCEPT !.status = s]
                                         ELSE r.machines[i]
  BY DEF SetStatus, RegistryType
<1>2. Used(r) \subseteq Slot /\ \A i \in Used(r) : r.machines[i] \in Machine
  BY UsedHoldsMachine, LookupsAreUsed
<1> HIDE DEF q
<1>3. \A i \in Used(r) :
        /\ q.machines[i] \in Machine
        /\ SameMachine(r.machines[i], q.machines[i])
        /\ q.machines[i].status = IF i \in slots THEN s ELSE r.machines[i].status
  BY <1>1, <1>2 DEF Machine, SameMachine
<1>4. NoMachine \notin Machine
  BY NonesAreOutside DEF Machine, MachineStatus, Address
<1>5. Used(q) = Used(r)
  <2>1. ASSUME NEW i \in Slot PROVE i \in Used(q) <=> i \in Used(r)
    BY <1>1, <1>3, <1>4 DEF Used
  <2> QED BY <2>1 DEF Used
<1> QED
  BY <1>1, <1>3, <1>5 DEF Restatused, q

\* The machines a command about (u, n) is about: the user's, or the named one.
Addressed(r, u, n) == IF n = NoName THEN SlotsOfUser(r, u) ELSE {SlotNamed(r, u, n)}

LEMMA AllowEffect ==
  ASSUME NEW r \in RegistryType, NEW u \in User, NEW n \in Name \cup {NoName},
         CanAllow(r, u, n)
  PROVE  LET q == Allow(r, u, n)
         IN  /\ q.users = IF n = NoName THEN [r.users EXCEPT ![u] = "active"] ELSE r.users
             /\ q.grants = r.grants
             /\ Restatused(r, q)
             /\ \A i \in Used(r) :
                  q.machines[i].status = IF n # NoName /\ i = SlotNamed(r, u, n)
                                         THEN "active" ELSE r.machines[i].status
<1>1. CASE n = NoName
  <2>1. "active" \in UserStatus /\ Allow(r, u, n) = [r EXCEPT !.users[u] = "active"]
    BY <1>1 DEF Allow, UserStatus
  <2> QED
    BY <1>1, <2>1, SetUserLookups DEF Restatused, SameMachine
<1>2. CASE n # NoName
  <2>1. {SlotNamed(r, u, n)} \in SUBSET Used(r) /\ "active" \in MachineStatus
    BY <1>2, SlotNamedIsNamed DEF CanAllow, MachineStatus
  <2> QED
    BY <1>2, <2>1, SetStatusEffect DEF Allow
<1> QED
  BY <1>1, <1>2

\* A status change of machines after one of a user.
LEMMA UserThenStatusEffect ==
  ASSUME NEW r \in RegistryType, NEW u \in User, NEW s \in UserStatus,
         NEW slots \in SUBSET Used(r), NEW z \in MachineStatus
  PROVE  LET q == SetStatus([r EXCEPT !.users[u] = s], slots, z)
         IN  /\ q.users = [r.users EXCEPT ![u] = s]
             /\ q.grants = r.grants
             /\ Restatused(r, q)
             /\ \A i \in Used(r) : q.machines[i].status = IF i \in slots THEN z
                                                          ELSE r.machines[i].status
<1> DEFINE p == [r EXCEPT !.users[u] = s]
           q == SetStatus(p, slots, z)
<1>1. /\ p \in RegistryType
      /\ p.machines = r.machines /\ p.grants = r.grants
      /\ p.users = [r.users EXCEPT ![u] = s]
      /\ Used(p) = Used(r)
  BY SetUserType, SetUserLookups
<1> HIDE DEF p
<1>2. /\ q.users = p.users /\ q.grants = p.grants /\ Restatused(p, q)
      /\ \A i \in Used(p) : q.machines[i].status = IF i \in slots THEN z
                                                   ELSE p.machines[i].status
  BY <1>1, SetStatusEffect
<1> HIDE DEF q
<1>3. Restatused(r, q)
  BY <1>1, <1>2 DEF Restatused
<1> QED
  BY <1>1, <1>2, <1>3 DEF q, p

LEMMA BlockEffect ==
  ASSUME NEW r \in RegistryType, NEW u \in User, NEW n \in Name \cup {NoName},
         Exists(r, u, n)
  PROVE  LET q == Block(r, u, n)
         IN  /\ q.users = IF n = NoName THEN [r.users EXCEPT ![u] = "blocked"] ELSE r.users
             /\ q.grants = r.grants
             /\ Restatused(r, q)
             /\ Addressed(r, u, n) \subseteq Used(r)
             /\ \A i \in Used(r) :
                  q.machines[i].status = IF i \in Addressed(r, u, n)
                                         THEN "blocked" ELSE r.machines[i].status
<1>1. "blocked" \in UserStatus /\ "blocked" \in MachineStatus
  BY DEF UserStatus, MachineStatus
<1>2. CASE n = NoName
  <2>1. SlotsOfUser(r, u) \in SUBSET Used(r)
    BY LookupsAreUsed
  <2> QED
    BY <1>1, <1>2, <2>1, UserThenStatusEffect DEF Block, Addressed
<1>3. CASE n # NoName
  <2>1. {SlotNamed(r, u, n)} \in SUBSET Used(r)
    BY <1>3, SlotNamedIsNamed DEF Exists
  <2> QED
    BY <1>1, <1>3, <2>1, SetStatusEffect DEF Block, Addressed
<1> QED
  BY <1>2, <1>3

LEMMA UnblockEffect ==
  ASSUME NEW r \in RegistryType, NEW u \in User, NEW n \in Name \cup {NoName},
         Exists(r, u, n)
  PROVE  LET q == Unblock(r, u, n)
         IN  /\ q.users = IF n = NoName /\ r.users[u] = "blocked"
                          THEN [r.users EXCEPT ![u] = "active"] ELSE r.users
             /\ q.grants = r.grants
             /\ Restatused(r, q)
             /\ Addressed(r, u, n) \subseteq Used(r)
             /\ \A i \in Used(r) :
                  q.machines[i].status =
                    IF i \in Addressed(r, u, n) /\ r.machines[i].status = "blocked"
                    THEN "active" ELSE r.machines[i].status
<1>1. CASE n = NoName
  <2> DEFINE s == IF r.users[u] = "blocked" THEN "active" ELSE r.users[u]
             slots == BlockedSlots(r, SlotsOfUser(r, u))
  <2>1. s \in UserStatus /\ "active" \in MachineStatus
    BY DEF UserStatus, MachineStatus, RegistryType
  <2>2. slots \in SUBSET Used(r)
    BY LookupsAreUsed DEF BlockedSlots
  <2>3. Unblock(r, u, n) = SetStatus([r EXCEPT !.users[u] = s], slots, "active")
    BY <1>1 DEF Unblock
  <2>4. [r.users EXCEPT ![u] = s] = IF r.users[u] = "blocked"
                                    THEN [r.users EXCEPT ![u] = "active"] ELSE r.users
    BY DEF RegistryType
  <2>5. /\ SlotsOfUser(r, u) \subseteq Used(r)
        /\ \A i : i \in slots <=> i \in SlotsOfUser(r, u) /\ r.machines[i].status = "blocked"
    BY LookupsAreUsed DEF BlockedSlots
  <2> HIDE DEF s, slots
  <2> DEFINE q == Unblock(r, u, n)
  <2>6. /\ q.users = [r.users EXCEPT ![u] = s]
        /\ q.grants = r.grants
        /\ Restatused(r, q)
        /\ \A i \in Used(r) : q.machines[i].status = IF i \in slots THEN "active"
                                                     ELSE r.machines[i].status
    BY <2>1, <2>2, <2>3, UserThenStatusEffect
  <2> HIDE DEF q
  <2> QED
    BY <1>1, <2>4, <2>5, <2>6 DEF Addressed, q
<1>2. CASE n # NoName
  <2> DEFINE slots == BlockedSlots(r, {SlotNamed(r, u, n)})
             q == Unblock(r, u, n)
  <2>1. SlotNamed(r, u, n) \in Used(r) /\ slots \in SUBSET Used(r) /\ "active" \in MachineStatus
    BY <1>2, SlotNamedIsNamed DEF Exists, MachineStatus, BlockedSlots
  <2>2. /\ q.users = r.users /\ q.grants = r.grants /\ Restatused(r, q)
        /\ \A i \in Used(r) : q.machines[i].status = IF i \in slots THEN "active"
                                                     ELSE r.machines[i].status
    BY <1>2, <2>1, SetStatusEffect DEF Unblock
  <2>3. \A i : i \in slots <=> i = SlotNamed(r, u, n) /\ r.machines[i].status = "blocked"
    BY DEF BlockedSlots
  <2> HIDE DEF slots, q
  <2> QED
    BY <1>2, <2>1, <2>2, <2>3 DEF Addressed, q
<1> QED
  BY <1>1, <1>2

\* The same of the machines alone.
LEMMA AllowRestatuses ==
  ASSUME NEW r \in RegistryType, NEW u \in User, NEW n \in Name \cup {NoName},
         CanAllow(r, u, n)
  PROVE  /\ Restatused(r, Allow(r, u, n))
         /\ \A i \in Used(r) :
              Allow(r, u, n).machines[i].status =
                IF n # NoName /\ i = SlotNamed(r, u, n) THEN "active"
                ELSE r.machines[i].status
<1> DEFINE q == Allow(r, u, n)
<1>1. /\ q.users = IF n = NoName THEN [r.users EXCEPT ![u] = "active"] ELSE r.users
      /\ q.grants = r.grants
      /\ Restatused(r, q)
      /\ \A i \in Used(r) :
           q.machines[i].status = IF n # NoName /\ i = SlotNamed(r, u, n) THEN "active"
                                  ELSE r.machines[i].status
  BY AllowEffect
<1> HIDE DEF q
<1>2. q = Allow(r, u, n)
  BY DEF q
<1> QED
  BY <1>1, <1>2

LEMMA BlockRestatuses ==
  ASSUME NEW r \in RegistryType, NEW u \in User, NEW n \in Name \cup {NoName},
         Exists(r, u, n)
  PROVE  /\ Restatused(r, Block(r, u, n))
         /\ Addressed(r, u, n) \subseteq Used(r)
         /\ \A i \in Used(r) :
              Block(r, u, n).machines[i].status =
                IF i \in Addressed(r, u, n) THEN "blocked"
                ELSE r.machines[i].status
<1> DEFINE q == Block(r, u, n)
<1>1. /\ q.users = IF n = NoName THEN [r.users EXCEPT ![u] = "blocked"] ELSE r.users
      /\ q.grants = r.grants
      /\ Restatused(r, q)
      /\ Addressed(r, u, n) \subseteq Used(r)
      /\ \A i \in Used(r) :
           q.machines[i].status = IF i \in Addressed(r, u, n) THEN "blocked"
                                  ELSE r.machines[i].status
  BY BlockEffect
<1> HIDE DEF q
<1>2. q = Block(r, u, n)
  BY DEF q
<1> QED
  BY <1>1, <1>2

LEMMA UnblockRestatuses ==
  ASSUME NEW r \in RegistryType, NEW u \in User, NEW n \in Name \cup {NoName},
         Exists(r, u, n)
  PROVE  /\ Restatused(r, Unblock(r, u, n))
         /\ Addressed(r, u, n) \subseteq Used(r)
         /\ \A i \in Used(r) :
              Unblock(r, u, n).machines[i].status =
                IF i \in Addressed(r, u, n) /\ r.machines[i].status = "blocked" THEN "active"
                ELSE r.machines[i].status
<1> DEFINE q == Unblock(r, u, n)
<1>1. /\ q.users = IF n = NoName /\ r.users[u] = "blocked"
                   THEN [r.users EXCEPT ![u] = "active"] ELSE r.users
      /\ q.grants = r.grants
      /\ Restatused(r, q)
      /\ Addressed(r, u, n) \subseteq Used(r)
      /\ \A i \in Used(r) :
           q.machines[i].status = IF i \in Addressed(r, u, n) /\ r.machines[i].status = "blocked" THEN "active"
                                  ELSE r.machines[i].status
  BY UnblockEffect
<1> HIDE DEF q
<1>2. q = Unblock(r, u, n)
  BY DEF q
<1> QED
  BY <1>1, <1>2

\* The entries of q are entries of r outside gone, each of them once.
TakenFrom(r, gone, q) ==
  \E f \in [Used(q) -> Used(r) \ gone] :
    /\ \A i, j \in Used(q) : f[i] = f[j] => i = j
    /\ \A i \in Used(q) : q.machines[i] = r.machines[f[i]]

\* Every entry of r outside gone is an entry of q.
Retained(r, gone, q) ==
  \A i \in Used(r) \ gone : \E j \in Used(q) : q.machines[j] = r.machines[i]

LEMMA RemoveSlotsTakes ==
  ASSUME NEW r \in RegistryType, NEW gone
  PROVE  LET q == RemoveSlots(r, gone)
         IN  /\ q.users = r.users
             /\ q.grants = r.grants
             /\ TakenFrom(r, gone, q)
<1> DEFINE kept == Used(r) \ gone
           Rank(i) == Cardinality({h \in kept : h <= i})
           From(j) == {i \in kept : Rank(i) = j}
           f == [j \in Slot |-> CHOOSE i \in From(j) : TRUE]
           q == RemoveSlots(r, gone)
<1>1. /\ q.users = r.users
      /\ q.grants = r.grants
      /\ \A j \in Slot : q.machines[j] = IF From(j) = {} THEN NoMachine
                                         ELSE r.machines[CHOOSE i \in From(j) : TRUE]
  BY DEF RemoveSlots, RegistryType
<1>2. \A j \in Used(q) : j \in Slot /\ From(j) # {}
  BY <1>1 DEF Used
<1>3. \A j \in Used(q) : f[j] \in From(j)
  BY <1>2
<1> HIDE DEF q, f
<1>4. \A j \in Used(q) : f[j] \in kept /\ Rank(f[j]) = j
  BY <1>3
<1>5. \A j \in Used(q) : q.machines[j] = r.machines[f[j]]
  BY <1>1, <1>2 DEF f
<1> DEFINE g == [j \in Used(q) |-> f[j]]
<1>6. g \in [Used(q) -> kept] /\ \A j \in Used(q) : g[j] = f[j]
  BY <1>4
<1>7. \A i, j \in Used(q) : g[i] = g[j] => i = j
  BY <1>4, <1>6
<1> HIDE DEF g
<1>8. TakenFrom(r, gone, q)
  BY <1>5, <1>6, <1>7 DEF TakenFrom
<1> QED
  BY <1>1, <1>8 DEF q

\* The rank of a slot among finitely many determines the slot, and lies in
\* the table.
LEMMA RankInTable ==
  ASSUME NEW S \in SUBSET Slot, NEW i \in S
  PROVE  /\ Cardinality({h \in S : h <= i}) \in Slot
         /\ \A j \in S : Cardinality({h \in S : h <= j}) = Cardinality({h \in S : h <= i})
                         => j = i
<1> DEFINE Below(j) == {h \in S : h <= j}
<1>1. IsFiniteSet(Slot) /\ Cardinality(Slot) = MaxMachines /\ Slot \subseteq Nat
  <2>1. 1 \in Int /\ MaxMachines \in Int
    BY MaxMachinesIsNumber
  <2> QED BY <2>1, FS_Interval, MaxMachinesIsNumber DEF Slot
<1>2. \A j \in S : /\ Below(j) \subseteq Slot
                   /\ IsFiniteSet(Below(j))
                   /\ Cardinality(Below(j)) \in Nat
                   /\ Cardinality(Below(j)) <= MaxMachines
                   /\ j \in Below(j)
  <2> SUFFICES ASSUME NEW j \in S
               PROVE  /\ Below(j) \subseteq Slot
                      /\ IsFiniteSet(Below(j))
                      /\ Cardinality(Below(j)) \in Nat
                      /\ Cardinality(Below(j)) <= MaxMachines
                      /\ j \in Below(j)
    OBVIOUS
  <2>1. Below(j) \subseteq Slot /\ j \in Below(j)
    <3>1. j <= j
      <4>1. j \in Nat
        BY <1>1
      <4> QED BY <4>1
    <3> QED BY <3>1
  <2> HIDE DEF Below
  <2>2. IsFiniteSet(Below(j)) /\ Cardinality(Below(j)) <= MaxMachines
    BY <1>1, <2>1, FS_Subset
  <2>3. Cardinality(Below(j)) \in Nat
    BY <2>2, FS_CardinalityType
  <2> QED BY <2>1, <2>2, <2>3
<1>3. Cardinality(Below(i)) # 0
  <2>1. Below(i) # {}
    BY <1>2
  <2> HIDE DEF Below
  <2> QED BY <1>2, <2>1, FS_EmptySet
<1>4. ASSUME NEW j \in S, NEW k \in S, j < k PROVE Cardinality(Below(j)) # Cardinality(Below(k))
  <2>1. Below(j) \subseteq Below(k) /\ k \notin Below(j) /\ k \in Below(k)
    <3>1. \A h \in S : h <= j => h <= k
      <4>1. j \in Nat /\ k \in Nat /\ \A h \in S : h \in Nat
        BY <1>1
      <4> QED BY <1>4, <4>1
    <3>2. ~ (k <= j) /\ k <= k
      <4>1. j \in Nat /\ k \in Nat
        BY <1>1
      <4> QED BY <1>4, <4>1
    <3> QED BY <3>1, <3>2
  <2> HIDE DEF Below
  <2>2. Below(j) # Below(k)
    BY <2>1
  <2> QED BY <1>2, <2>1, <2>2, FS_Subset
<1>5. ASSUME NEW j \in S, Cardinality(Below(j)) = Cardinality(Below(i)) PROVE j = i
  <2>1. j \in Nat /\ i \in Nat
    BY <1>1
  <2> HIDE DEF Below
  <2>2. ~ (j < i) /\ ~ (i < j)
    BY <1>4, <1>5
  <2> QED BY <2>1, <2>2
<1>6. Cardinality(Below(i)) \in Slot
  <2> HIDE DEF Below
  <2> QED BY <1>2, <1>3, MaxMachinesIsNumber DEF Slot
<1> QED
  BY <1>5, <1>6

LEMMA RemoveSlotsRetains ==
  ASSUME NEW r \in RegistryType, NEW gone
  PROVE  Retained(r, gone, RemoveSlots(r, gone))
<1> DEFINE kept == Used(r) \ gone
           From(j) == {i \in kept : Cardinality({h \in kept : h <= i}) = j}
           q == RemoveSlots(r, gone)
<1>1. \A j \in Slot : q.machines[j] = IF From(j) = {} THEN NoMachine
                                      ELSE r.machines[CHOOSE i \in From(j) : TRUE]
  BY DEF RemoveSlots, RegistryType
<1>2. ASSUME NEW i \in kept PROVE \E j \in Used(q) : q.machines[j] = r.machines[i]
  <2> DEFINE j == Cardinality({h \in kept : h <= i})
  <2>1. kept \in SUBSET Slot
    BY LookupsAreUsed
  <2>2. j \in Slot /\ From(j) = {i}
    <3> HIDE DEF kept
    <3>1. /\ j \in Slot
          /\ \A k \in kept : Cardinality({h \in kept : h <= k}) = j => k = i
      BY <2>1, RankInTable
    <3> QED BY <3>1
  <2> HIDE DEF q, From, j
  <2>3. q.machines[j] = r.machines[i]
    BY <1>1, <2>2
  <2>4. r.machines[i] # NoMachine
    BY DEF Used
  <2> QED
    BY <2>2, <2>3, <2>4 DEF Used
<1> QED
  BY <1>2 DEF Retained

\* The entries that a denial removes.
Denied(r, u, n) == IF n = NoName THEN SlotsOfUser(r, u) ELSE SlotsNamed(r, u, n)

LEMMA DenyEffect ==
  ASSUME NEW r \in RegistryType, NEW u \in User, NEW n \in Name \cup {NoName}
  PROVE  LET q == Deny(r, u, n)
         IN  /\ q.users = IF n = NoName THEN [r.users EXCEPT ![u] = "absent"] ELSE r.users
             /\ q.grants = r.grants
             /\ TakenFrom(r, Denied(r, u, n), q)
             /\ Retained(r, Denied(r, u, n), q)
<1>1. CASE n = NoName
  <2> DEFINE p == [r EXCEPT !.users[u] = "absent"]
             gone == SlotsOfUser(r, u)
             q == RemoveSlots(p, gone)
  <2>1. /\ p \in RegistryType
        /\ Used(p) = Used(r) /\ p.machines = r.machines /\ p.grants = r.grants
        /\ p.users = [r.users EXCEPT ![u] = "absent"]
    BY SetUserType, SetUserLookups DEF UserStatus
  <2>2. Deny(r, u, n) = q /\ Denied(r, u, n) = gone
    BY <1>1 DEF Deny, Denied
  <2> HIDE DEF p, gone
  <2>3. /\ q.users = p.users /\ q.grants = p.grants
        /\ TakenFrom(p, gone, q) /\ Retained(p, gone, q)
    BY <2>1, RemoveSlotsTakes, RemoveSlotsRetains
  <2> HIDE DEF q
  <2>4. TakenFrom(r, gone, q) /\ Retained(r, gone, q)
    BY <2>1, <2>3 DEF TakenFrom, Retained
  <2> QED
    BY <1>1, <2>1, <2>2, <2>3, <2>4
<1>2. CASE n # NoName
  <2>1. Deny(r, u, n) = RemoveSlots(r, Denied(r, u, n))
    BY <1>2 DEF Deny, Denied
  <2> QED
    BY <1>2, <2>1, RemoveSlotsTakes, RemoveSlotsRetains
<1> QED
  BY <1>1, <1>2

LEMMA GrantEffect ==
  ASSUME NEW r \in RegistryType, NEW u, NEW n, NEW target
  PROVE  /\ LET q == AddGrant(r, u, n, target)
            IN  /\ q.users = r.users /\ q.machines = r.machines /\ Used(q) = Used(r)
                /\ q.grants = r.grants \cup {Subject(u, n, target)}
         /\ LET q == Revoke(r, u, n, target)
            IN  /\ q.users = r.users /\ q.machines = r.machines /\ Used(q) = Used(r)
                /\ q.grants = r.grants \ {Subject(u, n, target)}
BY DEF AddGrant, Revoke, RegistryType, Used

\* A join that appends: the user is known from now on, and there is one more
\* entry (in a free slot when there is one).
LEMMA AppendingJoin ==
  ASSUME NEW r \in RegistryType, NEW c \in Claim, JoinAppends(r, c)
  PROVE  LET q == RegisterJoin(r, c)
             new == Min(Slot \ Used(r))
         IN  /\ q.users = IF r.users[c.user] = "absent"
                          THEN [r.users EXCEPT ![c.user] = "pending"] ELSE r.users
             /\ q.grants = r.grants
             /\ \A i \in Used(q) : \/ q.machines[i] = NewMachine(c) /\ i = new
                                   \/ i \in Used(r) /\ q.machines[i] = r.machines[i]
             /\ HasRoom(r) => /\ new \in Slot \ Used(r)
                              /\ Used(q) = Used(r) \cup {new}
                              /\ q.machines[new] = NewMachine(c)
                              /\ \A i \in Used(r) : q.machines[i] = r.machines[i]
<1> DEFINE known == [r EXCEPT !.users[c.user] = "pending"]
           p == IF r.users[c.user] = "absent" THEN known ELSE r
           m == NewMachine(c)
           new == Min(Slot \ Used(r))
           q == AppendMachine(p, m)
<1>1. /\ known \in RegistryType /\ known.machines = r.machines /\ known.grants = r.grants
      /\ Used(known) = Used(r)
      /\ known.users = [r.users EXCEPT ![c.user] = "pending"]
  BY SetUserType, SetUserLookups DEF Claim, UserStatus
<1>2. RegisterJoin(r, c) = q
  BY DEF RegisterJoin, JoinAppends
<1> HIDE DEF known
<1>3. /\ p \in RegistryType /\ p.machines = r.machines /\ p.grants = r.grants
      /\ Used(p) = Used(r)
      /\ p.users = IF r.users[c.user] = "absent"
                   THEN [r.users EXCEPT ![c.user] = "pending"] ELSE r.users
  BY <1>1
<1>4. m \in Machine /\ NoMachine \notin Machine
  BY NewMachineType, NonesAreOutside DEF Machine, MachineStatus, Address
<1> HIDE DEF p, m
<1>5. /\ q.users = p.users /\ q.grants = p.grants
      /\ \A i \in Slot : q.machines[i] = IF i = new THEN m ELSE r.machines[i]
  BY <1>3 DEF AppendMachine, RegistryType
<1> HIDE DEF q
<1>6. \A i \in Used(q) : \/ q.machines[i] = m /\ i = new
                         \/ i \in Used(r) /\ q.machines[i] = r.machines[i]
  BY <1>5 DEF Used
<1>7. ASSUME HasRoom(r)
      PROVE  /\ new \in Slot \ Used(r)
             /\ Used(q) = Used(r) \cup {new}
             /\ q.machines[new] = m
             /\ \A i \in Used(r) : q.machines[i] = r.machines[i]
  <2>1. Slot \ Used(r) \subseteq Nat /\ Slot \ Used(r) # {} /\ Used(r) \subseteq Slot
    BY <1>7, LookupsAreUsed DEF HasRoom
  <2>2. new \in Slot \ Used(r)
    BY <2>1, MinIsLeast
  <2> HIDE DEF new
  <2>3. q.machines[new] = m /\ \A i \in Used(r) : q.machines[i] = r.machines[i]
    BY <1>5, <2>1, <2>2
  <2>4. Used(q) = Used(r) \cup {new}
    <3>1. ASSUME NEW i \in Slot PROVE i \in Used(q) <=> i \in Used(r) \/ i = new
      BY <1>4, <1>5 DEF Used
    <3> QED BY <2>2, <3>1 DEF Used
  <2> QED BY <2>2, <2>3, <2>4
<1> QED
  BY <1>2, <1>3, <1>5, <1>6, <1>7 DEF m

\* A join that finds its key: one entry takes the name and the pin.
LEMMA ReclaimingJoin ==
  ASSUME NEW r \in RegistryType, NEW c \in Claim, ~ JoinAppends(r, c)
  PROVE  LET q == RegisterJoin(r, c)
             k == ClaimedSlot(r, c)
         IN  /\ q.users = r.users
             /\ q.grants = r.grants
             /\ Used(q) = Used(r)
             /\ k \in Used(r)
             /\ \A i \in Used(r) :
                  LET m == r.machines[i]
                      w == q.machines[i]
                  IN  /\ w.user = m.user
                      /\ w.key = m.key
                      /\ w.status = m.status
                      /\ w.ip = m.ip
                      /\ w.name = IF i = k THEN c.name ELSE m.name
                      /\ w.desired = IF i = k /\ c.desired # 0 THEN c.desired ELSE m.desired
<1> DEFINE k == ClaimedSlot(r, c)
           m == Reclaimed(r.machines[k], c)
           q == [r EXCEPT !.machines[k] = m]
<1>1. k \in Used(r) /\ k \in Slot /\ r.machines[k] \in Machine
  BY ClaimedSlotHasKey, LookupsAreUsed DEF JoinAppends
<1>2. /\ m \in Machine /\ m.user = r.machines[k].user /\ m.ip = r.machines[k].ip
      /\ m.key = r.machines[k].key /\ m.status = r.machines[k].status
      /\ m.name = c.name
      /\ m.desired = IF c.desired # 0 THEN c.desired ELSE r.machines[k].desired
  BY <1>1 DEF Machine, Claim, Reclaimed
<1>3. NoMachine \notin Machine
  BY NonesAreOutside DEF Machine, MachineStatus, Address
<1>4. RegisterJoin(r, c) = q
  BY DEF RegisterJoin, JoinAppends
<1> HIDE DEF k, m
<1>5. /\ q.users = r.users /\ q.grants = r.grants
      /\ q.machines = [r.machines EXCEPT ![k] = m]
      /\ r.machines \in [Slot -> Machine \cup {NoMachine}]
  BY DEF RegistryType
<1> HIDE DEF q
<1>6. Used(q) = Used(r)
  BY <1>1, <1>2, <1>3, <1>5 DEF Used
<1>7. \A i \in Used(r) : i \in Slot /\ q.machines[i] = IF i = k THEN m ELSE r.machines[i]
  BY <1>5, LookupsAreUsed
<1> QED
  BY <1>1, <1>2, <1>4, <1>5, <1>6, <1>7 DEF k

\* SetMachineIP gives one entry another address.
LEMMA SetMachineIPFields ==
  ASSUME NEW r \in RegistryType, NEW u \in User, NEW n \in Name \cup {NoName},
         NEW a \in Address, HasMachine(r, u, n)
  PROVE  LET q == SetMachineIP(r, u, n, a)
             k == SlotNamed(r, u, n)
         IN  /\ q.users = r.users
             /\ q.grants = r.grants
             /\ Used(q) = Used(r)
             /\ k \in Used(r)
             /\ \A i \in Used(r) :
                  LET m == r.machines[i]
                      w == q.machines[i]
                  IN  /\ w.user = m.user
                      /\ w.name = m.name
                      /\ w.key = m.key
                      /\ w.status = m.status
                      /\ w.desired = m.desired
                      /\ w.ip = IF i = k THEN a ELSE m.ip
<1> DEFINE k == SlotNamed(r, u, n)
           m == [r.machines[k] EXCEPT !.ip = a]
           q == SetMachineIP(r, u, n, a)
<1>1. k \in Used(r) /\ k \in Slot /\ r.machines[k] \in Machine
  BY SlotNamedIsNamed, LookupsAreUsed, UsedHoldsMachine
<1>2. /\ m \in Machine /\ m.user = r.machines[k].user /\ m.name = r.machines[k].name
      /\ m.key = r.machines[k].key /\ m.status = r.machines[k].status
      /\ m.desired = r.machines[k].desired /\ m.ip = a
  BY <1>1 DEF Machine
<1>3. NoMachine \notin Machine
  BY NonesAreOutside DEF Machine, MachineStatus, Address
<1>4. /\ q.users = r.users /\ q.grants = r.grants
      /\ q.machines = [r.machines EXCEPT ![k] = m]
      /\ r.machines \in [Slot -> Machine \cup {NoMachine}]
  BY DEF SetMachineIP, RegistryType
<1> HIDE DEF k, m, q
<1>5. Used(q) = Used(r)
  BY <1>1, <1>2, <1>3, <1>4 DEF Used
<1>6. \A i \in Used(r) : i \in Slot /\ q.machines[i] = IF i = k THEN m ELSE r.machines[i]
  BY <1>4, LookupsAreUsed
<1> QED
  BY <1>1, <1>2, <1>4, <1>5, <1>6 DEF k, q

LEMMA EnsureAdminEffect ==
  ASSUME NEW r \in RegistryType
  PROVE  LET q == EnsureAdmin(r)
         IN  /\ q.users = [r.users EXCEPT ![Admin] = "active"]
             /\ q.machines = r.machines
             /\ q.grants = r.grants
             /\ Used(q) = Used(r)
BY AdminIsUser, SetUserLookups DEF EnsureAdmin, UserStatus

=============================================================================
