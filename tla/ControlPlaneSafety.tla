-------------------------- MODULE ControlPlaneSafety --------------------------
(***************************************************************************)
(* Safety theorems about ControlPlane, on top of the type invariant.  The  *)
(* first section says once, for all actions, how a step may change the     *)
(* registry; each theorem then looks at the changes instead of the actions.*)
(***************************************************************************)
EXTENDS ControlPlaneProofs

\* r is what the call that thread t makes does to the registry, for the machine
\* or user (u, n) in its frame.
Operation(t, u, n, r) ==
  \/ pc[t] \in {"allow", "autoApprove"} /\ CanAllow(reg, u, n) /\ r = Allow(reg, u, n)
  \/ pc[t] = "block" /\ Exists(reg, u, n) /\ r = Block(reg, u, n)
  \/ pc[t] = "unblock" /\ Exists(reg, u, n) /\ r = Unblock(reg, u, n)
  \/ pc[t] = "deny" /\ r = Deny(reg, u, n)
  \/ pc[t] = "grant" /\ r = AddGrant(reg, u, n, frame[t].to)
  \/ pc[t] \in {"revoke", "revokeTo"} /\ \E target : r = Revoke(reg, u, n, target)
  \/ /\ pc[t] = "assign" /\ pc'[t] # "assign"
     /\ n \in Name /\ frame[t].ip \in Address /\ HasMachine(reg, u, n)
     /\ r = SetMachineIP(reg, u, n, frame[t].ip)

\* The socket loop serves a claim that is not registered yet.
Joining == pc[Udp] \in {"getUser", "registerNew", "proven", "register"}

\* r is what one operation of *State makes of the registry.
Changed(r) ==
  \/ \E c \in Claim : /\ Joining
                      /\ c = ClaimOf(frame[Udp])
                      /\ ~ JoinIsBlocked(reg, c)
                      /\ ~ JoinIsRefused(reg, c, pc[Udp] = "registerNew")
                      /\ r = RegisterJoin(reg, c)
  \/ \E t \in Thread, u \in User, n \in Name \cup {NoName} :
       u = frame[t].user /\ n = frame[t].name /\ Operation(t, u, n, r)

\* A step leaves the registry alone, or saves what one operation made of it.
StoreStep ==
  \/ UNCHANGED <<reg, disk>>
  \/ \E r : Changed(r) /\ (SaveWorks(r) \/ SaveFails(r))

LEMMA SavedChange ==
  ASSUME NEW r, Changed(r), SaveWorks(r) \/ SaveFails(r)
  PROVE  StoreStep
BY DEF StoreStep

LEMMA NothingSaved ==
  ASSUME ReadOnly
  PROVE  StoreStep
BY DEF StoreStep, ReadOnly

LEMMA JoinChanges ==
  ASSUME TypeOK, Join
  PROVE  StoreStep
<1>1. ASSUME NEW c \in Claims, JoinRequest(c) PROVE StoreStep
  BY <1>1, NothingSaved DEF JoinRequest
<1>2. ASSUME NEW c \in Claims, NEW valid \in BOOLEAN, JoinProof(c, valid) PROVE StoreStep
  BY <1>2, NothingSaved DEF JoinProof
<1>3. ASSUME RegisterNew \/ Register PROVE StoreStep
  <2> DEFINE c == ClaimOf(frame[Udp])
             r == RegisterJoin(reg, c)
  <2>1. pc[Udp] \in JoinLabel /\ Joining
    BY <1>3 DEF RegisterNew, Register, At, JoinLabel, Joining
  <2>2. c \in Claim
    BY <2>1, AtJoinLabel
  <2>3. CASE JoinIsBlocked(reg, c) \/ JoinIsRefused(reg, c, pc[Udp] = "registerNew")
    <3>1. ReadOnly
      BY <1>3, <2>3 DEF RegisterNew, Register, At
    <3> QED BY <3>1, NothingSaved
  <2>4. CASE ~ JoinIsBlocked(reg, c) /\ ~ JoinIsRefused(reg, c, pc[Udp] = "registerNew")
    <3>1. Changed(r)
      BY <2>1, <2>2, <2>4 DEF Changed
    <3>2. ReadOnly \/ SaveWorks(r) \/ SaveFails(r)
      BY <1>3 DEF RegisterNew, Register
    <3> HIDE DEF r
    <3> QED BY <3>1, <3>2, SavedChange, NothingSaved
  <2> QED BY <2>3, <2>4
<1>4. ASSUME AutoApprove PROVE StoreStep
  <2> DEFINE r == Allow(reg, frame[Udp].user, frame[Udp].name)
  <2>1. frame[Udp].user \in User /\ frame[Udp].name \in Name
    BY <1>4, AtJoinLabel DEF AutoApprove, At, JoinLabel
  <2>2. CASE CanAllow(reg, frame[Udp].user, frame[Udp].name)
    <3>1. Operation(Udp, frame[Udp].user, frame[Udp].name, r)
      BY <1>4, <2>2 DEF Operation, AutoApprove, At
    <3>3. Changed(r)
      BY <2>1, <3>1, ThreadsIncludeUdp DEF Changed
    <3>2. ReadOnly \/ SaveWorks(r) \/ SaveFails(r)
      BY <1>4 DEF AutoApprove
    <3> HIDE DEF r
    <3> QED BY <3>3, <3>2, SavedChange, NothingSaved
  <2>3. CASE ~ CanAllow(reg, frame[Udp].user, frame[Udp].name)
    BY <1>4, <2>3, NothingSaved DEF AutoApprove
  <2> QED BY <2>2, <2>3
<1> QED
  BY <1>1, <1>2, <1>3, <1>4, NothingSaved
  DEF Join, GetUser, Proven, EnsureInSubnet, RebindDesired, DesiredOf, Answer, Reply

LEMMA CommandChanges ==
  ASSUME TypeOK, NEW t \in Thread,
         \/ DoAllow(t) \/ DoUnblock(t) \/ DoGrant(t) \/ RevokeTo(t)
         \/ RevokeListed(t) \/ DoDeny(t) \/ DoBlock(t)
  PROVE  StoreStep
<1> DEFINE f == frame[t]
<1>1. pc[t] # "idle"
  BY DEF DoAllow, DoUnblock, DoGrant, RevokeTo, RevokeListed, DoDeny, DoBlock, At
<1>2. f.user \in User /\ f.name \in Name \cup {NoName}
  BY <1>1, AtLabel
<1>3. ASSUME NEW r, Operation(t, f.user, f.name, r) PROVE Changed(r)
  BY <1>2, <1>3 DEF Changed
<1>4. ASSUME NEW enabled, NEW r, NEW ok, Call(t, enabled, r, ok),
             enabled => Operation(t, f.user, f.name, r)
      PROVE  StoreStep
  BY <1>3, <1>4, SavedChange, NothingSaved DEF Call
<1>5. CASE DoAllow(t)
  <2>1. CanAllow(reg, f.user, f.name) =>
          Operation(t, f.user, f.name, Allow(reg, f.user, f.name))
    BY <1>5 DEF Operation, DoAllow, At
  <2> QED BY <1>4, <1>5, <2>1 DEF DoAllow
<1>6. CASE DoUnblock(t)
  <2>1. Exists(reg, f.user, f.name) =>
          Operation(t, f.user, f.name, Unblock(reg, f.user, f.name))
    BY <1>6 DEF Operation, DoUnblock, At
  <2> QED BY <1>4, <1>6, <2>1 DEF DoUnblock
<1>7. CASE DoBlock(t)
  <2>1. Exists(reg, f.user, f.name) =>
          Operation(t, f.user, f.name, Block(reg, f.user, f.name))
    BY <1>7 DEF Operation, DoBlock, At
  <2> QED BY <1>4, <1>7, <2>1 DEF DoBlock
<1>8. CASE DoDeny(t)
  <2>1. Operation(t, f.user, f.name, Deny(reg, f.user, f.name))
    BY <1>8 DEF Operation, DoDeny, At
  <2> QED BY <1>4, <1>8, <2>1 DEF DoDeny
<1>9. CASE DoGrant(t)
  <2>1. Operation(t, f.user, f.name, AddGrant(reg, f.user, f.name, f.to))
    BY <1>9 DEF Operation, DoGrant, At
  <2> QED BY <1>4, <1>9, <2>1, NothingSaved DEF DoGrant
<1>10. CASE RevokeTo(t)
  <2>1. Operation(t, f.user, f.name, Revoke(reg, f.user, f.name, f.to))
    BY <1>10 DEF Operation, RevokeTo, At
  <2> QED BY <1>4, <1>10, <2>1 DEF RevokeTo
<1>11. CASE RevokeListed(t)
  <2>1. PICK target \in f.todo : LET r == Revoke(reg, f.user, f.name, target)
                                 IN  SaveWorks(r) \/ SaveFails(r)
    BY <1>11 DEF RevokeListed
  <2>2. Operation(t, f.user, f.name, Revoke(reg, f.user, f.name, target))
    BY <1>11 DEF Operation, RevokeListed, At
  <2> QED BY <1>3, <2>1, <2>2, SavedChange
<1> QED
  BY <1>5, <1>6, <1>7, <1>8, <1>9, <1>10, <1>11

LEMMA AssignEnds ==
  ASSUME TypeOK, NEW t \in Thread, Assign(t)
  PROVE  pc'[t] # "assign"
<1>1. pc \in [Thread -> Label] /\ frame[t].origin \in Origin
  BY AtLabel, FrameFields DEF Assign, At, TypeOK, ThreadsOK
<1>2. AfterAssign(frame[t].origin) # "assign"
  BY <1>1 DEF AfterAssign, Origin
<1>3. AfterRefusal(t) => pc'[t] # "assign"
  BY <1>1 DEF AfterRefusal, Origin, Goto, Return, GotoWith
<1> QED
  BY <1>1, <1>2, <1>3 DEF Assign, Goto, GotoWith

LEMMA HandleChanges ==
  ASSUME TypeOK, NEW t \in Thread, Handle(t)
  PROVE  StoreStep
<1>1. CASE Assign(t)
  <2> DEFINE f == frame[t]
             r == SetMachineIP(reg, f.user, f.name, f.ip)
  <2>1. CASE HasMachine(reg, f.user, f.name)
    <3>1. f.user \in User /\ f.name \in Name /\ f.ip \in Address
      BY <1>1, AtLabel DEF Assign, At, LocalsOK
    <3>2. Operation(t, f.user, f.name, r) /\ f.user \in User
      BY <1>1, <2>1, <3>1, AssignEnds DEF Operation, Assign, At
    <3>3. Changed(r)
      BY <3>1, <3>2 DEF Changed
    <3>4. SaveWorks(r) \/ SaveFails(r)
      BY <1>1, <2>1 DEF Assign
    <3> HIDE DEF r
    <3> QED BY <3>3, <3>4, SavedChange
  <2>2. CASE ~ HasMachine(reg, f.user, f.name)
    BY <1>1, <2>2, NothingSaved DEF Assign
  <2> QED BY <2>1, <2>2
<1>2. CASE \/ DoAllow(t) \/ DoUnblock(t) \/ DoGrant(t) \/ RevokeTo(t)
           \/ RevokeListed(t) \/ DoDeny(t) \/ DoBlock(t)
  BY <1>2, CommandChanges
<1>3. CASE \E c \in Commands : ConsoleCommand(t, c)
  BY <1>3, NothingSaved DEF ConsoleCommand
<1>4. CASE \/ Allocate(t) \/ AllowRead(t) \/ ApproveRead(t) \/ Notify(t)
           \/ LookUpEndpoint(t) \/ RememberPush(t)
           \/ ListGrants(t) \/ DenyRead(t) \/ Broadcast(t)
  BY <1>4, NothingSaved
  DEF Allocate, AllowRead, ApproveRead, Notify, LookUpEndpoint, RememberPush,
      ListGrants, DenyRead, Broadcast
<1> QED
  BY <1>1, <1>2, <1>3, <1>4 DEF Handle

\* Whatever a thread does, it moves itself only.
LEMMA HandlerMovesItself ==
  ASSUME TypeOK, NEW t \in Thread, Handle(t)
  PROVE  \E label, f : GotoWith(t, label, f) \/ Goto(t, label)
<1>1. ASSUME Return(t) PROVE \E label, f : GotoWith(t, label, f)
  BY <1>1 DEF Return
<1>2. CASE Assign(t) \/ Allocate(t)
  <2>1. frame[t].origin \in Origin
    BY <1>2, AtLabel, FrameFields DEF Assign, Allocate, At
  <2>2. AfterRefusal(t) => \E label, f : GotoWith(t, label, f) \/ Goto(t, label)
    BY <1>1, <2>1 DEF AfterRefusal, Origin
  <2>3. \/ AfterRefusal(t)
        \/ \E f : GotoWith(t, "answer", f) \/ GotoWith(t, "assign", f)
        \/ Goto(t, AfterAssign(frame[t].origin))
    BY <1>2 DEF Assign, Allocate
  <2> QED BY <2>2, <2>3
<1>3. CASE (\E c \in Commands : ConsoleCommand(t, c)) \/ ListGrants(t) \/ RevokeListed(t)
  BY <1>1, <1>3 DEF ConsoleCommand, StartCommand, ListGrants, RevokeListed
<1>4. CASE DoAllow(t) \/ DoUnblock(t) \/ DoGrant(t) \/ RevokeTo(t) \/ DoDeny(t) \/ DoBlock(t)
  <2>1. Return(t) \/ Goto(t, "broadcast") \/ Goto(t, "approveRead")
    BY <1>4 DEF DoAllow, DoUnblock, DoGrant, RevokeTo, DoDeny, DoBlock, Call
  <2> QED BY <1>1, <2>1
<1>5. CASE AllowRead(t) \/ ApproveRead(t) \/ DenyRead(t) \/ Broadcast(t)
  BY <1>1, <1>5
  DEF AllowRead, ApproveRead, RequestAddress, DenyRead, Broadcast
<1>6. CASE Notify(t) \/ LookUpEndpoint(t) \/ RememberPush(t)
  BY <1>6 DEF Notify, LookUpEndpoint, RememberPush
<1> QED
  BY <1>2, <1>3, <1>4, <1>5, <1>6 DEF Handle

\* The socket loop's own steps, too.
LEMMA LoopMovesItself ==
  ASSUME Join \/ Signed
  PROVE  \/ \E label, f : GotoWith(Udp, label, f) \/ Goto(Udp, label)
         \/ UNCHANGED <<pc, frame>>
<1>1. ASSUME Return(Udp) PROVE \E label, f : GotoWith(Udp, label, f)
  BY <1>1 DEF Return
<1>2. CASE Join
  BY <1>1, <1>2
  DEF Join, JoinRequest, GetUser, RegisterNew, JoinProof, Proven, Register, EnsureInSubnet,
      RebindDesired, AutoApprove, DesiredOf, Answer, Reply, RequestAddress
<1>3. CASE Signed
  BY <1>1, <1>3 DEF Signed, Verify, Heard, StartCommand
<1> QED
  BY <1>2, <1>3

LEMMA StoreChanges ==
  ASSUME TypeOK, [Next]_vars
  PROVE  StoreStep \/ Restart
<1>1. ASSUME Signed PROVE StoreStep
  BY <1>1, NothingSaved DEF Signed, Verify, Heard
<1>2. ASSUME UNCHANGED vars PROVE StoreStep
  BY <1>2 DEF vars, StoreStep
<1> QED
  BY <1>1, <1>2, JoinChanges, HandleChanges DEF Next

-----------------------------------------------------------------------------
(* No machine outlives its user, whatever runs beside what.                *)

LEMMA ChangedOwners ==
  ASSUME TypeOK, NoOrphans(reg), NEW r, Changed(r)
  PROVE  NoOrphans(r)
<1>1. reg \in RegistryType
  BY DEF TypeOK, StoreOK
<1>2. CASE \E c \in Claim : r = RegisterJoin(reg, c)
  BY <1>1, <1>2, RegisterJoinOwners
<1>3. ASSUME NEW u \in User, NEW n \in Name \cup {NoName},
             \/ CanAllow(reg, u, n) /\ r = Allow(reg, u, n)
             \/ Exists(reg, u, n) /\ (r = Block(reg, u, n) \/ r = Unblock(reg, u, n))
      PROVE  NoOrphans(r)
  BY <1>1, <1>3, AllowInherits, BlockInherits, UnblockInherits, NoOneLeft
<1>4. ASSUME NEW u \in User, NEW n \in Name \cup {NoName}, r = Deny(reg, u, n)
      PROVE  NoOrphans(r)
  BY <1>1, <1>4, DenyOwners
<1>5. ASSUME NEW u \in User, NEW n \in Name \cup {NoName}, NEW target,
             r = AddGrant(reg, u, n, target) \/ r = Revoke(reg, u, n, target)
      PROVE  NoOrphans(r)
  BY <1>1, <1>5, GrantsInherit, NoOneLeft
<1>6. ASSUME NEW u \in User, NEW n \in Name, NEW a \in Address,
             HasMachine(reg, u, n), r = SetMachineIP(reg, u, n, a)
      PROVE  NoOrphans(r)
  BY <1>1, <1>6, SetMachineIPOwners
<1>7. ASSUME NEW t \in Thread, NEW u \in User, NEW n \in Name \cup {NoName},
             Operation(t, u, n, r)
      PROVE  NoOrphans(r)
  BY <1>3, <1>4, <1>5, <1>6, <1>7 DEF Operation
<1> QED
  BY <1>2, <1>7 DEF Changed

LEMMA OwnersStep ==
  ASSUME TypeOK, NoOrphanMachines, [Next]_vars
  PROVE  NoOrphanMachines'
<1>1. NoOrphans(reg) /\ NoOrphans(disk) /\ disk \in RegistryType
  BY DEF NoOrphanMachines, Everywhere, TypeOK, StoreOK
<1>2. CASE UNCHANGED <<reg, disk>>
  BY <1>1, <1>2 DEF NoOrphanMachines, Everywhere
<1>3. ASSUME NEW r, Changed(r), SaveWorks(r) \/ SaveFails(r) PROVE NoOrphanMachines'
  <2>1. NoOrphans(r)
    BY <1>1, <1>3, ChangedOwners
  <2>2. reg' = r /\ disk' \in {disk, r}
    BY <1>3 DEF SaveWorks, SaveFails
  <2> QED BY <1>1, <2>1, <2>2 DEF NoOrphanMachines, Everywhere
<1>4. CASE Restart
  <2>1. NoOrphans(EnsureAdmin(disk))
    BY <1>1, EnsureAdminInherits, NoOneLeft
  <2> QED BY <1>4, <2>1 DEF Restart, NoOrphanMachines, Everywhere
<1> QED
  BY <1>2, <1>3, <1>4, StoreChanges DEF StoreStep

\* deny of a user takes the user's machines with it in memory and on disk, and
\* neither a join or a command that was under way, nor a failed save, nor a
\* restart brings one of them back without its user: NoOrphanMachines is an
\* invariant for any number of threads, faults and restarts.
THEOREM NoMachineOutlivesItsUser == Spec => []NoOrphanMachines
<1>1. Init => NoOrphanMachines
  <2>1. NoOrphans(EmptyRegistry) /\ EmptyRegistry \in RegistryType
    BY EmptyRegistryType DEF NoOrphans, EmptyRegistry, Used
  <2>2. NoOrphans(EnsureAdmin(EmptyRegistry))
    BY <2>1, EnsureAdminInherits, NoOneLeft
  <2> QED BY <2>2 DEF Init, NoOrphanMachines, Everywhere
<1>2. TypeOK /\ NoOrphanMachines /\ [Next]_vars => NoOrphanMachines'
  BY OwnersStep
<1> QED
  BY <1>1, <1>2, TypeCorrect, PTL DEF Spec

-----------------------------------------------------------------------------
(* While allocations take turns no address is given twice.                 *)

\* Between AllocateIP and SetMachineIP no second handler stands there, too,
\* as if one lock were held around the two calls.  (The socket loop alone does
\* so; a console command beside it need not, see the run duplicate_address.)
AssignsAlone == \A t, u \in Thread : pc[t] = "assign" /\ pc[u] = "assign" => t = u

\* The address that a handler is about to assign is still free.  It was free
\* when Allocate looked, and no other call gives an address.
PickIsFree == \A t \in Thread : pc[t] = "assign" => Unheld(reg, frame[t].ip)

AddressInv == AddressesUnique /\ PickIsFree

LEMMA ChangedUnique ==
  ASSUME TypeOK, AddressInv, NEW r, Changed(r)
  PROVE  UniqueIP(r)
<1>1. reg \in RegistryType /\ UniqueIP(reg)
  BY DEF TypeOK, StoreOK, AddressInv, AddressesUnique, Everywhere
<1>2. CASE \E c \in Claim : r = RegisterJoin(reg, c)
  BY <1>1, <1>2, RegisterJoinUnique
<1>3. ASSUME NEW u \in User, NEW n \in Name \cup {NoName},
             \/ CanAllow(reg, u, n) /\ r = Allow(reg, u, n)
             \/ Exists(reg, u, n) /\ (r = Block(reg, u, n) \/ r = Unblock(reg, u, n))
      PROVE  UniqueIP(r)
  BY <1>1, <1>3, AllowInherits, BlockInherits, UnblockInherits, InheritedIPsAreUnique
<1>4. ASSUME NEW u \in User, NEW n \in Name \cup {NoName}, r = Deny(reg, u, n)
      PROVE  UniqueIP(r)
  <2> DEFINE gone == IF n = NoName THEN SlotsOfUser(reg, u) ELSE {}
  <2>1. InheritsFrom(reg, Used(reg) \ gone, r)
    BY <1>1, <1>4, DenyInherits
  <2> HIDE DEF gone
  <2> QED BY <1>1, <2>1, InheritsWeakens, InheritedIPsAreUnique
<1>5. ASSUME NEW u \in User, NEW n \in Name \cup {NoName}, NEW target,
             r = AddGrant(reg, u, n, target) \/ r = Revoke(reg, u, n, target)
      PROVE  UniqueIP(r)
  BY <1>1, <1>5, GrantsInherit, InheritedIPsAreUnique
<1>6. ASSUME NEW t \in Thread, pc[t] = "assign",
             frame[t].user \in User, frame[t].name \in Name, frame[t].ip \in Address,
             HasMachine(reg, frame[t].user, frame[t].name),
             r = SetMachineIP(reg, frame[t].user, frame[t].name, frame[t].ip)
      PROVE  UniqueIP(r)
  <2>1. Unheld(reg, frame[t].ip)
    BY <1>6 DEF AddressInv, PickIsFree
  <2> QED BY <1>1, <1>6, <2>1, SetMachineIPUnique
<1>7. ASSUME NEW t \in Thread, NEW u \in User, NEW n \in Name \cup {NoName},
             u = frame[t].user, n = frame[t].name, Operation(t, u, n, r)
      PROVE  UniqueIP(r)
  BY <1>3, <1>4, <1>5, <1>6, <1>7 DEF Operation
<1> QED
  BY <1>2, <1>7 DEF Changed

\* Only Allocate leads to "assign".
LEMMA PickStep ==
  ASSUME TypeOK, [Next]_vars, NEW t \in Thread, pc'[t] = "assign"
  PROVE  \/ Allocate(t)
         \/ UNCHANGED <<pc[t], frame[t]>>
<1>1. pc \in [Thread -> Label] /\ frame \in [Thread -> Frame \cup {NoFrame}] /\ Udp \in Thread
  BY ThreadsIncludeUdp DEF TypeOK, ThreadsOK
<1>2. ASSUME NEW label, NEW f, GotoWith(t, label, f) PROVE label = "assign"
  BY <1>1, <1>2 DEF GotoWith
<1>3. ASSUME NEW label, Goto(t, label) PROVE label = "assign"
  BY <1>1, <1>3 DEF Goto
<1>4. ~ Return(t)
  BY <1>2 DEF Return
<1>5. ASSUME NEW origin, NEW pin, RequestAddress(t, origin, pin) PROVE FALSE
  BY <1>2, <1>5 DEF RequestAddress
<1>6. ASSUME NEW c, StartCommand(t, c) PROVE FALSE
  BY <1>2, <1>6 DEF StartCommand
<1>7. ASSUME AfterRefusal(t), frame[t].origin \in Origin PROVE FALSE
  BY <1>3, <1>4, <1>7 DEF AfterRefusal, Origin
<1>8. CASE UNCHANGED <<pc[t], frame[t]>>
  BY <1>8
<1>9. CASE t = Udp /\ Join
  BY <1>1, <1>2, <1>3, <1>4, <1>5, <1>8, <1>9
  DEF Join, JoinRequest, GetUser, RegisterNew, JoinProof, Proven, Register, EnsureInSubnet,
      RebindDesired, AutoApprove, DesiredOf, Answer, Reply
<1>10. CASE t # Udp /\ (Join \/ Signed)
  BY <1>1, <1>8, <1>10, LoopMovesItself DEF GotoWith, Goto
<1>11. CASE t = Udp /\ Signed
  BY <1>2, <1>4, <1>6, <1>8, <1>11 DEF Signed, Verify, Heard
<1>12. CASE Assign(t)
  <2>1. frame[t].origin \in Origin
    BY <1>1, <1>12, AtLabel, FrameFields DEF Assign, At
  <2>2. AfterAssign(frame[t].origin) # "assign"
    BY <2>1 DEF AfterAssign, Origin
  <2> QED
    BY <1>2, <1>3, <1>7, <1>12, <2>1, <2>2 DEF Assign
<1>13. CASE Handle(t)
  BY <1>2, <1>3, <1>4, <1>5, <1>6, <1>12, <1>13
  DEF Handle, ConsoleCommand, AllowRead, DoAllow, DoUnblock, DoGrant, Call,
      ApproveRead, Notify, LookUpEndpoint, RememberPush, RevokeTo, ListGrants,
      RevokeListed, DenyRead, DoDeny, DoBlock, Broadcast
<1>14. ASSUME NEW s \in Thread, s # t, Handle(s) PROVE UNCHANGED <<pc[t], frame[t]>>
  BY <1>1, <1>14, HandlerMovesItself DEF GotoWith, Goto
<1>15. CASE Restart
  BY <1>1, <1>15 DEF Restart
<1>16. CASE UNCHANGED vars
  BY <1>8, <1>16 DEF vars
<1> QED
  BY <1>8, <1>9, <1>10, <1>11, <1>13, <1>14, <1>15, <1>16 DEF Next

\* Apart from the handler that assigns it, no call gives an address.
LEMMA ChangedUnheld ==
  ASSUME TypeOK, NEW a \in Address, Unheld(reg, a), NEW r, Changed(r),
         \A t \in Thread : pc[t] = "assign" => pc'[t] = "assign"
  PROVE  Unheld(r, a)
<1>1. reg \in RegistryType /\ a # NoAddress
  BY NonesAreOutside DEF TypeOK, StoreOK, Address
<1>2. ASSUME NEW from \in SUBSET Used(reg), InheritsFrom(reg, from, r) PROVE Unheld(r, a)
  <2>1. PICK f \in [Used(r) -> from] :
          \A i \in Used(r) : r.machines[i].ip = reg.machines[f[i]].ip
    BY <1>2 DEF InheritsFrom
  <2>2. \A i \in Used(r) : f[i] \in Used(reg)
    OBVIOUS
  <2> QED BY <2>1, <2>2 DEF Unheld
<1>3. ASSUME Inherits(reg, r) PROVE Unheld(r, a)
  BY <1>2, <1>3 DEF Inherits
<1>4. CASE \E c \in Claim : r = RegisterJoin(reg, c)
  BY <1>1, <1>4, RegisterJoinAddresses DEF Unheld
<1>5. ASSUME NEW u \in User, NEW n \in Name \cup {NoName},
             \/ CanAllow(reg, u, n) /\ r = Allow(reg, u, n)
             \/ Exists(reg, u, n) /\ (r = Block(reg, u, n) \/ r = Unblock(reg, u, n))
      PROVE  Unheld(r, a)
  BY <1>1, <1>3, <1>5, AllowInherits, BlockInherits, UnblockInherits
<1>6. ASSUME NEW u \in User, NEW n \in Name \cup {NoName}, r = Deny(reg, u, n)
      PROVE  Unheld(r, a)
  <2> DEFINE gone == IF n = NoName THEN SlotsOfUser(reg, u) ELSE {}
  <2>1. InheritsFrom(reg, Used(reg) \ gone, r)
    BY <1>1, <1>6, DenyInherits
  <2> HIDE DEF gone
  <2> QED BY <1>2, <2>1
<1>7. ASSUME NEW u \in User, NEW n \in Name \cup {NoName}, NEW target,
             r = AddGrant(reg, u, n, target) \/ r = Revoke(reg, u, n, target)
      PROVE  Unheld(r, a)
  BY <1>1, <1>3, <1>7, GrantsInherit
<1>8. ASSUME NEW t \in Thread, NEW u \in User, NEW n \in Name \cup {NoName},
             Operation(t, u, n, r)
      PROVE  Unheld(r, a)
  BY <1>5, <1>6, <1>7, <1>8 DEF Operation
<1> QED
  BY <1>4, <1>8 DEF Changed

LEMMA AddressStep ==
  ASSUME TypeOK, AssignsAlone, AddressInv, [Next]_vars
  PROVE  AddressInv'
<1>1. UniqueIP(reg) /\ UniqueIP(disk) /\ disk \in RegistryType
  BY DEF AddressInv, AddressesUnique, Everywhere, TypeOK, StoreOK
<1>2. AddressesUnique'
  <2>1. CASE UNCHANGED <<reg, disk>>
    BY <1>1, <2>1 DEF AddressesUnique, Everywhere
  <2>2. ASSUME NEW r, Changed(r), SaveWorks(r) \/ SaveFails(r) PROVE AddressesUnique'
    <3>1. UniqueIP(r)
      BY <2>2, ChangedUnique
    <3>2. reg' = r /\ disk' \in {disk, r}
      BY <2>2 DEF SaveWorks, SaveFails
    <3> QED BY <1>1, <3>1, <3>2 DEF AddressesUnique, Everywhere
  <2>3. CASE Restart
    <3>1. UniqueIP(EnsureAdmin(disk))
      BY <1>1, EnsureAdminInherits, InheritedIPsAreUnique
    <3> QED BY <2>3, <3>1 DEF Restart, AddressesUnique, Everywhere
  <2> QED BY <2>1, <2>2, <2>3, StoreChanges DEF StoreStep
<1>3. PickIsFree'
  <2> SUFFICES ASSUME NEW t \in Thread, pc'[t] = "assign" PROVE Unheld(reg', frame'[t].ip)
    BY DEF PickIsFree
  <2>1. /\ reg \in RegistryType /\ subnet \in Subnet
        /\ pc \in [Thread -> Label] /\ frame \in [Thread -> Frame \cup {NoFrame}]
    BY DEF TypeOK, ThreadsOK, StoreOK, MemoryOK
  <2>2. CASE UNCHANGED <<pc[t], frame[t]>>
    <3> DEFINE a == frame[t].ip
    <3>1. Unheld(reg, a) /\ a \in Address
      BY <2>2, AtLabel DEF AddressInv, PickIsFree, LocalsOK
    <3>2. \A s \in Thread : pc[s] = "assign" => pc'[s] = "assign"
      BY <2>2 DEF AssignsAlone
    <3> HIDE DEF a
    <3>3. ASSUME UNCHANGED <<reg, disk>> PROVE Unheld(reg', a)
      BY <3>1, <3>3 DEF Unheld, Used
    <3>4. ASSUME NEW r, Changed(r), SaveWorks(r) \/ SaveFails(r) PROVE Unheld(reg', a)
      <4>1. Unheld(r, a)
        BY <3>1, <3>2, <3>4, ChangedUnheld
      <4> QED BY <3>4, <4>1 DEF SaveWorks, SaveFails
    <3>5. ~ Restart
      BY <2>1 DEF Restart
    <3>6. Unheld(reg', a)
      BY <3>3, <3>4, <3>5, StoreChanges DEF StoreStep
    <3> QED BY <2>2, <3>6 DEF a
  <2>3. CASE Allocate(t)
    <3> DEFINE f == frame[t]
               a == AllocateIP(reg, subnet, f.pin)
    <3>1. f \in Frame /\ f.pin \in Nat /\ f.origin \in Origin
      BY <2>3, AtLabel, FrameFields DEF Allocate, At
    <3>2. reg' = reg
      BY <2>3 DEF Allocate, ReadOnly
    <3>3. ~ AfterRefusal(t)
      BY <2>1, <3>1 DEF AfterRefusal, Origin, Goto, Return, GotoWith
    <3>4. CanAllocate(reg, subnet, f.pin) /\ GotoWith(t, "assign", [f EXCEPT !.ip = a])
      BY <2>3, <3>3 DEF Allocate
    <3>5. frame'[t].ip = a
      BY <2>1, <3>1, <3>4 DEF GotoWith, Frame
    <3>6. Unheld(reg, a)
      BY <2>1, <3>1, <3>4, AllocatedIsFree DEF Unheld
    <3> QED BY <3>2, <3>5, <3>6 DEF Unheld, Used
  <2> QED BY <2>2, <2>3, PickStep
<1> QED
  BY <1>2, <1>3 DEF AddressInv

LEMMA AddressAlways == Spec /\ []AssignsAlone => []AddressInv
<1>1. Init => AddressInv
  <2> SUFFICES ASSUME Init PROVE AddressInv
    OBVIOUS
  <2>1. UniqueIP(EmptyRegistry) /\ EmptyRegistry \in RegistryType
    BY EmptyRegistryType DEF UniqueIP, EmptyRegistry, Used
  <2>2. UniqueIP(EnsureAdmin(EmptyRegistry))
    BY <2>1, EnsureAdminInherits, InheritedIPsAreUnique
  <2>3. \A t \in Thread : pc[t] # "assign"
    BY DEF Init
  <2> QED
    BY <2>2, <2>3 DEF Init, AddressInv, AddressesUnique, Everywhere, PickIsFree
<1>2. TypeOK /\ AssignsAlone /\ AddressInv /\ [Next]_vars => AddressInv'
  BY AddressStep
<1> QED
  BY <1>1, <1>2, TypeCorrect, PTL DEF Spec

\* While allocations take turns, no two machines ever hold one address, in
\* memory or on disk, for any number of threads, machines, subnets, failed saves
\* and restarts, and whatever else runs beside an allocation: AddressesUnique is
\* an invariant.  (Without that it is not, see the run duplicate_address.)
THEOREM AllocationsInTurnKeepAddressesUnique ==
  Spec /\ []AssignsAlone => []AddressesUnique
<1>1. AddressInv => AddressesUnique
  BY DEF AddressInv
<1> QED
  BY <1>1, AddressAlways, PTL

-----------------------------------------------------------------------------
(* One entry per key and one key per name, whatever runs beside what.      *)

\* A node that changes its config keeps its user.
ClaimsKeepUser == \A c, d \in Claims : c.key = d.key => c.user = d.user

\* What a join is about to register is the claim of a node.
RegistersClaim == Joining => ClaimOf(frame[Udp]) \in Claims

DistinctKeys(r) ==
  \A i, j \in Used(r) : r.machines[i].key = r.machines[j].key => i = j

DistinctNames(r) ==
  \A i, j \in Used(r) :
    r.machines[i].user = r.machines[j].user /\ r.machines[i].name = r.machines[j].name
      => i = j

ClaimedByNodes(r) ==
  \A i \in Used(r) :
    \E c \in Claims : c.user = r.machines[i].user /\ c.key = r.machines[i].key

Identified(r) == DistinctKeys(r) /\ DistinctNames(r) /\ ClaimedByNodes(r)

\* The machines of q are among those of r, under the same names and keys.
SameIdentities(r, q) ==
  \E f \in [Used(q) -> Used(r)] :
    /\ \A i, j \in Used(q) : f[i] = f[j] => i = j
    /\ \A i \in Used(q) : /\ q.machines[i].user = r.machines[f[i]].user
                          /\ q.machines[i].name = r.machines[f[i]].name
                          /\ q.machines[i].key = r.machines[f[i]].key

LEMMA SameSlotsSameIdentities ==
  ASSUME NEW r, NEW q, Used(q) = Used(r),
         \A i \in Used(r) : /\ q.machines[i].user = r.machines[i].user
                            /\ q.machines[i].name = r.machines[i].name
                            /\ q.machines[i].key = r.machines[i].key
  PROVE  SameIdentities(r, q)
<1> DEFINE f == [i \in Used(q) |-> i]
<1>1. f \in [Used(q) -> Used(r)] /\ \A i \in Used(q) : f[i] = i
  OBVIOUS
<1> HIDE DEF f
<1> QED
  BY <1>1 DEF SameIdentities

LEMMA IdentitiesInherit ==
  ASSUME NEW r, NEW q, Identified(r), SameIdentities(r, q)
  PROVE  Identified(q)
<1>1. PICK f \in [Used(q) -> Used(r)] :
        /\ \A i, j \in Used(q) : f[i] = f[j] => i = j
        /\ \A i \in Used(q) : /\ q.machines[i].user = r.machines[f[i]].user
                              /\ q.machines[i].name = r.machines[f[i]].name
                              /\ q.machines[i].key = r.machines[f[i]].key
  BY DEF SameIdentities
<1>2. \A i \in Used(q) : f[i] \in Used(r)
  OBVIOUS
<1>3. DistinctKeys(q)
  BY <1>1, <1>2 DEF Identified, DistinctKeys
<1>4. DistinctNames(q)
  BY <1>1, <1>2 DEF Identified, DistinctNames
<1>5. ClaimedByNodes(q)
  BY <1>1, <1>2 DEF Identified, ClaimedByNodes
<1> QED
  BY <1>3, <1>4, <1>5 DEF Identified

\* Only a join adds a machine or changes a name.
LEMMA OperationKeepsIdentities ==
  ASSUME TypeOK, NEW t \in Thread, NEW u \in User, NEW n \in Name \cup {NoName},
         NEW r, Operation(t, u, n, r)
  PROVE  SameIdentities(reg, r)
<1>1. reg \in RegistryType
  BY DEF TypeOK, StoreOK
<1>2. ASSUME Restatused(reg, r) PROVE SameIdentities(reg, r)
  BY <1>2, SameSlotsSameIdentities DEF Restatused, SameMachine
<1>3. CASE CanAllow(reg, u, n) /\ r = Allow(reg, u, n)
  BY <1>1, <1>2, <1>3, AllowEffect
<1>4. CASE Exists(reg, u, n) /\ r = Block(reg, u, n)
  BY <1>1, <1>2, <1>4, BlockEffect
<1>5. CASE Exists(reg, u, n) /\ r = Unblock(reg, u, n)
  BY <1>1, <1>2, <1>5, UnblockEffect
<1>6. CASE r = Deny(reg, u, n)
  <2> DEFINE gone == Denied(reg, u, n)
  <2>1. TakenFrom(reg, gone, r)
    BY <1>1, <1>6, DenyEffect
  <2> HIDE DEF gone
  <2>2. PICK f \in [Used(r) -> Used(reg) \ gone] :
          /\ \A i, j \in Used(r) : f[i] = f[j] => i = j
          /\ \A i \in Used(r) : r.machines[i] = reg.machines[f[i]]
    BY <2>1 DEF TakenFrom
  <2>3. f \in [Used(r) -> Used(reg)]
    OBVIOUS
  <2> QED BY <2>2, <2>3 DEF SameIdentities
<1>7. ASSUME NEW target, r = AddGrant(reg, u, n, target) \/ r = Revoke(reg, u, n, target)
      PROVE  SameIdentities(reg, r)
  BY <1>1, <1>7, GrantEffect, SameSlotsSameIdentities
<1>8. ASSUME NEW a \in Address, HasMachine(reg, u, n), r = SetMachineIP(reg, u, n, a)
      PROVE  SameIdentities(reg, r)
  BY <1>1, <1>8, SetMachineIPFields, SameSlotsSameIdentities
<1> QED
  BY <1>3, <1>4, <1>5, <1>6, <1>7, <1>8 DEF Operation

\* Nobody but key k goes by the name n of user u.
GoesBy(r, u, n, k) ==
  \A i \in Used(r) : r.machines[i].user = u /\ r.machines[i].name = n => r.machines[i].key = k

\* A key that is known belongs to the claim's user, and so the name of an
\* accepted claim belongs to nobody else.
LEMMA JoinIdentified ==
  ASSUME ClaimsKeepUser, NEW r \in RegistryType, NEW c \in Claim, c \in Claims,
         NoOrphans(r), Identified(r), NEW fresh,
         ~ JoinIsBlocked(r, c), ~ JoinIsRefused(r, c, fresh)
  PROVE  Identified(RegisterJoin(r, c)) /\ GoesBy(RegisterJoin(r, c), c.user, c.name, c.key)
<1> DEFINE q == RegisterJoin(r, c)
<1>1. \A i \in Used(r) : r.machines[i].key = c.key => r.machines[i].user = c.user
  BY DEF ClaimsKeepUser, Identified, ClaimedByNodes
<1>2. \A i \in SlotsOfKey(r, c.key) : r.users[c.user] # "absent"
  BY <1>1 DEF NoOrphans, SlotsOfKey
<1>3. CASE JoinAppends(r, c)
  <2>1. SlotsOfKey(r, c.key) = {}
    BY <1>2, <1>3 DEF JoinAppends
  <2>2. \A i \in Used(r) : r.machines[i].key # c.key
    BY <2>1 DEF SlotsOfKey
  <2>3. \A i \in Used(r) : ~ (r.machines[i].user = c.user /\ r.machines[i].name = c.name)
    <3>1. CASE r.users[c.user] = "absent"
      BY <3>1 DEF NoOrphans
    <3>2. CASE r.users[c.user] # "absent"
      <4>1. ~ NameTaken(r, c)
        BY <2>1, <3>2 DEF JoinIsRefused
      <4> QED BY <2>2, <4>1 DEF NameTaken, SlotsNamed
    <3> QED BY <3>1, <3>2
  <2> DEFINE new == Min(Slot \ Used(r))
  <2>4. \A i \in Used(q) : \/ q.machines[i] = NewMachine(c) /\ i = new
                           \/ i \in Used(r) /\ q.machines[i] = r.machines[i]
    BY <1>3, AppendingJoin
  <2>5. /\ NewMachine(c).user = c.user
        /\ NewMachine(c).name = c.name
        /\ NewMachine(c).key = c.key
    BY DEF NewMachine
  <2> HIDE DEF q, new
  <2>6. DistinctKeys(q)
    BY <2>2, <2>4, <2>5 DEF Identified, DistinctKeys
  <2>7. DistinctNames(q)
    BY <2>3, <2>4, <2>5 DEF Identified, DistinctNames
  <2>8. ClaimedByNodes(q)
    BY <2>4, <2>5 DEF Identified, ClaimedByNodes
  <2>9. GoesBy(q, c.user, c.name, c.key)
    BY <2>3, <2>4, <2>5 DEF GoesBy
  <2> QED BY <2>6, <2>7, <2>8, <2>9 DEF Identified, q
<1>4. CASE ~ JoinAppends(r, c)
  <2> DEFINE k == ClaimedSlot(r, c)
  <2>1. /\ Used(q) = Used(r) /\ k \in Used(r)
        /\ \A i \in Used(r) :
             /\ q.machines[i].user = r.machines[i].user
             /\ q.machines[i].key = r.machines[i].key
             /\ q.machines[i].name = IF i = k THEN c.name ELSE r.machines[i].name
    BY <1>4, ReclaimingJoin
  <2>2. r.machines[k].key = c.key /\ r.machines[k].user = c.user
    BY <1>1, <1>4, <2>1, ClaimedSlotHasKey DEF JoinAppends, SlotsOfKey
  <2>3. ~ NameTaken(r, c) \/ r.machines[k].name = c.name
    BY <1>4 DEF JoinAppends, JoinIsRefused
  <2> HIDE DEF q, k
  <2>4. \A i \in Used(r) :
          r.machines[i].user = c.user /\ r.machines[i].name = c.name => i = k
    <3>1. CASE r.machines[k].name = c.name
      BY <2>1, <2>2, <3>1 DEF Identified, DistinctNames
    <3>2. CASE ~ NameTaken(r, c)
      BY <2>1, <2>2, <3>2 DEF NameTaken, SlotsNamed, Identified, DistinctKeys
    <3> QED BY <2>3, <3>1, <3>2
  <2>5. DistinctKeys(q)
    BY <2>1 DEF Identified, DistinctKeys
  <2>6. DistinctNames(q)
    BY <2>1, <2>2, <2>4 DEF Identified, DistinctNames
  <2>7. ClaimedByNodes(q)
    BY <2>1 DEF Identified, ClaimedByNodes
  <2>8. GoesBy(q, c.user, c.name, c.key)
    BY <2>1, <2>2, <2>4 DEF GoesBy
  <2> QED BY <2>5, <2>6, <2>7, <2>8 DEF Identified, q
<1> QED
  BY <1>3, <1>4

IdentityInv == Everywhere(Identified) /\ RegistersClaim

\* Joins begin with the claim of a node, and no other step leads to a label
\* from which a join registers.
LEMMA RegistersClaimStep ==
  ASSUME TypeOK, RegistersClaim, [Next]_vars
  PROVE  RegistersClaim'
<1> SUFFICES ASSUME Joining' PROVE ClaimOf(frame'[Udp]) \in Claims
  BY DEF RegistersClaim
<1> USE DEF Joining
<1>1. pc \in [Thread -> Label] /\ frame \in [Thread -> Frame \cup {NoFrame}] /\ Udp \in Thread
  BY ThreadsIncludeUdp DEF TypeOK, ThreadsOK
<1>2. ASSUME NEW c \in Claims, frame' = [frame EXCEPT ![Udp] = JoinFrame(c)]
      PROVE  ClaimOf(frame'[Udp]) \in Claims
  <2>1. frame'[Udp] = JoinFrame(c)
    BY <1>1, <1>2
  <2>2. ClaimOf(JoinFrame(c)) = c
    BY InputsAreTyped DEF ClaimOf, JoinFrame, Claim
  <2> QED BY <2>1, <2>2
<1>3. CASE UNCHANGED <<pc[Udp], frame[Udp]>>
  BY <1>3 DEF RegistersClaim, ClaimOf
<1>4. ASSUME NEW t \in Thread, NEW label, NEW f, GotoWith(t, label, f),
             label \notin {"getUser", "registerNew", "proven", "register"}
      PROVE  UNCHANGED <<pc[Udp], frame[Udp]>>
  BY <1>1, <1>4 DEF GotoWith
<1>5. ASSUME NEW t \in Thread, NEW label, Goto(t, label),
             label \notin {"getUser", "registerNew", "proven", "register"}
      PROVE  UNCHANGED <<pc[Udp], frame[Udp]>>
  BY <1>1, <1>5 DEF Goto
<1>6. ASSUME NEW t \in Thread, Return(t) PROVE UNCHANGED <<pc[Udp], frame[Udp]>>
  BY <1>4, <1>6 DEF Return
<1>7. ASSUME NEW t \in Thread, NEW origin, NEW pin, RequestAddress(t, origin, pin)
      PROVE  UNCHANGED <<pc[Udp], frame[Udp]>>
  BY <1>4, <1>7 DEF RequestAddress
<1>8. ASSUME NEW t \in Thread, NEW c, StartCommand(t, c)
      PROVE  UNCHANGED <<pc[Udp], frame[Udp]>>
  BY <1>4, <1>8 DEF StartCommand
<1>9. ASSUME NEW t \in Thread, AfterRefusal(t), frame[t].origin \in Origin
      PROVE  UNCHANGED <<pc[Udp], frame[Udp]>>
  BY <1>5, <1>6, <1>9 DEF AfterRefusal, Origin
<1>10. CASE Join
  <2>1. ASSUME NEW c \in Claims, JoinRequest(c) PROVE ClaimOf(frame'[Udp]) \in Claims
    BY <1>2, <1>3, <2>1 DEF JoinRequest, GotoWith
  <2>2. ASSUME NEW c \in Claims, NEW valid \in BOOLEAN, JoinProof(c, valid)
        PROVE  ClaimOf(frame'[Udp]) \in Claims
    BY <1>2, <1>3, <2>2 DEF JoinProof, GotoWith
  <2>3. CASE RegisterNew
    BY <1>1, <1>3, <1>6, <2>3 DEF RegisterNew
  <2>4. CASE Register
    <3>1. (\E f : GotoWith(Udp, "ensureInSubnet", f)) \/ Return(Udp)
      BY <2>4 DEF Register
    <3> QED BY <1>1, <1>3, <1>4, <1>6, <3>1
  <2>5. CASE EnsureInSubnet
    <3>1. UNCHANGED <<pc[Udp], frame[Udp]>>
      BY <1>1, <1>5, <1>7, <2>5 DEF EnsureInSubnet
    <3> QED BY <1>3, <3>1
  <2>6. CASE RebindDesired
    <3>1. UNCHANGED <<pc[Udp], frame[Udp]>>
      BY <1>1, <1>5, <1>7, <2>6 DEF RebindDesired
    <3> QED BY <1>3, <3>1
  <2>7. CASE AutoApprove \/ DesiredOf \/ Answer \/ Reply
    <3>1. UNCHANGED <<pc[Udp], frame[Udp]>>
      BY <1>1, <1>4, <1>5, <1>6, <1>7, <2>7 DEF AutoApprove, DesiredOf, Answer, Reply
    <3> QED BY <1>3, <3>1
  <2>8. CASE GetUser \/ Proven
    <3>1. Joining /\ frame'[Udp] = frame[Udp]
      BY <1>1, <1>6, <2>8 DEF GetUser, Proven, At, Goto
    <3> QED BY <3>1 DEF RegistersClaim, ClaimOf
  <2> QED BY <1>10, <2>1, <2>2, <2>3, <2>4, <2>5, <2>6, <2>7, <2>8 DEF Join
<1>11. CASE Signed
  <2>1. (\E f : GotoWith(Udp, "heard", f)) \/ Return(Udp) \/ \E c : StartCommand(Udp, c)
    BY <1>11 DEF Signed, Verify, Heard
  <2>2. UNCHANGED <<pc[Udp], frame[Udp]>>
    BY <1>1, <1>4, <1>6, <1>8, <2>1
  <2> QED BY <1>3, <2>2
<1>12. ASSUME NEW t \in Thread, Handle(t) PROVE UNCHANGED <<pc[Udp], frame[Udp]>>
  <2>1. CASE Assign(t) \/ Allocate(t)
    <3>1. frame[t].origin \in Origin
      BY <1>1, <2>1, AtLabel, FrameFields DEF Assign, Allocate, At
    <3>2. AfterAssign(frame[t].origin) \notin {"getUser", "registerNew", "proven", "register"}
      BY <3>1 DEF AfterAssign, Origin
    <3>3. CASE Assign(t)
      <4>1. ASSUME NEW f, GotoWith(t, "answer", f)
            PROVE  UNCHANGED <<pc[Udp], frame[Udp]>>
        BY <1>4, <4>1
      <4>2. ASSUME Goto(t, AfterAssign(frame[t].origin))
            PROVE  UNCHANGED <<pc[Udp], frame[Udp]>>
        BY <1>5, <3>2, <4>2
      <4>3. ASSUME AfterRefusal(t) PROVE UNCHANGED <<pc[Udp], frame[Udp]>>
        BY <1>9, <3>1, <4>3
      <4> QED BY <3>3, <4>1, <4>2, <4>3 DEF Assign
    <3>4. CASE Allocate(t)
      <4>1. ASSUME NEW f, GotoWith(t, "assign", f)
            PROVE  UNCHANGED <<pc[Udp], frame[Udp]>>
        BY <1>4, <4>1
      <4>2. ASSUME AfterRefusal(t) PROVE UNCHANGED <<pc[Udp], frame[Udp]>>
        BY <1>9, <3>1, <4>2
      <4> QED BY <3>4, <4>1, <4>2 DEF Allocate
    <3> QED
      BY <2>1, <3>3, <3>4
  <2>2. CASE \E c \in Commands : ConsoleCommand(t, c)
    BY <1>8, <2>2 DEF ConsoleCommand
  <2>3. CASE ListGrants(t) \/ RevokeListed(t)
    <3>1. Return(t) \/ \E f : GotoWith(t, "denyRead", f) \/ GotoWith(t, "revoke", f)
      BY <2>3 DEF ListGrants, RevokeListed
    <3> QED BY <1>4, <1>6, <3>1
  <2>4. CASE DoAllow(t) \/ DoUnblock(t) \/ DoGrant(t) \/ RevokeTo(t) \/ DoDeny(t) \/ DoBlock(t)
    <3>1. Return(t) \/ Goto(t, "broadcast") \/ Goto(t, "approveRead")
      BY <2>4 DEF DoAllow, DoUnblock, DoGrant, RevokeTo, DoDeny, DoBlock, Call
    <3> QED BY <1>5, <1>6, <3>1
  <2>5. CASE AllowRead(t) \/ ApproveRead(t) \/ DenyRead(t) \/ Broadcast(t)
    BY <1>5, <1>6, <1>7, <2>5 DEF AllowRead, ApproveRead, DenyRead, Broadcast
  <2>6. CASE Notify(t) \/ LookUpEndpoint(t) \/ RememberPush(t)
    BY <1>4, <1>5, <2>6 DEF Notify, LookUpEndpoint, RememberPush
  <2> QED BY <1>12, <2>1, <2>2, <2>3, <2>4, <2>5, <2>6 DEF Handle
<1>13. CASE Restart
  BY <1>1, <1>13 DEF Restart
<1>14. CASE UNCHANGED vars
  BY <1>3, <1>14 DEF vars
<1> QED
  BY <1>3, <1>10, <1>11, <1>12, <1>13, <1>14 DEF Next

LEMMA ChangedIdentified ==
  ASSUME ClaimsKeepUser, TypeOK, NoOrphanMachines, IdentityInv, NEW r, Changed(r)
  PROVE  Identified(r)
<1>1. reg \in RegistryType /\ NoOrphans(reg) /\ Identified(reg)
  BY DEF TypeOK, StoreOK, NoOrphanMachines, IdentityInv, Everywhere
<1>2. ASSUME NEW c \in Claim, Joining, c = ClaimOf(frame[Udp]),
             ~ JoinIsBlocked(reg, c), ~ JoinIsRefused(reg, c, pc[Udp] = "registerNew"),
             r = RegisterJoin(reg, c)
      PROVE  Identified(r)
  <2>1. c \in Claims
    BY <1>2 DEF IdentityInv, RegistersClaim
  <2> QED BY <1>1, <1>2, <2>1, JoinIdentified
<1>3. ASSUME NEW t \in Thread, NEW u \in User, NEW n \in Name \cup {NoName},
             Operation(t, u, n, r)
      PROVE  Identified(r)
  BY <1>1, <1>3, OperationKeepsIdentities, IdentitiesInherit
<1> QED
  BY <1>2, <1>3 DEF Changed

LEMMA IdentityStep ==
  ASSUME ClaimsKeepUser, TypeOK, NoOrphanMachines, IdentityInv, [Next]_vars
  PROVE  IdentityInv'
<1>1. Identified(reg) /\ Identified(disk) /\ disk \in RegistryType
  BY DEF IdentityInv, Everywhere, TypeOK, StoreOK
<1>2. RegistersClaim'
  BY RegistersClaimStep DEF IdentityInv
<1>3. CASE UNCHANGED <<reg, disk>>
  BY <1>1, <1>2, <1>3 DEF IdentityInv, Everywhere
<1>4. ASSUME NEW r, Changed(r), SaveWorks(r) \/ SaveFails(r) PROVE IdentityInv'
  <2>1. Identified(r)
    BY <1>4, ChangedIdentified
  <2>2. reg' = r /\ disk' \in {disk, r}
    BY <1>4 DEF SaveWorks, SaveFails
  <2> QED BY <1>1, <1>2, <2>1, <2>2 DEF IdentityInv, Everywhere
<1>5. CASE Restart
  <2>1. Identified(EnsureAdmin(disk))
    BY <1>1, EnsureAdminEffect, SameSlotsSameIdentities, IdentitiesInherit
  <2> QED BY <1>2, <1>5, <2>1 DEF Restart, IdentityInv, Everywhere
<1> QED
  BY <1>3, <1>4, <1>5, StoreChanges DEF StoreStep

LEMMA IdentityInit == Init => IdentityInv
<1> SUFFICES ASSUME Init PROVE IdentityInv
  OBVIOUS
<1>1. EmptyRegistry \in RegistryType /\ Used(EmptyRegistry) = {}
  BY EmptyRegistryType DEF EmptyRegistry, Used
<1>2. Used(EnsureAdmin(EmptyRegistry)) = {}
  BY <1>1, EnsureAdminEffect
<1>3. Identified(EnsureAdmin(EmptyRegistry))
  BY <1>2 DEF Identified, DistinctKeys, DistinctNames, ClaimedByNodes
<1>4. RegistersClaim
  BY ThreadsIncludeUdp DEF Init, RegistersClaim, Joining
<1> QED
  BY <1>3, <1>4 DEF Init, IdentityInv, Everywhere

LEMMA IdentityAlways ==
  ASSUME ClaimsKeepUser
  PROVE  Spec => []IdentityInv
<1>1. TypeOK /\ NoOrphanMachines /\ IdentityInv /\ [Next]_vars => IdentityInv'
  BY IdentityStep
<1> QED
  BY <1>1, IdentityInit, TypeCorrect, NoMachineOutlivesItsUser, PTL DEF Spec

LEMMA AtMostOne ==
  ASSUME NEW S, \A i, j \in S : i = j
  PROVE  Cardinality(S) <= 1
<1>1. CASE S = {}
  BY <1>1, FS_EmptySet
<1>2. CASE S # {}
  <2>1. PICK i : S = {i}
    BY <1>2
  <2>2. Cardinality({i}) = 1
    BY FS_Singleton
  <2> QED BY <2>1, <2>2
<1> QED
  BY <1>1, <1>2

\* No key ever has two entries, in memory or on disk, as long as every node
\* keeps its user: OneEntryPerKey is an invariant for any threads, names, pins,
\* failed saves and restarts.
THEOREM KeysAreNotRegisteredTwice ==
  ASSUME ClaimsKeepUser
  PROVE  Spec => []OneEntryPerKey
<1>1. ASSUME NEW r, Identified(r) PROVE UniqueKeys(r)
  <2>1. ASSUME NEW k \in Key PROVE Cardinality(SlotsOfKey(r, k)) <= 1
    <3>1. \A i, j \in SlotsOfKey(r, k) : i = j
      BY <1>1 DEF Identified, DistinctKeys, SlotsOfKey
    <3> HIDE DEF SlotsOfKey
    <3> QED BY <3>1, AtMostOne
  <2> QED BY <2>1 DEF UniqueKeys
<1>2. IdentityInv => OneEntryPerKey
  BY <1>1 DEF IdentityInv, Everywhere, OneEntryPerKey
<1> QED
  BY <1>2, IdentityAlways, PTL

\* No two machines of a user have one name, in memory or on disk, under the
\* same assumption: NamesUnique is an invariant.
THEOREM NamesAreNotShared ==
  ASSUME ClaimsKeepUser
  PROVE  Spec => []NamesUnique
<1>1. ASSUME NEW r, Identified(r) PROVE UniqueNames(r)
  <2>1. ASSUME NEW u \in User, NEW n \in Name PROVE Cardinality(SlotsNamed(r, u, n)) <= 1
    <3>1. \A i, j \in SlotsNamed(r, u, n) : i = j
      BY <1>1 DEF Identified, DistinctNames, SlotsNamed
    <3> HIDE DEF SlotsNamed
    <3> QED BY <3>1, AtMostOne
  <2> QED BY <2>1 DEF UniqueNames
<1>2. IdentityInv => NamesUnique
  BY <1>1 DEF IdentityInv, Everywhere, NamesUnique
<1> QED
  BY <1>2, IdentityAlways, PTL

-----------------------------------------------------------------------------
(* The reply of a join carries the address of the node that proved itself. *)

\* The loop is on its way from autoApprove to the address of the machine.
Approving ==
  \/ pc[Udp] = "desiredOf"
  \/ pc[Udp] \in {"allocate", "assign"} /\ frame[Udp].origin = "auto"

\* A handler has just begun, or serves a claim that RegisterJoin has not
\* accepted.
Unproven ==
  /\ frame[Udp].status \in {"none", "blocked"}
  /\ ~ Approving
  /\ Joining => frame[Udp].status = "none"

\* The handler goes on for the same machine and key; only an approval of a
\* pending machine changes the status that its reply will carry.
SameClaimant ==
  /\ pc[Udp] # "idle"
  /\ frame'[Udp].user = frame[Udp].user
  /\ frame'[Udp].name = frame[Udp].name
  /\ frame'[Udp].key = frame[Udp].key
  /\ \/ frame'[Udp].status = frame[Udp].status
     \/ Approving /\ ~ Approving'
  /\ Approving' => Approving \/ frame[Udp].status = "pending"
  /\ Joining' => Joining

\* RegisterJoin has accepted the claim.
Accepted ==
  LET c == ClaimOf(frame[Udp])
  IN  /\ Joining
      /\ ~ JoinIsBlocked(reg, c) /\ ~ JoinIsRefused(reg, c, FALSE)
      /\ reg' = RegisterJoin(reg, c)
      /\ frame'[Udp].user = c.user /\ frame'[Udp].name = c.name /\ frame'[Udp].key = c.key
      /\ pc'[Udp] = "ensureInSubnet"

LEMMA ClaimantStep ==
  ASSUME TypeOK, [Next]_vars
  PROVE  pc'[Udp] = "idle" \/ Unproven' \/ SameClaimant \/ Accepted
<1> SUFFICES ASSUME pc'[Udp] # "idle"
             PROVE  Unproven' \/ SameClaimant \/ Accepted
  OBVIOUS
<1> USE DEF Joining, Approving
<1>1. pc \in [Thread -> Label] /\ frame \in [Thread -> Frame \cup {NoFrame}] /\ Udp \in Thread
  BY ThreadsIncludeUdp DEF TypeOK, ThreadsOK
<1>2. CASE UNCHANGED <<pc[Udp], frame[Udp]>>
  BY <1>2 DEF SameClaimant
<1>3. ASSUME NEW label, NEW f, GotoWith(Udp, label, f)
      PROVE  pc'[Udp] = label /\ frame'[Udp] = f
  BY <1>1, <1>3 DEF GotoWith
<1>4. ASSUME NEW label, Goto(Udp, label)
      PROVE  pc'[Udp] = label /\ frame'[Udp] = frame[Udp]
  BY <1>1, <1>4 DEF Goto
<1>5. ~ Return(Udp)
  BY <1>3 DEF Return
<1>6. ASSUME pc[Udp] # "idle", NEW label, Goto(Udp, label),
             label \notin {"desiredOf", "allocate", "assign", "getUser", "registerNew",
                            "proven", "register"}
      PROVE  SameClaimant
  BY <1>4, <1>6 DEF SameClaimant
<1>7. ASSUME pc[Udp] # "idle", NEW origin \in {"subnet", "rebind", "approve"}, NEW pin,
             RequestAddress(Udp, origin, pin)
      PROVE  SameClaimant
  <2> DEFINE f == [frame[Udp] EXCEPT !.origin = origin, !.pin = pin]
  <2>1. frame[Udp] \in Frame
    BY <1>1, <1>7, AtLabel
  <2>2. /\ f.user = frame[Udp].user /\ f.name = frame[Udp].name /\ f.key = frame[Udp].key
        /\ f.status = frame[Udp].status /\ f.origin = origin
    BY <2>1 DEF Frame
  <2>3. pc'[Udp] = "allocate" /\ frame'[Udp] = f
    BY <1>3, <1>7 DEF RequestAddress
  <2> QED BY <1>7, <2>2, <2>3 DEF SameClaimant
<1>8. ASSUME NEW c, StartCommand(Udp, c) PROVE Unproven'
  <2>1. frame'[Udp] = CommandFrame(c) /\ pc'[Udp] \in {"allowRead", "revokeTo", "grantsOf"}
    BY <1>3, <1>8 DEF StartCommand
  <2>2. CommandFrame(c).status = "none"
    BY DEF CommandFrame
  <2> QED BY <2>1, <2>2 DEF Unproven
<1>9. ASSUME NEW c, NEW label \in {"getUser", "proven"},
             GotoWith(Udp, label, JoinFrame(c))
      PROVE  Unproven'
  <2>1. frame'[Udp] = JoinFrame(c) /\ pc'[Udp] = label
    BY <1>3, <1>9
  <2>2. JoinFrame(c).status = "none"
    BY DEF JoinFrame
  <2> QED BY <2>1, <2>2 DEF Unproven
<1>10. ASSUME pc[Udp] # "idle", AfterRefusal(Udp), frame[Udp].origin \in Origin
       PROVE  SameClaimant
  BY <1>5, <1>6, <1>10 DEF AfterRefusal, Origin
<1>11. CASE Join
  <2>1. ASSUME NEW c \in Claims, JoinRequest(c)
        PROVE  Unproven' \/ UNCHANGED <<pc[Udp], frame[Udp]>>
    BY <1>9, <2>1 DEF JoinRequest
  <2>2. ASSUME NEW c \in Claims, NEW valid \in BOOLEAN, JoinProof(c, valid)
        PROVE  Unproven' \/ UNCHANGED <<pc[Udp], frame[Udp]>>
    BY <1>9, <2>2 DEF JoinProof
  <2>3. ~ RegisterNew
    BY <1>5 DEF RegisterNew
  <2>4. CASE Register
    <3> DEFINE c == ClaimOf(frame[Udp])
    <3>1. frame[Udp] \in Frame
      BY <2>4, AtJoinLabel DEF Register, At, JoinLabel
    <3>2. \/ GotoWith(Udp, "ensureInSubnet", [frame[Udp] EXCEPT !.status = "blocked"])
          \/ /\ ~ JoinIsBlocked(reg, c) /\ ~ JoinIsRefused(reg, c, FALSE)
             /\ reg' = RegisterJoin(reg, c)
             /\ GotoWith(Udp, "ensureInSubnet",
                         [frame[Udp] EXCEPT !.status = JoinStatus(reg, c)])
      BY <1>5, <2>4 DEF Register, SaveWorks
    <3>3. CASE GotoWith(Udp, "ensureInSubnet", [frame[Udp] EXCEPT !.status = "blocked"])
      <4>1. frame'[Udp].status = "blocked" /\ pc'[Udp] = "ensureInSubnet"
        BY <1>3, <3>1, <3>3 DEF Frame
      <4> QED BY <4>1 DEF Unproven
    <3>4. ASSUME NEW s, GotoWith(Udp, "ensureInSubnet", [frame[Udp] EXCEPT !.status = s])
          PROVE  /\ pc'[Udp] = "ensureInSubnet"
                 /\ frame'[Udp].user = c.user
                 /\ frame'[Udp].name = c.name
                 /\ frame'[Udp].key = c.key
      BY <1>3, <3>1, <3>4 DEF Frame, ClaimOf
    <3>5. Joining
      BY <2>4 DEF Register, At
    <3> QED BY <3>2, <3>3, <3>4, <3>5 DEF Accepted
  <2>5. CASE EnsureInSubnet
    <3>1. \/ Goto(Udp, "rebindDesired")
          \/ \E pin : RequestAddress(Udp, "subnet", pin)
      BY <2>5 DEF EnsureInSubnet
    <3> QED BY <1>6, <1>7, <2>5, <3>1 DEF EnsureInSubnet, At
  <2>6. CASE RebindDesired
    <3>1. \/ Goto(Udp, "autoApprove")
          \/ \E pin : RequestAddress(Udp, "rebind", pin)
      BY <2>6 DEF RebindDesired
    <3> QED BY <1>6, <1>7, <2>6, <3>1 DEF RebindDesired, At
  <2>7. CASE AutoApprove
    <3>1. \/ frame[Udp].status = "pending" /\ Goto(Udp, "desiredOf")
          \/ Goto(Udp, "answer")
      BY <2>7 DEF AutoApprove
    <3>2. pc[Udp] # "idle"
      BY <2>7 DEF AutoApprove, At
    <3>3. CASE frame[Udp].status = "pending" /\ Goto(Udp, "desiredOf")
      BY <1>4, <3>2, <3>3 DEF SameClaimant
    <3> QED BY <1>6, <3>1, <3>2, <3>3
  <2>8. CASE DesiredOf
    <3>1. PICK pin : RequestAddress(Udp, "auto", pin)
      BY <2>8 DEF DesiredOf
    <3> DEFINE f == [frame[Udp] EXCEPT !.origin = "auto", !.pin = pin]
    <3>2. frame[Udp] \in Frame /\ pc[Udp] = "desiredOf"
      BY <2>8, AtJoinLabel DEF DesiredOf, At, JoinLabel
    <3>3. /\ f.user = frame[Udp].user /\ f.name = frame[Udp].name /\ f.key = frame[Udp].key
          /\ f.status = frame[Udp].status /\ f.origin = "auto"
      BY <3>2 DEF Frame
    <3>4. pc'[Udp] = "allocate" /\ frame'[Udp] = f
      BY <1>3, <3>1 DEF RequestAddress
    <3> QED BY <3>2, <3>3, <3>4 DEF SameClaimant
  <2>9. CASE Answer
    <3> DEFINE f == [frame[Udp] EXCEPT !.ip = CurrentIP(Udp)]
    <3>1. frame[Udp] \in Frame /\ pc[Udp] = "answer"
      BY <2>9, AtJoinLabel DEF Answer, At, JoinLabel
    <3>2. /\ f.user = frame[Udp].user /\ f.name = frame[Udp].name /\ f.key = frame[Udp].key
          /\ f.status = frame[Udp].status
      BY <3>1 DEF Frame
    <3>3. pc'[Udp] = "reply" /\ frame'[Udp] = f
      BY <1>3, <2>9 DEF Answer
    <3> QED BY <3>1, <3>2, <3>3 DEF SameClaimant
  <2>10. ~ Reply
    BY <1>5 DEF Reply
  <2>11. CASE GetUser \/ Proven
    <3>1. /\ pc[Udp] \in {"getUser", "proven"}
          /\ \E label \in {"registerNew", "register"} : Goto(Udp, label)
      BY <1>5, <2>11 DEF GetUser, Proven, At
    <3> QED BY <1>4, <3>1 DEF SameClaimant
  <2> QED BY <1>2, <1>11, <2>1, <2>2, <2>3, <2>4, <2>5, <2>6, <2>7, <2>8, <2>9, <2>10, <2>11 DEF Join
<1>12. CASE Signed
  <2>1. (\E c : StartCommand(Udp, c)) \/ \E u, a, k : GotoWith(Udp, "heard", SignedFrame(u, a, k))
    BY <1>5, <1>12 DEF Signed, Verify, Heard
  <2>2. ASSUME NEW u, NEW a, NEW k, GotoWith(Udp, "heard", SignedFrame(u, a, k))
        PROVE  Unproven'
    <3>1. frame'[Udp] = SignedFrame(u, a, k) /\ pc'[Udp] = "heard"
      BY <1>3, <2>2
    <3>2. SignedFrame(u, a, k).status = "none"
      BY DEF SignedFrame
    <3> QED BY <3>1, <3>2 DEF Unproven
  <2> QED BY <1>8, <2>1, <2>2
<1>13. CASE Allocate(Udp) \/ Assign(Udp)
  <2>1. frame[Udp] \in Frame /\ frame[Udp].origin \in Origin /\ pc[Udp] \in {"allocate", "assign"}
    BY <1>13, AtLabel, ThreadsIncludeUdp, FrameFields DEF Allocate, Assign, At
  <2>2. ASSUME NEW a, GotoWith(Udp, "assign", [frame[Udp] EXCEPT !.ip = a])
        PROVE  SameClaimant
    <3> DEFINE f == [frame[Udp] EXCEPT !.ip = a]
    <3>1. /\ f.user = frame[Udp].user /\ f.name = frame[Udp].name /\ f.key = frame[Udp].key
          /\ f.status = frame[Udp].status /\ f.origin = frame[Udp].origin
      BY <2>1 DEF Frame
    <3>2. pc'[Udp] = "assign" /\ frame'[Udp] = f
      BY <1>3, <2>2
    <3> QED BY <2>1, <3>1, <3>2 DEF SameClaimant
  <2>3. ASSUME frame[Udp].origin = "auto",
               GotoWith(Udp, "answer", [frame[Udp] EXCEPT !.status = "active"])
        PROVE  SameClaimant
    <3> DEFINE f == [frame[Udp] EXCEPT !.status = "active"]
    <3>1. f.user = frame[Udp].user /\ f.name = frame[Udp].name /\ f.key = frame[Udp].key
      BY <2>1 DEF Frame
    <3>2. pc'[Udp] = "answer" /\ frame'[Udp] = f
      BY <1>3, <2>3
    <3> QED BY <2>1, <2>3, <3>1, <3>2 DEF SameClaimant
  <2>4. ASSUME Goto(Udp, AfterAssign(frame[Udp].origin)) PROVE SameClaimant
    <3>1. AfterAssign(frame[Udp].origin) \in {"rebindDesired", "autoApprove", "answer", "notify"}
      BY <2>1 DEF AfterAssign, Origin
    <3> QED BY <1>6, <2>1, <2>4, <3>1
  <2>5. ASSUME AfterRefusal(Udp) PROVE SameClaimant
    BY <1>10, <2>1, <2>5
  <2> QED BY <1>13, <2>2, <2>3, <2>4, <2>5 DEF Allocate, Assign
<1>14. CASE ListGrants(Udp) \/ RevokeListed(Udp)
  <2>1. frame[Udp] \in Frame /\ pc[Udp] # "idle"
    BY <1>14, AtLabel, ThreadsIncludeUdp DEF ListGrants, RevokeListed, At
  <2>2. ASSUME NEW label \in {"denyRead", "revoke"}, NEW left,
               GotoWith(Udp, label, [frame[Udp] EXCEPT !.todo = left])
        PROVE  SameClaimant
    <3> DEFINE f == [frame[Udp] EXCEPT !.todo = left]
    <3>1. /\ f.user = frame[Udp].user /\ f.name = frame[Udp].name /\ f.key = frame[Udp].key
          /\ f.status = frame[Udp].status
      BY <2>1 DEF Frame
    <3>2. pc'[Udp] = label /\ frame'[Udp] = f
      BY <1>3, <2>2
    <3> QED BY <2>1, <3>1, <3>2 DEF SameClaimant
  <2>3. \E left : \/ GotoWith(Udp, "denyRead", [frame[Udp] EXCEPT !.todo = left])
                  \/ GotoWith(Udp, "revoke", [frame[Udp] EXCEPT !.todo = left])
    <3>1. CASE ListGrants(Udp)
      BY <3>1 DEF ListGrants
    <3>2. CASE RevokeListed(Udp)
      BY <1>5, <3>2 DEF RevokeListed
    <3> QED BY <1>14, <3>1, <3>2
  <2> QED BY <2>2, <2>3
<1>15. CASE \/ DoAllow(Udp) \/ DoUnblock(Udp) \/ DoGrant(Udp) \/ RevokeTo(Udp)
            \/ DoDeny(Udp) \/ DoBlock(Udp)
  <2>1. Goto(Udp, "broadcast") \/ Goto(Udp, "approveRead")
    BY <1>5, <1>15 DEF DoAllow, DoUnblock, DoGrant, RevokeTo, DoDeny, DoBlock, Call
  <2>2. pc[Udp] # "idle"
    BY <1>15 DEF DoAllow, DoUnblock, DoGrant, RevokeTo, DoDeny, DoBlock, At
  <2> QED BY <1>6, <2>1, <2>2
<1>16. CASE \/ AllowRead(Udp) \/ ApproveRead(Udp) \/ RememberPush(Udp)
            \/ DenyRead(Udp) \/ Broadcast(Udp)
  <2>1. \/ \E label \in {"allow", "unblock", "grant", "broadcast", "notify", "deny", "block"} :
             Goto(Udp, label)
        \/ \E pin : RequestAddress(Udp, "approve", pin)
    BY <1>5, <1>16 DEF AllowRead, ApproveRead, RememberPush, DenyRead, Broadcast
  <2>2. pc[Udp] # "idle"
    BY <1>16 DEF AllowRead, ApproveRead, RememberPush, DenyRead, Broadcast, At
  <2> QED BY <1>6, <1>7, <2>1, <2>2
<1>17. CASE Notify(Udp) \/ LookUpEndpoint(Udp)
  <2>1. frame[Udp] \in Frame /\ pc[Udp] \in {"notify", "endpoint"}
    BY <1>17, AtLabel, ThreadsIncludeUdp DEF Notify, LookUpEndpoint, At
  <2>2. ASSUME NEW label \in {"endpoint", "remember"}, NEW a, NEW k,
               \/ GotoWith(Udp, label, [frame[Udp] EXCEPT !.ip = a])
               \/ GotoWith(Udp, label, [frame[Udp] EXCEPT !.addr = k])
        PROVE  SameClaimant
    <3> DEFINE f == [frame[Udp] EXCEPT !.ip = a]
               g == [frame[Udp] EXCEPT !.addr = k]
    <3>1. /\ f.user = frame[Udp].user /\ f.name = frame[Udp].name /\ f.key = frame[Udp].key
          /\ f.status = frame[Udp].status
          /\ g.user = frame[Udp].user /\ g.name = frame[Udp].name /\ g.key = frame[Udp].key
          /\ g.status = frame[Udp].status
      BY <2>1 DEF Frame
    <3>2. pc'[Udp] = label /\ frame'[Udp] \in {f, g}
      BY <1>3, <2>2
    <3> QED BY <2>1, <3>1, <3>2 DEF SameClaimant
  <2>3. \/ Goto(Udp, "broadcast")
        \/ \E a : GotoWith(Udp, "endpoint", [frame[Udp] EXCEPT !.ip = a])
        \/ \E k : GotoWith(Udp, "remember", [frame[Udp] EXCEPT !.addr = k])
    BY <1>17 DEF Notify, LookUpEndpoint
  <2> QED BY <1>6, <2>1, <2>2, <2>3
<1>18. ASSUME NEW t \in Thread, Handle(t), t # Udp
       PROVE  UNCHANGED <<pc[Udp], frame[Udp]>>
  BY <1>1, <1>18, HandlerMovesItself DEF GotoWith, Goto
<1>19. CASE Handle(Udp)
  BY <1>13, <1>14, <1>15, <1>16, <1>19, <1>17 DEF Handle, ConsoleCommand
<1>20. ~ Restart
  BY <1>1 DEF Restart
<1>21. CASE UNCHANGED vars
  BY <1>2, <1>21 DEF vars
<1> QED
  BY <1>2, <1>11, <1>12, <1>18, <1>19, <1>20, <1>21 DEF Next

\* Once a claim is accepted nobody else goes by its name; and the reply says
\* "active" only of a machine that it found pending and has approved.
ReplyInv ==
  /\ pc[Udp] # "idle" /\ frame[Udp].status \in {"pending", "active"} =>
       GoesBy(reg, frame[Udp].user, frame[Udp].name, frame[Udp].key)
  /\ pc[Udp] # "idle" /\ Approving => frame[Udp].status = "pending"
  /\ Joining => frame[Udp].status = "none"

LEMMA SameIdentitiesGoBy ==
  ASSUME NEW r, NEW q, NEW u, NEW n, NEW k, GoesBy(r, u, n, k), SameIdentities(r, q)
  PROVE  GoesBy(q, u, n, k)
<1>1. PICK f \in [Used(q) -> Used(r)] :
        \A i \in Used(q) : /\ q.machines[i].user = r.machines[f[i]].user
                           /\ q.machines[i].name = r.machines[f[i]].name
                           /\ q.machines[i].key = r.machines[f[i]].key
  BY DEF SameIdentities
<1>2. \A i \in Used(q) : f[i] \in Used(r)
  OBVIOUS
<1> QED
  BY <1>1, <1>2 DEF GoesBy

LEMMA ReplyStep ==
  ASSUME ClaimsKeepUser, TypeOK, NoOrphanMachines, IdentityInv, ReplyInv, [Next]_vars
  PROVE  ReplyInv'
<1>1. /\ reg \in RegistryType /\ NoOrphans(reg) /\ Identified(reg)
      /\ pc \in [Thread -> Label] /\ frame \in [Thread -> Frame \cup {NoFrame}]
      /\ Udp \in Thread
  BY ThreadsIncludeUdp
  DEF TypeOK, StoreOK, ThreadsOK, NoOrphanMachines, IdentityInv, Everywhere
<1>2. CASE pc'[Udp] = "idle"
  BY <1>2 DEF ReplyInv, Joining
<1>3. CASE Unproven'
  BY <1>3 DEF Unproven, ReplyInv
<1>4. CASE SameClaimant /\ pc'[Udp] # "idle"
  <2> DEFINE u == frame[Udp].user
             n == frame[Udp].name
             k == frame[Udp].key
  <2>1. Approving' => frame'[Udp].status = "pending"
    BY <1>4 DEF SameClaimant, ReplyInv
  <2>2. Joining' => frame'[Udp].status = "none"
    BY <1>4 DEF SameClaimant, ReplyInv, Joining, Approving
  <2>3. ASSUME frame'[Udp].status \in {"pending", "active"} PROVE GoesBy(reg', u, n, k)
    <3>1. frame[Udp].status \in {"pending", "active"} /\ GoesBy(reg, u, n, k)
      BY <1>4, <2>3 DEF SameClaimant, ReplyInv
    <3>2. ~ Joining
      BY <3>1 DEF ReplyInv
    <3>3. ~ Restart
      BY <1>1, <1>4 DEF Restart
    <3>4. CASE UNCHANGED <<reg, disk>>
      BY <3>1, <3>4 DEF GoesBy, Used
    <3>5. ASSUME NEW r, Changed(r), SaveWorks(r) \/ SaveFails(r) PROVE GoesBy(reg', u, n, k)
      <4>1. SameIdentities(reg, r)
        BY <3>2, <3>5, OperationKeepsIdentities DEF Changed
      <4>2. reg' = r
        BY <3>5 DEF SaveWorks, SaveFails
      <4> QED BY <3>1, <4>1, <4>2, SameIdentitiesGoBy
    <3> QED BY <3>3, <3>4, <3>5, StoreChanges DEF StoreStep
  <2> QED BY <1>4, <2>1, <2>2, <2>3 DEF SameClaimant, ReplyInv
<1>5. CASE Accepted
  <2> DEFINE c == ClaimOf(frame[Udp])
  <2>1. c \in Claim /\ c \in Claims
    BY <1>5, InputsAreTyped DEF Accepted, IdentityInv, RegistersClaim
  <2>2. GoesBy(RegisterJoin(reg, c), c.user, c.name, c.key)
    BY <1>1, <1>5, <2>1, JoinIdentified DEF Accepted
  <2>3. GoesBy(reg', frame'[Udp].user, frame'[Udp].name, frame'[Udp].key)
    BY <1>5, <2>2 DEF Accepted
  <2>4. ~ Approving' /\ ~ Joining'
    BY <1>5 DEF Accepted, Approving, Joining
  <2> QED BY <2>3, <2>4 DEF ReplyInv
<1> QED
  BY <1>2, <1>3, <1>4, <1>5, ClaimantStep

\* A reply that brings a tunnel up carries the address of the key that proved
\* itself, whatever admins do beside the join, as long as every node keeps its
\* user: ActiveReplyAddressOwned is an invariant.
THEOREM ReplyCarriesOwnAddress ==
  ASSUME ClaimsKeepUser
  PROVE  Spec => []ActiveReplyAddressOwned
<1>1. Init => ReplyInv
  BY ThreadsIncludeUdp DEF Init, ReplyInv, Joining
<1>2. TypeOK /\ NoOrphanMachines /\ IdentityInv /\ ReplyInv /\ [Next]_vars => ReplyInv'
  BY ReplyStep
<1>3. TypeOK /\ ReplyInv => ActiveReplyAddressOwned
  <2> SUFFICES ASSUME TypeOK, ReplyInv, At(Udp, "answer"), frame[Udp].status = "active",
                      CurrentIP(Udp) # NoAddress
               PROVE  MachineNamed(reg, frame[Udp].user, frame[Udp].name).key = frame[Udp].key
    BY DEF ActiveReplyAddressOwned
  <2> DEFINE u == frame[Udp].user
             n == frame[Udp].name
  <2>1. GoesBy(reg, u, n, frame[Udp].key)
    BY DEF ReplyInv, At
  <2>2. HasMachine(reg, u, n) /\ reg \in RegistryType
    BY DEF CurrentIP, TypeOK, StoreOK
  <2>3. SlotNamed(reg, u, n) \in SlotsNamed(reg, u, n)
    BY <2>2, SlotNamedIsNamed
  <2> QED BY <2>1, <2>3 DEF GoesBy, SlotsNamed, MachineNamed
<1> QED
  BY <1>1, <1>2, <1>3, IdentityAlways, TypeCorrect, NoMachineOutlivesItsUser, PTL DEF Spec

-----------------------------------------------------------------------------
(* While handlers run one by one, what a handler has read still holds when *)
(* it acts on it.                                                          *)

\* No two handlers are under way at once: the socket loop alone, or one lock
\* that a handler holds from its first call to its last.
Alone == \A t, u \in Thread : pc[t] # "idle" /\ pc[u] # "idle" => t = u

LEMMA AloneAssigns == Alone => AssignsAlone
BY DEF Alone, AssignsAlone

\* Only the handler that is under way changes anything that it could have read.
LEMMA AloneStep ==
  ASSUME TypeOK, Alone, Alone', [Next]_vars, NEW t \in Thread, pc'[t] # "idle"
  PROVE  \/ UNCHANGED <<reg, subnet, pc[t], frame[t]>>
         \/ Handle(t)
         \/ t = Udp /\ (Join \/ Signed)
<1>1. pc \in [Thread -> Label] /\ frame \in [Thread -> Frame \cup {NoFrame}] /\ Udp \in Thread
  BY ThreadsIncludeUdp DEF TypeOK, ThreadsOK
<1>2. ASSUME NEW s \in Thread, s # t, Handle(s) PROVE FALSE
  <2>1. UNCHANGED <<pc[t], frame[t]>>
    BY <1>1, <1>2, HandlerMovesItself DEF GotoWith, Goto
  <2>2. pc[s] = "idle"
    BY <1>2, <2>1 DEF Alone
  <2>3. PICK c \in Commands : StartCommand(s, c)
    BY <1>2, <2>2
    DEF Handle, ConsoleCommand, Allocate, Assign, AllowRead, DoAllow, DoUnblock, DoGrant,
        ApproveRead, Notify, LookUpEndpoint, RememberPush, RevokeTo, ListGrants,
        RevokeListed, DenyRead, DoDeny, DoBlock, Broadcast, At
  <2>4. pc'[s] # "idle"
    BY <1>1, <2>3 DEF StartCommand, GotoWith
  <2> QED BY <1>2, <2>4 DEF Alone
<1>3. ASSUME t # Udp, Join \/ Signed PROVE UNCHANGED <<reg, subnet, pc[t], frame[t]>>
  <2>1. UNCHANGED <<pc[t], frame[t]>>
    BY <1>1, <1>3, LoopMovesItself DEF GotoWith, Goto
  <2>2. pc[Udp] = "idle"
    BY <1>1, <1>3, <2>1 DEF Alone
  <2>3. UNCHANGED <<reg, subnet>>
    BY <1>3, <2>2
    DEF Join, JoinRequest, GetUser, JoinProof, Proven, RegisterNew, Register, EnsureInSubnet,
        RebindDesired, AutoApprove, DesiredOf, Answer, Reply, Signed, Verify, Heard, At,
        ReadOnly
  <2> QED BY <2>1, <2>3
<1>4. ~ Restart
  BY <1>1 DEF Restart
<1>5. CASE UNCHANGED vars
  BY <1>5 DEF vars
<1> QED
  BY <1>2, <1>3, <1>4, <1>5 DEF Next

\* StatusOf in the registry r.
Found(r, u, n) ==
  IF n = NoName THEN r.users[u]
  ELSE IF HasMachine(r, u, n) THEN MachineNamed(r, u, n).status ELSE "absent"

\* What the handler with the locals f has read before it stands at label: a
\* status, the list of grants, or that there is room for a new entry.
Justified(r, label, f) ==
  LET found == Found(r, f.user, f.name)
      granted == GrantsOf(r, f.user, f.name)
  IN  /\ label = "grant" => found = "active"
      /\ label = "unblock" => found = "blocked"
      /\ label = "deny" => found = "pending"
      /\ label = "block" => found = "active"
      /\ label \in {"desiredOf", "approveRead", "allocate", "assign"} => found # "pending"
      /\ label = "revoke" => granted \subseteq f.todo
      /\ label \in {"denyRead", "deny", "block"} => granted = {}
      /\ label \in {"getUser", "registerNew", "proven", "register"} =>
           (JoinAppends(r, ClaimOf(f)) => HasRoom(r))

ReadsHold ==
  \A t \in Thread : pc[t] # "idle" => Justified(reg, pc[t], frame[t])

\* No blocked user has a grant of its own.
BlockedUngranted(r) ==
  \A u \in User : r.users[u] = "blocked" => GrantsOf(r, u, NoName) = {}

Sound(r) == PendingUnaddressed(r) /\ PendingOwnersWait(r) /\ BlockedUngranted(r)

\* Labels at which nothing is assumed.
LEMMA NothingAssumed ==
  ASSUME NEW r, NEW f,
         NEW label \in {"idle", "heard", "ensureInSubnet", "rebindDesired", "autoApprove",
                        "answer", "reply", "notify", "endpoint", "remember", "broadcast",
                        "allowRead", "revokeTo", "grantsOf", "allow"}
  PROVE  Justified(r, label, f)
BY DEF Justified

LEMMA ApprovedIsFound ==
  ASSUME NEW r \in RegistryType, NEW u \in User, NEW n \in Name, CanAllow(r, u, n)
  PROVE  Found(Allow(r, u, n), u, n) = "active"
<1> DEFINE q == Allow(r, u, n)
           k == SlotNamed(r, u, n)
<1>1. n # NoName /\ n \in Name \cup {NoName}
  BY NonesAreOutside
<1>2. HasMachine(r, u, n) /\ k \in SlotsNamed(r, u, n)
  BY <1>1, SlotNamedIsNamed DEF CanAllow
<1>3. Restatused(r, q) /\ \A i \in Used(r) : i = k => q.machines[i].status = "active"
  BY <1>1, AllowRestatuses
<1> HIDE DEF q
<1>4. SlotsNamed(q, u, n) = SlotsNamed(r, u, n)
  BY <1>3 DEF Restatused, SameMachine, SlotsNamed
<1>5. SlotNamed(q, u, n) = k /\ HasMachine(q, u, n) /\ k \in Used(r)
  BY <1>2, <1>4 DEF SlotNamed, HasMachine, SlotsNamed
<1> QED
  BY <1>1, <1>3, <1>5 DEF Found, MachineNamed, q

LEMMA ReadsStep ==
  ASSUME TypeOK, Alone, Alone', PendingUnaddressed(reg), ReadsHold, [Next]_vars
  PROVE  ReadsHold'
<1> SUFFICES ASSUME NEW t \in Thread, pc'[t] # "idle" PROVE Justified(reg', pc'[t], frame'[t])
  BY DEF ReadsHold
<1>1. /\ pc \in [Thread -> Label] /\ frame \in [Thread -> Frame \cup {NoFrame}]
      /\ Udp \in Thread /\ reg \in RegistryType
  BY ThreadsIncludeUdp DEF TypeOK, ThreadsOK, StoreOK
<1> DEFINE u == frame[t].user
           n == frame[t].name
           Quiet == {"idle", "heard", "ensureInSubnet", "rebindDesired", "autoApprove",
                     "answer", "reply", "notify", "endpoint", "remember", "broadcast",
                     "allowRead", "revokeTo", "grantsOf", "allow"}
<1>2. ASSUME pc'[t] \in Quiet PROVE Justified(reg', pc'[t], frame'[t])
  BY <1>2, NothingAssumed
<1>3. ASSUME NEW label, NEW f, GotoWith(t, label, f)
      PROVE  pc'[t] = label /\ frame'[t] = f
  BY <1>1, <1>3 DEF GotoWith
<1>4. ASSUME NEW label, Goto(t, label)
      PROVE  pc'[t] = label /\ frame'[t] = frame[t]
  BY <1>1, <1>4 DEF Goto
<1>5. ~ Return(t)
  BY <1>3 DEF Return
<1>6. CASE UNCHANGED <<reg, pc[t], frame[t]>>
  <2>1. Justified(reg, pc[t], frame[t])
    BY <1>6 DEF ReadsHold
  <2> QED BY <1>6, <2>1
<1>7. ASSUME NEW c, StartCommand(t, c) PROVE pc'[t] \in Quiet
  BY <1>3, <1>7 DEF StartCommand
<1>8. ASSUME AfterRefusal(t), frame[t].origin \in Origin PROVE pc'[t] \in Quiet
  BY <1>4, <1>5, <1>8 DEF AfterRefusal, Origin
<1>9. ASSUME pc[t] # "idle", reg' = reg, NEW origin, NEW pin,
             RequestAddress(t, origin, pin), Found(reg, u, n) # "pending"
      PROVE  Justified(reg', pc'[t], frame'[t])
  <2> DEFINE f == [frame[t] EXCEPT !.origin = origin, !.pin = pin]
  <2>1. pc'[t] = "allocate" /\ frame'[t] = f
    BY <1>3, <1>9 DEF RequestAddress
  <2>2. f.user = u /\ f.name = n
    BY <1>1, <1>9, AtLabel DEF Frame
  <2> QED BY <1>9, <2>1, <2>2 DEF Justified
<1>10. ASSUME n \in Name, CurrentIP(t) # NoAddress PROVE Found(reg, u, n) # "pending"
  <2>1. HasMachine(reg, u, n) /\ MachineNamed(reg, u, n).ip # NoAddress /\ n # NoName
    BY <1>10, NonesAreOutside DEF CurrentIP
  <2>2. SlotNamed(reg, u, n) \in Used(reg)
    BY <1>1, <2>1, SlotNamedIsNamed
  <2> QED BY <2>1, <2>2 DEF Found, MachineNamed, PendingUnaddressed
<1>11. CASE t = Udp /\ Join
  <2> USE <1>11
  <2>1. ASSUME NEW c, c \in Claims, Fits(c), reg' = reg,
               NEW label \in {"getUser", "proven"}, GotoWith(t, label, JoinFrame(c))
        PROVE  Justified(reg', pc'[t], frame'[t])
    <3>1. pc'[t] = label /\ frame'[t] = JoinFrame(c)
      BY <1>3, <2>1
    <3>2. ClaimOf(JoinFrame(c)) = c
      BY <2>1, InputsAreTyped DEF ClaimOf, JoinFrame, Claim
    <3> QED BY <2>1, <3>1, <3>2 DEF Fits, Justified
  <2>2. ASSUME NEW c \in Claims, JoinRequest(c)
        PROVE  Justified(reg', pc'[t], frame'[t])
    <3>1. Fits(c) /\ reg' = reg
      BY <2>2 DEF JoinRequest, ReadOnly
    <3>2. GotoWith(t, "getUser", JoinFrame(c))
      BY <2>2 DEF JoinRequest
    <3> QED BY <2>1, <3>1, <3>2
  <2>3. ASSUME NEW c \in Claims, NEW valid \in BOOLEAN, JoinProof(c, valid)
        PROVE  Justified(reg', pc'[t], frame'[t])
    <3>1. Fits(c) /\ reg' = reg
      BY <2>3 DEF JoinProof, ReadOnly
    <3>2. UNCHANGED <<pc, frame>> \/ GotoWith(t, "proven", JoinFrame(c))
      BY <2>3 DEF JoinProof
    <3> QED BY <1>6, <2>1, <3>1, <3>2
  <2>4. ~ RegisterNew /\ ~ Reply
    BY <1>5 DEF RegisterNew, Reply
  <2>5. CASE Register
    <3>1. \E f : GotoWith(t, "ensureInSubnet", f)
      BY <1>5, <2>5 DEF Register
    <3> QED BY <1>2, <1>3, <3>1
  <2>6. CASE EnsureInSubnet
    <3>1. pc[t] # "idle" /\ n \in Name /\ reg' = reg
      BY <2>6, AtJoinLabel DEF EnsureInSubnet, At, JoinLabel, ReadOnly
    <3>2. \/ Goto(t, "rebindDesired")
          \/ CurrentIP(t) # NoAddress /\ \E pin : RequestAddress(t, "subnet", pin)
      BY <2>6 DEF EnsureInSubnet
    <3> QED BY <1>2, <1>4, <1>9, <1>10, <3>1, <3>2
  <2>7. CASE RebindDesired
    <3>1. pc[t] # "idle" /\ n \in Name /\ reg' = reg
      BY <2>7, AtJoinLabel DEF RebindDesired, At, JoinLabel, ReadOnly
    <3>2. \/ Goto(t, "autoApprove")
          \/ CurrentIP(t) # NoAddress /\ \E pin : RequestAddress(t, "rebind", pin)
      BY <2>7 DEF RebindDesired
    <3> QED BY <1>2, <1>4, <1>9, <1>10, <3>1, <3>2
  <2>8. CASE AutoApprove
    <3>1. u \in User /\ n \in Name
      BY <2>8, AtJoinLabel DEF AutoApprove, At, JoinLabel
    <3>2. \/ Goto(t, "answer")
          \/ /\ CanAllow(reg, u, n)
             /\ reg' = Allow(reg, u, n)
             /\ Goto(t, "desiredOf")
      BY <2>8 DEF AutoApprove, SaveWorks
    <3>3. ASSUME CanAllow(reg, u, n), reg' = Allow(reg, u, n), Goto(t, "desiredOf")
          PROVE  Justified(reg', pc'[t], frame'[t])
      <4>1. pc'[t] = "desiredOf" /\ frame'[t] = frame[t]
        BY <1>4, <3>3
      <4>2. Found(reg', u, n) = "active"
        BY <1>1, <3>1, <3>3, ApprovedIsFound
      <4> QED BY <4>1, <4>2 DEF Justified
    <3> QED BY <1>2, <1>4, <3>2, <3>3
  <2>9. CASE DesiredOf
    <3>1. pc[t] = "desiredOf" /\ reg' = reg /\ \E pin : RequestAddress(t, "auto", pin)
      BY <2>9 DEF DesiredOf, At, ReadOnly
    <3>2. Found(reg, u, n) # "pending"
      BY <3>1 DEF ReadsHold, Justified
    <3> QED BY <1>9, <3>1, <3>2
  <2>10. CASE Answer
    <3>1. \E f : GotoWith(t, "reply", f)
      BY <2>10 DEF Answer
    <3> QED BY <1>2, <1>3, <3>1
  <2>11. CASE GetUser \/ Proven
    <3>1. /\ reg' = reg /\ pc[t] \in {"getUser", "proven"}
          /\ \E label \in {"registerNew", "register"} : Goto(t, label)
      BY <1>5, <2>11 DEF GetUser, Proven, At, ReadOnly
    <3>2. JoinAppends(reg, ClaimOf(frame[t])) => HasRoom(reg)
      BY <3>1 DEF ReadsHold, Justified
    <3> QED BY <1>4, <3>1, <3>2 DEF Justified
  <2> QED BY <1>11, <2>2, <2>3, <2>4, <2>5, <2>6, <2>7, <2>8, <2>9, <2>10, <2>11 DEF Join
<1>12. CASE t = Udp /\ Signed
  <2>1. (\E f : GotoWith(t, "heard", f)) \/ \E c : StartCommand(t, c)
    BY <1>5, <1>12 DEF Signed, Verify, Heard
  <2> QED BY <1>2, <1>3, <1>7, <2>1
<1>13. CASE Allocate(t)
  <2>1. frame[t] \in Frame /\ frame[t].origin \in Origin /\ pc[t] = "allocate"
        /\ reg' = reg
    BY <1>1, <1>13, AtLabel, FrameFields DEF Allocate, At, ReadOnly
  <2>2. \/ AfterRefusal(t)
        \/ \E a : GotoWith(t, "assign", [frame[t] EXCEPT !.ip = a])
    BY <1>13 DEF Allocate
  <2>3. ASSUME NEW a, GotoWith(t, "assign", [frame[t] EXCEPT !.ip = a])
        PROVE  Justified(reg', pc'[t], frame'[t])
    <3> DEFINE f == [frame[t] EXCEPT !.ip = a]
    <3>1. pc'[t] = "assign" /\ frame'[t] = f
      BY <1>3, <2>3
    <3>2. f.user = u /\ f.name = n
      BY <2>1 DEF Frame
    <3>3. Found(reg, u, n) # "pending"
      BY <2>1 DEF ReadsHold, Justified
    <3> QED BY <2>1, <3>1, <3>2, <3>3 DEF Justified
  <2> QED BY <1>2, <1>8, <2>1, <2>2, <2>3
<1>14. CASE Assign(t)
  <2>1. frame[t].origin \in Origin
    BY <1>1, <1>14, AtLabel, FrameFields DEF Assign, At
  <2>2. AfterAssign(frame[t].origin) \in Quiet
    BY <2>1 DEF AfterAssign, Origin
  <2>3. \/ AfterRefusal(t)
        \/ \E f : GotoWith(t, "answer", f)
        \/ Goto(t, AfterAssign(frame[t].origin))
    BY <1>14 DEF Assign
  <2>4. pc'[t] \in Quiet
    BY <1>3, <1>4, <1>8, <2>1, <2>2, <2>3
  <2> QED BY <1>2, <2>4
<1>15. CASE DoAllow(t)
  <2>1. u \in User /\ n \in Name \cup {NoName}
    BY <1>1, <1>15, AtLabel DEF DoAllow, At
  <2>2. \/ n = NoName /\ Goto(t, "broadcast")
        \/ /\ n # NoName /\ CanAllow(reg, u, n) /\ reg' = Allow(reg, u, n)
           /\ Goto(t, "approveRead")
    BY <1>5, <1>15 DEF DoAllow, Call, SaveWorks
  <2>3. ASSUME n # NoName, CanAllow(reg, u, n), reg' = Allow(reg, u, n),
               Goto(t, "approveRead")
        PROVE  Justified(reg', pc'[t], frame'[t])
    <3>1. pc'[t] = "approveRead" /\ frame'[t] = frame[t]
      BY <1>4, <2>3
    <3>2. Found(reg', u, n) = "active"
      BY <1>1, <2>1, <2>3, ApprovedIsFound
    <3> QED BY <3>1, <3>2 DEF Justified
  <2> QED BY <1>2, <1>4, <2>2, <2>3
<1>16. CASE AllowRead(t)
  <2>1. reg' = reg /\ StatusOf(u, n) = Found(reg, u, n)
    BY <1>16 DEF AllowRead, ReadOnly, StatusOf, Found
  <2>2. \/ Goto(t, "allow")
        \/ Found(reg, u, n) = "blocked" /\ Goto(t, "unblock")
        \/ Found(reg, u, n) = "active" /\ Goto(t, "grant")
    BY <1>5, <1>16, <2>1 DEF AllowRead
  <2>3. CASE Goto(t, "allow")
    BY <1>2, <1>4, <2>3
  <2>4. CASE Found(reg, u, n) = "blocked" /\ Goto(t, "unblock")
    <3>1. pc'[t] = "unblock" /\ frame'[t] = frame[t]
      BY <1>4, <2>4
    <3> QED BY <2>1, <2>4, <3>1 DEF Justified
  <2>5. CASE Found(reg, u, n) = "active" /\ Goto(t, "grant")
    <3>1. pc'[t] = "grant" /\ frame'[t] = frame[t]
      BY <1>4, <2>5
    <3> QED BY <2>1, <2>5, <3>1 DEF Justified
  <2> QED BY <2>2, <2>3, <2>4, <2>5
<1>17. CASE ApproveRead(t)
  <2>1. pc[t] = "approveRead" /\ reg' = reg
    BY <1>17 DEF ApproveRead, At, ReadOnly
  <2>2. \/ Goto(t, "broadcast") \/ Goto(t, "notify")
        \/ \E pin : RequestAddress(t, "approve", pin)
    BY <1>17 DEF ApproveRead
  <2>3. Found(reg, u, n) # "pending"
    BY <2>1 DEF ReadsHold, Justified
  <2> QED BY <1>2, <1>4, <1>9, <2>1, <2>2, <2>3
<1>18. CASE ListGrants(t)
  <2> DEFINE listed == GrantsOf(reg, u, n)
             f == [frame[t] EXCEPT !.todo = listed]
  <2>1. frame[t] \in Frame /\ reg' = reg
    BY <1>1, <1>18, AtLabel DEF ListGrants, At, ReadOnly
  <2>2. f.user = u /\ f.name = n /\ f.todo = listed
    BY <2>1 DEF Frame
  <2>3. GotoWith(t, IF listed = {} THEN "denyRead" ELSE "revoke", f)
    BY <1>18 DEF ListGrants
  <2> HIDE DEF listed, f
  <2>4. pc'[t] = (IF listed = {} THEN "denyRead" ELSE "revoke") /\ frame'[t] = f
    BY <1>3, <2>3
  <2> QED BY <2>1, <2>2, <2>4 DEF Justified, listed
<1>19. CASE RevokeListed(t)
  <2>1. frame[t] \in Frame /\ pc[t] = "revoke"
    BY <1>1, <1>19, AtLabel DEF RevokeListed, At
  <2>2. PICK target \in frame[t].todo :
          /\ reg' = Revoke(reg, u, n, target)
          /\ LET left == frame[t].todo \ {target}
             IN  GotoWith(t, IF left = {} THEN "denyRead" ELSE "revoke",
                          [frame[t] EXCEPT !.todo = left])
    BY <1>5, <1>19 DEF RevokeListed, SaveWorks
  <2> DEFINE left == frame[t].todo \ {target}
             f == [frame[t] EXCEPT !.todo = left]
  <2>3. f.user = u /\ f.name = n /\ f.todo = left
    BY <2>1 DEF Frame
  <2>4. GrantsOf(reg', u, n) \subseteq left
    <3>1. GrantsOf(reg, u, n) \subseteq frame[t].todo
      BY <2>1 DEF ReadsHold, Justified
    <3>2. reg'.grants = reg.grants \ {Subject(u, n, target)}
      BY <1>1, <2>2, GrantEffect
    <3> QED BY <3>1, <3>2 DEF GrantsOf
  <2>5. pc'[t] = (IF left = {} THEN "denyRead" ELSE "revoke") /\ frame'[t] = f
    BY <1>3, <2>2
  <2> HIDE DEF left, f
  <2> QED BY <2>3, <2>4, <2>5 DEF Justified
<1>20. CASE DenyRead(t)
  <2>1. reg' = reg /\ StatusOf(u, n) = Found(reg, u, n) /\ pc[t] = "denyRead"
    BY <1>20 DEF DenyRead, At, ReadOnly, StatusOf, Found
  <2>2. GrantsOf(reg, u, n) = {}
    BY <2>1 DEF ReadsHold, Justified
  <2>3. \/ Goto(t, "broadcast")
        \/ Found(reg, u, n) = "pending" /\ Goto(t, "deny")
        \/ Found(reg, u, n) = "active" /\ Goto(t, "block")
    BY <1>5, <1>20, <2>1 DEF DenyRead
  <2>4. CASE Goto(t, "broadcast")
    BY <1>2, <1>4, <2>4
  <2>5. CASE Found(reg, u, n) = "pending" /\ Goto(t, "deny")
    <3>1. pc'[t] = "deny" /\ frame'[t] = frame[t]
      BY <1>4, <2>5
    <3> QED BY <2>1, <2>2, <2>5, <3>1 DEF Justified
  <2>6. CASE Found(reg, u, n) = "active" /\ Goto(t, "block")
    <3>1. pc'[t] = "block" /\ frame'[t] = frame[t]
      BY <1>4, <2>6
    <3> QED BY <2>1, <2>2, <2>6, <3>1 DEF Justified
  <2> QED BY <2>3, <2>4, <2>5, <2>6
<1>21. CASE \/ DoUnblock(t) \/ DoGrant(t) \/ RevokeTo(t) \/ DoDeny(t)
            \/ DoBlock(t) \/ Notify(t) \/ LookUpEndpoint(t) \/ RememberPush(t)
            \/ Broadcast(t)
  <2>1. \/ Goto(t, "broadcast")
        \/ \E f : GotoWith(t, "endpoint", f) \/ GotoWith(t, "remember", f)
    BY <1>5, <1>21
    DEF DoUnblock, DoGrant, RevokeTo, DoDeny, DoBlock, Call, Notify, LookUpEndpoint,
        RememberPush, Broadcast
  <2> QED BY <1>2, <1>3, <1>4, <2>1
<1>22. CASE Handle(t)
  BY <1>2, <1>7, <1>13, <1>14, <1>15, <1>16, <1>17, <1>18, <1>19, <1>20, <1>21, <1>22
  DEF Handle, ConsoleCommand
<1> QED
  BY <1>6, <1>11, <1>12, <1>22, AloneStep

\* Restatused entries that do not become pending keep waiting entries as they
\* are.
LEMMA RestatusedSound ==
  ASSUME NEW r, NEW q, Restatused(r, q), PendingUnaddressed(r),
         \A i \in Used(r) : q.machines[i].status = "pending" => r.machines[i].status = "pending"
  PROVE  PendingUnaddressed(q)
BY DEF Restatused, SameMachine, PendingUnaddressed

LEMMA JoinSound ==
  ASSUME NEW r \in RegistryType, NEW c \in Claim, NoOrphans(r), Sound(r)
  PROVE  Sound(RegisterJoin(r, c))
<1> DEFINE q == RegisterJoin(r, c)
<1>1. CASE JoinAppends(r, c)
  <2> DEFINE new == Min(Slot \ Used(r))
  <2>1. /\ q.users = IF r.users[c.user] = "absent"
                     THEN [r.users EXCEPT ![c.user] = "pending"] ELSE r.users
        /\ q.grants = r.grants
        /\ \A i \in Used(q) : \/ q.machines[i] = NewMachine(c) /\ i = new
                              \/ i \in Used(r) /\ q.machines[i] = r.machines[i]
    BY <1>1, AppendingJoin
  <2>2. NewMachine(c).status = "pending" /\ NewMachine(c).ip = NoAddress
    BY DEF NewMachine
  <2>3. \A u \in User : \/ q.users[u] = r.users[u]
                        \/ r.users[u] = "absent" /\ q.users[u] = "pending"
    BY <2>1 DEF RegistryType
  <2>4. \A i \in Used(r) : r.machines[i].user \in User
    BY UsedHoldsMachine DEF Machine
  <2> HIDE DEF q
  <2>5. PendingUnaddressed(q)
    BY <2>1, <2>2 DEF Sound, PendingUnaddressed
  <2>6. PendingOwnersWait(q)
    BY <2>1, <2>2, <2>3, <2>4 DEF Sound, PendingOwnersWait, NoOrphans
  <2>7. BlockedUngranted(q)
    BY <2>1, <2>3 DEF Sound, BlockedUngranted, GrantsOf
  <2> QED BY <2>5, <2>6, <2>7 DEF Sound, q
<1>2. CASE ~ JoinAppends(r, c)
  <2>1. /\ q.users = r.users /\ q.grants = r.grants /\ Used(q) = Used(r)
        /\ \A i \in Used(r) : /\ q.machines[i].user = r.machines[i].user
                              /\ q.machines[i].status = r.machines[i].status
                              /\ q.machines[i].ip = r.machines[i].ip
    BY <1>2, ReclaimingJoin
  <2> HIDE DEF q
  <2> QED
    BY <2>1 DEF Sound, PendingUnaddressed, PendingOwnersWait, BlockedUngranted, GrantsOf, q
<1> QED
  BY <1>1, <1>2

LEMMA OperationSound ==
  ASSUME TypeOK, Sound(reg), NEW t \in Thread, pc[t] # "idle",
         NEW u \in User, NEW n \in Name \cup {NoName},
         u = frame[t].user, n = frame[t].name,
         Justified(reg, pc[t], frame[t]), NEW r, Operation(t, u, n, r)
  PROVE  Sound(r)
<1> USE DEF Sound
<1>1. reg \in RegistryType /\ NoName \notin Name
  BY NonesAreOutside DEF TypeOK, StoreOK
<1>2. \A i \in Used(reg) : reg.machines[i].user \in User
  BY <1>1, UsedHoldsMachine DEF Machine
<1>3. \A v \in User : reg.users[v] \in UserStatus
  BY <1>1 DEF RegistryType
<1>4. CASE CanAllow(reg, u, n) /\ r = Allow(reg, u, n)
  <2>1. /\ r.users = IF n = NoName THEN [reg.users EXCEPT ![u] = "active"] ELSE reg.users
        /\ r.grants = reg.grants
        /\ Restatused(reg, r)
        /\ \A i \in Used(reg) :
             r.machines[i].status = IF n # NoName /\ i = SlotNamed(reg, u, n)
                                    THEN "active" ELSE reg.machines[i].status
    BY <1>1, <1>4, AllowEffect
  <2>2. \A v \in User : r.users[v] = reg.users[v] \/ r.users[v] = "active"
    BY <1>1, <2>1 DEF RegistryType
  <2>3. PendingUnaddressed(r)
    BY <2>1, RestatusedSound
  <2>4. PendingOwnersWait(r)
    <3>1. n # NoName => /\ SlotNamed(reg, u, n) \in SlotsNamed(reg, u, n)
                        /\ reg.users[u] = "active"
      BY <1>1, <1>4, SlotNamedIsNamed DEF CanAllow
    <3>2. ASSUME NEW i \in Used(r), r.users[r.machines[i].user] = "pending"
          PROVE  r.machines[i].status = "pending"
      <4>1. i \in Used(reg) /\ r.machines[i].user = reg.machines[i].user
        BY <2>1, <3>2 DEF Restatused, SameMachine
      <4>2. reg.users[reg.machines[i].user] = "pending"
        BY <1>2, <2>2, <3>2, <4>1
      <4>3. reg.machines[i].status = "pending"
        BY <4>1, <4>2 DEF PendingOwnersWait
      <4>4. ~ (n # NoName /\ i = SlotNamed(reg, u, n))
        BY <3>1, <4>2 DEF SlotsNamed
      <4> QED BY <2>1, <4>1, <4>3, <4>4
    <3> QED BY <3>2 DEF PendingOwnersWait
  <2>5. BlockedUngranted(r)
    BY <2>1, <2>2 DEF BlockedUngranted, GrantsOf
  <2> QED BY <2>3, <2>4, <2>5
<1>5. CASE pc[t] = "block" /\ Exists(reg, u, n) /\ r = Block(reg, u, n)
  <2>1. /\ r.users = IF n = NoName THEN [reg.users EXCEPT ![u] = "blocked"] ELSE reg.users
        /\ r.grants = reg.grants
        /\ Restatused(reg, r)
        /\ \A i \in Used(reg) :
             r.machines[i].status = IF i \in Addressed(reg, u, n)
                                    THEN "blocked" ELSE reg.machines[i].status
    BY <1>1, <1>5, BlockEffect
  <2>2. Found(reg, u, n) = "active" /\ GrantsOf(reg, u, n) = {}
    BY <1>5 DEF Justified
  <2>3. \A v \in User : r.users[v] = IF n = NoName /\ v = u THEN "blocked" ELSE reg.users[v]
    BY <1>1, <2>1 DEF RegistryType
  <2>4. PendingUnaddressed(r)
    BY <2>1, RestatusedSound
  <2>5. PendingOwnersWait(r)
    <3>1. n # NoName => /\ SlotNamed(reg, u, n) \in Used(reg)
                        /\ reg.machines[SlotNamed(reg, u, n)].status = "active"
      BY <1>1, <1>5, <2>2, SlotNamedIsNamed DEF Exists, Found, MachineNamed
    <3>2. ASSUME NEW i \in Used(r), r.users[r.machines[i].user] = "pending"
          PROVE  r.machines[i].status = "pending"
      <4>1. i \in Used(reg) /\ r.machines[i].user = reg.machines[i].user
        BY <2>1, <3>2 DEF Restatused, SameMachine
      <4>2. reg.users[reg.machines[i].user] = "pending" /\ ~ (n = NoName /\ reg.machines[i].user = u)
        BY <1>2, <2>3, <3>2, <4>1
      <4>3. reg.machines[i].status = "pending"
        BY <4>1, <4>2 DEF PendingOwnersWait
      <4>4. i \notin Addressed(reg, u, n)
        BY <3>1, <4>2, <4>3 DEF Addressed, SlotsOfUser
      <4> QED BY <2>1, <4>1, <4>3, <4>4
    <3> QED BY <3>2 DEF PendingOwnersWait
  <2>6. BlockedUngranted(r)
    BY <2>1, <2>2, <2>3 DEF BlockedUngranted, GrantsOf
  <2> QED BY <2>4, <2>5, <2>6
<1>6. CASE Exists(reg, u, n) /\ r = Unblock(reg, u, n)
  <2>1. /\ r.users = IF n = NoName /\ reg.users[u] = "blocked"
                     THEN [reg.users EXCEPT ![u] = "active"] ELSE reg.users
        /\ r.grants = reg.grants
        /\ Restatused(reg, r)
        /\ \A i \in Used(reg) :
             r.machines[i].status =
               IF i \in Addressed(reg, u, n) /\ reg.machines[i].status = "blocked"
               THEN "active" ELSE reg.machines[i].status
    BY <1>1, <1>6, UnblockEffect
  <2>2. \A v \in User : r.users[v] = reg.users[v] \/ r.users[v] = "active"
    BY <1>1, <2>1 DEF RegistryType
  <2>3. PendingUnaddressed(r)
    BY <2>1, RestatusedSound
  <2>4. PendingOwnersWait(r)
    <3>1. ASSUME NEW i \in Used(r), r.users[r.machines[i].user] = "pending"
          PROVE  r.machines[i].status = "pending"
      <4>1. i \in Used(reg) /\ r.machines[i].user = reg.machines[i].user
        BY <2>1, <3>1 DEF Restatused, SameMachine
      <4>2. reg.machines[i].status = "pending"
        BY <1>2, <2>2, <3>1, <4>1 DEF PendingOwnersWait
      <4> QED BY <2>1, <4>1, <4>2
    <3> QED BY <3>1 DEF PendingOwnersWait
  <2>5. BlockedUngranted(r)
    BY <2>1, <2>2 DEF BlockedUngranted, GrantsOf
  <2> QED BY <2>3, <2>4, <2>5
<1>7. CASE r = Deny(reg, u, n)
  <2> DEFINE gone == Denied(reg, u, n)
  <2>1. /\ r.users = IF n = NoName THEN [reg.users EXCEPT ![u] = "absent"] ELSE reg.users
        /\ r.grants = reg.grants
        /\ TakenFrom(reg, gone, r)
    BY <1>1, <1>7, DenyEffect
  <2> HIDE DEF gone
  <2>2. PICK f \in [Used(r) -> Used(reg) \ gone] :
          \A i \in Used(r) : r.machines[i] = reg.machines[f[i]]
    BY <2>1 DEF TakenFrom
  <2>3. \A i \in Used(r) : f[i] \in Used(reg)
    OBVIOUS
  <2>4. \A v \in User : r.users[v] = reg.users[v] \/ r.users[v] = "absent"
    BY <1>1, <2>1 DEF RegistryType
  <2>5. PendingUnaddressed(r)
    BY <2>2, <2>3 DEF PendingUnaddressed
  <2>6. PendingOwnersWait(r)
    BY <1>2, <2>2, <2>3, <2>4 DEF PendingOwnersWait
  <2>7. BlockedUngranted(r)
    BY <2>1, <2>4 DEF BlockedUngranted, GrantsOf
  <2> QED BY <2>5, <2>6, <2>7
<1>8. CASE pc[t] = "grant" /\ r = AddGrant(reg, u, n, frame[t].to)
  <2>1. /\ r.users = reg.users /\ r.machines = reg.machines /\ Used(r) = Used(reg)
        /\ r.grants = reg.grants \cup {Subject(u, n, frame[t].to)}
    BY <1>1, <1>8, GrantEffect
  <2>2. Found(reg, u, n) = "active"
    BY <1>8 DEF Justified
  <2>3. ASSUME NEW v \in User, reg.users[v] = "blocked"
        PROVE  GrantsOf(r, v, NoName) = {}
    <3>1. ~ (n = NoName /\ u = v)
      BY <2>2, <2>3 DEF Found
    <3>2. \A target : Subject(v, NoName, target) # Subject(u, n, frame[t].to)
      BY <3>1 DEF Subject
    <3>3. GrantsOf(reg, v, NoName) = {}
      BY <2>3 DEF BlockedUngranted
    <3> QED BY <2>1, <3>2, <3>3 DEF GrantsOf
  <2>4. BlockedUngranted(r)
    BY <2>1, <2>3 DEF BlockedUngranted
  <2> QED
    BY <2>1, <2>4 DEF PendingUnaddressed, PendingOwnersWait
<1>9. ASSUME NEW target, r = Revoke(reg, u, n, target) PROVE Sound(r)
  <2>1. /\ r.users = reg.users /\ r.machines = reg.machines /\ Used(r) = Used(reg)
        /\ r.grants \subseteq reg.grants
    BY <1>1, <1>9, GrantEffect
  <2> QED
    BY <2>1 DEF PendingUnaddressed, PendingOwnersWait, BlockedUngranted, GrantsOf
<1>10. CASE /\ pc[t] = "assign" /\ n \in Name /\ frame[t].ip \in Address
            /\ HasMachine(reg, u, n)
            /\ r = SetMachineIP(reg, u, n, frame[t].ip)
  <2> DEFINE k == SlotNamed(reg, u, n)
  <2>1. /\ r.users = reg.users /\ r.grants = reg.grants /\ Used(r) = Used(reg)
        /\ \A i \in Used(reg) :
             /\ r.machines[i].user = reg.machines[i].user
             /\ r.machines[i].status = reg.machines[i].status
             /\ i # k => r.machines[i].ip = reg.machines[i].ip
    BY <1>1, <1>10, SetMachineIPFields
  <2>2. reg.machines[k].status # "pending"
    BY <1>1, <1>10 DEF Justified, Found, MachineNamed
  <2> HIDE DEF k
  <2> QED
    BY <2>1, <2>2 DEF PendingUnaddressed, PendingOwnersWait, BlockedUngranted, GrantsOf
<1> QED
  BY <1>4, <1>5, <1>6, <1>7, <1>8, <1>9, <1>10 DEF Operation

SoundInv == Everywhere(Sound) /\ ReadsHold

LEMMA ChangedSound ==
  ASSUME TypeOK, NoOrphanMachines, SoundInv, NEW r, Changed(r)
  PROVE  Sound(r)
<1>1. reg \in RegistryType /\ NoOrphans(reg) /\ Sound(reg)
  BY DEF TypeOK, StoreOK, NoOrphanMachines, SoundInv, Everywhere
<1>2. ASSUME NEW c \in Claim, r = RegisterJoin(reg, c) PROVE Sound(r)
  BY <1>1, <1>2, JoinSound
<1>3. ASSUME NEW t \in Thread, NEW u \in User, NEW n \in Name \cup {NoName},
             u = frame[t].user, n = frame[t].name, Operation(t, u, n, r)
      PROVE  Sound(r)
  <2>1. pc[t] # "idle"
    BY <1>3 DEF Operation
  <2>2. Justified(reg, pc[t], frame[t])
    BY <2>1 DEF SoundInv, ReadsHold
  <2> QED BY <1>1, <1>3, <2>1, <2>2, OperationSound
<1> QED
  BY <1>2, <1>3 DEF Changed

LEMMA SoundStep ==
  ASSUME TypeOK, Alone, Alone', NoOrphanMachines, SoundInv, [Next]_vars
  PROVE  SoundInv'
<1>1. Sound(reg) /\ Sound(disk) /\ disk \in RegistryType
  BY DEF SoundInv, Everywhere, TypeOK, StoreOK
<1>2. ReadsHold'
  BY <1>1, ReadsStep DEF SoundInv, Sound
<1>3. CASE UNCHANGED <<reg, disk>>
  BY <1>1, <1>2, <1>3 DEF SoundInv, Everywhere
<1>4. ASSUME NEW r, Changed(r), SaveWorks(r) \/ SaveFails(r) PROVE SoundInv'
  <2>1. Sound(r)
    BY <1>4, ChangedSound
  <2>2. reg' = r /\ disk' \in {disk, r}
    BY <1>4 DEF SaveWorks, SaveFails
  <2> QED BY <1>1, <1>2, <2>1, <2>2 DEF SoundInv, Everywhere
<1>5. CASE Restart
  <2> DEFINE q == EnsureAdmin(disk)
  <2>1. /\ q.users = [disk.users EXCEPT ![Admin] = "active"]
        /\ q.machines = disk.machines /\ q.grants = disk.grants /\ Used(q) = Used(disk)
    BY <1>1, EnsureAdminEffect
  <2>2. \A u \in User : q.users[u] = disk.users[u] \/ q.users[u] = "active"
    BY <1>1, <2>1 DEF RegistryType
  <2>3. \A i \in Used(disk) : disk.machines[i].user \in User
    BY <1>1, UsedHoldsMachine DEF Machine
  <2> HIDE DEF q
  <2>4. PendingUnaddressed(q)
    BY <1>1, <2>1 DEF Sound, PendingUnaddressed
  <2>5. PendingOwnersWait(q)
    BY <1>1, <2>1, <2>2, <2>3 DEF Sound, PendingOwnersWait
  <2>6. BlockedUngranted(q)
    BY <1>1, <2>1, <2>2 DEF Sound, BlockedUngranted, GrantsOf
  <2> QED BY <1>2, <1>5, <2>4, <2>5, <2>6 DEF Restart, SoundInv, Everywhere, Sound, q
<1> QED
  BY <1>3, <1>4, <1>5, StoreChanges DEF StoreStep

LEMMA SoundInit == Init => SoundInv
<1> SUFFICES ASSUME Init PROVE SoundInv
  OBVIOUS
<1>1. EmptyRegistry \in RegistryType /\ Used(EmptyRegistry) = {}
      /\ EmptyRegistry.grants = {} /\ \A u \in User : EmptyRegistry.users[u] = "absent"
  BY EmptyRegistryType DEF EmptyRegistry, Used
<1> DEFINE q == EnsureAdmin(EmptyRegistry)
<1>2. /\ q.users = [EmptyRegistry.users EXCEPT ![Admin] = "active"]
      /\ Used(q) = {} /\ q.grants = {}
  BY <1>1, EnsureAdminEffect
<1>3. \A u \in User : q.users[u] # "blocked"
  BY <1>1, <1>2 DEF RegistryType
<1> HIDE DEF q
<1>4. Sound(q)
  BY <1>2, <1>3 DEF Sound, PendingUnaddressed, PendingOwnersWait, BlockedUngranted
<1>5. ReadsHold
  BY DEF Init, ReadsHold
<1> QED
  BY <1>4, <1>5 DEF Init, SoundInv, Everywhere, q

LEMMA SoundAlways == Spec /\ []Alone => []SoundInv
<1>1. TypeOK /\ Alone /\ Alone' /\ NoOrphanMachines /\ SoundInv /\ [Next]_vars => SoundInv'
  BY SoundStep
<1> QED
  BY <1>1, SoundInit, TypeCorrect, NoMachineOutlivesItsUser, PTL DEF Spec

\* While handlers run one by one, on whatever threads, the server never gives an
\* address to a machine that nobody has approved, whatever the claims, pins,
\* subnets, failed saves and restarts: PendingHasNoAddress is an invariant.
THEOREM NoAddressBeforeApproval == Spec /\ []Alone => []PendingHasNoAddress
<1>1. SoundInv => PendingHasNoAddress
  BY DEF SoundInv, Sound, Everywhere, PendingHasNoAddress
<1> QED
  BY <1>1, SoundAlways, PTL

\* While handlers run one by one, the server never approves or blocks a machine
\* ahead of its user: PendingUserOnlyPendingMachines is an invariant.
THEOREM NoMachineAheadOfItsUser == Spec /\ []Alone => []PendingUserOnlyPendingMachines
<1>1. SoundInv => PendingUserOnlyPendingMachines
  BY DEF SoundInv, Sound, Everywhere, PendingUserOnlyPendingMachines
<1> QED
  BY <1>1, SoundAlways, PTL

\* While handlers run one by one, the server never blocks a user whose grants it
\* has not revoked, and grants nothing to one: BlockedUserHasNoGrants is an
\* invariant.
THEOREM BlockedUsersKeepNoGrants == Spec /\ []Alone => []BlockedUserHasNoGrants
<1>1. SoundInv => BlockedUserHasNoGrants
  BY DEF SoundInv, Sound, Everywhere, BlockedUngranted, BlockedUserHasNoGrants
<1> QED
  BY <1>1, SoundAlways, PTL

-----------------------------------------------------------------------------
(* What has been approved stays known, and what has been blocked stays     *)
(* blocked.                                                                *)

\* The next registry r forgets nothing but what waits ...
ForgetsOnlyPending(r) ==
  /\ \A u \in User : r.users[u] = "absent" => reg.users[u] \in {"absent", "pending"}
  /\ \A i \in Used(reg) :
       SlotsOfKey(r, reg.machines[i].key) = {} => reg.machines[i].status = "pending"

\* ... and unblocks no key.
KeepsBlocks(r) == \A k \in Key : IsBlocked(reg, k) => IsBlocked(r, k)

\* Entry by entry, the machines of r are those of reg.
LEMMA SameEntriesKeep ==
  ASSUME NEW r, Used(r) = Used(reg),
         \A i \in Used(reg) : r.machines[i].key = reg.machines[i].key
  PROVE  /\ \A k : SlotsOfKey(r, k) = SlotsOfKey(reg, k)
         /\ \A i \in Used(reg) : SlotsOfKey(r, reg.machines[i].key) # {}
         /\ (\A i \in Used(reg) : reg.machines[i].status = "blocked"
                                    => r.machines[i].status = "blocked")
              => KeepsBlocks(r)
BY DEF SlotsOfKey, KeepsBlocks, IsBlocked

\* Denial finds only waiting entries to remove.
LEMMA DeniedWait ==
  ASSUME reg \in RegistryType, Identified(reg), Sound(reg),
         NEW u \in User, NEW n \in Name \cup {NoName}, Found(reg, u, n) = "pending",
         NEW i \in Denied(reg, u, n)
  PROVE  i \in Used(reg) /\ reg.machines[i].status = "pending"
<1>1. CASE n = NoName
  BY <1>1 DEF Found, Denied, SlotsOfUser, Sound, PendingOwnersWait
<1>2. CASE n # NoName
  <2>1. i \in SlotsNamed(reg, u, n) /\ HasMachine(reg, u, n)
    BY <1>2 DEF Denied, HasMachine
  <2>2. SlotNamed(reg, u, n) \in SlotsNamed(reg, u, n)
    BY <2>1, SlotNamedIsNamed
  <2>3. i = SlotNamed(reg, u, n)
    BY <2>1, <2>2 DEF SlotsNamed, Identified, DistinctNames
  <2> QED BY <1>2, <2>1, <2>3 DEF Found, MachineNamed, SlotsNamed
<1> QED
  BY <1>1, <1>2

LEMMA JoinKeeps ==
  ASSUME ClaimsKeepUser, reg \in RegistryType, NoOrphans(reg), Identified(reg),
         NEW c \in Claim, c \in Claims, JoinAppends(reg, c) => HasRoom(reg)
  PROVE  ForgetsOnlyPending(RegisterJoin(reg, c)) /\ KeepsBlocks(RegisterJoin(reg, c))
<1> DEFINE r == RegisterJoin(reg, c)
<1>1. CASE JoinAppends(reg, c)
  <2> DEFINE new == Min(Slot \ Used(reg))
  <2>1. /\ r.users = IF reg.users[c.user] = "absent"
                     THEN [reg.users EXCEPT ![c.user] = "pending"] ELSE reg.users
        /\ new \in Slot \ Used(reg) /\ Used(r) = Used(reg) \cup {new}
        /\ r.machines[new] = NewMachine(c)
        /\ \A i \in Used(reg) : r.machines[i] = reg.machines[i]
    BY <1>1, AppendingJoin
  <2>2. \A u \in User : r.users[u] = "absent" => reg.users[u] = "absent"
    BY <2>1 DEF RegistryType
  <2>3. ~ IsBlocked(reg, c.key)
    <3>1. ASSUME NEW i \in SlotsOfKey(reg, c.key) PROVE FALSE
      <4>1. i \in Used(reg) /\ reg.machines[i].key = c.key
        BY DEF SlotsOfKey
      <4>2. reg.machines[i].user = c.user
        BY <4>1 DEF ClaimsKeepUser, Identified, ClaimedByNodes
      <4> QED BY <1>1, <3>1, <4>1, <4>2 DEF JoinAppends, NoOrphans
    <3> QED BY <3>1 DEF IsBlocked
  <2>4. NewMachine(c).key = c.key
    BY DEF NewMachine
  <2> HIDE DEF r, new
  <2>5. \A k : k # c.key => SlotsOfKey(r, k) = SlotsOfKey(reg, k)
    BY <2>1, <2>4 DEF SlotsOfKey
  <2>6. \A k : SlotsOfKey(reg, k) \subseteq SlotsOfKey(r, k)
    BY <2>1 DEF SlotsOfKey
  <2>7. ForgetsOnlyPending(r)
    BY <2>2, <2>6 DEF ForgetsOnlyPending, SlotsOfKey
  <2>8. ASSUME NEW k \in Key, IsBlocked(reg, k) PROVE IsBlocked(r, k)
    <3>1. SlotsOfKey(r, k) = SlotsOfKey(reg, k)
      BY <2>3, <2>5, <2>8
    <3>2. \A i \in SlotsOfKey(reg, k) : i \in Used(reg)
      BY DEF SlotsOfKey
    <3> QED BY <2>1, <2>8, <3>1, <3>2 DEF IsBlocked
  <2> QED BY <2>7, <2>8 DEF KeepsBlocks, r
<1>2. CASE ~ JoinAppends(reg, c)
  <2>1. /\ r.users = reg.users /\ Used(r) = Used(reg)
        /\ \A i \in Used(reg) : /\ r.machines[i].key = reg.machines[i].key
                                /\ r.machines[i].status = reg.machines[i].status
    BY <1>2, ReclaimingJoin
  <2> HIDE DEF r
  <2> QED
    BY <2>1, SameEntriesKeep DEF ForgetsOnlyPending, r
<1> QED
  BY <1>1, <1>2

LEMMA OperationKeeps ==
  ASSUME TypeOK, Sound(reg), Identified(reg), NEW t \in Thread,
         NEW u \in User, NEW n \in Name \cup {NoName},
         u = frame[t].user, n = frame[t].name,
         Justified(reg, pc[t], frame[t]), NEW r, Operation(t, u, n, r)
  PROVE  ForgetsOnlyPending(r) /\ (pc[t] # "unblock" => KeepsBlocks(r))
<1>1. reg \in RegistryType /\ NoName \notin Name
  BY NonesAreOutside DEF TypeOK, StoreOK
<1>2. ASSUME Used(r) = Used(reg),
             \A i \in Used(reg) : r.machines[i].key = reg.machines[i].key,
             \A v \in User : r.users[v] = reg.users[v] \/ r.users[v] # "absent",
             \A i \in Used(reg) : reg.machines[i].status = "blocked" /\ pc[t] # "unblock"
                                    => r.machines[i].status = "blocked"
      PROVE  ForgetsOnlyPending(r) /\ (pc[t] # "unblock" => KeepsBlocks(r))
  BY <1>2, SameEntriesKeep DEF ForgetsOnlyPending
<1>3. CASE CanAllow(reg, u, n) /\ r = Allow(reg, u, n)
  <2>1. /\ r.users = IF n = NoName THEN [reg.users EXCEPT ![u] = "active"] ELSE reg.users
        /\ Restatused(reg, r)
        /\ \A i \in Used(reg) :
             r.machines[i].status = IF n # NoName /\ i = SlotNamed(reg, u, n)
                                    THEN "active" ELSE reg.machines[i].status
    BY <1>1, <1>3, AllowEffect
  <2>2. n # NoName => reg.machines[SlotNamed(reg, u, n)].status = "pending"
    BY <1>3 DEF CanAllow, MachineNamed
  <2>3. \A v \in User : r.users[v] = reg.users[v] \/ r.users[v] # "absent"
    BY <1>1, <2>1 DEF RegistryType
  <2> QED BY <1>2, <2>1, <2>2, <2>3 DEF Restatused, SameMachine
<1>4. CASE Exists(reg, u, n) /\ r = Block(reg, u, n)
  <2>1. /\ r.users = IF n = NoName THEN [reg.users EXCEPT ![u] = "blocked"] ELSE reg.users
        /\ Restatused(reg, r)
        /\ \A i \in Used(reg) :
             r.machines[i].status = IF i \in Addressed(reg, u, n)
                                    THEN "blocked" ELSE reg.machines[i].status
    BY <1>1, <1>4, BlockEffect
  <2>2. \A v \in User : r.users[v] = reg.users[v] \/ r.users[v] # "absent"
    BY <1>1, <2>1 DEF RegistryType
  <2> QED BY <1>2, <2>1, <2>2 DEF Restatused, SameMachine
<1>5. CASE pc[t] = "unblock" /\ Exists(reg, u, n) /\ r = Unblock(reg, u, n)
  <2>1. /\ r.users = IF n = NoName /\ reg.users[u] = "blocked"
                     THEN [reg.users EXCEPT ![u] = "active"] ELSE reg.users
        /\ Restatused(reg, r)
    BY <1>1, <1>5, UnblockEffect
  <2>2. \A v \in User : r.users[v] = reg.users[v] \/ r.users[v] # "absent"
    BY <1>1, <2>1 DEF RegistryType
  <2> QED BY <1>2, <1>5, <2>1, <2>2 DEF Restatused, SameMachine
<1>6. CASE pc[t] = "deny" /\ r = Deny(reg, u, n)
  <2> DEFINE gone == Denied(reg, u, n)
  <2>1. /\ r.users = IF n = NoName THEN [reg.users EXCEPT ![u] = "absent"] ELSE reg.users
        /\ TakenFrom(reg, gone, r) /\ Retained(reg, gone, r)
    BY <1>1, <1>6, DenyEffect
  <2>2. Found(reg, u, n) = "pending"
    BY <1>6 DEF Justified
  <2>3. \A i \in gone : reg.machines[i].status = "pending"
    BY <1>1, <2>2, DeniedWait
  <2>4. \A v \in User : r.users[v] = reg.users[v] \/ reg.users[v] = "pending"
    BY <1>1, <2>1, <2>2 DEF RegistryType, Found
  <2> HIDE DEF gone
  <2>5. ASSUME NEW i \in Used(reg), reg.machines[i].status # "pending"
        PROVE  SlotsOfKey(r, reg.machines[i].key) # {}
    BY <2>1, <2>3, <2>5 DEF Retained, SlotsOfKey
  <2>6. ForgetsOnlyPending(r)
    BY <2>4, <2>5 DEF ForgetsOnlyPending
  <2>7. ASSUME NEW k \in Key, IsBlocked(reg, k) PROVE IsBlocked(r, k)
    <3>1. PICK i \in SlotsOfKey(reg, k) : reg.machines[i].status = "blocked"
      BY <2>7 DEF IsBlocked
    <3>2. SlotsOfKey(r, k) # {}
      BY <2>5, <3>1 DEF SlotsOfKey
    <3>3. PICK f \in [Used(r) -> Used(reg) \ gone] :
            \A j \in Used(r) : r.machines[j] = reg.machines[f[j]]
      BY <2>1 DEF TakenFrom
    <3>4. ASSUME NEW j \in SlotsOfKey(r, k) PROVE r.machines[j].status = "blocked"
      <4>1. j \in Used(r) /\ r.machines[j].key = k
        BY DEF SlotsOfKey
      <4>2. f[j] \in SlotsOfKey(reg, k)
        BY <3>3, <4>1 DEF SlotsOfKey
      <4> QED BY <2>7, <3>3, <4>1, <4>2 DEF IsBlocked
    <3> QED BY <3>2, <3>4 DEF IsBlocked
  <2> QED BY <2>6, <2>7 DEF KeepsBlocks
<1>7. ASSUME NEW target, r = AddGrant(reg, u, n, target) \/ r = Revoke(reg, u, n, target)
      PROVE  ForgetsOnlyPending(r) /\ (pc[t] # "unblock" => KeepsBlocks(r))
  <2>1. r.users = reg.users /\ r.machines = reg.machines /\ Used(r) = Used(reg)
    BY <1>1, <1>7, GrantEffect
  <2> QED BY <1>2, <2>1
<1>8. ASSUME NEW a \in Address, HasMachine(reg, u, n), r = SetMachineIP(reg, u, n, a)
      PROVE  ForgetsOnlyPending(r) /\ (pc[t] # "unblock" => KeepsBlocks(r))
  <2>1. /\ r.users = reg.users /\ Used(r) = Used(reg)
        /\ \A i \in Used(reg) : /\ r.machines[i].key = reg.machines[i].key
                                /\ r.machines[i].status = reg.machines[i].status
    BY <1>1, <1>8, SetMachineIPFields
  <2> QED BY <1>2, <2>1
<1> QED
  BY <1>3, <1>4, <1>5, <1>6, <1>7, <1>8 DEF Operation

LEMMA KeepsStep ==
  ASSUME ClaimsKeepUser, TypeOK, NoOrphanMachines, IdentityInv, SoundInv,
         [Next]_vars, restarts' = restarts
  PROVE  ForgetsOnlyPending(reg') /\ ((\A t \in Thread : pc[t] # "unblock") => KeepsBlocks(reg'))
<1> DEFINE Locked == \A t \in Thread : pc[t] # "unblock"
<1>1. /\ reg \in RegistryType /\ NoOrphans(reg) /\ Identified(reg) /\ Sound(reg)
      /\ restarts \in Nat
  BY BoundsAreNumbers
  DEF TypeOK, StoreOK, MemoryOK, NoOrphanMachines, IdentityInv, SoundInv, Everywhere
<1>2. ~ Restart
  BY <1>1 DEF Restart
<1>3. CASE UNCHANGED <<reg, disk>>
  BY <1>3 DEF ForgetsOnlyPending, KeepsBlocks, IsBlocked, SlotsOfKey, Used
<1>4. ASSUME NEW r, Changed(r), reg' = r
      PROVE  ForgetsOnlyPending(r) /\ (Locked => KeepsBlocks(r))
  <2>1. ASSUME NEW c \in Claim, Joining, c = ClaimOf(frame[Udp]), r = RegisterJoin(reg, c)
        PROVE  ForgetsOnlyPending(r) /\ KeepsBlocks(r)
    <3>1. c \in Claims
      BY <2>1 DEF IdentityInv, RegistersClaim
    <3>2. JoinAppends(reg, c) => HasRoom(reg)
      BY <2>1, ThreadsIncludeUdp DEF SoundInv, ReadsHold, Justified, Joining
    <3> QED BY <1>1, <2>1, <3>1, <3>2, JoinKeeps
  <2>2. ASSUME NEW t \in Thread, NEW u \in User, NEW n \in Name \cup {NoName},
               u = frame[t].user, n = frame[t].name, Operation(t, u, n, r)
        PROVE  ForgetsOnlyPending(r) /\ (Locked => KeepsBlocks(r))
    <3>1. Justified(reg, pc[t], frame[t])
      BY <2>2 DEF Operation, SoundInv, ReadsHold
    <3> QED BY <1>1, <2>2, <3>1, OperationKeeps
  <2> QED BY <1>4, <2>1, <2>2 DEF Changed
<1>5. ASSUME NEW r, Changed(r), SaveWorks(r) \/ SaveFails(r) PROVE reg' = r
  BY <1>5 DEF SaveWorks, SaveFails
<1> QED
  BY <1>2, <1>3, <1>4, <1>5, StoreChanges DEF StoreStep

\* While handlers run one by one, and for nodes that keep their user, the server
\* forgets only what waits: RemovesOnlyPending holds of every behaviour.
THEOREM OnlyPendingIsRemoved ==
  ASSUME ClaimsKeepUser
  PROVE  Spec /\ []Alone => RemovesOnlyPending
<1> DEFINE Removes ==
      restarts' = restarts =>
        /\ \A u \in User : reg'.users[u] = "absent" => reg.users[u] \in {"absent", "pending"}
        /\ \A i \in Used(reg) :
             SlotsOfKey(reg', reg.machines[i].key) = {} => reg.machines[i].status = "pending"
<1>1. TypeOK /\ NoOrphanMachines /\ IdentityInv /\ SoundInv /\ [Next]_vars => [Removes]_vars
  BY KeepsStep DEF ForgetsOnlyPending
<1> QED
  BY <1>1, TypeCorrect, NoMachineOutlivesItsUser, IdentityAlways, SoundAlways, PTL
  DEF Spec, RemovesOnlyPending

\* While handlers run one by one, and for nodes that keep their user, a blocked
\* key stays blocked until an unblock or a restart: BlocksHold holds of every
\* behaviour.
THEOREM BlockedStaysBlocked ==
  ASSUME ClaimsKeepUser
  PROVE  Spec /\ []Alone => BlocksHold
<1> DEFINE Holds ==
      restarts' = restarts =>
        \A k \in Key : IsBlocked(reg, k) /\ ~ IsBlocked(reg', k) =>
          \E t \in Thread : pc[t] = "unblock"
<1>1. TypeOK /\ NoOrphanMachines /\ IdentityInv /\ SoundInv /\ [Next]_vars => [Holds]_vars
  BY KeepsStep DEF KeepsBlocks
<1> QED
  BY <1>1, TypeCorrect, NoMachineOutlivesItsUser, IdentityAlways, SoundAlways, PTL
  DEF Spec, BlocksHold

-----------------------------------------------------------------------------
(* The control plane implements Membership.                                *)

KeysOf(r, slots) == {r.machines[i].key : i \in slots}

\* The step decides as Membership does, or leaves the membership alone.
Decided == Book!Decide \/ (StandingIn(reg') = StandingIn(reg) /\ AddressIn(reg') = AddressIn(reg))

LEMMA BookChanges ==
  ASSUME NEW keys, NEW to,
         StandingIn(reg') = [k \in Key |-> IF k \in keys THEN to ELSE StandingIn(reg)[k]],
         AddressIn(reg') = AddressIn(reg)
  PROVE  Book!Change(keys, to)
BY DEF Book!Change, StandingIn, AddressIn, EntryOf

LEMMA BookLeases ==
  ASSUME NEW k \in Key, NEW a \in Address,
         StandingIn(reg)[k] \in {"active", "blocked"},
         \A other \in Key : AddressIn(reg)[other] # a,
         StandingIn(reg') = StandingIn(reg),
         AddressIn(reg') = [AddressIn(reg) EXCEPT ![k] = a]
  PROVE  Decided
<1>1. Book!Lease(k, a)
  BY DEF Book!Lease, Book!Approved, StandingIn, AddressIn, EntryOf
<1> QED
  BY <1>1 DEF Book!Decide, Decided

\* The entry of a key is the one that has it.
LEMMA EntryOfKey ==
  ASSUME NEW r \in RegistryType, DistinctKeys(r), NEW i \in Used(r)
  PROVE  /\ r.machines[i].key \in Key
         /\ SlotsOfKey(r, r.machines[i].key) = {i}
         /\ StandingIn(r)[r.machines[i].key] = r.machines[i].status
         /\ AddressIn(r)[r.machines[i].key] = r.machines[i].ip
<1> DEFINE k == r.machines[i].key
<1>1. k \in Key /\ i \in Nat
  BY UsedHoldsMachine, LookupsAreUsed DEF Machine
<1>2. SlotsOfKey(r, k) = {i}
  BY DEF SlotsOfKey, DistinctKeys
<1>3. Min({i}) = i
  BY <1>1, MinIsLeast
<1> QED
  BY <1>1, <1>2, <1>3 DEF StandingIn, AddressIn, EntryOf

LEMMA NoEntryOfKey ==
  ASSUME NEW r, NEW k \in Key, SlotsOfKey(r, k) = {}
  PROVE  StandingIn(r)[k] = "unknown" /\ AddressIn(r)[k] = NoAddress
BY DEF StandingIn, AddressIn

\* Two registries that agree entry by entry on the keys ...
LEMMA SameKeysView ==
  ASSUME NEW r \in RegistryType, NEW q \in RegistryType, DistinctKeys(r),
         Used(q) = Used(r), \A i \in Used(r) : q.machines[i].key = r.machines[i].key,
         NEW k \in Key
  PROVE  \/ /\ StandingIn(q)[k] = "unknown" /\ StandingIn(r)[k] = "unknown"
            /\ AddressIn(q)[k] = NoAddress /\ AddressIn(r)[k] = NoAddress
            /\ \A i \in Used(r) : r.machines[i].key # k
         \/ \E i \in Used(r) :
              /\ r.machines[i].key = k
              /\ \A j \in Used(r) : r.machines[j].key = k => j = i
              /\ StandingIn(q)[k] = q.machines[i].status
              /\ StandingIn(r)[k] = r.machines[i].status
              /\ AddressIn(q)[k] = q.machines[i].ip
              /\ AddressIn(r)[k] = r.machines[i].ip
<1>1. DistinctKeys(q)
  BY DEF DistinctKeys
<1>2. CASE \E i \in Used(r) : r.machines[i].key = k
  <2>1. PICK i \in Used(r) : r.machines[i].key = k
    BY <1>2
  <2> QED BY <1>1, <2>1, EntryOfKey DEF DistinctKeys
<1>3. CASE \A i \in Used(r) : r.machines[i].key # k
  <2>1. SlotsOfKey(r, k) = {} /\ SlotsOfKey(q, k) = {}
    BY <1>3 DEF SlotsOfKey
  <2> QED BY <1>3, <2>1, NoEntryOfKey
<1> QED
  BY <1>2, <1>3

\* ... differ in what they say of those keys only whose status changed.
LEMMA RestatusedBooks ==
  ASSUME reg \in RegistryType, reg' \in RegistryType, DistinctKeys(reg),
         Restatused(reg, reg'), NEW slots \in SUBSET Used(reg), NEW to,
         \A i \in Used(reg) : reg'.machines[i].status = IF i \in slots THEN to
                                                        ELSE reg.machines[i].status
  PROVE  Book!Change(KeysOf(reg, slots), to)
<1>1. /\ Used(reg') = Used(reg)
      /\ \A i \in Used(reg) : /\ reg'.machines[i].key = reg.machines[i].key
                              /\ reg'.machines[i].ip = reg.machines[i].ip
  BY DEF Restatused, SameMachine
<1>2. ASSUME NEW k \in Key
      PROVE  /\ StandingIn(reg')[k] = IF k \in KeysOf(reg, slots) THEN to
                                      ELSE StandingIn(reg)[k]
             /\ AddressIn(reg')[k] = AddressIn(reg)[k]
  <2>1. k \in KeysOf(reg, slots) <=> \E i \in slots : reg.machines[i].key = k
    BY DEF KeysOf
  <2> QED BY <1>1, <2>1, SameKeysView
<1>3. /\ StandingIn(reg') = [k \in Key |-> IF k \in KeysOf(reg, slots) THEN to
                                           ELSE StandingIn(reg)[k]]
      /\ AddressIn(reg') = AddressIn(reg)
  BY <1>2 DEF StandingIn, AddressIn
<1> QED
  BY <1>3, BookChanges

LEMMA SameView ==
  ASSUME NEW r, NEW q,
         \A k \in Key : StandingIn(q)[k] = StandingIn(r)[k] /\ AddressIn(q)[k] = AddressIn(r)[k]
  PROVE  StandingIn(q) = StandingIn(r) /\ AddressIn(q) = AddressIn(r)
BY DEF StandingIn, AddressIn

LEMMA JoinBooks ==
  ASSUME ClaimsKeepUser, reg \in RegistryType, reg' \in RegistryType,
         NoOrphans(reg), Identified(reg), Identified(reg'),
         NEW c \in Claim, c \in Claims, JoinAppends(reg, c) => HasRoom(reg),
         reg' = RegisterJoin(reg, c)
  PROVE  Decided
<1> DEFINE r == reg'
<1>1. CASE JoinAppends(reg, c)
  <2> DEFINE new == Min(Slot \ Used(reg))
  <2>1. /\ new \in Slot \ Used(reg) /\ Used(r) = Used(reg) \cup {new}
        /\ r.machines[new] = NewMachine(c)
        /\ \A i \in Used(reg) : r.machines[i] = reg.machines[i]
    <3> DEFINE q == RegisterJoin(reg, c)
    <3>1. HasRoom(reg)
      BY <1>1
    <3>2. /\ new \in Slot \ Used(reg) /\ Used(q) = Used(reg) \cup {new}
          /\ q.machines[new] = NewMachine(c)
          /\ \A i \in Used(reg) : q.machines[i] = reg.machines[i]
      BY <1>1, <3>1, AppendingJoin
    <3> HIDE DEF q, new
    <3>3. r = q
      BY DEF q
    <3> QED BY <3>2, <3>3
  <2>2. SlotsOfKey(reg, c.key) = {}
    <3>1. ASSUME NEW i \in SlotsOfKey(reg, c.key) PROVE reg.users[c.user] # "absent"
      <4>1. i \in Used(reg) /\ reg.machines[i].key = c.key
        BY DEF SlotsOfKey
      <4>2. reg.machines[i].user = c.user
        BY <4>1 DEF ClaimsKeepUser, Identified, ClaimedByNodes
      <4> QED BY <4>1, <4>2 DEF NoOrphans
    <3> QED BY <1>1, <3>1 DEF JoinAppends
  <2>3. /\ NewMachine(c).key = c.key
        /\ NewMachine(c).status = "pending"
        /\ NewMachine(c).ip = NoAddress
        /\ c.key \in Key
    BY DEF NewMachine, Claim
  <2>4. DistinctKeys(reg) /\ DistinctKeys(r)
    BY DEF Identified
  <2> HIDE DEF new
  <2>5. ASSUME NEW k \in Key
        PROVE  /\ StandingIn(r)[k] = IF k \in {c.key} THEN "pending" ELSE StandingIn(reg)[k]
               /\ AddressIn(r)[k] = AddressIn(reg)[k]
    <3>1. CASE k = c.key
      <4>1. StandingIn(r)[k] = "pending" /\ AddressIn(r)[k] = NoAddress
        BY <2>1, <2>3, <2>4, <3>1, EntryOfKey
      <4>2. AddressIn(reg)[k] = NoAddress
        BY <2>2, <3>1, NoEntryOfKey
      <4> QED BY <3>1, <4>1, <4>2
    <3>2. CASE k # c.key
      <4>1. SlotsOfKey(r, k) = SlotsOfKey(reg, k)
        BY <2>1, <2>3, <3>2 DEF SlotsOfKey
      <4>2. CASE SlotsOfKey(reg, k) = {}
        BY <3>2, <4>1, <4>2, NoEntryOfKey
      <4>3. CASE SlotsOfKey(reg, k) # {}
        <5>1. PICK i \in Used(reg) : reg.machines[i].key = k
          BY <4>3 DEF SlotsOfKey
        <5>2. i \in Used(r) /\ r.machines[i] = reg.machines[i]
          BY <2>1, <5>1
        <5> QED BY <2>4, <3>2, <5>1, <5>2, EntryOfKey
      <4> QED BY <4>2, <4>3
    <3> QED BY <3>1, <3>2
  <2>6. Book!Change({c.key}, "pending")
    <3>1. /\ StandingIn(r) = [k \in Key |-> IF k \in {c.key} THEN "pending"
                                            ELSE StandingIn(reg)[k]]
          /\ AddressIn(r) = AddressIn(reg)
      BY <2>5 DEF StandingIn, AddressIn
    <3> QED BY <3>1, BookChanges
  <2>7. StandingIn(reg)[c.key] = "unknown"
    BY <2>2, <2>3, NoEntryOfKey
  <2>8. Book!Register(c.key)
    BY <2>3, <2>6, <2>7 DEF Book!Register, StandingIn, EntryOf
  <2> QED BY <2>3, <2>8 DEF Book!Decide, Decided
<1>2. CASE ~ JoinAppends(reg, c)
  <2>1. /\ Used(r) = Used(reg)
        /\ \A i \in Used(reg) : /\ r.machines[i].key = reg.machines[i].key
                                /\ r.machines[i].status = reg.machines[i].status
                                /\ r.machines[i].ip = reg.machines[i].ip
    BY <1>2, ReclaimingJoin
  <2>2. \A k \in Key : /\ StandingIn(r)[k] = StandingIn(reg)[k]
                       /\ AddressIn(r)[k] = AddressIn(reg)[k]
    BY <2>1, SameKeysView DEF Identified
  <2> QED BY <2>2, SameView DEF Decided
<1> QED
  BY <1>1, <1>2

\* Denying entries that wait, and have no address, forgets their keys.
LEMMA DenialBooks ==
  ASSUME reg \in RegistryType, reg' \in RegistryType, Identified(reg), Identified(reg'),
         Sound(reg), NEW gone \in SUBSET Used(reg),
         \A i \in gone : reg.machines[i].status = "pending",
         TakenFrom(reg, gone, reg'), Retained(reg, gone, reg')
  PROVE  Book!Forget(KeysOf(reg, gone))
<1> DEFINE keys == KeysOf(reg, gone)
<1>1. DistinctKeys(reg) /\ DistinctKeys(reg')
  BY DEF Identified
<1>2. PICK f \in [Used(reg') -> Used(reg) \ gone] :
        \A i \in Used(reg') : reg'.machines[i] = reg.machines[f[i]]
  BY DEF TakenFrom
<1>3. ASSUME NEW k \in Key
      PROVE  /\ StandingIn(reg')[k] = IF k \in keys THEN "unknown" ELSE StandingIn(reg)[k]
             /\ AddressIn(reg')[k] = AddressIn(reg)[k]
             /\ k \in keys => StandingIn(reg)[k] = "pending"
  <2>1. CASE k \in keys
    <3>1. PICK i \in gone : reg.machines[i].key = k
      BY <2>1 DEF KeysOf
    <3>2. StandingIn(reg)[k] = "pending" /\ AddressIn(reg)[k] = NoAddress
      BY <1>1, <3>1, EntryOfKey DEF Sound, PendingUnaddressed
    <3>3. ASSUME NEW j \in SlotsOfKey(reg', k) PROVE FALSE
      <4>1. j \in Used(reg') /\ reg'.machines[j].key = k
        BY DEF SlotsOfKey
      <4>2. f[j] \in Used(reg) \ gone /\ reg.machines[f[j]].key = k
        BY <1>2, <4>1
      <4> QED BY <1>1, <3>1, <4>2 DEF DistinctKeys
    <3>4. StandingIn(reg')[k] = "unknown" /\ AddressIn(reg')[k] = NoAddress
      BY <3>3, NoEntryOfKey
    <3> QED BY <2>1, <3>2, <3>4
  <2>2. CASE k \notin keys /\ SlotsOfKey(reg, k) = {}
    <3>1. SlotsOfKey(reg', k) = {}
      BY <1>2, <2>2 DEF SlotsOfKey
    <3> QED BY <2>2, <3>1, NoEntryOfKey
  <2>3. CASE k \notin keys /\ SlotsOfKey(reg, k) # {}
    <3>1. PICK i \in Used(reg) : reg.machines[i].key = k
      BY <2>3 DEF SlotsOfKey
    <3>2. i \notin gone
      BY <2>3, <3>1 DEF KeysOf
    <3>3. PICK j \in Used(reg') : reg'.machines[j] = reg.machines[i]
      BY <3>1, <3>2 DEF Retained
    <3> QED BY <1>1, <2>3, <3>1, <3>3, EntryOfKey
  <2> QED BY <2>1, <2>2, <2>3
<1>4. Book!Change(keys, "unknown")
  <2>1. /\ StandingIn(reg') = [k \in Key |-> IF k \in keys THEN "unknown" ELSE StandingIn(reg)[k]]
        /\ AddressIn(reg') = AddressIn(reg)
    BY <1>3 DEF StandingIn, AddressIn
  <2> QED BY <2>1, BookChanges
<1>5. \A k \in keys : k \in Key /\ StandingIn(reg)[k] = "pending"
  <2>1. \A i \in gone : reg.machines[i].key \in Key
    BY <1>1, EntryOfKey
  <2> QED BY <1>3, <2>1 DEF KeysOf
<1> HIDE DEF keys
<1> QED
  BY <1>4, <1>5 DEF Book!Forget, StandingIn, EntryOf, keys

LEMMA OperationBooks ==
  ASSUME TypeOK, TypeOK', Identified(reg), Identified(reg'), Sound(reg), AddressInv,
         NEW t \in Thread, NEW u \in User, NEW n \in Name \cup {NoName},
         u = frame[t].user, n = frame[t].name,
         Justified(reg, pc[t], frame[t]), Operation(t, u, n, reg')
  PROVE  Decided
<1>1. reg \in RegistryType /\ reg' \in RegistryType /\ NoName \notin Name /\ DistinctKeys(reg)
  BY NonesAreOutside DEF TypeOK, StoreOK, Identified
<1>2. \A slots \in SUBSET Used(reg) : /\ KeysOf(reg, slots) \in SUBSET Key
                                      /\ \A k \in KeysOf(reg, slots) : \E i \in slots :
                                           StandingIn(reg)[k] = reg.machines[i].status
  <2>1. \A i \in Used(reg) : /\ reg.machines[i].key \in Key
                             /\ StandingIn(reg)[reg.machines[i].key] = reg.machines[i].status
    BY <1>1, EntryOfKey
  <2> QED BY <2>1 DEF KeysOf
<1>3. CASE CanAllow(reg, u, n) /\ reg' = Allow(reg, u, n)
  <2> DEFINE q == Allow(reg, u, n)
             slots == IF n = NoName THEN {} ELSE {SlotNamed(reg, u, n)}
  <2>1. /\ Restatused(reg, q)
        /\ \A i \in Used(reg) :
             q.machines[i].status = IF n # NoName /\ i = SlotNamed(reg, u, n)
                                    THEN "active" ELSE reg.machines[i].status
    <3>1. reg \in RegistryType /\ CanAllow(reg, u, n)
      BY <1>1, <1>3
    <3> QED BY <3>1, AllowRestatuses
  <2>2. slots \in SUBSET Used(reg) /\ \A i \in slots : reg.machines[i].status = "pending"
    BY <1>1, <1>3, SlotNamedIsNamed DEF CanAllow, MachineNamed
  <2>3. \A i \in Used(reg) : q.machines[i].status = IF i \in slots THEN "active"
                                                    ELSE reg.machines[i].status
    BY <2>1
  <2> HIDE DEF q
  <2>4. q = reg'
    BY <1>3 DEF q
  <2>5. CASE n = NoName
    <3>1. \A i \in Used(reg) : q.machines[i].status = reg.machines[i].status
      BY <2>3, <2>5
    <3>2. /\ Used(q) = Used(reg)
          /\ \A i \in Used(reg) : /\ q.machines[i].key = reg.machines[i].key
                                  /\ q.machines[i].ip = reg.machines[i].ip
      BY <2>1 DEF Restatused, SameMachine
    <3>3. \A k \in Key : /\ StandingIn(q)[k] = StandingIn(reg)[k]
                         /\ AddressIn(q)[k] = AddressIn(reg)[k]
      BY <1>1, <2>4, <3>1, <3>2, SameKeysView
    <3>4. StandingIn(q) = StandingIn(reg) /\ AddressIn(q) = AddressIn(reg)
      BY <3>3, SameView
    <3> QED BY <2>4, <3>4 DEF Decided
  <2>6. CASE n # NoName
    <3> DEFINE k == reg.machines[SlotNamed(reg, u, n)].key
    <3>1. slots = {SlotNamed(reg, u, n)} /\ SlotNamed(reg, u, n) \in Used(reg)
      BY <2>2, <2>6
    <3>2. KeysOf(reg, slots) = {k} /\ k \in Key /\ StandingIn(reg)[k] = "pending"
      BY <1>1, <2>2, <3>1, EntryOfKey DEF KeysOf
    <3> HIDE DEF slots, k
    <3>3. Book!Change(KeysOf(reg, slots), "active")
      BY <1>1, <2>1, <2>2, <2>3, <2>4, RestatusedBooks
    <3>4. Book!Change({k}, "active")
      BY <3>2, <3>3
    <3>5. Book!Approve(k)
      BY <3>2, <3>4 DEF Book!Approve, StandingIn, EntryOf
    <3> QED BY <3>2, <3>5 DEF Book!Decide, Decided
  <2> QED BY <2>5, <2>6
<1>4. CASE Exists(reg, u, n) /\ reg' = Block(reg, u, n)
  <2> DEFINE q == Block(reg, u, n)
             slots == Addressed(reg, u, n)
  <2>1. /\ Restatused(reg, q)
        /\ slots \subseteq Used(reg)
        /\ \A i \in Used(reg) : q.machines[i].status = IF i \in slots THEN "blocked"
                                                       ELSE reg.machines[i].status
    <3>1. reg \in RegistryType /\ Exists(reg, u, n)
      BY <1>1, <1>4
    <3> QED BY <3>1, BlockRestatuses
  <2> HIDE DEF q, slots
  <2>2. q = reg' /\ slots \in SUBSET Used(reg)
    BY <1>4, <2>1 DEF q
  <2>3. Book!Change(KeysOf(reg, slots), "blocked")
    BY <1>1, <2>1, <2>2, RestatusedBooks
  <2>4. \A k \in KeysOf(reg, slots) : StandingIn(reg)[k] # "unknown" /\ k \in Key
    <3>1. \A i \in Used(reg) : reg.machines[i].status # "unknown"
      BY <1>1, UsedHoldsMachine DEF Machine, MachineStatus
    <3> QED BY <1>2, <2>2, <3>1
  <2>5. Book!Suspend(KeysOf(reg, slots))
    BY <2>3, <2>4 DEF Book!Suspend, StandingIn, EntryOf
  <2> QED BY <1>2, <2>2, <2>5 DEF Book!Decide, Decided
<1>5. CASE Exists(reg, u, n) /\ reg' = Unblock(reg, u, n)
  <2> DEFINE q == Unblock(reg, u, n)
             slots == {i \in Addressed(reg, u, n) : reg.machines[i].status = "blocked"}
  <2>1. /\ Restatused(reg, q)
        /\ Addressed(reg, u, n) \subseteq Used(reg)
        /\ \A i \in Used(reg) :
             q.machines[i].status =
               IF i \in Addressed(reg, u, n) /\ reg.machines[i].status = "blocked"
               THEN "active" ELSE reg.machines[i].status
    <3>1. reg \in RegistryType /\ Exists(reg, u, n)
      BY <1>1, <1>5
    <3> QED BY <3>1, UnblockRestatuses
  <2>2. /\ slots \in SUBSET Used(reg)
        /\ \A i \in slots : reg.machines[i].status = "blocked"
        /\ \A i \in Used(reg) : q.machines[i].status = IF i \in slots THEN "active"
                                                       ELSE reg.machines[i].status
    BY <2>1
  <2> HIDE DEF q, slots
  <2>3. q = reg'
    BY <1>5 DEF q
  <2>4. Book!Change(KeysOf(reg, slots), "active")
    BY <1>1, <2>1, <2>2, <2>3, RestatusedBooks
  <2>5. \A k \in KeysOf(reg, slots) : StandingIn(reg)[k] = "blocked" /\ k \in Key
    BY <1>2, <2>2
  <2>6. Book!Resume(KeysOf(reg, slots))
    BY <2>4, <2>5 DEF Book!Resume, StandingIn, EntryOf
  <2> QED BY <1>2, <2>2, <2>6 DEF Book!Decide, Decided
<1>6. CASE pc[t] = "deny" /\ reg' = Deny(reg, u, n)
  <2> DEFINE q == Deny(reg, u, n)
             gone == Denied(reg, u, n)
  <2>1. TakenFrom(reg, gone, q) /\ Retained(reg, gone, q)
    BY <1>1, DenyEffect
  <2>2. Found(reg, u, n) = "pending"
    BY <1>6 DEF Justified
  <2>3. \A i \in gone : i \in Used(reg) /\ reg.machines[i].status = "pending"
    BY <1>1, <2>2, DeniedWait
  <2> HIDE DEF q, gone
  <2>4. q = reg'
    BY <1>6 DEF q
  <2>5. Book!Forget(KeysOf(reg, gone))
    BY <1>1, <2>1, <2>3, <2>4, DenialBooks
  <2> QED BY <1>2, <2>3, <2>5 DEF Book!Decide, Decided
<1>7. ASSUME NEW target, reg' = AddGrant(reg, u, n, target) \/ reg' = Revoke(reg, u, n, target)
      PROVE  Decided
  <2>1. reg'.machines = reg.machines /\ Used(reg') = Used(reg)
    BY <1>1, <1>7, GrantEffect
  <2>2. StandingIn(reg') = StandingIn(reg) /\ AddressIn(reg') = AddressIn(reg)
    BY <2>1 DEF StandingIn, AddressIn, EntryOf, SlotsOfKey
  <2> QED BY <2>2 DEF Decided
<1>8. CASE /\ pc[t] = "assign" /\ n \in Name /\ frame[t].ip \in Address
           /\ HasMachine(reg, u, n) /\ reg' = SetMachineIP(reg, u, n, frame[t].ip)
  <2> DEFINE a == frame[t].ip
             q == SetMachineIP(reg, u, n, a)
             s == SlotNamed(reg, u, n)
             k == reg.machines[s].key
  <2>1. /\ Used(q) = Used(reg) /\ s \in Used(reg)
        /\ \A i \in Used(reg) :
             /\ q.machines[i].key = reg.machines[i].key
             /\ q.machines[i].status = reg.machines[i].status
             /\ q.machines[i].ip = IF i = s THEN a ELSE reg.machines[i].ip
    BY <1>1, <1>8, SetMachineIPFields
  <2>2. reg.machines[s].status \in {"active", "blocked"}
    <3>1. reg.machines[s].status # "pending"
      BY <1>1, <1>8 DEF Justified, Found, MachineNamed
    <3> QED BY <1>1, <2>1, <3>1, UsedHoldsMachine DEF Machine, MachineStatus
  <2>3. Unheld(reg, a) /\ a # NoAddress
    <3>1. pc[t] = "assign" /\ a \in Address
      BY <1>8
    <3> QED BY <3>1, NonesAreOutside DEF AddressInv, PickIsFree, Address
  <2>4. k \in Key /\ StandingIn(reg)[k] \in {"active", "blocked"}
    BY <1>1, <2>1, <2>2, EntryOfKey
  <2>5. \A other \in Key : AddressIn(reg)[other] # a
    <3>1. ASSUME NEW other \in Key PROVE AddressIn(reg)[other] # a
      <4>1. CASE SlotsOfKey(reg, other) = {}
        BY <2>3, <4>1, NoEntryOfKey
      <4>2. CASE SlotsOfKey(reg, other) # {}
        <5>1. PICK i \in Used(reg) : reg.machines[i].key = other
          BY <4>2 DEF SlotsOfKey
        <5>2. AddressIn(reg)[other] = reg.machines[i].ip
          BY <1>1, <5>1, EntryOfKey
        <5> QED BY <2>3, <5>2 DEF Unheld
      <4> QED BY <4>1, <4>2
    <3> QED BY <3>1
  <2> HIDE DEF a, q, s
  <2>6. q = reg'
    BY <1>8 DEF q, a
  <2>7. ASSUME NEW x \in Key
        PROVE  /\ StandingIn(q)[x] = StandingIn(reg)[x]
               /\ AddressIn(q)[x] = IF x = k THEN a ELSE AddressIn(reg)[x]
    BY <1>1, <2>1, <2>6, SameKeysView
  <2>8. StandingIn(q) = StandingIn(reg) /\ AddressIn(q) = [AddressIn(reg) EXCEPT ![k] = a]
    BY <2>4, <2>7 DEF StandingIn, AddressIn
  <2>9. a \in Address
    BY <1>8 DEF a
  <2> HIDE DEF k
  <2> QED BY <2>4, <2>5, <2>6, <2>8, <2>9, BookLeases
<1> QED
  BY <1>3, <1>4, <1>5, <1>6, <1>7, <1>8 DEF Operation

LEMMA BookDecides ==
  ASSUME ClaimsKeepUser, TypeOK, TypeOK', NoOrphanMachines, IdentityInv, IdentityInv',
         SoundInv, AddressInv, Changed(reg')
  PROVE  Decided
<1>1. /\ reg \in RegistryType /\ reg' \in RegistryType /\ NoOrphans(reg)
      /\ Identified(reg) /\ Identified(reg') /\ Sound(reg)
  BY DEF TypeOK, StoreOK, NoOrphanMachines, IdentityInv, SoundInv, Everywhere
<1>2. ASSUME NEW c \in Claim, Joining, c = ClaimOf(frame[Udp]), reg' = RegisterJoin(reg, c)
      PROVE  Decided
  <2>1. c \in Claims
    BY <1>2 DEF IdentityInv, RegistersClaim
  <2>2. JoinAppends(reg, c) => HasRoom(reg)
    BY <1>2, ThreadsIncludeUdp DEF SoundInv, ReadsHold, Justified, Joining
  <2> QED BY <1>1, <1>2, <2>1, <2>2, JoinBooks
<1>3. ASSUME NEW t \in Thread, NEW u \in User, NEW n \in Name \cup {NoName},
             u = frame[t].user, n = frame[t].name, Operation(t, u, n, reg')
      PROVE  Decided
  <2>1. Justified(reg, pc[t], frame[t])
    BY <1>3 DEF Operation, SoundInv, ReadsHold
  <2> QED BY <1>1, <1>3, <2>1, OperationBooks
<1> QED
  BY <1>2, <1>3 DEF Changed

\* What is on disk afterwards is what was there, or what is in memory now.
LEMMA BookSaves ==
  ASSUME disk' = disk \/ disk' = reg'
  PROVE  Book!Save
BY DEF Book!Save, Book!Now, StandingIn, AddressIn, EntryOf

LEMMA BookSteps ==
  ASSUME Decided, Book!Save
  PROVE  Book!Next
<1>1. CASE Book!Decide
  BY <1>1 DEF Book!Next
<1>2. CASE StandingIn(reg') = StandingIn(reg) /\ AddressIn(reg') = AddressIn(reg)
  BY <1>2 DEF Book!Next, StandingIn, AddressIn, EntryOf
<1> QED
  BY <1>1, <1>2 DEF Decided

LEMMA BookRecovers ==
  ASSUME StandingIn(reg') = StandingIn(disk), AddressIn(reg') = AddressIn(disk),
         StandingIn(disk') = StandingIn(disk), AddressIn(disk') = AddressIn(disk)
  PROVE  Book!Next
BY DEF Book!Next, Book!Recover, Book!Now, StandingIn, AddressIn, EntryOf

LEMMA BookStep ==
  ASSUME ClaimsKeepUser, TypeOK, TypeOK', NoOrphanMachines, IdentityInv, IdentityInv',
         SoundInv, AddressInv, [Next]_vars
  PROVE  Book!Next
<1>1. CASE UNCHANGED <<reg, disk>>
  <2>1. Decided
    BY <1>1 DEF Decided
  <2> QED BY <1>1, <2>1, BookSaves, BookSteps
<1>2. ASSUME NEW r, Changed(r), SaveWorks(r) \/ SaveFails(r) PROVE Book!Next
  <2>1. reg' = r /\ (disk' = disk \/ disk' = reg')
    BY <1>2 DEF SaveWorks, SaveFails
  <2>2. Decided
    BY <1>2, <2>1, BookDecides
  <2> QED BY <2>1, <2>2, BookSaves, BookSteps
<1>3. CASE Restart
  <2>1. disk \in RegistryType
    BY DEF TypeOK, StoreOK
  <2> DEFINE q == EnsureAdmin(disk)
  <2>2. q.machines = disk.machines /\ Used(q) = Used(disk)
    BY <2>1, EnsureAdminEffect
  <2>3. reg' = q /\ disk' = q
    BY <1>3 DEF Restart
  <2> HIDE DEF q
  <2>4. StandingIn(q) = StandingIn(disk) /\ AddressIn(q) = AddressIn(disk)
    BY <2>2 DEF StandingIn, AddressIn, EntryOf, SlotsOfKey
  <2> QED BY <2>3, <2>4, BookRecovers
<1> QED
  BY <1>1, <1>2, <1>3, StoreChanges DEF StoreStep

\* While handlers run one by one, for nodes that keep their user, every step of
\* the control plane is a step of Membership: registration, approval, blocking,
\* unblocking and removal of keys, addresses that go only to approved keys and
\* only when nobody holds them, saves that may fail, and restarts that fall back
\* to what was saved.
THEOREM ServerKeepsTheBook ==
  ASSUME ClaimsKeepUser
  PROVE  Spec /\ []Alone => ImplementsMembership
<1>1. Init => Book!Init
  <2> SUFFICES ASSUME Init PROVE Book!Init
    OBVIOUS
  <2>1. EmptyRegistry \in RegistryType /\ Used(EmptyRegistry) = {}
    BY EmptyRegistryType DEF EmptyRegistry, Used
  <2>2. Used(reg) = {} /\ disk = reg
    BY <2>1, EnsureAdminEffect DEF Init
  <2>3. \A k \in Key : SlotsOfKey(reg, k) = {}
    BY <2>2 DEF SlotsOfKey
  <2> QED BY <2>2, <2>3 DEF Book!Init, Book!Now, StandingIn, AddressIn
<1>2. /\ TypeOK /\ NoOrphanMachines /\ IdentityInv /\ SoundInv /\ AddressInv /\ [Next]_vars
      /\ TypeOK' /\ IdentityInv'
      => Book!Next
  BY BookStep
<1>3. Spec => []IdentityInv
  BY IdentityAlways
<1> QED
  BY <1>1, <1>2, <1>3, AloneAssigns, TypeCorrect, NoMachineOutlivesItsUser, SoundAlways,
     AddressAlways, PTL
  DEF Spec, ImplementsMembership, Book!Spec

-----------------------------------------------------------------------------
(* Endpoints: where the server sends what is for an address.               *)

\* Some node claims to be machine n of user u, with key k.
Claimed(u, n, k) == \E c \in Claims : c.user = u /\ c.name = n /\ c.key = k

\* A join speaks for a claim (a command has no key, and a signed message is
\* not from the join of a claim) ...
SpeaksForClaim ==
  pc[Udp] \notin {"idle", "heard"} =>
    frame[Udp].key = NoKey \/ Claimed(frame[Udp].user, frame[Udp].name, frame[Udp].key)

\* ... and the endpoint of a name is a node that claimed that name.
EndpointsClaimed ==
  \A u \in User, n \in Name :
    endpoints[<<u, n>>] # NoKey => Claimed(u, n, endpoints[<<u, n>>])

SpeakerInv == SpeaksForClaim /\ EndpointsClaimed

SameSpeaker ==
  /\ pc[Udp] \notin {"idle", "heard"}
  /\ frame'[Udp].user = frame[Udp].user
  /\ frame'[Udp].name = frame[Udp].name
  /\ frame'[Udp].key = frame[Udp].key

SpeakerMoved ==
  \/ UNCHANGED <<pc[Udp], frame[Udp]>>
  \/ SameSpeaker
  \/ frame'[Udp].key = NoKey
  \/ Claimed(frame'[Udp].user, frame'[Udp].name, frame'[Udp].key)

\* A step of the socket loop begins a join for a claim, begins a command, goes
\* on for the same machine, or ends.
LEMMA SpeakerMoves ==
  ASSUME TypeOK, [Next]_vars, pc'[Udp] \notin {"idle", "heard"}
  PROVE  SpeakerMoved
<1>1. pc \in [Thread -> Label] /\ frame \in [Thread -> Frame \cup {NoFrame}] /\ Udp \in Thread
  BY ThreadsIncludeUdp DEF TypeOK, ThreadsOK
<1>2. ASSUME NEW label, NEW f, GotoWith(Udp, label, f)
      PROVE  pc'[Udp] = label /\ frame'[Udp] = f
  BY <1>1, <1>2 DEF GotoWith
<1> DEFINE Speaking == pc[Udp] \notin {"idle", "heard"}
<1>3. ASSUME Speaking, NEW label, Goto(Udp, label)
      PROVE  SpeakerMoved
  BY <1>1, <1>3 DEF Goto, SameSpeaker, SpeakerMoved
<1>4. ~ Return(Udp)
  BY <1>2 DEF Return
<1>5. ASSUME Speaking, NEW label, NEW f, GotoWith(Udp, label, f),
             f.user = frame[Udp].user, f.name = frame[Udp].name, f.key = frame[Udp].key
      PROVE  SpeakerMoved
  BY <1>2, <1>5 DEF SameSpeaker, SpeakerMoved
<1>6. ASSUME Speaking, NEW origin, NEW pin, RequestAddress(Udp, origin, pin)
      PROVE  SpeakerMoved
  <2> DEFINE f == [frame[Udp] EXCEPT !.origin = origin, !.pin = pin]
  <2>1. frame[Udp] \in Frame
    BY <1>1, <1>6, AtLabel
  <2>2. f.user = frame[Udp].user /\ f.name = frame[Udp].name /\ f.key = frame[Udp].key
    BY <2>1 DEF Frame
  <2>3. GotoWith(Udp, "allocate", f)
    BY <1>6 DEF RequestAddress
  <2> HIDE DEF f
  <2> QED BY <1>5, <1>6, <2>2, <2>3
<1>7. ASSUME NEW c, StartCommand(Udp, c) PROVE SpeakerMoved
  <2>1. frame'[Udp] = CommandFrame(c)
    BY <1>2, <1>7 DEF StartCommand
  <2> QED BY <2>1 DEF CommandFrame, SpeakerMoved
<1>8. ASSUME NEW c \in Claims, NEW label, GotoWith(Udp, label, JoinFrame(c))
      PROVE  SpeakerMoved
  <2>1. frame'[Udp] = JoinFrame(c)
    BY <1>2, <1>8
  <2>2. JoinFrame(c).user = c.user /\ JoinFrame(c).name = c.name /\ JoinFrame(c).key = c.key
    BY DEF JoinFrame
  <2> QED BY <2>1, <2>2 DEF Claimed, SpeakerMoved
<1>9. ASSUME Speaking, AfterRefusal(Udp), frame[Udp].origin \in Origin
      PROVE  SpeakerMoved
  BY <1>3, <1>4, <1>9 DEF AfterRefusal, Origin
<1>10. CASE UNCHANGED <<pc[Udp], frame[Udp]>>
  BY <1>10 DEF SpeakerMoved
<1>11. CASE Join
  <2>1. ASSUME NEW c \in Claims, JoinRequest(c) PROVE SpeakerMoved
    BY <1>8, <1>10, <2>1 DEF JoinRequest
  <2>2. ASSUME NEW c \in Claims, NEW valid \in BOOLEAN, JoinProof(c, valid) PROVE SpeakerMoved
    BY <1>8, <1>10, <2>2 DEF JoinProof
  <2>3. CASE Register
    <3>1. frame[Udp] \in Frame /\ Speaking
      BY <2>3, AtJoinLabel DEF Register, At, JoinLabel
    <3>2. ASSUME NEW s, GotoWith(Udp, "ensureInSubnet", [frame[Udp] EXCEPT !.status = s])
          PROVE  SpeakerMoved
      <4> DEFINE f == [frame[Udp] EXCEPT !.status = s]
      <4>1. f.user = frame[Udp].user /\ f.name = frame[Udp].name /\ f.key = frame[Udp].key
        BY <3>1 DEF Frame
      <4>2. GotoWith(Udp, "ensureInSubnet", f)
        BY <3>2
      <4> HIDE DEF f
      <4> QED BY <1>5, <3>1, <4>1, <4>2
    <3> QED BY <1>4, <2>3, <3>2 DEF Register
  <2>4. CASE EnsureInSubnet \/ RebindDesired \/ AutoApprove \/ DesiredOf \/ GetUser \/ Proven
    <3>1. Speaking
      BY <2>4 DEF EnsureInSubnet, RebindDesired, AutoApprove, DesiredOf, GetUser, Proven, At
    <3>2. (\E label : Goto(Udp, label)) \/ \E origin, pin : RequestAddress(Udp, origin, pin)
      BY <1>4, <2>4
      DEF EnsureInSubnet, RebindDesired, AutoApprove, DesiredOf, GetUser, Proven
    <3> QED BY <1>3, <1>6, <3>1, <3>2
  <2>5. CASE Answer
    <3>1. frame[Udp] \in Frame /\ Speaking
      BY <2>5, AtJoinLabel DEF Answer, At, JoinLabel
    <3> DEFINE f == [frame[Udp] EXCEPT !.ip = CurrentIP(Udp)]
    <3>2. f.user = frame[Udp].user /\ f.name = frame[Udp].name /\ f.key = frame[Udp].key
      BY <3>1 DEF Frame
    <3>3. GotoWith(Udp, "reply", f)
      BY <2>5 DEF Answer
    <3> HIDE DEF f
    <3> QED BY <1>5, <3>1, <3>2, <3>3
  <2> QED BY <1>4, <1>11, <2>1, <2>2, <2>3, <2>4, <2>5 DEF Join, RegisterNew, Reply
<1>12. CASE Signed
  <2>1. ASSUME NEW a, NEW k, Verify(a, k) PROVE FALSE
    BY <1>2, <2>1 DEF Verify
  <2> QED BY <1>4, <1>7, <1>12, <2>1 DEF Signed, Heard
<1>13. ASSUME NEW t \in Thread, Handle(t), t # Udp PROVE SpeakerMoved
  <2>1. UNCHANGED <<pc[Udp], frame[Udp]>>
    BY <1>1, <1>13, HandlerMovesItself DEF GotoWith, Goto
  <2> QED BY <1>10, <2>1
<1>14. CASE Handle(Udp)
  <2>1. CASE Allocate(Udp) \/ Assign(Udp)
    <3>1. frame[Udp] \in Frame /\ frame[Udp].origin \in Origin /\ Speaking
      BY <2>1, AtLabel, ThreadsIncludeUdp, FrameFields DEF Allocate, Assign, At
    <3>2. ASSUME NEW a, GotoWith(Udp, "assign", [frame[Udp] EXCEPT !.ip = a]) PROVE SpeakerMoved
      <4> DEFINE f == [frame[Udp] EXCEPT !.ip = a]
      <4>1. f.user = frame[Udp].user /\ f.name = frame[Udp].name /\ f.key = frame[Udp].key
        BY <3>1 DEF Frame
      <4>2. GotoWith(Udp, "assign", f)
        BY <3>2
      <4> HIDE DEF f
      <4> QED BY <1>5, <3>1, <4>1, <4>2
    <3>3. ASSUME GotoWith(Udp, "answer", [frame[Udp] EXCEPT !.status = "active"]) PROVE SpeakerMoved
      <4> DEFINE f == [frame[Udp] EXCEPT !.status = "active"]
      <4>1. f.user = frame[Udp].user /\ f.name = frame[Udp].name /\ f.key = frame[Udp].key
        BY <3>1 DEF Frame
      <4>2. GotoWith(Udp, "answer", f)
        BY <3>3
      <4> HIDE DEF f
      <4> QED BY <1>5, <3>1, <4>1, <4>2
    <3>4. CASE Allocate(Udp)
      BY <1>9, <3>1, <3>2, <3>4 DEF Allocate
    <3>5. CASE Assign(Udp)
      BY <1>3, <1>9, <3>1, <3>3, <3>5 DEF Assign
    <3> QED BY <2>1, <3>4, <3>5
  <2>2. CASE ListGrants(Udp) \/ RevokeListed(Udp)
    <3>1. frame[Udp] \in Frame /\ Speaking
      BY <2>2, AtLabel, ThreadsIncludeUdp DEF ListGrants, RevokeListed, At
    <3>2. ASSUME NEW label, NEW left, GotoWith(Udp, label, [frame[Udp] EXCEPT !.todo = left])
          PROVE  SpeakerMoved
      <4> DEFINE f == [frame[Udp] EXCEPT !.todo = left]
      <4>1. f.user = frame[Udp].user /\ f.name = frame[Udp].name /\ f.key = frame[Udp].key
        BY <3>1 DEF Frame
      <4>2. GotoWith(Udp, label, f)
        BY <3>2
      <4> HIDE DEF f
      <4> QED BY <1>5, <3>1, <4>1, <4>2
    <3>3. CASE ListGrants(Udp)
      BY <3>2, <3>3 DEF ListGrants
    <3>4. CASE RevokeListed(Udp)
      BY <1>4, <3>2, <3>4 DEF RevokeListed
    <3> QED BY <2>2, <3>3, <3>4
  <2>3. CASE \/ DoAllow(Udp) \/ DoUnblock(Udp) \/ DoGrant(Udp) \/ RevokeTo(Udp)
             \/ DoDeny(Udp) \/ DoBlock(Udp)
    <3>1. (Goto(Udp, "broadcast") \/ Goto(Udp, "approveRead")) /\ Speaking
      BY <1>4, <2>3 DEF DoAllow, DoUnblock, DoGrant, RevokeTo, DoDeny, DoBlock, Call, At
    <3> QED BY <1>3, <3>1
  <2>4. CASE \/ AllowRead(Udp) \/ ApproveRead(Udp) \/ RememberPush(Udp) \/ DenyRead(Udp)
             \/ Broadcast(Udp)
    <3>1. Speaking
      BY <2>4 DEF AllowRead, ApproveRead, RememberPush, DenyRead, Broadcast, At
    <3>2. (\E label : Goto(Udp, label)) \/ \E pin : RequestAddress(Udp, "approve", pin)
      BY <1>4, <2>4 DEF AllowRead, ApproveRead, RememberPush, DenyRead, Broadcast
    <3> QED BY <1>3, <1>6, <3>1, <3>2
  <2>5. CASE Notify(Udp) \/ LookUpEndpoint(Udp)
    <3>1. frame[Udp] \in Frame /\ Speaking
      BY <2>5, AtLabel, ThreadsIncludeUdp DEF Notify, LookUpEndpoint, At
    <3>2. ASSUME NEW a, GotoWith(Udp, "endpoint", [frame[Udp] EXCEPT !.ip = a]) PROVE SpeakerMoved
      <4> DEFINE f == [frame[Udp] EXCEPT !.ip = a]
      <4>1. f.user = frame[Udp].user /\ f.name = frame[Udp].name /\ f.key = frame[Udp].key
        BY <3>1 DEF Frame
      <4>2. GotoWith(Udp, "endpoint", f)
        BY <3>2
      <4> HIDE DEF f
      <4> QED BY <1>5, <3>1, <4>1, <4>2
    <3>3. ASSUME NEW k, GotoWith(Udp, "remember", [frame[Udp] EXCEPT !.addr = k]) PROVE SpeakerMoved
      <4> DEFINE f == [frame[Udp] EXCEPT !.addr = k]
      <4>1. f.user = frame[Udp].user /\ f.name = frame[Udp].name /\ f.key = frame[Udp].key
        BY <3>1 DEF Frame
      <4>2. GotoWith(Udp, "remember", f)
        BY <3>3
      <4> HIDE DEF f
      <4> QED BY <1>5, <3>1, <4>1, <4>2
    <3> QED BY <1>3, <2>5, <3>1, <3>2, <3>3 DEF Notify, LookUpEndpoint
  <2> QED BY <1>14, <2>1, <2>2, <2>3, <2>4, <2>5 DEF Handle, ConsoleCommand
<1>15. ~ Restart
  BY <1>1 DEF Restart
<1>16. CASE UNCHANGED vars
  BY <1>10, <1>16 DEF vars
<1> QED
  BY <1>11, <1>12, <1>13, <1>14, <1>15, <1>16 DEF Next

LEMMA SpeakerStep ==
  ASSUME TypeOK, SpeakerInv, [Next]_vars
  PROVE  SpeakerInv'
<1>1. /\ endpoints \in [User \X Name -> Key \cup {NoKey}]
      /\ pc \in [Thread -> Label] /\ frame \in [Thread -> Frame \cup {NoFrame}]
      /\ Udp \in Thread
  BY ThreadsIncludeUdp DEF TypeOK, MemoryOK, ThreadsOK
<1>2. SpeaksForClaim'
  <2> SUFFICES ASSUME pc'[Udp] \notin {"idle", "heard"}
               PROVE  \/ frame'[Udp].key = NoKey
                      \/ Claimed(frame'[Udp].user, frame'[Udp].name, frame'[Udp].key)
    BY DEF SpeaksForClaim, Claimed
  <2>1. SpeakerMoved
    BY SpeakerMoves
  <2> QED BY <2>1 DEF SpeakerMoved, SameSpeaker, SpeakerInv, SpeaksForClaim
<1>3. EndpointsClaimed'
  <2> SUFFICES ASSUME NEW u \in User, NEW n \in Name, endpoints'[<<u, n>>] # NoKey
               PROVE  Claimed(u, n, endpoints'[<<u, n>>])
    BY DEF EndpointsClaimed, Claimed
  <2>1. CASE endpoints'[<<u, n>>] = endpoints[<<u, n>>]
    BY <2>1 DEF SpeakerInv, EndpointsClaimed
  <2>2. ASSUME NEW v \in User, NEW m \in Name, NEW k, Claimed(v, m, k),
               endpoints' = [endpoints EXCEPT ![<<v, m>>] = k]
        PROVE  Claimed(u, n, endpoints'[<<u, n>>])
    <3>1. CASE <<v, m>> = <<u, n>>
      BY <1>1, <2>2, <3>1
    <3>2. CASE <<v, m>> # <<u, n>>
      <4>1. endpoints'[<<u, n>>] = endpoints[<<u, n>>]
        BY <1>1, <2>2, <3>2
      <4> QED BY <2>1, <4>1
    <3> QED BY <3>1, <3>2
  <2>3. CASE UNCHANGED endpoints
    BY <2>1, <2>3
  <2>4. CASE Join
    <3>1. ASSUME NEW c \in Claims, JoinRequest(c)
          PROVE  Claimed(u, n, endpoints'[<<u, n>>])
      <4>1. c.user \in User /\ c.name \in Name /\ Claimed(c.user, c.name, c.key)
        BY InputsAreTyped DEF Claim, Claimed
      <4> QED BY <2>2, <3>1, <4>1 DEF JoinRequest
    <3>2. CASE Proven
      <4>1. /\ frame[Udp].user \in User /\ frame[Udp].name \in Name
            /\ frame[Udp].key # NoKey /\ pc[Udp] \notin {"idle", "heard"}
        BY <3>2, AtJoinLabel, NonesAreOutside DEF Proven, At, JoinLabel, InJoin, Frame
      <4>2. Claimed(frame[Udp].user, frame[Udp].name, frame[Udp].key)
        BY <4>1 DEF SpeakerInv, SpeaksForClaim
      <4> QED BY <2>2, <3>2, <4>1, <4>2 DEF Proven
    <3>3. (\E c \in Claims : JoinRequest(c)) \/ Proven \/ UNCHANGED endpoints
      BY <2>4 DEF Join, JoinProof, GetUser, RegisterNew, Register, EnsureInSubnet,
                  RebindDesired, AutoApprove, DesiredOf, Answer, Reply, memory
    <3> QED BY <2>3, <3>1, <3>2, <3>3
  <2>5. CASE Signed
    BY <2>3, <2>5 DEF Signed, Verify, Heard, memory
  <2>6. ASSUME NEW t \in Thread, Handle(t) PROVE UNCHANGED endpoints
    BY <2>6 DEF Handle, ConsoleCommand, Allocate, Assign, AllowRead, DoAllow, DoUnblock,
                DoGrant, ApproveRead, Notify, LookUpEndpoint, RememberPush, RevokeTo,
                ListGrants, RevokeListed, DenyRead, DoDeny, DoBlock, Broadcast, Call, memory
  <2>7. CASE Restart
    <3>1. endpoints'[<<u, n>>] = NoKey
      BY <2>7 DEF Restart, NoNodes
    <3> QED BY <3>1
  <2>8. CASE UNCHANGED vars
    BY <2>3, <2>8 DEF vars
  <2> QED BY <2>3, <2>4, <2>5, <2>6, <2>7, <2>8 DEF Next
<1> QED
  BY <1>2, <1>3 DEF SpeakerInv

\* What the handler with the locals f, whose machine has the address ip, has
\* looked up before it writes an endpoint.
LookedUp(label, f, ip) ==
  /\ label \in {"reply", "endpoint", "remember"} => f.ip = ip
  /\ label = "remember" => Claimed(f.user, f.name, f.addr)
  /\ label = "heard" => Sender(f.ip, f.key)

LookupsHold ==
  \A t \in Thread : pc[t] # "idle" => LookedUp(pc[t], frame[t], CurrentIP(t))

\* The lookups of the handler that runs stay true until it writes: nothing else
\* changes the registry in between.
LEMMA LookupStep ==
  ASSUME TypeOK, Alone, Alone', SpeakerInv, LookupsHold, [Next]_vars
  PROVE  LookupsHold'
<1>1. /\ pc \in [Thread -> Label] /\ frame \in [Thread -> Frame \cup {NoFrame}]
      /\ Udp \in Thread
      /\ endpoints \in [User \X Name -> Key \cup {NoKey}]
  BY ThreadsIncludeUdp DEF TypeOK, ThreadsOK, MemoryOK
<1> SUFFICES ASSUME NEW t \in Thread, pc'[t] # "idle"
             PROVE  LookedUp(pc[t], frame[t], CurrentIP(t))'
  BY DEF LookupsHold
<1> DEFINE Good == LookedUp(pc[t], frame[t], CurrentIP(t))'
           Writing == {"reply", "endpoint", "remember", "heard"}
<1>2. ASSUME NEW label, NEW f, GotoWith(t, label, f)
      PROVE  pc'[t] = label /\ frame'[t] = f
  BY <1>1, <1>2 DEF GotoWith
<1>3. ASSUME NEW label, Goto(t, label)
      PROVE  pc'[t] = label /\ frame'[t] = frame[t]
  BY <1>1, <1>3 DEF Goto
<1>4. ~ Return(t)
  BY <1>2 DEF Return
<1>5. ASSUME pc'[t] \notin Writing PROVE Good
  BY <1>5 DEF LookedUp
<1>6. ASSUME NEW label, label \notin Writing, NEW f, GotoWith(t, label, f) \/ Goto(t, label)
      PROVE  Good
  <2>1. pc'[t] = label
    BY <1>2, <1>3, <1>6
  <2> QED BY <1>5, <1>6, <2>1
<1>7. CASE UNCHANGED <<reg, pc[t], frame[t]>>
  <2>1. CurrentIP(t)' = CurrentIP(t)
    BY <1>7 DEF CurrentIP
  <2> QED BY <1>7, <2>1
    DEF LookupsHold, LookedUp, Claimed, Sender, SlotsWithIP, Used
<1>8. ASSUME NEW label, NEW f, GotoWith(t, label, f), UNCHANGED reg,
             f.user = frame[t].user, f.name = frame[t].name
      PROVE  CurrentIP(t)' = CurrentIP(t)
  BY <1>2, <1>8 DEF CurrentIP
<1>9. CASE t = Udp /\ Join
  <2> USE <1>9
  <2>1. CASE Answer
    <3> DEFINE f == [frame[t] EXCEPT !.ip = CurrentIP(t)]
    <3>1. frame[t] \in Frame
      BY <2>1, AtJoinLabel DEF Answer, At, JoinLabel
    <3>2. f.user = frame[t].user /\ f.name = frame[t].name /\ f.ip = CurrentIP(t)
      BY <3>1 DEF Frame
    <3>3. GotoWith(t, "reply", f) /\ UNCHANGED reg
      BY <2>1 DEF Answer, ReadOnly
    <3> HIDE DEF f
    <3>4. CurrentIP(t)' = CurrentIP(t) /\ pc'[t] = "reply" /\ frame'[t] = f
      BY <1>2, <1>8, <3>2, <3>3
    <3> QED BY <3>2, <3>4 DEF LookedUp
  <2>2. CASE ~ Answer
    <3>1. \/ UNCHANGED <<reg, pc, frame>>
          \/ \E f, label : label \notin Writing /\ (GotoWith(t, label, f) \/ Goto(t, label))
      BY <1>4, <2>2
      DEF Join, JoinRequest, JoinProof, GetUser, RegisterNew, Proven, Register, EnsureInSubnet,
          RebindDesired, AutoApprove, DesiredOf, Reply, RequestAddress, ReadOnly
    <3> QED BY <1>6, <1>7, <3>1
  <2> QED BY <2>1, <2>2
<1>10. ASSUME NEW c, StartCommand(t, c) PROVE Good
  <2>1. pc'[t] \in {"allowRead", "revokeTo", "grantsOf"}
    BY <1>2, <1>10 DEF StartCommand
  <2> QED BY <1>5, <2>1
<1>11. CASE t = Udp /\ Signed
  <2>1. ASSUME NEW a \in Address, NEW k \in Key, Verify(a, k) PROVE Good
    <3> DEFINE f == SignedFrame(reg.machines[Min(SlotsWithIP(reg, a))].user, a, k)
    <3>1. f.ip = a /\ f.key = k
      BY DEF SignedFrame
    <3>2. GotoWith(t, "heard", f) /\ Sender(a, k) /\ UNCHANGED reg
      BY <1>11, <2>1 DEF Verify, ReadOnly
    <3> HIDE DEF f
    <3>3. pc'[t] = "heard" /\ frame'[t] = f
      BY <1>2, <3>2
    <3> QED BY <3>1, <3>2, <3>3 DEF LookedUp, Sender, SlotsWithIP, Used
  <2>2. CASE Heard
    BY <1>4, <1>10, <1>11, <2>2 DEF Heard
  <2> QED BY <1>11, <2>1, <2>2 DEF Signed
<1>12. CASE Notify(t)
  <2>1. CASE CurrentIP(t) = NoAddress
    BY <1>6, <1>12, <2>1 DEF Notify
  <2>2. CASE CurrentIP(t) # NoAddress
    <3> DEFINE f == [frame[t] EXCEPT !.ip = CurrentIP(t)]
    <3>1. frame[t] \in Frame
      BY <1>12, AtLabel DEF Notify, At
    <3>2. f.user = frame[t].user /\ f.name = frame[t].name /\ f.ip = CurrentIP(t)
      BY <3>1 DEF Frame
    <3>3. GotoWith(t, "endpoint", f) /\ UNCHANGED reg
      BY <1>12, <2>2 DEF Notify, ReadOnly
    <3> HIDE DEF f
    <3>4. CurrentIP(t)' = CurrentIP(t) /\ pc'[t] = "endpoint" /\ frame'[t] = f
      BY <1>2, <1>8, <3>2, <3>3
    <3> QED BY <3>2, <3>4 DEF LookedUp
  <2> QED BY <2>1, <2>2
<1>13. CASE LookUpEndpoint(t)
  <2> DEFINE k == endpoints[<<frame[t].user, frame[t].name>>]
  <2>1. CASE k = NoKey
    BY <1>6, <1>13, <2>1 DEF LookUpEndpoint
  <2>2. CASE k # NoKey
    <3> DEFINE f == [frame[t] EXCEPT !.addr = k]
    <3>1. frame[t] \in Frame /\ frame[t].user \in User /\ frame[t].name \in Name
      BY <1>13, AtLabel DEF LookUpEndpoint, At, LocalsOK
    <3>2. /\ f.user = frame[t].user /\ f.name = frame[t].name
          /\ f.ip = frame[t].ip /\ f.addr = k
      BY <3>1 DEF Frame
    <3>3. Claimed(frame[t].user, frame[t].name, k)
      BY <2>2, <3>1 DEF SpeakerInv, EndpointsClaimed
    <3>4. frame[t].ip = CurrentIP(t)
      BY <1>13 DEF LookUpEndpoint, At, LookupsHold, LookedUp
    <3>5. GotoWith(t, "remember", f) /\ UNCHANGED reg
      BY <1>13, <2>2 DEF LookUpEndpoint, ReadOnly
    <3> HIDE DEF f, k
    <3>6. CurrentIP(t)' = CurrentIP(t) /\ pc'[t] = "remember" /\ frame'[t] = f
      BY <1>2, <1>8, <3>2, <3>5
    <3> QED BY <3>2, <3>3, <3>4, <3>6 DEF LookedUp
  <2> QED BY <2>1, <2>2
<1>14. CASE Allocate(t) \/ Assign(t)
  <2>1. frame[t].origin \in Origin
    BY <1>14, AtLabel, FrameFields DEF Allocate, Assign, At
  <2>2. AfterRefusal(t) => \E label : label \notin Writing /\ Goto(t, label)
    BY <1>4, <2>1 DEF AfterRefusal, Origin
  <2>3. AfterAssign(frame[t].origin) \notin Writing
    BY <2>1 DEF AfterAssign, Origin
  <2>4. \E f, label : label \notin Writing /\ (GotoWith(t, label, f) \/ Goto(t, label))
    BY <1>14, <2>2, <2>3 DEF Allocate, Assign
  <2> QED BY <1>6, <2>4
<1>15. CASE ApproveRead(t) \/ ListGrants(t) \/ RevokeListed(t)
  <2>1. \E f, label : label \notin Writing /\ (GotoWith(t, label, f) \/ Goto(t, label))
    BY <1>4, <1>15 DEF ApproveRead, RequestAddress, ListGrants, RevokeListed
  <2> QED BY <1>6, <2>1
<1>16. CASE \/ DoAllow(t) \/ DoUnblock(t) \/ DoGrant(t) \/ RevokeTo(t)
            \/ DoDeny(t) \/ DoBlock(t)
  <2>1. Goto(t, "broadcast") \/ Goto(t, "approveRead")
    BY <1>4, <1>16 DEF DoAllow, DoUnblock, DoGrant, RevokeTo, DoDeny, DoBlock, Call
  <2> QED BY <1>6, <2>1
<1>17. CASE AllowRead(t) \/ DenyRead(t) \/ RememberPush(t) \/ Broadcast(t)
  <2>1. \E label \in {"allow", "unblock", "grant", "broadcast", "deny", "block"} :
          Goto(t, label)
    BY <1>4, <1>17 DEF AllowRead, DenyRead, RememberPush, Broadcast
  <2> QED BY <1>6, <2>1
<1>18. CASE Handle(t)
  BY <1>10, <1>12, <1>13, <1>14, <1>15, <1>16, <1>17, <1>18 DEF Handle, ConsoleCommand
<1> QED
  BY <1>7, <1>9, <1>11, <1>18, AloneStep

\* What the step may do to the endpoint of machine i.
EndpointKept(i) ==
  \/ ipEndpoints'[reg.machines[i].ip] = reg.machines[i].key
  \/ Claimed(reg.machines[i].user, reg.machines[i].name, ipEndpoints'[reg.machines[i].ip])

LEMMA EndpointStep ==
  ASSUME TypeOK, UniqueIP(reg), SpeakerInv, LookupsHold, [Next]_vars, restarts' = restarts,
         NEW i \in Used(reg), reg.machines[i].ip # NoAddress,
         ipEndpoints[reg.machines[i].ip] = reg.machines[i].key
  PROVE  EndpointKept(i)
<1> DEFINE m == reg.machines[i]
<1>1. /\ reg \in RegistryType /\ ipEndpoints \in [Address -> Key \cup {NoKey}]
      /\ Udp \in Thread /\ restarts \in Nat
  BY ThreadsIncludeUdp, BoundsAreNumbers DEF TypeOK, StoreOK, MemoryOK
<1>2. m \in Machine /\ m.ip \in Address /\ m.user \in User /\ m.name \in Name
  BY <1>1, UsedHoldsMachine DEF Machine
<1>3. CASE ipEndpoints'[m.ip] = ipEndpoints[m.ip]
  BY <1>3 DEF EndpointKept
<1>4. ASSUME NEW a \in Address, NEW k, ipEndpoints' = [ipEndpoints EXCEPT ![a] = k],
             a = m.ip => (k = m.key \/ Claimed(m.user, m.name, k))
      PROVE  EndpointKept(i)
  <2>1. CASE a = m.ip
    BY <1>1, <1>2, <1>4, <2>1 DEF EndpointKept
  <2>2. CASE a # m.ip
    BY <1>1, <1>2, <1>3, <1>4, <2>2
  <2> QED BY <2>1, <2>2
<1>5. ASSUME NEW t, CurrentIP(t) = m.ip
      PROVE  frame[t].user = m.user /\ frame[t].name = m.name
  <2>1. HasMachine(reg, frame[t].user, frame[t].name)
    BY <1>2, <1>5, NonesAreOutside DEF CurrentIP
  <2> DEFINE j == SlotNamed(reg, frame[t].user, frame[t].name)
  <2>2. j \in SlotsNamed(reg, frame[t].user, frame[t].name) /\ reg.machines[j].ip = m.ip
    BY <1>1, <1>5, <2>1, SlotNamedIsNamed DEF CurrentIP, MachineNamed
  <2>3. j = i
    BY <2>2 DEF UniqueIP, SlotsNamed
  <2> QED BY <2>2, <2>3 DEF SlotsNamed
<1>6. ASSUME NEW k, Sender(m.ip, k) PROVE k = m.key
  <2>1. SlotsWithIP(reg, m.ip) = {i}
    BY DEF SlotsWithIP, UniqueIP
  <2>2. Min({i}) = i
    BY <1>1, MinIsLeast DEF Used, Slot
  <2> QED BY <1>6, <2>1, <2>2 DEF Sender
<1>7. CASE Reply
  <2>1. frame[Udp].key # NoKey /\ pc[Udp] = "reply" /\ frame[Udp].ip \in Address \cup {NoAddress}
    BY <1>7, NonesAreOutside, AtJoinLabel, FrameFields DEF Reply, At, JoinLabel, InJoin
  <2>2. Claimed(frame[Udp].user, frame[Udp].name, frame[Udp].key)
    BY <2>1 DEF SpeakerInv, SpeaksForClaim
  <2>3. frame[Udp].ip = CurrentIP(Udp)
    BY <1>1, <2>1 DEF LookupsHold, LookedUp
  <2>4. CASE frame[Udp].ip = NoAddress
    BY <1>3, <1>7, <2>4 DEF Reply
  <2>5. CASE frame[Udp].ip # NoAddress
    <3>1. ipEndpoints' = [ipEndpoints EXCEPT ![frame[Udp].ip] = frame[Udp].key]
      BY <1>7, <2>5 DEF Reply
    <3>2. frame[Udp].ip = m.ip => Claimed(m.user, m.name, frame[Udp].key)
      BY <1>5, <2>2, <2>3
    <3> QED BY <1>4, <2>1, <2>5, <3>1, <3>2
  <2> QED BY <2>4, <2>5
<1>8. ASSUME NEW t \in Thread, RememberPush(t) PROVE EndpointKept(i)
  <2>1. pc[t] = "remember" /\ frame[t].ip \in Address
    BY <1>8, AtLabel DEF RememberPush, At, LocalsOK
  <2>2. frame[t].ip = CurrentIP(t) /\ Claimed(frame[t].user, frame[t].name, frame[t].addr)
    BY <2>1 DEF LookupsHold, LookedUp
  <2>3. ipEndpoints' = [ipEndpoints EXCEPT ![frame[t].ip] = frame[t].addr]
    BY <1>8 DEF RememberPush
  <2>4. frame[t].ip = m.ip => Claimed(m.user, m.name, frame[t].addr)
    BY <1>5, <2>2
  <2> QED BY <1>4, <2>1, <2>3, <2>4
<1>9. CASE Signed
  <2>1. CASE Heard
    <3>1. pc[Udp] = "heard" /\ frame[Udp].ip \in Address
      BY <1>1, <2>1, AtLabel DEF Heard, At, LocalsOK
    <3>2. Sender(frame[Udp].ip, frame[Udp].key)
      BY <1>1, <3>1 DEF LookupsHold, LookedUp
    <3>3. ipEndpoints' = [ipEndpoints EXCEPT ![frame[Udp].ip] = frame[Udp].key]
      BY <2>1 DEF Heard
    <3> QED BY <1>4, <1>6, <3>1, <3>2, <3>3
  <2> QED BY <1>3, <1>9, <2>1 DEF Signed, Verify, memory
<1>10. CASE Join
  <2>1. Reply \/ UNCHANGED ipEndpoints
    BY <1>10 DEF Join, JoinRequest, JoinProof, GetUser, RegisterNew, Proven, Register,
                 EnsureInSubnet, RebindDesired, AutoApprove, DesiredOf, Answer, memory
  <2> QED BY <1>3, <1>7, <2>1
<1>11. ASSUME NEW t \in Thread, Handle(t) PROVE EndpointKept(i)
  <2>1. RememberPush(t) \/ UNCHANGED ipEndpoints
    BY <1>11 DEF Handle, ConsoleCommand, Allocate, Assign, AllowRead, DoAllow, DoUnblock,
                 DoGrant, ApproveRead, Notify, LookUpEndpoint, RevokeTo, ListGrants,
                 RevokeListed, DenyRead, DoDeny, DoBlock, Broadcast, Call, memory
  <2> QED BY <1>3, <1>8, <2>1
<1>12. ~ Restart
  BY <1>1 DEF Restart
<1>13. CASE UNCHANGED vars
  BY <1>3, <1>13 DEF vars
<1> QED
  BY <1>9, <1>10, <1>11, <1>12, <1>13 DEF Next

\* While handlers run one by one, the server turns what is for a machine to
\* another node only when that node asked to join under the machine's user and
\* name: EndpointStays holds of every behaviour, over joins that move and rename
\* machines, denials, pushes and restarts.  (With a console thread an address
\* that a handler has looked up can be somebody else's when it is written.)
THEOREM EndpointsStayWithTheirMachines == Spec /\ []Alone => EndpointStays
<1> DEFINE Stays ==
      restarts' = restarts =>
        \A i \in Used(reg) :
          LET m == reg.machines[i]
          IN  m.ip # NoAddress /\ ipEndpoints[m.ip] = m.key =>
                \/ ipEndpoints'[m.ip] = m.key
                \/ \E c \in Claims : /\ c.user = m.user /\ c.name = m.name
                                     /\ c.key = ipEndpoints'[m.ip]
<1>1. Init => SpeakerInv
  <2> SUFFICES ASSUME Init PROVE SpeakerInv
    OBVIOUS
  <2>1. pc[Udp] = "idle" /\ \A u \in User, n \in Name : endpoints[<<u, n>>] = NoKey
    BY ThreadsIncludeUdp DEF Init, NoNodes
  <2> QED BY <2>1 DEF SpeakerInv, SpeaksForClaim, EndpointsClaimed
<1>2. TypeOK /\ SpeakerInv /\ [Next]_vars => SpeakerInv'
  BY SpeakerStep
<1>3. TypeOK /\ AddressInv /\ SpeakerInv /\ LookupsHold /\ [Next]_vars => [Stays]_vars
  <2> SUFFICES ASSUME TypeOK, AddressInv, SpeakerInv, LookupsHold, [Next]_vars,
                      restarts' = restarts,
                      NEW i \in Used(reg), reg.machines[i].ip # NoAddress,
                      ipEndpoints[reg.machines[i].ip] = reg.machines[i].key
               PROVE  EndpointKept(i)
    BY DEF EndpointKept, Claimed
  <2>1. UniqueIP(reg)
    BY DEF AddressInv, AddressesUnique, Everywhere
  <2> QED BY <2>1, EndpointStep
<1>4. Init => LookupsHold
  BY DEF Init, LookupsHold
<1>5. TypeOK /\ Alone /\ Alone' /\ SpeakerInv /\ LookupsHold /\ [Next]_vars => LookupsHold'
  BY LookupStep
<1> QED
  BY <1>1, <1>2, <1>3, <1>4, <1>5, AloneAssigns, TypeCorrect, AddressAlways, PTL
  DEF Spec, EndpointStays

-----------------------------------------------------------------------------
(* A reply has an address of the present subnet.                           *)

\* The machine (u, n) has an address of the subnet, or none, or there is none
\* to give it.
Placed(r, u, n) ==
  LET m == MachineNamed(r, u, n)
  IN  HasMachine(r, u, n) /\ m.ip # NoAddress /\ m.ip[1] # subnet =>
        ~ CanAllocate(r, subnet, m.desired)

\* Where in a join the subnet has been seen to.
PlacedLabel(label, origin) ==
  \/ label \in {"rebindDesired", "autoApprove", "desiredOf", "answer"}
  \/ label \in {"allocate", "assign"} /\ origin \in {"rebind", "auto"}

SubnetOf(r, label, f) ==
  /\ PlacedLabel(label, f.origin) => Placed(r, f.user, f.name)
  /\ label = "allocate" /\ f.origin = "subnet" /\ HasMachine(r, f.user, f.name) =>
       f.pin = MachineNamed(r, f.user, f.name).desired
  /\ label = "assign" => f.ip[1] = subnet

SubnetInv ==
  \A t \in Thread : pc[t] # "idle" => SubnetOf(reg, pc[t], frame[t])

\* A step that leaves addresses and pins alone leaves machines placed.
LEMMA SamePlaces ==
  ASSUME NEW r \in RegistryType, NEW q \in RegistryType, Restatused(r, q), NEW u, NEW n
  PROVE  Placed(r, u, n) => Placed(q, u, n)
<1>1. /\ Used(q) = Used(r)
      /\ \A i \in Used(r) : /\ q.machines[i].user = r.machines[i].user
                            /\ q.machines[i].name = r.machines[i].name
                            /\ q.machines[i].ip = r.machines[i].ip
                            /\ q.machines[i].desired = r.machines[i].desired
  BY DEF Restatused, SameMachine
<1>2. SlotsNamed(q, u, n) = SlotsNamed(r, u, n)
  BY <1>1 DEF SlotsNamed
<1>3. UsedAddresses(q) = UsedAddresses(r)
  BY <1>1 DEF UsedAddresses
<1>4. \A s, d : CanAllocate(q, s, d) = CanAllocate(r, s, d)
  BY <1>3 DEF CanAllocate, FreeHosts
<1>5. CASE HasMachine(r, u, n)
  <2>1. SlotNamed(r, u, n) \in Used(r)
    BY <1>5, SlotNamedIsNamed
  <2>2. /\ SlotNamed(q, u, n) = SlotNamed(r, u, n)
        /\ HasMachine(q, u, n)
    BY <1>2, <1>5 DEF SlotNamed, HasMachine
  <2>3. /\ MachineNamed(q, u, n).ip = MachineNamed(r, u, n).ip
        /\ MachineNamed(q, u, n).desired = MachineNamed(r, u, n).desired
    BY <1>1, <2>1, <2>2 DEF MachineNamed
  <2>4. /\ CanAllocate(q, subnet, MachineNamed(q, u, n).desired)
             = CanAllocate(r, subnet, MachineNamed(r, u, n).desired)
        /\ MachineNamed(q, u, n).ip[1] = MachineNamed(r, u, n).ip[1]
    BY <1>4, <2>3
  <2> QED BY <1>5, <2>2, <2>3, <2>4, Zenon DEF Placed
<1>6. CASE ~ HasMachine(r, u, n)
  BY <1>2, <1>6 DEF Placed, HasMachine
<1> QED
  BY <1>5, <1>6

\* A machine that has just been given an address of the subnet is placed.
LEMMA AssignedIsPlaced ==
  ASSUME NEW r \in RegistryType, NEW u \in User, NEW n \in Name \cup {NoName},
         NEW a \in Address, a[1] = subnet,
         HasMachine(r, u, n)
  PROVE  Placed(SetMachineIP(r, u, n, a), u, n)
<1> DEFINE q == SetMachineIP(r, u, n, a)
           k == SlotNamed(r, u, n)
<1>1. k \in SlotsNamed(r, u, n) /\ k \in Used(r) /\ r.machines[k] \in Machine
  BY SlotNamedIsNamed, UsedHoldsMachine
<1>2. q.machines[k].ip = a /\ SlotsNamed(q, u, n) = SlotsNamed(r, u, n)
  <2>1. /\ q.users = r.users
        /\ q.grants = r.grants
        /\ Used(q) = Used(r)
        /\ k \in Used(r)
        /\ \A i \in Used(r) :
             LET m == r.machines[i]
                 w == q.machines[i]
             IN  /\ w.user = m.user
                 /\ w.name = m.name
                 /\ w.key = m.key
                 /\ w.status = m.status
                 /\ w.desired = m.desired
                 /\ w.ip = IF i = k THEN a ELSE m.ip
    BY SetMachineIPFields
  <2> HIDE DEF q
  <2> QED BY <1>1, <2>1 DEF SlotsNamed
<1> HIDE DEF q
<1>3. SlotNamed(q, u, n) = k
  BY <1>2 DEF SlotNamed
<1>4. MachineNamed(q, u, n).ip = a
  BY <1>2, <1>3 DEF MachineNamed
<1>5. Placed(q, u, n)
  BY <1>4 DEF Placed
<1> QED
  BY <1>5 DEF q

LEMMA SubnetStep ==
  ASSUME TypeOK, Alone, Alone', SubnetInv, [Next]_vars
  PROVE  SubnetInv'
<1> DEFINE Labels == {"rebindDesired", "autoApprove", "desiredOf", "answer", "allocate", "assign"}
<1>1. /\ pc \in [Thread -> Label] /\ frame \in [Thread -> Frame \cup {NoFrame}]
      /\ Udp \in Thread /\ reg \in RegistryType /\ subnet \in Subnet /\ restarts \in Nat
  BY BoundsAreNumbers, ThreadsIncludeUdp DEF TypeOK, ThreadsOK, StoreOK, MemoryOK
<1>2. CASE Restart
  BY <1>1, <1>2 DEF Restart, SubnetInv
<1> SUFFICES ASSUME ~ Restart, NEW t \in Thread, pc'[t] # "idle"
             PROVE  SubnetOf(reg', pc'[t], frame'[t])
  <2>1. ~ Restart => subnet' = subnet
    BY DEF Next, Join, JoinRequest, GetUser, RegisterNew, JoinProof, Proven, Register,
           EnsureInSubnet, RebindDesired, AutoApprove, DesiredOf, Answer, Reply, Signed,
           Verify, Heard, Handle, ConsoleCommand, Allocate, Assign, AllowRead, DoAllow,
           DoUnblock, DoGrant, ApproveRead, Notify, LookUpEndpoint, RememberPush, RevokeTo,
           ListGrants, RevokeListed, DenyRead, DoDeny, DoBlock, Broadcast, Call, vars
  <2> QED BY <1>2, <2>1 DEF SubnetInv, SubnetOf, Placed
<1> DEFINE u == frame[t].user
           n == frame[t].name
<1>3. ASSUME NEW label, NEW f, GotoWith(t, label, f)
      PROVE  pc'[t] = label /\ frame'[t] = f
  BY <1>1, <1>3 DEF GotoWith
<1>4. ASSUME NEW label, Goto(t, label)
      PROVE  pc'[t] = label /\ frame'[t] = frame[t]
  BY <1>1, <1>4 DEF Goto
<1>5. ~ Return(t)
  BY <1>3 DEF Return
<1> DEFINE Good == SubnetOf(reg', pc'[t], frame'[t])
<1>6. ASSUME pc'[t] \notin Labels PROVE Good
  BY <1>6 DEF SubnetOf, PlacedLabel
<1>7. ASSUME NEW label \in {"rebindDesired", "autoApprove", "desiredOf", "answer"},
             Goto(t, label), Placed(reg', u, n)
      PROVE  Good
  BY <1>4, <1>7 DEF SubnetOf
<1>8. ASSUME pc[t] # "idle", NEW origin \in Origin, NEW pin, RequestAddress(t, origin, pin),
             origin \in {"rebind", "auto"} => Placed(reg', u, n),
             origin = "subnet" /\ HasMachine(reg', u, n) => pin = MachineNamed(reg', u, n).desired
      PROVE  Good
  <2> DEFINE f == [frame[t] EXCEPT !.origin = origin, !.pin = pin]
  <2>1. f.user = u /\ f.name = n /\ f.origin = origin /\ f.pin = pin
    BY <1>1, <1>8, AtLabel DEF Frame
  <2>2. pc'[t] = "allocate" /\ frame'[t] = f
    BY <1>3, <1>8 DEF RequestAddress
  <2> HIDE DEF f
  <2> QED BY <1>8, <2>1, <2>2 DEF SubnetOf, PlacedLabel, Origin
<1>9. ASSUME AfterRefusal(t), frame[t].origin \in Origin,
             frame[t].origin # "approve" => Placed(reg', u, n)
      PROVE  Good
  <2>1. \/ Goto(t, "rebindDesired") /\ Placed(reg', u, n)
        \/ Goto(t, "autoApprove") /\ Placed(reg', u, n)
        \/ Goto(t, "answer") /\ Placed(reg', u, n)
    BY <1>5, <1>9 DEF AfterRefusal, Origin
  <2> QED BY <1>7, <2>1
<1>10. CASE UNCHANGED <<reg, pc[t], frame[t]>>
  <2>1. SubnetOf(reg, pc[t], frame[t])
    BY <1>10 DEF SubnetInv
  <2> QED BY <1>10, <2>1
<1>11. CASE t = Udp /\ Join
  <2> USE <1>11
  <2>1. ASSUME NEW c \in Claims, JoinRequest(c) PROVE Good
    BY <1>3, <1>6, <2>1 DEF JoinRequest
  <2>2. ASSUME NEW c \in Claims, NEW valid \in BOOLEAN, JoinProof(c, valid) PROVE Good
    <3>1. UNCHANGED <<reg, pc, frame>> \/ GotoWith(t, "proven", JoinFrame(c))
      BY <2>2 DEF JoinProof, ReadOnly
    <3> QED BY <1>3, <1>6, <1>10, <3>1
  <2>3. ~ RegisterNew /\ ~ Reply
    BY <1>5 DEF RegisterNew, Reply
  <2>4. CASE GetUser \/ Proven \/ Answer
    <3>1. pc'[t] \in {"registerNew", "register", "reply"}
      BY <1>3, <1>4, <1>5, <2>4 DEF GetUser, Proven, Answer
    <3> QED BY <1>6, <3>1
  <2>5. CASE Register
    <3>1. \E f : GotoWith(t, "ensureInSubnet", f)
      BY <1>5, <2>5 DEF Register
    <3> QED BY <1>3, <1>6, <3>1
  <2>6. CASE EnsureInSubnet
    <3>1. pc[t] # "idle" /\ reg' = reg
      BY <2>6 DEF EnsureInSubnet, At, ReadOnly
    <3>2. CASE CurrentIP(t) = NoAddress \/ CurrentIP(t)[1] = subnet
      <4>1. Goto(t, "rebindDesired")
        BY <2>6, <3>2 DEF EnsureInSubnet
      <4>2. Placed(reg, u, n)
        BY <3>2 DEF CurrentIP, Placed
      <4> QED BY <1>7, <3>1, <4>1, <4>2
    <3>3. CASE ~ (CurrentIP(t) = NoAddress \/ CurrentIP(t)[1] = subnet)
      <4>1. RequestAddress(t, "subnet", MachineNamed(reg, u, n).desired)
        BY <2>6, <3>3 DEF EnsureInSubnet
      <4> QED BY <1>8, <3>1, <4>1 DEF Origin
    <3> QED BY <3>2, <3>3
  <2>7. CASE RebindDesired
    <3>1. pc[t] # "idle" /\ reg' = reg /\ Placed(reg, u, n)
      BY <2>7 DEF RebindDesired, At, ReadOnly, SubnetInv, SubnetOf, PlacedLabel
    <3>2. Goto(t, "autoApprove") \/ \E pin : RequestAddress(t, "rebind", pin)
      BY <2>7 DEF RebindDesired
    <3> QED BY <1>7, <1>8, <3>1, <3>2 DEF Origin
  <2>8. CASE AutoApprove
    <3>1. Placed(reg, u, n) /\ u \in User /\ n \in Name
      BY <2>8, AtJoinLabel DEF AutoApprove, At, JoinLabel, SubnetInv, SubnetOf, PlacedLabel
    <3>2. Goto(t, "answer") \/ Goto(t, "desiredOf")
      BY <2>8 DEF AutoApprove
    <3>3. reg' = reg \/ (CanAllow(reg, u, n) /\ reg' = Allow(reg, u, n))
      BY <2>8 DEF AutoApprove, SaveWorks, SaveFails, ReadOnly
    <3>4. ASSUME CanAllow(reg, u, n), reg' = Allow(reg, u, n) PROVE Placed(reg', u, n)
      <4>1. Restatused(reg, Allow(reg, u, n))
        BY <1>1, <3>1, <3>4, AllowRestatuses
      <4>2. Allow(reg, u, n) \in RegistryType
        BY <1>1, <3>1, <3>4, AllowType
      <4> QED BY <1>1, <3>1, <3>4, <4>1, <4>2, SamePlaces
    <3>5. Placed(reg', u, n)
      BY <3>1, <3>3, <3>4
    <3> QED BY <1>7, <3>2, <3>5
  <2>9. CASE DesiredOf
    <3>1. pc[t] # "idle" /\ reg' = reg /\ Placed(reg, u, n)
      BY <2>9 DEF DesiredOf, At, ReadOnly, SubnetInv, SubnetOf, PlacedLabel
    <3>2. \E pin : RequestAddress(t, "auto", pin)
      BY <2>9 DEF DesiredOf
    <3> QED BY <1>8, <3>1, <3>2 DEF Origin
  <2> QED BY <1>11, <2>1, <2>2, <2>3, <2>4, <2>5, <2>6, <2>7, <2>8, <2>9 DEF Join
<1>12. ASSUME NEW c, StartCommand(t, c) PROVE Good
  <2>1. pc'[t] \in {"allowRead", "revokeTo", "grantsOf"}
    BY <1>3, <1>12 DEF StartCommand
  <2> QED BY <1>6, <2>1
<1>13. CASE t = Udp /\ Signed
  <2> USE <1>13
  <2>1. (\E f : GotoWith(t, "heard", f)) \/ \E c : StartCommand(t, c)
    BY <1>5 DEF Signed, Verify, Heard
  <2> QED BY <1>3, <1>6, <1>12, <2>1
<1>14. CASE Allocate(t)
  <2>1. /\ frame[t] \in Frame /\ frame[t].origin \in Origin
        /\ pc[t] = "allocate" /\ reg' = reg
    BY <1>1, <1>14, AtLabel, FrameFields DEF Allocate, At, ReadOnly
  <2>2. SubnetOf(reg, "allocate", frame[t])
    BY <2>1 DEF SubnetInv
  <2>3. CASE CanAllocate(reg, subnet, frame[t].pin)
    <3> DEFINE a == AllocateIP(reg, subnet, frame[t].pin)
               f == [frame[t] EXCEPT !.ip = a]
    <3>1. f.user = u /\ f.name = n /\ f.origin = frame[t].origin /\ f.ip = a
      BY <2>1 DEF Frame
    <3>2. a[1] = subnet
      BY DEF AllocateIP
    <3>3. pc'[t] = "assign" /\ frame'[t] = f
      BY <1>3, <1>14, <2>3 DEF Allocate
    <3> HIDE DEF f, a
    <3> QED BY <2>1, <2>2, <3>1, <3>2, <3>3 DEF SubnetOf, PlacedLabel
  <2>4. CASE ~ CanAllocate(reg, subnet, frame[t].pin)
    <3>1. AfterRefusal(t)
      BY <1>14, <2>4 DEF Allocate
    <3>2. frame[t].origin # "approve" => Placed(reg, u, n)
      BY <2>1, <2>2, <2>4 DEF SubnetOf, PlacedLabel, Placed, Origin
    <3> QED BY <1>9, <2>1, <3>1, <3>2
  <2> QED BY <2>3, <2>4
<1>15. CASE Assign(t)
  <2>1. /\ frame[t] \in Frame /\ frame[t].origin \in Origin
        /\ u \in User /\ n \in Name \cup {NoName}
        /\ frame[t].ip \in Address /\ frame[t].ip[1] = subnet
    BY <1>1, <1>15, AtLabel, FrameFields DEF Assign, At, LocalsOK, SubnetInv, SubnetOf
  <2>2. Placed(reg', u, n)
    <3>1. CASE HasMachine(reg, u, n)
      <4>1. reg' = SetMachineIP(reg, u, n, frame[t].ip)
        BY <1>15, <3>1 DEF Assign, SaveWorks, SaveFails
      <4> QED BY <1>1, <2>1, <3>1, <4>1, AssignedIsPlaced
    <3>2. CASE ~ HasMachine(reg, u, n)
      <4>1. reg' = reg
        BY <1>15, <3>2 DEF Assign, ReadOnly
      <4> QED BY <3>2, <4>1 DEF Placed
    <3> QED BY <3>1, <3>2
  <2>3. ASSUME GotoWith(t, "answer", [frame[t] EXCEPT !.status = "active"]) PROVE Good
    <3> DEFINE f == [frame[t] EXCEPT !.status = "active"]
    <3>1. f.user = u /\ f.name = n
      BY <2>1 DEF Frame
    <3>2. pc'[t] = "answer" /\ frame'[t] = f
      BY <1>3, <2>3
    <3> HIDE DEF f
    <3> QED BY <2>2, <3>1, <3>2 DEF SubnetOf
  <2>4. ASSUME Goto(t, AfterAssign(frame[t].origin)) PROVE Good
    <3>1. \/ Goto(t, "notify")
          \/ \E label \in {"rebindDesired", "autoApprove", "answer"} : Goto(t, label)
      BY <2>1, <2>4 DEF AfterAssign, Origin
    <3> QED BY <1>4, <1>6, <1>7, <2>2, <3>1
  <2> QED BY <1>9, <1>15, <2>1, <2>2, <2>3, <2>4 DEF Assign
<1>16. CASE ApproveRead(t)
  <2>1. \/ Goto(t, "broadcast") \/ Goto(t, "notify")
        \/ \E pin : RequestAddress(t, "approve", pin)
    BY <1>16 DEF ApproveRead
  <2>2. pc[t] # "idle"
    BY <1>16 DEF ApproveRead, At
  <2> QED BY <1>4, <1>6, <1>8, <2>1, <2>2 DEF Origin
<1>17. CASE ListGrants(t) \/ RevokeListed(t)
  <2>1. \E f : GotoWith(t, "denyRead", f) \/ GotoWith(t, "revoke", f)
    BY <1>5, <1>17 DEF ListGrants, RevokeListed
  <2> QED BY <1>3, <1>6, <2>1
<1>18. CASE \/ DoAllow(t) \/ DoUnblock(t) \/ DoGrant(t) \/ RevokeTo(t)
            \/ DoDeny(t) \/ DoBlock(t)
  <2>1. Goto(t, "broadcast") \/ Goto(t, "approveRead")
    BY <1>5, <1>18 DEF DoAllow, DoUnblock, DoGrant, RevokeTo, DoDeny, DoBlock, Call
  <2> QED BY <1>4, <1>6, <2>1
<1>19. CASE \/ AllowRead(t) \/ DenyRead(t) \/ Notify(t) \/ LookUpEndpoint(t)
            \/ RememberPush(t) \/ Broadcast(t)
  <2>1. \E label \in {"allow", "unblock", "grant", "broadcast", "deny", "block", "endpoint",
                      "remember"} :
          Goto(t, label) \/ \E f : GotoWith(t, label, f)
    BY <1>5, <1>19 DEF AllowRead, DenyRead, Notify, LookUpEndpoint, RememberPush, Broadcast
  <2> QED BY <1>3, <1>4, <1>6, <2>1
<1>20. CASE Handle(t)
  BY <1>12, <1>14, <1>15, <1>16, <1>17, <1>18, <1>19, <1>20 DEF Handle, ConsoleCommand
<1> QED
  BY <1>10, <1>11, <1>13, <1>20, AloneStep

\* While handlers run one by one, the server answers a join with an address of
\* its subnet, unless there is none to give: ReplyAddressInSubnet is an invariant,
\* through any change of the subnet between restarts.
THEOREM RepliesAreInTheSubnet == Spec /\ []Alone => []ReplyAddressInSubnet
<1>1. Init => SubnetInv
  BY DEF Init, SubnetInv
<1>2. TypeOK /\ Alone /\ Alone' /\ SubnetInv /\ [Next]_vars => SubnetInv'
  BY SubnetStep
<1>3. SubnetInv => ReplyAddressInSubnet
  <2> SUFFICES ASSUME SubnetInv, At(Udp, "answer")
               PROVE  LET ip == CurrentIP(Udp)
                      IN  ip # NoAddress /\ ip[1] # subnet =>
                            ~ CanAllocate(reg, subnet,
                                MachineNamed(reg, frame[Udp].user, frame[Udp].name).desired)
    BY DEF ReplyAddressInSubnet
  <2>1. Placed(reg, frame[Udp].user, frame[Udp].name)
    BY ThreadsIncludeUdp DEF SubnetInv, SubnetOf, PlacedLabel, At
  <2> QED BY <2>1 DEF Placed, CurrentIP
<1> QED
  BY <1>1, <1>2, <1>3, TypeCorrect, PTL DEF Spec

-----------------------------------------------------------------------------
(* Every grant names a user that has been approved.                        *)

GrantsApproved(r) == \A g \in r.grants : r.users[g.user] \notin {"absent", "pending"}

\* No approved user of r is waiting or gone in q.
KeepsApprovals(r, q) ==
  \A u \in User : \/ q.users[u] = r.users[u]
                  \/ q.users[u] \in {"active", "blocked"}
                  \/ r.users[u] \in {"absent", "pending"}

LEMMA GrantsStayApproved ==
  ASSUME NEW r \in RegistryType, NEW q, GrantsApproved(r), KeepsApprovals(r, q),
         q.grants \subseteq r.grants
  PROVE  GrantsApproved(q)
<1>1. \A g \in r.grants : g.user \in User
  BY DEF RegistryType, Grant
<1> QED
  BY <1>1 DEF GrantsApproved, KeepsApprovals

LEMMA JoinKeepsApprovals ==
  ASSUME NEW r \in RegistryType, NEW c \in Claim, GrantsApproved(r)
  PROVE  GrantsApproved(RegisterJoin(r, c))
<1> DEFINE q == RegisterJoin(r, c)
<1>1. /\ q.grants = r.grants
      /\ \/ q.users = r.users
         \/ r.users[c.user] = "absent" /\ q.users = [r.users EXCEPT ![c.user] = "pending"]
  BY AppendingJoin, ReclaimingJoin
<1> HIDE DEF q
<1>2. KeepsApprovals(r, q)
  BY <1>1 DEF KeepsApprovals, RegistryType
<1>3. GrantsApproved(q)
  BY <1>1, <1>2, GrantsStayApproved
<1> QED
  BY <1>3 DEF q

LEMMA OperationKeepsApprovals ==
  ASSUME TypeOK, NoOrphans(reg), Sound(reg), GrantsApproved(reg), NEW t \in Thread,
         NEW u \in User, NEW n \in Name \cup {NoName},
         u = frame[t].user, n = frame[t].name,
         Justified(reg, pc[t], frame[t]), NEW r, Operation(t, u, n, r)
  PROVE  GrantsApproved(r)
<1>1. reg \in RegistryType /\ NoName \notin Name
  BY NonesAreOutside DEF TypeOK, StoreOK
<1>2. ASSUME KeepsApprovals(reg, r), r.grants \subseteq reg.grants
      PROVE  GrantsApproved(r)
  BY <1>1, <1>2, GrantsStayApproved
<1>3. ASSUME r.grants \subseteq reg.grants, NEW s \in {"active", "blocked"},
             r.users = reg.users \/ r.users = [reg.users EXCEPT ![u] = s]
      PROVE  GrantsApproved(r)
  <2>1. KeepsApprovals(reg, r)
    BY <1>1, <1>3 DEF RegistryType, KeepsApprovals
  <2> QED BY <1>2, <1>3, <2>1
<1>4. CASE CanAllow(reg, u, n) /\ r = Allow(reg, u, n)
  <2>1. /\ r.users = IF n = NoName THEN [reg.users EXCEPT ![u] = "active"] ELSE reg.users
        /\ r.grants = reg.grants
    BY <1>1, <1>4, AllowEffect
  <2> QED BY <1>3, <2>1
<1>5. CASE Exists(reg, u, n) /\ r = Block(reg, u, n)
  <2>1. /\ r.users = IF n = NoName THEN [reg.users EXCEPT ![u] = "blocked"] ELSE reg.users
        /\ r.grants = reg.grants
    BY <1>1, <1>5, BlockEffect
  <2> QED BY <1>3, <2>1
<1>6. CASE Exists(reg, u, n) /\ r = Unblock(reg, u, n)
  <2>1. /\ r.users = IF n = NoName /\ reg.users[u] = "blocked"
                     THEN [reg.users EXCEPT ![u] = "active"] ELSE reg.users
        /\ r.grants = reg.grants
    BY <1>1, <1>6, UnblockEffect
  <2> QED BY <1>3, <2>1
<1>7. CASE pc[t] = "deny" /\ r = Deny(reg, u, n)
  <2>1. /\ r.users = IF n = NoName THEN [reg.users EXCEPT ![u] = "absent"] ELSE reg.users
        /\ r.grants = reg.grants
    BY <1>1, <1>7, DenyEffect
  <2>2. Found(reg, u, n) = "pending"
    BY <1>7 DEF Justified
  <2>3. KeepsApprovals(reg, r)
    BY <1>1, <2>1, <2>2 DEF RegistryType, Found, KeepsApprovals
  <2> QED BY <1>2, <2>1, <2>3
<1>8. CASE pc[t] = "grant" /\ r = AddGrant(reg, u, n, frame[t].to)
  <2>1. r.users = reg.users /\ r.grants = reg.grants \cup {Subject(u, n, frame[t].to)}
    BY <1>1, <1>8, GrantEffect
  <2>2. Found(reg, u, n) = "active"
    BY <1>8 DEF Justified
  <2>3. reg.users[u] \notin {"absent", "pending"}
    <3>1. CASE n = NoName
      BY <2>2, <3>1 DEF Found
    <3>2. CASE n # NoName
      <4>1. HasMachine(reg, u, n) /\ MachineNamed(reg, u, n).status = "active"
        BY <2>2, <3>2 DEF Found
      <4>2. SlotNamed(reg, u, n) \in SlotsNamed(reg, u, n)
        BY <1>1, <4>1, SlotNamedIsNamed
      <4>3. /\ SlotNamed(reg, u, n) \in Used(reg)
            /\ reg.machines[SlotNamed(reg, u, n)].user = u
            /\ reg.machines[SlotNamed(reg, u, n)].status # "pending"
        BY <4>1, <4>2 DEF SlotsNamed, MachineNamed
      <4> QED BY <4>3 DEF NoOrphans, Sound, PendingOwnersWait
    <3> QED BY <3>1, <3>2
  <2>4. Subject(u, n, frame[t].to).user = u
    BY DEF Subject
  <2> HIDE DEF Subject
  <2> QED BY <2>1, <2>3, <2>4 DEF GrantsApproved
<1>9. ASSUME NEW target, r = Revoke(reg, u, n, target) PROVE GrantsApproved(r)
  <2>1. r.users = reg.users /\ r.grants \subseteq reg.grants
    BY <1>1, <1>9, GrantEffect
  <2> QED BY <1>3, <2>1
<1>10. ASSUME NEW a \in Address, HasMachine(reg, u, n), r = SetMachineIP(reg, u, n, a)
       PROVE  GrantsApproved(r)
  <2>1. r.users = reg.users /\ r.grants = reg.grants
    BY <1>1, <1>10, SetMachineIPFields
  <2> QED BY <1>3, <2>1
<1> QED
  BY <1>4, <1>5, <1>6, <1>7, <1>8, <1>9, <1>10 DEF Operation

GrantsInv == Everywhere(GrantsApproved)

LEMMA ChangedGrants ==
  ASSUME TypeOK, NoOrphanMachines, SoundInv, GrantsInv, NEW r, Changed(r)
  PROVE  GrantsApproved(r)
<1>1. reg \in RegistryType /\ NoOrphans(reg) /\ Sound(reg) /\ GrantsApproved(reg)
  BY DEF TypeOK, StoreOK, NoOrphanMachines, SoundInv, GrantsInv, Everywhere
<1>2. ASSUME NEW c \in Claim, r = RegisterJoin(reg, c)
      PROVE  GrantsApproved(r)
  BY <1>1, <1>2, JoinKeepsApprovals
<1>3. ASSUME NEW t \in Thread, NEW u \in User, NEW n \in Name \cup {NoName},
             u = frame[t].user, n = frame[t].name, Operation(t, u, n, r)
      PROVE  GrantsApproved(r)
  <2>1. Justified(reg, pc[t], frame[t])
    BY <1>3 DEF Operation, SoundInv, ReadsHold
  <2> QED BY <1>1, <1>3, <2>1, OperationKeepsApprovals
<1> QED
  BY <1>2, <1>3 DEF Changed

LEMMA GrantsStep ==
  ASSUME TypeOK, NoOrphanMachines, SoundInv, GrantsInv, [Next]_vars
  PROVE  GrantsInv'
<1>1. GrantsApproved(reg) /\ GrantsApproved(disk) /\ disk \in RegistryType
  BY DEF GrantsInv, Everywhere, TypeOK, StoreOK
<1>2. ASSUME NEW r, GrantsApproved(r), reg' = r, disk' \in {disk, r}
      PROVE  GrantsInv'
  BY <1>1, <1>2 DEF GrantsInv, Everywhere, GrantsApproved
<1>3. CASE UNCHANGED <<reg, disk>>
  BY <1>1, <1>2, <1>3
<1>4. ASSUME NEW r, Changed(r), SaveWorks(r) \/ SaveFails(r) PROVE GrantsInv'
  <2>1. GrantsApproved(r)
    BY <1>4, ChangedGrants
  <2>2. reg' = r /\ disk' \in {disk, r}
    BY <1>4 DEF SaveWorks, SaveFails
  <2> QED BY <1>2, <2>1, <2>2
<1>5. CASE Restart
  <2> DEFINE q == EnsureAdmin(disk)
  <2>1. q.users = [disk.users EXCEPT ![Admin] = "active"] /\ q.grants = disk.grants
    BY <1>1, EnsureAdminEffect
  <2>2. reg' = q /\ disk' = q
    BY <1>5 DEF Restart
  <2> HIDE DEF q
  <2>3. KeepsApprovals(disk, q)
    BY <1>1, <2>1 DEF RegistryType, KeepsApprovals
  <2>4. GrantsApproved(q)
    BY <1>1, <2>1, <2>3, GrantsStayApproved
  <2> QED BY <1>2, <2>2, <2>4
<1> QED
  BY <1>3, <1>4, <1>5, StoreChanges DEF StoreStep

\* While handlers run one by one, whatever names the machines take, a grant
\* always names a user that exists and has been approved: GrantsNameApprovedUsers
\* is an invariant, so that nobody who registers finds grants waiting under the
\* user name it picks.
THEOREM GrantsNameOnlyApprovedUsers == Spec /\ []Alone => []GrantsNameApprovedUsers
<1>1. Init => GrantsInv
  <2> SUFFICES ASSUME Init PROVE GrantsInv
    OBVIOUS
  <2>1. EmptyRegistry \in RegistryType /\ EmptyRegistry.grants = {}
    BY EmptyRegistryType DEF EmptyRegistry
  <2> DEFINE q == EnsureAdmin(EmptyRegistry)
  <2>2. q.grants = {}
    BY <2>1, EnsureAdminEffect
  <2> HIDE DEF q
  <2> QED BY <2>2 DEF Init, GrantsInv, Everywhere, GrantsApproved, q
<1>2. TypeOK /\ NoOrphanMachines /\ SoundInv /\ GrantsInv /\ [Next]_vars => GrantsInv'
  BY GrantsStep
<1>3. GrantsInv => GrantsNameApprovedUsers
  BY DEF GrantsInv, Everywhere, GrantsApproved, GrantsNameApprovedUsers
<1> QED
  BY <1>1, <1>2, <1>3, NoMachineOutlivesItsUser, SoundAlways, TypeCorrect, PTL DEF Spec

=============================================================================
