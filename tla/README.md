# nz: a TLA+ model of the server and its nodes

nz is a small VPN: one server keeps a registry of users and machines in
`state.json`, nodes join it over UDP and wait for an approval, and traffic
between machines goes directly or through the server's relay. These modules
model the part of it that decides *who is in, under which address, and with
which permissions*, from the Go code under `src/internal/`.

1. [The system](#1-the-system): components, state, interactions, what is hard
2. [The modules](#2-the-modules) and how they correspond to the code
3. [The runs](#3-the-runs): what TLC checks, bounds, fairness
4. [The theorems](#4-the-theorems): what TLAPS proves, and how
5. [Where code and documentation disagree](#5-where-code-and-documentation-disagree)
6. [What is not modelled](#6-what-is-not-modelled)
7. [The plan](#7-the-plan)

To repeat the checks: `tlc -config MCSequential.cfg MCControlPlane` for each
configuration, `tlapm ControlPlaneSafety.tla` for each module of proofs.
`PROJECT.json` says which definition stands for which lines of the code.

## 1. The system

| Component | Code | State it keeps | Operations | Talks to |
| --- | --- | --- | --- | --- |
| State registry | `state/state.go` | users, machines (name, key, status, address, pin), grants; a copy on disk | `RegisterJoin`, `Allow`, `Deny`, `Block`, `Unblock`, `Grant`, `Revoke`, `AllocateIP`, `SetMachineIP`, `EnsureAdmin`, lookups; each under `State.mu`, the mutating ones end in `saveLocked` | called by the server and the daemon |
| Control plane | `server/server.go`, `handleAdminRequest` and `handleSigned` in `server/data.go` | challenges (`nonces`), `endpoints` by user and machine, `ipEndpoints` by address | `handleJoinRequest`, `handleJoinProof`, `AdminCommand` (`allow`, `deny`), `NotifyApprove`, `broadcastPolicyChanged` | registry by calls; nodes by datagrams; the daemon's console by calls |
| Data plane and policy | `server/data.go`, `server/policy.go` | `flows`: who called whom in the last minute | `relayData`, `localData`, `handlePeerQuery`, `sendPeerIntro`, `AllowRelay`, `AllowP2P` | registry (reads), nodes |
| Node join | `node/node.go`, `readFromUDP` and `serverWatch` in `node/data.go` | progress of the join, `joinReplyCh`, `approveCh`, its address | `tryJoin`, `waitForApproval`, `adoptVPNIP`, retries, rejoin | server by datagrams |
| Node data plane | `node/data.go`, `node/packets.go` | peer cache, pending packets, `selfBlocked`, `lastServerSeen` | `sendTo`, `ensurePeer`, `handleData`, `handlePolicyChanged`, `serverWatch` | server and other nodes |
| Node link | `keepAliveLoop`, `serverWatch`, `serverAuthFailed`, `ensureServerPeer` in `node/data.go`, `acceptServerKeys` in `node/node.go` | the trusted server key, the peer entry of the server, the address, the device, `selfBlocked`, `lastServerSeen` | keep-alives, rejoins, pushes of the status | server |
| Daemon | `daemon/daemon.go` | the loaded config `cfg`, `nodeCancel`, the runs of the node it has started | `New`, `Serve`, `handleReload`, `startNode`, admin requests | admin socket, server, node |
| Wire format | `protocol`, `identity/identity.go` | none | `Marshal`, `Unmarshal`, `MarshalSigned`, `ParseSigned`, `MarshalPeerAnswer`, `ParsePeerAnswer`, `Proof`, `PublicBlob` | everyone |
| Support | `identity` (keys), `config`, `ipc`, `tun`, `service`, `logx`, `cmd/nz` | none that outlives a call (`identity`: a key pair on disk) | key agreement, parsing, devices, sockets | everyone |

**How they interact.** The server reads its UDP socket in one goroutine that
runs every handler to its end. Console commands arrive on the admin socket, one
goroutine per connection, and run beside it; commands that an admin machine
sends through the tunnel run in the socket goroutine. All of them call the
registry, whose operations are atomic one by one and not in sequence. A node
has a join loop, a reader of the UDP socket that feeds it through channels of
capacity one, a keep-alive loop and a watch that joins again when the server
has been silent.

**What is hard to test.**

- *Check and act in different critical sections*: a command acts on a status it
  read earlier; `AllocateIP` and `SetMachineIP` are separate; a machine is
  selected by key and then addressed by name.
- *Names and keys*: a machine may rename itself, be removed and register again;
  its key is the identity, but grants and several lookups use names.
- *Persistence*: memory changes before the save, which may fail; a restart
  takes the disk's version, perhaps with another subnet.
- *Datagrams* are lost, duplicated and late, and answers carry no number.
- *Two waits at once*: a push may overtake a reply; a full channel drops.
- *Goroutines that nobody stops*: a reload cancels a run of the node, whose loops
  go on with its old config; two reloads share fields that nothing locks.
- *What a node keeps of the server* (its key, an entry in the peer cache, an
  address, a device) while the server comes back as another one.
- *Marks without a lock*: every datagram sets `lastServerSeen`, an answer with a
  wrong signature clears it, and the watch looks once a second.
- *Bytes*: lengths, offsets and optional fields that both sides must agree on.

**What makes each component correct** (the properties are named as in the modules).

- Registry and control plane: one address per machine (`AddressesUnique`), one
  entry per key (`OneEntryPerKey`), one key per name (`NamesUnique`), no machine
  without its user (`NoOrphanMachines`), only approved machines have addresses
  (`PendingHasNoAddress`), every active one gets its own
  (`ActiveHasAddress`, `ActiveReplyAddressOwned`, `ReplyAddressInSubnet`),
  blocks hold (`BlocksHold`), grants belong to users that were approved and are
  not blocked (`GrantsNameApprovedUsers`, `BlockedUserHasNoGrants`),
  only requests that wait are deleted (`RemovesOnlyPending`), and as long as a
  machine keeps its address, what is sent to it is not turned to another node
  (`EndpointStays`).
- Node join: no tunnel without approval (`JoinedWasApproved`), every try reads
  its own answers (`Lockstep`), the daemon of an approved machine survives every
  answer (`NodeSurvives`), and an approved machine joins (`JoinsOnceApproved`).
- Node link: a node that got the last push knows whether it is blocked
  (`StatusKnown`); one that is linked works under its registered address and
  seals for the present server (`LinkedIsRegistered`); every node finds the
  server again (`FollowsServer`).
- Daemon: what it holds is what its current run has (`ConfigInEffect`), superseded
  runs that had joined are cancelled and leave the device alone
  (`OneRunIsCurrent`, `DeviceIsCurrent`), a config that stays comes to be served
  and reaches the server (`ReloadTakesEffect`), with the machine's traffic
  (`TrafficReturns`).
- Wire format: a parser gives back what was written and accepts nothing else, a
  signature covers every byte and fits one message.
- Data planes together: they are a firewall (`ImplementsFirewall`): what reaches
  an application was permitted, or answers what was (`CallsWerePermitted` for
  calls); endpoints are known only to machines that may call each other
  (`EndpointsAreMutual`); a permission that was revoked goes out of use
  (`RevokedCallsEnd`), and answers that threads of a node take from each other
  do no lasting harm (`NoLeftover`).

`PROJECT.json` lists the hazards one by one, with their lines and the properties
that watch them.

## 2. The modules

| Module | Models | |
| --- | --- | --- |
| `Registry` | `state.go` | pure operators from registries to registries |
| `ControlPlane` | `server.go`, the signed control messages of `data.go`, the admin entry and start of `daemon.go` | extends `Registry`; one step per call on `*State` |
| `Membership` | the promise of README, "Join Flow" and "Security" | abstract specification; `ControlPlane` implements it |
| `MCControlPlane` | | configs of nodes and commands of admins for TLC |
| `NodeJoin` | `node.go` and the goroutines of `node/data.go` that take part in a join, against the answering server | its own network |
| `MCNodeJoin` | | the circumstances TLC looks at |
| `NodeLink` | keep-alives, `serverWatch`, server keys, status pushes, on both sides | nodes that run, over many joins |
| `MCNodeLink` | | addresses for TLC |
| `Reload` | `handleReload`, `startNode`, and the life of `node.Run` | the daemon of a node |
| `MCReload` | | four configs for TLC |
| `Relay` | `policy.go`, relay, flows, peer queries and pushes of `server/data.go` | the server's half of the data plane |
| `PeerCache` | `node/data.go`: the peer cache, sending and receiving | every node's half; extends `Relay` and composes with it |
| `Firewall` | the promise of README, "Access Control" | abstract specification; `PeerCache`, over `Relay`, implements it |
| `MCPeerCache` | | networks, grants and traffic for TLC |
| `Wire` | `protocol/protocol.go`, `protocol/signed.go`, `identity/identity.go` | pure operators on sequences of bytes |
| `RegistryProofs`, `ControlPlaneProofs`, `ControlPlaneSafety`, `NodeJoinProofs`, `NodeLinkProofs`, `ReloadProofs`, `PeerCacheProofs`, `WireProofs` | | theorems and proofs |

**Registry.** `reg.users` is a function from names to statuses (`absent` stands
for no entry). `reg.machines` is a table of slots filled from 1 without holes,
because lookups return the first match in the slice and duplicates are not
impossible a priori. `reg.grants` is the set of subject and target pairs. An
operation that can fail comes as a condition (`CanAllow`, `JoinIsRefused`,
`CanAllocate`) and a result (`Allow`, `RegisterJoin`, `AllocateIP`). An address
is a pair of a subnet and a host number: `10.0.0.3` is `<<lan, 3>>`.

**ControlPlane.** `pc[t]` says which call on `*State` the thread `t` makes next,
and `frame[t]` holds the handler's local variables, which may be stale by then.
The thread `Udp` is the socket goroutine; the others serve the console. Each
action is one critical section, of `State.mu` or of the server's own mutex,
together with the local code up to the next one, so every interleaving that the
mutexes allow is explored. The labels are the calls: `handleJoinRequest` is
`JoinRequest`, `GetUser` and, for a user that is not known, `RegisterNew` and
`Reply`; `handleJoinProof` is `JoinProof`, `Proven`, `Register`, `EnsureInSubnet`
(with `Allocate` and `Assign` when it moves the address), `RebindDesired`,
`AutoApprove`, `DesiredOf`, `Answer`, `Reply`; a signed message is `Verify` and
`Heard`, after which it may be a command; `allow` is `AllowRead` and one of
`DoAllow` (then `ApproveRead`, `Allocate`, `Assign`), `DoUnblock`, `DoGrant`;
`NotifyApprove` is `Notify`, which reads the machine, `LookUpEndpoint` and
`RememberPush`, which writes down where the address leads by what the other two
have read; `deny` is `ListGrants`, `RevokeListed`, `DenyRead` and `DoDeny` or
`DoBlock`, or `RevokeTo`. A mutating call either saves (`SaveWorks`) or changes the memory
only and reports an error (`SaveFails`), as `saveLocked` does. `Restart` kills
the process between any two calls and starts it from the disk.

A node is its key: remote addresses, challenges and signatures are represented
by the key of the node they belong to. A proof is either an answer to the
challenge that the server holds for the claimed name, or invalid.

**NodeJoin.** `pc` is the place of the join loop; `joinCh` and `approveCh` are
the two channels; `toServer` and `toNode` are the datagrams under way. The
server's side is what `ControlPlane` says of one machine of an ordinary user
with the right password: `entry` holds the status of both, whether the machine
has an address, and, as history, whether an admin has allowed it; `disk` is the
copy in `state.json`. Commands on the user are included, so a block takes the
machine along while it waits, and an unblock makes it active (`UserDecided`).
When the command comes through the tunnel, approval is one step between two
datagrams; from the console, `ConsoleAllow` and `ConsoleFinish` leave the window
between `Allow` and `SetMachineIP` open. `FailCommand` is a command that stops
with an error after it has changed the registry. A wait ends by its timeout only
when nothing is under way, so that "five seconds" means "longer than a round
trip"; the fault `late` lifts that. Loss, duplication, late answers, failed saves, commands that stop half-way,
restarts of the server and silence that makes `serverWatch` join again are
faults, counted up to `MaxFaults`.

A node whose tunnel is up joins again when `serverWatch` has found the server
silent (`Rejoin`); it keeps the tunnel meanwhile.

**NodeLink.** Where `NodeJoin` looks into one join, `NodeLink` looks at what
lasts from one to the next. A join is one step (`Join`, or `LoseReply`, when the
server has registered the machine and the answer is lost), a keep-alive one
datagram each way, and pushes share the queue to the node with the answers.
`generation` counts the identities of the server: `Reinstall` is the removal of
its `state.json`, after which registry and key are new. `trusted[n]` is the
generation of the key that the node has stored, `serverPeer[n]` that of its peer
entry for the server. `seen` is `lastServerSeen` as the watch sees it, so the
race of `serverAuthFailed` with the next datagram is `ReadDirect`. `missed` is a
history variable: a push about the node has been lost, was not sent for want of
an endpoint, or was signed by a key the node does not trust.

**Reload.** `handler[h]` is where a connection's `handleReload` stands: the file
is loaded and checked, then `d.cfg`, the old `d.nodeCancel`, the new one and `go
node.Run` are accessed one after the other, and two handlers interleave. A run
goes through `connecting`, `joining`, `serving`; the first and the last look at
the context, the join does not, and a run that has `joined` leaves its reader,
keep-alives and watch behind when it returns (`KeepAlive`, `Silence`, `Rejoin`
of a run that has `returned`). `Join` on the server's side is the part of
`ControlPlane` that concerns one approved machine: rename, pin, address,
endpoint. A fatal error ends the process, which the service manager starts again
(`StartDaemon`).

**Wire.** A parser is two operators: what it accepts and what it returns. An
address is a sequence of 0, 4 or 16 bytes, as `netip.Addr` is; `PutUint32` and
`Uint32` keep the width of the length field.

**Relay.** `active` and `grants` are what the data plane reads of the registry,
`flows` is the map of the same name without its times, and `net` the datagrams
under way, in no order. `AdminCommand` is a command from the tunnel: the whole
handler with the pushes of `broadcastPolicyChanged`. `HandlePeerQuery` and
`RelayData` are the handlers of the socket loop. The server cannot see whether a
packet is a call: where it has noted a flow of one direction, it lets everything
through in the other.

**PeerCache.** `cache[n]` is `n.peers` of node `n`, `replyCh` its `queryReplyCh`,
`pending` its queues, `job[n][t]` what its goroutine `t` is doing. `Tun` is
`readFromTUN`, which blocks in `ensurePeer`; workers are the goroutines started
by `handleData` (`go n.ensurePeer`, `go n.ensurePeerThenFlush`); the handlers of
`readFromUDP` are `ReadData`, `ReadAnswer`, `ReadPolicy`. An answer carries the
keys of its target and not its name, as in the code, so whichever thread takes it
stores it under the address that it asked about. An entry's `owner` is the
machine whose keys it holds, a packet's `key` the one it was sealed for; `Opens`
is the check of signature and seal. `fresh` stands for `lastSeen` less than a
second ago, and `Age` ends it. `permitted`, `sent` and `heard` are history
variables: who was ever permitted to call whom, who has sent whom a packet, what
has reached an application.

**Membership.** Every key has a standing and at most one address; nothing about
users, names, calls or threads. What is decided is saved, as a whole, then or
later; `Recover` falls back to what was saved. `ImplementsMembership` maps a key
to the status and address of its first entry, and `saved` to those of the disk:
a failing save is a decision without a save, the next save makes up for it, and
`Restart` is `Recover`.

**Firewall.** It knows the three history variables of `PeerCache` and nothing
else: who is permitted may send anything, and where only one direction is, the
other side may answer what it has been sent. `ImplementsFirewall` says that the
relay, which cannot tell a call from an answer, the flows, the answers, caches,
queues and direct paths amount to that. What was permitted once counts: how soon
a revocation takes effect is `RevokedCallsEnd`.

Operators called *mutant of* something are deliberate mistakes: each is a
plausible bug, and the run of a property finds it violated when the mutant takes
the place of the original.

## 3. The runs

States are distinct states of the complete graph, unless the run ends in a
counterexample.

| Run | Instance | States | Shows |
| --- | --- | --- | --- |
| `MCSequential` | one thread; three keys, two of them rivals for a name and a pin; all commands | 283,253 | `TypeOK`, `AddressesUnique`, `PendingUserOnlyPendingMachines`, `BlockedUserHasNoGrants`, `GrantsNameApprovedUsers`, `RemovesOnlyPending`, `BlocksHold`, `EndpointStays`, and that the server implements `Membership` |
| `MCRestarts` | one thread; two keys, two subnets, one failing save, one crash at any call | 1,255,904 | `AddressesUnique` (memory and disk), `ReplyAddressInSubnet`, `PendingHasNoAddress` (memory and disk), and that the server implements `Membership` with its saves and restarts |
| `MCConsole` | socket and console threads; two keys that start under one name | 1,031,665 | `NoOrphanMachines`, `OneEntryPerKey`, `NamesUnique`, `ActiveReplyAddressOwned` |
| `MCNodeJoin` | two circumstances, up to three faults | 215,896 | `TypeOK`, `Lockstep`, `NodeSurvives`, `JoinedWasApproved`, `JoinsOnceApproved` |
| `MCNodeLink` | two machines, up to four disturbances | 1,194,470 | `TypeOK`, `StatusKnown`, `LinkedIsRegistered`, `FollowsServer` |
| `MCReload` | two reloads at a time, three runs; one edit, one outage, one failing device | 459,143 | `TypeOK`, `ConfigInEffect`, `OneRunIsCurrent`, `DeviceIsCurrent`, `ReloadTakesEffect`, `TrafficReturns` |
| `MCPeerCache` | three machines, one of the admin's and two of a friend to whom nothing is granted; two threads of one share a channel; direct packets from it to its sibling | 2,246,842 | `TypeOK`, `CallsWerePermitted`, `NoLeftover`, `EndpointsAreMutual`, and that the data plane implements `Firewall` |
| `MCRevocation` | two machines that converse over the relay; a revocation or block; one loss or early timeout | 688,441 | `RevokedCallsEnd`, `NoLeftover` |
| `MCDuplicateAddress`, `MCLateReply`, `MCStalePermission`, `MCReloadUndone` | | | a counterexample each, see section 5 |

In `MCNodeJoin` a behaviour starts in one of two circumstances. In the *orderly*
one commands come through the tunnel, datagrams are lost, saves fail, the server
restarts and falls silent; `Lockstep`, `NodeSurvives` and `JoinsOnceApproved` say
something of it. In the *adverse* one the console approves, commands stop
half-way and datagrams are also late or duplicated; `TypeOK` and
`JoinedWasApproved` hold there, too.

**Bounds and why they are enough.**

- *Machines and keys* (`MaxMachines` = number of keys, 2 or 3): the properties
  relate two entries; a third lets one be removed or renamed between two that
  clash. A join that would overflow the table is not explored; with one entry
  per key (`OneEntryPerKey`) that never happens.
- *Users* (2): the admin's and an ordinary one differ in `autoApproveAdmin` and
  policy; two ordinary users share nothing but addresses, which two machines of
  one user contend for as well.
- *Hosts* (2 or 3): `{2, 3}` for two machines makes a pin collide and a subnet
  fill up; with a third there is an address to move to.
- *Threads* (1 or 2): one console command at a time beside the socket loop. It is
  enough for every check-then-act pair, each of which has two parties.
- *Failed saves and restarts* (1 each): a crash after a failed save is included;
  more of them repeat what one does, as memory and disk agree again after it.
- *Claims and commands* are the joins of `MCControlPlane`: changing the name,
  taking another's name, asking for a pin, for the same pin as another, joining
  without one; allowing, granting, denying and revoking, on a user and on a
  machine.
- `MaxFaults` = 3 in `NodeJoin`: the violations found need one; three allow a
  fault while recovering from another.
- `MaxEvents` = 4 in `NodeLink`: an outage, a reinstall, a loss and a command
  make the longest story, a node that misses the news of a new server. Two
  machines contend for addresses after a reinstall.
- In `Reload` three runs are one that has been superseded, one that supersedes it
  and one that does the same to that; after one edit a config can still be
  loaded twice. `MCReloadUndone` needs two runs and no fault.
- In `PeerCache`: one command and one fault in `MCRevocation`, none in
  `MCPeerCache`, where a datagram that never arrives is as good as lost (a fault
  matters to `NoLeftover` alone); one worker at two of three nodes (`Started`; one
  more is not started), one packet under way when an application sends another
  (`MaxPackets`), queues of one instead of four. Two threads are enough to take
  each other's answers, and the machine that has them has a peer whose endpoint
  it may know and one whose endpoint it may not; the packets an application
  sends are not counted, so liveness is not cut short.

**Where properties stop holding.** `PendingUserOnlyPendingMachines`,
`PendingHasNoAddress`, `BlockedUserHasNoGrants`, `AddressesUnique`,
`RemovesOnlyPending`, `EndpointStays` and `ImplementsMembership` are checked with
one thread on purpose: with a console thread each of them is broken by a handler
that acts on what it read before. They say nothing of such a handler, and the
hazards in `PROJECT.json` that need one say so. The theorems say how little it takes to keep them: handlers
that run one by one, on however many threads, and for addresses only that no two
allocations overlap. `MCDuplicateAddress` keeps one of the counterexamples.
`RevokedCallsEnd` holds where traffic is relayed, and not where direct packets
get through both ways (`MCStalePermission`). `GrantsNameApprovedUsers` is about
the users that grants belong to; of the machines' names nothing like it is true,
since a rename leaves its old grants under a free name (section 5).
`NodeSurvives` speaks of machines that an admin has approved: a machine that
became active with its user, whose node does stop, is not one.

**Fairness.** `ControlPlane` has none: all its properties are safety. In
`NodeJoin`, `Fairness` is weak fairness of the join loop, of the node's
reader (`Receive`), of the server's reader (`Serve`) and of the end of a console
command: goroutines that are ready run, timers fire, and a datagram that is not
lost arrives. `Lose`, `Restart` and the other faults are never forced, and
their number is bounded; admins need not act, so `JoinsOnceApproved` only speaks
of machines that stay approved. In `PeerCache` the server's reader, the node's
reader of answers and pushes, the goroutines and their timers, and the passing of
a second (`Age`) are weakly fair; applications need not send, packets need not
arrive, flows need not expire. In `NodeLink` the watch, the keep-alive loop, the
node's reader, the join loop and the passing of fifteen silent seconds are
weakly fair, and a server that is down comes back; disturbances are not. In
`Reload` so are handlers that have begun, the runs, the service manager and the
end of an outage; nobody has to edit, reload or approve. All of these are
goroutines that are ready, timers, or `Restart=always` of the unit file. The
models run with deadlock checking on, except `MCReload` and `MCReloadUndone`:
once the runs are used up and the daemon has died a last time, nothing more
happens.

## 4. The theorems

All are proved for every value of the constants that satisfies the named
assumptions of the modules. Two conditions on the scheduling of handlers occur:
`Alone`, that no two handlers are under way at once, and the weaker
`AssignsAlone`, that no two stand between `AllocateIP` and `SetMachineIP` at
once. The code has both as long as every command comes through the tunnel
(`Thread = {Udp}`), and would have them with console commands, too, if a lock
were held around a handler or around the two calls.

| Theorem | Module | Says |
| --- | --- | --- |
| `TypeCorrect` | `ControlPlaneProofs` | `Spec => []TypeOK` |
| `NoMachineOutlivesItsUser` | `ControlPlaneSafety` | `Spec => []NoOrphanMachines`, for any threads, crashes and failed saves |
| `AllocationsInTurnKeepAddressesUnique` | `ControlPlaneSafety` | `Spec /\ []AssignsAlone => []AddressesUnique`, for any threads, crashes and failed saves |
| `KeysAreNotRegisteredTwice`, `NamesAreNotShared` | `ControlPlaneSafety` | if every node keeps its user (`ClaimsKeepUser`), `Spec => []OneEntryPerKey` and `[]NamesUnique`, for any threads, crashes and failed saves |
| `ReplyCarriesOwnAddress` | `ControlPlaneSafety` | likewise `Spec => []ActiveReplyAddressOwned` |
| `NoAddressBeforeApproval`, `NoMachineAheadOfItsUser`, `BlockedUsersKeepNoGrants` | `ControlPlaneSafety` | `Spec /\ []Alone => []PendingHasNoAddress`, `[]PendingUserOnlyPendingMachines`, `[]BlockedUserHasNoGrants` |
| `OnlyPendingIsRemoved`, `BlockedStaysBlocked` | `ControlPlaneSafety` | with `ClaimsKeepUser`, `Spec /\ []Alone => RemovesOnlyPending` and `=> BlocksHold` |
| `ServerKeepsTheBook` | `ControlPlaneSafety` | with `ClaimsKeepUser`, `Spec /\ []Alone => ImplementsMembership`: every step of the server, failed saves and restarts included, is one of the abstract membership or leaves it alone |
| `RepliesAreInTheSubnet` | `ControlPlaneSafety` | `Spec /\ []Alone => []ReplyAddressInSubnet` |
| `EndpointsStayWithTheirMachines` | `ControlPlaneSafety` | `Spec /\ []Alone => EndpointStays` |
| `GrantsNameOnlyApprovedUsers` | `ControlPlaneSafety` | `Spec /\ []Alone => []GrantsNameApprovedUsers`, whatever names machines take |
| `NodeTypesCorrect` | `NodeJoinProofs` | `Spec => []TypeOK` |
| `NoJoinWithoutApproval` | `NodeJoinProofs` | `Spec => []JoinedWasApproved`, for any number of faults of all kinds |
| `HandshakeInStep` | `NodeJoinProofs` | `Spec => []Lockstep`: in circumstances without late or duplicated datagrams |
| `ApprovedNodeSurvives` | `NodeJoinProofs` | `Spec => []NodeSurvives`: in circumstances with whole commands from the tunnel, the node of a machine that an admin approved does not stop |
| `NodeLinkTypesCorrect` | `NodeLinkProofs` | `Spec => []TypeOK` |
| `LinkedNodeIsRegistered` | `NodeLinkProofs` | `Spec => []LinkedIsRegistered`, for any machines and disturbances |
| `NodeKnowsItsStatus` | `NodeLinkProofs` | `Spec => []StatusKnown`, likewise |
| `ReloadTypesCorrect` | `ReloadProofs` | `Spec => []TypeOK` |
| `ReloadedConfigIsInEffect` | `ReloadProofs` | `Spec => []ConfigInEffect`, for any handlers, runs and faults |
| `ReloadLeavesOneRun`, `ReloadKeepsTheDevice` | `ReloadProofs` | `Spec => []OneRunIsCurrent`, `Spec => []DeviceIsCurrent` |
| `PeerCacheTypesCorrect` | `PeerCacheProofs` | `Spec => []TypeOK` |
| `CallsReachOnlyByPermission` | `PeerCacheProofs` | `Spec => []CallsWerePermitted`, for any machines, workers, traffic and losses |
| `EndpointsStayPrivate` | `PeerCacheProofs` | `Spec => []EndpointsAreMutual`, likewise |
| `DataPlaneIsAFirewall` | `PeerCacheProofs` | `Spec => ImplementsFirewall`: every step of the server and the nodes is one of the abstract firewall or leaves it alone |
| `NothingIsLeftOver` | `PeerCacheProofs` | `Spec => []NoLeftover`, likewise |
| `EnvelopeRoundTrip`, `EnvelopeIsWhole` | `WireProofs` | `Unmarshal` gives back what `Marshal` wrote, and accepts nothing else |
| `SignedRoundTrip`, `SignatureCoversWhatCame`, `OneMessagePerSignature` | `WireProofs` | what is parsed is what was signed, and a signature fits one message |
| `PeerAnswerRoundTrip`, `ProofInputDeterminesAll` | `WireProofs` | a peer answer survives the wire; the proof is bound to nonce, user, machine and key |

**The registry.** `RegistryProofs` holds lemmas about each operation: its type,
and how its result's entries come from those before. An operation *inherits* if
every entry of the result is one of before, with the same key, owner and
address, and no two come from one. Block, unblock, deny, allow and the grants
inherit; only `RegisterJoin` appends, and only `SetMachineIP` gives an address.

**Types.** `TypeOK` is inductive because it says, with `LocalsOK`, what the
handler at each label relies on: a join is run by `Udp` with a name and a key,
and `assign` comes with an address. One lemma per action.

**No machine outlives its user.** `StoreChanges` reduces a step to what one
operation makes of the registry (`Changed`), or a restart. `NoOrphans` of memory
and disk is then inductive with `TypeOK`: `RegisterJoin` for a known user and
`SetMachineIP` act on what the registry says at that moment, and `Deny` of a
user removes its machines in the same critical section.

**Unique addresses.** `AddressesUnique` alone is not inductive: `Assign` writes
an address picked earlier. The strengthening `AddressInv` adds `PickIsFree`:
whenever a handler stands at `assign`, nobody holds the address in its frame. No
other call gives an address, so only a second handler at `assign` can spoil it,
which `AssignsAlone` excludes and `MCDuplicateAddress` shows. That everything
else may interleave is the reason why a lock around the two calls, and nothing
wider, would do.

**Keys and names.** Neither `OneEntryPerKey` nor `NamesUnique` is inductive: a
join looks for its key among the machines of *one* user, and appends without
looking when the user is new. `IdentityInv` adds that every entry's key is
claimed for the user who owns the entry. `ClaimsKeepUser` says that no key is
claimed for two users; with it the entry that a join looks for is the only one
there can be. Without it both properties are false (section 5). `ReplyInv` then
follows one join through its calls: until the answer, its key has its only entry
under the user and the name that the handler looks it up by, or none at all,
whatever other threads do in between.

**What a handler has read still holds.** With `Alone` nobody changes the
registry between a read and the act on it; a handler's own earlier calls do.
`SoundInv` says in two parts what that takes. `Sound`, of memory and disk: a
pending machine has no address, the machines of a pending user are pending, a
blocked user has no grants. `ReadsHold`: at each label, what the handler has
read and will act on (the status behind `deny`, the grants already revoked
before `block`, the approval before `assign`) is true of the registry as it is
now. Most of what follows from it is false where handlers overlap (section 3).

**Subnets, endpoints and grants.** `SubnetInv` follows a join
from `ensureInSubnet` on: its machine has an address of the present subnet or
none, or there is none to give it; the pins that `allocate` and `assign` carry
are the machine's own. `SpeakerInv` says for whom an endpoint may speak: a join
speaks for a claim, and the endpoint of a name is a node that claimed the name.
With it and unique addresses an endpoint that was right moves only to such a
node; `LookupsHold` says that the address `NotifyApprove`, an answer or a signed
message is about to note is still the one of the machine it was read from, which
is where `Alone` is needed. `GrantsInv`, of memory and disk: the user of a grant
has been approved. Approvals of users are kept by every operation: what denial
deletes is pending, by `ReadsHold`.

**The refinement.** `ServerKeepsTheBook` maps a key to the status and address of
its entry, which `IdentityInv` makes the only one. For each operation one lemma
says what it does to the entries, field by field (`RegistryProofs`: `AllowEffect`,
`BlockEffect`, ...), and one that this is a step of `Membership` or none:
approval of what waits, from `ReadsHold`; an address only to an approved key and
free, from `AddressInv`. Memory and disk are mapped alike, so a save that works
makes `saved` equal to the new book and one that fails leaves it alone; a restart
reads the disk and adds at most the admin user, which changes no machine.

**No join without approval.** `StoreStep` reduces a step to what it makes of the
entry and its copy. `ApprovalInv`: both are coherent (`Coherent`: an address
comes with an approval, a machine does not get further than a user that waits);
and either the machine has been approved in memory and on disk (which lasts: an
approved entry is blocked, not deleted), or it has no address and nothing that would let the node in is in a
channel, under way, or about to be pushed. The disk is what makes it inductive:
an `Allow` whose save failed is taken back by a restart, and no address may
have been given meanwhile.

**The handshake in step.** `LockstepInv`: of a request, a proof and their answers
at most one exists in the network and the channel together, and none unless
`tryJoin` waits for it.

**No stop over an empty address.** `SurvivalInv`: who is approved has an address,
in memory and on disk, and if a message that says "active" without one is
anywhere, or the node has stopped over it, the machine is active or blocked and
was never approved, in memory and on disk, which it then stays: nobody allows a
machine that does not wait. `Approve` sets status and address in one step; the
console does not, nor does a command that fails half-way, hence `Whole`.

**The link.** `EntryInv` says that entries have addresses of their own; that the
lowest free address exists when a node is new is the pigeonhole principle.
`LinkInv` is about the trusted key: a node that trusts the present server has an
entry there, since it has that key from a reply of the present server, and its
own entry of the server is made from no other key than the trusted one, since
the step that changes the one drops the other. `LinkedIsRegistered` alone is not
inductive, as it does not say this of nodes that are just joining. `StatusInv`:
as long as the node has missed no change, the last push on its way carries the
server's status, and with none on its way the node has that status.

**Reload.** Between `d.cfg = cfg` and the start of the run that reads it the two
may differ. `ConfigInv` says when they cannot: no handler is about to cancel or
to make a context, and none has still to start the current run (`Settled`). It
holds however handlers interleave because the new run reads `d.cfg` after it has
become the current one. `OneRunIsCurrent` and `DeviceIsCurrent` speak of
reloads that do not overlap, which the history variable `overlapped` records.

**The data plane.** `Permissions` lifts `CallsWerePermitted` to everything from
which a node learns that it may be called, or where another machine is: answers
under way, channels and caches. What each of them says of the machine *whose
keys it holds* was true once. Answers reach threads that asked about somebody
else, so the same cannot be said of the machine under whose address an entry is
kept; what saves the receiver is that it checks a packet against the keys of the
entry (`Opens`). `Passage` follows the packets: what is on its way to the relay
has been sent, a flow was permitted and used, and what is on its way to a node,
in one of its queues or in the hands of a worker is for somebody else, or may
reach it. Neither is inductive without the other: an endpoint is also learned
from direct packets (`Marked`), before their signature is looked at, and a direct
packet goes where the sender's entry says. Both only ever speak of what was
permitted and sent at some time, so that commands and the end of flows cannot
disturb them (`StaysBacked`).

**The firewall.** Commands permit, `SendTo` sends, a packet that opens in
`HandleData` is heard, whether it has just come or was queued, and everything
else leaves the three variables alone. That a call is heard only when permitted
comes from `Permissions`, since the receiver looks at its entry; that an answer
is heard only after something was sent comes from `Passage`, since the receiver
looks at nothing, and the relay has.

**Answers awaited.** `EveryAnswerAwaited` counts: the queries and answers of a node under way and in
its channel are at most as many as its threads that wait. Each step that takes
one of the first takes one of the second, or none.

**The wire.** `IsEnvelope` and `IsSigned` give the lengths from which the slices
follow. The round trips of addresses assume IPv4, which is what the server hands
on (it listens on `0.0.0.0` and unmaps addresses, `data.go:323`);
`ProofInputDeterminesAll` assumes that nonces have one length, as they come from
one generator, and that no name holds a zero byte, which nothing checks: with
one, a user and a machine could share their bytes otherwise.

**Only model-checked.** The liveness properties `JoinsOnceApproved`,
`RevokedCallsEnd`, `FollowsServer`, `ReloadTakesEffect` and `TrafficReturns`
(fairness is outside what the provers handle). Every other property that a
passing run checks is a theorem, under the assumptions in the table.

## 5. Where code and documentation disagree

Four runs end in a counterexample of something the documentation or a test says.

- `MCDuplicateAddress`: an approval from the console and an admin machine's join
  both pick the lowest free address before either writes it, and two machines
  end up with one address (README: an address "is bound to a machine key and
  cannot be taken over").
- `MCLateReply`: one answer later than the timeout stays in `joinReplyCh`. Every
  later try reads the answer to the one before, a stale challenge or a
  rejection, and the join never succeeds ("The machine joins at once"). A
  duplicated datagram can start the same.
- `MCStalePermission`: the caches of two machines are emptied by the push that
  follows a revocation, and each then stores an answer that it had already been
  sent. If they keep talking directly, every packet renews `lastSeen` of the
  other's entry, nobody asks again, and the revoked machine calls on ("tells
  every machine to refresh its cached policy"; the test "revoke closes the path
  again"). Nothing is lost in this run; the calls end when either side is silent
  for a second.
- `MCReloadUndone`: after a reload to another pin or name, the goroutines of the
  run before still have the old config. Their keep-alives, under an address that
  the machine no longer has, go unanswered, so `serverWatch` joins again, and
  the server moves the machine back (README: "On a node every field takes
  effect"; test "reload moves the machine to the new pin"). The new run then
  falls silent in turn, and the two go on taking the machine from each other.

Six more show in the same models when a property is checked under other
circumstances:

- Blocking an active user blocks its pending machines too, and unblocking makes
  all of them active, approved by nobody and without an address ("Pending
  entries are left untouched"): add a check of `ActiveHasAddress` to
  `MCSequential`. The machine's next join is answered `active` without an
  address, and its daemon stops, by whole commands from the tunnel alone:
  `Whole => pc # "dead"`, in `MCNodeJoin`. A later `allow` of
  it is a grant, and gives no address either.
- `NotifyApprove`, an answer to a join and a signed message each note where an
  address leads in a critical section after the one they have read the address
  in. With a console thread a denial, a move or another machine's approval comes
  in between, and the endpoint noted is that of a node that no longer has the
  address: `EndpointStays` in `MCConsole`.
- A retry answered between `Allow` and `SetMachineIP` of a console approval says
  `active` with no address, which `adoptVPNIP` reports as fatal: the daemon
  stops. `NodeSurvives` without its restriction to commands from the tunnel.
- With a console thread, `State.Deny` deletes a machine that was approved after
  `deny` found it pending, as it does not look at the status again ("Deny removes
  a pending user or machine"): `RemovesOnlyPending` in `MCConsole`.
- A machine that is unblocked while the server does not know its endpoint, just
  after a restart, or whose push is lost, stays silent: nothing but a push
  carries the status to a running node. `StatusKnown` without `missed`.

Others that were met without a run of their own:

- `RegisterJoin` appends without looking for the key when the user of the
  request is unknown (`state.go:469-486`). A machine
  whose config changes to a new `user` gets a second entry under its one key;
  one whose config changes to another known user keeps its entry under the old
  one, while the name is compared with the new user's machines, so that a name
  can occur twice. The answer is then the standing of the entry under the old
  user with the address of whatever machine has that name under the new one
  (`server.go:170-188`): "active" with another machine's address, or with none.
  `OneEntryPerKey`, `NamesUnique` and `ActiveReplyAddressOwned` hold for machines
  that keep their user, as in the instances here; all three fail in
  `MCDuplicateAddress` with one thread and a claim of the first machine, under
  its own name, to a second known user (README: "`user` ... changes are usable
  at once", "the identity is the key").
- A machine that joins under another name loses its grants, which name their
  subject (README: "Grants and blocks use keys, so renaming a machine changes
  nothing"). They stay in the registry (`state.go:494` changes the name alone),
  and the next machine of the user that takes the name has them.
- A run of the node that is cancelled while it waits for approval goes on
  joining. When the approval comes, it creates its TUN device, which replaces
  that of the run that has superseded it, if that one has joined before: one
  approval that reaches both is enough. Both then serve, and the one device is
  the old run's. `DeviceIsCurrent` without `overtaken`, in `MCReload`.
- README says that "a TCP SYN or an ICMP request is a call start, anything else
  is an answer" (`README.md:123`); `isReplyPacket` takes UDP, every other
  protocol, and what is not IPv4 for a new call (`packets.go:3-20`), so that
  where one direction is permitted a UDP service cannot answer.
- The server is an admin machine to the policy, but has no flows: it may call any
  machine, whose answers it drops unless they have a grant toward it
  (`localData`; README: "the other side may only answer").
- Two threads of a node may store the keys of one peer under the address of
  another for a second (README: "one session key per machine pair"), and after
  one answer later than three seconds every lookup reads the answer to the one
  before.
- README says the pin `ip` "applies at first allocation only", while
  `rebindDesired` moves a machine that asks for another pin.
- Blocking a user revokes the user's grants and not those of its machines, which
  are in force again when it is unblocked.
- A grant whose save failed is answered with success on the second try, without
  being saved.
- A machine that is blocked may still ask, and is told the endpoints it would be
  told in good standing (`data.go:147`), in an answer that says it may not call.
- After a reinstall of the server that gives a machine another address, the node
  adopts the address and keeps the device with the old one (`adoptVPNIP`).
- Any datagram, direct ones of other machines included, counts as a sign of the
  server (`data.go:43`): with steady traffic a node does not notice that the
  server is gone or has another key. `FollowsServer` bounds that traffic.
- `ipEndpoints` keeps the endpoint of whoever used an address last
  (`server.go:112`, `data.go:323`; nothing deletes one). When an address that
  has become free is given to another machine, what is sent to it goes to the
  machine that held it before, sealed for the new one's key, until the new one
  sends its first datagram. `handleJoinRequest` remembers the endpoint of a name
  before the node has proven anything, so the approval pushed to a name goes to
  whoever asked for it last (`server.go:112`, `200`).
- `selfBlocked` belongs to the process and not to the run: a machine that is
  blocked and reloads with the config of a user in good standing stays silent
  until the next push.
- The node takes its address to be in a /24, whatever the server's prefix;
  `validateServer` accepts an IPv6 subnet, for which `As4` panics.

## 6. What is not modelled

- *Cryptography*: a signature or a proof is as good as its key; passwords are
  right or wrong; a nonce never comes twice.
- *Times*: last-seen, joined-at and the online status for `nz list`; the timers
  of the node appear as the actions that they trigger.
- *Views*: `nz list` and the machine list change nothing.
- *The trusted flag*, which nothing sets, and fingerprints.
- *Reload on a server*: only the admin's password can change (`SetConfig`,
  `SetVerifier`), and a password is right or wrong here.
- *JSON bodies, ciphers and hashes* of the wire format: `Seal` and `Open`,
  Ed25519, HMAC and Argon2id are as good as their keys.
- *Devices and sockets*: `tun`, `ipc`, `service`, `cmd/nz`, `logx`: pure input
  and output, whose failures appear as failures of the steps that use them.
- *The mobile app*, whose client speaks an older protocol.
- In `NodeJoin`: machines of the admin (approved in the join itself), changes of
  address and subnet on a rejoin (`NodeLink` has them), and a second node under
  the same name. A command other than an approval from the console is one step,
  so a denial that races an approval is not in it; `ControlPlane` has the
  registry in full.
- In `NodeLink`: approval (all machines are the admin's), a change of the subnet,
  and the loss of single keep-alives, which the next one makes good.
- In `Reload`: datagrams, the second machine, a pin that somebody else holds.
- In `Relay` and `PeerCache`: the server as a peer (`NodeLink` has the entry for
  it), endpoints the server does not know, hole punching (`Direct` says where it
  works), duplicated datagrams, torn reads of an entry that another goroutine is
  writing, and unregistered addresses.
- *Admin commands from a node*: `adminReplyCh` and `listReplyCh` have no numbers,
  like `joinReplyCh`, and their answers are only shown to the user.
- *Subnets inside each other*: those of the models are disjoint.

## 7. The plan

Done: `Registry`, `ControlPlane` and `Membership`; `NodeJoin`; `Relay` and
`PeerCache`; `NodeLink`; `Reload`; `Wire`; and the theorems of section 4.

What is left, in this order:

1. The server as a peer in `Relay`, with `localData` and `sendLocalData`, behind
   the same `Firewall`.
2. An abstract specification of the link (`NodeLink`): a node trusts one server
   at a time and works under the address that this server has given it.
