------------------------------- MODULE Reload -------------------------------
(***************************************************************************)
(* The daemon of a node (internal/daemon/daemon.go): `nz reload` cancels   *)
(* the running node.Run and starts another one with the new config.        *)
(*                                                                         *)
(* Requests on the admin socket are served by a goroutine each, and        *)
(* nothing locks the daemon's fields, so two reloads interleave at every   *)
(* access to d.cfg and d.nodeCancel.  A cancelled Run leaves its loops     *)
(* only where it looks at the context: while it connects, and once it      *)
(* serves.  It never looks while it joins, and the goroutines it has       *)
(* started (readFromUDP, keepAliveLoop, serverWatch) go on for the life of *)
(* the process: nobody closes their socket or their tickers.               *)
(*                                                                         *)
(* All runs have the machine's one key.  What a join makes of the server's *)
(* entry for it is what ControlPlane says of one machine: RegisterJoin     *)
(* renames it and notes the pin, rebindDesired moves it to the pin.  A try *)
(* to join is one step here; its datagrams are in NodeJoin.  Pins are      *)
(* free, and an approval reaches a run by its next try.                    *)
(***************************************************************************)
EXTENDS Naturals, FiniteSets

CONSTANTS
  Config,     \* the contents the config file may have
  Valid,      \* those that Validate and checkReloadable let pass on this node
  Resolves,   \* those whose domain can be resolved
  NameOf,     \* the machine name in a config
  PinOf,      \* the pinned address in a config, or NoAddress
  Address,
  NoAddress,
  NoConfig,
  Handler,    \* connections to the admin socket
  MaxRuns,    \* bound: runs of the node
  MaxEdits,   \* bound: edits of the config file
  MaxOutages, \* bound: times the server goes down
  MaxFaults   \* bound: failures to create the TUN device

ASSUME ConfigsAreTyped ==
  /\ Valid \subseteq Config
  /\ Resolves \subseteq Valid
  /\ NoAddress \notin Address
  /\ NoConfig \notin Config
  /\ PinOf \in [Config -> Address \cup {NoAddress}]
  /\ DOMAIN NameOf = Config
ASSUME BoundsAreNumbers ==
  /\ MaxRuns \in Nat \ {0}
  /\ {MaxEdits, MaxOutages, MaxFaults} \subseteq Nat

VARIABLES
  file,        \* config.json
  cfg,         \* d.cfg
  nodeCancel,  \* the run that d.nodeCancel cancels
  handler,     \* per connection: where handleReload stands, and its locals
  run,         \* the runs of the node
  device,      \* the run that holds the TUN device, or NoRun
  alive,       \* is the daemon's process running?
  entry,       \* the server's entry for the machine's key
  endpoint,    \* ipEndpoints: the run whose socket an address leads to
  up,          \* does the server answer?
  silent,      \* runs that have not heard from the server for 15 seconds
  edits, outages, failures,  \* how many there have been
  overlapped,  \* history: have two reloads run at the same time?
  overtaken    \* history: the runs cancelled before they had joined

daemon == <<file, cfg, nodeCancel, handler>>
server == <<entry, endpoint, up>>
counts == <<edits, outages, failures>>
history == <<overlapped, overtaken>>
vars == <<daemon, run, device, alive, server, silent, counts, history>>

Run == 1 .. MaxRuns
NoRun == 0

\* The life of a run; gone is the end of its process.
Phase == {"none", "connecting", "joining", "serving", "returned", "gone"}

\* joined: the run has created its device and started its goroutines.
RunRecord == [phase: Phase, cfg: Config, cancelled: BOOLEAN, joined: BOOLEAN,
              addr: Address \cup {NoAddress}]

Idle == [step |-> "idle", loaded |-> NoConfig, new |-> NoRun]

Init ==
  /\ file \in Valid
  /\ cfg = file
  /\ nodeCancel = 1
  /\ handler = [h \in Handler |-> Idle]
  /\ run = [i \in Run |-> [phase |-> IF i = 1 THEN "connecting" ELSE "none",
                           cfg |-> file, cancelled |-> FALSE, joined |-> FALSE,
                           addr |-> NoAddress]]
  /\ device = NoRun
  /\ alive = TRUE
  /\ entry = [name |-> NameOf[file], pin |-> PinOf[file], addr |-> NoAddress,
              active |-> FALSE]
  /\ endpoint = [a \in Address |-> NoRun]
  /\ up = TRUE
  /\ silent = {}
  /\ edits = 0 /\ outages = 0 /\ failures = 0
  /\ overlapped = FALSE
  /\ overtaken = {}

-----------------------------------------------------------------------------
(* handleReload. *)

Busy == {h \in Handler : handler[h].step # "idle"}

Unused == {i \in Run : run[i].phase = "none" /\ \A h \in Handler : handler[h].new # i}

EditConfig(c) ==
  /\ edits < MaxEdits
  /\ c # file
  /\ file' = c
  /\ edits' = edits + 1
  /\ UNCHANGED <<cfg, nodeCancel, handler, run, device, alive, server, silent,
                 outages, failures, history>>

\* Mutant: the config is not checked.
LoadUnchecked(h) ==
  /\ alive
  /\ handler[h].step = "idle"
  /\ Cardinality(Busy) < Cardinality(Unused)
  /\ handler' = [handler EXCEPT ![h] = [step |-> "apply", loaded |-> file, new |-> NoRun]]
  /\ overlapped' = (overlapped \/ Busy # {})
  /\ UNCHANGED <<file, cfg, nodeCancel, run, device, alive, server, silent, counts,
                 overtaken>>

\* Load and check; a config that does not pass leaves everything as it is.
LoadConfig(h) ==
  /\ alive
  /\ handler[h].step = "idle"
  /\ Cardinality(Busy) < Cardinality(Unused)
  /\ file \in Valid
  /\ handler' = [handler EXCEPT ![h] = [step |-> "apply", loaded |-> file, new |-> NoRun]]
  /\ overlapped' = (overlapped \/ Busy # {})
  /\ UNCHANGED <<file, cfg, nodeCancel, run, device, alive, server, silent, counts,
                 overtaken>>

\* d.cfg = cfg
ApplyConfig(h) ==
  /\ handler[h].step = "apply"
  /\ cfg' = handler[h].loaded
  /\ handler' = [handler EXCEPT ![h].step = "cancel"]
  /\ UNCHANGED <<file, nodeCancel, run, device, alive, server, silent, counts, history>>

\* Mutant: the running node is not cancelled.
CancelNothing(h) ==
  /\ handler[h].step = "cancel"
  /\ overtaken' = IF run[nodeCancel].joined THEN overtaken ELSE overtaken \cup {nodeCancel}
  /\ handler' = [handler EXCEPT ![h].step = "context"]
  /\ UNCHANGED <<file, cfg, nodeCancel, run, device, alive, server, silent, counts, overlapped>>

\* d.nodeCancel()
CancelNode(h) ==
  /\ handler[h].step = "cancel"
  /\ run' = [run EXCEPT ![nodeCancel].cancelled = TRUE]
  /\ overtaken' = IF run[nodeCancel].joined THEN overtaken ELSE overtaken \cup {nodeCancel}
  /\ handler' = [handler EXCEPT ![h].step = "context"]
  /\ UNCHANGED <<file, cfg, nodeCancel, device, alive, server, silent, counts, overlapped>>

\* startNode: d.nodeCancel = cancel
MakeContext(h) ==
  /\ handler[h].step = "context"
  /\ \E i \in Unused :
       /\ \A j \in Unused : i <= j
       /\ nodeCancel' = i
       /\ handler' = [handler EXCEPT ![h].step = "spawn", ![h].new = i]
  /\ UNCHANGED <<file, cfg, run, device, alive, server, silent, counts, history>>

\* Mutant: the run gets the config that this reload has loaded.
SpawnLoaded(h) ==
  /\ handler[h].step = "spawn"
  /\ run' = [run EXCEPT ![handler[h].new].phase = "connecting",
                        ![handler[h].new].cfg = handler[h].loaded]
  /\ handler' = [handler EXCEPT ![h] = Idle]
  /\ UNCHANGED <<file, cfg, nodeCancel, device, alive, server, silent, counts, history>>

\* startNode: cfg := d.cfg and go node.Run
SpawnNode(h) ==
  /\ handler[h].step = "spawn"
  /\ run' = [run EXCEPT ![handler[h].new].phase = "connecting",
                        ![handler[h].new].cfg = cfg]
  /\ handler' = [handler EXCEPT ![h] = Idle]
  /\ UNCHANGED <<file, cfg, nodeCancel, device, alive, server, silent, counts, history>>

HandleReload(h) ==
  LoadConfig(h) \/ ApplyConfig(h) \/ CancelNode(h) \/ MakeContext(h) \/ SpawnNode(h)

-----------------------------------------------------------------------------
(* node.Run. *)

\* connect fails as long as the server's name does not resolve; only between
\* its tries does Run look at the context.
Connect(i) ==
  /\ run[i].phase = "connecting"
  /\ \/ run[i].cfg \in Resolves /\ run' = [run EXCEPT ![i].phase = "joining"]
     \/ /\ run[i].cfg \notin Resolves
        /\ run[i].cancelled
        /\ run' = [run EXCEPT ![i].phase = "returned"]
  /\ UNCHANGED <<daemon, device, alive, server, silent, counts, history>>

\* RegisterJoin and rebindDesired: the entry is found by its key.
Registered(c) ==
  [entry EXCEPT !.name = NameOf[c],
                !.pin  = IF PinOf[c] # NoAddress THEN PinOf[c] ELSE @,
                !.addr = IF entry.active /\ PinOf[c] # NoAddress THEN PinOf[c] ELSE @]

\* sendJoinReply: the address leads to the socket the join came from.
RememberJoin(i, e) ==
  endpoint' = IF e.addr = NoAddress THEN endpoint ELSE [endpoint EXCEPT ![e.addr] = i]

\* Mutant: a run whose machine waits for approval gives up.
JoinOnce(i) ==
  /\ run[i].phase = "joining"
  /\ up
  /\ LET e == Registered(run[i].cfg)
     IN /\ entry' = e
        /\ RememberJoin(i, e)
        /\ IF e.active
           THEN /\ run' = [run EXCEPT ![i].phase = "serving", ![i].joined = TRUE,
                                      ![i].addr = e.addr]
                /\ device' = i
           ELSE run' = [run EXCEPT ![i].phase = "returned"] /\ UNCHANGED device
  /\ UNCHANGED <<daemon, alive, up, silent, counts, history>>

\* tryJoin of a run that has not joined: active, it creates its device, which
\* deletes the one that was there; pending, it tries again.
Join(i) ==
  /\ run[i].phase = "joining"
  /\ up
  /\ LET e == Registered(run[i].cfg)
     IN /\ entry' = e
        /\ RememberJoin(i, e)
        /\ IF e.active
           THEN /\ run' = [run EXCEPT ![i].phase = "serving", ![i].joined = TRUE,
                                      ![i].addr = e.addr]
                /\ device' = i
           ELSE UNCHANGED <<run, device>>
  /\ UNCHANGED <<daemon, alive, up, silent, counts, history>>

\* The process ends, and with it its goroutines and its device.
Exit ==
  /\ alive' = FALSE
  /\ run' = [i \in Run |-> [run[i] EXCEPT !.phase = IF i \in Unused THEN "none" ELSE "gone"]]
  /\ device' = NoRun
  /\ handler' = [h \in Handler |-> Idle]
  /\ silent' = {}

\* tun.Create fails: a fatal error of a run, superseded or not, stops the daemon.
FailJoin(i) ==
  /\ run[i].phase = "joining"
  /\ up /\ entry.active
  /\ failures < MaxFaults
  /\ failures' = failures + 1
  /\ entry' = Registered(run[i].cfg)
  /\ RememberJoin(i, entry')
  /\ Exit
  /\ UNCHANGED <<file, cfg, nodeCancel, up, edits, outages, history>>

\* The service manager starts the daemon again.
StartDaemon ==
  /\ ~ alive
  /\ file \in Valid
  /\ \E i \in Unused :
       /\ \A j \in Unused : i <= j
       /\ run' = [run EXCEPT ![i].phase = "connecting", ![i].cfg = file]
       /\ nodeCancel' = i
  /\ cfg' = file
  /\ alive' = TRUE
  /\ UNCHANGED <<file, handler, device, server, silent, counts, history>>

\* serve returns; the goroutines it has started do not.
Return(i) ==
  /\ run[i].phase = "serving"
  /\ run[i].cancelled
  /\ run' = [run EXCEPT ![i].phase = "returned"]
  /\ UNCHANGED <<daemon, device, alive, server, silent, counts, history>>

-----------------------------------------------------------------------------
(* The goroutines of a run that has joined. *)

Lives(i) == run[i].joined /\ run[i].phase \in {"serving", "returned"}

\* A keep-alive that the server answers.
Reaches(i) == up /\ run[i].addr = entry.addr

\* Mutant: only a join tells the server where the address leads.
KeepAliveOnly(i) ==
  /\ Lives(i) /\ Reaches(i)
  /\ silent' = silent \ {i}
  /\ UNCHANGED <<daemon, run, device, alive, server, counts, history>>

\* Every five seconds; the server remembers the socket it comes from.
KeepAlive(i) ==
  /\ Lives(i) /\ Reaches(i)
  /\ endpoint' = [endpoint EXCEPT ![run[i].addr] = i]
  /\ silent' = silent \ {i}
  /\ UNCHANGED <<daemon, run, device, alive, entry, up, counts, history>>

\* Fifteen seconds without an answer.
Silence(i) ==
  /\ Lives(i) /\ ~ Reaches(i)
  /\ i \notin silent
  /\ silent' = silent \cup {i}
  /\ UNCHANGED <<daemon, run, device, alive, server, counts, history>>

\* Mutant: a rejoin that creates the device again.
RejoinAnew(i) ==
  /\ i \in silent /\ up
  /\ entry' = Registered(run[i].cfg)
  /\ RememberJoin(i, entry')
  /\ run' = [run EXCEPT ![i].addr = entry'.addr]
  /\ device' = i
  /\ silent' = silent \ {i}
  /\ UNCHANGED <<daemon, alive, up, counts, history>>

\* serverWatch joins again, with the config of its run; the device stays.
Rejoin(i) ==
  /\ i \in silent /\ up
  /\ entry' = Registered(run[i].cfg)
  /\ RememberJoin(i, entry')
  /\ run' = [run EXCEPT ![i].addr = entry'.addr]
  /\ silent' = silent \ {i}
  /\ UNCHANGED <<daemon, device, alive, up, counts, history>>

-----------------------------------------------------------------------------
(* The server. *)

\* allow: the address is the pin of the last join, or a free one.
Approve ==
  /\ ~ entry.active
  /\ \E a \in Address :
       /\ entry.pin \in {a, NoAddress}
       /\ entry' = [entry EXCEPT !.active = TRUE, !.addr = a]
  /\ UNCHANGED <<daemon, run, device, alive, endpoint, up, silent, counts, history>>

ServerDown ==
  /\ up
  /\ outages < MaxOutages
  /\ up' = FALSE
  /\ outages' = outages + 1
  /\ UNCHANGED <<daemon, run, device, alive, entry, endpoint, silent, edits, failures, history>>

\* The server starts from its state.json, without endpoints.
ServerUp ==
  /\ ~ up
  /\ up' = TRUE
  /\ endpoint' = [a \in Address |-> NoRun]
  /\ UNCHANGED <<daemon, run, device, alive, entry, silent, counts, history>>

-----------------------------------------------------------------------------
RunNext(i) ==
  \/ Connect(i) \/ Join(i) \/ FailJoin(i) \/ Return(i)
  \/ KeepAlive(i) \/ Silence(i) \/ Rejoin(i)

Next ==
  \/ \E c \in Config : EditConfig(c)
  \/ \E h \in Handler : HandleReload(h)
  \/ \E i \in Run : RunNext(i)
  \/ StartDaemon \/ Approve \/ ServerDown \/ ServerUp

\* Goroutines run, the service manager starts the daemon again, and an outage
\* ends.  Nobody has to edit, reload or approve.
Fairness ==
  /\ \A h \in Handler :
       WF_vars(ApplyConfig(h) \/ CancelNode(h) \/ MakeContext(h) \/ SpawnNode(h))
  /\ \A i \in Run : WF_vars(Connect(i)) /\ WF_vars(Join(i))
                    /\ WF_vars(Return(i)) /\ WF_vars(Rejoin(i))
                    /\ WF_vars(KeepAlive(i) \/ Silence(i))
  /\ WF_vars(StartDaemon)
  /\ WF_vars(ServerUp)

Spec == Init /\ [][Next]_vars /\ Fairness

-----------------------------------------------------------------------------
(* Correctness. *)

\* A handler that is under way has a config, and one about to start a run has
\* its context.
HandlerRecord ==
  {Idle}
  \cup [step: {"apply", "cancel", "context"}, loaded: Valid, new: {NoRun}]
  \cup [step: {"spawn"}, loaded: Valid, new: Run]

Entry == [name: {NameOf[c] : c \in Config}, pin: Address \cup {NoAddress},
          addr: Address \cup {NoAddress}, active: BOOLEAN]

\* Type correctness.  The daemon's config is always one that Validate and
\* checkReloadable have let pass, whatever the file holds (handleReload).
TypeOK ==
  /\ file \in Config
  /\ cfg \in Valid
  /\ nodeCancel \in Run
  /\ handler \in [Handler -> HandlerRecord]
  /\ run \in [Run -> RunRecord]
  /\ device \in Run \cup {NoRun}
  /\ alive \in BOOLEAN
  /\ entry \in Entry
  /\ endpoint \in [Address -> Run \cup {NoRun}]
  /\ up \in BOOLEAN
  /\ silent \subseteq Run
  /\ edits \in 0 .. MaxEdits
  /\ outages \in 0 .. MaxOutages
  /\ failures \in 0 .. MaxFaults
  /\ overlapped \in BOOLEAN
  /\ overtaken \subseteq Run

\* README, Hot Reload Rules: "The tunnel restarts with the new config".  However
\* reloads interleave, when no handler is under way the run that the next
\* reload would cancel is the one that was started with the daemon's config.
ConfigInEffect ==
  alive /\ Busy = {} => run[nodeCancel].cfg = cfg

\* Between two reloads at most one run goes on: every other one has been
\* cancelled, unless two reloads ran at the same time and both cancelled the
\* same run.
OneRunIsCurrent ==
  ~ overlapped =>
    \A i \in Run : run[i].phase \in {"connecting", "joining", "serving"} =>
                     i = nodeCancel \/ run[i].cancelled

\* The current run keeps its device: none that it supersedes takes it away,
\* unless that one had not joined yet when it was cancelled.
DeviceIsCurrent ==
  ~ overlapped /\ overtaken = {} =>
    (run[nodeCancel].phase = "serving" => device = nodeCancel)

\* A run that goes on serving gets the machine's traffic again and again: the
\* runs it has superseded send keep-alives from their sockets, too, and take
\* the endpoint away, but never for good.
TrafficReturns ==
  \A i \in Run :
    <>[](run[i].phase = "serving" /\ i = nodeCancel) =>
      []<>(entry.addr # NoAddress /\ endpoint[entry.addr] = i)

\* The server has the machine as the daemon's config says.
InEffect ==
  /\ entry.active
  /\ entry.name = NameOf[cfg]
  /\ PinOf[cfg] \in {entry.addr, NoAddress}

\* The run of a config serves, and has the device unless a reload has overtaken
\* a join or another reload.
Served(c) ==
  /\ run[nodeCancel].cfg = c
  /\ run[nodeCancel].phase = "serving"
  /\ ~ overlapped /\ overtaken = {} => device = nodeCancel

\* README, Hot Reload Rules: "The tunnel restarts with the new config".  A config
\* that stays, whose server can be found and whose machine is approved, comes to
\* be served, and at its join the server takes its name and its pin.  That they
\* stay is not said here: NeverUndone is about that, and does not hold.
ReloadTakesEffect ==
  \A c \in Resolves :
    <>[](alive /\ cfg = c /\ entry.active) => <>[]Served(c) /\ <>(cfg = c /\ InEffect)

\* t-reload.sh: "reload moves the machine to the new pin" and "rename applies
\* through reload".  What a reload has brought into effect stays in effect
\* until the next one, even when no two reloads were under way together.
NeverUndone ==
  [][~ overlapped /\ overtaken = {} /\ InEffect /\ cfg' = cfg => InEffect']_vars
=============================================================================
