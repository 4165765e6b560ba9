---------------------------- MODULE ReloadProofs ----------------------------
(***************************************************************************)
(* Theorems of Reload, for any configs, handlers, runs and numbers of      *)
(* edits, outages and failures.                                            *)
(***************************************************************************)
EXTENDS Reload, TLAPS

USE DEF NoRun

-----------------------------------------------------------------------------
(* Types. *)

LEMMA InitTypes == Init => TypeOK
<1> SUFFICES ASSUME Init PROVE TypeOK
  OBVIOUS
<1> USE ConfigsAreTyped, BoundsAreNumbers
<1>1. 1 \in Run
  BY DEF Run
<1>2. handler \in [Handler -> HandlerRecord]
  BY DEF Init, HandlerRecord
<1>3. run \in [Run -> RunRecord]
  BY DEF Init, RunRecord, Phase
<1>4. entry \in Entry
  BY DEF Init, Entry
<1>5. endpoint \in [Address -> Run \cup {NoRun}]
  BY DEF Init
<1>6. edits \in 0 .. MaxEdits /\ outages \in 0 .. MaxOutages /\ failures \in 0 .. MaxFaults
  <2>1. MaxEdits \in Nat /\ MaxOutages \in Nat /\ MaxFaults \in Nat
    OBVIOUS
  <2> QED
    BY <2>1 DEF Init
<1>7. file \in Config /\ cfg \in Valid /\ nodeCancel \in Run /\ alive \in BOOLEAN
      /\ device \in Run \cup {NoRun} /\ up \in BOOLEAN /\ silent \subseteq Run
      /\ overlapped \in BOOLEAN /\ overtaken \subseteq Run
  BY <1>1 DEF Init
<1> QED
  BY <1>2, <1>3, <1>4, <1>5, <1>6, <1>7 DEF TypeOK

\* What a join makes of the entry is an entry.
LEMMA RegisteredType ==
  ASSUME NEW c \in Config, entry \in Entry
  PROVE  Registered(c) \in Entry
BY ConfigsAreTyped DEF Registered, Entry

LEMMA RememberType ==
  ASSUME NEW i \in Run, NEW e \in Entry, endpoint \in [Address -> Run \cup {NoRun}],
         RememberJoin(i, e)
  PROVE  endpoint' \in [Address -> Run \cup {NoRun}]
BY DEF RememberJoin, Entry

\* The steps of a handler, and the edit of the file.
LEMMA HandlerTypes ==
  ASSUME TypeOK, NEW h \in Handler, HandleReload(h)
  PROVE  TypeOK'
<1> USE ConfigsAreTyped DEF TypeOK
<1>h. handler[h] \in HandlerRecord
  OBVIOUS
<1>1. CASE LoadConfig(h)
  <2>1. handler' \in [Handler -> HandlerRecord]
    BY <1>1 DEF LoadConfig, HandlerRecord
  <2> QED
    BY <1>1, <2>1 DEF LoadConfig, server, counts
<1>2. CASE ApplyConfig(h)
  <2>1. /\ handler[h] \in [step: {"apply", "cancel", "context"}, loaded: Valid, new: {NoRun}]
        /\ handler[h].loaded \in Valid
    BY <1>2, <1>h DEF ApplyConfig, HandlerRecord, Idle
  <2>2. handler' \in [Handler -> HandlerRecord]
    BY <1>2, <2>1 DEF ApplyConfig, HandlerRecord
  <2> QED
    BY <1>2, <2>1, <2>2 DEF ApplyConfig, server, counts, history
<1>3. CASE CancelNode(h)
  <2>1. handler[h] \in [step: {"apply", "cancel", "context"}, loaded: Valid, new: {NoRun}]
    BY <1>3, <1>h DEF CancelNode, HandlerRecord, Idle
  <2>2. handler' \in [Handler -> HandlerRecord]
    BY <1>3, <2>1 DEF CancelNode, HandlerRecord
  <2>3. run' \in [Run -> RunRecord]
    BY <1>3 DEF CancelNode, RunRecord
  <2>4. overtaken' \subseteq Run
    BY <1>3 DEF CancelNode
  <2> QED
    BY <1>3, <2>2, <2>3, <2>4 DEF CancelNode, server, counts
<1>4. CASE MakeContext(h)
  <2>1. handler[h] \in [step: {"apply", "cancel", "context"}, loaded: Valid, new: {NoRun}]
    BY <1>4, <1>h DEF MakeContext, HandlerRecord, Idle
  <2>2. PICK i \in Unused :
          nodeCancel' = i /\ handler' = [handler EXCEPT ![h].step = "spawn", ![h].new = i]
    BY <1>4 DEF MakeContext
  <2>3. i \in Run
    BY DEF Unused
  <2>4. handler' \in [Handler -> HandlerRecord]
    BY <2>1, <2>2, <2>3 DEF HandlerRecord
  <2> QED
    BY <1>4, <2>2, <2>3, <2>4 DEF MakeContext, server, counts, history
<1>5. CASE SpawnNode(h)
  <2>1. handler[h].new \in Run
    BY <1>5, <1>h DEF SpawnNode, HandlerRecord, Idle
  <2>2. handler' \in [Handler -> HandlerRecord]
    BY <1>5 DEF SpawnNode, HandlerRecord
  <2>3. run' \in [Run -> RunRecord]
    BY <1>5, <2>1 DEF SpawnNode, RunRecord, Phase
  <2> QED
    BY <1>5, <2>2, <2>3 DEF SpawnNode, server, counts, history
<1> QED
  BY <1>1, <1>2, <1>3, <1>4, <1>5 DEF HandleReload

LEMMA EditTypes ==
  ASSUME TypeOK, NEW c \in Config, EditConfig(c)
  PROVE  TypeOK'
BY BoundsAreNumbers DEF EditConfig, TypeOK, server, history

\* The steps of a run.
LEMMA RunTypes ==
  ASSUME TypeOK, NEW i \in Run, RunNext(i)
  PROVE  TypeOK'
<1> USE ConfigsAreTyped DEF TypeOK
<1>c. run[i] \in RunRecord /\ run[i].cfg \in Config
  BY DEF RunRecord
<1>e. Registered(run[i].cfg) \in Entry
  BY <1>c, RegisteredType
<1>1. CASE Connect(i)
  <2>1. run' \in [Run -> RunRecord]
    BY <1>1 DEF Connect, RunRecord, Phase
  <2> QED
    BY <1>1, <2>1 DEF Connect, daemon, server, counts, history
<1>2. CASE Join(i)
  <2> DEFINE e == Registered(run[i].cfg)
  <2>1. entry' = e /\ RememberJoin(i, e)
    BY <1>2 DEF Join
  <2>2. entry' \in Entry
    BY <2>1, <1>e
  <2>3. endpoint' \in [Address -> Run \cup {NoRun}]
    <3> HIDE DEF e
    <3> QED
      BY <2>1, <2>2, RememberType
  <2>4. run' \in [Run -> RunRecord] /\ device' \in Run \cup {NoRun}
    <3>1. e.addr \in Address \cup {NoAddress}
      BY <1>e DEF Entry
    <3> QED
      BY <1>2, <3>1 DEF Join, RunRecord, Phase
  <2> QED
    BY <1>2, <2>2, <2>3, <2>4 DEF Join, daemon, counts, history
<1>3. CASE FailJoin(i)
  <2>1. entry' \in Entry /\ RememberJoin(i, entry')
    BY <1>3, <1>e DEF FailJoin
  <2>2. endpoint' \in [Address -> Run \cup {NoRun}]
    BY <2>1, RememberType
  <2>3. run' \in [Run -> RunRecord]
    <3>1. run' = [j \in Run |-> [run[j] EXCEPT !.phase = IF j \in Unused THEN "none" ELSE "gone"]]
      BY <1>3 DEF FailJoin, Exit
    <3>2. ASSUME NEW j \in Run, NEW p \in Phase PROVE [run[j] EXCEPT !.phase = p] \in RunRecord
      BY DEF RunRecord
    <3>3. {"none", "gone"} \subseteq Phase
      BY DEF Phase
    <3> QED
      BY <3>1, <3>2, <3>3
  <2>4. handler' \in [Handler -> HandlerRecord]
    BY <1>3 DEF FailJoin, Exit, HandlerRecord
  <2>5. failures' \in 0 .. MaxFaults
    BY <1>3, BoundsAreNumbers DEF FailJoin
  <2> QED
    BY <1>3, <2>1, <2>2, <2>3, <2>4, <2>5 DEF FailJoin, Exit, history
<1>4. CASE Return(i)
  <2>1. run' \in [Run -> RunRecord]
    BY <1>4 DEF Return, RunRecord, Phase
  <2> QED
    BY <1>4, <2>1 DEF Return, daemon, server, counts, history
<1>5. CASE KeepAlive(i)
  <2>1. endpoint' \in [Address -> Run \cup {NoRun}]
    BY <1>5 DEF KeepAlive
  <2> QED
    BY <1>5, <2>1 DEF KeepAlive, daemon, counts, history
<1>6. CASE Silence(i)
  BY <1>6 DEF Silence, daemon, server, counts, history
<1>7. CASE Rejoin(i)
  <2>1. entry' \in Entry /\ RememberJoin(i, entry')
    BY <1>7, <1>e DEF Rejoin
  <2>2. endpoint' \in [Address -> Run \cup {NoRun}]
    BY <2>1, RememberType
  <2>3. entry'.addr \in Address \cup {NoAddress}
    BY <2>1 DEF Entry
  <2>4. run' \in [Run -> RunRecord]
    BY <1>7, <2>3 DEF Rejoin, RunRecord
  <2> QED
    BY <1>7, <2>1, <2>2, <2>4 DEF Rejoin, daemon, counts, history
<1> QED
  BY <1>1, <1>2, <1>3, <1>4, <1>5, <1>6, <1>7 DEF RunNext

\* The service manager, the admins and the server's host.
LEMMA OutsideTypes ==
  ASSUME TypeOK, StartDaemon \/ Approve \/ ServerDown \/ ServerUp
  PROVE  TypeOK'
<1> USE ConfigsAreTyped DEF TypeOK
<1>1. CASE StartDaemon
  <2>1. PICK i \in Unused :
          /\ run' = [run EXCEPT ![i].phase = "connecting", ![i].cfg = file]
          /\ nodeCancel' = i
    BY <1>1 DEF StartDaemon
  <2>2. i \in Run
    BY DEF Unused
  <2>3. run' \in [Run -> RunRecord]
    <3>1. file \in Config /\ "connecting" \in Phase
      BY DEF Phase
    <3>2. [[run[i] EXCEPT !.phase = "connecting"] EXCEPT !.cfg = file] \in RunRecord
      BY <2>2, <3>1 DEF RunRecord
    <3> QED
      BY <2>1, <2>2, <3>2
  <2> QED
    BY <1>1, <2>1, <2>2, <2>3 DEF StartDaemon, server, counts, history
<1>2. CASE Approve
  <2>1. PICK a \in Address : entry' = [entry EXCEPT !.active = TRUE, !.addr = a]
    BY <1>2 DEF Approve
  <2>2. entry' \in Entry
    BY <2>1 DEF Entry
  <2> QED
    BY <1>2, <2>2 DEF Approve, daemon, counts, history
<1>3. CASE ServerDown
  <2>1. outages' \in 0 .. MaxOutages
    BY <1>3, BoundsAreNumbers DEF ServerDown
  <2> QED
    BY <1>3, <2>1 DEF ServerDown, daemon, history
<1>4. CASE ServerUp
  BY <1>4 DEF ServerUp, daemon, counts, history
<1> QED
  BY <1>1, <1>2, <1>3, <1>4

LEMMA StutterTypes == TypeOK /\ UNCHANGED vars => TypeOK'
BY DEF TypeOK, vars, daemon, server, counts, history

\* Whatever the handlers, runs and failures, every variable keeps its type,
\* and the daemon's config has passed the checks of handleReload.
THEOREM ReloadTypesCorrect == Spec => []TypeOK
<1>1. TypeOK /\ [Next]_vars => TypeOK'
  BY HandlerTypes, EditTypes, RunTypes, OutsideTypes, StutterTypes DEF Next
<1> QED
  BY InitTypes, <1>1, PTL DEF Spec

-----------------------------------------------------------------------------
(* The config in effect.  Between d.cfg = cfg and the start of the run that   *)
(* reads it, the current run may have an older config; the invariant says in  *)
(* which states it cannot: no handler is about to cancel or to make a         *)
(* context, and none has still to start the current run.                      *)

Settled ==
  \A h \in Handler :
    /\ handler[h].step \notin {"cancel", "context"}
    /\ handler[h].step = "spawn" => handler[h].new # nodeCancel

ConfigInv == alive /\ Settled => run[nodeCancel].cfg = cfg

LEMMA HandlerKeepsConfig ==
  ASSUME TypeOK, ConfigInv, NEW h \in Handler, HandleReload(h)
  PROVE  ConfigInv'
<1> USE DEF TypeOK
<1>h. handler \in [Handler -> HandlerRecord] /\ handler[h] \in HandlerRecord
  OBVIOUS
<1>1. CASE LoadConfig(h)
  <2>1. Settled' => Settled
    BY <1>1 DEF LoadConfig, Settled
  <2> QED
    BY <1>1, <2>1 DEF LoadConfig, ConfigInv
<1>2. CASE ApplyConfig(h)
  <2>1. handler'[h].step = "cancel"
    BY <1>2, <1>h DEF ApplyConfig, HandlerRecord, Idle
  <2> QED
    BY <2>1 DEF ConfigInv, Settled
<1>3. CASE CancelNode(h)
  <2>1. handler'[h].step = "context"
    BY <1>3, <1>h DEF CancelNode, HandlerRecord, Idle
  <2> QED
    BY <2>1 DEF ConfigInv, Settled
<1>4. CASE MakeContext(h)
  <2>1. handler'[h].step = "spawn" /\ handler'[h].new = nodeCancel'
    BY <1>4, <1>h DEF MakeContext, HandlerRecord, Idle
  <2> QED
    BY <2>1 DEF ConfigInv, Settled
<1>5. CASE SpawnNode(h)
  <2>1. /\ cfg' = cfg /\ nodeCancel' = nodeCancel /\ alive' = alive
        /\ \A k \in Handler \ {h} : handler'[k] = handler[k]
        /\ handler[h].step = "spawn"
    BY <1>5 DEF SpawnNode
  <2>2. CASE handler[h].new = nodeCancel
    <3>1. run'[nodeCancel].cfg = cfg
      BY <1>5, <2>2 DEF SpawnNode, RunRecord
    <3> QED
      BY <2>1, <3>1 DEF ConfigInv
  <2>3. CASE handler[h].new # nodeCancel
    <3>1. run'[nodeCancel] = run[nodeCancel]
      BY <1>5, <2>3 DEF SpawnNode
    <3>2. Settled' => Settled
      BY <2>1, <2>3 DEF Settled
    <3> QED
      BY <2>1, <3>1, <3>2 DEF ConfigInv
  <2> QED
    BY <2>2, <2>3
<1> QED
  BY <1>1, <1>2, <1>3, <1>4, <1>5 DEF HandleReload

\* What no other step of Reload changes.
LEMMA RunKeepsConfig ==
  ASSUME TypeOK, ConfigInv, NEW i \in Run, RunNext(i)
  PROVE  ConfigInv'
<1>1. CASE FailJoin(i)
  BY <1>1 DEF FailJoin, Exit, ConfigInv
<1>2. CASE ~ FailJoin(i)
  <2>1. cfg' = cfg /\ nodeCancel' = nodeCancel /\ handler' = handler /\ alive' = alive
    BY <1>2 DEF RunNext, Connect, Join, Return, KeepAlive, Silence, Rejoin, daemon
  <2>2. \A j \in Run : run'[j].cfg = run[j].cfg
    BY <1>2 DEF TypeOK, RunRecord, RunNext, Connect, Join, Return, KeepAlive, Silence, Rejoin
  <2>3. Settled' <=> Settled
    BY <2>1 DEF Settled
  <2> QED
    BY <2>1, <2>2, <2>3 DEF ConfigInv, TypeOK
<1> QED
  BY <1>1, <1>2

\* README, "On a node every field takes effect": however reloads interleave,
\* when none is under way the current run has the daemon's config.
THEOREM ReloadedConfigIsInEffect == Spec => []ConfigInEffect
<1>1. Init => ConfigInv
  BY BoundsAreNumbers DEF Init, ConfigInv, Run
<1>2. ASSUME TypeOK, ConfigInv, [Next]_vars
      PROVE  ConfigInv'
  <2>1. ASSUME NEW c \in Config, EditConfig(c) PROVE ConfigInv'
    BY <1>2, <2>1 DEF EditConfig, ConfigInv, Settled
  <2>2. CASE StartDaemon
    BY <1>2, <2>2 DEF StartDaemon, ConfigInv, TypeOK, Unused, RunRecord
  <2>3. CASE Approve \/ ServerDown \/ ServerUp
    BY <1>2, <2>3 DEF Approve, ServerDown, ServerUp, ConfigInv, Settled, daemon
  <2>4. CASE UNCHANGED vars
    BY <1>2, <2>4 DEF vars, daemon, ConfigInv, Settled
  <2> QED
    BY <1>2, <2>1, <2>2, <2>3, <2>4, HandlerKeepsConfig, RunKeepsConfig DEF Next
<1>3. ConfigInv => ConfigInEffect
  BY DEF ConfigInv, ConfigInEffect, Settled, Busy
<1> QED
  BY <1>1, <1>2, <1>3, ReloadTypesCorrect, PTL DEF Spec

-----------------------------------------------------------------------------
(* The current run.  While no two reloads overlap, at most one handler is     *)
(* under way; it makes a context only after it has cancelled the run that     *)
(* nodeCancel stands for, and the run it is about to start is that of         *)
(* nodeCancel.  When the process ends, so does all of this.                   *)

Going(i) == run[i].phase \in {"connecting", "joining", "serving"}

InStep(h) ==
  /\ handler[h].step = "context" => run[nodeCancel].cancelled
  /\ handler[h].step = "spawn" => handler[h].new = nodeCancel /\ run[nodeCancel].phase = "none"

Ended ==
  /\ \A h \in Handler : handler[h].step = "idle"
  /\ \A i \in Run : run[i].phase \in {"none", "gone"}

CurrentInv ==
  /\ ~ alive => Ended
  /\ ~ overlapped =>
       /\ \A h, k \in Busy : h = k
       /\ \A h \in Handler : InStep(h)
       /\ OneRunIsCurrent

LEMMA HandlerKeepsCurrent ==
  ASSUME TypeOK, CurrentInv, NEW h \in Handler, HandleReload(h)
  PROVE  CurrentInv'
<1>h. /\ handler \in [Handler -> HandlerRecord] /\ handler[h] \in HandlerRecord
      /\ run \in [Run -> RunRecord] /\ nodeCancel \in Run
  BY DEF TypeOK
<1>a. alive /\ alive'
  BY DEF HandleReload, LoadConfig, ApplyConfig, CancelNode, MakeContext, SpawnNode,
         CurrentInv, Ended
<1> SUFFICES ASSUME ~ overlapped'
             PROVE  /\ \A k, l \in Busy' : k = l
                    /\ \A k \in Handler : InStep(k)'
                    /\ OneRunIsCurrent'
  BY <1>a DEF CurrentInv
<1>o. ~ overlapped
  BY DEF HandleReload, LoadConfig, ApplyConfig, CancelNode, MakeContext, SpawnNode, history
<1>c. /\ \A k, l \in Busy : k = l
      /\ \A k \in Handler : InStep(k)
      /\ \A i \in Run : Going(i) => i = nodeCancel \/ run[i].cancelled
  BY <1>o DEF CurrentInv, OneRunIsCurrent, Going
<1>k. \A k \in Handler \ {h} : handler'[k].step = "idle"
  <2>1. \A k \in Handler \ {h} : handler'[k] = handler[k]
    BY <1>h DEF HandleReload, LoadConfig, ApplyConfig, CancelNode, MakeContext, SpawnNode
  <2>2. CASE h \in Busy
    BY <2>1, <2>2, <1>c DEF Busy
  <2>3. CASE h \notin Busy
    BY <2>1, <2>3 DEF Busy, HandleReload, LoadConfig, ApplyConfig, CancelNode, MakeContext,
                      SpawnNode
  <2> QED
    BY <2>2, <2>3
<1>1. \A k, l \in Busy' : k = l
  BY <1>k DEF Busy
<1>2. CASE LoadConfig(h)
  <2>1. handler'[h].step = "apply" /\ run' = run /\ nodeCancel' = nodeCancel
    BY <1>2, <1>h DEF LoadConfig
  <2> QED
    BY <1>1, <1>c, <1>k, <2>1 DEF InStep, OneRunIsCurrent, Going
<1>3. CASE ApplyConfig(h)
  <2>1. handler'[h].step = "cancel" /\ run' = run /\ nodeCancel' = nodeCancel
    BY <1>3, <1>h DEF ApplyConfig, HandlerRecord, Idle
  <2> QED
    BY <1>1, <1>c, <1>k, <2>1 DEF InStep, OneRunIsCurrent, Going
<1>4. CASE CancelNode(h)
  <2>1. handler'[h].step = "context" /\ nodeCancel' = nodeCancel
    BY <1>4, <1>h DEF CancelNode, HandlerRecord, Idle
  <2>2. /\ run'[nodeCancel].cancelled
        /\ \A i \in Run : run'[i].phase = run[i].phase /\ (run[i].cancelled => run'[i].cancelled)
    BY <1>4, <1>h DEF CancelNode, RunRecord
  <2> QED
    BY <1>1, <1>c, <1>k, <2>1, <2>2 DEF InStep, OneRunIsCurrent, Going
<1>5. CASE MakeContext(h)
  <2>1. handler[h].step = "context" /\ run' = run
    BY <1>5 DEF MakeContext
  <2>2. PICK i \in Unused :
          nodeCancel' = i /\ handler' = [handler EXCEPT ![h].step = "spawn", ![h].new = i]
    BY <1>5 DEF MakeContext
  <2>3. handler'[h].step = "spawn" /\ handler'[h].new = i
    BY <1>h, <2>1, <2>2 DEF HandlerRecord, Idle
  <2>4. run[nodeCancel].cancelled
    BY <1>c, <2>1 DEF InStep
  <2> QED
    BY <1>1, <1>c, <1>k, <2>1, <2>2, <2>3, <2>4 DEF InStep, OneRunIsCurrent, Going, Unused
<1>6. CASE SpawnNode(h)
  <2>1. handler[h].step = "spawn" /\ handler'[h].step = "idle" /\ nodeCancel' = nodeCancel
    BY <1>6, <1>h DEF SpawnNode, Idle
  <2>2. handler[h].new = nodeCancel
    BY <1>c, <2>1 DEF InStep
  <2>3. \A i \in Run : i # nodeCancel => run'[i] = run[i]
    BY <1>6, <1>h, <2>2 DEF SpawnNode
  <2> QED
    BY <1>1, <1>c, <1>k, <2>1, <2>3 DEF InStep, OneRunIsCurrent, Going
<1> QED
  BY <1>2, <1>3, <1>4, <1>5, <1>6 DEF HandleReload

\* A run takes its steps under the context it has got, and only ever leaves
\* the phases in which it goes on or moves within them.
LEMMA RunKeepsCurrent ==
  ASSUME TypeOK, CurrentInv, NEW i \in Run, RunNext(i)
  PROVE  CurrentInv'
<1>1. CASE FailJoin(i)
  <2>1. /\ ~ alive'
        /\ handler' = [h \in Handler |-> Idle]
        /\ run' = [j \in Run |-> [run[j] EXCEPT !.phase = IF j \in Unused THEN "none" ELSE "gone"]]
    BY <1>1 DEF FailJoin, Exit
  <2>2. \A j \in Run : run'[j].phase \in {"none", "gone"}
    BY <2>1 DEF TypeOK, RunRecord
  <2>3. \A h \in Handler : handler'[h].step = "idle"
    BY <2>1 DEF Idle
  <2> QED
    BY <2>1, <2>2, <2>3 DEF CurrentInv, Ended, Busy, InStep, OneRunIsCurrent
<1>2. CASE ~ FailJoin(i)
  <2>1. /\ nodeCancel' = nodeCancel /\ handler' = handler /\ alive' = alive
        /\ overlapped' = overlapped
    BY <1>2 DEF RunNext, Connect, Join, Return, KeepAlive, Silence, Rejoin, daemon, history
  <2>2. \A j \in Run : /\ run'[j].cancelled = run[j].cancelled
                       /\ run'[j].phase # run[j].phase => Going(j)
                       /\ Going(j)' => Going(j)
    BY <1>2 DEF TypeOK, RunRecord, RunNext, Connect, Join, Return, KeepAlive, Silence, Rejoin, Going
  <2>3. ~ alive' => Ended'
    BY <2>1, <2>2 DEF CurrentInv, Ended, Going
  <2>4. ASSUME ~ overlapped', NEW h \in Handler PROVE InStep(h)'
    BY <2>1, <2>2, <2>4 DEF CurrentInv, InStep, Going, TypeOK
  <2>5. ~ overlapped' => OneRunIsCurrent'
    BY <2>1, <2>2 DEF CurrentInv, OneRunIsCurrent, Going
  <2> QED
    BY <2>1, <2>3, <2>4, <2>5 DEF CurrentInv, Busy
<1> QED
  BY <1>1, <1>2

LEMMA OutsideKeepsCurrent ==
  ASSUME TypeOK, CurrentInv,
         \/ \E c \in Config : EditConfig(c)
         \/ StartDaemon \/ Approve \/ ServerDown \/ ServerUp \/ UNCHANGED vars
  PROVE  CurrentInv'
<1>1. CASE StartDaemon
  <2>1. PICK i \in Unused :
          /\ run' = [run EXCEPT ![i].phase = "connecting", ![i].cfg = file]
          /\ nodeCancel' = i
    BY <1>1 DEF StartDaemon
  <2>2. Ended /\ alive' /\ handler' = handler
    BY <1>1 DEF StartDaemon, CurrentInv
  <2>3. \A j \in Run : j # i => run'[j] = run[j]
    BY <2>1 DEF TypeOK
  <2> QED
    BY <2>1, <2>2, <2>3 DEF CurrentInv, Ended, Busy, InStep, OneRunIsCurrent, Unused
<1>2. CASE ~ StartDaemon
  <2>1. UNCHANGED <<nodeCancel, handler, run, alive, overlapped>>
    BY <1>2 DEF EditConfig, Approve, ServerDown, ServerUp, vars, daemon, history
  <2> QED
    BY <2>1 DEF CurrentInv, Ended, Busy, InStep, OneRunIsCurrent
<1> QED
  BY <1>1, <1>2

LEMMA CurrentInvHolds == Spec => []CurrentInv
<1>1. Init => CurrentInv
  BY DEF Init, Idle, CurrentInv, Ended, Busy, InStep, OneRunIsCurrent
<1>2. TypeOK /\ CurrentInv /\ [Next]_vars => CurrentInv'
  BY HandlerKeepsCurrent, RunKeepsCurrent, OutsideKeepsCurrent DEF Next
<1> QED
  BY <1>1, <1>2, ReloadTypesCorrect, PTL DEF Spec

\* handleReload cancels the node before startNode makes the next context: as
\* long as no two reloads run at the same time, every run but the current one
\* has been cancelled.
THEOREM ReloadLeavesOneRun == Spec => []OneRunIsCurrent
<1>1. CurrentInv => OneRunIsCurrent
  BY DEF CurrentInv, OneRunIsCurrent
<1> QED
  BY <1>1, CurrentInvHolds, PTL

-----------------------------------------------------------------------------
(* The device.  As long as every run had joined when it was cancelled, no     *)
(* superseded run is on its way to create a device: only the current one is.  *)

DeviceInv ==
  /\ overtaken = {} => \A i \in Run : run[i].cancelled => run[i].joined
  /\ ~ overlapped => \A i \in Run : run[i].joined => run[i].phase \in {"serving", "returned", "gone"}
  /\ DeviceIsCurrent

LEMMA HandlerKeepsDevice ==
  ASSUME TypeOK, CurrentInv, DeviceInv, NEW h \in Handler, HandleReload(h)
  PROVE  DeviceInv'
<1>h. /\ handler \in [Handler -> HandlerRecord] /\ handler[h] \in HandlerRecord
      /\ run \in [Run -> RunRecord] /\ nodeCancel \in Run
  BY DEF TypeOK
<1>o. (~ overlapped' => ~ overlapped) /\ device' = device
  <2>1. ~ overlapped' => ~ overlapped
    BY DEF HandleReload, LoadConfig, ApplyConfig, CancelNode, MakeContext, SpawnNode, history
  <2>2. device' = device
    BY DEF HandleReload, LoadConfig, ApplyConfig, CancelNode, MakeContext, SpawnNode
  <2> QED
    BY <2>1, <2>2
<1>1. CASE LoadConfig(h) \/ ApplyConfig(h)
  BY <1>1, <1>o DEF LoadConfig, ApplyConfig, DeviceInv, DeviceIsCurrent, history
<1>2. CASE CancelNode(h)
  <2>1. /\ nodeCancel' = nodeCancel /\ run'[nodeCancel].joined = run[nodeCancel].joined
        /\ \A i \in Run : run'[i].phase = run[i].phase /\ run'[i].joined = run[i].joined
        /\ \A i \in Run : i # nodeCancel => run'[i].cancelled = run[i].cancelled
    BY <1>2, <1>h DEF CancelNode, RunRecord
  <2>2. overtaken' = {} => overtaken = {} /\ run[nodeCancel].joined
    BY <1>2 DEF CancelNode
  <2> QED
    BY <1>h, <1>o, <2>1, <2>2 DEF DeviceInv, DeviceIsCurrent
<1>3. CASE MakeContext(h)
  <2>1. nodeCancel' \in Unused /\ UNCHANGED <<run, overlapped, overtaken>>
    BY <1>3 DEF MakeContext, history
  <2> QED
    BY <1>o, <2>1 DEF DeviceInv, DeviceIsCurrent, Unused
<1>4. CASE SpawnNode(h)
  <2>1. /\ handler[h].step = "spawn"
        /\ nodeCancel' = nodeCancel /\ overlapped' = overlapped /\ overtaken' = overtaken
        /\ run' = [run EXCEPT ![handler[h].new].phase = "connecting",
                              ![handler[h].new].cfg = cfg]
    BY <1>4 DEF SpawnNode, history
  <2>2. handler[h].new \in Run
    BY <1>h, <2>1 DEF HandlerRecord, Idle
  <2>3. \A i \in Run : run'[i].cancelled = run[i].cancelled /\ run'[i].joined = run[i].joined
    BY <1>h, <2>1, <2>2 DEF RunRecord
  <2>4. \A i \in Run : i # handler[h].new => run'[i].phase = run[i].phase
    BY <1>h, <2>1, <2>2 DEF RunRecord
  <2>5. ~ overlapped => handler[h].new = nodeCancel /\ run[nodeCancel].phase = "none"
    BY <2>1 DEF CurrentInv, InStep
  <2>6. run'[handler[h].new].phase = "connecting"
    BY <1>h, <2>1, <2>2 DEF RunRecord
  <2> QED
    BY <1>h, <1>o, <2>1, <2>3, <2>4, <2>5, <2>6 DEF DeviceInv, DeviceIsCurrent
<1> QED
  BY <1>1, <1>2, <1>3, <1>4 DEF HandleReload

LEMMA RunKeepsDevice ==
  ASSUME TypeOK, CurrentInv, DeviceInv, NEW i \in Run, RunNext(i)
  PROVE  DeviceInv'
<1>t. run \in [Run -> RunRecord] /\ nodeCancel \in Run
  BY DEF TypeOK
<1>1. CASE FailJoin(i)
  <2>1. /\ run' = [j \in Run |-> [run[j] EXCEPT !.phase = IF j \in Unused THEN "none" ELSE "gone"]]
        /\ UNCHANGED <<nodeCancel, overlapped, overtaken>>
    BY <1>1 DEF FailJoin, Exit, history
  <2>2. \A j \in Run : /\ run'[j].cancelled = run[j].cancelled /\ run'[j].joined = run[j].joined
                       /\ run'[j].phase = IF j \in Unused THEN "none" ELSE "gone"
    BY <1>t, <2>1 DEF RunRecord
  <2>3. \A j \in Run : run'[j].phase \in {"none", "gone"}
    BY <2>2
  <2>4. \A j \in Run : run[j].phase # "none" => run'[j].phase = "gone"
    BY <2>2 DEF Unused
  <2> QED
    BY <1>t, <2>1, <2>2, <2>3, <2>4 DEF DeviceInv, DeviceIsCurrent
<1>2. CASE Join(i)
  <2>1. UNCHANGED <<nodeCancel, overlapped, overtaken>> /\ run[i].phase = "joining"
    BY <1>2 DEF Join, daemon, history
  <2>2. CASE UNCHANGED <<run, device>>
    BY <2>1, <2>2 DEF DeviceInv, DeviceIsCurrent
  <2>3. CASE ~ UNCHANGED <<run, device>>
    <3>1. /\ run'[i].phase = "serving" /\ run'[i].joined /\ run'[i].cancelled = run[i].cancelled
          /\ \A j \in Run : j # i => run'[j] = run[j]
          /\ device' = i
      BY <1>2, <1>t, <2>3 DEF Join, RunRecord
    <3>2. ~ overlapped /\ overtaken = {} => i = nodeCancel
      BY <2>1 DEF DeviceInv, CurrentInv, OneRunIsCurrent
    <3> QED
      BY <1>t, <2>1, <3>1, <3>2 DEF DeviceInv, DeviceIsCurrent
  <2> QED
    BY <2>2, <2>3
<1>3. CASE ~ FailJoin(i) /\ ~ Join(i)
  <2>1. UNCHANGED <<nodeCancel, device, overlapped, overtaken>>
    BY <1>3 DEF RunNext, Connect, Return, KeepAlive, Silence, Rejoin, daemon, history
  <2>2. \A j \in Run : /\ run'[j].cancelled = run[j].cancelled /\ run'[j].joined = run[j].joined
                       /\ \/ run'[j].phase = run[j].phase
                          \/ run[j].phase = "connecting" /\ run'[j].phase \in {"joining", "returned"}
                          \/ run[j].phase = "serving" /\ run'[j].phase = "returned"
    BY <1>3, <1>t DEF RunRecord, RunNext, Connect, Return, KeepAlive, Silence, Rejoin
  <2> QED
    BY <1>t, <2>1, <2>2 DEF DeviceInv, DeviceIsCurrent
<1> QED
  BY <1>1, <1>2, <1>3

LEMMA OutsideKeepsDevice ==
  ASSUME TypeOK, CurrentInv, DeviceInv,
         \/ \E c \in Config : EditConfig(c)
         \/ StartDaemon \/ Approve \/ ServerDown \/ ServerUp \/ UNCHANGED vars
  PROVE  DeviceInv'
<1>1. CASE StartDaemon
  <2>1. PICK i \in Unused :
          /\ run' = [run EXCEPT ![i].phase = "connecting", ![i].cfg = file]
          /\ nodeCancel' = i
    BY <1>1 DEF StartDaemon
  <2>2. i \in Run /\ run[i].phase = "none"
    BY DEF Unused
  <2>3. /\ run'[i].phase = "connecting"
        /\ \A j \in Run : run'[j].cancelled = run[j].cancelled /\ run'[j].joined = run[j].joined
        /\ \A j \in Run : j # i => run'[j].phase = run[j].phase
    BY <2>1, <2>2 DEF TypeOK, RunRecord
  <2>4. UNCHANGED <<device, overlapped, overtaken>>
    BY <1>1 DEF StartDaemon, history
  <2> QED
    BY <2>1, <2>2, <2>3, <2>4 DEF DeviceInv, DeviceIsCurrent
<1>2. CASE ~ StartDaemon
  <2>1. UNCHANGED <<nodeCancel, run, device, overlapped, overtaken>>
    BY <1>2 DEF EditConfig, Approve, ServerDown, ServerUp, vars, daemon, history
  <2> QED
    BY <2>1 DEF DeviceInv, DeviceIsCurrent
<1> QED
  BY <1>1, <1>2

\* tun.Create deletes the device that is there: the current run keeps its
\* device, unless two reloads overlapped or a run was cancelled before it had
\* joined.
THEOREM ReloadKeepsTheDevice == Spec => []DeviceIsCurrent
<1>1. Init => DeviceInv
  BY BoundsAreNumbers DEF Init, DeviceInv, DeviceIsCurrent, Run
<1>2. TypeOK /\ CurrentInv /\ DeviceInv /\ [Next]_vars => DeviceInv'
  BY HandlerKeepsDevice, RunKeepsDevice, OutsideKeepsDevice DEF Next
<1>3. DeviceInv => DeviceIsCurrent
  BY DEF DeviceInv
<1> QED
  BY <1>1, <1>2, <1>3, ReloadTypesCorrect, CurrentInvHolds, PTL DEF Spec
=============================================================================
