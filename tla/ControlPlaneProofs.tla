------------------------- MODULE ControlPlaneProofs -------------------------
(***************************************************************************)
(* Theorems about ControlPlane, for any number of threads, machines, users *)
(* and failures: the type invariant, that no machine outlives its user,    *)
(* and, when all commands come through the socket loop, that no address is *)
(* ever given twice.                                                       *)
(***************************************************************************)
EXTENDS ControlPlane, RegistryProofs

-----------------------------------------------------------------------------
(* Control flow and saving, once for all actions.                          *)

LEMMA SaveType ==
  ASSUME StoreOK, NEW r \in RegistryType, SaveWorks(r) \/ SaveFails(r)
  PROVE  StoreOK'
BY BoundsAreNumbers DEF StoreOK, SaveWorks, SaveFails

LEMMA ReadOnlyType ==
  ASSUME StoreOK, ReadOnly
  PROVE  StoreOK'
BY DEF StoreOK, ReadOnly

LEMMA GotoWithType ==
  ASSUME ThreadsOK, NEW t \in Thread, NEW label \in Label,
         NEW f \in Frame \cup {NoFrame}, LocalsOK(t, label, f),
         GotoWith(t, label, f)
  PROVE  ThreadsOK'
<1>1. pc' = [pc EXCEPT ![t] = label] /\ frame' = [frame EXCEPT ![t] = f]
  BY DEF GotoWith
<1>2. pc' \in [Thread -> Label] /\ frame' \in [Thread -> Frame \cup {NoFrame}]
  BY <1>1 DEF ThreadsOK
<1>3. ASSUME NEW s \in Thread PROVE LocalsOK(s, pc'[s], frame'[s])
  <2>1. CASE s = t
    BY <1>1, <2>1 DEF ThreadsOK
  <2>2. CASE s # t
    <3>1. pc'[s] = pc[s] /\ frame'[s] = frame[s]
      BY <1>1, <2>2 DEF ThreadsOK
    <3> QED BY <3>1 DEF ThreadsOK
  <2> QED BY <2>1, <2>2
<1> QED
  BY <1>2, <1>3 DEF ThreadsOK

LEMMA GotoType ==
  ASSUME ThreadsOK, NEW t \in Thread, NEW label \in Label,
         LocalsOK(t, label, frame[t]), Goto(t, label)
  PROVE  ThreadsOK'
<1>1. frame[t] \in Frame \cup {NoFrame}
  BY DEF ThreadsOK
<1>2. GotoWith(t, label, frame[t])
  BY DEF Goto, GotoWith, ThreadsOK
<1> QED
  BY <1>1, <1>2, GotoWithType

LEMMA ReturnType ==
  ASSUME ThreadsOK, NEW t \in Thread, Return(t)
  PROVE  ThreadsOK'
<1>1. LocalsOK(t, "idle", NoFrame)
  BY DEF LocalsOK, JoinLabel
<1>2. "idle" \in Label
  BY DEF Label
<1> QED
  BY <1>1, <1>2, GotoWithType DEF Return

\* After a refusal a join goes on and an approval ends.
LEMMA AfterRefusalType ==
  ASSUME ThreadsOK, NEW t \in Thread, pc[t] \in {"allocate", "assign"},
         AfterRefusal(t)
  PROVE  ThreadsOK'
<1>1. /\ LocalsOK(t, pc[t], frame[t])
      /\ frame[t] \in Frame
      /\ frame[t].origin \in Origin
      /\ frame[t].origin # "approve" => InJoin(t, frame[t])
  BY DEF ThreadsOK, LocalsOK, Frame
<1>2. ASSUME NEW label \in {"rebindDesired", "autoApprove", "answer"},
             frame[t].origin # "approve"
      PROVE  label \in Label /\ LocalsOK(t, label, frame[t])
  BY <1>1, <1>2 DEF LocalsOK, JoinLabel, Label
<1>3. CASE frame[t].origin = "subnet"
  BY <1>2, <1>3, GotoType DEF AfterRefusal
<1>4. CASE frame[t].origin = "rebind"
  BY <1>2, <1>4, GotoType DEF AfterRefusal
<1>5. CASE frame[t].origin = "auto"
  BY <1>2, <1>5, GotoType DEF AfterRefusal
<1>6. CASE frame[t].origin = "approve"
  BY <1>6, ReturnType DEF AfterRefusal
<1> QED
  BY <1>1, <1>3, <1>4, <1>5, <1>6 DEF Origin

-----------------------------------------------------------------------------
(* Type correctness, one lemma per action.                                 *)

LEMMA FrameFields ==
  ASSUME NEW f \in Frame
  PROVE  /\ f.user \in User /\ f.name \in Name \cup {NoName}
         /\ f.key \in Key \cup {NoKey} /\ f.desired \in Nat
         /\ f.to \in Target \cup {NoTarget} /\ f.status \in JoinStatusType
         /\ f.origin \in Origin /\ f.pin \in Nat
         /\ f.ip \in Address \cup {NoAddress} /\ f.addr \in Key \cup {NoKey}
         /\ f.todo \in SUBSET Target
BY DEF Frame

LEMMA ClaimOfJoin ==
  ASSUME NEW f \in Frame, NEW t, InJoin(t, f)
  PROVE  ClaimOf(f) \in Claim
BY FrameFields DEF InJoin, ClaimOf, Claim

LEMMA JoinFrameType ==
  ASSUME NEW c \in Claim
  PROVE  JoinFrame(c) \in Frame /\ InJoin(Udp, JoinFrame(c))
BY DEF Claim, JoinFrame, Frame, InJoin, JoinStatusType, Origin

LEMMA CommandFrameType ==
  ASSUME NEW c \in Command
  PROVE  CommandFrame(c) \in Frame /\ CommandFrame(c).to = c.to
BY DEF Command, CommandFrame, Frame, JoinStatusType, Origin

LEMMA CurrentIPType ==
  ASSUME TypeOK, NEW t
  PROVE  CurrentIP(t) \in Address \cup {NoAddress}
<1>1. reg \in RegistryType
  BY DEF TypeOK, StoreOK
<1>2. CASE HasMachine(reg, frame[t].user, frame[t].name)
  BY <1>1, <1>2, SlotNamedIsNamed DEF CurrentIP, Machine
<1>3. CASE ~ HasMachine(reg, frame[t].user, frame[t].name)
  BY <1>3 DEF CurrentIP
<1> QED
  BY <1>2, <1>3

LEMMA RequestAddressType ==
  ASSUME ThreadsOK, NEW t \in Thread, pc[t] # "idle",
         NEW origin \in Origin, NEW pin \in Nat,
         frame[t].name \in Name, origin = "approve" \/ InJoin(t, frame[t]),
         RequestAddress(t, origin, pin)
  PROVE  ThreadsOK'
<1> DEFINE f == [frame[t] EXCEPT !.origin = origin, !.pin = pin]
<1>1. frame[t] \in Frame
  BY DEF ThreadsOK, LocalsOK
<1>2. f \in Frame /\ f.name = frame[t].name /\ f.key = frame[t].key /\ f.origin = origin
  BY <1>1 DEF Frame
<1>3. LocalsOK(t, "allocate", f)
  BY <1>2 DEF LocalsOK, InJoin, JoinLabel
<1>4. "allocate" \in Label
  BY DEF Label
<1>5. GotoWith(t, "allocate", f)
  BY DEF RequestAddress
<1> QED
  BY <1>2, <1>3, <1>4, <1>5, GotoWithType

\* A handshake message starts a handler with the claim as its locals.
LEMMA JoinStarts ==
  ASSUME TypeOK, NEW c \in Claims, NEW label \in JoinLabel,
         GotoWith(Udp, label, JoinFrame(c))
  PROVE  ThreadsOK'
<1>1. c \in Claim
  BY InputsAreTyped
<1>2. LocalsOK(Udp, label, JoinFrame(c)) /\ label \in Label
  BY <1>1, JoinFrameType DEF LocalsOK, JoinLabel, Label
<1> QED
  BY <1>1, <1>2, JoinFrameType, GotoWithType, ThreadsIncludeUdp DEF TypeOK

LEMMA JoinRequestType ==
  ASSUME TypeOK, NEW c \in Claims, JoinRequest(c)
  PROVE  TypeOK'
<1>1. c \in Claim /\ c.user \in User /\ c.name \in Name /\ c.key \in Key
  BY InputsAreTyped DEF Claim
<1>2. StoreOK'
  BY ReadOnlyType DEF TypeOK, JoinRequest
<1>3. MemoryOK'
  BY <1>1 DEF TypeOK, MemoryOK, JoinRequest
<1>4. ThreadsOK'
  BY JoinStarts DEF JoinRequest, JoinLabel
<1> QED
  BY <1>2, <1>3, <1>4 DEF TypeOK

LEMMA JoinProofType ==
  ASSUME TypeOK, NEW c \in Claims, NEW valid \in BOOLEAN, JoinProof(c, valid)
  PROVE  TypeOK'
<1>1. c \in Claim /\ c.user \in User /\ c.name \in Name /\ c.key \in Key
  BY InputsAreTyped DEF Claim
<1>2. StoreOK'
  BY ReadOnlyType DEF TypeOK, JoinProof
<1>3. MemoryOK'
  BY <1>1 DEF TypeOK, MemoryOK, JoinProof
<1>4. ThreadsOK'
  <2>1. CASE GotoWith(Udp, "proven", JoinFrame(c))
    BY <2>1, JoinStarts DEF JoinLabel
  <2>2. CASE UNCHANGED <<pc, frame>>
    BY <2>2 DEF TypeOK, ThreadsOK
  <2> QED BY <2>1, <2>2 DEF JoinProof
<1> QED
  BY <1>2, <1>3, <1>4 DEF TypeOK

LEMMA QuietMemory ==
  ASSUME MemoryOK, UNCHANGED <<subnet, memory, restarts>>
  PROVE  MemoryOK'
BY DEF MemoryOK, memory

\* What a thread that is not idle may use.
LEMMA AtLabel ==
  ASSUME TypeOK, NEW t \in Thread, pc[t] # "idle"
  PROVE  /\ frame[t] \in Frame
         /\ frame[t].user \in User /\ frame[t].name \in Name \cup {NoName}
         /\ LocalsOK(t, pc[t], frame[t])
BY FrameFields DEF TypeOK, ThreadsOK, LocalsOK

LEMMA AtJoinLabel ==
  ASSUME TypeOK, pc[Udp] \in JoinLabel
  PROVE  /\ frame[Udp] \in Frame
         /\ InJoin(Udp, frame[Udp])
         /\ frame[Udp].user \in User /\ frame[Udp].name \in Name
         /\ ClaimOf(frame[Udp]) \in Claim
         /\ LocalsOK(Udp, pc[Udp], frame[Udp])
<1>1. pc[Udp] # "idle"
  BY DEF JoinLabel
<1>2. LocalsOK(Udp, pc[Udp], frame[Udp]) /\ frame[Udp] \in Frame
  BY <1>1, AtLabel, ThreadsIncludeUdp
<1>3. InJoin(Udp, frame[Udp])
  BY <1>2 DEF LocalsOK
<1> QED
  BY <1>2, <1>3, ClaimOfJoin, FrameFields DEF InJoin

\* A join that goes on at another of its labels.
LEMMA JoinGoesOn ==
  ASSUME TypeOK, pc[Udp] \in JoinLabel, NEW label \in JoinLabel,
         NEW s \in JoinStatusType,
         GotoWith(Udp, label, [frame[Udp] EXCEPT !.status = s])
  PROVE  ThreadsOK'
<1> DEFINE f == [frame[Udp] EXCEPT !.status = s]
<1>1. frame[Udp] \in Frame /\ InJoin(Udp, frame[Udp])
  BY AtJoinLabel
<1>2. f \in Frame /\ InJoin(Udp, f)
  BY <1>1 DEF Frame, InJoin
<1>3. LocalsOK(Udp, label, f) /\ label \in Label
  BY <1>2 DEF LocalsOK, JoinLabel, Label
<1> QED
  BY <1>2, <1>3, GotoWithType, ThreadsIncludeUdp DEF TypeOK

LEMMA JoinGoesTo ==
  ASSUME TypeOK, pc[Udp] \in JoinLabel, NEW label \in JoinLabel, Goto(Udp, label)
  PROVE  ThreadsOK'
<1>1. LocalsOK(Udp, label, frame[Udp]) /\ label \in Label
  BY AtJoinLabel DEF LocalsOK, JoinLabel, Label
<1> QED
  BY <1>1, GotoType, ThreadsIncludeUdp DEF TypeOK

LEMMA GetUserType ==
  ASSUME TypeOK, GetUser
  PROVE  TypeOK'
<1>1. pc[Udp] \in JoinLabel /\ frame[Udp].user \in User /\ frame[Udp].name \in Name
      /\ frame[Udp].key \in Key
  BY AtJoinLabel DEF GetUser, At, JoinLabel, InJoin
<1>2. StoreOK'
  BY ReadOnlyType DEF TypeOK, GetUser
<1>3. MemoryOK'
  BY <1>1 DEF TypeOK, MemoryOK, GetUser
<1>4. Goto(Udp, "registerNew") \/ Return(Udp)
  BY DEF GetUser
<1>5. ThreadsOK'
  BY <1>1, <1>4, JoinGoesTo, ReturnType, ThreadsIncludeUdp DEF TypeOK, JoinLabel
<1> QED
  BY <1>2, <1>3, <1>5 DEF TypeOK

LEMMA ProvenType ==
  ASSUME TypeOK, Proven
  PROVE  TypeOK'
<1>1. pc[Udp] \in JoinLabel /\ frame[Udp].user \in User /\ frame[Udp].name \in Name
      /\ frame[Udp].key \in Key
  BY AtJoinLabel DEF Proven, At, JoinLabel, InJoin
<1>2. StoreOK'
  BY ReadOnlyType DEF TypeOK, Proven
<1>3. MemoryOK'
  BY <1>1 DEF TypeOK, MemoryOK, Proven
<1>4. ThreadsOK'
  BY <1>1, JoinGoesTo DEF Proven, JoinLabel
<1> QED
  BY <1>2, <1>3, <1>4 DEF TypeOK

LEMMA RegisterNewType ==
  ASSUME TypeOK, RegisterNew
  PROVE  TypeOK'
<1> DEFINE c == ClaimOf(frame[Udp])
<1>1. c \in Claim
  BY AtJoinLabel DEF RegisterNew, At, JoinLabel
<1>2. StoreOK'
  <2>1. RegisterJoin(reg, c) \in RegistryType
    BY <1>1, RegisterJoinType DEF TypeOK, StoreOK
  <2> HIDE DEF c
  <2> QED BY <2>1, SaveType, ReadOnlyType DEF TypeOK, RegisterNew, c
<1>3. MemoryOK'
  BY QuietMemory DEF TypeOK, RegisterNew
<1>4. ThreadsOK'
  BY ReturnType, ThreadsIncludeUdp DEF TypeOK, RegisterNew
<1> QED
  BY <1>2, <1>3, <1>4 DEF TypeOK

LEMMA RegisterType ==
  ASSUME TypeOK, Register
  PROVE  TypeOK'
<1> DEFINE c == ClaimOf(frame[Udp])
<1>1. c \in Claim /\ pc[Udp] \in JoinLabel
  BY AtJoinLabel DEF Register, At, JoinLabel
<1>2. StoreOK'
  <2>1. RegisterJoin(reg, c) \in RegistryType
    BY <1>1, RegisterJoinType DEF TypeOK, StoreOK
  <2> HIDE DEF c
  <2> QED BY <2>1, SaveType, ReadOnlyType DEF TypeOK, Register, c
<1>3. MemoryOK'
  BY QuietMemory DEF TypeOK, Register
<1>4. ThreadsOK'
  <2>1. CASE GotoWith(Udp, "ensureInSubnet", [frame[Udp] EXCEPT !.status = "blocked"])
    <3>1. "ensureInSubnet" \in JoinLabel /\ "blocked" \in JoinStatusType
      BY DEF JoinLabel, JoinStatusType, MachineStatus
    <3> QED BY <1>1, <2>1, <3>1, JoinGoesOn
  <2>2. CASE /\ ~ JoinIsBlocked(reg, c)
             /\ GotoWith(Udp, "ensureInSubnet",
                         [frame[Udp] EXCEPT !.status = JoinStatus(reg, c)])
    <3>1. JoinStatus(reg, c) \in JoinStatusType
      <4>1. CASE JoinAppends(reg, c)
        BY <4>1 DEF JoinStatus, JoinStatusType, MachineStatus
      <4>2. CASE ~ JoinAppends(reg, c)
        BY <4>2, ClaimedSlotHasKey
        DEF JoinAppends, JoinStatus, JoinStatusType, Machine, TypeOK, StoreOK
      <4> QED BY <4>1, <4>2
    <3>2. "ensureInSubnet" \in JoinLabel
      BY DEF JoinLabel
    <3> QED BY <1>1, <2>2, <3>1, <3>2, JoinGoesOn
  <2>3. CASE Return(Udp)
    BY <2>3, ReturnType, ThreadsIncludeUdp DEF TypeOK
  <2> QED BY <2>1, <2>2, <2>3 DEF Register
<1> QED
  BY <1>2, <1>3, <1>4 DEF TypeOK

LEMMA EnsureInSubnetType ==
  ASSUME TypeOK, EnsureInSubnet
  PROVE  TypeOK'
<1>1. pc[Udp] \in JoinLabel /\ pc[Udp] # "idle"
  BY DEF EnsureInSubnet, At, JoinLabel
<1>2. StoreOK' /\ MemoryOK'
  BY QuietMemory, ReadOnlyType DEF TypeOK, EnsureInSubnet
<1>3. ThreadsOK'
  <2>1. CASE Goto(Udp, "rebindDesired")
    <3>1. "rebindDesired" \in JoinLabel
      BY DEF JoinLabel
    <3> QED BY <1>1, <2>1, <3>1, JoinGoesTo
  <2>2. CASE CurrentIP(Udp) # NoAddress /\
             RequestAddress(Udp, "subnet",
               MachineNamed(reg, frame[Udp].user, frame[Udp].name).desired)
    <3>1. HasMachine(reg, frame[Udp].user, frame[Udp].name)
      BY <2>2 DEF CurrentIP
    <3>2. MachineNamed(reg, frame[Udp].user, frame[Udp].name).desired \in Nat
      BY <3>1, SlotNamedIsNamed DEF Machine, TypeOK, StoreOK
    <3>3. "subnet" \in Origin
      BY DEF Origin
    <3> QED
      BY <1>1, <2>2, <3>2, <3>3, AtJoinLabel, RequestAddressType, ThreadsIncludeUdp
      DEF TypeOK
  <2> QED BY <2>1, <2>2 DEF EnsureInSubnet
<1> QED
  BY <1>2, <1>3 DEF TypeOK

LEMMA RebindDesiredType ==
  ASSUME TypeOK, RebindDesired
  PROVE  TypeOK'
<1>1. pc[Udp] \in JoinLabel /\ pc[Udp] # "idle"
  BY DEF RebindDesired, At, JoinLabel
<1>2. StoreOK' /\ MemoryOK'
  BY QuietMemory, ReadOnlyType DEF TypeOK, RebindDesired
<1>3. ThreadsOK'
  <2>1. CASE Goto(Udp, "autoApprove")
    <3>1. "autoApprove" \in JoinLabel
      BY DEF JoinLabel
    <3> QED BY <1>1, <2>1, <3>1, JoinGoesTo
  <2>2. CASE RequestAddress(Udp, "rebind", frame[Udp].desired)
    <3>1. "rebind" \in Origin /\ frame[Udp].desired \in Nat
      BY <1>1, AtJoinLabel, FrameFields DEF Origin
    <3> QED
      BY <1>1, <2>2, <3>1, AtJoinLabel, RequestAddressType, ThreadsIncludeUdp
      DEF TypeOK
  <2> QED BY <2>1, <2>2 DEF RebindDesired
<1> QED
  BY <1>2, <1>3 DEF TypeOK

LEMMA AutoApproveType ==
  ASSUME TypeOK, AutoApprove
  PROVE  TypeOK'
<1> DEFINE f == frame[Udp]
<1>1. pc[Udp] \in JoinLabel
  BY DEF AutoApprove, At, JoinLabel
<1>2. StoreOK'
  <2>1. CASE CanAllow(reg, f.user, f.name)
    <3>1. Allow(reg, f.user, f.name) \in RegistryType
      BY <1>1, <2>1, AllowType, AtJoinLabel DEF TypeOK, StoreOK
    <3> QED BY <3>1, SaveType, ReadOnlyType DEF TypeOK, AutoApprove
  <2>2. CASE ~ CanAllow(reg, f.user, f.name)
    BY <2>2, ReadOnlyType DEF TypeOK, AutoApprove
  <2> QED BY <2>1, <2>2
<1>3. MemoryOK'
  BY QuietMemory DEF TypeOK, AutoApprove
<1>4. ThreadsOK'
  <2>1. Goto(Udp, "desiredOf") \/ Goto(Udp, "answer")
    BY DEF AutoApprove
  <2>2. "desiredOf" \in JoinLabel /\ "answer" \in JoinLabel
    BY DEF JoinLabel
  <2> QED BY <1>1, <2>1, <2>2, JoinGoesTo
<1> QED
  BY <1>2, <1>3, <1>4 DEF TypeOK

LEMMA DesiredOfType ==
  ASSUME TypeOK, DesiredOf
  PROVE  TypeOK'
<1> DEFINE f == frame[Udp]
           pin == IF HasMachine(reg, f.user, f.name)
                  THEN MachineNamed(reg, f.user, f.name).desired ELSE 0
<1>1. pc[Udp] \in JoinLabel /\ pc[Udp] # "idle"
  BY DEF DesiredOf, At, JoinLabel
<1>2. StoreOK' /\ MemoryOK'
  BY QuietMemory, ReadOnlyType DEF TypeOK, DesiredOf
<1>3. pin \in Nat
  BY SlotNamedIsNamed DEF Machine, TypeOK, StoreOK
<1>4. RequestAddress(Udp, "auto", pin) /\ "auto" \in Origin
  BY DEF DesiredOf, Origin
<1>5. ThreadsOK'
  <2> HIDE DEF pin
  <2> QED
    BY <1>1, <1>3, <1>4, AtJoinLabel, RequestAddressType, ThreadsIncludeUdp DEF TypeOK
<1> QED
  BY <1>2, <1>5 DEF TypeOK

LEMMA AnswerType ==
  ASSUME TypeOK, Answer
  PROVE  TypeOK'
<1> DEFINE f == [frame[Udp] EXCEPT !.ip = CurrentIP(Udp)]
<1>1. frame[Udp] \in Frame /\ InJoin(Udp, frame[Udp])
  BY AtJoinLabel DEF Answer, At, JoinLabel
<1>2. f \in Frame /\ InJoin(Udp, f)
  BY <1>1, CurrentIPType DEF Frame, InJoin
<1>3. LocalsOK(Udp, "reply", f) /\ "reply" \in Label
  BY <1>2 DEF LocalsOK, JoinLabel, Label
<1>4. ThreadsOK'
  BY <1>2, <1>3, GotoWithType, ThreadsIncludeUdp DEF Answer, TypeOK
<1> QED
  BY <1>4, QuietMemory, ReadOnlyType DEF TypeOK, Answer

LEMMA ReplyType ==
  ASSUME TypeOK, Reply
  PROVE  TypeOK'
<1>1. StoreOK' /\ ThreadsOK'
  BY ReadOnlyType, ReturnType, ThreadsIncludeUdp DEF TypeOK, Reply
<1>2. frame[Udp].key \in Key /\ frame[Udp].ip \in Address \cup {NoAddress}
  BY AtJoinLabel, FrameFields DEF InJoin, Reply, At, JoinLabel
<1>3. MemoryOK'
  BY <1>2 DEF TypeOK, MemoryOK, Reply
<1> QED
  BY <1>1, <1>3 DEF TypeOK

LEMMA AllocateType ==
  ASSUME TypeOK, NEW t \in Thread, Allocate(t)
  PROVE  TypeOK'
<1> DEFINE a == AllocateIP(reg, subnet, frame[t].pin)
           f == [frame[t] EXCEPT !.ip = a]
<1>1. pc[t] = "allocate" /\ frame[t] \in Frame /\ LocalsOK(t, "allocate", frame[t])
  BY AtLabel DEF Allocate, At
<1>2. StoreOK' /\ MemoryOK'
  BY QuietMemory, ReadOnlyType DEF TypeOK, Allocate
<1>3. ThreadsOK'
  <2>1. CASE CanAllocate(reg, subnet, frame[t].pin) /\ GotoWith(t, "assign", f)
    <3>1. a \in Address
      BY <1>1, <2>1, AllocatedIsFree, FrameFields DEF TypeOK, StoreOK, MemoryOK
    <3>2. /\ f \in Frame /\ f.ip = a
          /\ f.name = frame[t].name /\ f.key = frame[t].key /\ f.origin = frame[t].origin
      <4> HIDE DEF a
      <4> QED BY <1>1, <3>1 DEF Frame
    <3>3. LocalsOK(t, "assign", f) /\ "assign" \in Label
      BY <1>1, <3>1, <3>2 DEF LocalsOK, InJoin, JoinLabel, Label
    <3> QED
      BY <2>1, <3>2, <3>3, GotoWithType DEF TypeOK
  <2>2. CASE AfterRefusal(t)
    BY <1>1, <2>2, AfterRefusalType DEF TypeOK
  <2> QED BY <2>1, <2>2 DEF Allocate
<1> QED
  BY <1>2, <1>3 DEF TypeOK

LEMMA AssignType ==
  ASSUME TypeOK, NEW t \in Thread, Assign(t)
  PROVE  TypeOK'
<1> DEFINE f == frame[t]
           r == SetMachineIP(reg, f.user, f.name, f.ip)
<1>1. /\ pc[t] = "assign" /\ f \in Frame /\ LocalsOK(t, "assign", f)
      /\ f.user \in User /\ f.name \in Name /\ f.ip \in Address /\ f.origin \in Origin
      /\ f.origin = "approve" \/ InJoin(t, f)
  BY AtLabel, FrameFields DEF Assign, At, LocalsOK
<1>2. StoreOK'
  <2>1. CASE HasMachine(reg, f.user, f.name)
    <3>1. r \in RegistryType
      BY <1>1, <2>1, SetMachineIPType DEF TypeOK, StoreOK
    <3> HIDE DEF r
    <3> QED BY <2>1, <3>1, SaveType DEF TypeOK, Assign, r
  <2>2. CASE ~ HasMachine(reg, f.user, f.name)
    BY <2>2, ReadOnlyType DEF TypeOK, Assign
  <2> QED BY <2>1, <2>2
<1>3. MemoryOK'
  BY QuietMemory DEF TypeOK, Assign
<1>4. ThreadsOK'
  <2>1. CASE f.origin = "auto" /\ GotoWith(t, "answer", [f EXCEPT !.status = "active"])
    <3> DEFINE g == [f EXCEPT !.status = "active"]
    <3>1. g \in Frame /\ InJoin(t, g)
      BY <1>1, <2>1 DEF Frame, InJoin, JoinStatusType, MachineStatus
    <3>2. LocalsOK(t, "answer", g) /\ "answer" \in Label
      BY <3>1 DEF LocalsOK, JoinLabel, Label
    <3> QED
      BY <2>1, <3>1, <3>2, GotoWithType DEF TypeOK
  <2>2. CASE f.origin # "auto" /\ Goto(t, AfterAssign(f.origin))
    <3>1. LocalsOK(t, AfterAssign(f.origin), f) /\ AfterAssign(f.origin) \in Label
      <4>1. CASE f.origin = "subnet"
        BY <1>1, <4>1 DEF AfterAssign, LocalsOK, JoinLabel, Label
      <4>2. CASE f.origin = "rebind"
        BY <1>1, <4>2 DEF AfterAssign, LocalsOK, JoinLabel, Label
      <4>3. CASE f.origin = "approve"
        BY <1>1, <4>3 DEF AfterAssign, LocalsOK, JoinLabel, CommandLabel, Label
      <4> QED BY <1>1, <2>2, <4>1, <4>2, <4>3 DEF Origin
    <3> QED
      BY <2>2, <3>1, GotoType DEF TypeOK
  <2>3. CASE AfterRefusal(t)
    BY <1>1, <2>3, AfterRefusalType DEF TypeOK
  <2> QED BY <2>1, <2>2, <2>3 DEF Assign
<1> QED
  BY <1>2, <1>3, <1>4 DEF TypeOK

LEMMA StartCommandType ==
  ASSUME ThreadsOK, NEW t \in Thread, NEW c \in Commands, StartCommand(t, c)
  PROVE  ThreadsOK'
<1> DEFINE label == IF c.op = "allow" THEN "allowRead"
                    ELSE IF c.to # NoTarget THEN "revokeTo" ELSE "grantsOf"
<1>1. c \in Command /\ c.op \in {"allow", "deny"} /\ c.to \in Target \cup {NoTarget}
  BY InputsAreTyped DEF Command
<1>2. label \in {"allowRead", "revokeTo"} => c.to \in Target
  BY <1>1, AllowHasTarget
<1>3. label \in {"allowRead", "revokeTo", "grantsOf"}
  OBVIOUS
<1>4. LocalsOK(t, label, CommandFrame(c)) /\ label \in Label
  BY <1>1, <1>2, <1>3, CommandFrameType DEF LocalsOK, JoinLabel, CommandLabel, Label
<1>5. GotoWith(t, label, CommandFrame(c))
  BY DEF StartCommand
<1> HIDE DEF label
<1> QED
  BY <1>1, <1>4, <1>5, CommandFrameType, GotoWithType

LEMMA ConsoleCommandType ==
  ASSUME TypeOK, NEW t \in Thread, NEW c \in Commands, ConsoleCommand(t, c)
  PROVE  TypeOK'
BY StartCommandType, QuietMemory, ReadOnlyType DEF ConsoleCommand, TypeOK

LEMMA VerifyType ==
  ASSUME TypeOK, NEW a \in Address, NEW k \in Key, Verify(a, k)
  PROVE  TypeOK'
<1> DEFINE u == reg.machines[Min(SlotsWithIP(reg, a))].user
           f == SignedFrame(u, a, k)
<1>1. u \in User
  <2>1. reg \in RegistryType /\ SlotsWithIP(reg, a) # {}
    BY DEF Verify, Sender, TypeOK, StoreOK
  <2>2. Min(SlotsWithIP(reg, a)) \in SlotsWithIP(reg, a)
    BY <2>1, LookupsAreUsed, MinIsLeast
  <2>3. reg.machines[Min(SlotsWithIP(reg, a))] \in Machine
    BY <2>1, <2>2, LookupsAreUsed, UsedHoldsMachine
  <2> QED
    BY <2>3 DEF Machine
<1>2. f \in Frame
  BY <1>1 DEF SignedFrame, Frame, JoinStatusType, Origin
<1>3. LocalsOK(Udp, "heard", f) /\ "heard" \in Label
  BY <1>2 DEF LocalsOK, SignedFrame, JoinLabel, Label
<1>4. GotoWith(Udp, "heard", f)
  BY DEF Verify
<1>5. ThreadsOK'
  BY <1>2, <1>3, <1>4, GotoWithType, ThreadsIncludeUdp DEF TypeOK
<1> QED
  BY <1>5, QuietMemory, ReadOnlyType DEF TypeOK, Verify

LEMMA HeardType ==
  ASSUME TypeOK, Heard
  PROVE  TypeOK'
<1>1. frame[Udp].ip \in Address /\ frame[Udp].key \in Key
  BY AtLabel, ThreadsIncludeUdp DEF Heard, At, LocalsOK
<1>2. StoreOK'
  BY ReadOnlyType DEF Heard, TypeOK
<1>3. MemoryOK'
  BY <1>1 DEF Heard, TypeOK, MemoryOK
<1>4. Return(Udp) \/ \E c \in Commands : StartCommand(Udp, c)
  BY DEF Heard
<1>5. ThreadsOK'
  BY <1>4, StartCommandType, ReturnType, ThreadsIncludeUdp DEF TypeOK
<1> QED
  BY <1>2, <1>3, <1>5 DEF TypeOK

\* A command that only looks something up and goes on at label.
LEMMA CommandGoesTo ==
  ASSUME TypeOK, NEW t \in Thread, pc[t] # "idle",
         NEW label \in CommandLabel,
         label \in {"allowRead", "grant", "revokeTo"} => frame[t].to \in Target,
         label \in {"approveRead", "notify"} => frame[t].name \in Name,
         label \notin {"endpoint", "remember"},
         Goto(t, label)
  PROVE  ThreadsOK'
<1>1. LocalsOK(t, label, frame[t]) /\ label \in Label
  BY AtLabel DEF LocalsOK, JoinLabel, CommandLabel, Label
<1> QED
  BY <1>1, GotoType DEF TypeOK

\* One call on *State inside a command.
LEMMA CallType ==
  ASSUME TypeOK, NEW t \in Thread, pc[t] # "idle", NEW enabled \in BOOLEAN, NEW r,
         enabled => r \in RegistryType,
         NEW ok \in CommandLabel \ {"allowRead", "grant", "revokeTo", "endpoint", "remember"},
         ok \in {"approveRead", "notify"} => frame[t].name \in Name,
         Call(t, enabled, r, ok)
  PROVE  TypeOK'
<1>1. StoreOK'
  BY SaveType, ReadOnlyType DEF Call, TypeOK
<1>2. MemoryOK'
  BY QuietMemory DEF Call, TypeOK
<1>3. ThreadsOK'
  <2>1. CASE Goto(t, ok)
    BY <2>1, CommandGoesTo
  <2>2. CASE Return(t)
    BY <2>2, ReturnType DEF TypeOK
  <2> QED BY <2>1, <2>2 DEF Call
<1> QED
  BY <1>1, <1>2, <1>3 DEF TypeOK

LEMMA CallThenBroadcast ==
  ASSUME TypeOK, NEW t \in Thread, pc[t] # "idle", NEW enabled \in BOOLEAN, NEW r,
         enabled => r \in RegistryType, Call(t, enabled, r, "broadcast")
  PROVE  TypeOK'
<1>1. "broadcast" \in CommandLabel \ {"allowRead", "grant", "revokeTo", "endpoint", "remember"}
  BY DEF CommandLabel
<1>2. "broadcast" \notin {"approveRead", "notify"}
  OBVIOUS
<1> QED
  BY <1>1, <1>2, CallType

LEMMA AllowReadType ==
  ASSUME TypeOK, NEW t \in Thread, AllowRead(t)
  PROVE  TypeOK'
<1>1. pc[t] # "idle" /\ frame[t].to \in Target
  BY AtLabel DEF AllowRead, At, LocalsOK
<1>2. StoreOK' /\ MemoryOK'
  BY QuietMemory, ReadOnlyType DEF AllowRead, TypeOK
<1>3. Return(t) \/ Goto(t, "allow") \/ Goto(t, "unblock") \/ Goto(t, "grant")
  BY DEF AllowRead
<1>4. ThreadsOK'
  BY <1>1, <1>3, CommandGoesTo, ReturnType DEF CommandLabel, TypeOK
<1> QED
  BY <1>2, <1>4 DEF TypeOK

LEMMA DoAllowType ==
  ASSUME TypeOK, NEW t \in Thread, DoAllow(t)
  PROVE  TypeOK'
<1> DEFINE f == frame[t]
           ok == IF f.name = NoName THEN "broadcast" ELSE "approveRead"
<1>1. pc[t] # "idle" /\ f.user \in User /\ f.name \in Name \cup {NoName}
  BY AtLabel DEF DoAllow, At
<1>2. CanAllow(reg, f.user, f.name) => Allow(reg, f.user, f.name) \in RegistryType
  BY <1>1, AllowType DEF TypeOK, StoreOK
<1>3. /\ ok \in CommandLabel \ {"allowRead", "grant", "revokeTo", "endpoint", "remember"}
      /\ ok \in {"approveRead", "notify"} => f.name \in Name
  BY <1>1 DEF CommandLabel
<1>4. Call(t, CanAllow(reg, f.user, f.name), Allow(reg, f.user, f.name), ok)
  BY DEF DoAllow
<1>5. CanAllow(reg, f.user, f.name) \in BOOLEAN
  BY DEF CanAllow, HasMachine
<1> HIDE DEF ok
<1> QED
  BY <1>1, <1>2, <1>3, <1>4, <1>5, CallType

LEMMA DoUnblockType ==
  ASSUME TypeOK, NEW t \in Thread, DoUnblock(t)
  PROVE  TypeOK'
<1> DEFINE f == frame[t]
<1>1. pc[t] # "idle" /\ f.user \in User /\ f.name \in Name \cup {NoName}
  BY AtLabel DEF DoUnblock, At
<1>2. Exists(reg, f.user, f.name) => Unblock(reg, f.user, f.name) \in RegistryType
  BY <1>1, UnblockType DEF TypeOK, StoreOK
<1>3. Call(t, Exists(reg, f.user, f.name), Unblock(reg, f.user, f.name), "broadcast")
  BY DEF DoUnblock
<1>4. Exists(reg, f.user, f.name) \in BOOLEAN
  BY DEF Exists, HasMachine
<1> HIDE DEF f
<1> QED
  BY <1>1, <1>2, <1>3, <1>4, CallThenBroadcast DEF f

LEMMA DoGrantType ==
  ASSUME TypeOK, NEW t \in Thread, DoGrant(t)
  PROVE  TypeOK'
<1> DEFINE f == frame[t]
<1>1. /\ pc[t] # "idle" /\ f.user \in User /\ f.name \in Name \cup {NoName}
      /\ f.to \in Target
  BY AtLabel DEF DoGrant, At, LocalsOK
<1>2. CASE f.to \in GrantsOf(reg, f.user, f.name)
  <2>1. StoreOK' /\ MemoryOK'
    BY <1>2, QuietMemory, ReadOnlyType DEF DoGrant, TypeOK
  <2>2. ThreadsOK'
    BY <1>1, <1>2, CommandGoesTo DEF DoGrant, CommandLabel
  <2> QED BY <2>1, <2>2 DEF TypeOK
<1>3. CASE f.to \notin GrantsOf(reg, f.user, f.name)
  <2>1. AddGrant(reg, f.user, f.name, f.to) \in RegistryType
    BY <1>1, GrantTypes DEF TypeOK, StoreOK
  <2>2. Call(t, TRUE, AddGrant(reg, f.user, f.name, f.to), "broadcast")
    BY <1>3 DEF DoGrant
  <2> QED
    BY <1>1, <2>1, <2>2, CallThenBroadcast
<1> QED
  BY <1>2, <1>3

LEMMA ApproveReadType ==
  ASSUME TypeOK, NEW t \in Thread, ApproveRead(t)
  PROVE  TypeOK'
<1> DEFINE f == frame[t]
           m == MachineNamed(reg, f.user, f.name)
<1>1. pc[t] # "idle" /\ f.user \in User /\ f.name \in Name
  BY AtLabel DEF ApproveRead, At, LocalsOK
<1>2. StoreOK' /\ MemoryOK'
  BY QuietMemory, ReadOnlyType DEF ApproveRead, TypeOK
<1>3. ThreadsOK'
  <2>1. CASE Goto(t, "broadcast") \/ Goto(t, "notify")
    BY <1>1, <2>1, CommandGoesTo DEF CommandLabel
  <2>2. CASE HasMachine(reg, f.user, f.name) /\ RequestAddress(t, "approve", m.desired)
    <3>1. m.desired \in Nat
      BY <2>2, SlotNamedIsNamed DEF Machine, TypeOK, StoreOK
    <3> QED
      BY <1>1, <2>2, <3>1, RequestAddressType DEF TypeOK, Origin
  <2> QED BY <2>1, <2>2 DEF ApproveRead
<1> QED
  BY <1>2, <1>3 DEF TypeOK

LEMMA NotifyType ==
  ASSUME TypeOK, NEW t \in Thread, Notify(t)
  PROVE  TypeOK'
<1> DEFINE ip == CurrentIP(t)
           f == [frame[t] EXCEPT !.ip = ip]
<1>1. pc[t] # "idle" /\ frame[t] \in Frame /\ frame[t].name \in Name
  BY AtLabel DEF Notify, At, LocalsOK
<1>2. ThreadsOK'
  <2>1. CASE ip = NoAddress
    BY <1>1, <2>1, CommandGoesTo DEF Notify, CommandLabel
  <2>2. CASE ip # NoAddress
    <3>1. ip \in Address
      BY <2>2, CurrentIPType
    <3>2. f \in Frame /\ f.name \in Name /\ f.ip = ip
      BY <1>1, <3>1 DEF Frame
    <3>3. LocalsOK(t, "endpoint", f) /\ "endpoint" \in Label
      BY <3>1, <3>2 DEF LocalsOK, JoinLabel, CommandLabel, Label
    <3>4. GotoWith(t, "endpoint", f)
      BY <2>2 DEF Notify
    <3> QED
      BY <3>2, <3>3, <3>4, GotoWithType DEF TypeOK
  <2> QED BY <2>1, <2>2
<1> QED
  BY <1>2, QuietMemory, ReadOnlyType DEF TypeOK, Notify

LEMMA LookUpEndpointType ==
  ASSUME TypeOK, NEW t \in Thread, LookUpEndpoint(t)
  PROVE  TypeOK'
<1> DEFINE k == endpoints[<<frame[t].user, frame[t].name>>]
           f == [frame[t] EXCEPT !.addr = k]
<1>1. /\ pc[t] # "idle" /\ frame[t] \in Frame /\ frame[t].user \in User
      /\ frame[t].name \in Name /\ frame[t].ip \in Address
  BY AtLabel DEF LookUpEndpoint, At, LocalsOK
<1>2. ThreadsOK'
  <2>1. CASE k = NoKey
    BY <1>1, <2>1, CommandGoesTo DEF LookUpEndpoint, CommandLabel
  <2>2. CASE k # NoKey
    <3>1. k \in Key
      BY <1>1, <2>2 DEF TypeOK, MemoryOK
    <3>2. f \in Frame /\ f.name \in Name /\ f.ip \in Address /\ f.addr = k
      BY <1>1, <3>1 DEF Frame
    <3>3. LocalsOK(t, "remember", f) /\ "remember" \in Label
      BY <3>1, <3>2 DEF LocalsOK, JoinLabel, CommandLabel, Label
    <3>4. GotoWith(t, "remember", f)
      BY <2>2 DEF LookUpEndpoint
    <3> QED
      BY <3>2, <3>3, <3>4, GotoWithType DEF TypeOK
  <2> QED BY <2>1, <2>2
<1> QED
  BY <1>2, QuietMemory, ReadOnlyType DEF TypeOK, LookUpEndpoint

LEMMA RememberPushType ==
  ASSUME TypeOK, NEW t \in Thread, RememberPush(t)
  PROVE  TypeOK'
<1>1. pc[t] # "idle" /\ frame[t].ip \in Address /\ frame[t].addr \in Key
  BY AtLabel DEF RememberPush, At, LocalsOK
<1>2. StoreOK' /\ ThreadsOK'
  BY <1>1, ReadOnlyType, CommandGoesTo DEF RememberPush, TypeOK, CommandLabel
<1>3. MemoryOK'
  BY <1>1 DEF RememberPush, TypeOK, MemoryOK
<1> QED
  BY <1>2, <1>3 DEF TypeOK

LEMMA RevokeToType ==
  ASSUME TypeOK, NEW t \in Thread, RevokeTo(t)
  PROVE  TypeOK'
<1> DEFINE f == frame[t]
<1>1. /\ pc[t] # "idle" /\ f.user \in User /\ f.name \in Name \cup {NoName}
      /\ f.to \in Target
  BY AtLabel DEF RevokeTo, At, LocalsOK
<1>2. Revoke(reg, f.user, f.name, f.to) \in RegistryType
  BY <1>1, GrantTypes DEF TypeOK, StoreOK
<1>3. Call(t, TRUE, Revoke(reg, f.user, f.name, f.to), "broadcast")
  BY DEF RevokeTo
<1> QED
  BY <1>1, <1>2, <1>3, CallThenBroadcast

\* The deny command with the targets it still has to revoke.
LEMMA TodoType ==
  ASSUME TypeOK, NEW t \in Thread, pc[t] # "idle", NEW todo \in SUBSET Target,
         NEW label \in {"denyRead", "revoke"},
         GotoWith(t, label, [frame[t] EXCEPT !.todo = todo])
  PROVE  ThreadsOK'
<1> DEFINE f == [frame[t] EXCEPT !.todo = todo]
<1>1. f \in Frame
  BY AtLabel DEF Frame
<1>2. LocalsOK(t, label, f) /\ label \in Label
  BY <1>1 DEF LocalsOK, JoinLabel, CommandLabel, Label
<1> QED
  BY <1>1, <1>2, GotoWithType DEF TypeOK

LEMMA ListGrantsType ==
  ASSUME TypeOK, NEW t \in Thread, ListGrants(t)
  PROVE  TypeOK'
<1>1. StoreOK' /\ MemoryOK'
  BY QuietMemory, ReadOnlyType DEF ListGrants, TypeOK
<1>2. GrantsOf(reg, frame[t].user, frame[t].name) \in SUBSET Target
  BY DEF GrantsOf
<1>3. ThreadsOK'
  BY <1>2, TodoType DEF ListGrants, At
<1> QED
  BY <1>1, <1>3 DEF TypeOK

LEMMA RevokeListedType ==
  ASSUME TypeOK, NEW t \in Thread, RevokeListed(t)
  PROVE  TypeOK'
<1> DEFINE f == frame[t]
<1>1. PICK target \in f.todo :
        LET left == f.todo \ {target}
            r == Revoke(reg, f.user, f.name, target)
        IN  \/ /\ SaveWorks(r)
               /\ GotoWith(t, IF left = {} THEN "denyRead" ELSE "revoke",
                           [f EXCEPT !.todo = left])
            \/ SaveFails(r) /\ Return(t)
  BY DEF RevokeListed
<1>2. /\ pc[t] # "idle" /\ f.user \in User /\ f.name \in Name \cup {NoName}
      /\ target \in Target /\ f.todo \ {target} \in SUBSET Target
  BY AtLabel, FrameFields DEF RevokeListed, At
<1>3. Revoke(reg, f.user, f.name, target) \in RegistryType
  BY <1>2, GrantTypes DEF TypeOK, StoreOK
<1>4. StoreOK'
  BY <1>1, <1>3, SaveType DEF TypeOK
<1>5. ThreadsOK'
  BY <1>1, <1>2, TodoType, ReturnType DEF TypeOK
<1>6. MemoryOK'
  BY QuietMemory DEF RevokeListed, TypeOK
<1> QED
  BY <1>4, <1>5, <1>6 DEF TypeOK

LEMMA DenyReadType ==
  ASSUME TypeOK, NEW t \in Thread, DenyRead(t)
  PROVE  TypeOK'
<1>1. StoreOK' /\ MemoryOK' /\ pc[t] # "idle"
  BY QuietMemory, ReadOnlyType DEF DenyRead, TypeOK, At
<1>2. Return(t) \/ Goto(t, "deny") \/ Goto(t, "broadcast") \/ Goto(t, "block")
  BY DEF DenyRead
<1>3. ThreadsOK'
  BY <1>1, <1>2, CommandGoesTo, ReturnType DEF CommandLabel, TypeOK
<1> QED
  BY <1>1, <1>3 DEF TypeOK

LEMMA DoDenyType ==
  ASSUME TypeOK, NEW t \in Thread, DoDeny(t)
  PROVE  TypeOK'
<1> DEFINE f == frame[t]
<1>1. pc[t] # "idle" /\ f.user \in User /\ f.name \in Name \cup {NoName}
  BY AtLabel DEF DoDeny, At
<1>2. Deny(reg, f.user, f.name) \in RegistryType
  BY <1>1, DenyType DEF TypeOK, StoreOK
<1>3. Call(t, Exists(reg, f.user, f.name), Deny(reg, f.user, f.name), "broadcast")
  BY DEF DoDeny
<1>4. Exists(reg, f.user, f.name) \in BOOLEAN
  BY DEF Exists, HasMachine
<1> HIDE DEF f
<1> QED
  BY <1>1, <1>2, <1>3, <1>4, CallThenBroadcast DEF f

LEMMA DoBlockType ==
  ASSUME TypeOK, NEW t \in Thread, DoBlock(t)
  PROVE  TypeOK'
<1> DEFINE f == frame[t]
<1>1. pc[t] # "idle" /\ f.user \in User /\ f.name \in Name \cup {NoName}
  BY AtLabel DEF DoBlock, At
<1>2. Exists(reg, f.user, f.name) => Block(reg, f.user, f.name) \in RegistryType
  BY <1>1, BlockType DEF TypeOK, StoreOK
<1>3. Call(t, Exists(reg, f.user, f.name), Block(reg, f.user, f.name), "broadcast")
  BY DEF DoBlock
<1>4. Exists(reg, f.user, f.name) \in BOOLEAN
  BY DEF Exists, HasMachine
<1> HIDE DEF f
<1> QED
  BY <1>1, <1>2, <1>3, <1>4, CallThenBroadcast DEF f

LEMMA BroadcastType ==
  ASSUME TypeOK, NEW t \in Thread, Broadcast(t)
  PROVE  TypeOK'
BY QuietMemory, ReadOnlyType, ReturnType DEF Broadcast, TypeOK

LEMMA IdleThreads ==
  ASSUME pc = [t \in Thread |-> "idle"], frame = [t \in Thread |-> NoFrame]
  PROVE  ThreadsOK
BY DEF ThreadsOK, LocalsOK, JoinLabel, Label

LEMMA RestartType ==
  ASSUME TypeOK, Restart
  PROVE  TypeOK'
<1>1. StoreOK'
  BY EnsureAdminType DEF Restart, TypeOK, StoreOK
<1>2. MemoryOK'
  BY BoundsAreNumbers DEF Restart, TypeOK, MemoryOK, NoNodes
<1>3. ThreadsOK'
  BY DEF Restart, ThreadsOK, LocalsOK, JoinLabel, Label
<1> QED
  BY <1>1, <1>2, <1>3 DEF TypeOK

LEMMA InitType == Init => TypeOK
<1> SUFFICES ASSUME Init PROVE TypeOK
  OBVIOUS
<1>1. StoreOK
  BY EmptyRegistryType, EnsureAdminType, BoundsAreNumbers DEF Init, StoreOK
<1>2. MemoryOK
  BY BoundsAreNumbers DEF Init, MemoryOK, NoNodes
<1>3. ThreadsOK
  BY IdleThreads DEF Init
<1> QED
  BY <1>1, <1>2, <1>3 DEF TypeOK

LEMMA NextType == TypeOK /\ [Next]_vars => TypeOK'
<1> SUFFICES ASSUME TypeOK, [Next]_vars PROVE TypeOK'
  OBVIOUS
<1>1. CASE Join
  BY <1>1, JoinRequestType, JoinProofType, GetUserType, RegisterNewType, ProvenType,
     RegisterType, EnsureInSubnetType, RebindDesiredType, AutoApproveType, DesiredOfType,
     AnswerType, ReplyType
  DEF Join
<1>2. CASE Signed
  BY <1>2, VerifyType, HeardType DEF Signed
<1>3. ASSUME NEW t \in Thread, Handle(t) PROVE TypeOK'
  BY <1>3, ConsoleCommandType, AllocateType, AssignType, AllowReadType, DoAllowType,
     DoUnblockType, DoGrantType, ApproveReadType, NotifyType, LookUpEndpointType,
     RememberPushType, RevokeToType, ListGrantsType, RevokeListedType, DenyReadType, DoDenyType, DoBlockType,
     BroadcastType
  DEF Handle
<1>4. CASE Restart
  BY <1>4, RestartType
<1>5. CASE UNCHANGED vars
  BY <1>5 DEF vars, TypeOK, StoreOK, MemoryOK, ThreadsOK
<1> QED
  BY <1>1, <1>2, <1>3, <1>4, <1>5 DEF Next

\* In every interleaving of any number of handlers, with failing saves and
\* restarts, every variable keeps its type, and a handler that goes on after
\* another one has changed the registry still has what its next call needs.
THEOREM TypeCorrect == Spec => []TypeOK
<1> QED
  BY InitType, NextType, PTL DEF Spec

=============================================================================
