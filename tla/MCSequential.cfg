\* One thread: every command comes through the tunnel, so handlers run one by
\* one.  Two friend machines compete for a name and a pin.
CONSTANTS
  me = me
  friend = friend
  laptop = laptop
  pc1 = pc1
  ka = ka
  kf = kf
  kg = kg
  lan = lan
  lan2 = lan2
  User = {me, friend}
  Name = {laptop, pc1}
  Key = {ka, kf, kg}
  Admin = me
  Subnet = {lan}
  Host = {2, 3, 4}
  MaxMachines = 3
  ServerName = server
  NoName = NoName
  NoKey = NoKey
  NoAddress = NoAddress
  NoMachine = NoMachine
  NoTarget = NoTarget
  NoFrame = NoFrame
  Thread = {udp}
  Udp = udp
  MaxFaults = 0
  MaxRestarts = 0
  Claims <- RivalClaims
  Commands <- AllCommands
SPECIFICATION Spec
INVARIANTS
  TypeOK
  AddressesUnique
  PendingUserOnlyPendingMachines
  BlockedUserHasNoGrants
  GrantsNameApprovedUsers
PROPERTIES
  RemovesOnlyPending
  BlocksHold
  EndpointStays
  ImplementsMembership
