\* The console's thread runs beside the socket loop: approvals and denials
\* interleave with the joins of two machines that start with one name.
CONSTANTS
  me = me
  friend = friend
  laptop = laptop
  pc1 = pc1
  ka = ka
  kf = kf
  kg = kg
  lan = lan
  lan2 = lan2
  User = {me, friend}
  Name = {laptop, pc1}
  Key = {kf, kg}
  Admin = me
  Subnet = {lan}
  Host = {2, 3}
  MaxMachines = 2
  ServerName = server
  NoName = NoName
  NoKey = NoKey
  NoAddress = NoAddress
  NoMachine = NoMachine
  NoTarget = NoTarget
  NoFrame = NoFrame
  Thread = {udp, console}
  Udp = udp
  MaxFaults = 0
  MaxRestarts = 0
  Claims <- TwinClaims
  Commands <- FriendCommands
SPECIFICATION Spec
INVARIANTS
  NoOrphanMachines
  OneEntryPerKey
  NamesUnique
  ActiveReplyAddressOwned
