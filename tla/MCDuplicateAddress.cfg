\* Violated: the console's approval and an admin machine's join allocate the
\* same address.
CONSTANTS
  me = me
  friend = friend
  laptop = laptop
  pc1 = pc1
  ka = ka
  kf = kf
  kg = kg
  lan = lan
  lan2 = lan2
  User = {me, friend}
  Name = {laptop, pc1}
  Key = {ka, kf}
  Admin = me
  Subnet = {lan}
  Host = {2, 3}
  MaxMachines = 2
  ServerName = server
  NoName = NoName
  NoKey = NoKey
  NoAddress = NoAddress
  NoMachine = NoMachine
  NoTarget = NoTarget
  NoFrame = NoFrame
  Thread = {udp, console}
  Udp = udp
  MaxFaults = 0
  MaxRestarts = 0
  Claims <- RenameClaims
  Commands <- FriendCommands
SPECIFICATION Spec
INVARIANTS
  AddressesUnique
