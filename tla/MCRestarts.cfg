\* One thread; a save may fail and the server may die at any call and restart
\* under another subnet.
CONSTANTS
  me = me
  friend = friend
  laptop = laptop
  pc1 = pc1
  ka = ka
  kf = kf
  kg = kg
  lan = lan
  lan2 = lan2
  User = {me, friend}
  Name = {laptop, pc1}
  Key = {ka, kf}
  Admin = me
  Subnet = {lan, lan2}
  Host = {2, 3}
  MaxMachines = 2
  ServerName = server
  NoName = NoName
  NoKey = NoKey
  NoAddress = NoAddress
  NoMachine = NoMachine
  NoTarget = NoTarget
  NoFrame = NoFrame
  Thread = {udp}
  Udp = udp
  MaxFaults = 1
  MaxRestarts = 1
  Claims <- PinClaims
  Commands <- ShortCommands
SPECIFICATION Spec
INVARIANTS
  AddressesUnique
  ReplyAddressInSubnet
  PendingHasNoAddress
PROPERTIES
  ImplementsMembership
