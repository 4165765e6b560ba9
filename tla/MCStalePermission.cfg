\* Violated: direct packets get through both ways, and nothing is lost.
SPECIFICATION Spec
CONSTANTS
  a = a
  f = f
  g = g
  other = other
  NoTarget = NoTarget
  NotFound = NotFound
  NoEntry = NoEntry
  NoNode = NoNode
  Admin = admin
  Node = {a, f}
  UserOf <- Owners
  OldGrants <- OldGrant
  Commands <- RevokeOrBlock
  MaxChanges = 1
  Tun = tun
  Worker = {w1}
  Started <- Nowhere
  Traffic <- Conversation
  Direct <- BothWays
  QueueLimit = 1
  MaxPackets = 1
  MaxFaults = 0
  Slow = {}
PROPERTIES
  RevokedCallsEnd
