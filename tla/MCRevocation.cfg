\* f and a converse over the relay while an admin revokes f's grant or blocks f;
\* one datagram, such as a push, is lost, or f gives up on an answer too early.
SPECIFICATION Spec
CONSTANTS
  a = a
  f = f
  g = g
  other = other
  NoTarget = NoTarget
  NotFound = NotFound
  NoEntry = NoEntry
  NoNode = NoNode
  Admin = admin
  Node = {a, f}
  UserOf <- Owners
  OldGrants <- OldGrant
  Commands <- RevokeOrBlock
  MaxChanges = 1
  Tun = tun
  Worker = {w1}
  Started <- Nowhere
  Traffic <- Conversation
  Direct <- Nowhere
  QueueLimit = 1
  MaxPackets = 1
  MaxFaults = 1
  Slow = {f}
INVARIANTS
  NoLeftover
PROPERTIES
  RevokedCallsEnd
