\* Two threads of f and one of a fill their caches from one channel each.  Direct
\* packets get through from f to g, and no datagram is lost.
SPECIFICATION Spec
CONSTANTS
  a = a
  f = f
  g = g
  other = other
  NoTarget = NoTarget
  NotFound = NotFound
  NoEntry = NoEntry
  NoNode = NoNode
  Admin = admin
  Node = {a, f, g}
  UserOf <- Owners
  OldGrants <- NoGrants
  Commands <- NoCommands
  MaxChanges = 0
  Tun = tun
  Worker = {w1}
  Started <- AtAAndF
  Traffic <- CallsAndAnswers
  Direct <- FromFToG
  QueueLimit = 1
  MaxPackets = 1
  MaxFaults = 0
  Slow = {}
INVARIANTS
  TypeOK
  CallsWerePermitted
  NoLeftover
  EndpointsAreMutual
PROPERTIES
  ImplementsFirewall
