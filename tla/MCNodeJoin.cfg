\* An admin may leave the node waiting for ever, in either circumstances.
SPECIFICATION Spec
CONSTANTS
  Circumstances <- Both
  MaxFaults = 3
INVARIANTS
  TypeOK
  Lockstep
  NodeSurvives
  JoinedWasApproved
PROPERTIES
  JoinsOnceApproved
