\* Violated: one answer that takes longer than the timeout, and no try ever
\* succeeds again.
SPECIFICATION Spec
CONSTANTS
  Circumstances <- LateOnly
  MaxFaults = 1
PROPERTIES
  ApprovedJoins
