\* The instance of KeptFile.cfg, for what the docs promise of a file that changes.
SPECIFICATION Spec
CONSTANTS
  c1 = c1
  c2 = c2
  m1 = m1
  Callers = {c1, c2}
  Askers = {m1}
  MaxWrites = 3
  MaxFaults = 1
  MaxCalls = 2
SYMMETRY Interchangeable
INVARIANTS
  ChangeIsSeen
CHECK_DEADLOCK FALSE
