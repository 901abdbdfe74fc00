\* Two callers, twice each, and one that asks maps, while the file is written three times
\* and a read of it fails once.
SPECIFICATION Spec
CONSTANTS
  c1 = c1
  c2 = c2
  m1 = m1
  Callers = {c1, c2}
  Askers = {m1}
  MaxWrites = 3
  MaxFaults = 1
  MaxCalls = 2
SYMMETRY Interchangeable
INVARIANTS
  FreshAnswer
  NoOnlyWhileRead
PROPERTIES
  ServesLastGood
CHECK_DEADLOCK FALSE
