\* Two calls of any tool, five seconds each, one profile at a time; a wait may end one
\* second late, and the reserves are two.
SPECIFICATION Spec
CONSTANTS
  Calls = {c1, c2}
  Offered <- MCOffered
  Budget = 5
  QueryTimeout = 0
  ProfileTimeout = 2
  ContextTimeout = 2
  ContextReserve = 2
  SearchReserve = 2
  AdviceReserve = 2
  AdviceLookup = 2
  MaxAdvice = 2
  MaxConcurrent = 1
  Lag = 1
  MaxNow = 7
SYMMETRY CallSymmetry
INVARIANTS
  LineTellsAnswer
  ReserveKeepsAnswer
  SlotsExact
PROPERTIES
  NothingLate
CHECK_DEADLOCK FALSE
