\* Three calls, two reads at once, breakers that outlive calls and that calls
\* outlive, and a signal that lifts the refusals.
SPECIFICATION Spec
CONSTANTS
  Calls = {c1, c2, c3}
  Providers = {p1}
  Asks = {"missing"}
  Timeouts = {3}
  MaxConcurrency = 2
  CutWait = 1
  Grace = 3
  RetryAfter = 3
  RefusedRetry = 2
  NoCall = NoCall
  NoBreaker = NoBreaker
  StartBy = 2
  MaxTime = 7
  MaxLag = 0
  MaxBatches = 1
  MaxRotations = 0
  MaxResets = 1
SYMMETRY Interchangeable
INVARIANTS
  ActiveExact
PROPERTIES
  OutageNeverShortensRefusal
  BurstOpensOnce
