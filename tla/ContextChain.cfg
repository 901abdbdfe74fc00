\* Two calls that ask the same keys of one source, with deadlines passed or to
\* come, a loop late by one tick, a secret that changes, and fairness.
SPECIFICATION FairSpec
CONSTANTS
  Calls = {c1, c2}
  Providers = {p1}
  Asks = {"unmapped", "unmappable", "partly"}
  Timeouts = {0, 2}
  MaxConcurrency = 2
  CutWait = 1
  Grace = 3
  RetryAfter = 1
  RefusedRetry = 3
  NoCall = NoCall
  NoBreaker = NoBreaker
  StartBy = 1
  MaxTime = 7
  MaxLag = 1
  MaxBatches = 1
  MaxRotations = 1
  MaxResets = 0
INVARIANTS
  OverIsOver
  CancelledOnce
  EndsInTime
PROPERTIES
  CallEnds
