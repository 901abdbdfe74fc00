\* Two reads of tables with no fault; one read of tables, and one of four terms, two at a
\* time, with two faults.
SPECIFICATION MCSpec
CONSTANTS
  r1 = r1
  r2 = r2
  t1 = t1
  t2 = t2
  x1 = x1
  x2 = x2
  Reads = {r1, r2}
  Addresses = 2
  Types <- MCTypes
  Tables = {x1, x2}
  Holder <- MCHolder
  Closed = {x2}
  Keys = 4
  BatchSize = 2
  MaxConcurrent = 2
  MaxHops = 1
  MaxRotations = 1
  MaxResets = 1
  MaxTroubles = 2
INVARIANTS
  RefusedOnce
  NoTypeLost
  RefusalTold
CHECK_DEADLOCK FALSE
