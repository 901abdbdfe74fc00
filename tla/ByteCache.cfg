\* Every interleaving of reads, failures, cancellations, abandons and evictions,
\* with fairness, in the two scenes of MCByteCache.
SPECIFICATION MCSpec
CONSTANTS
  k1 = k1
  k2 = k2
  k3 = k3
  g1 = g1
  g2 = g2
  t1 = t1
  t2 = t2
  t3 = t3
  Tasks = {t1, t2, t3}
  Keys = {k1, k2, k3}
  Groups = {g1, g2}
  GroupOf <- MCGroupOf
  Sizes = {1, 2, 4}
  MaxBytes = 3
  NoTask = NoTask
  NoKey = NoKey
INVARIANTS
  SingleFlight
  AnswersEverything
  BytesExact
PROPERTIES
  WaiterMovesOn
