\* Calls of two callers while what Trino lists changes, in the four scenes of MCShown.
SPECIFICATION MCSpec
CONSTANTS
  c1 = c1
  c2 = c2
  alice = alice
  bob = bob
  root = root
  hive = hive
  hs = hs
  tab = tab
  join = join
  third = third
  ca = ca
  cb = cb
  cd = cd
  jp = jp
  other = other
  os = os
  canary = canary
  Sources <- MCSources
  Room = 6
  MaxColumns = 2
  Calls = {c1, c2}
  Callers = {alice, bob}
  Names = {root, hive, hs, tab, join, third, ca, cb, cd, jp, other, os, canary}
  Root = root
  Parent <- MCParent
  Table = tab
  Columns <- MCColumns
  Target = join
  Canary = canary
  Hidden = Hidden
  Worlds <- MCWorlds
  Gatherings <- MCGatherings
  Readings <- MCReadings
  MaxNames = 2
  MaxEntries = 4
  Life = 1
  Budget = 1
  MaxTime = 4
SYMMETRY Interchangeable
INVARIANTS
  AsksOnlyTold
  AnswerHolds
PROPERTIES
  ShownWasTold
  ContextIsChecked
