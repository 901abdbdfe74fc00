\* Six scopes of one to three catalogs, two rows to a page, two catalogs at once
\* with three slots that other calls may hold, and a chain of cursors of each.
SPECIFICATION FairSpec
CONSTANTS
  Worlds <- MCWorlds
  PageSize = 2
  Concurrency = 2
  MaxThreads = 3
  MaxCalls = 4
  NoCursor = NoCursor
  NoStop = NoStop
INVARIANTS
  SameAnswer
  CursorAdvances
  ChainIsWhole
  SlotsExact
PROPERTIES
  CallEnds
