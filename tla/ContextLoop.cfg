\* Two tool calls read while the process closes, interrupted by two signals.
SPECIFICATION MCSpec
CONSTANTS
  c1 = c1
  c2 = c2
  s1 = s1
  s2 = s2
  Callers = {c1, c2}
  Signals = {s1, s2}
  Main = Main
  Worker = Worker
INVARIANTS
  CloseHolds
PROPERTIES
  CallersEnd
  ShutdownEnds
