\* Every interleaving of the threads of one query or two, their timers, their
\* stops and the canceller, with fairness, in the two scenes of MCQueryFetch.
SPECIFICATION MCSpec
CONSTANTS
  q1 = q1
  q2 = q2
  Queries = {q1, q2}
  Modes = {{}, {"budget"}, {"cancel"}, {"budget", "cancel"}}
  NoQuery = NoQuery
INVARIANTS
  EndedLeavesNothing
  AnswerIsWhole
  NothingReadsAfterWait
PROPERTIES
  CancelEnds
