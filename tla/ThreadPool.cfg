\* Three workers, two submitting threads of two tasks each.
SPECIFICATION FairSpec
CONSTANTS
  Workers = {w1, w2, w3}
  Submitters = {s1, s2}
  TasksPerThread = 2
  NoTask = NoTask
  NoThread = NoThread
INVARIANTS
  TypeOK
  WorkConserving
  NothingDiscarded
PROPERTIES
  ImplementsTaskPool
  EveryTaskStarts
CHECK_DEADLOCK FALSE
