\* Pool 0 of main(): one worker, whose one task main() added.
SPECIFICATION FairSpec
CONSTANTS
  Workers = {w1}
  Submitters = {main}
  TasksPerThread = 1
  NoTask = NoTask
  NoThread = NoThread
PROPERTY DestroyReturns
CHECK_DEADLOCK FALSE
