\* The same with one pthread_create that fails: the slot is lost.
SPECIFICATION FairListSpec
CONSTANTS
  t1 = t1
  t2 = t2
  t3 = t3
  t4 = t4
  b1 = b1
  b2 = b2
  b3 = b3
  b4 = b4
  Tasks <- MCTasks3
  Blocks <- MCBlocks
  Null = Null
  max_threads = 2
  MaxCreateFailures = 1
PROPERTY EveryJobCompletes
CHECK_DEADLOCK FALSE
