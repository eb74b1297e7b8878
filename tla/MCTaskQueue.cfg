\* Four jobs, in four blocks, on two threads, one failing pthread_create.
SPECIFICATION FairListSpec
CONSTANTS
  t1 = t1
  t2 = t2
  t3 = t3
  t4 = t4
  b1 = b1
  b2 = b2
  b3 = b3
  b4 = b4
  Tasks <- MCTasks4
  Blocks <- MCBlocks
  Null = Null
  max_threads = 2
  MaxCreateFailures = 1
INVARIANTS
  TypeOK
  EveryThreadFindsAJob
  UpperThreadsLimit
  WorkConserving
  DrainedDestroyIsSafe
  ListIsQueue
PROPERTIES
  ImplementsPool
  EveryJobCompletesUnlessThreadsFail
CHECK_DEADLOCK FALSE
