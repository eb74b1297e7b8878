SPECIFICATION Spec
CONSTANTS
  m1 = m1
  m2 = m2
  long = long
  t1 = t1
  t2 = t2
  Msgs <- MCMsgs
  CutOff <- None
  Threads <- TwoThreads
  PEND_SEND_RETRIES_MAX = 1
  OrderedScan = TRUE
  AckEveryCopy = FALSE
  MaxRows = 3
  RequestCap = 2
  NetCap = 2
  MaxWaiting = 1
  MaxDuplicates = 0
  MaxDbFailures = 1
  MaxCrashes = 1
  MaxFaults = 2
SYMMETRY Symmetry
INVARIANTS TypeOK StopsOnDelivery EarlyStopMeansRetired
PROPERTY ImplementsMailbox
