SPECIFICATION FairSpec
CONSTANTS
  m1 = m1
  m2 = m2
  long = long
  t1 = t1
  t2 = t2
  Msgs <- WithLong
  CutOff <- Long
  Threads <- OneThread
  PEND_SEND_RETRIES_MAX = 1
  OrderedScan = TRUE
  AckEveryCopy = TRUE
  MaxRows = 2
  RequestCap = 1
  NetCap = 2
  MaxWaiting = 1
  MaxDuplicates = 1
  MaxDbFailures = 1
  MaxCrashes = 1
  MaxFaults = 1
INVARIANT LoneThreadNeverSeesAck
PROPERTY EveryRowRetired
