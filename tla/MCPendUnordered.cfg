SPECIFICATION Spec
CONSTANTS
  m1 = m1
  m2 = m2
  long = long
  t1 = t1
  t2 = t2
  Msgs <- MCMsgs
  CutOff <- None
  Threads <- TwoThreads
  PEND_SEND_RETRIES_MAX = 1
  OrderedScan = FALSE
  AckEveryCopy = FALSE
  MaxRows = 2
  RequestCap = 1
  NetCap = 1
  MaxWaiting = 2
  MaxDuplicates = 0
  MaxDbFailures = 0
  MaxCrashes = 0
  MaxFaults = 2
INVARIANT StopsOnDelivery
