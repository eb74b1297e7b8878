SPECIFICATION Spec
CONSTANTS
  r1 = r1
  r2 = r2
  r3 = r3
  d1 = d1
  d2 = d2
  Requests <- TwoRequests
  Devices <- OneDevice
  Senders <- Anybody
  Sent <- AnyLength
  Phantom = Phantom
  Manager = Manager
  thread_pool_size = 2
  PEND_SEND_RETRIES_MAX = 1
  MaxFailures = 0
INVARIANT ReportIsServingLog
CHECK_DEADLOCK FALSE
