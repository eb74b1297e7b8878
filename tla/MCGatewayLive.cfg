SPECIFICATION FairSpec
CONSTANTS
  r1 = r1
  r2 = r2
  r3 = r3
  d1 = d1
  d2 = d2
  Requests <- TwoRequests
  Devices <- OneDevice
  Senders <- OneDevice
  Sent <- QueryingKinds
  Phantom = Phantom
  Manager = Manager
  thread_pool_size = 1
  PEND_SEND_RETRIES_MAX = 1
  MaxFailures = 1
PROPERTIES EveryRequestFreed EveryCountLeaves
CHECK_DEADLOCK FALSE
