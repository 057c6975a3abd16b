\* Every RDMA read and allocation succeeds.
CONSTANTS
  EntryCnts <- MC_EntryCnts
  SglMax = 3
  PreHashNum = 2
  PreHashOn = TRUE
  FailOn = FALSE
SPECIFICATION Spec
\* do_ksm_v3 returns and the scan stops.
CHECK_DEADLOCK FALSE
INVARIANT NoFreedWindowRead
