\* A window read or allocation may fail; the pre-hash thread is off.
CONSTANTS
  EntryCnts <- MC_EntryCnts
  SglMax = 3
  PreHashNum = 2
  PreHashOn = FALSE
  FailOn = TRUE
SPECIFICATION Spec
\* do_ksm_v3 returns and the scan stops.
CHECK_DEADLOCK FALSE
INVARIANT NoMetadataUseAfterCleanup
