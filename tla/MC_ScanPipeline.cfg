CONSTANTS
  EntryCnts <- MC_EntryCnts
  SglMax = 3
  PreHashNum = 2
  PreHashOn = TRUE
  FailOn = TRUE
SPECIFICATION Spec
\* do_ksm_v3 returns and the scan stops; ScanTerminates checks that it
\* does not stop anywhere else.
CHECK_DEADLOCK FALSE
INVARIANTS TypeOK PreHashHitCorrect PreHashWithinWindow ScanCompleteAtReturn
PROPERTIES ScanInOrder ScanTerminates
