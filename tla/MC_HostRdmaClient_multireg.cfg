\* A cycle registers two memory regions (a shadow table and the error table).
CONSTANTS
  MaxCycle = 2
  RegCnts <- MC_RegCntsMany
  LogTables <- MC_LogTables
  Reorder = FALSE
  PromptHandler = TRUE
  Disconnects = FALSE
  EngineFails = FALSE
  \* The engine re-posts its metadata receive before the host's next
  \* SEND arrives (a timing assumption; see README).
  RnrRace = FALSE
  Connect = FALSE
  MaxAttempts = 2
  \* The host's CM reports the connect outcome after ksm_connect_client
  \* has stored CONNECT_REQUEST, and rdma_resolve_route does not fail in
  \* the CM handler (see README).
  CmBeforeStore = FALSE
  RouteFails = FALSE
  AllocFails = FALSE
SPECIFICATION Spec
\* The host stops after MaxCycle cycles.
CHECK_DEADLOCK FALSE
PROPERTIES CyclesComplete
