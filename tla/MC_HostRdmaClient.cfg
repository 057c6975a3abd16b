\* Connection set-up with one failed attempt possible; then the connection may drop, and the engine's cycle may fail, at any point.
CONSTANTS
  MaxCycle = 3
  RegCnts <- MC_RegCnts
  LogTables <- MC_LogTables
  Reorder = FALSE
  PromptHandler = TRUE
  Disconnects = TRUE
  EngineFails = TRUE
  \* The engine re-posts its metadata receive before the host's next
  \* SEND arrives (a timing assumption; see README).
  RnrRace = FALSE
  Connect = TRUE
  MaxAttempts = 2
  \* The host's CM reports the connect outcome after ksm_connect_client
  \* has stored CONNECT_REQUEST, and rdma_resolve_route does not fail in
  \* the CM handler (see README).
  CmBeforeStore = FALSE
  RouteFails = FALSE
  AllocFails = FALSE
SPECIFICATION Spec
\* The host stops after MaxCycle cycles, or after a disconnect, where the
\* caller tears down; CyclesComplete checks that it stops only there.
CHECK_DEADLOCK FALSE
INVARIANTS TypeOK ResultOfThisCycle RegPollSeesOwnCompletion ReadsThisCyclesLog
  CyclesOnAcceptedConnection
PROPERTIES CyclesComplete
