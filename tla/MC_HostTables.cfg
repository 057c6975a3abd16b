SPECIFICATION Spec
\* The error table stops after MaxCycles cycles (ClearErrorTable's guard);
\* the shadow table goes on from cycle to cycle.
CHECK_DEADLOCK FALSE
INVARIANTS ErrTypeOK ShippedExactly ShadowTypeOK RegistersCleanly MapMatchesPages SgChunksFreed
