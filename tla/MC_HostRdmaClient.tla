------------------------- MODULE MC_HostRdmaClient -------------------------
(* Three host cycles and results of zero or one log table.  A cycle       *)
(* registers one memory region, two (a table and the error table), or    *)
(* none (nothing new to register).                                        *)
EXTENDS HostRdmaClient

MC_RegCnts     == {1}
MC_RegCntsMany == {1, 2}
MC_RegCntsZero == {0, 1}
MC_LogTables   == {0, 1}
=============================================================================
