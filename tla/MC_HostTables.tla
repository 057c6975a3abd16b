---------------------------- MODULE MC_HostTables ----------------------------
(***************************************************************************)
(* The host's two registered tables, side by side as ksmd holds them: the *)
(* error table of the replay's failures and one address space's shadow   *)
(* page table.  They share no state; each step is a step of one of them.  *)
(***************************************************************************)
EXTENDS Naturals

VARIABLES
  tables, eCapacity, total, registered, eAccepted, nextLog, ePhase, win, shipped, cycle,
  arrays, sCapacity, cnt, xa, walked, sAccepted, sPhase, chunks, regPages, mapRead, leaked

evars == <<tables, eCapacity, total, registered, eAccepted, nextLog, ePhase, win, shipped, cycle>>
svars == <<arrays, sCapacity, cnt, xa, walked, sAccepted, sPhase, chunks, regPages, mapRead, leaked>>

\* Page and table allocations of grow_error_table may fail; the krealloc
\* of entry_tables does not (MC_FailArray: it does).
MC_FailSoft == {"newtable", "grow"}
MC_FailArray == {"array"}

\* Every allocation of the shadow table but the unchecked krealloc of
\* va_arrays may fail.
MC_ShadowFailSoft == {"newpage", "grow", "xa"}

\* Pages of two entries; a table of four entries, so six failures fill a
\* first table and grow a second; windows of two pages for the error
\* table, of four pages in chunks of three entries for the shadow table.
E == INSTANCE ErrorTable WITH
       PageEntries <- 2, MaxEntries <- 4, SglPages <- 2, MaxLogs <- 6, MaxCycles <- 2,
       FailModes <- MC_FailSoft, capacity <- eCapacity, accepted <- eAccepted, phase <- ePhase
S == INSTANCE ShadowTable WITH
       PageEntries <- 2, MaxCap <- 4, SglPages <- 4, ChunkSize <- 3, MaxVaArrays <- 3, MaxPagesDescs <- 2,
       Vas <- 1..6, FailModes <- MC_ShadowFailSoft,
       capacity <- sCapacity, accepted <- sAccepted, phase <- sPhase

Init == E!Init /\ S!Init
Next == (E!Next /\ UNCHANGED svars) \/ (S!Next /\ UNCHANGED evars)
Spec == Init /\ [][Next]_<<evars, svars>>

ErrTypeOK == E!TypeOK
ShippedExactly == E!ShippedExactly
ShadowTypeOK == S!TypeOK
RegistersCleanly == S!RegistersCleanly
MapMatchesPages == S!MapMatchesPages
SgChunksFreed == S!SgChunksFreed
=============================================================================
