----------------------------- MODULE ErrorTable -----------------------------
(***************************************************************************)
(* The host's error table (ksm_shadow.c) over several cycles: the replay  *)
(* appends failures with insert_error_log, growing the table with         *)
(* grow_error_table; rdma_register_error_table (ksm_rdma.c) registers its *)
(* pages in windows of MAX_PAGES_IN_SGL pages; the engine reads them      *)
(* window by window in do_handle_error (server.c); clear_error_table      *)
(* empties it for the next cycle.                                         *)
(*                                                                         *)
(* entry_tables is a sequence of tables, each a sequence of cells holding *)
(* the id of the failure written there (0: never written).  A table whose *)
(* pointer was lost (krealloc of entry_tables failed) is not ok: reading  *)
(* through it yields Junk (an oops on a NULL array, or garbage through an *)
(* uninitialised slot of a re-allocated one).  Sizes are in entries: a    *)
(* page holds PageEntries (PAGE_SIZE / sizeof(struct ksm_event_log)), a   *)
(* full table MaxEntries (MAX_RESULT_TABLE_ENTRIES).                      *)
(***************************************************************************)
EXTENDS Naturals, Sequences

CONSTANTS
  PageEntries,  \* log entries per page
  MaxEntries,   \* MAX_RESULT_TABLE_ENTRIES, a power-of-two multiple of PageEntries
  SglPages,     \* MAX_PAGES_IN_SGL: pages per registered window
  MaxLogs,      \* failures the replay reports in the whole run
  MaxCycles,    \* cycles checked
  FailModes     \* allocations of grow_error_table that may fail

ASSUME PageEntries >= 1 /\ MaxEntries >= PageEntries /\ SglPages >= 1
ASSUME FailModes \subseteq {"newtable", "array", "grow"}

VARIABLES
  tables,      \* entry_tables: <<[ok, cells]>>, tables_cnt = Len(tables)
  capacity,    \* error_table->capacity
  total,       \* error_table->total_cnt
  registered,  \* error_table->registered
  accepted,    \* failures insert_error_log accepted (returned 0) since the last clear
  nextLog,     \* id of the next failure the replay reports
  phase,       \* "replay", "sent" (registered, engine reading), "stopped"
  win,         \* next window the engine reads
  shipped,     \* entries the engine has read this cycle
  cycle

vars == <<tables, capacity, total, registered, accepted, nextLog, phase, win, shipped, cycle>>

Junk == 0 - 1
Zeros(n) == [k \in 1..n |-> 0]
DivUp(a, b) == (a + b - 1) \div b
MinOf(a, b) == IF a < b THEN a ELSE b

\* create_error_table: one table of a page.
Init ==
  /\ tables = << [ok |-> TRUE, cells |-> Zeros(PageEntries)] >>
  /\ capacity = PageEntries /\ total = 0 /\ registered = 0
  /\ accepted = << >> /\ nextLog = 1
  /\ phase = "replay" /\ win = 0 /\ shipped = << >> /\ cycle = 1
-----------------------------------------------------------------------------
(* grow_error_table, as the new [tables, capacity] for an allocation      *)
(* outcome: "ok", or the mode of the allocation that failed.              *)

CurCapacity == capacity - MaxEntries * (Len(tables) - 1)
NewCapacity == CurCapacity * 2

\* Mutant: the last table's growth adds the whole new capacity.
GrowErrorTableAddsNew(outcome) ==
  IF NewCapacity > MaxEntries
    THEN CASE outcome = "newtable" -> [t |-> tables, c |-> capacity]
           [] outcome = "array" ->
                [t |-> [i \in 1..Len(tables) |-> [tables[i] EXCEPT !.ok = FALSE]], c |-> capacity]
           [] OTHER -> [t |-> Append(tables, [ok |-> TRUE, cells |-> Zeros(PageEntries)]),
                        c |-> capacity + PageEntries]
    ELSE CASE outcome = "grow" -> [t |-> tables, c |-> capacity]
           [] OTHER ->
                LET last == Len(tables)
                IN  [t |-> [tables EXCEPT ![last].cells =
                                @ \o Zeros(NewCapacity - CurCapacity)],
                     c |-> capacity + NewCapacity]

GrowErrorTable(outcome) ==
  IF NewCapacity > MaxEntries
    THEN CASE outcome = "newtable" -> [t |-> tables, c |-> capacity]
           \* entry_tables = krealloc(...) failed: the pointer array is lost
           [] outcome = "array" ->
                [t |-> [i \in 1..Len(tables) |-> [tables[i] EXCEPT !.ok = FALSE]], c |-> capacity]
           [] OTHER -> [t |-> Append(tables, [ok |-> TRUE, cells |-> Zeros(PageEntries)]),
                        c |-> capacity + PageEntries]
    ELSE CASE outcome = "grow" -> [t |-> tables, c |-> capacity]
           [] OTHER ->
                LET last == Len(tables)
                IN  [t |-> [tables EXCEPT ![last].cells =
                                @ \o Zeros(NewCapacity - CurCapacity)],
                     c |-> capacity + (NewCapacity - CurCapacity)]

\* The outcomes a grow may have here: success, or a failure of an
\* allocation the branch it takes makes.
Outcomes ==
  {"ok"} \cup {f \in FailModes :
                 IF NewCapacity > MaxEntries THEN f \in {"newtable", "array"}
                 ELSE f = "grow"}

\* Write failure id e at entry cnt: array_idx = cnt / MAX, idx = cnt % MAX.
WriteAt(tbls, cnt, e) ==
  [tbls EXCEPT ![(cnt \div MaxEntries) + 1].cells[(cnt % MaxEntries) + 1] = e]

\* Mutant: no second capacity check after a failed grow.
InsertErrorLogNoRecheck ==
  /\ phase = "replay" /\ nextLog <= MaxLogs
  /\ \E outcome \in (IF total >= capacity THEN Outcomes ELSE {"ok"}) :
       LET g == IF total >= capacity THEN GrowErrorTable(outcome)
                ELSE [t |-> tables, c |-> capacity]
       IN  /\ capacity' = g.c
           /\ tables' = WriteAt(g.t, total, nextLog)
           /\ total' = total + 1
           /\ accepted' = Append(accepted, nextLog)
  /\ nextLog' = nextLog + 1
  /\ UNCHANGED <<registered, phase, win, shipped, cycle>>

\* insert_error_log: grow when full; still full, drop (-1); else write and count.
InsertErrorLog ==
  /\ phase = "replay" /\ nextLog <= MaxLogs
  /\ \E outcome \in (IF total >= capacity THEN Outcomes ELSE {"ok"}) :
       LET g == IF total >= capacity THEN GrowErrorTable(outcome)
                ELSE [t |-> tables, c |-> capacity]
       IN  /\ capacity' = g.c
           /\ IF total >= g.c
                THEN tables' = g.t /\ UNCHANGED <<total, accepted>>
                ELSE /\ tables' = WriteAt(g.t, total, nextLog)
                     /\ total' = total + 1
                     /\ accepted' = Append(accepted, nextLog)
  /\ nextLog' = nextLog + 1
  /\ UNCHANGED <<registered, phase, win, shipped, cycle>>
-----------------------------------------------------------------------------
(* Registration and the engine's read.                                    *)

\* rdma_register_error_table: registered = total_cnt, pages and windows.
TotalPages == DivUp(registered, PageEntries)
SglNum == DivUp(TotalPages, SglPages)
ThisSglSize(w) == IF w = SglNum - 1 THEN TotalPages - w * SglPages ELSE SglPages

\* The k-th entry (0-based) of window w as the engine finds it: the page
\* registered there is entry_tables[array_idx][entry_idx] with entry_pos
\* = PageEntries * page.
ReadEntry(w, k) ==
  LET page == w * SglPages + (k \div PageEntries)
      pos  == PageEntries * page
      a    == (pos \div MaxEntries) + 1
      e    == (pos % MaxEntries) + (k % PageEntries) + 1
  IN  IF a <= Len(tables) /\ tables[a].ok /\ e <= Len(tables[a].cells)
        THEN tables[a].cells[e] ELSE Junk

RegisterErrorTable ==
  /\ phase = "replay"
  /\ registered' = total
  /\ phase' = "sent" /\ win' = 0 /\ shipped' = << >>
  /\ UNCHANGED <<tables, capacity, total, accepted, nextLog, cycle>>

\* do_handle_error reads window win: MIN(remaining, window entries) entries.
EngineReadWindow ==
  /\ phase = "sent" /\ win < SglNum
  /\ LET remaining == registered - Len(shipped)
         cnt == MinOf(remaining, ThisSglSize(win) * PageEntries)
     IN  shipped' = shipped \o [k \in 1..cnt |-> ReadEntry(win, k - 1)]
  /\ win' = win + 1
  /\ UNCHANGED <<tables, capacity, total, registered, accepted, nextLog, phase, cycle>>

\* After the cycle, clear_error_table: registered must equal total_cnt,
\* else debug_stop.
ClearErrorTable ==
  /\ phase = "sent" /\ win = SglNum /\ cycle < MaxCycles
  /\ IF registered = total
       THEN /\ registered' = 0 /\ total' = 0 /\ accepted' = << >>
            /\ phase' = "replay" /\ cycle' = cycle + 1
       ELSE phase' = "stopped" /\ UNCHANGED <<registered, total, accepted, cycle>>
  /\ UNCHANGED <<tables, capacity, nextLog, win, shipped>>

Next == InsertErrorLog \/ RegisterErrorTable \/ EngineReadWindow \/ ClearErrorTable

Spec == Init /\ [][Next]_vars
-----------------------------------------------------------------------------
TypeOK ==
  /\ \A i \in 1..Len(tables) : tables[i].ok \in BOOLEAN
  /\ capacity \in Nat /\ total \in 0..capacity /\ registered \in 0..total
  /\ phase \in {"replay", "sent", "stopped"}
  /\ (phase = "sent" => win \in 0..SglNum) /\ cycle \in 1..MaxCycles

\* Once the engine has read every registered window, it has read exactly
\* the failures insert_error_log accepted since the last clear, in order:
\* the growth, the page registration and do_handle_error's windows agree
\* on where each entry lives.
ShippedExactly == (phase = "sent" /\ win = SglNum) => shipped = accepted
=============================================================================
