----------------------------- MODULE ShadowTable -----------------------------
(***************************************************************************)
(* One address space's shadow page table (ksm_shadow.c) over the cycles   *)
(* of a run: the host walks the address space and appends each page with *)
(* insert_entry_to_shadow_mm, growing the table with                      *)
(* grow_shadow_page_table; rdma_register_shadow_mms (ksm_rdma.c) registers *)
(* the map (the va arrays) and the pages, window by window, as chained    *)
(* scatterlists; the engine reads both (do_ksm_v3); rdma_unregister_-     *)
(* shadow_mms and free_shadow_mm release them and the next pass starts    *)
(* from create_empty.                                                     *)
(*                                                                         *)
(* A page is named by its virtual page number, which is also its frame:   *)
(* the engine must find, at map entry k and window position k, the same  *)
(* page.  va_arrays is a sequence of arrays of cells holding the va       *)
(* written there (0: never written).  Sizes are in entries: a page holds  *)
(* PageEntries shadow_ptes, a full array MaxCap (MAX_CAPACITY_PER_TABLE). *)
(***************************************************************************)
EXTENDS Naturals, Sequences, SequencesExt

CONSTANTS
  PageEntries,  \* PAGE_SIZE / sizeof(struct shadow_pte)
  MaxCap,       \* MAX_CAPACITY_PER_TABLE, a power-of-two multiple of PageEntries
  SglPages,     \* MAX_PAGES_IN_SGL: pages per registered window
  ChunkSize,    \* SG_CHUNK_SIZE: scatterlist entries per chained chunk
  MaxVaArrays,  \* MAX_VA_ARRAYS
  MaxPagesDescs, \* MAX_PAGES_DESCS: windows pages_mr[] and desc_entries[] can hold
  Vas,          \* virtual page numbers the host may walk (all > 0)
  FailModes     \* allocations that may fail: "newpage", "array", "grow", "xa"

ASSUME PageEntries >= 1 /\ MaxCap >= PageEntries /\ SglPages >= 1 /\ ChunkSize >= 2 /\ MaxPagesDescs >= 1
ASSUME Vas \subseteq Nat \ {0} /\ FailModes \subseteq {"newpage", "array", "grow", "xa"}

VARIABLES
  arrays,     \* pt_map.va_arrays: <<[cells]>>, va_array_cnt = Len(arrays)
  capacity,   \* pt_map.capacity
  cnt,        \* pt_map.cnt
  xa,         \* pt_map.page_xa: the pages indexed by va
  walked,     \* the last va the host's walk reached
  accepted,   \* the vas insert_entry_to_shadow_mm accepted (returned 0), in order
  phase,      \* "build", "registered", "read", "stopped" (debug_stop), "oops"
  chunks,     \* per registered window, the pages of each chained chunk
  regPages,   \* the pages registered in the windows, in order
  mapRead,    \* va2dma_map as the engine read it
  leaked      \* scatterlist chunks free_shadow_mm failed to free

vars == <<arrays, capacity, cnt, xa, walked, accepted, phase, chunks, regPages, mapRead, leaked>>

Junk == 0
Zeros(n) == [k \in 1..n |-> 0]
DivUp(a, b) == (a + b - 1) \div b
SumOf(s) == FoldSeq(LAMBDA x, y : x + y, 0, s)

\* Mutant: the entry count not reset for the new table.
EmptyKeepsCnt ==
  /\ arrays' = << Zeros(PageEntries) >>
  /\ capacity' = PageEntries /\ UNCHANGED cnt /\ xa' = {}
  /\ walked' = 0 /\ accepted' = << >> /\ phase' = "build"
  /\ chunks' = << >> /\ regPages' = << >> /\ mapRead' = << >>

\* create_empty: one array of a page.
Empty ==
  /\ arrays' = << Zeros(PageEntries) >>
  /\ capacity' = PageEntries /\ cnt' = 0 /\ xa' = {}
  /\ walked' = 0 /\ accepted' = << >> /\ phase' = "build"
  /\ chunks' = << >> /\ regPages' = << >> /\ mapRead' = << >>

Init ==
  /\ arrays = << Zeros(PageEntries) >>
  /\ capacity = PageEntries /\ cnt = 0 /\ xa = {}
  /\ walked = 0 /\ accepted = << >> /\ phase = "build"
  /\ chunks = << >> /\ regPages = << >> /\ mapRead = << >> /\ leaked = 0
-----------------------------------------------------------------------------
(* grow_shadow_page_table, as the new [t, c, oops] for an allocation      *)
(* outcome: "ok", or the mode of the allocation that failed.              *)

CurCapacity == capacity - MaxCap * (Len(arrays) - 1)
NewCapacity == CurCapacity * 2

\* Mutant: the last array's growth adds the whole new capacity.
GrowShadowPageTableAddsNew(outcome) ==
  IF NewCapacity > MaxCap
    THEN CASE outcome = "newpage" -> [t |-> arrays, c |-> capacity, oops |-> FALSE]
           [] outcome = "array" -> [t |-> arrays, c |-> capacity, oops |-> TRUE]
           [] OTHER -> [t |-> Append(arrays, Zeros(PageEntries)),
                        c |-> capacity + PageEntries, oops |-> FALSE]
    ELSE CASE outcome = "grow" -> [t |-> arrays, c |-> capacity, oops |-> FALSE]
           [] OTHER -> [t |-> [arrays EXCEPT ![Len(arrays)] =
                                 @ \o Zeros(NewCapacity - CurCapacity)],
                        c |-> capacity + NewCapacity, oops |-> FALSE]

GrowShadowPageTable(outcome) ==
  IF NewCapacity > MaxCap
    THEN CASE outcome = "newpage" -> [t |-> arrays, c |-> capacity, oops |-> FALSE]
           \* va_arrays = krealloc(...) is not checked: NULL[va_array_cnt++] oopses
           [] outcome = "array" -> [t |-> arrays, c |-> capacity, oops |-> TRUE]
           [] OTHER -> [t |-> Append(arrays, Zeros(PageEntries)),
                        c |-> capacity + PageEntries, oops |-> FALSE]
    ELSE CASE outcome = "grow" -> [t |-> arrays, c |-> capacity, oops |-> FALSE]
           [] OTHER -> [t |-> [arrays EXCEPT ![Len(arrays)] =
                                 @ \o Zeros(NewCapacity - CurCapacity)],
                        c |-> capacity + (NewCapacity - CurCapacity), oops |-> FALSE]

GrowOutcomes ==
  {"ok"} \cup {f \in FailModes :
                 IF NewCapacity > MaxCap THEN f \in {"newpage", "array"}
                 ELSE f = "grow"}

\* Write va at entry n: array_idx = n / MAX, idx = n % MAX.  A write past
\* the arrays lands in other memory: no entry of the table holds it.
WriteAt(arrs, n, va) ==
  LET a == (n \div MaxCap) + 1
      e == (n % MaxCap) + 1
  IN  IF a <= Len(arrs) /\ e <= Len(arrs[a]) THEN [arrs EXCEPT ![a][e] = va] ELSE arrs

\* The host's walk reaches page va (addresses ascend) and calls
\* insert_entry_to_shadow_mm: grow when full; still full, -1; write the
\* entry, then xa_insert (on failure -1, the entry not counted); cnt++.
InsertEntryToShadowMm ==
  /\ phase = "build"
  /\ \E va \in {v \in Vas : v > walked} :
     \E outcome \in (IF cnt >= capacity THEN GrowOutcomes ELSE {"ok"}) :
     \E xaOk \in (IF "xa" \in FailModes THEN BOOLEAN ELSE {TRUE}) :
       LET g == IF cnt >= capacity THEN GrowShadowPageTable(outcome)
                ELSE [t |-> arrays, c |-> capacity, oops |-> FALSE]
       IN  /\ walked' = va
           /\ IF g.oops
                THEN phase' = "oops" /\ UNCHANGED <<arrays, capacity, cnt, xa, accepted>>
                ELSE /\ capacity' = g.c /\ UNCHANGED phase
                     /\ IF cnt >= g.c
                          THEN arrays' = g.t /\ UNCHANGED <<cnt, xa, accepted>>
                          ELSE /\ arrays' = WriteAt(g.t, cnt, va)
                               /\ IF xaOk
                                    THEN /\ cnt' = cnt + 1 /\ xa' = xa \cup {va}
                                         /\ accepted' = Append(accepted, va)
                                    ELSE UNCHANGED <<cnt, xa, accepted>>
  /\ UNCHANGED <<chunks, regPages, mapRead, leaked>>
-----------------------------------------------------------------------------
(* rdma_register_shadow_mms: windows of MAX_PAGES_IN_SGL pages, each a    *)
(* chain of scatterlist chunks of SG_CHUNK_SIZE entries whose last entry  *)
(* links to the next chunk, so a chunk but the last holds SG_CHUNK_SIZE-1 *)
(* pages.                                                                  *)

SglNum == DivUp(cnt, SglPages)
ThisSglSize(w) == IF w = SglNum - 1 THEN cnt - w * SglPages ELSE SglPages

\* iters for a window of n pages.
Iters(n) ==
  IF n <= ChunkSize THEN 1
  ELSE ((n - ChunkSize) + (ChunkSize - 1) - 1) \div (ChunkSize - 1) + 1

\* The pages each chunk of a window of n pages registers.
Chunks(n) ==
  [i \in 1..Iters(n) |->
     IF i = Iters(n) THEN n - (Iters(n) - 1) * (ChunkSize - 1) ELSE ChunkSize - 1]

\* va_idx of every page the loops register, window by window, chunk by chunk.
VaIdxs ==
  FlattenSeq([w \in 1..SglNum |->
    LET ch == Chunks(ThisSglSize(w - 1))
    IN  FlattenSeq([i \in 1..Len(ch) |->
          [k \in 1..ch[i] |-> (w - 1) * SglPages + SumOf(SubSeq(ch, 1, i - 1)) + k - 1]])])

\* get_va_at: the va of entry idx.
GetVaAt(idx) ==
  LET a == idx \div MaxCap
      e == idx - a * MaxCap + 1
  IN  IF a + 1 <= Len(arrays) /\ e <= Len(arrays[a + 1]) THEN arrays[a + 1][e] ELSE Junk

\* The pages of page_xa in index order, as xas_next_entry returns them.
XaOrder == SetToSortSeq(xa, LAMBDA x, y : x < y)

\* For each registered page, get_va_at (BUG_ON idx >= cnt) must name the
\* page xas_next_entry returns (else debug_stop).  More than MAX_PAGES_DESCS
\* windows are only logged: the window after the last slot writes
\* pages_mr[] and desc_entries[] past their end once its pages are set.
\* Then BUG_ON(va_array_cnt > MAX_VA_ARRAYS); the map's pages must fit one
\* window (else debug_stop).
RdmaRegisterShadowMms ==
  /\ phase = "build"
  /\ LET idxs    == VaIdxs
         reached == {p \in DOMAIN idxs : idxs[p] < (MaxPagesDescs + 1) * SglPages}
         oops    == \E p \in reached : idxs[p] >= cnt
         stop    == \E p \in reached :
                      p > Len(XaOrder) \/ GetVaAt(idxs[p]) /= XaOrder[p]
     IN  /\ phase' = CASE oops -> "oops"
                       [] stop -> "stopped"
                       [] SglNum > MaxPagesDescs -> "oops"
                       [] Len(arrays) > MaxVaArrays -> "oops"
                       [] capacity \div PageEntries >= SglPages -> "stopped"
                       [] OTHER -> "registered"
         /\ chunks' = [w \in 1..SglNum |-> Chunks(ThisSglSize(w - 1))]
         /\ regPages' = IF oops \/ stop THEN << >> ELSE [p \in DOMAIN idxs |-> XaOrder[p]]
  /\ UNCHANGED <<arrays, capacity, cnt, xa, walked, accepted, mapRead, leaked>>
-----------------------------------------------------------------------------
(* The engine reads the map through the map MR, whose pages are those of  *)
(* each va array in turn (a full array but the last).                     *)

\* Mutant: the map's pages taken one entry apart (j++).
MapPagesStepOne ==
  FlattenSeq([a \in 1..Len(arrays) |->
    LET size == IF a = Len(arrays) THEN capacity - (a - 1) * MaxCap ELSE MaxCap
    IN  [j \in 1..DivUp(size, PageEntries) |-> [a |-> a, off |-> j - 1]]])

MapPages ==
  FlattenSeq([a \in 1..Len(arrays) |->
    LET size == IF a = Len(arrays) THEN capacity - (a - 1) * MaxCap ELSE MaxCap
    IN  [j \in 1..DivUp(size, PageEntries) |-> [a |-> a, off |-> (j - 1) * PageEntries]]])

\* Map entry k (0-based) as the engine finds it.
MapEntry(k) ==
  LET pg == MapPages[(k \div PageEntries) + 1]
      e  == pg.off + (k % PageEntries) + 1
  IN  IF e <= Len(arrays[pg.a]) THEN arrays[pg.a][e] ELSE Junk

\* do_ksm_v3 reads entry_cnt map entries; the windows bring regPages.
EngineReadMap ==
  /\ phase = "registered"
  /\ mapRead' = [k \in 1..cnt |-> MapEntry(k - 1)]
  /\ phase' = "read"
  /\ UNCHANGED <<arrays, capacity, cnt, xa, walked, accepted, chunks, regPages, leaked>>
-----------------------------------------------------------------------------
(* free_shadow_mm walks each window's chain: the chunk's entry this_size-1 *)
(* is a chain link (free, follow), the end mark (free, stop), or neither  *)
(* ("Invalid sg", the same chunk again).  It returns the chunks freed.    *)
\* Mutant: a chunk's chain link looked for one entry early.
RECURSIVE FreeFromLinkEarly(_, _, _, _, _)
FreeFromLinkEarly(n, ch, c, i, freed) ==
  IF i >= Iters(n) THEN 0
  ELSE LET ts    == IF i = Iters(n) - 1 THEN n - freed ELSE ChunkSize - 1
           lastc == c = Len(ch)
       IN  CASE ts = 0 -> 0
             [] ~lastc /\ ts = ChunkSize -> 1 + FreeFromLinkEarly(n, ch, c + 1, i + 1, freed + ts - 1)
             [] lastc /\ ts = ch[c] -> 1
             [] OTHER -> FreeFromLinkEarly(n, ch, c, i + 1, freed + ts - 1)

RECURSIVE FreeFrom(_, _, _, _, _)
FreeFrom(n, ch, c, i, freed) ==
  IF i >= Iters(n) THEN 0
  ELSE LET ts    == IF i = Iters(n) - 1 THEN n - freed ELSE ChunkSize
           lastc == c = Len(ch)
       IN  CASE ts = 0 -> 0
             [] ~lastc /\ ts = ChunkSize -> 1 + FreeFrom(n, ch, c + 1, i + 1, freed + ts - 1)
             [] lastc /\ ts = ch[c] -> 1
             [] OTHER -> FreeFrom(n, ch, c, i + 1, freed + ts - 1)

\* rdma_unregister_shadow_mms, free_shadow_mm; the next ksmd pass starts
\* from create_empty.
RdmaUnregisterShadowMms ==
  /\ phase = "read"
  /\ leaked' = leaked + SumOf([w \in DOMAIN chunks |->
                  Len(chunks[w]) - FreeFrom(ThisSglSize(w - 1), chunks[w], 1, 0, 0)])
  /\ Empty

Next == InsertEntryToShadowMm \/ RdmaRegisterShadowMms \/ EngineReadMap \/ RdmaUnregisterShadowMms

Spec == Init /\ [][Next]_vars
-----------------------------------------------------------------------------
TypeOK ==
  /\ cnt \in 0..capacity /\ xa \subseteq Vas /\ leaked \in Nat
  /\ phase \in {"build", "registered", "read", "stopped", "oops"}
  /\ \A a \in 1..Len(arrays) : \A e \in DOMAIN arrays[a] : arrays[a][e] \in Vas \cup {0}

\* After the engine has read an address space, map entry k and the page at
\* window position k are both the k-th page insert_entry_to_shadow_mm
\* accepted: the growth, get_va_at, the chained windows and the map's page
\* list agree on where each entry lives.
MapMatchesPages == phase = "read" => mapRead = accepted /\ regPages = accepted

\* For a table the host built by walking its pages in order,
\* rdma_register_shadow_mms never reaches debug_stop or a BUG: get_va_at
\* finds, at every va_idx the window and chunk loops compute, the page
\* page_xa returns next.
RegistersCleanly == phase \notin {"stopped", "oops"}

\* free_shadow_mm frees every scatterlist chunk rdma_register_shadow_mms
\* allocated: its walk of the chain stays in step with the registration's.
SgChunksFreed == leaked = 0
=============================================================================
