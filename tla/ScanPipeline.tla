---------------------------- MODULE ScanPipeline ----------------------------
(***************************************************************************)
(* The three threads of one scan (server.c do_ksm_v3, ksm_page_worker and  *)
(* server.h pre_hash_worker / start_pre_hash_pair_table /                  *)
(* lookup_pre_hash_pair).                                                  *)
(*                                                                         *)
(*  - The driver reads each shadow page table, then each window of at most *)
(*    MAX_PAGES_IN_SGL pages into a fresh buffer, and hands it to the      *)
(*    worker through worker_todo under page_worker_mutex.  After handing a *)
(*    window it frees the previous one; after the last window of a table  *)
(*    it waits for WORK_DONE, resets worker_todo and frees the last one.   *)
(*  - The worker holds page_worker_mutex for a whole window.  Every        *)
(*    PRE_HASH_NUM pages it asks the pre-hash thread (spinlock and status  *)
(*    word) to hash the next pages, stopping a run still in progress, and *)
(*    for each page uses a pre-computed hash when pre_hash_pair_curr_idx   *)
(*    says it is ready.                                                    *)
(*  - The pre-hash thread hashes its run page by page into the chunk and   *)
(*    bumps the atomic index after each page.                              *)
(*                                                                         *)
(* A buffer is named by the number of the window it holds; the hash of a  *)
(* page is the page itself, <<table, entry>>, and a zeroed chunk entry is  *)
(* ZeroHash.  Locked check-and-update sections are single steps; a spin    *)
(* iteration that changes nothing is not a step.                           *)
(***************************************************************************)
EXTENDS Naturals, Sequences, FiniteSets

CONSTANTS
  EntryCnts,     \* entry_cnt of each shadow page table, in order
  SglMax,        \* MAX_PAGES_IN_SGL
  PreHashNum,    \* PRE_HASH_NUM
  PreHashOn,     \* pre_hash_opt
  FailOn         \* whether the RDMA reads and allocations of do_ksm_v3 may fail

ASSUME SglMax >= 1 /\ PreHashNum >= 1 /\ PreHashOn \in BOOLEAN /\ FailOn \in BOOLEAN

VARIABLES
  dpc, dt, dsgl, cur, prev, freed, scanned,   \* driver (do_ksm_v3)
  job,                                        \* worker_todo
  wpc, wi, whash, processed,                  \* ksm_page_worker
  pstatus, ppc, pi, pbase, pmax, pidx, chunk, \* pre-hash thread and its table
  cleaned                                     \* cleanup_rdma_cb has run

driver  == <<dpc, dt, dsgl, cur, prev, freed, scanned>>
worker  == <<wpc, wi, whash, processed>>
prehash == <<pstatus, ppc, pi, pbase, pmax, pidx, chunk>>
vars    == <<driver, job, worker, prehash, cleaned>>

Scan == INSTANCE PageScan WITH handled <- processed

NoBuf    == 0
ZeroHash == <<0, 0>>
NoHash   == <<0, 1>>

\* DIV_ROUND_UP(entry_cnt, MAX_PAGES_IN_SGL) and this_sgl_size.
SglNums(t) == (EntryCnts[t] + SglMax - 1) \div SglMax
SglSize(t, s) == IF s = SglNums(t) - 1 THEN EntryCnts[t] - s * SglMax ELSE SglMax

\* Windows are numbered 1, 2, ... across the tables in scan order.
WindowId(t, s) ==
  LET RECURSIVE Before(_)
      Before(u) == IF u = 0 THEN 0 ELSE SglNums(u) + Before(u - 1)
  IN  Before(t - 1) + s + 1

\* The windows of all tables in scan order: the table, idx_adjust and size.
Windows ==
  LET RECURSIVE From(_)
      From(t) == IF t > Len(EntryCnts) THEN << >>
                 ELSE [s \in 1..SglNums(t) |->
                         [t |-> t, adj |-> (s - 1) * SglMax, num |-> SglSize(t, s - 1)]]
                      \o From(t + 1)
  IN  From(1)

\* The page at offset j of the window held by buffer b.
PageAt(b, j) == <<Windows[b].t, Windows[b].adj + j>>

MinNat(a, b) == IF a < b THEN a ELSE b

\* The worker's next step at page i of its window: ask for a pre-hash run
\* first when i is a multiple of PRE_HASH_NUM.
WorkerStep(i) == IF PreHashOn /\ i % PreHashNum = 0 THEN "start" ELSE "page"

\* calculate_hash_pair(page) for page i of the window: the pre-computed hash
\* when lookup_pre_hash_pair finds page_idx below pre_hash_pair_curr_idx.
CalculateHashPair(b, i) ==
  LET pageIdx == i - pbase.off
  IN  IF PreHashOn /\ pbase.buf = b /\ pageIdx < pidx THEN chunk[pageIdx]
      ELSE PageAt(b, i)

WorkerIdleJob == [status |-> "WORKER_READY", t |-> 0, buf |-> NoBuf, num |-> 0, adj |-> 0]

Init ==
  /\ dpc = "table" /\ dt = 1 /\ dsgl = 0 /\ cur = NoBuf /\ prev = NoBuf
  /\ freed = {} /\ scanned = 0
  /\ job = WorkerIdleJob
  /\ wpc = "idle" /\ wi = 0 /\ whash = NoHash /\ processed = << >>
  /\ pstatus = "WORKER_READY" /\ ppc = "idle" /\ pi = 0
  /\ pbase = [buf |-> NoBuf, off |-> 0] /\ pmax = 0 /\ pidx = 0
  /\ chunk = [j \in 0..PreHashNum - 1 |-> ZeroHash]
  /\ cleaned = FALSE
-----------------------------------------------------------------------------
(* Driver: do_ksm_v3.                                                      *)

\* Read shadow page table dt (malloc, calloc, ibv_reg_mr, RDMA read).  The
\* calloc of an empty table is a zeroed chunk, so va2dma_map[0].va == 0 and
\* do_ksm_v3 returns -1, followed by cleanup_rdma_cb.
DriverReadTable ==
  /\ dpc = "table" /\ dt <= Len(EntryCnts)
  /\ dsgl' = 0
  /\ dpc' = IF EntryCnts[dt] = 0 THEN "failed" ELSE "window"
  /\ cleaned' = (EntryCnts[dt] = 0)
  /\ UNCHANGED <<dt, cur, prev, freed, scanned, job, worker, prehash>>

\* malloc, ibv_reg_mr and rdma_read_memory of window dsgl.
DriverReadWindow ==
  /\ dpc = "window"
  /\ cur' = WindowId(dt, dsgl)
  /\ dpc' = "hand"
  /\ UNCHANGED <<dt, dsgl, prev, freed, scanned, job, worker, prehash, cleaned>>

DriverHandNoWait ==
  /\ dpc = "hand"
  /\ scanned' = scanned + job.num
  /\ job' = [status |-> "DATA_READY", t |-> dt, buf |-> cur,
             num |-> SglSize(dt, dsgl), adj |-> dsgl * SglMax]
  /\ freed' = IF prev = NoBuf THEN freed ELSE freed \cup {prev}
  /\ prev' = cur
  /\ dsgl' = dsgl + 1
  /\ dpc' = IF dsgl + 1 < SglNums(dt) THEN "window" ELSE "drain"
  /\ UNCHANGED <<dt, cur, worker, prehash, cleaned>>

\* Hand the window to the worker once it is ready or done, then free the
\* previous window.
DriverHand ==
  /\ dpc = "hand"
  /\ job.status \in {"WORK_DONE", "WORKER_READY"}
  /\ scanned' = scanned + job.num
  /\ job' = [status |-> "DATA_READY", t |-> dt, buf |-> cur,
             num |-> SglSize(dt, dsgl), adj |-> dsgl * SglMax]
  /\ freed' = IF prev = NoBuf THEN freed ELSE freed \cup {prev}
  /\ prev' = cur
  /\ dsgl' = dsgl + 1
  /\ dpc' = IF dsgl + 1 < SglNums(dt) THEN "window" ELSE "drain"
  /\ UNCHANGED <<dt, cur, worker, prehash, cleaned>>

DriverDrainDropsCount ==
  /\ dpc = "drain"
  /\ job.status = "WORK_DONE"
  /\ job' = WorkerIdleJob
  /\ freed' = IF prev = NoBuf THEN freed ELSE freed \cup {prev}
  /\ prev' = NoBuf
  /\ dt' = dt + 1
  /\ dpc' = "table"
  /\ UNCHANGED <<dsgl, cur, scanned, worker, prehash, cleaned>>

\* Wait for the last window of the table, reset worker_todo, free the last
\* window and go on with the next table.
DriverDrain ==
  /\ dpc = "drain"
  /\ job.status = "WORK_DONE"
  /\ scanned' = scanned + job.num
  /\ job' = WorkerIdleJob
  /\ freed' = IF prev = NoBuf THEN freed ELSE freed \cup {prev}
  /\ prev' = NoBuf
  /\ dt' = dt + 1
  /\ dpc' = "table"
  /\ UNCHANGED <<dsgl, cur, worker, prehash, cleaned>>

\* All tables done: prune_metadata runs and do_ksm_v3 returns scanned_cnt.
DriverFinish ==
  /\ dpc = "table" /\ dt > Len(EntryCnts)
  /\ dpc' = "done"
  /\ UNCHANGED <<dt, dsgl, cur, prev, freed, scanned, job, worker, prehash, cleaned>>

\* An allocation, registration or RDMA read fails, or the table read back
\* has va 0: do_ksm_v3 returns -1 without waiting for the worker, and
\* on_established calls cleanup_rdma_cb, which destroys the metadata.
DriverFail ==
  /\ FailOn
  /\ \/ dpc = "table" /\ dt <= Len(EntryCnts)
     \/ dpc = "window"
  /\ dpc' = "failed"
  /\ cleaned' = TRUE
  /\ UNCHANGED <<dt, dsgl, cur, prev, freed, scanned, job, worker, prehash>>
-----------------------------------------------------------------------------
(* Worker: ksm_page_worker, holding page_worker_mutex for a whole window.  *)

\* Lock the mutex and find DATA_READY: start on page 0 of the window.
WorkerTake ==
  /\ wpc = "idle"
  /\ job.status = "DATA_READY"
  /\ wi' = 0
  /\ wpc' = WorkerStep(0)
  /\ UNCHANGED <<driver, job, whash, processed, prehash, cleaned>>

StartPreHashKeepsIdx ==
  /\ wpc = "start"
  /\ pstatus \in {"WORKER_READY", "WORK_DONE"}
  /\ pbase' = [buf |-> job.buf, off |-> wi]
  /\ pmax' = MinNat(PreHashNum, job.num - wi)
  /\ pstatus' = "DATA_READY"
  /\ wpc' = "page"
  /\ UNCHANGED <<driver, job, wi, whash, processed, ppc, pi, pidx, chunk, cleaned>>

StartPreHashFullRun ==
  /\ wpc = "start"
  /\ pstatus \in {"WORKER_READY", "WORK_DONE"}
  /\ pbase' = [buf |-> job.buf, off |-> wi]
  /\ pidx' = 0
  /\ pmax' = PreHashNum
  /\ pstatus' = "DATA_READY"
  /\ wpc' = "page"
  /\ UNCHANGED <<driver, job, wi, whash, processed, ppc, pi, chunk, cleaned>>

\* start_pre_hash_pair_table(page, max_idx) finding the pre-hash thread
\* ready or done: publish the new run (base, index 0, max_idx) as DATA_READY.
StartPreHash ==
  /\ wpc = "start"
  /\ pstatus \in {"WORKER_READY", "WORK_DONE"}
  /\ pbase' = [buf |-> job.buf, off |-> wi]
  /\ pidx' = 0
  /\ pmax' = MinNat(PreHashNum, job.num - wi)
  /\ pstatus' = "DATA_READY"
  /\ wpc' = "page"
  /\ UNCHANGED <<driver, job, wi, whash, processed, ppc, pi, chunk, cleaned>>

\* start_pre_hash_pair_table finding a run in progress: ask it to STOP and
\* spin until the pre-hash thread reports WORK_DONE.
StopPreHash ==
  /\ wpc = "start"
  /\ pstatus = "IN_PROGRESS"
  /\ pstatus' = "STOP"
  /\ UNCHANGED <<driver, job, worker, ppc, pi, pbase, pmax, pidx, chunk, cleaned>>

\* lookup_rmap_item and ksm_ops (cmp_and_merge_one) on page wi, which hash
\* it with calculate_hash_pair; after the last page, WORK_DONE and unlock.
WorkerPage ==
  /\ wpc = "page"
  /\ whash' = CalculateHashPair(job.buf, wi)
  /\ processed' = Append(processed, PageAt(job.buf, wi))
  /\ wi' = wi + 1
  /\ IF wi + 1 = job.num
       THEN /\ job' = [job EXCEPT !.status = "WORK_DONE"]
            /\ wpc' = "idle"
       ELSE /\ wpc' = WorkerStep(wi + 1)
            /\ UNCHANGED job
  /\ UNCHANGED <<driver, prehash, cleaned>>
-----------------------------------------------------------------------------
(* Pre-hash thread: pre_hash_worker.                                      *)

\* DATA_READY: mark the run IN_PROGRESS and zero the chunk.
PreHashTake ==
  /\ ppc = "idle"
  /\ pstatus = "DATA_READY"
  /\ pstatus' = "IN_PROGRESS"
  /\ chunk' = [j \in 0..PreHashNum - 1 |-> ZeroHash]
  /\ pi' = 0
  /\ ppc' = "run"
  /\ UNCHANGED <<driver, job, worker, pbase, pmax, pidx, cleaned>>

\* Not stopped: hash page pi of the run from the buffer at the base, store
\* it, then atomic_fetch_add the index.
PreHashPage ==
  /\ ppc = "run"
  /\ pi < pmax
  /\ pstatus /= "STOP"
  /\ chunk' = [chunk EXCEPT ![pi] = PageAt(pbase.buf, pbase.off + pi)]
  /\ pidx' = pidx + 1
  /\ pi' = pi + 1
  /\ UNCHANGED <<driver, job, worker, pstatus, ppc, pbase, pmax, cleaned>>

PreHashStopKeepsStatus ==
  /\ ppc = "run"
  /\ pi < pmax
  /\ pstatus = "STOP"
  /\ ppc' = "idle"
  /\ UNCHANGED <<driver, job, worker, pstatus, pi, pbase, pmax, pidx, chunk, cleaned>>

\* STOP seen before a page: break out of the loop and report WORK_DONE.
PreHashStop ==
  /\ ppc = "run"
  /\ pi < pmax
  /\ pstatus = "STOP"
  /\ pstatus' = "WORK_DONE"
  /\ ppc' = "idle"
  /\ UNCHANGED <<driver, job, worker, pi, pbase, pmax, pidx, chunk, cleaned>>

\* Loop finished: report WORK_DONE (over a STOP that came too late).
PreHashFinish ==
  /\ ppc = "run"
  /\ pi = pmax
  /\ pstatus' = "WORK_DONE"
  /\ ppc' = "idle"
  /\ UNCHANGED <<driver, job, worker, pi, pbase, pmax, pidx, chunk, cleaned>>
-----------------------------------------------------------------------------
DriverNext ==
  \/ DriverReadTable \/ DriverReadWindow \/ DriverHand \/ DriverDrain
  \/ DriverFinish \/ DriverFail
WorkerNext == WorkerTake \/ StartPreHash \/ StopPreHash \/ WorkerPage
PreHashNext == PreHashTake \/ PreHashPage \/ PreHashStop \/ PreHashFinish

Next == DriverNext \/ WorkerNext \/ PreHashNext

\* Each thread busy-polls its lock and status word on its own core, so a
\* step that stays enabled is eventually taken.
Fairness == WF_vars(DriverNext) /\ WF_vars(WorkerNext) /\ WF_vars(PreHashNext)

Spec == Init /\ [][Next]_vars /\ Fairness
-----------------------------------------------------------------------------
Statuses == {"NO_WORKER", "WORKER_READY", "DATA_READY", "IN_PROGRESS", "WORK_DONE", "STOP"}
Pages    == {Scan!AllPages[k] : k \in 1..Len(Scan!AllPages)}

\* Every variable has its type; a chunk entry is zero or a page's hash.
TypeOK ==
  /\ dpc \in {"table", "window", "hand", "drain", "done", "failed"}
  /\ scanned \in 0..Len(Scan!AllPages)
  /\ job.status \in Statuses /\ job.num \in 0..SglMax
  /\ wpc \in {"idle", "start", "page"} /\ wi \in 0..SglMax
  /\ pstatus \in Statuses /\ ppc \in {"idle", "run"}
  /\ pidx \in 0..PreHashNum /\ pi \in 0..PreHashNum
  /\ chunk \in [0..PreHashNum - 1 -> Pages \cup {ZeroHash}]
  /\ cleaned \in BOOLEAN

\* The hash cmp_and_merge_one gets for a page, from the pre-hash chunk or
\* computed, is the hash of that very page: a pre-hash hit never returns an
\* entry of an earlier run or a zeroed one (lookup_pre_hash_pair trusts
\* pre_hash_pair_curr_idx against the base the worker last published).
PreHashHitCorrect ==
  processed /= << >> => whash = processed[Len(processed)]

\* The page the pre-hash thread is about to hash lies inside the window it
\* was given: start_pre_hash_pair_table bounds the run by the pages left
\* after the worker's index, across stops and restarts, so neither the run
\* of the last pages of a window nor a restart reads past num_pages.
PreHashWithinWindow ==
  (ppc = "run" /\ pi < pmax /\ pstatus /= "STOP")
    => pbase.off + pi < Windows[pbase.buf].num

\* When do_ksm_v3 returns its count, every page of every table has been
\* handed to cmp_and_merge_one, no window is still with the worker (so
\* prune_metadata does not race it), and scanned_cnt equals the pages done.
ScanCompleteAtReturn ==
  dpc = "done" =>
    /\ processed = Scan!AllPages
    /\ job.status = "WORKER_READY"
    /\ scanned = Len(processed)

\* No thread reads a window buffer after the driver has freed it: neither
\* the worker on its page nor the pre-hash thread on the page it is about
\* to hash.
NoFreedWindowRead ==
  /\ wpc = "page" => job.buf \notin freed
  /\ (ppc = "run" /\ pi < pmax /\ pstatus /= "STOP") => pbase.buf \notin freed

\* When cleanup_rdma_cb has destroyed the metadata after a failed scan, the
\* worker holds no window whose pages it would still look up and merge.
NoMetadataUseAfterCleanup ==
  cleaned => (wpc = "idle" /\ job.status /= "DATA_READY")

\* Pages reach cmp_and_merge_one in table and va2dma_map order, each once:
\* the pipeline implements PageScan with processed as its handled pages.
ScanInOrder == Scan!Spec

\* The scan always ends: do_ksm_v3 returns (with its count or -1) under the
\* three threads' fair scheduling.
ScanTerminates == <>(dpc \in {"done", "failed"})
=============================================================================
