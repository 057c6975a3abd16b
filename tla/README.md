# TLA+ models of the BASK offloaded KSM engine

This directory holds TLA+ models of the kernel same-page-merging (KSM) system in `src/codes`.
The system splits KSM between a host kernel and a remote merge engine reached over RDMA.
TLC checks the models.
`PROJECT.json` lists every component, run, mutant, finding and hazard.
Its `map` ties every modelled definition to the source lines it translates.

## 1. The system

| Part | Source | What it does |
|---|---|---|
| Merge metadata | `bask/server.h` | `rmap_item` per (mm_id, va): state None/Volatile/Unstable/Stable, pfn, old_pfn, old_hash, volatility_score, skip_cnt, age, last_access, stable_node. `stable_node` (page_hash, pfn, shared_cnt, sharer tree, chain {HEAD/CHAIN, next, prev}). Stable hash table keyed by page hash (holds HEADs). Unstable hash table keyed by an item's old_hash. |
| Compare-and-merge | `bask/server.c` `lookup_rmap_item`, `cmp_and_merge_one` | Per page. A Stable page whose pfn moved leaves its node. A Stable page whose content changed moves its whole chain to the new hash. A Volatile page may be skipped, compared with its old hash, merged into a stable node, paired with an unstable page into a new node, or parked as Unstable. Every decision is appended to the decision log. |
| Reconciliation | `do_handle_error` | At the start of a cycle, reads the host's error table window by window and replays it. HOST_MERGE_ONE_FAILED detaches one page; HOST_MERGE_TWO_FAILED resets every sharer of a node and frees it; anything else stops the engine. |
| Pruning | `prune_metadata` | At the end of a scan, empties the unstable table and removes items not seen for two iterations. |
| Cycle loop | `on_established` | Receive the request; clear the previous log; handle errors; scan (`do_ksm_v3`); send the result descriptor; `iteration += 1`. |
| Scan pipeline | `do_ksm_v3`, `ksm_page_worker`, `pre_hash_worker` | The driver reads each shadow page table and its page windows over RDMA and hands each window to the worker thread under `page_worker_mutex`. The worker asks a pre-hash thread, through a spinlock and an atomic index, to hash pages ahead of it. |
| Host RDMA client | `bask/client_stub.c` | The kernel-side client. A completion handler and the connection-manager handler write one state word, `cb->state`, that `ksm_rdma_reg_mr`, `ksm_rdma_meta_send` and `ksm_rdma_result_recv` wait on. |
| Host error table | `mm/ksm_shadow.c`, `mm/ksm_rdma.c` | `insert_error_log` appends the replay's failures, growing the table with `grow_error_table`; `rdma_register_error_table` registers its pages in windows; `clear_error_table` empties it. |
| Host shadow page tables | `mm/ksm_shadow.c`, `mm/ksm_rdma.c` | `insert_entry_to_shadow_mm` appends (va, pfn) per page walked and indexes the page in an xarray; `rdma_register_shadow_mms` registers the map and the pages as windows of chained scatterlists; `rdma_unregister_shadow_mms` / `free_shadow_mm` release them. |
| Host replay and walk | kernel `ksm.c` (not in this repository) | Walks the address spaces, applies each logged decision when the pages still allow it and reports the rest in the next error table. |

Per cycle: the host walks its address spaces into shadow page tables, registers them and the error table, and sends a descriptor; the engine reconciles the error table, scans, and returns its log; the host reads the log, replays it, and the failures become the next error table.

## 2. Modules

* **`MergeMetadata.tla`**: the engine's data structures and every helper of `server.h`, plus `lookup_rmap_item`, `cmp_and_merge_one`, the legacy `cmp_and_merge_one_old` (`CmpAndMergeOneOld`), the `do_handle_error` entries and `prune_metadata`. Each helper is an operator from one metadata record to the next; a C function that calls helpers in sequence applies their operators in the same order. Page hashes are the page content (a member of `Contents`); items and nodes are integers. A fresh item's `volatility_score` and `skip_cnt` are chosen from `0..GarbageCap`, because `lookup_rmap_item` never initialises them. `insert_ksm_log` drops the entry when the table is full and `realloc` fails; `room` is how many entries the log takes in the current cycle, chosen from `LogRooms` when the next request clears the log (a fault model of the allocator).
* **`KsmCycle.tla`**: composes the engine with the host. `ksmOps`, fixed in `Init` from `KsmOps`, is the engine's `ksm_ops` (the `old` flag selects the legacy function and turns smart scan off); `iter` starts at `FirstIter` with empty metadata, and `lookup_rmap_item` stores it in the item's `short last_access` with `Short`, the 16-bit truncation. Engine actions, one per step of `on_established`: `HandleError`, `StartScan`, `ScanPage`, `EndScan`, `NextIteration`. Host actions, modelled from `spec.md` because `ksm.c` is not in the repository (`spec_modelled` in the map): `HostReplay`, `HostWrite` (copy-on-write for KSM frames), `HostUnmap`.
* **`ScanPipeline.tla`**: the three threads of one scan. Driver actions follow `do_ksm_v3` (read table, read window, hand, drain, finish, fail); worker actions follow `ksm_page_worker` (take a window, start or stop a pre-hash run, one page); pre-hash actions follow `pre_hash_worker`. A locked check-and-update section is one step. An empty table fails `do_ksm_v3` at the `va2dma_map[0].va == 0` check, since `calloc` zeroes its chunk, so the drain loop is never reached without a window. Buffers are named by window; the hash of a page is the page itself.
* **`PageScan.tla`**: the abstract specification of a scan: the pages of the shadow tables reach `cmp_and_merge_one` one at a time, in table order, each exactly once (`AllPages` is a RECURSIVE operator). `ScanPipeline` instantiates it with `handled <- processed` and checks `Scan!Spec` as the property `ScanInOrder`: the pipeline refines the abstract scan.
* **`HostRdmaClient.tla`**: one RDMA connection between `client_stub.c` and the engine's `on_established` loop, with the adapter between them. The host CQ is a FIFO of completions `[k, s]` with `s` in `ok`, `flush` (`IB_WC_WR_FLUSH_ERR`) and `rnr` (retry exceeded); `sq` and `esq` hold each side's outstanding signaled work requests in order, `ecq` is the engine's CQ, and `hqp`/`eqp` are the queue pairs' states. Host actions are the steps of `ksm_rdma_reg_mr`, `ksm_rdma_meta_send` and `ksm_rdma_result_recv`; handler actions are `ksm_rdma_cq_event_handler`'s entry (return at once in `ERROR`, otherwise re-arm), one poll, and return. Engine actions are the steps of `on_established`: take the metadata receive (clearing the previous log), the RDMA reads of `do_handle_error`/`do_ksm_v3`, register the log and post the result SEND, wait for it, re-post the metadata receive; `EngineTake` is `wait_cq_event_and_poll`, which takes whatever completion is first and calls `debug_stop` (`epc = "hung"`) on a failed one. `logOf` is the cycle whose decisions the registered log table holds (0 once cleared), and `rdata` the cycle whose log the host's RDMA read returned. `EngineFail` is any of `on_established`'s error returns into `cleanup_rdma_cb` (queue pair destroyed, disconnect sent), `EngineExit` the return to `run_event_loop`. `Disconnect` is the `RDMA_CM_EVENT_DISCONNECTED` case of the host's CM handler; `HwFlush` and `EngineFlush` flush each side's outstanding work into its CQ. Constants select the behaviours: `Reorder` (a SEND's acknowledgement may arrive after the engine's reply), `PromptHandler`, `Disconnects`, `EngineFails`, `RnrRace` (see below), and the numbers of registrations and result tables per cycle. With `Connect` the session starts with `ksm_rdma_create_connection`: `HostSetup`, `HostAddrWake`, `HostConnect`, `HostConnStore`, `HostConnWake` and `HostRetry` are its steps (create the CM id and resolve the address, wait for `ROUTE_RESOLVED`, set up and post the result receive and `rdma_connect`, store `CONNECT_REQUEST`, wait for `CONNECTED`, tear down and retry); `CmAddr`, `CmRoute` and `CmConnect` are the CM handler's events (`cmev` is the next one); `EngineListen` is `start_listening` and `HwConnectRequest` the request reaching the engine, which accepts (`on_connect_request`) if it listens and otherwise rejects. Every attempt but the last (`MaxAttempts`) may fail. `CmBeforeStore` and `RouteFails` select the two connect races below; `AllocFails` lets the allocations of `ksm_rdma_result_recv` fail (`AllocOutcomes`).
* **`ErrorTable.tla`**: the error table across cycles. `GrowErrorTable(outcome)` returns the table after `grow_error_table` for each allocation outcome: success, the new page failing, `krealloc` of `entry_tables` failing (the array is lost: every table becomes unreadable), or `krealloc` of the last table failing. `InsertErrorLog` grows when full, drops the entry when still full, and writes at `cnt / MAX, cnt % MAX`. `ReadEntry` is where the engine finds entry k of window w through the registered pages.
* **`ShadowTable.tla`**: one address space's shadow page table across cycles. The host's walk (ascending addresses, modelled from spec.md 4.3) calls `InsertEntryToShadowMm`, whose growth mirrors the error table's. `RdmaRegisterShadowMms` computes, with `Iters`, `Chunks` and `VaIdxs`, every `va_idx` the window and chunk loops visit, and applies the code's checks in order: `get_va_at`'s `BUG_ON`, the match with `xas_next_entry` (`debug_stop`), `BUG_ON(va_array_cnt > MAX_VA_ARRAYS)`, and the map-page limit. `MapPages` / `MapEntry` are where the engine finds map entry k. `FreeFrom` (RECURSIVE) is `free_shadow_mm`'s walk of a window's chained chunks. Unregistering starts the next pass from `create_empty`.
* **MC modules**: `MC_KsmCycle`, `MC_ScanPipeline` and `MC_HostRdmaClient` give the constants TLC instantiates. `MC_HostTables` instantiates `ErrorTable` and `ShadowTable` side by side (they share no state) so that both are checked in one run.

## 3. Runs

| Run | Config | Expect | What it shows |
|---|---|---|---|
| `cycle_core` | `MC_KsmCycle.cfg` | pass | Both `cmp_and_merge_one` and the legacy `cmp_and_merge_one_old`, 4 pages, 2 contents, `MAX_PAGE_SHARING = 2`, 3 iterations, 2 host writes/unmaps, failed merges, and a log whose `realloc` may fail after one entry in any cycle but the first. `TypeOK`, `StableItemsConsistent`, `SharedCountExact`, `ChainsWellFormed`, `UnstableTableExact`, `NoErrStop` (no branch of `cmp_and_merge_one`, `do_handle_error` or `prune_metadata` reaches `ERR_LOG_AND_STOP`, though all three node addresses can be in use; with three sharers per node it fails, see `undo_two_then_one`), and `EngineMatchesHost`: at every scan start, each frame the host shares between two pages is the frame of the node the engine holds both in. A decision lost with the log's failed `realloc` leaves a page Stable only on the engine until its next scan of the page detaches it; no property fails. |
| `cycle_smart` | `MC_KsmCycle_smart.cfg` | pass | Smart scan on, garbage initial counters up to 2, 3 pages, the same log failures: skipping never desynchronises the engine from the host. |
| `rehash_orphans_head` | `MC_KsmCycle_rehash.cfg` | violation | `StableTableExact` fails: a stable node rehashed to a content another HEAD holds replaces it in the table (`g_hash_table_insert`), orphaning that HEAD. |
| `undo_two_then_one` | `MC_KsmCycle_undo.cfg` | violation | `NoErrStop` fails with `MAX_PAGE_SHARING = 3`: `HOST_MERGE_TWO_FAILED` resets a page that joined the node later in the cycle, whose `HOST_MERGE_ONE_FAILED` then stops the engine. |
| `scan_pipeline` | `MC_ScanPipeline.cfg` | pass | Tables of 4 and 1 pages in windows of 3, pre-hash runs of 2, window reads that may fail. `TypeOK`; `PreHashHitCorrect` (a pre-hash hit is the hash of the page being merged); `PreHashWithinWindow` (the page a pre-hash run is about to hash lies inside its window, which depends on the worker bounding the last run of a window by the pages left); `ScanCompleteAtReturn`; `ScanInOrder` (the refinement of `PageScan`); `ScanTerminates` (liveness). |
| `prehash_reads_freed_window` | `MC_ScanPipeline_uaf.cfg` | violation | `NoFreedWindowRead` fails: `do_ksm_v3` frees the previous window while the pre-hash thread may still hash it. |
| `cleanup_under_worker` | `MC_ScanPipeline_cleanup.cfg` | violation | `NoMetadataUseAfterCleanup` fails: after a failed window read, `cleanup_rdma_cb` runs while the worker still merges the window it was handed. |
| `host_client` | `MC_HostRdmaClient.cfg` | pass | Connection set-up with up to 2 attempts against an engine that may not be listening yet, then 3 cycles of one registration against the engine loop, results of 0 or 1 tables, a disconnect or an engine failure possible at any point. `TypeOK`; `ResultOfThisCycle` (the descriptor a cycle takes is that cycle's); `RegPollSeesOwnCompletion` (`ksm_rdma_reg_mr` never reaches `debug_stop`, flushed completions included); `ReadsThisCyclesLog` (the host's RDMA read of the decision log returns the log of its own cycle, not a cleared or later one: the engine keeps the log until the next metadata); `CyclesOnAcceptedConnection` (ksmd starts its cycles only once the engine has accepted the connection: `ksm_connect_client` must not take a rejected or failed connect as success); `CyclesComplete` (liveness: unless the connection drops or the engine fails, the connection is made and every cycle completes). 39,801 states. |
| `host_two_regs_hang` | `MC_HostRdmaClient_multireg.cfg` | violation | `CyclesComplete` fails with two registrations per cycle: the handler returns after one REG_MR completion, and the completions behind the second are never polled. |
| `host_late_send_ack_hang` | `MC_HostRdmaClient_lateack.cfg` | violation | `CyclesComplete` fails when the SEND's acknowledgement arrives after the reply: SEND_COMPLETE overwrites RECV_COMPLETE. |
| `host_disconnect_hang` | `MC_HostRdmaClient_disconnect.cfg` | violation | `DisconnectEndsCycle` fails: the ERROR written on disconnect is overwritten (by `ksm_rdma_reg_mr`'s MEM_REG_WAIT/COMPLETE or a successful completion), flushed completions write nothing, and `ksm_rdma_meta_send` waits forever. spec.md says a disconnect aborts the cycle. |
| `host_tables` | `MC_HostTables.cfg` | pass | Error table: six failures over two cycles, tables of 4 entries, page and table allocations failing. Shadow table: ascending walks of up to six pages, arrays of 4 entries, windows of 4 pages in chunks of 3 entries, allocations and `xa_insert` failing. `ErrTypeOK`, `ShippedExactly` (the engine reads exactly the accepted failures, in order), `ShadowTypeOK`, `RegistersCleanly` (registration never stops or BUGs), `MapMatchesPages` (map entry k and window page k are the k-th accepted page), `SgChunksFreed` (the free walk frees every chunk). 129k states, 41 s. |

Each property of a passing run has a mutant in `PROJECT.json`: a plausible bug in the mapped code (a dropped guard, an off-by-one, a missing reset) under which TLC finds the property violated with the run's own configuration.

Eight further counter-examples are reproduced by changing one constant, and are recorded as hazards:
* `RegCnts <- MC_RegCntsZero` in a host configuration: a cycle with nothing to register takes the zeroed descriptor left by the previous cycle (`ResultOfThisCycle` fails, `client_stub.c:610`).
* `RnrRace = TRUE` (with `Disconnects` and `EngineFails` FALSE) in `MC_HostRdmaClient.cfg`: the engine re-posts its metadata receive only after its result SEND completes (`server.c:1373`), and the host connects without `rnr_retry_count` (`client_stub.c:385-389`, so 0 retries). A host SEND of the next cycle that arrives first fails with RNR and puts the host queue pair in error; the handler has already returned on the REG_MR completion, so the failure is never polled, the host waits in `ksm_rdma_meta_send` and the engine in `wait_cq_event_and_poll` for ever (`CyclesComplete` fails in cycle 2).
* `MaxPagesDescs <- 1` in `MC_HostTables.tla`: a table of more pages than `MAX_PAGES_DESCS` windows hold is only logged (`ksm_rdma.c:265`), and the window after the last slot writes `pages_mr[]` and `desc_entries[]` past their end; the model treats that write as an oops, and `RegistersCleanly` fails once a fifth page is registered. With the real constants this needs 2^25 pages in one address space.
* `CmBeforeStore = TRUE` (with `Disconnects` and `EngineFails` FALSE) in `MC_HostRdmaClient.cfg`: `ksm_connect_client` stores `CONNECT_REQUEST` after `rdma_connect` returns (`client_stub.c:397`). If the CM handler has already set `CONNECTED` for `ESTABLISHED`, the store overwrites it, and the wait for `state >= CONNECTED` never ends (`CyclesComplete` fails, 13 states).
* `RouteFails = TRUE` in the same configuration: when `rdma_resolve_route` fails inside the CM handler (`client_stub.c:73`) the handler only wakes the host; the state stays `ADDR_RESOLVED`, below `ROUTE_RESOLVED`, so `ksm_rdma_bind_client` waits for ever and never reaches the retry (`CyclesComplete` fails).
* `FirstIter = 32766` in `MC_KsmCycle.cfg`: `last_access` is a `short` (`server.h:39`) set from the `int` iteration (`server.c:562`). Two pages merged in iteration 32767 are scanned in 32768 with `last_access = -32768`, so `last_access < iteration - 1` holds for them; a host unmap makes `prune_metadata` run, which frees both items and their node while the host still shares their frame (`EngineMatchesHost` fails at the scan of iteration 32769). From then on every prune frees every item.
* `AllocFails = TRUE` (with `Disconnects` and `EngineFails` FALSE) in `MC_HostRdmaClient.cfg`: a failed `kmalloc` in `ksm_rdma_result_recv` (`client_stub.c:617`) returns NULL before the result receive is re-posted. The next cycle's result SEND finds no receive, the engine retries it for ever (`rnr_retry_count 7`) and the host waits for the result (`CyclesComplete` fails).
* `FailModes <- MC_FailArray` for the error table in `MC_HostTables`: a failed `krealloc` of `entry_tables` loses the array, and the engine reads junk (`ShippedExactly` fails, `ksm_shadow.c:253`).

## 4. Bounds

* Merge metadata: `FirstIter = 0` in the passing runs: the wrap of `last_access` needs 32768 iterations, and is reproduced by starting just below it. `LogRooms = {1, 8}`: a log of one entry loses every later decision of the cycle, one of 8 never fills with 4 pages (at most two entries per page). 4 pages and 2 contents reach chains (`MAX_PAGE_SHARING = 2` saturates a node with 2 pages), rehashing and both undo kinds within 3 iterations. `volatility_score` is an unbounded `int` in the code; the model saturates it at `ScoreCap` (0 where smart scan is off and nothing reads it, larger in `cycle_smart`), and `age` at `AgeCap`.
* Scan pipeline: a table of 4 pages in windows of 3 gives a full and a partial window, two pre-hash runs in one window, and a hand-off while a window is in progress; the second table covers the table loop.
* Host client: `MaxAttempts = 2` gives one failed attempt (address or route error, rejection by an engine not yet listening) followed by the retry that must succeed. 3 cycles are enough for a result with no table to be followed by further cycles (the stale state), and for a disconnect to hit each phase of a cycle. The engine failing at each of its three failure points and the disconnect landing in each engine phase (including while a flushed completion is waiting in its CQ) are all reached.
* Host tables: 4 entries per table and 2 per page make the first growth a doubling and the next a new table; six entries span two tables and two windows; windows of 4 pages with chunks of 3 entries make a window two chained chunks and leave a single-chunk window at the end. The constants keep the code's relations: tables are a power-of-two multiple of a page, and chunks hold one entry fewer than their size.

Iterations and cycles are bounded by guards or a state constraint. `CHECK_DEADLOCK FALSE` is set only where the program really stops: after `do_ksm_v3` returns, after the host's last cycle or a disconnect, and when the error table's last cycle ends.

## 5. Fairness

* `ScanPipeline`: weak fairness of the driver, the worker and the pre-hash thread. They are `pthread`s that spin on status words; each spin re-checks its condition, so an enabled step of a thread is eventually taken.
* `HostRdmaClient`: weak fairness of the host thread (ksmd), the adapter (posted work completes), the engine loop (a single-threaded busy-poll that re-checks its CQ) and the completion handler (an interrupt raised is eventually served). The disconnect and `EngineFail` have no fairness: they may never happen. The CM's event delivery and the engine's `start_listening` are weakly fair too: a CM event is eventually delivered, and the engine process, once started, listens. `PromptHandler`, `RnrRace = FALSE` and `CmBeforeStore = FALSE` are timing assumptions, not fairness: the engine's scan outlasts the host's interrupt handling, the engine re-posts its metadata receive before the host's next SEND arrives, and `rdma_connect` returns before the peer's accept comes back. `RouteFails = FALSE` is a fault assumption.

## 6. What is not modelled

* **The engine's hang after a transport error**: `wait_cq_event_and_poll` calls `debug_stop` on any failed completion, so after a disconnect the engine takes a flushed completion and hangs (`epc = "hung"` is reachable in `host_client`) instead of tearing down as spec.md 7 asks. No property states that the engine returns: the host's properties are unaffected, and a violation run for it would repeat `host_disconnect_hang`'s point on the other side.
* **Host allocation failures in `ksm_rdma_result_recv`** (its `kmalloc`s return NULL before the result receive is re-posted): listed as a hazard, not enumerated.

* **The engine side of connection set-up** (`rdma_common.c`, the resource allocation in `on_connect_request`, which `HwConnectRequest` folds into one accept step): verbs and CM set-up with no decision logic beyond error returns. The host side, `ksm_rdma_create_connection`, is modelled.
* **Single-operation offload mode** (`on_established_ops_offload_mode`): out of the specified scope.
* **Timers, `function_cost.c`, `rdma_stub.c`**: instrumentation and link stubs.
* **The host replay and walk (`ksm.c`)** are not in the repository; they appear only as `spec_modelled` host actions.
* **Page references** taken and dropped around the shadow tables (`put_page` in `free_shadow_mm`) are host kernel state outside these models.
* Numeric edges left as hazards: `age` overflowing (it only shortens the skip grace, see `PROJECT.json`) (more than `MAX_PAGES_DESCS * MAX_PAGES_IN_SGL` pages is modelled, scaled down, by `MaxPagesDescs`).
* `should_skip_item` skips whenever `skip_cnt > 0`, while spec.md 4.6 asks for `volatility_score > 0` as well. `KsmCycle` models the code; `cycle_smart` shows the engine stays in step with the host anyway.
