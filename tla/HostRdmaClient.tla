--------------------------- MODULE HostRdmaClient ---------------------------
(***************************************************************************)
(* One RDMA session between the host's client (client_stub.c) and the     *)
(* engine's connection loop (server.c on_established).                    *)
(*                                                                         *)
(* Host.  One state word, cb->state, carries every completion: the CQ     *)
(* event handler overwrites it for each completion it polls and wakes the *)
(* host thread, which waits with wait_event_interruptible(state >= X).    *)
(* Per cycle the host thread registers its memory regions               *)
(* (ksm_rdma_reg_mr sets MEM_REG_WAIT, posts the REG_MR and polls the CQ  *)
(* itself once), sends the metadata descriptor (ksm_rdma_meta_send),     *)
(* waits for the engine's result descriptor and reads the decision log   *)
(* table by table (ksm_rdma_result_recv), then re-posts the result       *)
(* receive.                                                               *)
(*                                                                         *)
(* Engine.  on_established loops: wait for the metadata receive, handle  *)
(* errors and scan (RDMA reads of host memory), register the log, send    *)
(* the result descriptor, wait for that SEND, post the next metadata      *)
(* receive.  Each wait is wait_cq_event_and_poll, a busy poll of the one  *)
(* CQ that takes whatever completion comes first and calls debug_stop on  *)
(* any status but success.                                                *)
(*                                                                         *)
(* Each side's CQ is a FIFO of completions [k, s], s in {"ok", "flush",    *)
(* "rnr"}.  Work requests of a send queue complete in order.  A SEND is   *)
(* delivered only into a posted receive: the engine accepts with          *)
(* rnr_retry_count 7 (retry for ever), the host connects with the default *)
(* 0, so the host's SEND fails with a retry-exceeded status (s = "rnr")   *)
(* if it reaches the engine before the engine has re-posted (RnrRace),    *)
(* and its queue pair goes to the error state.  With Reorder the host's   *)
(* SEND acknowledgement may be late, so the reply can reach the host's CQ *)
(* before the SEND completion.                                            *)
(*                                                                         *)
(* Connection (Connect).  ksm_rdma_create_connection loops: create the   *)
(* CM id, resolve the address and wait for state >= ROUTE_RESOLVED, set  *)
(* up the queue pair and buffers, post the result receive, rdma_connect,  *)
(* store CONNECT_REQUEST and wait for state >= CONNECTED; on any error it *)
(* destroys everything, sleeps and starts again.  The CM handler sets the *)
(* state for the address, route and connect events.  The engine accepts  *)
(* only once start_listening has run; before that the request is         *)
(* rejected.                                                              *)
(***************************************************************************)
EXTENDS Integers, Sequences

CONSTANTS
  MaxCycle,    \* host cycles checked
  RegCnts,     \* possible numbers of ksm_rdma_reg_mr calls in one cycle
  LogTables,   \* possible numbers of result tables (log_cnt / MAX_RESULT_TABLE_ENTRIES, rounded up)
  Reorder,     \* whether a SEND's acknowledgement may arrive after the reply
  PromptHandler, \* whether the engine's reply only comes once the host has
                 \* handled every completion event already raised
  Disconnects,   \* whether the connection may drop (RDMA_CM_EVENT_DISCONNECTED)
  EngineFails,   \* whether a step of the engine's cycle may fail (allocation, post)
  RnrRace,       \* whether the host's next SEND may reach the engine before
                 \* the engine has re-posted its metadata receive
  Connect,       \* whether the session starts with ksm_rdma_create_connection
  MaxAttempts,   \* connection attempts checked (all but the last may fail)
  CmBeforeStore, \* whether the host's CM may report the connect outcome before
                 \* ksm_connect_client stores CONNECT_REQUEST
  RouteFails,    \* whether rdma_resolve_route, called in the CM handler, may fail
  AllocFails     \* whether ksm_rdma_result_recv's allocations may fail

ASSUME MaxCycle >= 1 /\ RegCnts \subseteq Nat /\ LogTables \subseteq Nat /\ MaxAttempts >= 1
ASSUME \A b \in {Reorder, PromptHandler, Disconnects, EngineFails, RnrRace,
                  Connect, CmBeforeStore, RouteFails, AllocFails} : b \in BOOLEAN

VARIABLES
  st,          \* cb->state
  hpc,         \* host thread: where it is in the cycle
  cyc,         \* host cycle number
  regsLeft,    \* ksm_rdma_reg_mr calls still to make this cycle
  tablesLeft,  \* result tables still to read
  got,         \* cycle of the result descriptor this cycle consumed (0 if zeroed, -1 if none yet)
  rbuf,        \* cb->result_desc: [cyc, tables], zeroed as [cyc |-> 0, tables |-> 0]
  rdata,       \* cycle whose decision log the host's reads returned this cycle (-1: none yet)
  recvPosted,  \* result receives posted and not consumed
  sq,          \* host: outstanding signaled send-queue work requests, in order
  cq,          \* host: completions in the CQ, in order
  armed,       \* the host CQ is armed for the next completion
  evt,         \* a completion event is pending
  hctx,        \* the CQ event handler is running
  hqp,         \* host queue pair: "rts" or "err"
  epc,         \* engine: where on_established is
  scyc,        \* engine: cycle of the metadata descriptor it holds (cb->md_desc_rx)
  logOf,       \* engine: cycle whose log the registered log table holds (0: cleared)
  eRecv,       \* engine: metadata receives posted and not consumed
  esq,         \* engine: outstanding signaled send-queue work requests, in order
  ecq,         \* engine: completions in its CQ, in order
  eqp,         \* engine queue pair: "rts" or "err"
  conn,        \* "none" before the engine accepted, "up", or "down" once it dropped
  cmev,        \* the host's CM: the event it will report next ("none": nothing pending)
  creq,        \* the host's connect request is on its way to the engine
  attempt      \* failed connection attempts so far

vars == <<st, hpc, cyc, regsLeft, tablesLeft, got, rbuf, rdata, recvPosted, sq, cq,
          armed, evt, hctx, hqp, epc, scyc, logOf, eRecv, esq, ecq, eqp, conn,
          cmev, creq, attempt>>
host == <<hpc, cyc, regsLeft, tablesLeft, got, recvPosted, rdata>>
cm == <<cmev, creq, attempt>>
hcq == <<cq, armed, evt, hctx>>
engine == <<epc, scyc, logOf, eRecv, esq, ecq, eqp>>

\* enum ksm_rdma_state: the waits compare states by their position.
States == <<"IDLE", "CONNECT_REQUEST", "ADDR_RESOLVED", "ROUTE_RESOLVED", "CONNECTED",
            "MEM_REG_WAIT", "MEM_REG_COMPLETE", "RDMA_READ_WAIT", "RDMA_READ_COMPLETE",
            "RDMA_WRITE_COMPLETE", "RDMA_SEND_COMPLETE", "RDMA_RECV_COMPLETE",
            "MR_INVALIDATE_WAIT", "MR_INVALIDATE_COMPLETE", "ERROR">>
Rank(s) == CHOOSE k \in 1..Len(States) : States[k] = s
AtLeast(s) == Rank(st) >= Rank(s)

ZeroDesc == [cyc |-> 0, tables |-> 0]

\* A completion enters the host CQ; if the CQ is armed, an event fires.
AddCqe(c) ==
  /\ cq' = Append(cq, c)
  /\ IF armed THEN evt' = TRUE /\ armed' = FALSE ELSE UNCHANGED <<evt, armed>>

\* The state ksm_rdma_cq_event_handler writes for a successful completion.
StateFor(c) ==
  CASE c.k = "REG"  -> "MEM_REG_COMPLETE"
    [] c.k = "SEND" -> "RDMA_SEND_COMPLETE"
    [] c.k = "READ" -> "RDMA_READ_COMPLETE"
    [] c.k = "RECV" -> "RDMA_RECV_COMPLETE"

\* Connect: the host's ksmd is about to call ksm_rdma_create_connection;
\* the engine has started listening (run_event_loop) or not yet.
\* Otherwise connected: the host has posted its result receive, the engine
\* its metadata receive (on_connect_request) and waits for it.
Init ==
  /\ IF Connect
       THEN /\ st = "IDLE" /\ hpc = "setup" /\ recvPosted = 0
            /\ epc \in {"down", "listen"} /\ eRecv = 0 /\ conn = "none"
       ELSE /\ st = "CONNECTED" /\ hpc = "reg" /\ recvPosted = 1
            /\ epc = "meta" /\ eRecv = 1 /\ conn = "up"
  /\ cyc = 1 /\ regsLeft \in RegCnts /\ tablesLeft = 0 /\ got = -1
  /\ rbuf = ZeroDesc /\ rdata = -1
  /\ sq = << >> /\ cq = << >> /\ armed = TRUE /\ evt = FALSE /\ hctx = FALSE
  /\ hqp = "rts"
  /\ scyc = 0 /\ logOf = 0
  /\ esq = << >> /\ ecq = << >> /\ eqp = "rts"
  /\ cmev = "none" /\ creq = FALSE /\ attempt = 0
-----------------------------------------------------------------------------
(* Connection set-up: ksm_rdma_create_connection's retry loop, the host's *)
(* CM event handler (ksm_rdma_cma_event_handler) and the engine's         *)
(* run_event_loop taking the connect request.                             *)

\* Every attempt but the last may fail.
MayFail == attempt + 1 < MaxAttempts

\* Steps of the connection set-up change only the host thread's pc, the
\* state word, the receives and the CM.
SetupUnchanged == UNCHANGED <<cyc, regsLeft, tablesLeft, got, rdata, rbuf, sq, hcq, hqp,
                              scyc, logOf, esq, ecq, eqp>>

\* ksm_cb_setup_client (state IDLE, rdma_create_id) and
\* ksm_rdma_bind_client up to its wait: rdma_resolve_addr is under way.
HostSetup ==
  /\ hpc = "setup"
  /\ st' = "IDLE" /\ cmev' = "addr" /\ hpc' = "addrwait"
  /\ UNCHANGED <<recvPosted, attempt, creq, epc, eRecv, conn>> /\ SetupUnchanged

\* The CM resolves the address: ADDR_RESOLVED sets the state and calls
\* rdma_resolve_route; if that fails, the handler only wakes the host.
\* Or ADDR_ERROR sets ERROR.
CmAddr ==
  /\ cmev = "addr"
  /\ \/ /\ st' = "ADDR_RESOLVED"
        /\ cmev' \in IF RouteFails THEN {"route", "none"} ELSE {"route"}
     \/ /\ MayFail /\ st' = "ERROR" /\ cmev' = "none"
  /\ UNCHANGED <<hpc, recvPosted, attempt, creq, epc, eRecv, conn>> /\ SetupUnchanged

\* ROUTE_RESOLVED, or ROUTE_ERROR (ERROR).
CmRoute ==
  /\ cmev = "route"
  /\ \/ st' = "ROUTE_RESOLVED"
     \/ MayFail /\ st' = "ERROR"
  /\ cmev' = "none"
  /\ UNCHANGED <<hpc, recvPosted, attempt, creq, epc, eRecv, conn>> /\ SetupUnchanged

\* ksm_rdma_bind_client wakes once state >= ROUTE_RESOLVED; any state but
\* ROUTE_RESOLVED is -EINTR, and the loop goes to err0.
HostAddrWake ==
  /\ hpc = "addrwait" /\ AtLeast("ROUTE_RESOLVED")
  /\ hpc' = IF st = "ROUTE_RESOLVED" THEN "connect" ELSE "retry"
  /\ UNCHANGED <<st, recvPosted, attempt, cm, epc, eRecv, conn>> /\ SetupUnchanged

\* ksm_cb_setup_qp, ksm_cb_setup_buffer, the result receive, and
\* ksm_connect_client's rdma_connect: the request goes out before
\* CONNECT_REQUEST is stored.
HostConnect ==
  /\ hpc = "connect"
  /\ recvPosted' = 1 /\ creq' = TRUE /\ hpc' = "connstore"
  /\ UNCHANGED <<st, attempt, cmev, epc, eRecv, conn>> /\ SetupUnchanged

\* cb->state = KSM_CONNECT_REQUEST, then wait for state >= CONNECTED.
HostConnStore ==
  /\ hpc = "connstore"
  /\ st' = "CONNECT_REQUEST" /\ hpc' = "connwait"
  /\ UNCHANGED <<recvPosted, attempt, cm, epc, eRecv, conn>> /\ SetupUnchanged

\* Mutant: ksm_connect_client without its KSM_ERROR check.
HostConnWakeIgnoresError ==
  /\ hpc = "connwait" /\ AtLeast("CONNECTED")
  /\ hpc' = "reg"
  /\ UNCHANGED <<st, recvPosted, attempt, cm, epc, eRecv, conn>> /\ SetupUnchanged

\* KSM_ERROR fails the attempt (rdma_disconnect, err1); any other state is
\* "Connect Done", and ksmd starts its cycles.
HostConnWake ==
  /\ hpc = "connwait" /\ AtLeast("CONNECTED")
  /\ hpc' = IF st = "ERROR" THEN "retry" ELSE "reg"
  /\ UNCHANGED <<st, recvPosted, attempt, cm, epc, eRecv, conn>> /\ SetupUnchanged

\* err1 / err0: destroy the queue pair (and its posted receive), the CQ,
\* the PD and the cm_id, sleep 30 s and start again.
HostRetry ==
  /\ hpc = "retry" /\ MayFail
  /\ hpc' = "setup" /\ attempt' = attempt + 1 /\ recvPosted' = 0
  /\ UNCHANGED <<st, cmev, creq, epc, eRecv, conn>> /\ SetupUnchanged

\* The engine's main calls start_listening and enters run_event_loop.
EngineListen ==
  /\ epc = "down"
  /\ epc' = "listen"
  /\ UNCHANGED <<st, host, cm, eRecv, conn>> /\ SetupUnchanged

\* The connect request reaches the engine.  Listening, run_event_loop takes
\* CONNECT_REQUEST: on_connect_request posts the metadata receive and
\* accepts, ESTABLISHED starts on_established, and the host's CM will
\* report ESTABLISHED.  An engine not listening, or no longer (its one
\* connection is gone), leaves the host's CM to report REJECTED.
HwConnectRequest ==
  /\ creq /\ cmev = "none"
  /\ creq' = FALSE
  /\ \/ /\ epc = "listen"
        /\ epc' = "meta" /\ eRecv' = 1 /\ conn' = "up" /\ cmev' = "ESTABLISHED"
     \/ /\ epc /= "listen" /\ (MayFail \/ epc /= "down")
        /\ cmev' = "REJECTED" /\ UNCHANGED <<epc, eRecv, conn>>
  /\ UNCHANGED <<st, host, attempt>> /\ SetupUnchanged

\* The host's CM handler reports the connect outcome: ESTABLISHED sets
\* CONNECTED, REJECTED sets ERROR.  Unless CmBeforeStore, it runs only
\* once ksm_connect_client has stored CONNECT_REQUEST.
CmConnect ==
  /\ cmev \in {"ESTABLISHED", "REJECTED"}
  /\ CmBeforeStore \/ hpc /= "connstore"
  /\ st' = IF cmev = "ESTABLISHED" THEN "CONNECTED" ELSE "ERROR"
  /\ cmev' = "none"
  /\ UNCHANGED <<host, creq, attempt, epc, eRecv, conn>> /\ SetupUnchanged
-----------------------------------------------------------------------------
(* Host thread.                                                            *)

\* ksm_rdma_reg_mr: MEM_REG_WAIT, then post the REG_MR work request.
HostRegPost ==
  /\ hpc = "reg" /\ regsLeft > 0
  /\ st' = "MEM_REG_WAIT"
  /\ sq' = Append(sq, [k |-> "REG", dlv |-> TRUE])
  /\ hpc' = "regpoll"
  /\ UNCHANGED <<cyc, regsLeft, tablesLeft, got, recvPosted, rdata, rbuf, hcq, hqp, engine, conn, cm>>

\* Mutant: the IB_WC_WR_FLUSH_ERR continue dropped from the poll loop.
HostRegPollNoFlushSkip ==
  /\ hpc = "regpoll"
  /\ regsLeft' = regsLeft - 1
  /\ IF cq = << >>
       THEN hpc' = "reg" /\ UNCHANGED <<st, cq>>
       ELSE /\ cq' = Tail(cq)
            /\ IF Head(cq).s = "ok" /\ Head(cq).k = "REG"
                 THEN st' = "MEM_REG_COMPLETE" /\ hpc' = "reg"
                 ELSE hpc' = "stopped" /\ UNCHANGED st
  /\ UNCHANGED <<cyc, tablesLeft, got, recvPosted, rdata, rbuf, sq, armed, evt, hctx, hqp, engine, conn, cm>>

\* ksm_rdma_reg_mr polls the CQ: a flushed completion is skipped and the
\* poll goes on; nothing there, and it returns without waiting; its own
\* REG_MR, and it sets MEM_REG_COMPLETE; any other completion or status,
\* and it calls debug_stop.
HostRegPoll ==
  /\ hpc = "regpoll"
  /\ IF cq /= << >> /\ Head(cq).s = "flush"
       THEN cq' = Tail(cq) /\ UNCHANGED <<st, hpc, regsLeft>>
       ELSE /\ regsLeft' = regsLeft - 1
            /\ IF cq = << >>
                 THEN hpc' = "reg" /\ UNCHANGED <<st, cq>>
                 ELSE /\ cq' = Tail(cq)
                      /\ IF Head(cq).s = "ok" /\ Head(cq).k = "REG"
                           THEN st' = "MEM_REG_COMPLETE" /\ hpc' = "reg"
                           ELSE hpc' = "stopped" /\ UNCHANGED st
  /\ UNCHANGED <<cyc, tablesLeft, got, recvPosted, rdata, rbuf, sq, armed, evt, hctx, hqp, engine, conn, cm>>

\* ksm_rdma_meta_send: post the metadata SEND and wait for state >= SEND_COMPLETE.
HostSend ==
  /\ hpc = "reg" /\ regsLeft = 0
  /\ sq' = Append(sq, [k |-> "SEND", dlv |-> FALSE])
  /\ hpc' = "sendwait"
  /\ UNCHANGED <<st, cyc, regsLeft, tablesLeft, got, recvPosted, rdata, rbuf, hcq, hqp, engine, conn, cm>>

\* Woken with state >= SEND_COMPLETE.  SEND_COMPLETE or RECV_COMPLETE
\* ("already received") return 0, anything else -1, which send_meta_desc
\* only logs: either way the host goes on to receive the result.
HostSendWake ==
  /\ hpc = "sendwait" /\ AtLeast("RDMA_SEND_COMPLETE")
  /\ hpc' = "recvwait"
  /\ UNCHANGED <<st, cyc, regsLeft, tablesLeft, got, recvPosted, rdata, rbuf, sq, hcq, hqp, engine, conn, cm>>

\* Mutant: the result receive re-posted as soon as the descriptor is taken.
HostRecvWakeEarlyRepost ==
  /\ hpc = "recvwait" /\ AtLeast("RDMA_RECV_COMPLETE")
  /\ IF st /= "RDMA_RECV_COMPLETE"
       THEN hpc' = "end" /\ UNCHANGED <<got, tablesLeft, rbuf, recvPosted>>
       ELSE /\ got' = rbuf.cyc
            /\ tablesLeft' = rbuf.tables
            /\ recvPosted' = recvPosted + 1
            /\ hpc' = IF rbuf.tables = 0 THEN "end" ELSE "read"
            /\ rbuf' = IF rbuf.tables = 0 THEN ZeroDesc ELSE rbuf
  /\ UNCHANGED <<st, cyc, regsLeft, rdata, sq, hcq, hqp, engine, conn, cm>>

\* Whether a kmalloc (or ksm_rdma_huge_alloc) of ksm_rdma_result_recv succeeds.
AllocOutcomes == IF AllocFails THEN BOOLEAN ELSE {TRUE}

\* ksm_rdma_result_recv woken with state >= RECV_COMPLETE: anything but
\* RECV_COMPLETE, or a failed kmalloc of the result table, returns NULL;
\* otherwise take the result descriptor and, if it names no table, zero it
\* and re-post the result receive.
HostRecvWake ==
  /\ hpc = "recvwait" /\ AtLeast("RDMA_RECV_COMPLETE")
  /\ \E ok \in AllocOutcomes :
     IF st /= "RDMA_RECV_COMPLETE" \/ ~ok
       THEN hpc' = "end" /\ UNCHANGED <<got, tablesLeft, rbuf, recvPosted>>
       ELSE /\ got' = rbuf.cyc
            /\ tablesLeft' = rbuf.tables
            /\ IF rbuf.tables = 0
                 THEN hpc' = "end" /\ rbuf' = ZeroDesc /\ recvPosted' = recvPosted + 1
                 ELSE hpc' = "read" /\ UNCHANGED <<rbuf, recvPosted>>
  /\ UNCHANGED <<st, cyc, regsLeft, rdata, sq, hcq, hqp, engine, conn, cm>>

\* Read one part of the decision log: allocate its buffer, READ_WAIT, post
\* the RDMA read.  A failed allocation returns NULL.
HostReadPost ==
  /\ hpc = "read"
  /\ \E ok \in AllocOutcomes :
     IF ok THEN /\ st' = "RDMA_READ_WAIT"
                /\ sq' = Append(sq, [k |-> "READ", dlv |-> TRUE])
                /\ hpc' = "readwait"
           ELSE /\ hpc' = "end" /\ UNCHANGED <<st, sq>>
  /\ UNCHANGED <<cyc, regsLeft, tablesLeft, got, recvPosted, rdata, rbuf, hcq, hqp, engine, conn, cm>>

\* Woken with state >= READ_COMPLETE: anything else returns NULL; after the
\* last part, zero the descriptor and re-post the result receive.
HostReadWake ==
  /\ hpc = "readwait" /\ AtLeast("RDMA_READ_COMPLETE")
  /\ IF st /= "RDMA_READ_COMPLETE"
       THEN hpc' = "end" /\ UNCHANGED <<tablesLeft, rbuf, recvPosted>>
       ELSE /\ tablesLeft' = tablesLeft - 1
            /\ IF tablesLeft = 1
                 THEN hpc' = "end" /\ rbuf' = ZeroDesc /\ recvPosted' = recvPosted + 1
                 ELSE hpc' = "read" /\ UNCHANGED <<rbuf, recvPosted>>
  /\ UNCHANGED <<st, cyc, regsLeft, got, rdata, sq, hcq, hqp, engine, conn, cm>>

\* The next ksmd pass registers its shadow tables and error table again.
HostNextCycle ==
  /\ hpc = "end" /\ cyc < MaxCycle /\ conn = "up"
  /\ cyc' = cyc + 1
  /\ regsLeft' \in RegCnts
  /\ got' = -1 /\ rdata' = -1
  /\ hpc' = "reg"
  /\ UNCHANGED <<st, tablesLeft, recvPosted, rbuf, sq, hcq, hqp, engine, conn, cm>>
-----------------------------------------------------------------------------
(* The adapters and the connection.                                        *)

\* The host's SEND reaches the engine.  Into a posted metadata receive, it
\* completes there; its acknowledgement completes the SEND at the host at
\* once, or (Reorder) later.  With no receive posted the engine answers
\* RNR; the host's queue pair, which retries 0 times, fails the SEND and
\* goes to the error state.
HwDeliverSend ==
  /\ sq /= << >> /\ Head(sq).k = "SEND" /\ ~Head(sq).dlv
  /\ hqp = "rts" /\ eqp = "rts"
  /\ IF eRecv > 0
       THEN /\ eRecv' = eRecv - 1 /\ scyc' = cyc
            /\ ecq' = Append(ecq, [k |-> "RECV", s |-> "ok"])
            /\ IF Reorder
                 THEN sq' = [sq EXCEPT ![1].dlv = TRUE] /\ UNCHANGED <<cq, armed, evt>>
                 ELSE sq' = Tail(sq) /\ AddCqe([k |-> "SEND", s |-> "ok"])
            /\ UNCHANGED hqp
       ELSE /\ RnrRace
            /\ sq' = Tail(sq) /\ AddCqe([k |-> "SEND", s |-> "rnr"])
            /\ hqp' = "err"
            /\ UNCHANGED <<eRecv, scyc, ecq>>
  /\ UNCHANGED <<st, host, rbuf, hctx, epc, logOf, esq, eqp, conn, cm>>

\* The oldest outstanding host work request completes.  An RDMA read of
\* the decision log returns what the engine's registered log table holds.
HwComplete ==
  /\ sq /= << >> /\ Head(sq).dlv /\ hqp = "rts"
  /\ Head(sq).k = "READ" => eqp = "rts"
  /\ sq' = Tail(sq)
  /\ AddCqe([k |-> Head(sq).k, s |-> "ok"])
  /\ rdata' = IF Head(sq).k = "READ" THEN logOf ELSE rdata
  /\ UNCHANGED <<st, hpc, cyc, regsLeft, tablesLeft, got, recvPosted, rbuf, hctx, hqp, engine, conn, cm>>

\* The engine's result SEND lands in the host's posted result receive
\* (with none posted the engine's adapter retries for ever).  With
\* PromptHandler the scan outlasts the host's interrupt handling.
HwDeliverReply ==
  /\ esq /= << >> /\ Head(esq) = "RSEND"
  /\ eqp = "rts" /\ hqp = "rts" /\ recvPosted > 0
  /\ PromptHandler => (~evt /\ ~hctx)
  /\ \E t \in LogTables : rbuf' = [cyc |-> scyc, tables |-> t]
  /\ recvPosted' = recvPosted - 1
  /\ AddCqe([k |-> "RECV", s |-> "ok"])
  /\ esq' = Tail(esq) /\ ecq' = Append(ecq, [k |-> "RSEND", s |-> "ok"])
  /\ UNCHANGED <<st, hpc, cyc, regsLeft, tablesLeft, got, rdata, sq, hctx, hqp,
                 epc, scyc, logOf, eRecv, eqp, conn, cm>>

\* The engine's RDMA read of host memory (error table, shadow tables,
\* pages) completes.
HwEngineRead ==
  /\ esq /= << >> /\ Head(esq) = "READ"
  /\ eqp = "rts" /\ hqp = "rts"
  /\ esq' = Tail(esq) /\ ecq' = Append(ecq, [k |-> "READ", s |-> "ok"])
  /\ UNCHANGED <<st, host, rbuf, sq, hcq, hqp, epc, scyc, logOf, eRecv, eqp, conn, cm>>

\* On a queue pair in the error state every outstanding send and posted
\* receive completes with IB_WC_WR_FLUSH_ERR, in order: at the host ...
HwFlush ==
  /\ hqp = "err"
  /\ \/ /\ sq /= << >>
        /\ sq' = Tail(sq)
        /\ AddCqe([k |-> Head(sq).k, s |-> "flush"])
        /\ UNCHANGED recvPosted
     \/ /\ recvPosted > 0
        /\ recvPosted' = recvPosted - 1
        /\ AddCqe([k |-> "RECV", s |-> "flush"])
        /\ UNCHANGED sq
  /\ UNCHANGED <<st, hpc, cyc, regsLeft, tablesLeft, got, rdata, rbuf, hctx, hqp, engine, conn, cm>>

\* ... and at the engine, until cleanup_rdma_cb destroys its queue pair.
EngineFlush ==
  /\ eqp = "err" /\ epc \notin {"closed", "exit"}
  /\ \/ /\ esq /= << >>
        /\ esq' = Tail(esq)
        /\ ecq' = Append(ecq, [k |-> Head(esq), s |-> "flush"])
        /\ UNCHANGED eRecv
     \/ /\ eRecv > 0
        /\ eRecv' = eRecv - 1
        /\ ecq' = Append(ecq, [k |-> "RECV", s |-> "flush"])
        /\ UNCHANGED esq
  /\ UNCHANGED <<st, host, rbuf, sq, hcq, hqp, epc, scyc, logOf, eqp, conn, cm>>

\* The connection drops: both queue pairs go to the error state, and
\* ksm_rdma_cma_event_handler on RDMA_CM_EVENT_DISCONNECTED sets ERROR.
Disconnect ==
  /\ Disconnects /\ conn = "up"
  /\ conn' = "down" /\ st' = "ERROR" /\ hqp' = "err" /\ eqp' = "err"
  /\ UNCHANGED <<host, rbuf, sq, hcq, epc, scyc, logOf, eRecv, esq, ecq, cm>>
-----------------------------------------------------------------------------
(* Engine: on_established and the waits of wait_cq_event_and_poll.         *)

\* wait_cq_event_and_poll: spin on the CQ and take the first completion,
\* whichever request it belongs to; a status other than success goes to
\* debug_stop, which never returns.
EngineTake(next) ==
  /\ ecq /= << >>
  /\ ecq' = Tail(ecq)
  /\ epc' = IF Head(ecq).s = "ok" THEN next ELSE "hung"

\* The metadata receive completes: release the previous result MR and
\* clear the log table, then do_handle_error and do_ksm_v3.
EngineRecvMeta ==
  /\ epc = "meta" /\ EngineTake("scan")
  /\ logOf' = IF Head(ecq).s = "ok" THEN 0 ELSE logOf
  /\ UNCHANGED <<st, host, rbuf, sq, hcq, hqp, scyc, eRecv, esq, eqp, conn, cm>>

\* do_handle_error and do_ksm_v3 read host memory: rdma_read_memory posts
\* a signaled RDMA read and waits for it.
EngineScan ==
  /\ epc = "scan"
  /\ esq' = Append(esq, "READ") /\ epc' = "readwait"
  /\ UNCHANGED <<st, host, rbuf, sq, hcq, hqp, scyc, logOf, eRecv, ecq, eqp, conn, cm>>

EngineReadDone ==
  /\ epc = "readwait" /\ EngineTake("reply")
  /\ UNCHANGED <<st, host, rbuf, sq, hcq, hqp, scyc, logOf, eRecv, esq, eqp, conn, cm>>

\* Register the log table for remote reads, fill the result descriptor
\* and post its SEND.
EngineReply ==
  /\ epc = "reply"
  /\ logOf' = scyc
  /\ esq' = Append(esq, "RSEND") /\ epc' = "sendwait"
  /\ UNCHANGED <<st, host, rbuf, sq, hcq, hqp, scyc, eRecv, ecq, eqp, conn, cm>>

\* Mutant: the result MR released and the log cleared once its SEND completes.
EngineSendDoneFreesLog ==
  /\ epc = "sendwait" /\ EngineTake("post")
  /\ logOf' = 0
  /\ UNCHANGED <<st, host, rbuf, sq, hcq, hqp, scyc, eRecv, esq, eqp, conn, cm>>

EngineSendDone ==
  /\ epc = "sendwait" /\ EngineTake("post")
  /\ UNCHANGED <<st, host, rbuf, sq, hcq, hqp, scyc, logOf, eRecv, esq, eqp, conn, cm>>

\* Post the receive for the next metadata; iteration += 1.
EnginePostRecv ==
  /\ epc = "post"
  /\ eRecv' = eRecv + 1 /\ epc' = "meta"
  /\ UNCHANGED <<st, host, rbuf, sq, hcq, hqp, scyc, logOf, esq, ecq, eqp, conn, cm>>

\* do_handle_error or do_ksm_v3 fails, or ibv_reg_mr, ibv_post_send or
\* ibv_post_recv does: cleanup_rdma_cb destroys the queue pair, frees the
\* log and disconnects, which the host's CM handler sees as DISCONNECTED.
EngineFail ==
  /\ EngineFails /\ epc \in {"scan", "reply", "post"}
  /\ epc' = "closed" /\ logOf' = 0
  /\ conn' = "down" /\ hqp' = "err" /\ eqp' = "err"
  /\ st' = IF conn = "up" THEN "ERROR" ELSE st
  /\ UNCHANGED <<host, rbuf, sq, hcq, scyc, eRecv, esq, ecq, cm>>

\* on_established has returned to run_event_loop, whose next
\* rdma_get_cm_event reads the event channel cleanup_rdma_cb destroyed:
\* it fails, and main cleans up again (a no-op) and exits.
EngineExit ==
  /\ epc = "closed"
  /\ epc' = "exit"
  /\ UNCHANGED <<st, host, rbuf, sq, hcq, hqp, scyc, logOf, eRecv, esq, ecq, eqp, conn, cm>>
-----------------------------------------------------------------------------
(* ksm_rdma_cq_event_handler.                                              *)

\* Mutant: ib_req_notify_cq dropped from the handler.
HandlerStartNoRearm ==
  /\ evt /\ ~hctx
  /\ evt' = FALSE
  /\ hctx' = (st /= "ERROR")
  /\ UNCHANGED <<st, host, rbuf, sq, cq, armed, hqp, engine, conn, cm>>

\* The event runs the handler.  In the ERROR state it returns at once,
\* without re-arming the CQ; otherwise it re-arms the CQ before polling.
HandlerStart ==
  /\ evt /\ ~hctx
  /\ evt' = FALSE
  /\ IF st = "ERROR"
       THEN UNCHANGED <<armed, hctx>>
       ELSE armed' = TRUE /\ hctx' = TRUE
  /\ UNCHANGED <<st, host, rbuf, sq, cq, hqp, engine, conn, cm>>

\* Mutant: a flushed completion's state written as if it had succeeded.
HandlerPollNoFlushSkip ==
  /\ hctx /\ cq /= << >>
  /\ cq' = Tail(cq)
  /\ IF Head(cq).s = "rnr"
       THEN st' = "ERROR" /\ hctx' = FALSE
       ELSE st' = StateFor(Head(cq)) /\ hctx' = (Head(cq).k /= "REG")
  /\ UNCHANGED <<host, rbuf, sq, armed, evt, hqp, engine, conn, cm>>

\* Poll one completion: a flushed one is skipped; any other failed one
\* sets ERROR and returns (goto error); otherwise write its state; a
\* REG_MR completion returns from the handler at once, leaving the rest of
\* the CQ unpolled.
HandlerPoll ==
  /\ hctx /\ cq /= << >>
  /\ cq' = Tail(cq)
  /\ CASE Head(cq).s = "flush" -> UNCHANGED <<st, hctx>>
       [] Head(cq).s = "rnr"   -> st' = "ERROR" /\ hctx' = FALSE
       [] OTHER -> st' = StateFor(Head(cq)) /\ hctx' = (Head(cq).k /= "REG")
  /\ UNCHANGED <<host, rbuf, sq, armed, evt, hqp, engine, conn, cm>>

\* The CQ is empty: the handler returns.
HandlerDone ==
  /\ hctx /\ cq = << >>
  /\ hctx' = FALSE
  /\ UNCHANGED <<st, host, rbuf, sq, cq, armed, evt, hqp, engine, conn, cm>>
-----------------------------------------------------------------------------
HostNext ==
  \/ HostRegPost \/ HostRegPoll \/ HostSend \/ HostSendWake
  \/ HostRecvWake \/ HostReadPost \/ HostReadWake \/ HostNextCycle
AdapterNext ==
  \/ HwDeliverSend \/ HwComplete \/ HwDeliverReply \/ HwEngineRead
  \/ HwFlush \/ EngineFlush
EngineNext ==
  \/ EngineRecvMeta \/ EngineScan \/ EngineReadDone \/ EngineReply
  \/ EngineSendDone \/ EnginePostRecv \/ EngineFail \/ EngineExit
HandlerNext == HandlerStart \/ HandlerPoll \/ HandlerDone
SetupNext ==
  \/ HostSetup \/ HostAddrWake \/ HostConnect \/ HostConnStore \/ HostConnWake
  \/ HostRetry \/ EngineListen \/ HwConnectRequest
CmNext == CmAddr \/ CmRoute \/ CmConnect

Next == HostNext \/ AdapterNext \/ EngineNext \/ HandlerNext \/ SetupNext \/ CmNext \/ Disconnect

\* ksmd is scheduled, the adapters complete posted work, the engine's
\* thread spins on its CQ, the completion interrupt runs its handler, the
\* CM reports what it resolved, and the engine is eventually started:
\* each step that stays enabled is eventually taken.  Nothing forces a
\* disconnect or an engine failure.
Fairness ==
  /\ WF_vars(HostNext) /\ WF_vars(AdapterNext)
  /\ WF_vars(EngineNext /\ ~EngineFail) /\ WF_vars(HandlerNext)
  /\ WF_vars(SetupNext) /\ WF_vars(CmNext)

Spec == Init /\ [][Next]_vars /\ Fairness
-----------------------------------------------------------------------------
Kinds == {"REG", "SEND", "READ", "RECV"}
CyclePcs == {"reg", "regpoll", "sendwait", "recvwait", "read", "readwait", "end", "stopped"}
Status == {"ok", "flush", "rnr"}

\* Every variable has its type; the descriptor never names a cycle the
\* host has not reached; at most one receive is posted on each side's one
\* buffer (cb->result_desc, cb->md_desc_rx).
TypeOK ==
  /\ st \in {States[k] : k \in 1..Len(States)}
  /\ hpc \in {"setup", "addrwait", "connect", "connstore", "connwait", "retry",
             "reg", "regpoll", "sendwait", "recvwait", "read", "readwait", "end", "stopped"}
  /\ cyc \in 1..MaxCycle /\ got \in -1..cyc /\ rdata \in -1..cyc
  /\ rbuf.cyc \in 0..cyc /\ recvPosted \in 0..1
  /\ \A i \in 1..Len(cq) : cq[i].k \in Kinds /\ cq[i].s \in Status
  /\ armed \in BOOLEAN /\ evt \in BOOLEAN /\ hctx \in BOOLEAN
  /\ epc \in {"down", "listen", "meta", "scan", "readwait", "reply", "sendwait", "post", "hung", "closed", "exit"}
  /\ scyc \in 0..cyc /\ logOf \in 0..cyc /\ eRecv \in 0..1
  /\ \A i \in 1..Len(ecq) : ecq[i].s \in Status
  /\ {hqp, eqp} \subseteq {"rts", "err"} /\ conn \in {"none", "up", "down"}
  /\ cmev \in {"none", "addr", "route", "ESTABLISHED", "REJECTED"}
  /\ creq \in BOOLEAN /\ attempt \in 0..MaxAttempts - 1

\* The result descriptor ksm_rdma_result_recv hands back in a cycle is the
\* engine's answer to that cycle's metadata, not a zeroed or earlier one
\* left behind by a stale RECV_COMPLETE in cb->state.
ResultOfThisCycle == got /= -1 => got = cyc

\* ksm_rdma_reg_mr's own poll of the CQ only ever finds its REG_MR
\* completion, so it never reaches debug_stop.
RegPollSeesOwnCompletion == hpc /= "stopped"

\* The host's RDMA reads of the decision log return the log the engine
\* built for this cycle: on_established keeps the log table and its MR
\* until the next metadata arrives, and the host sends that only after its
\* reads complete.
ReadsThisCyclesLog == rdata \in {-1, cyc}

\* ksmd starts its cycles only on a connection the engine accepted: a
\* connect attempt the engine rejected, or one whose address or route
\* failed, ends in ksm_rdma_create_connection's retry, never in a cycle.
CyclesOnAcceptedConnection == hpc \in CyclePcs => conn /= "none"

\* Unless the connection drops, every host cycle gets its result: no
\* completion is overwritten or left in the CQ while the host waits for it,
\* and the engine's receive is posted before the host's next SEND.
CyclesComplete == <>((hpc = "end" /\ cyc = MaxCycle) \/ conn = "down")

\* A dropped connection ends the host's current cycle: ksm_rdma_meta_send
\* and ksm_rdma_result_recv see KSM_ERROR and return, so the caller can
\* tear down and reconnect.
DisconnectEndsCycle == (conn = "down") ~> (hpc = "end")
=============================================================================
