------------------------------ MODULE KsmCycle ------------------------------
(***************************************************************************)
(* One offload engine and the host whose pages it deduplicates, cycle by   *)
(* cycle.  The engine half is on_established (src/codes/bask/server.c):    *)
(* receive the host's request, clear the previous log, replay the host's   *)
(* error table (do_handle_error), scan every page of the shadow page table *)
(* (do_ksm_v3 -> lookup_rmap_item + cmp_and_merge_one), prune, and send    *)
(* the decision log back.  The host half (the kernel's replay of the log,  *)
(* which is not in this repository) is modelled from spec.md: it applies   *)
(* each decision when the pages still allow it and reports the others in   *)
(* the next error table; meanwhile processes write their pages, with       *)
(* copy-on-write for merged (KSM) pages and in place for the others.       *)
(* The engine runs cmp_and_merge_one, or cmp_and_merge_one_old when it   *)
(* is started with `old' (ksmOps); the checked stretch may begin at any   *)
(* iteration (FirstIter), so the short last_access can reach its wrap.    *)
(***************************************************************************)
EXTENDS MergeMetadata

CONSTANTS
    MaxIter,        \* model bound: iterations explored
    MaxHostEvents,  \* model bound: page writes and unmaps by processes
    PruneMargin,    \* RMAP_PRUNE_MARGIN
    KsmOps,         \* the ksm_ops the engine may be started with
    FirstIter       \* the iteration at which the checked stretch begins

(* `old` selects cmp_and_merge_one_old and turns smart scan off (main). *)
ASSUME /\ KsmOps \subseteq {"cmp_and_merge_one", "cmp_and_merge_one_old"}
       /\ "cmp_and_merge_one_old" \in KsmOps => ~SmartScan
       /\ FirstIter \in Nat

VARIABLES
    meta,      \* struct ksm_metadata, the log table and the ERR_LOG_AND_STOP flag
    iter,      \* iteration
    pc,        \* where on_established is: "errors", "scan" or "replay"
    todo,      \* pages of the shadow page table not yet scanned this cycle
    accessed,  \* total_accessed_cnt
    ksmOps,    \* ksm_ops: cmp_and_merge_one, or cmp_and_merge_one_old (`old`)
    errors,    \* the host's error table not yet handled
    replay,    \* the log entries the host has not yet replayed
    hpfn,      \* host: the frame each item's virtual page maps
    hcontent,  \* host: the content of each frame
    hksm,      \* host: the frames that are KSM pages (write-protected)
    mapped,    \* host: the items whose pages are still mapped
    hostEvents \* host: writes and unmaps so far

engineVars == <<meta, iter, pc, todo, accessed, ksmOps>>
hostVars   == <<hpfn, hcontent, hksm, mapped, hostEvents>>
vars       == <<engineVars, errors, replay, hostVars>>

Running == ~meta.halted

(* The items of a set in ascending (mm_id, va) order. *)
Ascending(S) == [k \in 1..Cardinality(S) |-> CHOOSE i \in S : Cardinality({j \in S : j < i}) = k - 1]

FreePfns == Pfns \ {hpfn[i] : i \in mapped}

Init ==
    /\ meta = EmptyMetadata
    /\ iter = FirstIter
    /\ pc = "errors"
    /\ todo = <<>>
    /\ accessed = 0
    /\ ksmOps \in KsmOps
    /\ errors = <<>>
    /\ replay = <<>>
    /\ hpfn = [i \in Items |-> i]
    /\ hcontent \in {f \in [Pfns -> Contents] :
                       \A p \in Pfns \ Items : f[p] = CHOOSE c \in Contents : TRUE}
    /\ hksm = {}
    /\ mapped = Items
    /\ hostEvents = 0

---------------------------------------------------------------------------
(* Engine *)

(* do_handle_error, one entry of the error table. *)
HandleError ==
    /\ Running /\ pc = "errors" /\ errors /= <<>>
    /\ meta' = HandleErrorEntry(meta, Head(errors))
    /\ errors' = Tail(errors)
    /\ UNCHANGED <<iter, pc, todo, accessed, ksmOps, replay, hostVars>>

(* do_ksm_v3 reads the shadow page table: the pages of every mapped item. *)
StartScan ==
    /\ Running /\ pc = "errors" /\ errors = <<>>
    /\ pc' = "scan"
    /\ todo' = Ascending(mapped)
    /\ UNCHANGED <<meta, iter, accessed, ksmOps, errors, replay, hostVars>>

(* lookup_rmap_item and cmp_and_merge_one for the next page. *)
ScanPage ==
    /\ Running /\ pc = "scan" /\ todo /= <<>>
    /\ LET i == Head(todo)
           p == hpfn[i]
           fresh == i \notin meta.items
       IN \E s0 \in IF fresh THEN 0..GarbageCap ELSE {0},
             k0 \in IF fresh THEN 0..GarbageCap ELSE {0} :
            LET m == LookupRmapItem(meta, i, p, iter, s0, k0) IN
            meta' = IF ksmOps = "cmp_and_merge_one_old" THEN CmpAndMergeOneOld(m, i, hcontent[p])
                    ELSE CmpAndMergeOne(m, i, hcontent[p])
    /\ todo' = Tail(todo)
    /\ accessed' = accessed + 1
    /\ UNCHANGED <<iter, pc, ksmOps, errors, replay, hostVars>>

(* The end of do_ksm_v3 (prune_metadata, total_accessed_cnt = 0) and the  *)
(* send of the result descriptor: the host now holds the log.            *)
EndScan ==
    /\ Running /\ pc = "scan" /\ todo = <<>>
    /\ meta' = PruneMetadata(meta, iter, accessed, PruneMargin)
    /\ accessed' = 0
    /\ pc' = "replay"
    /\ replay' = meta'.log
    /\ UNCHANGED <<iter, todo, ksmOps, errors, hostVars>>

(* iteration += 1, the next request arrives and clear_log_table runs.    *)
(* Whether the log's realloc will fail this cycle, and at which size, is  *)
(* up to the allocator: room is chosen from LogRooms.                     *)
NextIteration ==
    /\ Running /\ pc = "replay" /\ replay = <<>>
    /\ iter' = iter + 1
    /\ pc' = "errors"
    /\ \E r \in LogRooms : meta' = [meta EXCEPT !.log = <<>>, !.room = r]
    /\ UNCHANGED <<todo, accessed, ksmOps, errors, replay, hostVars>>

---------------------------------------------------------------------------
(* Host (spec-modelled) *)

(* Replay one decision.  A stable merge maps the item onto the KSM frame  *)
(* when their contents are equal; an unstable merge maps the partner onto *)
(* the scanned item's frame, which becomes a KSM page.  Either may fail   *)
(* for other reasons too; a failure goes into the error table.            *)
HostReplay ==
    /\ pc = "replay" /\ replay /= <<>>
    /\ LET e == Head(replay) IN
       CASE e.t = "DPU_STABLE_MERGE" ->
              LET ok == e.y \in hksm /\ e.x \in mapped /\ hcontent[hpfn[e.x]] = hcontent[e.y]
              IN \/ /\ ok
                    /\ hpfn' = [hpfn EXCEPT ![e.x] = e.y]
                    /\ UNCHANGED errors
                 \/ /\ errors' = Append(errors, LogEntry("HOST_MERGE_ONE_FAILED", e.x, e.y))
                    /\ UNCHANGED hpfn
              /\ UNCHANGED hksm
         [] e.t = "DPU_UNSTABLE_MERGE" ->
              LET k  == hpfn[e.x]
                  ok == {e.x, e.y} \subseteq mapped /\ hcontent[k] = hcontent[hpfn[e.y]]
              IN \/ /\ ok
                    /\ hpfn' = [hpfn EXCEPT ![e.y] = k]
                    /\ hksm' = hksm \cup {k}
                    /\ UNCHANGED errors
                 \/ /\ errors' = Append(errors, LogEntry("HOST_MERGE_TWO_FAILED", e.x, e.y))
                    /\ UNCHANGED <<hpfn, hksm>>
         [] OTHER -> UNCHANGED <<hpfn, hksm, errors>>
    /\ replay' = Tail(replay)
    /\ UNCHANGED <<engineVars, hcontent, mapped, hostEvents>>

(* A process writes content c to item i's page: a KSM page is copied to a *)
(* free frame first, any other page is written in place.                  *)
HostWrite ==
    /\ hostEvents < MaxHostEvents
    /\ \E i \in mapped, c \in Contents :
         /\ hcontent[hpfn[i]] /= c
         /\ IF hpfn[i] \in hksm
            THEN \E q \in FreePfns :
                   /\ hpfn' = [hpfn EXCEPT ![i] = q]
                   /\ hcontent' = [hcontent EXCEPT ![q] = c]
                   /\ hksm' = hksm \ {q}
            ELSE /\ hcontent' = [hcontent EXCEPT ![hpfn[i]] = c]
                 /\ UNCHANGED <<hpfn, hksm>>
    /\ hostEvents' = hostEvents + 1
    /\ UNCHANGED <<engineVars, errors, replay, mapped>>

(* A process unmaps item i's page between two scans. *)
HostUnmap ==
    /\ hostEvents < MaxHostEvents /\ pc = "replay"
    /\ \E i \in mapped :
         /\ Cardinality(mapped) > 1
         /\ mapped' = mapped \ {i}
    /\ hostEvents' = hostEvents + 1
    /\ UNCHANGED <<engineVars, errors, replay, hpfn, hcontent, hksm>>

Next ==
    \/ HandleError \/ StartScan \/ ScanPage \/ EndScan \/ NextIteration
    \/ HostReplay \/ HostWrite \/ HostUnmap

Spec == Init /\ [][Next]_vars

IterationBound == iter <= FirstIter + MaxIter

---------------------------------------------------------------------------
(* Properties *)

(* Every variable has its type, and the decision log never holds more     *)
(* entries than insert_ksm_log's table could be grown to (realloc).       *)
TypeOK ==
    /\ meta.items \subseteq Items /\ meta.nodes \subseteq NodeIds
    /\ meta.state \in [Items -> ItemStates]
    /\ meta.pfn \in [Items -> Pfns \cup {0}] /\ meta.oldpfn \in [Items -> Pfns \cup {0}]
    /\ meta.oldhash \in [Items -> Hashes] /\ meta.node \in [Items -> NodeRef]
    /\ meta.nhash \in [NodeIds -> Hashes] /\ meta.npfn \in [NodeIds -> Pfns \cup {0}]
    /\ meta.ncnt \in [NodeIds -> Int] /\ meta.nsharers \in [NodeIds -> SUBSET Items]
    /\ meta.ntype \in [NodeIds -> {"HEAD", "CHAIN"}]
    /\ meta.nnext \in [NodeIds -> NodeRef] /\ meta.nprev \in [NodeIds -> NodeRef]
    /\ meta.sidx \in [Contents -> NodeRef] /\ meta.uidx \in [Contents -> Items \cup {NoItem}]
    /\ meta.score \in [Items -> 0..ScoreCap] /\ meta.age \in [Items -> 0..AgeCap]
    /\ meta.skip \in [Items -> 0..8 \cup 0..GarbageCap] /\ meta.room \in LogRooms
    /\ Len(meta.log) <= meta.room
    /\ ksmOps \in KsmOps /\ iter \in Nat /\ pc \in {"errors", "scan", "replay"}
    /\ hpfn \in [Items -> Pfns] /\ hcontent \in [Pfns -> Contents] /\ hksm \subseteq Pfns
    /\ mapped \subseteq Items

(* The engine never reaches an ERR_LOG_AND_STOP: no branch of             *)
(* cmp_and_merge_one, do_handle_error or prune_metadata finds the         *)
(* metadata inconsistent with what the host reported.                     *)
NoErrStop == Running

(* An item is Stable exactly when it sits in the sharing tree of the live *)
(* node its stable_node points to, and then it carries that node's hash   *)
(* and frame (insert_item_to_node, reset_item_state, update_item_checksum *)
(* and every path that removes an item from a node keep this together).   *)
StableItemsConsistent ==
    Running =>
      /\ \A n \in meta.nodes, i \in Items :
            i \in meta.nsharers[n] <=> (i \in meta.items /\ meta.state[i] = "Stable" /\ meta.node[i] = n)
      /\ \A i \in meta.items : meta.state[i] = "Stable" =>
            /\ meta.node[i] \in meta.nodes
            /\ meta.oldhash[i] = meta.nhash[meta.node[i]]
            /\ meta.pfn[i] = meta.npfn[meta.node[i]]

(* Every live node has between 1 and MAX_PAGE_SHARING sharers and its     *)
(* shared_cnt counts them: a node left empty is always freed.             *)
SharedCountExact ==
    Running => \A n \in meta.nodes :
        /\ meta.ncnt[n] = Cardinality(meta.nsharers[n])
        /\ 1 <= meta.ncnt[n] /\ meta.ncnt[n] <= MaxSharing

(* Chains are doubly linked lists of live nodes of one hash, headed by    *)
(* their only HEAD node (insert_stable_node, remove_stable_node_no_item,  *)
(* and the hash update of cmp_and_merge_one).                             *)
ChainsWellFormed ==
    Running => \A n \in meta.nodes :
        /\ (meta.ntype[n] = "HEAD") <=> (meta.nprev[n] = NoNode)
        /\ meta.nprev[n] /= NoNode => meta.nprev[n] \in meta.nodes /\ meta.nnext[meta.nprev[n]] = n
        /\ meta.nnext[n] /= NoNode =>
             /\ meta.nnext[n] \in meta.nodes /\ meta.nprev[meta.nnext[n]] = n
             /\ meta.nhash[meta.nnext[n]] = meta.nhash[n]

(* The stable hash table holds, under each hash, the HEAD of the chain of *)
(* that hash, and every HEAD is reachable from it: no live node is lost   *)
(* to cmp_with_stable.                                                    *)
StableTableExact ==
    Running =>
      /\ \A h \in Contents : meta.sidx[h] /= NoNode =>
            meta.sidx[h] \in meta.nodes /\ meta.ntype[meta.sidx[h]] = "HEAD" /\ meta.nhash[meta.sidx[h]] = h
      /\ \A n \in meta.nodes : meta.ntype[n] = "HEAD" => meta.sidx[meta.nhash[n]] = n

(* The unstable hash table holds exactly the Unstable items, each under   *)
(* its old_hash, and is empty between scans (cmp_with_unstable,           *)
(* insert_unstable_node, clean_up_unstable_tree).                         *)
UnstableTableExact ==
    Running =>
      /\ \A h \in Contents : meta.uidx[h] /= NoItem =>
            meta.uidx[h] \in meta.items /\ meta.state[meta.uidx[h]] = "Unstable" /\ meta.oldhash[meta.uidx[h]] = h
      /\ \A i \in meta.items : meta.state[i] = "Unstable" => pc = "scan" /\ meta.uidx[meta.oldhash[i]] = i

(* When a scan starts, after the error table has been handled, every      *)
(* frame the host has two mapped items share is the frame of the stable   *)
(* node the engine holds both items in: the log replay and the            *)
(* HOST_MERGE_*_FAILED undo together leave the engine's view of which     *)
(* pages are merged equal to the host's.                                  *)
ScanStart == pc = "scan" /\ Len(todo) = Cardinality(mapped)
EngineMatchesHost ==
    (Running /\ ScanStart) =>
      \A i, j \in mapped :
        (i /= j /\ hpfn[i] = hpfn[j]) =>
          \A k \in {i, j} : meta.state[k] = "Stable" /\ meta.npfn[meta.node[k]] = hpfn[i]
=============================================================================
