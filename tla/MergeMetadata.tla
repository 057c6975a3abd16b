--------------------------- MODULE MergeMetadata ---------------------------
(***************************************************************************)
(* The offload engine's merge metadata (src/codes/bask/server.h) and the   *)
(* per-page decision procedure cmp_and_merge_one (server.c), written as    *)
(* operators from one metadata record m to the next.  The record holds the *)
(* rmap tree (items and their fields), the stable nodes with their chains, *)
(* the stable hash table, the unstable hash table, the decision log and a  *)
(* flag for an ERR_LOG_AND_STOP, after which the engine thread spins in    *)
(* debug_stop forever.  C code that calls several helpers in a row is      *)
(* modelled by applying the helpers' operators in the same order.          *)
(*                                                                         *)
(* Data abstraction: a page hash pair is the page's content (a member of   *)
(* Contents; hash collisions are not modelled); item identities are the    *)
(* integers of Items in (mm_id, va) order; node identities are the         *)
(* integers of NodeIds, malloc handing out the least free one.             *)
(***************************************************************************)
EXTENDS Integers, FiniteSets, Sequences

CONSTANTS
    Items,        \* rmap items, identified by (mm_id, va), ordered
    Contents,     \* page contents; their hash pair is the content itself
    Pfns,         \* physical frame numbers (0 is "no pfn")
    NodeIds,      \* addresses malloc can give a struct stable_node
    NullHash,     \* null_hash
    NoNode,       \* NULL stable_node pointer
    NoItem,       \* NULL rmap_item pointer
    MaxSharing,   \* MAX_PAGE_SHARING
    ScoreCap,     \* model bound: volatility_score saturates here
    AgeCap,       \* model bound: age saturates here (>= 4 keeps skip_volatile exact)
    GarbageCap,   \* model bound: largest garbage volatility_score or skip_cnt of a fresh item
    SmartScan,    \* smart_scan_opt (SMART_SCAN_ON)
    LogRooms      \* fault model: entries the log table can take in a cycle before realloc fails

Hashes     == Contents \cup {NullHash}
ItemStates == {"Volatile", "Unstable", "Stable"}
NodeRef    == NodeIds \cup {NoNode}
NodeBound  == Cardinality(NodeIds)   \* no chain is longer than this

(* Log entries (struct ksm_event_log) and error entries.  x is the item     *)
(* the entry is about; y is a kpfn or, for unstable merges, the partner.   *)
LogEntry(t, x, y) == [t |-> t, x |-> x, y |-> y]

EmptyMetadata ==
    [ items    |-> {},
      state    |-> [i \in Items |-> "Volatile"],
      pfn      |-> [i \in Items |-> 0],
      oldpfn   |-> [i \in Items |-> 0],
      oldhash  |-> [i \in Items |-> NullHash],
      node     |-> [i \in Items |-> NoNode],
      score    |-> [i \in Items |-> 0],
      age      |-> [i \in Items |-> 0],
      skip     |-> [i \in Items |-> 0],
      last     |-> [i \in Items |-> 0],
      nodes    |-> {},
      nhash    |-> [n \in NodeIds |-> NullHash],
      npfn     |-> [n \in NodeIds |-> 0],
      ncnt     |-> [n \in NodeIds |-> 0],
      nsharers |-> [n \in NodeIds |-> {}],
      ntype    |-> [n \in NodeIds |-> "HEAD"],
      nnext    |-> [n \in NodeIds |-> NoNode],
      nprev    |-> [n \in NodeIds |-> NoNode],
      sidx     |-> [h \in Contents |-> NoNode],
      uidx     |-> [h \in Contents |-> NoItem],
      log      |-> <<>>,
      room     |-> CHOOSE r \in LogRooms : \A s \in LogRooms : r >= s,
      halted   |-> FALSE ]

Fatal(m) == [m EXCEPT !.halted = TRUE]
(* volatility_score += 1 on an unbounded int; ScoreCap is the model's    *)
(* bound, and only smart scan reads the score.                             *)
Inc(s) == IF s < ScoreCap THEN s + 1 ELSE s
Dec(s) == IF s > 0 THEN s - 1 ELSE s

(* insert_ksm_log: append one entry to the decision log.  When the table *)
(* is full and realloc fails, it returns without writing: the entry is    *)
(* lost, while the caller's change to the metadata stands.                *)
(* Variant: the realloc result is not checked and the entry is written   *)
(* past the end of the table.                                             *)
InsertKsmLogUnchecked(m, e) == [m EXCEPT !.log = Append(@, e)]
InsertKsmLog(m, e) == IF Len(m.log) >= m.room THEN m ELSE [m EXCEPT !.log = Append(@, e)]

---------------------------------------------------------------------------
(* Items and stable nodes *)

InsertItemToNode(m, n, i) ==
    IF m.state[i] = "Stable" THEN Fatal(m)
    ELSE [m EXCEPT !.state[i]    = "Stable",
                   !.oldhash[i]  = m.nhash[n],
                   !.oldpfn[i]   = m.pfn[i],
                   !.pfn[i]      = m.npfn[n],
                   !.node[i]     = n,
                   !.ncnt[n]     = @ + 1,
                   !.nsharers[n] = @ \cup {i}]

(* Variant: shared_cnt is not decremented. *)
RemoveItemFromNodeKeepsCount(m, n, i) == [m EXCEPT !.nsharers[n] = @ \ {i}]

RemoveItemFromNode(m, n, i) ==
    [m EXCEPT !.ncnt[n] = @ - 1, !.nsharers[n] = @ \ {i}]

ResetItemState(m, i) ==
    [m EXCEPT !.state[i] = "Volatile", !.pfn[i] = m.oldpfn[i],
              !.oldpfn[i] = 0, !.oldhash[i] = NullHash, !.node[i] = NoNode]

(* free(node): the model forgets the node's fields. *)
FreeStableNode(m, n) ==
    [m EXCEPT !.nodes = @ \ {n}, !.nhash[n] = NullHash, !.npfn[n] = 0,
              !.ncnt[n] = 0, !.nsharers[n] = {}, !.ntype[n] = "HEAD",
              !.nnext[n] = NoNode, !.nprev[n] = NoNode]

(* g_hash_table_remove / g_hash_table_insert on the stable table: both go  *)
(* by hash equality, so a remove drops whatever node holds that hash and   *)
(* an insert replaces it.                                                  *)
StableTableRemove(m, h) == [m EXCEPT !.sidx[h] = NoNode]
StableTableInsert(m, n) == [m EXCEPT !.sidx[m.nhash[n]] = n]

RECURSIVE ChainTail(_, _, _), ChainHead(_, _, _), ChainFrom(_, _, _),
          FirstUnsaturated(_, _, _)
ChainTail(m, n, fuel) ==
    IF m.nnext[n] = NoNode \/ fuel = 0 THEN n ELSE ChainTail(m, m.nnext[n], fuel - 1)
ChainHead(m, n, fuel) ==
    IF m.nprev[n] = NoNode \/ fuel = 0 THEN n ELSE ChainHead(m, m.nprev[n], fuel - 1)
ChainFrom(m, n, fuel) ==
    IF n = NoNode \/ fuel = 0 THEN {} ELSE {n} \cup ChainFrom(m, m.nnext[n], fuel - 1)
FirstUnsaturated(m, n, fuel) ==
    IF n = NoNode \/ fuel = 0 THEN NoNode
    ELSE IF m.ncnt[n] < MaxSharing THEN n
    ELSE FirstUnsaturated(m, m.nnext[n], fuel - 1)

(* Variant: the HEAD is returned without checking its shared count. *)
CmpWithStableHeadOnly(m, h) == m.sidx[h]
CmpWithStable(m, h) == FirstUnsaturated(m, m.sidx[h], NodeBound)

InsertStableNode(m, nw) ==
    LET ex == m.sidx[m.nhash[nw]] IN
    IF ex /= NoNode
    THEN LET t == ChainTail(m, ex, NodeBound) IN
         [m EXCEPT !.nnext[t] = nw, !.ntype[nw] = "CHAIN", !.nprev[nw] = t]
    ELSE StableTableInsert([m EXCEPT !.ntype[nw] = "HEAD", !.nnext[nw] = NoNode,
                                     !.nprev[nw] = NoNode], nw)

(* Variant: the promoted next node keeps its prev pointer. *)
RemoveStableNodeKeepsPrev(m, n) ==
    IF m.ntype[n] = "HEAD"
    THEN IF m.nnext[n] = NoNode
         THEN FreeStableNode(StableTableRemove(m, m.nhash[n]), n)
         ELSE IF m.nprev[n] /= NoNode THEN Fatal(m)
         ELSE LET nx == m.nnext[n]
                  m1 == [m EXCEPT !.ntype[nx] = "HEAD"]
              IN FreeStableNode(StableTableInsert(StableTableRemove(m1, m.nhash[n]), nx), n)
    ELSE IF m.nprev[n] = NoNode THEN Fatal(m)
    ELSE LET pv == m.nprev[n]
             nx == m.nnext[n]
             m1 == [m EXCEPT !.nnext[pv] = nx]
         IN FreeStableNode(IF nx /= NoNode THEN [m1 EXCEPT !.nprev[nx] = pv] ELSE m1, n)

RemoveStableNodeNoItem(m, n) ==
    IF m.ntype[n] = "HEAD"
    THEN IF m.nnext[n] = NoNode
         THEN FreeStableNode(StableTableRemove(m, m.nhash[n]), n)
         ELSE IF m.nprev[n] /= NoNode THEN Fatal(m)
         ELSE LET nx == m.nnext[n]
                  m1 == [m EXCEPT !.ntype[nx] = "HEAD", !.nprev[nx] = NoNode]
              IN FreeStableNode(StableTableInsert(StableTableRemove(m1, m.nhash[n]), nx), n)
    ELSE IF m.nprev[n] = NoNode THEN Fatal(m)
    ELSE LET pv == m.nprev[n]
             nx == m.nnext[n]
             m1 == [m EXCEPT !.nnext[pv] = nx]
         IN FreeStableNode(IF nx /= NoNode THEN [m1 EXCEPT !.nprev[nx] = pv] ELSE m1, n)

RemoveStaleNodeAndLog(m, n, last) ==
    RemoveStableNodeNoItem(InsertKsmLog(m, LogEntry("DPU_STALE_STABLE_NODE", last, m.npfn[n])), n)

(* Leave node n; free it, or log the state change, as the code does after  *)
(* remove_item_from_node.                                                  *)
LeaveNode(m, n, i, logChange) ==
    LET m1 == RemoveItemFromNode(m, n, i) IN
    IF m1.ncnt[n] = 0 THEN RemoveStaleNodeAndLog(m1, n, i)
    ELSE IF logChange THEN InsertKsmLog(m1, LogEntry("DPU_ITEM_STATE_CHANGE", i, m1.npfn[n]))
    ELSE m1

---------------------------------------------------------------------------
(* Unstable hash table, keyed by an item's old_hash *)

(* Variant: the partner is left in the unstable table. *)
CmpWithUnstableKeeps(m, i) == [m |-> m, u |-> m.uidx[m.oldhash[i]]]

CmpWithUnstable(m, i) ==
    LET u == m.uidx[m.oldhash[i]] IN
    [m |-> IF u /= NoItem THEN [m EXCEPT !.uidx[m.oldhash[i]] = NoItem] ELSE m,
     u |-> u]

InsertUnstableNode(m, i) ==
    IF m.uidx[m.oldhash[i]] /= NoItem THEN Fatal(m)
    ELSE [m EXCEPT !.uidx[m.oldhash[i]] = i]

CleanUpUnstableTree(m) ==
    LET listed == {m.uidx[h] : h \in Contents} \ {NoItem} IN
    [m EXCEPT !.state = [i \in Items |-> IF i \in listed THEN "Volatile" ELSE m.state[i]],
              !.uidx  = [h \in Contents |-> NoItem]]

---------------------------------------------------------------------------
(* The smart-scan skip heuristic *)

SkipVolatile(score, age) ==
    IF score > 0
    THEN CASE score + age < 3  -> 1
           [] score + age = 3  -> 2
           [] score + age = 4  -> 4
           [] OTHER            -> 8
    ELSE 0

(* should_skip_item: the decision and the item's recharged skip_cnt. *)
ShouldSkipItem(m, i) ==
    IF ~SmartScan \/ m.state[i] = "Stable" THEN [skip |-> FALSE, m |-> m]
    ELSE IF m.skip[i] > 0 THEN [skip |-> TRUE, m |-> [m EXCEPT !.skip[i] = @ - 1]]
    ELSE [skip |-> FALSE, m |-> [m EXCEPT !.skip[i] = SkipVolatile(m.score[i], m.age[i])]]

---------------------------------------------------------------------------
(* cmp_and_merge_one for a page of item i whose content hashes to h *)

(* An unstable partner u was found: promote both items to a new node. *)
PromoteToStable(m, i, u, h) ==
    IF NodeIds \subseteq m.nodes THEN Fatal(m)   \* malloc failed: return -1
    ELSE LET n  == CHOOSE n \in NodeIds \ m.nodes : \A o \in NodeIds \ m.nodes : n <= o
             m1 == [m EXCEPT !.nodes = @ \cup {n}, !.ncnt[n] = 0, !.nhash[n] = h,
                             !.npfn[n] = m.pfn[i], !.nsharers[n] = {}]
             m2 == InsertItemToNode(InsertItemToNode(InsertStableNode(m1, n), n, u), n, i)
         IN InsertKsmLog(m2, LogEntry("DPU_UNSTABLE_MERGE", i, u))

VolatileHashed(m, i, h) ==
    IF m.oldhash[i] = h
    THEN LET m1 == [m EXCEPT !.score[i] = Dec(@)]
             s  == CmpWithStable(m1, h)
         IN IF s /= NoNode
            THEN IF m1.ncnt[s] >= MaxSharing THEN Fatal(m1)
                 ELSE LET m2 == InsertItemToNode(m1, s, i)
                      IN InsertKsmLog(m2, LogEntry("DPU_STABLE_MERGE", i, m2.npfn[s]))
            ELSE LET r == CmpWithUnstable([m1 EXCEPT !.oldhash[i] = h], i) IN
                 IF r.u /= NoItem THEN PromoteToStable(r.m, i, r.u, h)
                 ELSE InsertUnstableNode([r.m EXCEPT !.state[i] = "Unstable"], i)
    ELSE [m EXCEPT !.score[i] = IF m.oldhash[i] /= NullHash THEN Inc(@) ELSE @,
                   !.oldhash[i] = h]

VolatileStep(m, i, h) ==
    LET sk == ShouldSkipItem([m EXCEPT !.age[i] = IF @ < AgeCap THEN @ + 1 ELSE @], i)
    IN IF sk.skip THEN sk.m ELSE VolatileHashed(sk.m, i, h)

(* The item's page is still the node's page but its content changed: move *)
(* the whole chain, from its head, to the new hash.                        *)
(* Variant: only the HEAD's sharers get the new old_hash. *)
UpdateChainHashHeadSharers(m, head, h) ==
    LET chain == ChainFrom(m, head, NodeBound)
        m1    == StableTableRemove(m, m.nhash[head])
    IN StableTableInsert(
         [m1 EXCEPT !.nhash   = [x \in NodeIds |-> IF x \in chain THEN h ELSE m.nhash[x]],
                    !.oldhash = [j \in Items |-> IF j \in m.nsharers[head] THEN h ELSE m.oldhash[j]]],
         head)

UpdateChainHash(m, head, h) ==
    LET chain   == ChainFrom(m, head, NodeBound)
        sharers == UNION {m.nsharers[x] : x \in chain}
        m1      == StableTableRemove(m, m.nhash[head])
    IN IF \E j \in sharers : m.state[j] /= "Stable" THEN Fatal(m1)
       ELSE StableTableInsert(
              [m1 EXCEPT !.nhash   = [x \in NodeIds |-> IF x \in chain THEN h ELSE m.nhash[x]],
                         !.oldhash = [j \in Items |-> IF j \in sharers THEN h ELSE m.oldhash[j]]],
              head)

StableHashChanged(m, n, h) ==
    IF m.ntype[n] = "HEAD" THEN UpdateChainHash(m, n, h)
    ELSE IF m.nprev[n] = NoNode THEN Fatal(m)
    ELSE LET hd == ChainHead(m, n, NodeBound) IN
         IF m.ntype[hd] /= "HEAD" THEN Fatal(m) ELSE UpdateChainHash(m, hd, h)

(* Variant: the re-fault test compares the item's pfn with its old_pfn. *)
StableStepComparesOldPfn(m, i, h) ==
    LET n == m.node[i] IN
    IF m.oldpfn[i] /= m.pfn[i]
    THEN LET m1 == LeaveNode(ResetItemState(m, i), n, i, TRUE)
         IN VolatileStep([m1 EXCEPT !.score[i] = Inc(@)], i, h)
    ELSE [m EXCEPT !.score[i] = Dec(@)]

StableStep(m, i, h) ==
    LET n == m.node[i] IN
    IF m.npfn[n] /= m.pfn[i]
    THEN LET m1 == LeaveNode(ResetItemState(m, i), n, i, TRUE)
         IN VolatileStep([m1 EXCEPT !.score[i] = Inc(@)], i, h)
    ELSE LET m1 == IF h = m.oldhash[i] THEN m
                   ELSE IF m.oldhash[i] /= m.nhash[n] THEN Fatal(m)
                   ELSE StableHashChanged(m, n, h)
         IN [m1 EXCEPT !.score[i] = Dec(@)]

CmpAndMergeOne(m, i, h) ==
    CASE m.state[i] = "Stable"   -> StableStep(m, i, h)
      [] m.state[i] = "Volatile" -> VolatileStep(m, i, h)
      [] OTHER                   -> Fatal(m)

(* cmp_and_merge_one_old, the legacy path (the engine's `old` flag): no   *)
(* volatility score, age or skip; a Volatile page is matched against the  *)
(* stable table before its old_hash is compared.                          *)
VolatileStepOld(m, i, h) ==
    LET s == CmpWithStable(m, h) IN
    IF s /= NoNode
    THEN IF m.ncnt[s] >= MaxSharing THEN Fatal(m)
         ELSE LET m1 == InsertItemToNode(m, s, i)
              IN InsertKsmLog(m1, LogEntry("DPU_STABLE_MERGE", i, m1.npfn[s]))
    ELSE IF m.oldhash[i] = h
         THEN LET r == CmpWithUnstable(m, i) IN
              IF r.u /= NoItem THEN PromoteToStable(r.m, i, r.u, h)
              ELSE InsertUnstableNode([r.m EXCEPT !.state[i] = "Unstable"], i)
         ELSE [m EXCEPT !.oldhash[i] = h]

(* Variant: the re-fault test compares the item's pfn with its old_pfn. *)
StableStepOldComparesOldPfn(m, i, h) ==
    LET n == m.node[i] IN
    IF m.oldpfn[i] /= m.pfn[i]
    THEN VolatileStepOld(LeaveNode(ResetItemState(m, i), n, i, TRUE), i, h)
    ELSE m

StableStepOld(m, i, h) ==
    LET n == m.node[i] IN
    IF m.npfn[n] /= m.pfn[i]
    THEN VolatileStepOld(LeaveNode(ResetItemState(m, i), n, i, TRUE), i, h)
    ELSE IF h = m.oldhash[i] THEN m
    ELSE IF m.oldhash[i] /= m.nhash[n] THEN Fatal(m)
    ELSE StableHashChanged(m, n, h)

CmpAndMergeOneOld(m, i, h) ==
    CASE m.state[i] = "Stable"   -> StableStepOld(m, i, h)
      [] m.state[i] = "Volatile" -> VolatileStepOld(m, i, h)
      [] OTHER                   -> Fatal(m)

(* The int iteration stored in the item's short last_access: two's      *)
(* complement truncation to 16 bits.                                       *)
Short(x) == ((x + 2^15) % 2^16) - 2^15

(* lookup_rmap_item: find or create the item of a shadow pte.  A fresh     *)
(* item's volatility_score and skip_cnt are not initialised by the code;   *)
(* s0 and k0 are the garbage malloc left there.                            *)
LookupRmapItem(m, i, p, iter, s0, k0) ==
    IF i \in m.items THEN [m EXCEPT !.last[i] = Short(iter), !.pfn[i] = p]
    ELSE [m EXCEPT !.items = @ \cup {i}, !.state[i] = "Volatile", !.oldhash[i] = NullHash,
                   !.age[i] = 0, !.score[i] = s0, !.skip[i] = k0,
                   !.last[i] = Short(iter), !.pfn[i] = p]

---------------------------------------------------------------------------
(* do_handle_error: one entry of the host's error table *)

(* HOST_MERGE_ONE_FAILED: the host could not map item i onto kpfn. *)
UndoMergeOne(m, i, kpfn) ==
    LET n == m.node[i] IN
    IF i \notin m.items \/ n = NoNode \/ m.npfn[n] /= kpfn \/ m.ncnt[n] < 1
    THEN Fatal(m)
    ELSE LeaveNode([ResetItemState(m, i) EXCEPT !.score[i] = Inc(@)], n, i, FALSE)

(* HOST_MERGE_TWO_FAILED: the host could not merge the pair; every sharer  *)
(* of from's node is reset (g_tree_foreach in key order stops at the first *)
(* sharer that is not Stable) and the node is removed.                     *)
UndoMergeTwo(m, from) ==
    LET n     == m.node[from]
        sh    == m.nsharers[n]
        bad   == {j \in sh : m.state[j] /= "Stable"}
        reset == {j \in sh : \A b \in bad : j < b}
    IN IF from \notin m.items \/ n = NoNode THEN Fatal(m)
       ELSE RemoveStableNodeNoItem(
              [m EXCEPT !.state   = [j \in Items |-> IF j \in reset THEN "Volatile" ELSE m.state[j]],
                        !.pfn     = [j \in Items |-> IF j \in reset THEN m.oldpfn[j] ELSE m.pfn[j]],
                        !.oldpfn  = [j \in Items |-> IF j \in reset THEN 0 ELSE m.oldpfn[j]],
                        !.oldhash = [j \in Items |-> IF j \in reset THEN NullHash ELSE m.oldhash[j]],
                        !.node    = [j \in Items |-> IF j \in reset THEN NoNode ELSE m.node[j]],
                        !.score   = [j \in Items |-> IF j \in reset THEN Inc(m.score[j]) ELSE m.score[j]]],
              n)

HandleErrorEntry(m, e) ==
    CASE e.t = "HOST_MERGE_ONE_FAILED" -> UndoMergeOne(m, e.x, e.y)
      [] e.t = "HOST_MERGE_TWO_FAILED" -> UndoMergeTwo(m, e.x)
      [] OTHER                         -> Fatal(m)

---------------------------------------------------------------------------
(* prune_metadata at the end of a scan in iteration iter *)

(* free(item): the model forgets the item's fields. *)
FreeRmapItem(m, i) ==
    [m EXCEPT !.items = @ \ {i}, !.state[i] = "Volatile", !.pfn[i] = 0, !.oldpfn[i] = 0,
              !.oldhash[i] = NullHash, !.node[i] = NoNode, !.score[i] = 0,
              !.age[i] = 0, !.skip[i] = 0, !.last[i] = 0]

RECURSIVE PruneEach(_, _)
PruneEach(m, keys) ==
    IF keys = <<>> THEN m
    ELSE LET i  == Head(keys)
             n  == m.node[i]
             m1 == IF m.state[i] = "Stable" /\ n /= NoNode THEN LeaveNode(m, n, i, FALSE) ELSE m
         IN PruneEach(FreeRmapItem(m1, i), Tail(keys))

(* collect_keys_to_remove walks the tree in key order and prepends, so the *)
(* list is in descending key order.                                        *)
PruneRmapTree(m, iter) ==
    LET old  == {i \in m.items : m.last[i] < iter - 1}
        keys == [k \in 1..Cardinality(old) |->
                   CHOOSE i \in old : Cardinality({j \in old : j > i}) = k - 1]
    IN IF \E i \in old : m.state[i] = "Unstable" \/ (m.state[i] = "Stable" /\ m.node[i] = NoNode)
       THEN Fatal(m)
       ELSE PruneEach(m, keys)

PruneMetadata(m, iter, accessed, margin) ==
    LET m1 == CleanUpUnstableTree(m) IN
    IF Cardinality(m1.items) - accessed > margin THEN PruneRmapTree(m1, iter) ELSE m1
=============================================================================
