------------------------------ MODULE PageScan ------------------------------
(***************************************************************************)
(* What one call of do_ksm_v3 promises the merge engine: the pages of the  *)
(* shadow page tables the host sent are handed to cmp_and_merge_one one at *)
(* a time, table after table and, within a table, in va2dma_map order,     *)
(* each page exactly once.  The scan may stop early (do_ksm_v3 returns -1 *)
(* on an RDMA or allocation error), but it never skips or repeats a page.  *)
(***************************************************************************)
EXTENDS Naturals, Sequences

CONSTANT EntryCnts     \* entry_cnt of each shadow_pt_descriptor, in order

VARIABLE handled       \* the pages handed to cmp_and_merge_one so far

\* Page <<t, k>> is entry k (0-based) of table t (1-based).
AllPages ==
  LET RECURSIVE From(_)
      From(t) == IF t > Len(EntryCnts) THEN << >>
                 ELSE [k \in 1..EntryCnts[t] |-> <<t, k - 1>>] \o From(t + 1)
  IN  From(1)

Init == handled = << >>

HandleNext ==
  /\ Len(handled) < Len(AllPages)
  /\ handled' = Append(handled, AllPages[Len(handled) + 1])

Spec == Init /\ [][HandleNext]_handled
=============================================================================
