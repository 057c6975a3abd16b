-------------------------- MODULE MC_ScanPipeline --------------------------
(* Two shadow page tables: the first of four pages is read in a window of *)
(* three and a window of one, so a window holds two pre-hash runs (two    *)
(* pages, then one); the second table has a single page.                  *)
EXTENDS ScanPipeline

MC_EntryCnts == <<4, 1>>
=============================================================================
