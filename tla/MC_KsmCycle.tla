---------------------------- MODULE MC_KsmCycle ----------------------------
(* Model values and bounds for checking KsmCycle with TLC. *)
EXTENDS KsmCycle

(* Four pages: enough for a saturated node (MAX_PAGE_SHARING = 2) and a   *)
(* second node chained behind it, or for two nodes of different hashes.   *)
MC_Items   == 1..4
MC_Pfns    == 1..6
MC_NodeIds == 1..3

(* The log holds every entry of a cycle of four pages (at most two per    *)
(* page), or realloc fails once it holds one.                             *)
MC_LogRooms == {1, 8}

(* The engine started with or without the `old` flag (which also turns    *)
(* smart scan off), or only without it.                                   *)
MC_KsmOpsBoth == {"cmp_and_merge_one", "cmp_and_merge_one_old"}
MC_KsmOpsNew  == {"cmp_and_merge_one"}

(* Three pages, for the runs with the smart-scan counters. *)
MC_Items3  == 1..3
MC_Pfns3   == 1..5
=============================================================================
