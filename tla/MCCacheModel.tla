---------------------------- MODULE MCCacheModel -----------------------------
(***************************************************************************)
(* Line 4 is DRAM's first line and 0 its low-memory alias, 6 another line  *)
(* of their set; 5, where there is one, is alone in the other set.         *)
(***************************************************************************)
EXTENDS CacheModel, Naturals

MCSetOf == [l \in Lines |-> l % 2]
MCAlias == [l \in Lines |-> IF l = 0 THEN 4 ELSE l]
=============================================================================
