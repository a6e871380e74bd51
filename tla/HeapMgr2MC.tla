----------------------------- MODULE HeapMgr2MC -----------------------------
(* Instances of HeapMgr2 for TLC: three bins, with limits 4 and 8 units.   *)
EXTENDS HeapMgr2
=============================================================================
