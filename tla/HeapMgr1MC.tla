----------------------------- MODULE HeapMgr1MC -----------------------------
(* Instances of HeapMgr1 for TLC: the .cfg files give the sizes.           *)
EXTENDS HeapMgr1
=============================================================================
