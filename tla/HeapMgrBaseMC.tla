--------------------------- MODULE HeapMgrBaseMC ---------------------------
(* Instances of HeapMgrBase for TLC: the .cfg file gives the sizes.        *)
EXTENDS HeapMgrBase
=============================================================================
