------------------------------ MODULE RWLockMC ------------------------------
(* RWLock on the small instances of RWLock*.cfg. *)
EXTENDS RWLock
=============================================================================
