---------------------------- MODULE DecommentMC ----------------------------
(* Instances of Decomment for TLC.                                         *)
EXTENDS Decomment
A == "a"
===========================================================================
