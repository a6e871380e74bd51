------------------------------ MODULE KeyHash ------------------------------
(***************************************************************************)
(* hash() of hashtable.c: the bucket of a key.  A key is the sequence of   *)
(* its characters, each the number a (signed) char holds.  The sum is kept *)
(* in an unsigned int and wraps at WordSize, 2^32 in the code.             *)
(***************************************************************************)
EXTENDS Integers, SequencesExt

CONSTANT WordSize
ASSUME WordAssumption == WordSize \in Nat \ {0}

hash(key, hash_size) ==
    FoldLeft(LAMBDA h, c : (h * 32 + c) % WordSize, 0, key) % hash_size
=============================================================================
