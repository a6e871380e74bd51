---------------------------- MODULE HashTableMC ----------------------------
(***************************************************************************)
(* Instances of HashTable for TLC.  The keys are short strings; the word   *)
(* of the hash is cut to ten bits, so that it wraps on the third character *)
(* and "caa" and "baa" meet in a bucket for that reason, where they join   *)
(* "c".                                                                    *)
(***************************************************************************)
EXTENDS HashTable, KeyHash

Baa == <<98, 97, 97>>
Caa == <<99, 97, 97>>
C   == <<99>>
ThreeKeys == {Baa, Caa, C}
Hashed == [k \in Keys |-> hash(k, HashSize)]

Symmetry == Permutations(Nodes) \cup Permutations(Threads) \cup Permutations(Values)
=============================================================================
