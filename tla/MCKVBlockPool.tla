--------------------------- MODULE MCKVBlockPool ----------------------------
EXTENDS KVBlockPool, TLC

(* Blocks, sequences and prefixes are interchangeable in the pool. *)
MCSymmetry == Permutations(Blocks) \cup Permutations(Seqs) \cup Permutations(Hashes)
=============================================================================
