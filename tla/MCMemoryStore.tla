---------------------------- MODULE MCMemoryStore ----------------------------
(* Small instances of MemoryStore.                                          *)
EXTENDS MemoryStore, TLC

CONSTANTS h1, h2, c1, c2, k1

NothingNear == {}

Symmetry == Permutations({h1, h2}) \cup Permutations({c1, c2})

=============================================================================
