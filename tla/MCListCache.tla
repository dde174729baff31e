---------------------------- MODULE MCListCache ----------------------------
(* Small instances of ListCache: keys and threads are interchangeable, so  *)
(* both are symmetry sets (no run here checks liveness).                   *)
EXTENDS ListCache, TLC

Symmetry == Permutations(Keys) \cup Permutations(Threads)

=============================================================================
