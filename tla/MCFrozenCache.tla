--------------------------- MODULE MCFrozenCache ---------------------------
(* Small instances of FrozenCache; keys and threads are interchangeable.   *)
(* A key has at most Copies list nodes at a time; get_curve has one more.  *)
EXTENDS FrozenCache, TLC

CONSTANT Copies

KeyNodes == Keys \X (1..Copies)
MarkedNodes == KeyNodes \cup {<<MARKER_KEY, 1>>}

(* FairSpec of a shard that is never split and has a slot for every key:   *)
(* the steps left out, construct_ratio and evict, are never enabled in it. *)
TierNext ==
  \/ ConstructTier \/ WalkFind \/ ConstructDone \/ Deconstruct \/ GetCurve
  \/ \E t \in Threads : Find(t) \/ Insert(t) \/ Delete(t)

FairTierSpec == Init /\ [][TierNext]_vars /\ Fairness

Symmetry == Permutations(Keys) \cup Permutations(Threads)

=============================================================================
