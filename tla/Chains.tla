------------------------------- MODULE Chains -------------------------------
(* Following a pointer field through the objects that have it, as the      *)
(* shards walk their lists.                                                *)
EXTENDS Naturals, FiniteSets

(* What is met from a by following the field f up to i times; a pointer    *)
(* that is not to such an object is met and not followed.                  *)
Reached(f, a) ==
  LET reach[i \in 0..Cardinality(DOMAIN f)] ==
        IF i = 0 THEN {a}
        ELSE LET S == reach[i - 1] IN S \cup {f[x] : x \in S \cap DOMAIN f}
  IN  reach

(* After as many steps as there are objects, nothing new is met.           *)
Chain(f, a) == Reached(f, a)[Cardinality(DOMAIN f)]

=============================================================================
