------------------------------ MODULE NodeList ------------------------------
(***************************************************************************)
(* The intrusive doubly linked list that every recency or arrival ordered  *)
(* shard of FrozenHot owns (struct ListNode, delink, pushFront, pushAfter  *)
(* in src/cache/hhvm_lru_cache.h, strict_lru.h, FIFO.h and the two _FH     *)
(* headers).  A list state is a record of the two pointer fields of all    *)
(* nodes and sentinels; an operation maps a list state to the next one,    *)
(* with the stores in the order of the code.                               *)
(***************************************************************************)
EXTENDS Chains

CONSTANTS Nodes,            \* addresses a ListNode may be allocated at
          Sentinels,        \* the list ends embedded in the shard object
          Head, Tail,       \* &m_head and &m_tail, two of them
          OutOfListMarker,  \* (ListNode*)-1
          Null              \* nullptr

ASSUME SentinelAssumption ==
  /\ Head \in Sentinels /\ Tail \in Sentinels /\ Head # Tail
  /\ OutOfListMarker # Null
  /\ OutOfListMarker \notin Nodes \cup Sentinels
  /\ Null \notin Nodes \cup Sentinels
  /\ Nodes \cap Sentinels = {}

Cells == Nodes \cup Sentinels
Pointers == Cells \cup {OutOfListMarker, Null}

ListStates == [prev : [Cells -> Pointers], next : [Cells -> Pointers]]

(* h and t face each other: the list between them is empty. *)
emptyEnds(L, h, t) ==
  [prev |-> [L.prev EXCEPT ![t] = h], next |-> [L.next EXCEPT ![h] = t]]

(* The constructor of a shard with the one list. *)
EmptyList ==
  emptyEnds([prev |-> [c \in Cells |-> IF c \in Sentinels THEN Null
                                                          ELSE OutOfListMarker],
             next |-> [c \in Cells |-> Null]], Head, Tail)

isInList(L, n) == L.prev[n] # OutOfListMarker

Linked(L) == {n \in Nodes : isInList(L, n)}

(* delink leaves m_next of the node as it was. *)
delink(L, n) ==
  [prev |-> [L.prev EXCEPT ![L.next[n]] = L.prev[n], ![n] = OutOfListMarker],
   next |-> [L.next EXCEPT ![L.prev[n]] = L.next[n]]]

pushAfter_OneWay(L, before, n) ==
  [prev |-> [L.prev EXCEPT ![n] = before],
   next |-> [L.next EXCEPT ![n] = L.next[before], ![before] = n]]
pushAfter(L, before, n) ==
  [prev |-> [L.prev EXCEPT ![n] = before, ![L.next[before]] = n],
   next |-> [L.next EXCEPT ![n] = L.next[before], ![before] = n]]

pushFront(L, n) == pushAfter(L, Head, n)

(* What find does to a hit that is still linked. *)
moveToFront_NoDelink(L, n) == pushFront(L, n)
moveToFront(L, n) == pushFront(delink(L, n), n)

(* A node that is constructed anew or freed: its fields carry nothing over *)
(* (the contents of freed memory are not modelled, every access to it is). *)
resetNode(L, n) ==
  [prev |-> [L.prev EXCEPT ![n] = OutOfListMarker],
   next |-> [L.next EXCEPT ![n] = Null]]

-----------------------------------------------------------------------------
(* Neighbours agree: following m_next and m_prev from any linked cell of a *)
(* list comes back, and never leaves the linked nodes and the list ends.   *)
WellLinked(L, heads, tails) ==
  /\ \A c \in Linked(L) \cup tails :
        L.prev[c] \in Linked(L) \cup heads /\ L.next[L.prev[c]] = c
  /\ \A c \in Linked(L) \cup heads :
        L.next[c] \in Linked(L) \cup tails /\ L.prev[L.next[c]] = c

(* The cells met from h by following m_next, as clear and snapshotKeys do. *)
ListChain(L, h) == Chain(L.next, h) \ {Null}

=============================================================================
