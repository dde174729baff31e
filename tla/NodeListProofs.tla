--------------------------- MODULE NodeListProofs ---------------------------
(* What the list operations return and preserve, for every well linked     *)
(* list, any number of list ends and any number of nodes.                  *)
EXTENDS NodeList, TLAPS

(* The seconds a prover has for a step. *)
USE SMTT(30), ZenonT(30)

Ends(heads, tails) ==
  heads \subseteq Sentinels /\ tails \subseteq Sentinels /\ heads \cap tails = {}

(* delink takes exactly the node out and joins its neighbours. *)
LEMMA DelinkLemma ==
  ASSUME NEW heads, NEW tails, Ends(heads, tails),
         NEW L \in ListStates, WellLinked(L, heads, tails),
         NEW n \in Linked(L)
  PROVE  /\ delink(L, n) \in ListStates
         /\ Linked(delink(L, n)) = Linked(L) \ {n}
         /\ WellLinked(delink(L, n), heads, tails)
<1> DEFINE D == delink(L, n)
<1> USE SentinelAssumption DEF Ends, Cells, Pointers
<1>1. /\ L.prev \in [Cells -> Pointers] /\ L.next \in [Cells -> Pointers]
      /\ n \in Nodes /\ L.prev[n] # OutOfListMarker
      /\ L.prev[n] \in Linked(L) \cup heads /\ L.next[n] \in Linked(L) \cup tails
      /\ L.next[L.prev[n]] = n /\ L.prev[L.next[n]] = n
      /\ Linked(L) \subseteq Nodes
  BY DEF ListStates, WellLinked, Linked, isInList
<1>2. /\ D.prev = [L.prev EXCEPT ![L.next[n]] = L.prev[n], ![n] = OutOfListMarker]
      /\ D.next = [L.next EXCEPT ![L.prev[n]] = L.next[n]]
  BY DEF delink
<1>3. D \in ListStates
  BY <1>1 DEF delink, ListStates
<1>4. /\ \A c \in Cells : D.prev[c] = IF c = n THEN OutOfListMarker
                                      ELSE IF c = L.next[n] THEN L.prev[n]
                                      ELSE L.prev[c]
      /\ \A c \in Cells : D.next[c] = IF c = L.prev[n] THEN L.next[n] ELSE L.next[c]
  BY <1>1, <1>2
<1>5. Linked(D) = Linked(L) \ {n}
  BY <1>1, <1>4 DEF Linked, isInList
<1>6. ASSUME NEW c \in Linked(D) \cup tails
      PROVE  D.prev[c] \in Linked(D) \cup heads /\ D.next[D.prev[c]] = c
  BY <1>1, <1>4, <1>5, <1>6 DEF WellLinked
<1>7. ASSUME NEW c \in Linked(D) \cup heads
      PROVE  D.next[c] \in Linked(D) \cup tails /\ D.prev[D.next[c]] = c
  BY <1>1, <1>4, <1>5, <1>7 DEF WellLinked
<1> QED
  BY <1>3, <1>5, <1>6, <1>7 DEF WellLinked

(* pushAfter links exactly the new node, behind a linked node or a head. *)
LEMMA PushAfterLemma ==
  ASSUME NEW heads, NEW tails, Ends(heads, tails),
         NEW L \in ListStates, WellLinked(L, heads, tails),
         NEW b \in Linked(L) \cup heads, NEW n \in Nodes \ Linked(L)
  PROVE  /\ pushAfter(L, b, n) \in ListStates
         /\ Linked(pushAfter(L, b, n)) = Linked(L) \cup {n}
         /\ WellLinked(pushAfter(L, b, n), heads, tails)
<1> DEFINE P == pushAfter(L, b, n)
<1> USE SentinelAssumption DEF Ends, Cells, Pointers
<1>1. /\ L.prev \in [Cells -> Pointers] /\ L.next \in [Cells -> Pointers]
      /\ L.next[b] \in Linked(L) \cup tails /\ L.prev[L.next[b]] = b
      /\ Linked(L) \subseteq Nodes /\ b \in Cells /\ b # n /\ L.next[b] # n
  BY DEF ListStates, WellLinked, Linked, isInList
<1>2. /\ P.prev = [L.prev EXCEPT ![n] = b, ![L.next[b]] = n]
      /\ P.next = [L.next EXCEPT ![n] = L.next[b], ![b] = n]
  BY DEF pushAfter
<1>3. P \in ListStates
  BY <1>1 DEF pushAfter, ListStates
<1>4. /\ \A c \in Cells : P.prev[c] = IF c = L.next[b] THEN n
                                      ELSE IF c = n THEN b ELSE L.prev[c]
      /\ \A c \in Cells : P.next[c] = IF c = b THEN n
                                      ELSE IF c = n THEN L.next[b] ELSE L.next[c]
  BY <1>1, <1>2
<1>5. Linked(P) = Linked(L) \cup {n}
  BY <1>1, <1>4 DEF Linked, isInList
<1>6. ASSUME NEW c \in Linked(P) \cup tails
      PROVE  P.prev[c] \in Linked(P) \cup heads /\ P.next[P.prev[c]] = c
  BY <1>1, <1>4, <1>5, <1>6 DEF WellLinked
<1>7. ASSUME NEW c \in Linked(P) \cup heads
      PROVE  P.next[c] \in Linked(P) \cup tails /\ P.prev[P.next[c]] = c
  BY <1>1, <1>4, <1>5, <1>7 DEF WellLinked
<1> QED
  BY <1>3, <1>5, <1>6, <1>7 DEF WellLinked

(* A promotion leaves the same nodes linked. *)
LEMMA MoveToFrontLemma ==
  ASSUME NEW heads, NEW tails, Ends(heads, tails), Head \in heads,
         NEW L \in ListStates, WellLinked(L, heads, tails),
         NEW n \in Linked(L)
  PROVE  /\ moveToFront(L, n) \in ListStates
         /\ Linked(moveToFront(L, n)) = Linked(L)
         /\ WellLinked(moveToFront(L, n), heads, tails)
<1> DEFINE D == delink(L, n)
<1>1. /\ D \in ListStates /\ Linked(D) = Linked(L) \ {n}
      /\ WellLinked(D, heads, tails)
  BY DelinkLemma
<1>2. n \in Nodes \ Linked(D)
  BY <1>1 DEF Linked
<1>3. /\ pushAfter(D, Head, n) \in ListStates
      /\ Linked(pushAfter(D, Head, n)) = Linked(D) \cup {n}
      /\ WellLinked(pushAfter(D, Head, n), heads, tails)
  <2> HIDE DEF D
  <2> QED BY <1>1, <1>2, PushAfterLemma
<1> QED
  BY <1>1, <1>3 DEF moveToFront, pushFront

(* Constructing or freeing a node that is not linked changes no list. *)
LEMMA ResetNodeLemma ==
  ASSUME NEW heads, NEW tails, Ends(heads, tails),
         NEW L \in ListStates, WellLinked(L, heads, tails),
         NEW n \in Nodes \ Linked(L)
  PROVE  /\ resetNode(L, n) \in ListStates
         /\ Linked(resetNode(L, n)) = Linked(L)
         /\ WellLinked(resetNode(L, n), heads, tails)
<1> DEFINE R == resetNode(L, n)
<1> USE SentinelAssumption DEF Ends, Cells, Pointers
<1>1. /\ L.prev \in [Cells -> Pointers] /\ L.next \in [Cells -> Pointers]
      /\ Linked(L) \subseteq Nodes
  BY DEF ListStates, Linked
<1>2. /\ R.prev = [L.prev EXCEPT ![n] = OutOfListMarker]
      /\ R.next = [L.next EXCEPT ![n] = Null]
  BY DEF resetNode
<1>3. R \in ListStates
  BY <1>1 DEF resetNode, ListStates
<1>4. \A c \in Cells \ {n} : R.prev[c] = L.prev[c] /\ R.next[c] = L.next[c]
  BY <1>1, <1>2
<1>5. Linked(R) = Linked(L)
  BY <1>1, <1>2 DEF Linked, isInList
<1> QED
  BY <1>1, <1>3, <1>4, <1>5 DEF WellLinked

(* The constructed shard has an empty, well linked list. *)
LEMMA EmptyListLemma ==
  /\ EmptyList \in ListStates
  /\ Linked(EmptyList) = {}
  /\ Sentinels = {Head, Tail} => WellLinked(EmptyList, {Head}, {Tail})
<1> USE SentinelAssumption DEF Cells, Pointers
<1>1. EmptyList \in ListStates
  BY DEF EmptyList, emptyEnds, ListStates
<1>2. /\ \A c \in Cells : EmptyList.prev[c] = IF c = Tail THEN Head
              ELSE IF c \in Sentinels THEN Null ELSE OutOfListMarker
      /\ \A c \in Cells : EmptyList.next[c] = IF c = Head THEN Tail ELSE Null
  BY DEF EmptyList, emptyEnds
<1>3. Linked(EmptyList) = {}
  BY <1>2 DEF Linked, isInList
<1> QED
  BY <1>1, <1>2, <1>3 DEF WellLinked

-----------------------------------------------------------------------------
(* m_prev leads out of every set of linked nodes: no nodes are linked in a *)
(* circle, cut off from the list ends.                                     *)
NoCircle(L) == \A S \in SUBSET Linked(L) : S # {} => \E c \in S : L.prev[c] \notin S

(* delink closes no circle: with the node, it would have been one before. *)
LEMMA DelinkNoCircle ==
  ASSUME NEW heads, NEW tails, Ends(heads, tails),
         NEW L \in ListStates, WellLinked(L, heads, tails), NoCircle(L),
         NEW n \in Linked(L)
  PROVE  /\ NoCircle(delink(L, n))
         /\ \A t \in tails : delink(L, n).next[t] = L.next[t]
<1> DEFINE D == delink(L, n)
<1>0. Linked(D) = Linked(L) \ {n}
  BY DelinkLemma
<1> USE SentinelAssumption DEF Ends, Cells, Pointers
<1>1. /\ L.prev \in [Cells -> Pointers] /\ L.next \in [Cells -> Pointers]
      /\ n \in Nodes /\ L.prev[n] \in Linked(L) \cup heads /\ L.next[n] \in Linked(L) \cup tails
      /\ L.prev[L.next[n]] = n
      /\ Linked(L) \subseteq Nodes
  BY DEF ListStates, WellLinked, Linked
<1>2. /\ D.prev = [L.prev EXCEPT ![L.next[n]] = L.prev[n], ![n] = OutOfListMarker]
      /\ D.next = [L.next EXCEPT ![L.prev[n]] = L.next[n]]
  BY DEF delink
<1>3. /\ \A c \in Cells \ {n} : D.prev[c] = IF c = L.next[n] THEN L.prev[n] ELSE L.prev[c]
      /\ \A t \in tails : D.next[t] = L.next[t]
  BY <1>1, <1>2
<1> HIDE DEF D
<1>4. ASSUME NEW S \in SUBSET Linked(D), S # {}, \A c \in S : D.prev[c] \in S
      PROVE  FALSE
  <2>1. S \in SUBSET Linked(L) /\ n \notin S /\ S \subseteq Cells \ {n}
    BY <1>0, <1>1
  <2>2. CASE L.next[n] \in S
    <3>1. L.prev[n] \in S
      BY <1>1, <1>3, <1>4, <2>1, <2>2
    <3>2. S \cup {n} \in SUBSET Linked(L) /\ S \cup {n} # {}
      BY <2>1
    <3>3. \A c \in S \cup {n} : L.prev[c] \in S \cup {n}
      BY <1>1, <1>3, <1>4, <2>1, <3>1
    <3> QED
      BY <3>2, <3>3, Zenon DEF NoCircle
  <2>3. CASE L.next[n] \notin S
    <3>1. \A c \in S : L.prev[c] \in S
      BY <1>3, <1>4, <2>1, <2>3
    <3> QED
      BY <1>4, <2>1, <3>1 DEF NoCircle
  <2> QED
    BY <2>2, <2>3
<1> QED
  BY <1>3, <1>4 DEF NoCircle, D

(* Nor does pushAfter. *)
LEMMA PushAfterNoCircle ==
  ASSUME NEW heads, NEW tails, Ends(heads, tails),
         NEW L \in ListStates, WellLinked(L, heads, tails), NoCircle(L),
         NEW b \in Linked(L) \cup heads, NEW n \in Nodes \ Linked(L)
  PROVE  /\ NoCircle(pushAfter(L, b, n))
         /\ \A t \in tails : pushAfter(L, b, n).next[t] = L.next[t]
<1> DEFINE P == pushAfter(L, b, n)
<1>0. Linked(P) = Linked(L) \cup {n}
  BY PushAfterLemma
<1> USE SentinelAssumption DEF Ends, Cells, Pointers
<1>1. /\ L.prev \in [Cells -> Pointers] /\ L.next \in [Cells -> Pointers]
      /\ L.next[b] \in Linked(L) \cup tails /\ L.prev[L.next[b]] = b
      /\ Linked(L) \subseteq Nodes /\ b \in Cells /\ b # n /\ L.next[b] # n
  BY DEF ListStates, WellLinked, Linked, isInList
<1>2. /\ P.prev = [L.prev EXCEPT ![n] = b, ![L.next[b]] = n]
      /\ P.next = [L.next EXCEPT ![n] = L.next[b], ![b] = n]
  BY DEF pushAfter
<1>3. /\ \A c \in Cells : P.prev[c] = IF c = n THEN b
                                      ELSE IF c = L.next[b] THEN n ELSE L.prev[c]
      /\ \A t \in tails : P.next[t] = L.next[t]
  BY <1>1, <1>2
<1> HIDE DEF P
<1>4. ASSUME NEW S \in SUBSET Linked(P), S # {}, \A c \in S : P.prev[c] \in S
      PROVE  FALSE
  <2> DEFINE T == S \ {n}
  <2>1. T \in SUBSET Linked(L) /\ S \subseteq Cells
    BY <1>0, <1>1
  <2>2. n \in S => b \in T
    BY <1>1, <1>3, <1>4
  <2>3. T # {}
    BY <1>4, <2>2
  <2>4. \A c \in T : L.prev[c] \in T
    <3> SUFFICES ASSUME NEW c \in T PROVE L.prev[c] \in T
      OBVIOUS
    <3>1. L.prev[c] # n
      BY <1>1, <2>1 DEF WellLinked
    <3>2. CASE c = L.next[b]
      BY <1>1, <1>3, <1>4, <2>1, <2>2, <3>2
    <3>3. CASE c # L.next[b]
      BY <1>3, <1>4, <2>1, <3>1, <3>3
    <3> QED
      BY <3>2, <3>3
  <2> HIDE DEF T
  <2> QED
    BY <2>1, <2>3, <2>4 DEF NoCircle
<1> QED
  BY <1>3, <1>4 DEF NoCircle, P

(* A promotion closes none. *)
LEMMA MoveToFrontNoCircle ==
  ASSUME NEW heads, NEW tails, Ends(heads, tails), Head \in heads,
         NEW L \in ListStates, WellLinked(L, heads, tails), NoCircle(L),
         NEW n \in Linked(L)
  PROVE  /\ NoCircle(moveToFront(L, n))
         /\ \A t \in tails : moveToFront(L, n).next[t] = L.next[t]
<1> DEFINE D == delink(L, n)
<1>1. /\ D \in ListStates /\ Linked(D) = Linked(L) \ {n}
      /\ WellLinked(D, heads, tails)
      /\ NoCircle(D) /\ \A t \in tails : D.next[t] = L.next[t]
  BY DelinkLemma, DelinkNoCircle
<1>2. n \in Nodes \ Linked(D)
  BY <1>1 DEF Linked
<1>3. /\ NoCircle(pushAfter(D, Head, n))
      /\ \A t \in tails : pushAfter(D, Head, n).next[t] = D.next[t]
  <2> HIDE DEF D
  <2> QED BY <1>1, <1>2, PushAfterNoCircle
<1> QED
  BY <1>1, <1>3 DEF moveToFront, pushFront

(* Nor does a node that is not linked. *)
LEMMA ResetNodeNoCircle ==
  ASSUME NEW heads, NEW tails, Ends(heads, tails),
         NEW L \in ListStates, WellLinked(L, heads, tails), NoCircle(L),
         NEW n \in Nodes \ Linked(L)
  PROVE  /\ NoCircle(resetNode(L, n))
         /\ \A t \in tails : resetNode(L, n).next[t] = L.next[t]
<1> DEFINE R == resetNode(L, n)
<1>0. Linked(R) = Linked(L)
  BY ResetNodeLemma
<1> USE SentinelAssumption DEF Ends, Cells, Pointers
<1>1. /\ L.prev \in [Cells -> Pointers] /\ L.next \in [Cells -> Pointers]
      /\ Linked(L) \subseteq Nodes
  BY DEF ListStates, Linked
<1>2. /\ R.prev = [L.prev EXCEPT ![n] = OutOfListMarker]
      /\ R.next = [L.next EXCEPT ![n] = Null]
  BY DEF resetNode
<1>3. \A c \in Cells \ {n} : R.prev[c] = L.prev[c] /\ R.next[c] = L.next[c]
  BY <1>1, <1>2
<1> HIDE DEF R
<1>4. NoCircle(R)
  BY <1>0, <1>1, <1>3 DEF NoCircle
<1> QED
  BY <1>3, <1>4 DEF R

=============================================================================
