---------------------------- MODULE ChainsProofs ----------------------------
(* What a chain of pointers is: the least set that has its start and that  *)
(* the pointers do not leave.  The definition is recursive, and the proofs *)
(* are by least counterexample.                                            *)
EXTENDS Chains, FiniteSetTheorems, WellFoundedInduction, TLAPS

(* The seconds a prover has for a step. *)
USE SMTT(30), ZenonT(30)

(* A set of natural numbers that is not empty has a least element. *)
LEMMA LeastNat ==
  ASSUME NEW T \in SUBSET Nat, T # {}
  PROVE  \E m \in T : \A k \in T : m <= k
<1> DEFINE R == {ss \in Nat \X Nat : ss[1] < ss[2]}
<1>1. IsWellFoundedOn(R, Nat)
  BY NatLessThanWellFounded, Zenon DEF OpToRel
<1>2. PICK x \in T : \A y \in T : ~(<<y, x>> \in R)
  <2> HIDE DEF R
  <2> QED BY <1>1, WFMin, Zenon
<1>3. \A y \in T : ~(y < x)
  BY <1>2, Zenon
<1> QED
  BY <1>3

(* The set met after one more step. *)
Further(f, S) == S \cup {f[x] : x \in S \cap DOMAIN f}
Closed(f, S) == \A x \in S \cap DOMAIN f : f[x] \in S

(* g is the recursive function, as far as n steps. *)
Reaches(g, f, a, n) == g = [i \in 0..n |-> IF i = 0 THEN {a} ELSE Further(f, g[i - 1])]

(* The recursion has a solution. *)
LEMMA ReachExists ==
  ASSUME NEW f, NEW a, NEW n \in Nat
  PROVE  \E g : Reaches(g, f, a, n)
<1> DEFINE Bad == {m \in Nat : ~\E g : Reaches(g, f, a, m)}
<1> SUFFICES ASSUME Bad # {} PROVE FALSE
  OBVIOUS
<1>1. PICK m \in Bad : \A k \in Bad : m <= k
  <2>1. Bad \in SUBSET Nat
    OBVIOUS
  <2> HIDE DEF Bad
  <2> QED BY <2>1, LeastNat
<1>2. m \in Nat /\ ~\E g : Reaches(g, f, a, m)
  OBVIOUS
<1>3. CASE m = 0
  <2> DEFINE g == [i \in 0..m |-> {a}]
  <2>1. \A i \in 0..m : i = 0
    BY <1>3
  <2>2. g = [i \in 0..m |-> IF i = 0 THEN {a} ELSE Further(f, g[i - 1])]
    BY <2>1
  <2> QED
    BY <1>2, <2>2, Zenon DEF Reaches
<1>4. CASE m # 0
  <2>1. m - 1 \in Nat /\ m - 1 \notin Bad
    BY <1>1, <1>2, <1>4
  <2>2. PICK g : Reaches(g, f, a, m - 1)
    BY <2>1
  <2> DEFINE h == [i \in 0..m |-> IF i = m THEN Further(f, g[m - 1]) ELSE g[i]]
  <2>3. \A i \in 0..(m - 1) : g[i] = IF i = 0 THEN {a} ELSE Further(f, g[i - 1])
    BY <2>2, Zenon DEF Reaches
  <2>4. \A i \in 0..m : h[i] = IF i = 0 THEN {a} ELSE Further(f, h[i - 1])
    <3> TAKE i \in 0..m
    <3>1. CASE i = 0
      BY <1>4, <2>1, <2>3, <3>1
    <3>2. CASE i # 0 /\ i # m
      <4>1. i \in 0..(m - 1) /\ i - 1 \in 0..(m - 1) /\ i - 1 \in 0..m /\ i - 1 # m
        BY <1>2, <3>2
      <4> QED
        BY <2>3, <3>2, <4>1
    <3>3. CASE i # 0 /\ i = m
      <4>1. i - 1 \in 0..m /\ i - 1 # m
        BY <1>2, <3>3
      <4> QED
        BY <3>3, <4>1
    <3> QED
      BY <3>1, <3>2, <3>3
  <2>5. Reaches(h, f, a, m)
    <3>1. h = [i \in 0..m |-> h[i]]
      OBVIOUS
    <3> HIDE DEF h
    <3>2. h = [i \in 0..m |-> IF i = 0 THEN {a} ELSE Further(f, h[i - 1])]
      BY <2>4, <3>1, Zenon
    <3> QED
      BY <3>2 DEF Reaches
  <2> QED
    BY <1>2, <2>5
<1> QED
  BY <1>3, <1>4

(* The recursive equations of Reached. *)
LEMMA ReachedDef ==
  ASSUME NEW f, IsFiniteSet(DOMAIN f), NEW a
  PROVE  /\ Cardinality(DOMAIN f) \in Nat
         /\ Reached(f, a)[0] = {a}
         /\ \A i \in 1..Cardinality(DOMAIN f) :
              Reached(f, a)[i] = Further(f, Reached(f, a)[i - 1])
<1> DEFINE N == Cardinality(DOMAIN f)
<1>1. N \in Nat
  BY FS_CardinalityType
<1> HIDE DEF N
<1>2. Reached(f, a) = CHOOSE g : Reaches(g, f, a, N)
  BY DEF Reached, Reaches, Further, N
<1>3. Reaches(Reached(f, a), f, a, N)
  BY <1>1, <1>2, ReachExists
<1> DEFINE r == Reached(f, a)
<1> HIDE DEF r
<1>4. r = [i \in 0..N |-> IF i = 0 THEN {a} ELSE Further(f, r[i - 1])]
  BY <1>3, Zenon DEF Reaches, r
<1>5. \A i \in 0..N : r[i] = IF i = 0 THEN {a} ELSE Further(f, r[i - 1])
  BY <1>4, Zenon
<1>6. r[0] = {a} /\ \A i \in 1..N : r[i] = Further(f, r[i - 1])
  BY <1>1, <1>5
<1> QED
  BY <1>1, <1>6 DEF r, N

(* As long as something new can be met, every step has met one object more. *)
LEMMA ReachedGrows ==
  ASSUME NEW f, IsFiniteSet(DOMAIN f), NEW a, NEW n \in 0..Cardinality(DOMAIN f)
  PROVE  \/ Closed(f, Reached(f, a)[n])
         \/ Cardinality(Reached(f, a)[n] \cap DOMAIN f) > n
<1> DEFINE N == Cardinality(DOMAIN f)
           r == Reached(f, a)
           met(i) == r[i] \cap DOMAIN f
           Bad == {i \in 0..N : ~Closed(f, r[i]) /\ ~(Cardinality(met(i)) > i)}
<1>1. /\ N \in Nat /\ r[0] = {a}
      /\ \A i \in 1..N : r[i] = Further(f, r[i - 1])
  BY ReachedDef
<1> HIDE DEF N, r
<1> SUFFICES ASSUME Bad # {} PROVE FALSE
  BY Zenon DEF N, r
<1>2. PICK m \in Bad : \A k \in Bad : m <= k
  <2>1. Bad \in SUBSET Nat
    BY <1>1
  <2> HIDE DEF Bad
  <2> QED BY <2>1, LeastNat
<1>3. m \in 0..N /\ ~Closed(f, r[m]) /\ ~(Cardinality(met(m)) > m)
  OBVIOUS
<1>4. \A i : IsFiniteSet(met(i)) /\ Cardinality(met(i)) \in Nat
  BY FS_Subset, FS_CardinalityType
<1>5. CASE m = 0
  <2>1. met(m) = {a}
    BY <1>1, <1>3, <1>5 DEF Closed
  <2> QED
    BY <1>3, <1>5, <2>1, FS_Singleton
<1>6. CASE m # 0
  <2>1. m \in 1..N /\ m - 1 \in 0..N /\ m - 1 \notin Bad
    BY <1>1, <1>2, <1>3, <1>6
  <2>2. r[m] = Further(f, r[m - 1])
    BY <1>1, <2>1
  <2>3. ~Closed(f, r[m - 1])
    <3> SUFFICES ASSUME Closed(f, r[m - 1]) PROVE FALSE
      OBVIOUS
    <3>1. r[m] = r[m - 1]
      BY <2>2 DEF Closed, Further
    <3> QED
      BY <1>3, <3>1
  <2>4. Cardinality(met(m - 1)) > m - 1
    BY <2>1, <2>3
  <2>5. PICK x \in met(m) : f[x] \notin r[m]
    BY <1>3 DEF Closed
  <2>6. x \notin met(m - 1) /\ met(m - 1) \subseteq met(m)
    BY <2>2, <2>5 DEF Further
  <2>7. Cardinality(met(m - 1)) < Cardinality(met(m))
    <3> DEFINE A == met(m - 1)
               B == met(m)
    <3>1. IsFiniteSet(B) /\ A \subseteq B /\ A # B
      BY <1>4, <2>5, <2>6
    <3> HIDE DEF A, B
    <3>2. Cardinality(A) < Cardinality(B)
      BY <3>1, FS_Subset, FS_CardinalityType
    <3> QED
      BY <3>2 DEF A, B
  <2>8. Cardinality(met(m)) \in Nat /\ Cardinality(met(m - 1)) \in Nat
    BY <1>4, Zenon
  <2>9. m \in Nat /\ ~(Cardinality(met(m)) > m)
    BY <1>1, <1>3
  <2> HIDE DEF met
  <2> QED
    BY <2>4, <2>7, <2>8, <2>9
<1> QED
  BY <1>5, <1>6

(* The chain has its start. *)
LEMMA ChainHasStart ==
  ASSUME NEW f, IsFiniteSet(DOMAIN f), NEW a, NEW T, a \in T, Closed(f, T)
  PROVE  \A n \in 0..Cardinality(DOMAIN f) : a \in Reached(f, a)[n] /\ Reached(f, a)[n] \subseteq T
<1> DEFINE N == Cardinality(DOMAIN f)
           r == Reached(f, a)
           Bad == {i \in 0..N : ~(a \in r[i] /\ r[i] \subseteq T)}
<1>1. /\ N \in Nat /\ r[0] = {a}
      /\ \A i \in 1..N : r[i] = Further(f, r[i - 1])
  BY ReachedDef
<1> HIDE DEF N, r
<1> SUFFICES ASSUME Bad # {} PROVE FALSE
  BY DEF N, r
<1>2. PICK m \in Bad : \A k \in Bad : m <= k
  <2>1. Bad \in SUBSET Nat
    BY <1>1
  <2> HIDE DEF Bad
  <2> QED BY <2>1, LeastNat
<1>3. m \in 0..N /\ ~(a \in r[m] /\ r[m] \subseteq T)
  OBVIOUS
<1>4. m # 0
  BY <1>1, <1>3
<1>5. m \in 1..N /\ m - 1 \in 0..N /\ m - 1 \notin Bad
  BY <1>1, <1>2, <1>3, <1>4
<1>6. a \in r[m - 1] /\ r[m - 1] \subseteq T /\ r[m] = Further(f, r[m - 1])
  BY <1>1, <1>5
<1> QED
  BY <1>3, <1>6 DEF Further, Closed

(* A chain is the least set that has its start and is closed under the     *)
(* pointers.                                                               *)
LEMMA ChainIsLeastClosed ==
  ASSUME NEW f, IsFiniteSet(DOMAIN f), NEW a
  PROVE  /\ a \in Chain(f, a) /\ Closed(f, Chain(f, a))
         /\ \A T : a \in T /\ Closed(f, T) => Chain(f, a) \subseteq T
<1> DEFINE N == Cardinality(DOMAIN f)
           r == Reached(f, a)
<1>1. N \in Nat /\ N \in 0..N /\ Chain(f, a) = r[N]
  BY FS_CardinalityType DEF Chain
<1>2. ASSUME NEW T, a \in T, Closed(f, T)
      PROVE  a \in Chain(f, a) /\ Chain(f, a) \subseteq T
  BY <1>1, <1>2, ChainHasStart
<1>3. Closed(f, Chain(f, a))
  <2>1. IsFiniteSet(r[N] \cap DOMAIN f) /\ Cardinality(r[N] \cap DOMAIN f) <= N
    BY FS_Subset
  <2>2. Cardinality(r[N] \cap DOMAIN f) \in Nat
    BY <2>1, FS_CardinalityType
  <2> QED
    BY <1>1, <2>1, <2>2, ReachedGrows
<1>4. a \in Chain(f, a)
  <2> DEFINE T == {a} \cup {f[x] : x \in DOMAIN f}
  <2>1. a \in T /\ Closed(f, T)
    BY DEF Closed
  <2> HIDE DEF T
  <2> QED
    BY <1>2, <2>1
<1> QED
  BY <1>2, <1>3, <1>4

(* What is met on the way is pointed to from the chain. *)
LEMMA ChainIsPointedTo ==
  ASSUME NEW f, IsFiniteSet(DOMAIN f), NEW a, NEW y \in Chain(f, a), y # a
  PROVE  \E x \in Chain(f, a) \cap DOMAIN f : f[x] = y
<1> DEFINE C == Chain(f, a)
           T == {a} \cup {f[x] : x \in C \cap DOMAIN f}
<1>1. a \in C /\ Closed(f, C)
  BY ChainIsLeastClosed
<1>2. a \in T /\ T \subseteq C
  BY <1>1 DEF Closed
<1>3. Closed(f, T)
  BY <1>2 DEF Closed
<1>4. C \subseteq T
  <2> HIDE DEF T
  <2> QED
    BY <1>2, <1>3, ChainIsLeastClosed
<1> QED
  BY <1>4

=============================================================================
