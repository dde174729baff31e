-------------------------- MODULE ListCacheProofs --------------------------
(* Safety of the baseline caches for any number of threads, keys and       *)
(* nodes, any capacity and each of the three policies.                     *)
EXTENDS ListCache, NodeListProofs

(* The seconds a prover has for a step. *)
USE SMTT(30), ZenonT(30)

Inv == TypeOK /\ IInv

(* The list ends of a baseline shard. *)
LEMMA EndsLemma == Ends({Head}, {Tail})
  BY SentinelAssumption, CacheAssumption DEF Ends

(* The constructor leaves an empty shard that nobody uses. *)
LEMMA InitInv == Init => Inv
<1> SUFFICES ASSUME Init PROVE Inv
  OBVIOUS
<1>1. list \in ListStates /\ Linked(list) = {} /\ ListWellLinked
  BY EmptyListLemma, CacheAssumption DEF Init, ListWellLinked
<1>2. TypeOK
  BY <1>1, CacheAssumption DEF Init, TypeOK, Steps
<1>3. AccessorsHeld /\ ReadersExcludeWriter
  BY CacheAssumption DEF Init, AccessorsHeld, ReadersExcludeWriter, ReadSteps,
     InsertSteps
<1>4. MapPointsToOwnNode
  BY DEF Init, MapPointsToOwnNode
<1>5. LinkedInMap /\ NoOrphans /\ OwnersExclusive /\ CallsHoldTheirNodes
  BY <1>1 DEF Init, LinkedInMap, NoOrphans, OwnersExclusive, CallsHoldTheirNodes,
     Owns, OwnsNode, OwnsMoribund, BeforePush, EraseSteps, InsertSteps
<1> QED
  BY <1>1, <1>2, <1>3, <1>4, <1>5 DEF Inv, IInv

(* The evicting call erases the element of its node and deletes it. *)
LEMMA EvictEraseInv ==
  ASSUME Inv, NEW t \in Threads, EvictErase(t)
  PROVE  Inv'
<1> USE CacheAssumption, SentinelAssumption DEF Inv, IInv, EvictErase, EvictReturn, InsertReturn, return, goto, free
<1>0. /\ list' \in ListStates /\ Linked(list)' = Linked(list) /\ ListWellLinked'
      /\ moribund[t] \in alive \ Linked(list) /\ InMap(moribund[t])
      /\ \A u \in Threads : pc[u] \notin {"idle", "dsize"} => node[u] # moribund[t]
  <2>1. moribund[t] \in alive \ Linked(list) /\ InMap(moribund[t])
    BY DEF OwnersExclusive, CallsHoldTheirNodes, Owns, OwnsMoribund, EraseSteps, TypeOK
  <2>2. list' = resetNode(list, moribund[t])
    BY <2>1 DEF InMap, TypeOK
  <2>3. \A u \in Threads : pc[u] \notin {"idle", "dsize"} => node[u] # moribund[t]
    BY <2>1 DEF InMap, TypeOK, AccessorsHeld, ReadSteps, InsertSteps, Steps
  <2> QED
    BY <2>1, <2>2, <2>3, ResetNodeLemma, EndsLemma DEF TypeOK, ListWellLinked
<1>1. TypeOK'
  BY <1>0, SMTT(20) DEF TypeOK, Steps
<1>2. ListWellLinked'
  BY <1>0 
<1>3. AccessorsHeld'
  BY <1>0 DEF AccessorsHeld, CallsHoldTheirNodes, TypeOK, ReadSteps, InsertSteps
<1>4. ReadersExcludeWriter'
  BY <1>0 DEF ReadersExcludeWriter, AccessorsHeld, CallsHoldTheirNodes, TypeOK,
     ReadSteps, InsertSteps
<1>5. MapPointsToOwnNode'
  BY <1>0 DEF MapPointsToOwnNode, CallsHoldTheirNodes, TypeOK, InMap, InsertSteps
<1>6. LinkedInMap'
  BY <1>0 DEF LinkedInMap, CallsHoldTheirNodes, OwnersExclusive, Owns,
     OwnsNode, OwnsMoribund, InMap, EraseSteps, InsertSteps, BeforePush, TypeOK
<1>7. NoOrphans'
  <2>1. \A n \in Nodes, u \in Threads : Owns(u, n) /\ n # moribund[t] => Owns(u, n)'
    BY DEF Owns, OwnsNode, OwnsMoribund, BeforePush, EraseSteps, TypeOK
  <2>2. alive' = alive \ {moribund[t]}
    BY <1>0 DEF InMap, TypeOK
  <2> QED
    BY <1>0, <2>1, <2>2 DEF NoOrphans, TypeOK
<1>8. OwnersExclusive'
  BY <1>0 DEF OwnersExclusive, Owns, OwnsNode, OwnsMoribund, BeforePush, EraseSteps,
     InsertSteps, CallsHoldTheirNodes, LinkedInMap, TypeOK
<1>9. CallsHoldTheirNodes'
  BY <1>0 DEF CallsHoldTheirNodes, OwnersExclusive, Owns, OwnsNode, OwnsMoribund,
     MapPointsToOwnNode, LinkedInMap, InMap, BeforePush, EraseSteps, InsertSteps, TypeOK
<1> QED
  BY <1>1, <1>2, <1>3, <1>4, <1>5, <1>6, <1>7, <1>8, <1>9

(* The element leaves the map, its readers stay. *)
LEMMA DeleteUnlinkInv ==
  ASSUME Inv, NEW t \in Threads, DeleteUnlink(t)
  PROVE  Inv'
<1> USE CacheAssumption, SentinelAssumption DEF Inv, IInv, DeleteUnlink, goto, locals
<1>1. TypeOK'
  <2>1. m_map' \in [Keys -> Nodes \cup {Null}]
    BY Zenon DEF TypeOK
  <2> QED
    BY <2>1 DEF TypeOK, Steps
<1>2. ListWellLinked'
  BY DEF ListWellLinked
<1>3. AccessorsHeld'
  BY DEF AccessorsHeld, CallsHoldTheirNodes, TypeOK, ReadSteps, InsertSteps
<1>4. ReadersExcludeWriter'
  BY DEF ReadersExcludeWriter, AccessorsHeld, CallsHoldTheirNodes, TypeOK,
     ReadSteps, InsertSteps
<1>5. MapPointsToOwnNode'
  BY DEF MapPointsToOwnNode, CallsHoldTheirNodes, TypeOK, InMap, InsertSteps
<1>6. LinkedInMap'
  BY DEF LinkedInMap, CallsHoldTheirNodes, OwnersExclusive, Owns,
     OwnsNode, OwnsMoribund, InMap, EraseSteps, InsertSteps, BeforePush, TypeOK
<1>7. NoOrphans'
  BY DEF NoOrphans, Owns, OwnsNode, OwnsMoribund, BeforePush, EraseSteps, TypeOK
<1>8. OwnersExclusive'
  BY DEF OwnersExclusive, Owns, OwnsNode, OwnsMoribund, BeforePush, EraseSteps,
     InsertSteps, CallsHoldTheirNodes, LinkedInMap, TypeOK
<1>9. CallsHoldTheirNodes'
  <2>1. InMap(node[t]) /\ node[t] \in alive /\ m_key[node[t]] \in Keys
    BY DEF CallsHoldTheirNodes, InMap
  <2>2. \A n \in Nodes \ {node[t]} : InMap(n) => InMap(n)'
    BY <2>1 DEF InMap, TypeOK
  <2>3. \A u \in Threads : pc[u] \in EraseSteps => moribund[u] # node[t]
    BY DEF OwnersExclusive, Owns, OwnsNode, OwnsMoribund, EraseSteps, TypeOK,
       CallsHoldTheirNodes
  <2>4. \A u \in Threads \ {t} :
           pc[u] \in InsertSteps \cup {"dunlink"} => node[u] # node[t]
    BY <2>1 DEF OwnersExclusive, Owns, OwnsNode, AccessorsHeld, ReadersExcludeWriter,
       ReadSteps, InsertSteps, TypeOK, CacheAssumption
  <2>5. ASSUME NEW u \in Threads
        PROVE  (pc[u] = "dwait" => m_map[m_key[node[u]]] # node[u])'
    BY <2>1, <2>5 DEF CallsHoldTheirNodes, InMap, TypeOK, LinkedInMap
  <2> QED
    BY <2>1, <2>2, <2>3, <2>4, <2>5 DEF CallsHoldTheirNodes, TypeOK, EraseSteps,
       InsertSteps
<1> QED
  BY <1>1, <1>2, <1>3, <1>4, <1>5, <1>6, <1>7, <1>8, <1>9

(* The last reader deletes the node it owns. *)
LEMMA DeleteFreeInv ==
  ASSUME Inv, NEW t \in Threads, DeleteFree(t)
  PROVE  Inv'
<1> USE CacheAssumption, SentinelAssumption DEF Inv, IInv, DeleteFree, OnlyReader, goto, locals, free
<1>0. /\ list' \in ListStates /\ Linked(list)' = Linked(list) /\ ListWellLinked'
      /\ node[t] \in alive \ Linked(list)
      /\ \A u \in Threads \ {t} : pc[u] \notin {"idle", "dsize"} => node[u] # node[t]
  <2>1. node[t] \in alive \ Linked(list)
    BY DEF OwnersExclusive, Owns, OwnsNode, CallsHoldTheirNodes, TypeOK
  <2>2. writer[node[t]] = NoThread
    BY <2>1, Zenon DEF ReadersExcludeWriter, TypeOK
  <2>3. \A u \in Threads \ {t} : pc[u] \notin {"idle", "dsize"} => node[u] # node[t]
    BY <2>1, <2>2 DEF TypeOK, AccessorsHeld, ReadSteps, InsertSteps, Steps
  <2> QED
    BY <2>1, <2>3, ResetNodeLemma, EndsLemma DEF TypeOK, ListWellLinked
<1>1. TypeOK'
  BY <1>0 DEF TypeOK, Steps
<1>2. ListWellLinked'
  BY <1>0 
<1>3. AccessorsHeld'
  BY <1>0 DEF AccessorsHeld, CallsHoldTheirNodes, TypeOK, ReadSteps, InsertSteps
<1>4. ReadersExcludeWriter'
  BY <1>0 DEF ReadersExcludeWriter, AccessorsHeld, CallsHoldTheirNodes, TypeOK,
     ReadSteps, InsertSteps
<1>5. MapPointsToOwnNode'
  BY <1>0 DEF MapPointsToOwnNode, CallsHoldTheirNodes, TypeOK, InMap, InsertSteps
<1>6. LinkedInMap'
  BY <1>0 DEF LinkedInMap, CallsHoldTheirNodes, OwnersExclusive, Owns,
     OwnsNode, OwnsMoribund, InMap, EraseSteps, InsertSteps, BeforePush, TypeOK
<1>7. NoOrphans'
  BY <1>0 DEF NoOrphans, Owns, OwnsNode, OwnsMoribund, BeforePush, EraseSteps, TypeOK
<1>8. OwnersExclusive'
  BY <1>0 DEF OwnersExclusive, Owns, OwnsNode, OwnsMoribund, BeforePush, EraseSteps,
     InsertSteps, CallsHoldTheirNodes, LinkedInMap, TypeOK
<1>9. CallsHoldTheirNodes'
  <2>1. \A u \in Threads : pc'[u] # "dsize" => u # t /\ pc'[u] = pc[u]
    BY DEF TypeOK
  <2>2. \A u \in Threads \ {t} : pc[u] \in EraseSteps => moribund[u] # node[t]
    BY DEF CallsHoldTheirNodes, InMap
  <2>3. EraseSteps \cap {"dsize"} = {} /\ InsertSteps \cap {"dsize", "idle"} = {}
    BY DEF EraseSteps, InsertSteps
  <2>4. /\ m_map' = m_map /\ node' = node /\ moribund' = moribund
        /\ \A n \in alive : n # node[t] => n \in alive' /\ m_key'[n] = m_key[n]
    BY DEF TypeOK
  <2>5. \A u \in Threads : pc'[u] \notin {"idle", "dsize"} =>
          node'[u] \in alive' /\ m_key'[node'[u]] = m_key[node[u]]
    BY ONLY <1>0, <2>1, <2>4, CallsHoldTheirNodes DEF CallsHoldTheirNodes
  <2>6. \A u \in Threads : pc'[u] \in EraseSteps =>
          moribund'[u] \in alive' /\ m_key'[moribund'[u]] = m_key[moribund[u]]
    BY ONLY <2>1, <2>2, <2>3, <2>4, CallsHoldTheirNodes DEF CallsHoldTheirNodes
  <2> QED
    BY ONLY <2>1, <2>3, <2>4, <2>5, <2>6, CallsHoldTheirNodes DEF CallsHoldTheirNodes, InMap
<1> QED
  BY <1>1, <1>2, <1>3, <1>4, <1>5, <1>6, <1>7, <1>8, <1>9

(* The new node belongs to the inserting call alone. *)
LEMMA InsertNewInv ==
  ASSUME Inv, NEW t \in Threads, NEW k \in Keys, NEW n \in Nodes, InsertNew(t, k, n)
  PROVE  Inv'
<1> USE CacheAssumption, SentinelAssumption DEF Inv, IInv, InsertNew, goto
<1>1. TypeOK'
  BY DEF TypeOK, Steps
<1>2. ListWellLinked'
  BY DEF ListWellLinked
<1>3. AccessorsHeld'
  BY DEF AccessorsHeld, CallsHoldTheirNodes, TypeOK, ReadSteps, InsertSteps
<1>4. ReadersExcludeWriter'
  BY DEF ReadersExcludeWriter, AccessorsHeld, CallsHoldTheirNodes, TypeOK,
     ReadSteps, InsertSteps
<1>5. MapPointsToOwnNode'
  BY DEF MapPointsToOwnNode, CallsHoldTheirNodes, TypeOK, InMap, InsertSteps
<1>6. LinkedInMap'
  BY DEF LinkedInMap, CallsHoldTheirNodes, OwnersExclusive, Owns,
     OwnsNode, OwnsMoribund, InMap, EraseSteps, InsertSteps, BeforePush, TypeOK
<1>7. NoOrphans'
  BY DEF NoOrphans, Owns, OwnsNode, OwnsMoribund, BeforePush, EraseSteps, TypeOK
<1>8. OwnersExclusive'
  BY DEF OwnersExclusive, Owns, OwnsNode, OwnsMoribund, BeforePush, EraseSteps,
     InsertSteps, CallsHoldTheirNodes, LinkedInMap, TypeOK
<1>9. CallsHoldTheirNodes'
  <2>1. /\ moribund' = moribund /\ pc'[t] = "load" /\ node'[t] = n /\ alive' = alive \cup {n}
        /\ \A u \in Threads : u # t => pc'[u] = pc[u] /\ node'[u] = node[u]
        /\ \A m \in Nodes : m_key'[m] = IF m = n THEN k ELSE m_key[m]
        /\ \A j \in Keys : m_map'[j] = IF j = k THEN n ELSE m_map[j]
    BY DEF TypeOK
  <2>2. \A m \in alive : m # n /\ m \in Nodes /\ m # Null /\ m_key[m] \in Keys
    BY DEF LinkedInMap, TypeOK
  <2>3. InMap(n)'
    BY ONLY <2>1, k \in Keys, n \in Nodes, SMTT(30) DEF InMap
  <2>4. \A m \in alive : /\ InMap(m) => InMap(m)'
                         /\ m_map[m_key[m]] # m => m_map'[m_key'[m]] # m
    BY ONLY <2>1, <2>2, m_map[k] = Null, SMTT(30) DEF InMap
  <2>5. "load" \notin EraseSteps \cup {"idle", "dsize", "dwait"}
    BY DEF EraseSteps
  <2>6. \A u \in Threads : /\ pc[u] \notin {"idle", "dsize"} => node[u] \in alive
                           /\ pc[u] \in EraseSteps => moribund[u] \in alive /\ InMap(moribund[u])
                           /\ pc[u] \in InsertSteps \cup {"dunlink"} => InMap(node[u])
                           /\ pc[u] = "dwait" => m_map[m_key[node[u]]] # node[u]
    BY Zenon DEF CallsHoldTheirNodes
  <2>7. \A u \in Threads : pc[u] \in InsertSteps \cup {"dunlink", "dwait"} => node[u] \in alive
    BY <2>6 DEF InsertSteps
  <2> QED
    BY ONLY <2>1, <2>3, <2>4, <2>5, <2>6, <2>7, SMTT(30) DEF CallsHoldTheirNodes, InMap
<1> QED
  BY <1>1, <1>2, <1>3, <1>4, <1>5, <1>6, <1>7, <1>8, <1>9

(* The inserting call gives its node to the list. *)
LEMMA InsertPushInv ==
  ASSUME Inv, NEW t \in Threads, InsertPush(t)
  PROVE  Inv'
<1> USE CacheAssumption, SentinelAssumption DEF Inv, IInv, InsertPush, goto, locals, elements
<1>0. /\ list' \in ListStates /\ Linked(list)' = Linked(list) \cup {node[t]}
      /\ ListWellLinked'
  <2>1. node[t] \in Nodes \ Linked(list)
    BY DEF OwnersExclusive, CallsHoldTheirNodes, Owns, OwnsNode, BeforePush, TypeOK
  <2> QED
    <3>1. Head \in Linked(list) \cup {Head} /\ list \in ListStates
          /\ WellLinked(list, {Head}, {Tail}) /\ list' = pushAfter(list, Head, node[t])
      BY DEF TypeOK, ListWellLinked, pushFront
    <3> QED
      BY <2>1, <3>1, PushAfterLemma, EndsLemma DEF ListWellLinked
<1>1. TypeOK'
  BY <1>0 DEF TypeOK, Steps
<1>2. ListWellLinked'
  BY <1>0 
<1>3. AccessorsHeld'
  BY <1>0 DEF AccessorsHeld, CallsHoldTheirNodes, TypeOK, ReadSteps, InsertSteps
<1>4. ReadersExcludeWriter'
  BY <1>0 DEF ReadersExcludeWriter, AccessorsHeld, CallsHoldTheirNodes, TypeOK,
     ReadSteps, InsertSteps
<1>5. MapPointsToOwnNode'
  BY <1>0 DEF MapPointsToOwnNode, CallsHoldTheirNodes, TypeOK, InMap, InsertSteps
<1>a. /\ pc[t] = "push" /\ pc'[t] = "count" /\ \A u \in Threads : u # t => pc'[u] = pc[u]
      /\ UNCHANGED <<m_map, readers, writer, m_key, alive, node, moribund>>
  BY DEF TypeOK
<1>b. node[t] \in alive /\ InMap(node[t]) /\ Owns(t, node[t]) /\ node[t] \in Nodes
  BY <1>a DEF CallsHoldTheirNodes, InsertSteps, Owns, OwnsNode, BeforePush, TypeOK
<1>c. \A u \in Threads, n \in Nodes : Owns(u, n)' <=> Owns(u, n) /\ u # t
  BY <1>a DEF Owns, OwnsNode, OwnsMoribund, BeforePush, EraseSteps
<1>d. \A n \in Nodes : Owns(t, n) => n = node[t]
  BY <1>a DEF Owns, OwnsNode, OwnsMoribund, EraseSteps
<1>6. LinkedInMap'
  BY <1>0, <1>a, <1>b, Zenon DEF LinkedInMap, InMap
<1>7. NoOrphans'
  <2>1. alive \subseteq Nodes
    BY Zenon DEF TypeOK
  <2> QED
    BY <1>0, <1>a, <1>c, <1>d, <2>1, ZenonT(40) DEF NoOrphans
<1>8. OwnersExclusive'
  <2>1. \A u \in Threads, n \in Nodes : Owns(u, n)' => n \in alive' \ Linked(list)'
    <3>1. \A u \in Threads, n \in Nodes : Owns(u, n)' => n \in alive \ Linked(list) /\ n # node[t]
      BY ONLY <1>b, <1>c, OwnersExclusive, t \in Threads, SMTT(30) DEF OwnersExclusive
    <3> QED
      BY <1>0, <1>a, <3>1, Zenon
  <2>2. \A u, v \in Threads, n \in Nodes : Owns(u, n)' /\ Owns(v, n)' => u = v
    BY <1>c, Zenon DEF OwnersExclusive
  <2>3. \A u \in Threads : pc'[u] = "erase1" => node'[u] # moribund'[u]
    BY <1>a, Zenon DEF OwnersExclusive
  <2> QED
    BY <2>1, <2>2, <2>3, Zenon DEF OwnersExclusive
<1>9. CallsHoldTheirNodes'
  <2>1. "count" \notin EraseSteps \cup {"dwait"}
    BY DEF EraseSteps
  <2>2. \A m : InMap(m)' <=> InMap(m)
    BY <1>a, Zenon DEF InMap
  <2>3. CallsHoldTheirNodes
    BY Zenon
  <2> QED
    BY ONLY <1>a, <1>b, <2>1, <2>2, <2>3, SMTT(30) DEF CallsHoldTheirNodes
<1> QED
  BY <1>1, <1>2, <1>3, <1>4, <1>5, <1>6, <1>7, <1>8, <1>9

(* A step that leaves the map, the list and the owners of the nodes alone  *)
(* keeps the invariant, when its own thread stands right.                  *)
LEMMA QuietInv ==
  ASSUME Inv, NEW t \in Threads, TypeOK', ListWellLinked', ReadersExcludeWriter',
         Linked(list)' = Linked(list), UNCHANGED <<m_map, m_key, alive>>,
         \A u \in Threads : u # t => pc'[u] = pc[u] /\ node'[u] = node[u] /\ moribund'[u] = moribund[u],
         \A u \in Threads, n \in Nodes : u # t =>
           (u \in readers'[n] <=> u \in readers[n]) /\ (writer'[n] = u <=> writer[n] = u),
         \A n \in Nodes : /\ t \in readers'[n] <=> pc'[t] \in ReadSteps /\ node'[t] = n
                          /\ writer'[n] = t <=> pc'[t] \in InsertSteps /\ node'[t] = n
                          /\ Owns(t, n)' <=> Owns(t, n),
         pc'[t] \notin EraseSteps \cup {"dunlink", "dwait"},
         pc'[t] \notin {"idle", "dsize"} => node'[t] \in alive,
         pc'[t] \in InsertSteps => InMap(node'[t])
  PROVE  Inv'
<1> USE DEF Inv, IInv
<1>1. \A u \in Threads, n \in Nodes : Owns(u, n)' <=> Owns(u, n)
  BY ZenonT(40) DEF Owns, OwnsNode, OwnsMoribund
<1>2. AccessorsHeld'
  <2>1. ASSUME NEW u \in Threads, NEW n \in Nodes
        PROVE  /\ u \in readers'[n] <=> pc'[u] \in ReadSteps /\ node'[u] = n
               /\ writer'[n] = u <=> pc'[u] \in InsertSteps /\ node'[u] = n
    <3>1. CASE u = t
      BY <3>1, Zenon
    <3>2. CASE u # t
      <4>1. /\ u \in readers[n] <=> pc[u] \in ReadSteps /\ node[u] = n
            /\ writer[n] = u <=> pc[u] \in InsertSteps /\ node[u] = n
        BY ONLY AccessorsHeld, SMTT(30) DEF AccessorsHeld
      <4> QED
        BY <3>2, <4>1, Zenon
    <3> QED
      BY <3>1, <3>2, Zenon
  <2> QED
    BY <2>1, Zenon DEF AccessorsHeld
<1>3. MapPointsToOwnNode' /\ LinkedInMap'
  BY Zenon DEF MapPointsToOwnNode, LinkedInMap, InMap
<1>4. NoOrphans'
  <2>1. alive \subseteq Nodes
    BY Zenon DEF TypeOK
  <2> QED
    BY <1>1, <2>1, Zenon DEF NoOrphans
<1>5. OwnersExclusive'
  BY <1>1, ZenonT(40) DEF OwnersExclusive, EraseSteps
<1>6. CallsHoldTheirNodes'
  <2>1. ASSUME NEW u \in Threads
        PROVE  /\ pc'[u] \notin {"idle", "dsize"} => node'[u] \in alive
               /\ pc'[u] \in EraseSteps => moribund'[u] \in alive /\ InMap(moribund'[u])
               /\ pc'[u] \in InsertSteps \cup {"dunlink"} => InMap(node'[u])
               /\ pc'[u] = "dwait" => m_map[m_key[node'[u]]] # node'[u]
    <3>1. /\ pc[u] \notin {"idle", "dsize"} => node[u] \in alive
          /\ pc[u] \in EraseSteps => moribund[u] \in alive /\ InMap(moribund[u])
          /\ pc[u] \in InsertSteps \cup {"dunlink"} => InMap(node[u])
          /\ pc[u] = "dwait" => m_map[m_key[node[u]]] # node[u]
      BY Zenon DEF CallsHoldTheirNodes
    <3>2. CASE u = t
      BY <3>2, Zenon
    <3>3. CASE u # t
      BY <3>1, <3>3, Zenon
    <3> QED
      BY <3>2, <3>3, Zenon
  <2>2. \A m : InMap(m) => InMap(m)'
    BY Zenon DEF InMap
  <2> QED
    BY <2>1, <2>2, Zenon DEF CallsHoldTheirNodes
<1> QED
  BY <1>2, <1>3, <1>4, <1>5, <1>6, Zenon

(* The list gives a node to a call that keeps its accessor. *)
LEMMA TakeInv ==
  ASSUME Inv, NEW t \in Threads, NEW n \in Linked(list), TypeOK', ListWellLinked',
         Linked(list)' = Linked(list) \ {n}, UNCHANGED <<m_map, m_key, alive, readers, writer, node>>,
         \A u \in Threads : u # t => pc'[u] = pc[u] /\ moribund'[u] = moribund[u],
         pc'[t] \in ReadSteps <=> pc[t] \in ReadSteps,
         pc'[t] \in InsertSteps <=> pc[t] \in InsertSteps,
         \A m \in Nodes : Owns(t, m)' <=> Owns(t, m) \/ m = n,
         pc'[t] \notin {"idle", "dsize", "dwait"}, pc[t] \notin {"idle", "dsize"},
         pc'[t] \in EraseSteps => moribund'[t] = n,
         pc'[t] = "erase1" => node[t] # n,
         pc'[t] = "dunlink" => node[t] = n
  PROVE  Inv'
<1> USE DEF Inv, IInv
<1>1. \A u \in Threads, m \in Nodes : Owns(u, m)' <=> Owns(u, m) \/ (u = t /\ m = n)
  BY ZenonT(40) DEF Owns, OwnsNode, OwnsMoribund
<1>2. AccessorsHeld' /\ ReadersExcludeWriter'
  <2>1. ASSUME NEW u \in Threads, NEW m \in Nodes
        PROVE  /\ u \in readers'[m] <=> pc'[u] \in ReadSteps /\ node'[u] = m
               /\ writer'[m] = u <=> pc'[u] \in InsertSteps /\ node'[u] = m
    <3>1. /\ u \in readers[m] <=> pc[u] \in ReadSteps /\ node[u] = m
          /\ writer[m] = u <=> pc[u] \in InsertSteps /\ node[u] = m
      BY ONLY AccessorsHeld, SMTT(30) DEF AccessorsHeld
    <3>2. (pc'[u] \in ReadSteps <=> pc[u] \in ReadSteps) /\ (pc'[u] \in InsertSteps <=> pc[u] \in InsertSteps)
      BY Zenon
    <3> QED
      BY <3>1, <3>2, Zenon
  <2> QED
    BY <2>1, Zenon DEF AccessorsHeld, ReadersExcludeWriter
<1>3. MapPointsToOwnNode' /\ LinkedInMap'
  BY Zenon DEF MapPointsToOwnNode, LinkedInMap, InMap
<1>4. alive \subseteq Nodes /\ n \in alive /\ n \in Nodes /\ InMap(n) /\ (\A m : InMap(m)' <=> InMap(m))
  BY Zenon DEF TypeOK, LinkedInMap, InMap, Linked
<1>5. NoOrphans'
  BY <1>1, <1>4, Zenon DEF NoOrphans
<1>6. OwnersExclusive'
  <2>1. \A u \in Threads : ~Owns(u, n)
    BY <1>4, Zenon DEF OwnersExclusive
  <2>2. \A u \in Threads : pc'[u] = "erase1" => node'[u] # moribund'[u]
    BY Zenon DEF OwnersExclusive, EraseSteps
  <2>3. \A u \in Threads, m \in Nodes : Owns(u, m)' => m \in alive' \ Linked(list)'
    BY <1>1, <1>4, Zenon DEF OwnersExclusive
  <2>4. \A u, v \in Threads, m \in Nodes : Owns(u, m)' /\ Owns(v, m)' => u = v
    BY <1>1, <2>1, ZenonT(40) DEF OwnersExclusive
  <2> QED
    BY <2>2, <2>3, <2>4, Zenon DEF OwnersExclusive
<1>7. CallsHoldTheirNodes'
  <2>1. ASSUME NEW u \in Threads
        PROVE  /\ pc'[u] \notin {"idle", "dsize"} => node[u] \in alive
               /\ pc'[u] \in EraseSteps => moribund'[u] \in alive /\ InMap(moribund'[u])
               /\ pc'[u] \in InsertSteps \cup {"dunlink"} => InMap(node[u])
               /\ pc'[u] = "dwait" => m_map[m_key[node[u]]] # node[u]
    <3>1. /\ pc[u] \notin {"idle", "dsize"} => node[u] \in alive
          /\ pc[u] \in EraseSteps => moribund[u] \in alive /\ InMap(moribund[u])
          /\ pc[u] \in InsertSteps \cup {"dunlink"} => InMap(node[u])
          /\ pc[u] = "dwait" => m_map[m_key[node[u]]] # node[u]
      BY Zenon DEF CallsHoldTheirNodes
    <3>2. CASE u = t
      BY <1>4, <3>1, <3>2, Zenon
    <3>3. CASE u # t
      BY <3>1, <3>3, Zenon
    <3> QED
      BY <3>2, <3>3, Zenon
  <2>2. \A m : InMap(m) => InMap(m)'
    BY Zenon DEF InMap
  <2> QED
    BY <2>1, <2>2, Zenon DEF CallsHoldTheirNodes
<1> QED
  BY <1>2, <1>3, <1>5, <1>6, <1>7, Zenon

(* A reader joins the element; the node it will touch is alive. *)
LEMMA JoinInv ==
  ASSUME Inv, NEW t \in Threads, NEW k \in Keys, FindHit(t, k) \/ DeleteFind(t, k)
  PROVE  Inv'
<1> USE CacheAssumption, SentinelAssumption DEF Inv, IInv, FindHit, DeleteFind, goto
<1>1. /\ pc[t] = "idle" /\ pc'[t] \in {"find", "dlock"} /\ node'[t] = m_map[k]
      /\ m_map[k] \in alive /\ writer[m_map[k]] = NoThread
      /\ \A u \in Threads : u # t => pc'[u] = pc[u] /\ node'[u] = node[u]
  BY DEF TypeOK, MapPointsToOwnNode
<1>2. TypeOK' /\ ListWellLinked'
  BY DEF TypeOK, ListWellLinked, Steps
<1>3. \A u \in Threads, n \in Nodes :
        u \in readers'[n] <=> u \in readers[n] \/ (u = t /\ n = m_map[k])
  BY <1>1 DEF TypeOK
<1>4. ReadersExcludeWriter'
  BY <1>1 DEF ReadersExcludeWriter, TypeOK
<1>5. \A n \in Nodes : t \notin readers[n] /\ writer[n] # t
  BY <1>1 DEF AccessorsHeld, ReadSteps, InsertSteps
<1>6. \A n \in Nodes : ~Owns(t, n) /\ ~Owns(t, n)'
  BY <1>1 DEF Owns, OwnsNode, OwnsMoribund, BeforePush, EraseSteps
<1>7. pc'[t] \in ReadSteps /\ pc'[t] \notin InsertSteps \cup EraseSteps \cup {"dunlink", "dwait"}
  BY <1>1 DEF ReadSteps, InsertSteps, EraseSteps
<1>8. UNCHANGED <<m_map, writer, list, m_key, alive, moribund>>
  BY Zenon
<1> QED
  BY <1>1, <1>2, <1>3, <1>4, <1>5, <1>6, <1>7, <1>8, QuietInv, ZenonT(40)

(* find, and a delete_key that is refused, release the element. *)
LEMMA LeaveInv ==
  ASSUME Inv, NEW t \in Threads, pc[t] \in {"find", "dlock"},
         readers' = [readers EXCEPT ![node[t]] = @ \ {t}], return(t),
         UNCHANGED <<m_map, writer, m_key, alive, m_size, moribund>>,
         list' \in ListStates, Linked(list)' = Linked(list), ListWellLinked'
  PROVE  Inv'
<1> USE CacheAssumption, SentinelAssumption DEF Inv, IInv, return, goto
<1>1. /\ pc'[t] = "idle" /\ node[t] \in Nodes
      /\ \A u \in Threads : u # t => pc'[u] = pc[u] /\ node'[u] = node[u]
  BY DEF TypeOK, CallsHoldTheirNodes
<1>2. TypeOK'
  <2>1. readers' \in [Nodes -> SUBSET Threads]
    BY Zenon DEF TypeOK
  <2> QED
    BY <2>1 DEF TypeOK, Steps
<1>3. \A u \in Threads, n \in Nodes :
        u \in readers'[n] <=> u \in readers[n] /\ ~(u = t /\ n = node[t])
  BY <1>1 DEF TypeOK
<1>4. ReadersExcludeWriter'
  <2>1. \A n \in Nodes : readers'[n] \subseteq readers[n]
    BY <1>1 DEF TypeOK
  <2> QED
    BY <2>1 DEF ReadersExcludeWriter
<1>5. \A n \in Nodes : (t \in readers[n] => n = node[t]) /\ writer[n] # t
  BY DEF AccessorsHeld, ReadSteps, InsertSteps
<1>6. \A n \in Nodes : ~Owns(t, n) /\ ~Owns(t, n)'
  BY <1>1 DEF Owns, OwnsNode, OwnsMoribund, BeforePush, EraseSteps
<1>7. pc'[t] \notin ReadSteps \cup InsertSteps \cup EraseSteps \cup {"dunlink", "dwait"}
  BY <1>1 DEF ReadSteps, InsertSteps, EraseSteps
<1> QED
  BY <1>1, <1>2, <1>3, <1>4, <1>5, <1>6, <1>7, QuietInv, ZenonT(40)

(* insert releases the element when it returns. *)
LEMMA ReleaseInv ==
  ASSUME Inv, NEW t \in Threads, pc[t] \in {"count", "cas", "evict2"}, InsertReturn(t), TypeOK',
         UNCHANGED <<m_map, readers, list, m_key, alive>>,
         \A u \in Threads : u # t => moribund'[u] = moribund[u]
  PROVE  Inv'
<1> USE CacheAssumption DEF Inv, IInv, InsertReturn, return, goto
<1>0. \A n \in Nodes : writer'[n] = IF n = node[t] THEN NoThread ELSE writer[n]
  BY DEF TypeOK
<1>1. /\ pc'[t] = "idle"
      /\ \A u \in Threads : u # t => pc'[u] = pc[u] /\ node'[u] = node[u] /\ moribund'[u] = moribund[u]
  BY DEF TypeOK
<1>2. ReadersExcludeWriter' /\ ListWellLinked'
  BY <1>0 DEF ReadersExcludeWriter, ListWellLinked
<1>3. \A n \in Nodes : t \notin readers[n] /\ (writer[n] = t <=> n = node[t])
  BY DEF AccessorsHeld, ReadSteps, InsertSteps
<1>4. \A u \in Threads, n \in Nodes : u # t =>
        (u \in readers'[n] <=> u \in readers[n]) /\ (writer'[n] = u <=> writer[n] = u)
  BY <1>0, <1>3, CacheAssumption
<1>5. \A n \in Nodes : writer'[n] # t
  BY <1>0, <1>3, CacheAssumption
<1>6. \A n \in Nodes : ~Owns(t, n) /\ ~Owns(t, n)'
  BY <1>1 DEF Owns, OwnsNode, OwnsMoribund, BeforePush, EraseSteps
<1>7. pc'[t] \notin ReadSteps \cup InsertSteps \cup EraseSteps \cup {"dunlink", "dwait"}
  BY <1>1 DEF ReadSteps, InsertSteps, EraseSteps
<1>8. UNCHANGED <<m_map, m_key, alive>> /\ Linked(list)' = Linked(list) /\ readers' = readers
  BY Zenon
<1>9. /\ \A n \in Nodes : /\ t \in readers'[n] <=> pc'[t] \in ReadSteps /\ node'[t] = n
                          /\ writer'[n] = t <=> pc'[t] \in InsertSteps /\ node'[t] = n
                          /\ Owns(t, n)' <=> Owns(t, n)
      /\ pc'[t] \notin EraseSteps \cup {"dunlink", "dwait"}
      /\ pc'[t] \notin {"idle", "dsize"} => node'[t] \in alive
      /\ pc'[t] \in InsertSteps => InMap(node'[t])
  <2>1. pc'[t] \in {"idle"}
    BY <1>1, Zenon
  <2> QED
    BY <1>3, <1>5, <1>6, <1>7, <1>8, <2>1, Zenon
<1> HIDE DEF Inv, IInv, InsertReturn, return, goto
<1> QED
  BY <1>1, <1>2, <1>4, <1>8, <1>9, QuietInv, ZenonT(40)

(* insert goes on and keeps its accessor. *)
LEMMA MoveInv ==
  ASSUME Inv, NEW t \in Threads, TypeOK',
         \/ pc[t] \in {"load", "evict1"} /\ pc'[t] \in {"evict1", "push"}
         \/ pc[t] \in {"count", "cas"} /\ pc'[t] \in {"cas", "evict2"},
         \A u \in Threads : u # t => pc'[u] = pc[u] /\ moribund'[u] = moribund[u],
         UNCHANGED <<m_map, readers, writer, list, m_key, alive, node>>
  PROVE  Inv'
<1> USE DEF Inv, IInv
<1>1. ReadersExcludeWriter' /\ ListWellLinked'
  BY DEF ReadersExcludeWriter, ListWellLinked
<1>2. \A n \in Nodes : Owns(t, n)' <=> Owns(t, n)
  BY DEF Owns, OwnsNode, OwnsMoribund, BeforePush, EraseSteps
<1>3. /\ pc[t] \in InsertSteps /\ pc'[t] \in InsertSteps /\ pc[t] \notin ReadSteps
      /\ pc'[t] \notin ReadSteps \cup EraseSteps \cup {"dunlink", "dwait"}
      /\ pc[t] \notin {"idle", "dsize"}
  BY DEF InsertSteps, ReadSteps, EraseSteps
<1>4. node[t] \in alive /\ InMap(node[t])
  BY <1>3, Zenon DEF CallsHoldTheirNodes
<1>5. \A n \in Nodes : t \notin readers[n] /\ (writer[n] = t <=> n = node[t])
  BY <1>3, Zenon DEF AccessorsHeld
<1> QED
  BY <1>1, <1>2, <1>3, <1>4, <1>5, QuietInv, ZenonT(40)

(* A promotion moves a linked node only. *)
LEMMA FindPromoteInv ==
  ASSUME Inv, NEW t \in Threads, FindPromote(t)
  PROVE  Inv'
<1> USE DEF FindPromote
<1>1. list \in ListStates /\ WellLinked(list, {Head}, {Tail})
  BY DEF Inv, IInv, TypeOK, ListWellLinked
<1>2. /\ list' \in ListStates /\ Linked(list)' = Linked(list) /\ ListWellLinked'
  <2>1. CASE isInList(list, node[t])
    <3>1. node[t] \in Linked(list)
      BY <2>1 DEF Inv, IInv, CallsHoldTheirNodes, Linked, TypeOK
    <3> QED
      BY <1>1, <2>1, <3>1, MoveToFrontLemma, EndsLemma DEF ListWellLinked
  <2>2. CASE ~isInList(list, node[t])
    BY <1>1, <2>2, Zenon DEF ListWellLinked
  <2> QED
    BY <2>1, <2>2, Zenon
<1> QED
  BY <1>2, LeaveInv, Zenon

(* A hit without promotion only releases the element. *)
LEMMA FindNoPromoteInv ==
  ASSUME Inv, NEW t \in Threads, FindNoPromote(t)
  PROVE  Inv'
<1>1. list' \in ListStates /\ Linked(list)' = Linked(list) /\ ListWellLinked'
  BY DEF FindNoPromote, Inv, IInv, TypeOK, ListWellLinked
<1> QED
  BY <1>1, LeaveInv, Zenon DEF FindNoPromote

(* Reading m_size moves the call only. *)
LEMMA InsertLoadInv ==
  ASSUME Inv, NEW t \in Threads, InsertLoad(t)
  PROVE  Inv'
<1>1. TypeOK'
  BY CacheAssumption DEF Inv, TypeOK, Steps, InsertLoad, goto, elements
<1>2. /\ pc[t] = "load" /\ pc'[t] \in {"evict1", "push"}
      /\ \A u \in Threads : u # t => pc'[u] = pc[u]
  BY DEF Inv, TypeOK, InsertLoad, goto
<1> QED
  BY <1>1, <1>2, MoveInv, Zenon DEF InsertLoad, elements

(* Counting the element and, unless overfull, releasing it. *)
LEMMA InsertCountInv ==
  ASSUME Inv, NEW t \in Threads, InsertCount(t)
  PROVE  Inv'
<1> USE DEF InsertCount
<1>1. /\ pc[t] = "count"
      /\ UNCHANGED <<m_map, readers, list, m_key, alive, moribund>>
      /\ \/ goto(t, "cas") /\ UNCHANGED <<writer, node>>
         \/ InsertReturn(t)
  BY Zenon
<1>2. TypeOK'
  BY CacheAssumption DEF Inv, TypeOK, Steps, InsertReturn, return, goto, EvictionDone, Inc
<1>3. CASE InsertReturn(t)
  BY <1>1, <1>2, <1>3, ReleaseInv, Zenon
<1>4. CASE goto(t, "cas") /\ UNCHANGED <<writer, node>>
  <2>1. pc'[t] = "cas" /\ \A u \in Threads : u # t => pc'[u] = pc[u]
    BY <1>4 DEF goto, Inv, TypeOK
  <2> QED
    BY <1>1, <1>2, <1>4, <2>1, MoveInv, Zenon
<1> QED
  BY <1>1, <1>3, <1>4, Zenon

(* Winning or losing the right to evict an extra element. *)
LEMMA InsertCasInv ==
  ASSUME Inv, NEW t \in Threads, InsertCas(t)
  PROVE  Inv'
<1> USE DEF InsertCas
<1>1. /\ pc[t] = "cas"
      /\ UNCHANGED <<m_map, readers, list, m_key, alive, moribund>>
      /\ \/ goto(t, "evict2") /\ UNCHANGED <<writer, node>>
         \/ InsertReturn(t)
  BY Zenon
<1>2. TypeOK'
  BY CacheAssumption DEF Inv, TypeOK, Steps, InsertReturn, return, goto, Dec
<1>3. CASE InsertReturn(t)
  BY <1>1, <1>2, <1>3, ReleaseInv, Zenon
<1>4. CASE goto(t, "evict2") /\ UNCHANGED <<writer, node>>
  <2>1. pc'[t] = "evict2" /\ \A u \in Threads : u # t => pc'[u] = pc[u]
    BY <1>4 DEF goto, Inv, TypeOK
  <2> QED
    BY <1>1, <1>2, <1>4, <2>1, MoveInv, Zenon
<1> QED
  BY <1>1, <1>3, <1>4, Zenon

(* The list gives its last node to the evicting call. *)
LEMMA EvictDelinkInv ==
  ASSUME Inv, NEW t \in Threads, EvictDelink(t)
  PROVE  Inv'
<1>1. list \in ListStates /\ WellLinked(list, {Head}, {Tail})
  BY DEF Inv, IInv, TypeOK, ListWellLinked
<1>2. CASE ListIsEmpty
  <2>1. EvictReturn(t) /\ list' = list /\ UNCHANGED <<m_map, readers, m_key, alive, m_size>>
    BY <1>2, Zenon DEF EvictDelink
  <2>2. TypeOK'
    BY <2>1, CacheAssumption DEF Inv, TypeOK, Steps, EvictReturn, InsertReturn, return, goto
  <2>3. \A u \in Threads : u # t => moribund'[u] = moribund[u]
    BY <2>1 DEF EvictReturn, Inv, TypeOK
  <2>4. CASE pc[t] = "evict1"
    <3>1. /\ pc'[t] = "push" /\ UNCHANGED <<writer, node>>
          /\ \A u \in Threads : u # t => pc'[u] = pc[u]
      BY <2>1, <2>4 DEF EvictReturn, goto, Inv, TypeOK
    <3> QED
      BY <2>1, <2>2, <2>3, <2>4, <3>1, MoveInv, Zenon
  <2>5. CASE pc[t] = "evict2"
    <3>1. InsertReturn(t)
      BY <2>1, <2>5 DEF EvictReturn
    <3> QED
      BY <2>1, <2>2, <2>3, <2>5, <3>1, ReleaseInv, Zenon
  <2> QED
    BY <2>4, <2>5, Zenon DEF EvictDelink
<1>3. CASE ~ListIsEmpty
  <2>1. PICK n \in Linked(list) : n = list.prev[Tail]
    BY <1>1, <1>3, Zenon DEF ListIsEmpty, WellLinked
  <2>2. /\ pc[t] \in {"evict1", "evict2"} /\ list' = delink(list, n)
        /\ moribund' = [moribund EXCEPT ![t] = n]
        /\ goto(t, IF pc[t] = "evict1" THEN "erase1" ELSE "erase2")
        /\ UNCHANGED <<writer, node, s, m_map, readers, m_key, alive, m_size>>
    BY <1>3, <2>1, Zenon DEF EvictDelink
  <2>3. /\ list' \in ListStates /\ Linked(list)' = Linked(list) \ {n} /\ ListWellLinked'
    BY <1>1, <2>2, DelinkLemma, EndsLemma DEF ListWellLinked
  <2>4. TypeOK'
    BY <2>1, <2>2, <2>3 DEF Inv, TypeOK, Steps, goto, Linked
  <2>5. /\ pc'[t] = (IF pc[t] = "evict1" THEN "erase1" ELSE "erase2") /\ moribund'[t] = n
        /\ \A u \in Threads : u # t => pc'[u] = pc[u] /\ moribund'[u] = moribund[u]
    BY <2>2 DEF goto, Inv, TypeOK
  <2>6. \A m \in Nodes : Owns(t, m)' <=> Owns(t, m) \/ m = n
    BY <2>2, <2>5 DEF Owns, OwnsNode, OwnsMoribund, BeforePush, EraseSteps
  <2>7. pc[t] = "evict1" => node[t] # n
    BY <2>1 DEF Inv, IInv, OwnersExclusive, CallsHoldTheirNodes, Owns, OwnsNode, BeforePush, TypeOK
  <2>8. /\ pc[t] \in InsertSteps \ ReadSteps /\ pc'[t] \in InsertSteps \ ReadSteps
        /\ pc'[t] \notin {"idle", "dsize", "dwait", "dunlink"} /\ pc[t] \notin {"idle", "dsize"}
        /\ pc'[t] = "erase1" => pc[t] = "evict1"
    BY <2>2, <2>5, Zenon DEF InsertSteps, ReadSteps
  <2> QED
    BY <2>2, <2>3, <2>4, <2>5, <2>6, <2>7, <2>8, TakeInv, ZenonT(40)
<1> QED
  BY <1>2, <1>3, Zenon

(* The list gives the node to the deleting call, if it is linked. *)
LEMMA DeleteDelinkInv ==
  ASSUME Inv, NEW t \in Threads, DeleteDelink(t)
  PROVE  Inv'
<1>1. list \in ListStates /\ WellLinked(list, {Head}, {Tail})
  BY DEF Inv, IInv, TypeOK, ListWellLinked
<1>2. CASE ~MayDelete(t)
  <2>1. list' = list /\ Linked(list)' = Linked(list) /\ ListWellLinked'
    BY <1>1, <1>2 DEF DeleteDelink, ListWellLinked
  <2> QED
    BY <1>1, <1>2, <2>1, LeaveInv, ZenonT(40) DEF DeleteDelink
<1>3. CASE MayDelete(t)
  <2>1. PICK n \in Linked(list) : n = node[t]
    BY <1>3 DEF DeleteDelink, MayDelete, Inv, IInv, CallsHoldTheirNodes, Linked, TypeOK
  <2>2. /\ pc[t] = "dlock" /\ list' = delink(list, n) /\ goto(t, "dunlink")
        /\ UNCHANGED <<readers, node, s, m_map, writer, m_key, alive, m_size, moribund>>
    BY <1>3, <2>1, Zenon DEF DeleteDelink
  <2>3. /\ list' \in ListStates /\ Linked(list)' = Linked(list) \ {n} /\ ListWellLinked'
    BY <1>1, <2>2, DelinkLemma, EndsLemma DEF ListWellLinked
  <2>4. TypeOK'
    BY <2>2, <2>3 DEF Inv, TypeOK, Steps, goto
  <2>5. pc'[t] = "dunlink" /\ \A u \in Threads : u # t => pc'[u] = pc[u]
    BY <2>2 DEF goto, Inv, TypeOK
  <2>6. \A m \in Nodes : Owns(t, m)' <=> Owns(t, m) \/ m = n
    BY <2>1, <2>2, <2>5, ZenonT(40) DEF Owns, OwnsNode, OwnsMoribund, BeforePush, EraseSteps
  <2>7. /\ pc[t] \in ReadSteps \ InsertSteps
        /\ pc'[t] \in ReadSteps \ (InsertSteps \cup EraseSteps)
    BY <2>2, <2>5 DEF InsertSteps, ReadSteps, EraseSteps
  <2> QED
    BY <2>1, <2>2, <2>3, <2>4, <2>5, <2>6, <2>7, TakeInv, ZenonT(40)
<1> QED
  BY <1>2, <1>3, Zenon

(* Counting the deletion moves the call only. *)
LEMMA DeleteCountInv ==
  ASSUME Inv, NEW t \in Threads, DeleteCount(t)
  PROVE  Inv'
<1> USE CacheAssumption DEF Inv, IInv, DeleteCount, return, goto, elements
<1>1. TypeOK'
  BY DEF TypeOK, Steps, Dec
<1>2. /\ pc[t] = "dsize" /\ pc'[t] = "idle"
      /\ \A u \in Threads : u # t => pc'[u] = pc[u] /\ node'[u] = node[u]
      /\ UNCHANGED <<m_map, readers, writer, list, m_key, alive, moribund>>
  BY DEF TypeOK
<1>3. ListWellLinked' /\ ReadersExcludeWriter'
  BY <1>2 DEF ListWellLinked, ReadersExcludeWriter
<1>4. \A n \in Nodes : /\ t \notin readers[n] /\ writer[n] # t
                       /\ ~Owns(t, n) /\ ~Owns(t, n)'
  BY <1>2 DEF AccessorsHeld, ReadSteps, InsertSteps, Owns, OwnsNode, OwnsMoribund, BeforePush, EraseSteps
<1>5. pc'[t] \notin ReadSteps \cup InsertSteps \cup EraseSteps \cup {"dunlink", "dwait"}
  BY <1>2 DEF ReadSteps, InsertSteps, EraseSteps
<1> QED
  BY <1>1, <1>2, <1>3, <1>4, <1>5, QuietInv, ZenonT(40)

(* clear empties everything. *)
LEMMA ClearInv ==
  ASSUME Inv, Clear
  PROVE  Inv'
<1> USE CacheAssumption, SentinelAssumption DEF Inv, IInv, Clear, locals
<1>0. list' \in ListStates /\ Linked(list)' = {} /\ ListWellLinked'
  BY EmptyListLemma DEF ListWellLinked
<1>1. TypeOK'
  <2>1. /\ m_map' \in [Keys -> Nodes \cup {Null}] /\ m_key' \in [Nodes -> Keys \cup {NoKey}]
        /\ alive' \subseteq Nodes /\ m_size' \in 0..SizeMod-1
    BY DEF TypeOK
  <2> QED
    BY <1>0, <2>1, Zenon DEF TypeOK
<1>2. ListWellLinked'
  BY <1>0, Zenon
<1>3. AccessorsHeld'
  BY <1>0 DEF AccessorsHeld, CallsHoldTheirNodes, TypeOK, ReadSteps, InsertSteps
<1>4. ReadersExcludeWriter'
  BY <1>0 DEF ReadersExcludeWriter, AccessorsHeld, CallsHoldTheirNodes, TypeOK,
     ReadSteps, InsertSteps
<1>5. MapPointsToOwnNode'
  BY <1>0 DEF MapPointsToOwnNode, CallsHoldTheirNodes, TypeOK, InMap, InsertSteps
<1>6. LinkedInMap'
  BY <1>0 DEF LinkedInMap, Linked, isInList, TypeOK
<1>7. NoOrphans'
  BY <1>0 DEF NoOrphans, Owns, OwnsNode, OwnsMoribund, BeforePush, EraseSteps, TypeOK
<1>8. OwnersExclusive'
  BY <1>0 DEF OwnersExclusive, Owns, OwnsNode, OwnsMoribund, BeforePush, EraseSteps,
     InsertSteps, CallsHoldTheirNodes, LinkedInMap, TypeOK
<1>9. CallsHoldTheirNodes'
  BY <1>0 DEF CallsHoldTheirNodes, OwnersExclusive, Owns, OwnsNode, OwnsMoribund,
     MapPointsToOwnNode, LinkedInMap, InMap, BeforePush, EraseSteps, InsertSteps, TypeOK
<1> QED
  BY <1>1, <1>2, <1>3, <1>4, <1>5, <1>6, <1>7, <1>8, <1>9, Zenon

(* Calls that change nothing: misses, an insert of a key that is there. *)
LEMMA StutterInv == Inv /\ UNCHANGED vars => Inv'
<1> SUFFICES ASSUME Inv, UNCHANGED vars PROVE Inv'
  OBVIOUS
<1> USE DEF Inv, IInv, vars
<1>1. TypeOK' /\ ListWellLinked'
  BY DEF TypeOK, ListWellLinked
<1>2. AccessorsHeld' /\ ReadersExcludeWriter'
  BY Zenon DEF AccessorsHeld, ReadersExcludeWriter
<1>3. MapPointsToOwnNode' /\ LinkedInMap'
  BY Zenon DEF MapPointsToOwnNode, LinkedInMap, InMap
<1>4. NoOrphans' /\ OwnersExclusive'
  <2>1. \A u \in Threads, n \in Nodes : Owns(u, n)' <=> Owns(u, n)
    BY Zenon DEF Owns, OwnsNode, OwnsMoribund
  <2>2. UNCHANGED <<alive, list, pc, node, moribund>> /\ alive \subseteq Nodes
    BY Zenon DEF TypeOK
  <2> QED
    BY <2>1, <2>2, Zenon DEF NoOrphans, OwnersExclusive
<1>5. CallsHoldTheirNodes'
  BY Zenon DEF CallsHoldTheirNodes, InMap
<1> QED
  BY <1>1, <1>2, <1>3, <1>4, <1>5

(* Every step of find, insert, evict, delete_key and clear keeps Inv. *)
LEMMA NextInv == Inv /\ [Next]_vars => Inv'
<1> SUFFICES ASSUME Inv, [Next]_vars PROVE Inv'
  OBVIOUS
<1>1. ASSUME NEW t \in Threads, Find(t) PROVE Inv'
  <2>1. ASSUME NEW k \in Keys, FindHit(t, k) PROVE Inv'
    BY <2>1, JoinInv, Zenon
  <2>2. ASSUME NEW k \in Keys, FindMiss(t, k) PROVE Inv'
    BY <2>2, StutterInv DEF FindMiss
  <2> QED
    BY <1>1, <2>1, <2>2, FindPromoteInv, FindNoPromoteInv DEF Find
<1>2. ASSUME NEW t \in Threads, Insert(t) PROVE Inv'
  <2>1. ASSUME NEW k \in Keys, NEW n \in NewAddress, InsertNew(t, k, n) PROVE Inv'
    BY <2>1, InsertNewInv DEF NewAddress
  <2>2. ASSUME NEW k \in Keys, InsertExisting(t, k) PROVE Inv'
    BY <2>2, StutterInv DEF InsertExisting
  <2> QED
    BY <1>2, <2>1, <2>2, InsertLoadInv, EvictDelinkInv, EvictEraseInv,
       InsertPushInv, InsertCountInv, InsertCasInv DEF Insert
<1>3. ASSUME NEW t \in Threads, Delete(t) PROVE Inv'
  <2>1. ASSUME NEW k \in Keys, DeleteFind(t, k) PROVE Inv'
    BY <2>1, JoinInv, Zenon
  <2>2. ASSUME NEW k \in Keys, DeleteMiss(t, k) PROVE Inv'
    BY <2>2, StutterInv DEF DeleteMiss
  <2> QED
    BY <1>3, <2>1, <2>2, DeleteDelinkInv, DeleteUnlinkInv, DeleteFreeInv,
       DeleteCountInv DEF Delete
<1> QED
  BY <1>1, <1>2, <1>3, ClearInv, StutterInv DEF Next

(* In every reachable state of a baseline shard each ListNode is owned by *)
(* the list or by exactly one call, and accessors and owners agree.        *)
THEOREM Invariance == Spec => []Inv
  BY InitInv, NextInv, PTL DEF Spec

(* Every variable of a baseline shard keeps its type, the size counter     *)
(* included, which wraps like size_t.                                      *)
THEOREM TypeCorrect == Spec => []TypeOK
<1>1. Inv => TypeOK
  BY DEF Inv
<1> QED
  BY <1>1, Invariance, PTL

(* The list of a shard is doubly linked in every reachable state. *)
THEOREM ListStaysWellLinked == Spec => []ListWellLinked
<1>1. Inv => ListWellLinked
  BY DEF Inv, IInv
<1> QED
  BY <1>1, Invariance, PTL

(* The branch of evict marked "Presumably unreachable" is unreachable, for *)
(* any number of threads and any capacity.                                 *)
THEOREM EvictAlwaysFindsItsKey == Spec => []EvictFindsItsKey
<1>1. Inv => EvictFindsItsKey
  BY DEF Inv, IInv, EvictFindsItsKey, CallsHoldTheirNodes, InMap, EraseSteps
<1> QED
  BY <1>1, Invariance, PTL

(* find, insert, evict and delete_key never use a deleted ListNode. *)
THEOREM NodesAreNeverUsedAfterFree == Spec => []NoUseAfterFree
<1>1. Inv => NoUseAfterFree
  BY DEF Inv, IInv, NoUseAfterFree, CallsHoldTheirNodes, LinkedInMap, EraseSteps
<1> QED
  BY <1>1, Invariance, PTL

(* A shard with no call running has one list node per key in the map, has  *)
(* leaked none and holds no lock.                                          *)
THEOREM IdleShardIsConsistent == Spec => []IdleConsistent
<1>1. Inv => IdleConsistent
  <2> SUFFICES ASSUME Inv, Idle
               PROVE  /\ Linked(list) = alive
                      /\ {m_map[k] : k \in Keys} \ {Null} = alive
                      /\ \A k \in Keys : m_map[k] # Null => m_key[m_map[k]] = k
                      /\ \A n \in Nodes : readers[n] = {} /\ writer[n] = NoThread
    BY DEF IdleConsistent
  <2> USE DEF Inv, IInv, Idle
  <2>1. Linked(list) = alive
    BY DEF LinkedInMap, NoOrphans, Owns, OwnsNode, OwnsMoribund, BeforePush,
       EraseSteps
  <2>2. {m_map[k] : k \in Keys} \ {Null} = alive
    BY <2>1, SentinelAssumption
    DEF LinkedInMap, InMap, MapPointsToOwnNode, TypeOK
  <2>3. \A n \in Nodes : readers[n] = {} /\ writer[n] = NoThread
    BY DEF AccessorsHeld, ReadSteps, InsertSteps, TypeOK
  <2> QED
    BY <2>1, <2>2, <2>3 DEF MapPointsToOwnNode
<1> QED
  BY <1>1, Invariance, PTL

(* Calls block each other for good only if one of them evicts an extra     *)
(* element while it holds the accessor of its own.                         *)
THEOREM DeadlockNeedsOverfill == Spec => []StuckOnlyAtOverfill
<1>1. Inv => StuckOnlyAtOverfill
  <2> SUFFICES ASSUME Inv, \A t \in Threads : pc[t] # "idle" => Waits(t),
                      \A t \in Threads : pc[t] # "erase2",
                      NEW t \in Threads, pc[t] # "idle"
               PROVE  FALSE
    BY DEF StuckOnlyAtOverfill, Idle
  <2> USE CacheAssumption DEF Inv, IInv
  <2>1. \A u \in Threads : pc[u] \in {"idle", "erase1", "dwait"}
    BY DEF Waits
  <2>2. CASE pc[t] = "dwait"
    <3>1. PICK u \in Threads \ {t} : u \in readers[node[t]]
      <4>1. t \in readers[node[t]] /\ readers[node[t]] \subseteq Threads
        BY <2>2 DEF AccessorsHeld, CallsHoldTheirNodes, ReadSteps, TypeOK
      <4>2. readers[node[t]] # {t}
        BY <2>2 DEF Waits
      <4> QED
        BY <4>1, <4>2, Zenon
    <3>2. pc[u] = "dwait" /\ node[u] = node[t] /\ node[t] \in Nodes
      BY <2>1, <2>2, <3>1 DEF AccessorsHeld, CallsHoldTheirNodes, ReadSteps, TypeOK
    <3> QED
      BY <2>2, <3>1, <3>2 DEF OwnersExclusive, Owns, OwnsNode
  <2>3. CASE pc[t] = "erase1"
    <3> DEFINE m == moribund[t]
    <3>1. m \in Nodes /\ InMap(m) /\ Holders(m) # {}
      BY <2>3 DEF Waits, CallsHoldTheirNodes, EraseSteps, InMap, TypeOK
    <3>2. PICK u \in Threads : u \in readers[m] \/ writer[m] = u
      BY <3>1 DEF Holders, TypeOK
    <3>3. node[u] = m /\ pc[u] \in {"erase1", "dwait"}
      BY <2>1, <3>1, <3>2, ZenonT(40) DEF AccessorsHeld, ReadSteps, InsertSteps
    <3>4. pc[u] # "dwait"
      BY <3>1, <3>3 DEF CallsHoldTheirNodes, InMap
    <3> QED
      BY <2>3, <3>1, <3>3, <3>4
      DEF OwnersExclusive, Owns, OwnsNode, OwnsMoribund, BeforePush, EraseSteps
  <2> QED
    BY <2>1, <2>2, <2>3
<1> QED
  BY <1>1, Invariance, PTL

-----------------------------------------------------------------------------
(* What ListReachable needs besides the invariant. *)
OneList == NoCircle(list) /\ list.next[Tail] = Null

(* What a step may do to the list. *)
LEMMA ListSteps ==
  ASSUME Inv, [Next]_vars
  PROVE  \/ list' = list \/ list' = EmptyList
         \/ \E n \in Linked(list) : list' = delink(list, n) \/ list' = moveToFront(list, n)
         \/ \E n \in Nodes \ Linked(list) : list' = pushFront(list, n) \/ list' = resetNode(list, n)
<1> USE DEF Inv, IInv
<1>1. CASE UNCHANGED vars
  BY <1>1 DEF vars
<1>2. ASSUME NEW t \in Threads, Find(t)
      PROVE  list' = list \/ \E n \in Linked(list) : list' = moveToFront(list, n)
  <2>1. CASE FindPromote(t)
    <3>1. node[t] \in Nodes
      BY <2>1 DEF FindPromote, CallsHoldTheirNodes, TypeOK
    <3> QED
      BY <2>1, <3>1, Zenon DEF FindPromote, Linked
  <2> QED
    BY <1>2, <2>1 DEF Find, FindHit, FindMiss, FindNoPromote, vars
<1>3. ASSUME NEW t \in Threads, Insert(t)
      PROVE  \/ list' = list
             \/ \E n \in Linked(list) : list' = delink(list, n)
             \/ \E n \in Nodes \ Linked(list) : list' = pushFront(list, n) \/ list' = resetNode(list, n)
  <2>1. CASE EvictDelink(t)
    <3>1. CASE ListIsEmpty
      BY <2>1, <3>1 DEF EvictDelink
    <3>2. CASE ~ListIsEmpty
      <4>1. list.prev[Tail] \in Linked(list)
        BY <3>2 DEF ListIsEmpty, ListWellLinked, WellLinked
      <4> QED
        BY <2>1, <3>2, <4>1 DEF EvictDelink
    <3> QED
      BY <3>1, <3>2
  <2>2. CASE EvictErase(t)
    <3>1. moribund[t] \in Nodes \ Linked(list)
      BY <2>2 DEF EvictErase, OwnersExclusive, CallsHoldTheirNodes, Owns, OwnsMoribund, EraseSteps,
         TypeOK
    <3> QED
      BY <2>2, <3>1 DEF EvictErase
  <2>3. CASE InsertPush(t)
    <3>1. node[t] \in Nodes \ Linked(list)
      BY <2>3 DEF InsertPush, OwnersExclusive, CallsHoldTheirNodes, Owns, OwnsNode, BeforePush,
         TypeOK
    <3> QED
      BY <2>3, <3>1, Zenon DEF InsertPush
  <2> QED
    BY <1>3, <2>1, <2>2, <2>3 DEF Insert, InsertNew, InsertExisting, InsertLoad, InsertCount,
       InsertCas, vars
<1>4. ASSUME NEW t \in Threads, Delete(t)
      PROVE  \/ list' = list
             \/ \E n \in Linked(list) : list' = delink(list, n)
             \/ \E n \in Nodes \ Linked(list) : list' = resetNode(list, n)
  <2>1. CASE DeleteDelink(t)
    <3>1. node[t] \in Nodes
      BY <2>1 DEF DeleteDelink, CallsHoldTheirNodes, TypeOK
    <3> QED
      BY <2>1, <3>1, Zenon DEF DeleteDelink, MayDelete, Linked
  <2>2. CASE DeleteFree(t)
    <3>1. node[t] \in Nodes \ Linked(list)
      BY <2>2 DEF DeleteFree, OwnersExclusive, CallsHoldTheirNodes, Owns, OwnsNode, TypeOK
    <3> QED
      BY <2>2, <3>1, ZenonT(40) DEF DeleteFree
  <2> QED
    BY <1>4, <2>1, <2>2, Zenon DEF Delete, DeleteFind, DeleteMiss, DeleteUnlink, DeleteCount, vars
<1>5. CASE Clear
  BY <1>5 DEF Clear
<1> QED
  BY <1>1, <1>2, <1>3, <1>4, <1>5 DEF Next

(* The list the constructor and clear leave has no node and no circle. *)
LEMMA EmptyIsOneList == NoCircle(EmptyList) /\ EmptyList.next[Tail] = Null
<1>1. NoCircle(EmptyList)
  BY EmptyListLemma DEF NoCircle
<1>2. EmptyList.next[Tail] = Null
  BY SentinelAssumption DEF EmptyList, emptyEnds, Cells
<1> QED
  BY <1>1, <1>2

(* No step closes a circle of nodes or writes m_tail.m_next. *)
LEMMA NextOneList == Inv /\ OneList /\ [Next]_vars => OneList'
<1> SUFFICES ASSUME Inv, OneList, [Next]_vars PROVE OneList'
  OBVIOUS
<1>1. /\ list \in ListStates /\ WellLinked(list, {Head}, {Tail}) /\ Ends({Head}, {Tail})
      /\ NoCircle(list) /\ list.next[Tail] = Null
  BY EndsLemma DEF Inv, IInv, TypeOK, ListWellLinked, OneList
<1>2. CASE list' = list \/ list' = EmptyList
  BY <1>1, <1>2, EmptyIsOneList DEF OneList
<1>3. ASSUME NEW n \in Linked(list), list' = delink(list, n) \/ list' = moveToFront(list, n)
      PROVE  OneList'
  <2>1. CASE list' = delink(list, n)
    <3>0. /\ NoCircle(delink(list, n))
          /\ \A e \in {Tail} : delink(list, n).next[e] = list.next[e]
      BY ONLY <1>1, n \in Linked(list), DelinkNoCircle, SMTT(30)
    <3>1. NoCircle(delink(list, n)) /\ delink(list, n).next[Tail] = list.next[Tail]
      BY <3>0, Zenon
    <3> QED
      BY <2>1, <3>1, <1>1, Zenon DEF OneList, NoCircle, Linked, isInList
  <2>2. CASE list' = moveToFront(list, n)
    <3>0. /\ NoCircle(moveToFront(list, n))
          /\ \A e \in {Tail} : moveToFront(list, n).next[e] = list.next[e]
      <4>1. Head \in {Head}
        OBVIOUS
      <4> QED
        BY ONLY <1>1, <4>1, n \in Linked(list), MoveToFrontNoCircle, SMTT(30)
    <3>1. NoCircle(moveToFront(list, n)) /\ moveToFront(list, n).next[Tail] = list.next[Tail]
      BY <3>0, Zenon
    <3> QED
      BY <2>2, <3>1, <1>1, Zenon DEF OneList, NoCircle, Linked, isInList
  <2> QED
    BY <1>3, <2>1, <2>2, Zenon
<1>4. ASSUME NEW n \in Nodes \ Linked(list),
             list' = pushFront(list, n) \/ list' = resetNode(list, n)
      PROVE  OneList'
  <2>1. CASE list' = pushFront(list, n)
    <3>1. /\ NoCircle(pushFront(list, n))
          /\ \A e \in {Tail} : pushFront(list, n).next[e] = list.next[e]
      BY ONLY <1>1, n \in Nodes \ Linked(list), PushAfterNoCircle, SMTT(30) DEF pushFront
    <3> QED
      BY <2>1, <3>1, <1>1, Zenon DEF OneList, NoCircle, Linked, isInList
  <2>2. CASE list' = resetNode(list, n)
    <3>1. /\ NoCircle(resetNode(list, n))
          /\ \A e \in {Tail} : resetNode(list, n).next[e] = list.next[e]
      BY ONLY <1>1, n \in Nodes \ Linked(list), ResetNodeNoCircle, SMTT(30)
    <3> QED
      BY <2>2, <3>1, <1>1, Zenon DEF OneList, NoCircle, Linked, isInList
  <2> QED
    BY <1>4, <2>1, <2>2, Zenon
<1> QED
  BY <1>2, <1>3, <1>4, ListSteps

(* It holds of a new shard. *)
LEMMA InitOneList == Init => OneList
  BY EmptyIsOneList DEF Init, OneList

=============================================================================
