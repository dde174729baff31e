------------------------ MODULE LoggingRecordsProofs ------------------------
(* Where the records of the group commit are, for any number of threads,   *)
(* logs and calls: every record is stored once, and before its AddLog      *)
(* returns.  A group is written from its leader down the links, so what a  *)
(* log has buffered of it is the part above the writer that comes next.    *)
EXTENDS LoggingServerProofs

(* The seconds a prover has for a step. *)
USE SMTT(30), ZenonT(30)

(* The numbers of the calls, and what they have written. *)
RecordTypes ==
  /\ calls \in [Threads -> 0..MaxCalls]
  /\ \A t \in Threads : pc[t] # "out" => calls[t] > 0
  /\ buffer \in [Logs -> Seq(Records)]
  /\ disk \in [Logs -> Seq(Records)]

buffered == [l \in Logs |-> Range(buffer[l])]
durable == UNION {Range(disk[l]) : l \in Logs}
stored == durable \cup UNION {Range(buffer[l]) : l \in Logs}

(* Every position of a log has a record of its own. *)
content(l) == disk[l] \o buffer[l]
PlacesDiffer ==
  /\ \A l, m \in Logs : \A i \in DOMAIN content(l), j \in DOMAIN content(m) :
       content(l)[i] = content(m)[j] => l = m /\ i = j
  /\ \A l \in Logs : buffered[l] \cap durable = {}
  /\ \A l, m \in Logs : l # m => buffered[l] \cap buffered[m] = {}

StoredWereAdded == stored \subseteq Added

(* A writer that is not in the hands of a leader yet, and the one that the *)
(* leader is about to write, has not been written.                         *)
NotStoredYet ==
  /\ \A t \in Threads : pc[t] = "link" => Record(t) \notin stored
  /\ \A t \in Threads : Waits(t) /\ state[t] = "GROUP_LEADER" => Record(t) \notin stored
  /\ newest_writer_ # Null => Record(newest_writer_) \notin stored
  /\ \A t \in Threads : pc[t] = "append" /\ head[t] # Null => Record(head[t]) \notin stored

(* A group is written from its leader down the links, ...                  *)
WrittenDownward ==
  \A u \in Threads : Follows(u) /\ link_older[u] # Null =>
    /\ Record(u) \in durable => Record(link_older[u]) \in durable
    /\ Record(u) \notin stored => Record(link_older[u]) \notin stored
    /\ \A l \in Logs : Record(u) \in buffered[l] =>
         \/ Record(link_older[u]) \in buffered[l]
         \/ \E t \in Threads : pc[t] = "append" /\ log_num[t] = l /\ head[t] = link_older[u]

(* ... and the head of the leader is the next one to be written.           *)
HeadIsNext ==
  /\ \A t \in Threads : pc[t] = "append" /\ head[t] \notin {t, Null} =>
       \E u \in Threads : /\ Follows(u) /\ link_older[u] = head[t]
                          /\ Record(u) \in buffered[log_num[t]]
  /\ \A t \in Threads : pc[t] = "append" /\ head[t] # t => Record(t) \in buffered[log_num[t]]
  /\ \A t, u \in Threads :
       t # u /\ pc[t] = "append" /\ pc[u] = "append" /\ head[t] # Null => head[t] # head[u]

(* Nobody is told, and nobody returns, before the sync.                    *)
ToldAreDurable ==
  /\ \A t \in Threads : pc[t] \in {"free", "finish"} => Record(t) \in durable
  /\ \A t \in Threads : Finishing(t) => Record(head[t]) \in durable
  /\ \A t \in Threads : Waits(t) /\ state[t] = "COMPLETED" => Record(t) \in durable
ReturnedAreDurable ==
  \A r \in Records : r[2] < calls[r[1]] \/ (r[2] = calls[r[1]] /\ pc[r[1]] = "out")
                       => r \in durable

RInv ==
  /\ RecordTypes /\ PlacesDiffer /\ StoredWereAdded /\ NotStoredYet /\ WrittenDownward
  /\ HeadIsNext /\ ToldAreDurable /\ ReturnedAreDurable

(* Before the first call there is no record anywhere. *)
LEMMA InitRInv == Init => RInv
<1> SUFFICES ASSUME Init PROVE RInv
  OBVIOUS
<1>1. Added = {}
  BY DEF Init, Added, Records
<1>2. durable = {} /\ stored = {} /\ \A l \in Logs : buffered[l] = {}
  BY DEF Init, durable, stored, buffered, Range
<1>3. RecordTypes
  BY LoggingAssumption DEF Init, RecordTypes
<1>4. PlacesDiffer /\ StoredWereAdded
  BY <1>1, <1>2 DEF Init, PlacesDiffer, content, StoredWereAdded
<1>5. NotStoredYet /\ WrittenDownward /\ HeadIsNext /\ ToldAreDurable
  BY <1>2 DEF Init, NotStoredYet, WrittenDownward, HeadIsNext, ToldAreDurable, Waits,
     Follows, Finishing
<1>6. ReturnedAreDurable
  BY DEF Init, ReturnedAreDurable, Records
<1> QED
  BY <1>3, <1>4, <1>5, <1>6 DEF RInv

(* Steps that neither call AddLog nor write leave the records where they   *)
(* are.                                                                    *)
LEMMA SameRecords ==
  ASSUME RInv, UNCHANGED <<calls, buffer, disk>>,
         \A t \in Threads : pc'[t] # "out" => pc[t] # "out"
  PROVE  /\ durable' = durable /\ stored' = stored /\ buffered' = buffered
         /\ RecordTypes' /\ PlacesDiffer' /\ StoredWereAdded'
<1>1. durable' = durable /\ stored' = stored /\ buffered' = buffered /\ Added' = Added
  BY DEF durable, stored, buffered, Added
<1>2. RecordTypes'
  BY <1>1 DEF RInv, RecordTypes
<1>3. PlacesDiffer' /\ StoredWereAdded'
  <2>1. \A l : content(l)' = content(l)
    BY DEF content
  <2> QED
    BY <1>1, <2>1 DEF RInv, PlacesDiffer, StoredWereAdded
<1> QED
  BY <1>1, <1>2, <1>3

(* What is written below a writer stays written below it, when one call    *)
(* moves that appends nothing.                                             *)
LEMMA BelowKept ==
  ASSUME WrittenDownward, NEW t \in Threads, pc[t] # "append",
         durable' = durable, stored' = stored, buffered' = buffered, head' = head,
         \A v \in Threads : v # t => pc'[v] = pc[v] /\ log_num'[v] = log_num[v],
         NEW u \in Threads, Follows(u), link_older'[u] = link_older[u], link_older[u] # Null,
         Record(u)' = Record(u), Record(link_older[u])' = Record(link_older[u])
  PROVE  /\ Record(u)' \in durable' => Record(link_older[u])' \in durable'
         /\ Record(u)' \notin stored' => Record(link_older[u])' \notin stored'
         /\ \A l \in Logs : Record(u)' \in buffered'[l] =>
              \/ Record(link_older[u])' \in buffered'[l]
              \/ \E v \in Threads : pc'[v] = "append" /\ log_num'[v] = l /\ head'[v] = link_older'[u]
<1>1. /\ Record(u) \in durable => Record(link_older[u]) \in durable
      /\ Record(u) \notin stored => Record(link_older[u]) \notin stored
      /\ \A l \in Logs : Record(u) \in buffered[l] =>
           \/ Record(link_older[u]) \in buffered[l]
           \/ \E v \in Threads : pc[v] = "append" /\ log_num[v] = l /\ head[v] = link_older[u]
  BY Zenon DEF WrittenDownward
<1>2. ASSUME NEW v \in Threads, pc[v] = "append"
      PROVE  pc'[v] = pc[v] /\ log_num'[v] = log_num[v] /\ head'[v] = head[v]
  BY <1>2, Zenon
<1> QED
  BY <1>1, <1>2

(* Who leads, how far, and what hangs below what is in the buffers can     *)
(* only change by a step of the leader.                                    *)
LEMMA HeadsKept ==
  ASSUME IInv, HeadIsNext, buffered' = buffered,
         \A w \in Threads : pc'[w] = "append" =>
           pc[w] = "append" /\ head'[w] = head[w] /\ log_num'[w] = log_num[w]
             /\ Record(w)' = Record(w),
         \A u \in Threads, l \in Logs : Follows(u) /\ Record(u) \in buffered[l] =>
           Follows(u)' /\ link_older'[u] = link_older[u] /\ Record(u)' = Record(u)
  PROVE  HeadIsNext'
<1>1. \A w \in Threads : pc[w] = "append" => log_num[w] \in Logs
  BY DEF IInv, LogsTaken, StatesAgree, Leads
<1>2. ASSUME NEW w \in Threads, pc'[w] = "append", head'[w] \notin {w, Null}
      PROVE  \E u \in Threads : /\ Follows(u)' /\ link_older'[u] = head'[w]
                                /\ Record(u)' \in buffered'[log_num'[w]]
  <2>1. PICK u \in Threads : /\ Follows(u) /\ link_older[u] = head[w]
                             /\ Record(u) \in buffered[log_num[w]]
    BY <1>2 DEF HeadIsNext
  <2> QED
    BY <1>1, <1>2, <2>1
<1>3. \A w \in Threads : pc'[w] = "append" /\ head'[w] # w =>
        Record(w)' \in buffered'[log_num'[w]]
  BY DEF HeadIsNext
<1>4. \A w, u \in Threads : w # u /\ pc'[w] = "append" /\ pc'[u] = "append"
                            /\ head'[w] # Null => head'[w] # head'[u]
  BY DEF HeadIsNext
<1> QED
  BY <1>2, <1>3, <1>4 DEF HeadIsNext

(* A step that writes nothing and moves no head keeps the order in which a *)
(* group is written.                                                       *)
LEMMA DownwardKept ==
  ASSUME WrittenDownward, UNCHANGED <<calls, link_older>>,
         UNCHANGED <<durable, stored, buffered>>,
         \A u \in Threads : Follows(u)' => Follows(u),
         \A u \in Threads : pc[u] = "append" =>
           pc'[u] = "append" /\ head'[u] = head[u] /\ log_num'[u] = log_num[u]
  PROVE  WrittenDownward'
BY DEF WrittenDownward, Record

(* A step that writes nothing keeps the invariant, when whoever it wakes,  *)
(* lets go on or lets return stands where its record does.                 *)
LEMMA KeptRInv ==
  ASSUME IInv, RInv, UNCHANGED <<calls, link_older, buffer, disk>>,
         newest_writer_' \in {newest_writer_, Null},
         \A u \in Threads :
           /\ pc'[u] # "out" => pc[u] # "out"
           /\ pc'[u] = "out" => pc[u] = "out" \/ Record(u) \in durable
           /\ pc'[u] = "link" => pc[u] = "link"
           /\ pc'[u] = "append" <=> pc[u] = "append"
           /\ pc[u] = "append" => head'[u] = head[u] /\ log_num'[u] = log_num[u]
           /\ Follows(u)' => Follows(u)
           /\ Follows(u) => Follows(u)' \/ Record(u) \in durable
           /\ Waits(u)' /\ state'[u] = "GROUP_LEADER" => Record(u) \notin stored
           /\ Waits(u)' /\ state'[u] = "COMPLETED" => Record(u) \in durable
           /\ pc'[u] \in {"free", "finish"} => Record(u) \in durable
           /\ Finishing(u)' => Record(head'[u]) \in durable
  PROVE  RInv'
<1>1. /\ durable' = durable /\ stored' = stored /\ buffered' = buffered
      /\ RecordTypes' /\ PlacesDiffer' /\ StoredWereAdded'
  BY SameRecords
<1>2. NotStoredYet'
  BY <1>1, Zenon DEF RInv, NotStoredYet, Record
<1>3. WrittenDownward'
  BY <1>1, DownwardKept, Zenon DEF RInv
<1>4. HeadIsNext'
  <2>1. \A u \in Threads, l \in Logs : Record(u) \in buffered[l] => Record(u) \notin durable
    BY DEF RInv, PlacesDiffer
  <2>2. \A u \in Threads : Record(u)' = Record(u)
    BY DEF Record
  <2> QED
    BY <1>1, <2>1, <2>2, HeadsKept DEF RInv
<1>5. ToldAreDurable'
  BY <1>1, Zenon DEF ToldAreDurable, Record
<1>6. ReturnedAreDurable'
  <2> SUFFICES ASSUME NEW r \in Records,
                      r[2] < calls[r[1]] \/ (r[2] = calls[r[1]] /\ pc'[r[1]] = "out")
               PROVE  r \in durable
    BY <1>1 DEF ReturnedAreDurable
  <2>1. r[1] \in Threads /\ r = <<r[1], r[2]>>
    BY DEF Records
  <2> QED
    BY <2>1, Zenon DEF RInv, ReturnedAreDurable, Record
<1> QED
  BY <1>1, <1>2, <1>3, <1>4, <1>5, <1>6 DEF RInv

(* What sync and the appends do to a sequence of records. *)
LEMMA ConcatIsSeq ==
  ASSUME NEW S, NEW s \in Seq(S), NEW u \in Seq(S)
  PROVE  /\ s \o u \in Seq(S) /\ s \o <<>> = s
         /\ \A v \in Seq(S) : (s \o u) \o v = s \o (u \o v)
OBVIOUS

LEMMA ConcatRange ==
  ASSUME NEW S, NEW s \in Seq(S), NEW u \in Seq(S)
  PROVE  Range(s \o u) = Range(s) \cup Range(u)
<1>1. /\ DOMAIN s = 1..Len(s) /\ DOMAIN u = 1..Len(u) /\ Len(s) \in Nat /\ Len(u) \in Nat
      /\ DOMAIN (s \o u) = 1..(Len(s) + Len(u))
      /\ \A i \in 1..Len(s) : (s \o u)[i] = s[i]
      /\ \A i \in 1..Len(u) : (s \o u)[Len(s) + i] = u[i]
      /\ \A i \in 1..(Len(s) + Len(u)) : i > Len(s) => (s \o u)[i] = u[i - Len(s)]
  OBVIOUS
<1>2. ASSUME NEW x \in Range(s \o u) PROVE x \in Range(s) \cup Range(u)
  <2>1. PICK i \in 1..(Len(s) + Len(u)) : x = (s \o u)[i]
    BY <1>1, <1>2 DEF Range
  <2> QED
    BY <1>1, <2>1 DEF Range
<1>3. ASSUME NEW x \in Range(u) PROVE x \in Range(s \o u)
  <2>1. PICK i \in 1..Len(u) : x = u[i]
    BY <1>1, <1>3 DEF Range
  <2>2. Len(s) + i \in 1..(Len(s) + Len(u))
    BY <1>1
  <2> QED
    BY <1>1, <2>1, <2>2 DEF Range
<1>4. ASSUME NEW x \in Range(s) PROVE x \in Range(s \o u)
  <2>1. PICK i \in 1..Len(s) : x = s[i]
    BY <1>1, <1>4 DEF Range
  <2>2. i \in 1..(Len(s) + Len(u))
    BY <1>1
  <2> QED
    BY <1>1, <2>1, <2>2 DEF Range
<1> QED
  BY <1>2, <1>3, <1>4

(* A log with its buffer is a sequence of stored records. *)
LEMMA ContentIsStored ==
  ASSUME RInv, NEW l \in Logs
  PROVE  /\ content(l) \in Seq(Records) /\ buffer[l] \in Seq(Records)
         /\ disk[l] \in Seq(Records)
         /\ \A i \in DOMAIN content(l) : content(l)[i] \in stored
<1>1. buffer[l] \in Seq(Records) /\ disk[l] \in Seq(Records)
  BY DEF RInv, RecordTypes
<1>2. /\ content(l) \in Seq(Records)
      /\ Range(content(l)) = Range(disk[l]) \cup Range(buffer[l])
  BY <1>1, ConcatIsSeq, ConcatRange DEF content
<1>3. \A i \in DOMAIN content(l) : content(l)[i] \in Range(content(l))
  BY DEF Range
<1>4. Range(disk[l]) \cup Range(buffer[l]) \subseteq stored
  BY DEF stored, durable
<1> QED
  BY <1>1, <1>2, <1>3, <1>4

(* Appending one record to a content: its range and its place. *)
LEMMA OneMore ==
  ASSUME NEW S, NEW s \in Seq(S), NEW d \in Seq(S), NEW x \in S
  PROVE  /\ s \o <<x>> \in Seq(S)
         /\ Range(s \o <<x>>) = Range(s) \cup {x}
         /\ d \o (s \o <<x>>) = (d \o s) \o <<x>>
<1>1. <<x>> \in Seq(S) /\ Range(<<x>>) = {x}
  BY DEF Range
<1> DEFINE one == <<x>>
<1> HIDE DEF one
<1>2. one \in Seq(S) /\ Range(one) = {x}
  BY <1>1 DEF one
<1>3. /\ s \o one \in Seq(S)
      /\ Range(s \o one) = Range(s) \cup {x}
      /\ d \o (s \o one) = (d \o s) \o one
  BY <1>2, ConcatIsSeq, ConcatRange
<1> QED
  BY <1>3, Zenon DEF one

(* The leader writes the record at its head, which is in no log yet. *)
LEMMA AppendDataRInv ==
  ASSUME IInv, RInv, NEW t \in Threads, AppendData(t)
  PROVE  RInv'
<1> USE DEF IInv, RInv
<1>0. /\ pc[t] = "append" /\ head[t] \in Threads
      /\ buffer' = [buffer EXCEPT ![log_num[t]] = @ \o <<Record(head[t])>>]
      /\ head' = [head EXCEPT ![t] = link_older[head[t]]]
      /\ UNCHANGED <<pc, calls, state, link_older, log_num, newest_writer_, disk>>
  BY DEF AppendData, WriteToLog, Types, Pointers
<1>1. PICK w \in Threads, l \in Logs : w = head[t] /\ l = log_num[t]
  BY <1>0, Zenon DEF LogsTaken, Leads, StatesAgree
<1>2. /\ Follows(w) /\ pc[w] # "out"
      /\ w = t \/ \E u \in Threads : /\ Follows(u) /\ link_older[u] = w
                                    /\ Record(u) \in buffered[l]
      /\ w # t => Pending(w)
      /\ \A u \in Threads : Follows(u) /\ link_older[u] = w => Record(u) \in buffered[l]
  <2>1. CASE w = t
    <3>1. ~Pending(t) /\ t # Null
      BY <1>0, LoggingAssumption DEF Pending, Waits
    <3> QED
      BY <1>0, <2>1, <3>1 DEF Follows, PointeesWait
  <2>2. CASE w # t
    <3>1. PICK u \in Threads : /\ Follows(u) /\ link_older[u] = w
                               /\ Record(u) \in buffered[l]
      BY <1>0, <1>1, <2>2, LoggingAssumption DEF HeadIsNext
    <3>2. w # Null
      BY LoggingAssumption
    <3>3. Pending(w)
      BY <3>1, <3>2 DEF PointeesWait
    <3>4. \A v \in Threads : Follows(v) /\ link_older[v] = w => v = u
      BY <3>1, <3>2 DEF LinksDiffer
    <3> QED
      BY <3>1, <3>3, <3>4 DEF Pending, Follows, Waits
  <2> QED
    BY <2>1, <2>2
<1> DEFINE r == Record(w)
<1>3. r \in Records /\ r \in Added /\ r \notin stored /\ \A u \in Threads : Record(u)' = Record(u)
  <2>1. calls[w] \in 1..MaxCalls
    BY <1>2, LoggingAssumption DEF RecordTypes
  <2>2. r \notin stored
    BY <1>0, <1>1, LoggingAssumption DEF NotStoredYet
  <2> QED
    BY <2>1, <2>2, <1>0 DEF Record, Records, Added
<1>4. /\ buffer' = [buffer EXCEPT ![l] = buffer[l] \o <<r>>]
      /\ buffer[l] \in Seq(Records) /\ <<r>> \in Seq(Records)
  BY <1>0, <1>1, <1>3, ContentIsStored
<1> HIDE DEF r
<1>5. /\ buffered'[l] = buffered[l] \cup {r}
      /\ \A m \in Logs : m # l => buffered'[m] = buffered[m]
      /\ durable' = durable /\ stored' = stored \cup {r} /\ Added' = Added
  <2>1. Range(buffer'[l]) = Range(buffer[l]) \cup {r}
    <3>1. buffer'[l] = buffer[l] \o <<r>>
      BY <1>4 DEF Types
    <3> QED
      BY <1>3, <1>4, <3>1, OneMore
  <2>2. \A m \in Logs : m # l => buffer'[m] = buffer[m]
    BY <1>4 DEF Types
  <2>3. durable' = durable /\ Added' = Added
    BY <1>0 DEF durable, Added
  <2>4. stored' = stored \cup {r}
    BY <2>1, <2>2, <2>3 DEF stored
  <2> QED
    BY <2>1, <2>2, <2>3, <2>4 DEF buffered
<1>6. RecordTypes'
  <2>1. buffer[l] \o <<r>> \in Seq(Records)
    BY <1>3, <1>4, OneMore
  <2>2. buffer' \in [Logs -> Seq(Records)]
    BY <2>1, <1>4 DEF RecordTypes
  <2> QED
    BY <2>2, <1>0, <1>5 DEF RecordTypes
<1>7. PlacesDiffer'
  <2>1. content(l)' = content(l) \o <<r>>
    <3>1. content(l)' = disk[l] \o (buffer[l] \o <<r>>)
      BY <1>0, <1>4, Zenon DEF content, RecordTypes
    <3> QED
      <4>1. disk[l] \o (buffer[l] \o <<r>>) = (disk[l] \o buffer[l]) \o <<r>>
        <5>1. \A b, d \in Seq(Records) : d \o (b \o <<r>>) = (d \o b) \o <<r>>
          BY <1>3, OneMore
        <5>2. buffer[l] \in Seq(Records) /\ disk[l] \in Seq(Records)
          BY ContentIsStored
        <5> QED
          BY <5>1, <5>2, Zenon
      <4>2. content(l) = disk[l] \o buffer[l]
        BY DEF content
      <4> QED
        BY <3>1, <4>1, <4>2, Zenon
  <2>2. \A m \in Logs : m # l => content(m)' = content(m)
    BY <1>0, <1>4, Zenon DEF content, RecordTypes
  <2>3. /\ DOMAIN content(l)' = 1..(Len(content(l)) + 1)
        /\ DOMAIN content(l) = 1..Len(content(l)) /\ Len(content(l)) \in Nat
        /\ content(l)'[Len(content(l)) + 1] = r
        /\ \A i \in 1..Len(content(l)) : content(l)'[i] = content(l)[i]
    BY <2>1, <1>4, ContentIsStored
  <2>4. \A m \in Logs : \A i \in DOMAIN content(m) : content(m)[i] # r
    BY <1>3, ContentIsStored
  <2>5. ASSUME NEW m \in Logs, NEW k \in Logs,
               NEW i \in DOMAIN content(m)', NEW j \in DOMAIN content(k)',
               content(m)'[i] = content(k)'[j]
        PROVE  m = k /\ i = j
    <3>1. (m = l /\ i = Len(content(l)) + 1) \/ (i \in DOMAIN content(m) /\ content(m)'[i] = content(m)[i])
      BY <2>2, <2>3
    <3>2. (k = l /\ j = Len(content(l)) + 1) \/ (j \in DOMAIN content(k) /\ content(k)'[j] = content(k)[j])
      BY <2>2, <2>3
    <3> QED
      BY <2>3, <2>4, <2>5, <3>1, <3>2 DEF PlacesDiffer
  <2>6. /\ \A m \in Logs : buffered'[m] \cap durable' = {}
        /\ \A m, k \in Logs : m # k => buffered'[m] \cap buffered'[k] = {}
    <3>1. r \notin durable /\ \A m \in Logs : r \notin buffered[m]
      BY <1>3 DEF stored, durable, buffered
    <3> QED
      BY <1>5, <3>1 DEF PlacesDiffer
  <2> QED
    BY <2>5, <2>6 DEF PlacesDiffer
<1>8. StoredWereAdded'
  BY <1>3, <1>5 DEF StoredWereAdded
<1>9. \A u \in Threads : Record(u) = r => u = w
  BY DEF r, Record
<1>10. \A u \in Threads, m \in Logs : Record(u) \in buffered[m] => Record(u) \in stored
  BY DEF buffered, stored
<1>11. head'[t] = link_older[w] /\ \A u \in Threads : u # t => head'[u] = head[u]
  BY <1>0, <1>1 DEF Types
<1>12. link_older[w] # Null =>
         /\ Pending(link_older[w]) /\ link_older[w] \in Threads /\ link_older[w] # w
         /\ Record(link_older[w]) \notin stored
  <2>1. link_older[w] # w
    BY <1>2, <1>3, <1>10, LoggingAssumption DEF r
  <2> QED
    BY <1>2, <1>3, <2>1 DEF r, PointeesWait, WrittenDownward, Types, Pointers
<1>13. \A u \in Threads : Follows(u)' = Follows(u)
  BY <1>0 DEF Follows, Waits
<1>14. NotStoredYet'
  <2>1. pc[w] # "link" /\ (Waits(w) => state[w] # "GROUP_LEADER")
    BY <1>0, <1>2 DEF Pending, Waits
  <2>2. newest_writer_ # w
    BY <1>0, <1>2, LoggingAssumption, Zenon DEF StackTopOnce, PointeesWait, Pending, Waits
  <2>3. \A u \in Threads : u # t /\ pc[u] = "append" => head[u] # w
    BY <1>0, <1>1, LoggingAssumption, Zenon DEF HeadIsNext
  <2>4. \A u \in Threads : pc'[u] = "link" => Record(u)' \notin stored'
    BY <1>0, <1>3, <1>5, <1>9, <2>1, Zenon DEF NotStoredYet
  <2>5. \A u \in Threads : Waits(u)' /\ state'[u] = "GROUP_LEADER" => Record(u)' \notin stored'
    BY <1>0, <1>3, <1>5, <1>9, <2>1 DEF NotStoredYet, Waits
  <2>6. newest_writer_' # Null => Record(newest_writer_)' \notin stored'
    <3>1. newest_writer_ # Null => newest_writer_ \in Threads
      BY Zenon DEF Types, Pointers
    <3>2. Record(newest_writer_)' = Record(newest_writer_)
      BY <1>0 DEF Record
    <3> QED
      BY <1>0, <1>5, <1>9, <2>2, <3>1, <3>2, Zenon DEF NotStoredYet
  <2>7. ASSUME NEW u \in Threads, pc'[u] = "append", head'[u] # Null
        PROVE  Record(head[u])' \notin stored'
    <3>1. PICK x \in Threads : x = head'[u]
      BY <2>7, <1>11, <1>12 DEF Types, Pointers
    <3>2. x # w /\ Record(x) \notin stored
      BY <1>0, <1>11, <1>12, <2>3, <2>7, <3>1 DEF NotStoredYet
    <3>3. Record(head[u])' = Record(x)
      BY <1>0, <3>1 DEF Record
    <3> QED
      BY <1>5, <1>9, <3>2, <3>3
  <2> QED
    BY <2>4, <2>5, <2>6, <2>7, Zenon DEF NotStoredYet
<1>15. WrittenDownward'
  <2> SUFFICES ASSUME NEW u \in Threads, Follows(u), link_older[u] # Null
               PROVE  /\ Record(u)' \in durable' => Record(link_older[u])' \in durable'
                      /\ Record(u)' \notin stored' => Record(link_older[u])' \notin stored'
                      /\ \A m \in Logs : Record(u)' \in buffered'[m] =>
                           \/ Record(link_older[u])' \in buffered'[m]
                           \/ \E v \in Threads : /\ pc'[v] = "append" /\ log_num'[v] = m
                                                 /\ head'[v] = link_older'[u]
    BY <1>0, <1>13, Zenon DEF WrittenDownward
  <2>1. PICK x \in Threads : x = link_older[u]
    BY DEF Types, Pointers
  <2>2. Record(link_older[u])' = Record(x) /\ Record(u)' = Record(u)
    BY <1>0, <2>1, Zenon DEF Record
  <2>3. Record(u) \in durable => Record(x) \in durable
    BY <2>1 DEF WrittenDownward
  <2>4. Record(u) \notin stored' => Record(x) \notin stored'
    BY <1>2, <1>5, <1>9, <1>10, <2>1, Zenon DEF WrittenDownward
  <2>5. ASSUME NEW m \in Logs, Record(u) \in buffered'[m], Record(x) \notin buffered'[m]
        PROVE  \E v \in Threads : pc[v] = "append" /\ log_num[v] = m /\ head'[v] = x
    <3>1. CASE u = w
      <4>1. m = l
        BY <1>3, <1>5, <1>10, <2>5, <3>1 DEF r
      <4> QED
        BY <1>0, <1>1, <1>11, <2>1, <3>1, <4>1
    <3>2. CASE u # w
      <4>1. Record(u) \in buffered[m] /\ Record(x) \notin buffered[m]
        BY <1>5, <1>9, <2>5, <3>2
      <4>2. PICK v \in Threads : pc[v] = "append" /\ log_num[v] = m /\ head[v] = x
        BY <4>1, <2>1 DEF WrittenDownward
      <4>3. v # t
        BY <1>1, <1>5, <2>5, <4>2 DEF r
      <4> QED
        BY <1>11, <4>2, <4>3
    <3> QED
      BY <3>1, <3>2, Zenon
  <2> QED
    <3>1. durable' = durable /\ UNCHANGED <<pc, log_num, link_older>>
      BY <1>0, <1>5
    <3> QED
      BY <2>1, <2>2, <2>3, <2>4, <2>5, <3>1, ZenonT(40)
<1>16. HeadIsNext'
  <2>0. /\ \A m \in Logs : buffered[m] \subseteq buffered'[m]
        /\ \A v \in Threads : pc[v] = "append" => log_num[v] \in Logs
    BY <1>5, Zenon DEF LogsTaken, Leads, StatesAgree
  <2>1. ASSUME NEW v \in Threads, pc'[v] = "append", head'[v] \notin {v, Null}
        PROVE  \E u \in Threads : /\ Follows(u)' /\ link_older'[u] = head'[v]
                                  /\ Record(u)' \in buffered'[log_num'[v]]
    <3>1. CASE v = t
      BY <1>0, <1>1, <1>2, <1>3, <1>5, <1>11, <1>13, <3>1 DEF r
    <3>2. CASE v # t
      <4>1. PICK u \in Threads : /\ Follows(u) /\ link_older[u] = head[v]
                                 /\ Record(u) \in buffered[log_num[v]]
        BY <1>0, <1>11, <2>1, <3>2, Zenon DEF HeadIsNext
      <4> QED
        BY <1>0, <1>3, <1>11, <1>13, <2>0, <2>1, <3>2, <4>1, ZenonT(40)
    <3> QED
      BY <3>1, <3>2, Zenon
  <2>2. \A v \in Threads : pc'[v] = "append" /\ head'[v] # v =>
          Record(v)' \in buffered'[log_num'[v]]
    BY <1>0, <1>1, <1>3, <1>5, <1>11, <2>0 DEF HeadIsNext, r
  <2>3. \A v \in Threads : v # t /\ pc[v] = "append" /\ link_older[w] # Null =>
          head[v] # link_older[w]
    <3> SUFFICES ASSUME NEW v \in Threads, v # t, pc[v] = "append", link_older[w] # Null,
                        head[v] = link_older[w]
                 PROVE  FALSE
      OBVIOUS
    <3>1. head[v] # v
      BY <1>12 DEF Pending, Waits
    <3>2. PICK u \in Threads : /\ Follows(u) /\ link_older[u] = head[v]
                               /\ Record(u) \in buffered[log_num[v]]
      BY <3>1, Zenon DEF HeadIsNext
    <3>3. u = w
      BY <1>2, <3>2 DEF LinksDiffer
    <3> QED
      BY <1>3, <1>10, <2>0, <3>2, <3>3, Zenon DEF r
  <2>4. ASSUME NEW v \in Threads, NEW u \in Threads, v # u, pc'[v] = "append",
               pc'[u] = "append", head'[v] # Null, head'[v] = head'[u]
        PROVE  FALSE
    <3>1. pc[v] = "append" /\ pc[u] = "append"
      BY <1>0, <2>4
    <3>2. head[v] # Null => head[v] # head[u]
      BY <2>4, <3>1 DEF HeadIsNext
    <3> QED
      BY <1>11, <2>3, <2>4, <3>1, <3>2
  <2> QED
    BY <2>1, <2>2, <2>4, Zenon DEF HeadIsNext
<1>17. ToldAreDurable'
  <2>1. \A u \in Threads : Finishing(u)' => Finishing(u) /\ head'[u] = head[u]
    BY <1>0, <1>11 DEF Finishing
  <2>2. \A u \in Threads : pc'[u] \in {"free", "finish"} => Record(u)' \in durable'
    BY <1>0, <1>3, <1>5, ZenonT(40) DEF ToldAreDurable
  <2>3. \A u \in Threads : Finishing(u)' => Record(head[u])' \in durable'
    BY <1>0, <1>5, <2>1 DEF ToldAreDurable, Record
  <2>4. \A u \in Threads : Waits(u)' /\ state'[u] = "COMPLETED" => Record(u)' \in durable'
    BY <1>0, <1>3, <1>5, Zenon DEF ToldAreDurable, Waits
  <2> QED
    BY <2>1, <2>2, <2>3, <2>4, Zenon DEF ToldAreDurable
<1>18. ReturnedAreDurable'
  BY <1>0, <1>5 DEF ReturnedAreDurable
<1> QED
  BY <1>6, <1>7, <1>8, <1>14, <1>15, <1>16, <1>17, <1>18

(* The whole group becomes durable at once; nobody else writes to the log. *)
LEMMA SyncRInv ==
  ASSUME IInv, RInv, NEW t \in Threads, Sync(t)
  PROVE  RInv'
<1> USE DEF IInv, RInv
<1>0. /\ pc[t] = "append" /\ head[t] = Null /\ pc' = [pc EXCEPT ![t] = "free"]
      /\ disk' = [disk EXCEPT ![log_num[t]] = disk[log_num[t]] \o buffer[log_num[t]]]
      /\ buffer' = [buffer EXCEPT ![log_num[t]] = <<>>]
      /\ UNCHANGED <<calls, state, link_older, log_num, head, newest_writer_>>
  BY Zenon DEF Sync, AfterSync, Goto
<1>1. PICK l \in Logs : l = log_num[t]
  BY <1>0, ZenonT(40) DEF LogsTaken, Leads, StatesAgree
<1>2. /\ pc'[t] = "free" /\ \A u \in Threads : u # t => pc'[u] = pc[u]
      /\ \A u \in Threads : Follows(u)' = Follows(u) /\ Record(u)' = Record(u)
                             /\ Waits(u)' = Waits(u) /\ Finishing(u)' = Finishing(u)
      /\ \A u \in Threads : u # t /\ pc[u] = "append" => log_num[u] \in Logs \ {l}
  BY <1>0, <1>1 DEF Types, Follows, Waits, Finishing, Record, LogsTaken, Leads, StatesAgree
<1>3. /\ disk'[l] = content(l) /\ buffer'[l] = <<>>
      /\ \A m \in Logs : m # l => disk'[m] = disk[m] /\ buffer'[m] = buffer[m]
      /\ disk' \in [Logs -> Seq(Records)] /\ buffer' \in [Logs -> Seq(Records)]
  <2>1. content(l) \in Seq(Records) /\ <<>> \in Seq(Records)
    BY ContentIsStored
  <2>2. content(l) = disk[l] \o buffer[l]
    BY Zenon DEF content
  <2>3. disk' = [disk EXCEPT ![l] = content(l)] /\ buffer' = [buffer EXCEPT ![l] = <<>>]
    BY <1>0, <1>1, <2>2
  <2> QED
    BY <2>1, <2>3 DEF RecordTypes
<1>4. \A m \in Logs : content(m)' = content(m)
  <2>1. content(l)' = content(l) \o <<>>
    BY <1>3 DEF content
  <2>2. content(l) \o <<>> = content(l)
    BY ContentIsStored, ConcatIsSeq
  <2>3. \A m \in Logs : m # l => content(m)' = content(m)
    BY <1>3, Zenon DEF content
  <2> QED
    BY <2>1, <2>2, <2>3
<1>5. /\ durable' = durable \cup buffered[l]
      /\ buffered'[l] = {} /\ \A m \in Logs : m # l => buffered'[m] = buffered[m]
      /\ stored' = stored /\ Added' = Added
  <2>1. Range(disk'[l]) = Range(disk[l]) \cup Range(buffer[l]) /\ Range(buffer'[l]) = {}
    <3>1. Range(disk[l] \o buffer[l]) = Range(disk[l]) \cup Range(buffer[l])
      BY ContentIsStored, ConcatRange
    <3>2. disk'[l] = disk[l] \o buffer[l]
      BY <1>3 DEF content
    <3>3. Range(<<>>) = {}
      BY DEF Range
    <3> QED
      BY <1>3, <3>1, <3>2, <3>3
  <2>2. durable' = durable \cup Range(buffer[l])
    BY <1>3, <2>1, Zenon DEF durable
  <2>3. stored' = stored
    <3>1. stored' = durable' \cup UNION {Range(buffer'[m]) : m \in Logs}
      BY DEF stored
    <3>2. UNION {Range(buffer[m]) : m \in Logs}
            = Range(buffer[l]) \cup UNION {Range(buffer'[m]) : m \in Logs}
      BY <1>3, <2>1, Zenon
    <3> QED
      BY <2>2, <3>1, <3>2 DEF stored
  <2> QED
    BY <1>0, <1>3, <2>1, <2>2, <2>3, Zenon DEF buffered, Added
<1>6. RecordTypes'
  BY <1>0, <1>2, <1>3, <1>5, ZenonT(40) DEF RecordTypes
<1>7. PlacesDiffer' /\ StoredWereAdded'
  BY <1>4, <1>5 DEF PlacesDiffer, StoredWereAdded
<1>8. NotStoredYet'
  BY <1>0, <1>2, <1>5, ZenonT(40) DEF NotStoredYet, Record
<1>9. WrittenDownward'
  <2> SUFFICES ASSUME NEW u \in Threads, Follows(u), link_older[u] # Null
               PROVE  /\ Record(u)' \in durable' => Record(link_older[u])' \in durable'
                      /\ Record(u)' \notin stored' => Record(link_older[u])' \notin stored'
                      /\ \A m \in Logs : Record(u)' \in buffered'[m] =>
                           \/ Record(link_older[u])' \in buffered'[m]
                           \/ \E v \in Threads : /\ pc'[v] = "append" /\ log_num'[v] = m
                                                 /\ head'[v] = link_older'[u]
    BY <1>0, <1>2, Zenon DEF WrittenDownward
  <2>1. PICK x \in Threads : x = link_older[u]
    BY DEF Types, Pointers
  <2>2. Record(link_older[u])' = Record(x) /\ Record(u)' = Record(u)
    BY <1>0, <2>1, Zenon DEF Record
  <2>3. Record(u) \in buffered[l] => Record(x) \in buffered[l]
    <3> SUFFICES ASSUME Record(u) \in buffered[l], Record(x) \notin buffered[l]
                 PROVE  FALSE
      BY ZenonT(40)
    <3>1. PICK v \in Threads : pc[v] = "append" /\ log_num[v] = l /\ head[v] = x
      BY <2>1 DEF WrittenDownward
    <3>2. v = t
      BY <1>2, <3>1
    <3> QED
      BY <1>0, <3>1, <3>2, LoggingAssumption, Zenon
  <2>4. ASSUME NEW m \in Logs, m # l, Record(u) \in buffered[m], Record(x) \notin buffered[m]
        PROVE  \E v \in Threads : pc'[v] = "append" /\ log_num[v] = m /\ head[v] = x
    <3>1. PICK v \in Threads : pc[v] = "append" /\ log_num[v] = m /\ head[v] = x
      BY <2>1, <2>4 DEF WrittenDownward
    <3>2. v # t
      BY <1>1, <2>4, <3>1, Zenon
    <3> QED
      BY <1>2, <3>1, <3>2, Zenon
  <2>5. /\ Record(u) \in durable => Record(x) \in durable
        /\ Record(u) \notin stored => Record(x) \notin stored
    BY <2>1, Zenon DEF WrittenDownward
  <2> QED
    BY <1>0, <1>5, <2>1, <2>2, <2>3, <2>4, <2>5
<1>10. HeadIsNext'
  <2>1. ASSUME NEW v \in Threads, pc'[v] = "append"
        PROVE  v # t /\ pc[v] = "append" /\ buffered'[log_num[v]] = buffered[log_num[v]]
    BY <1>2, <1>5, <2>1, Zenon
  <2>2. ASSUME NEW v \in Threads, pc'[v] = "append", head[v] \notin {v, Null}
        PROVE  \E u \in Threads : /\ Follows(u) /\ link_older[u] = head[v]
                                  /\ Record(u) \in buffered'[log_num[v]]
    BY <2>1, <2>2, Zenon DEF HeadIsNext
  <2>3. \A v \in Threads : pc'[v] = "append" /\ head[v] # v => Record(v) \in buffered'[log_num[v]]
    BY <2>1, Zenon DEF HeadIsNext
  <2>4. \A v, u \in Threads : v # u /\ pc'[v] = "append" /\ pc'[u] = "append"
                              /\ head[v] # Null => head[v] # head[u]
    BY <2>1, Zenon DEF HeadIsNext
  <2>5. head' = head /\ link_older' = link_older /\ log_num' = log_num
    BY <1>0, Zenon
  <2>6. ASSUME NEW v \in Threads, pc'[v] = "append", head'[v] \notin {v, Null}
        PROVE  \E u \in Threads : /\ Follows(u)' /\ link_older'[u] = head'[v]
                                  /\ Record(u)' \in buffered'[log_num'[v]]
    <3>1. PICK u \in Threads : /\ Follows(u) /\ link_older[u] = head[v]
                               /\ Record(u) \in buffered'[log_num[v]]
      BY <2>2, <2>5, <2>6, Zenon
    <3> QED
      BY <1>2, <2>5, <3>1, Zenon
  <2>7. \A v \in Threads : pc'[v] = "append" /\ head'[v] # v =>
          Record(v)' \in buffered'[log_num'[v]]
    BY <1>2, <2>3, <2>5, Zenon
  <2> QED
    BY <2>4, <2>5, <2>6, <2>7, Zenon DEF HeadIsNext
<1>11. ToldAreDurable'
  <2>1. Record(t) \in durable'
    BY <1>0, <1>1, <1>5, LoggingAssumption, Zenon DEF HeadIsNext
  <2>2. \A u \in Threads : pc'[u] \in {"free", "finish"} => Record(u)' \in durable'
    BY <1>2, <1>5, <2>1, Zenon DEF ToldAreDurable
  <2>3. \A u \in Threads : Finishing(u)' => Record(head[u])' \in durable'
    BY <1>0, <1>2, <1>5, Zenon DEF ToldAreDurable, Record
  <2>4. \A u \in Threads : Waits(u)' /\ state'[u] = "COMPLETED" => Record(u)' \in durable'
    BY <1>0, <1>2, <1>5, Zenon DEF ToldAreDurable
  <2> QED
    BY <2>2, <2>3, <2>4, Zenon DEF ToldAreDurable
<1>12. ReturnedAreDurable'
  BY <1>0, <1>2, <1>5, Zenon DEF ReturnedAreDurable, Records
<1> QED
  BY <1>6, <1>7, <1>8, <1>9, <1>10, <1>11, <1>12, Zenon

(* The records whose AddLog has returned. *)
returned == {r \in Records : \/ r[2] < calls[r[1]]
                             \/ r[2] = calls[r[1]] /\ pc[r[1]] = "out"}

(* A step adds a record, makes some durable, or lets calls return. *)
LEMMA StepIsService ==
  ASSUME IInv, RInv, RInv', [Next]_vars
  PROVE  \/ \E r \in Records : /\ r \notin Added /\ Added' = Added \cup {r}
                               /\ UNCHANGED <<durable, returned>>
         \/ /\ durable \subseteq durable' /\ durable' \subseteq Added
            /\ UNCHANGED <<Added, returned>>
         \/ /\ returned \subseteq returned' /\ returned' \subseteq durable
            /\ UNCHANGED <<Added, durable>>
<1> USE DEF IInv, RInv
<1>1. ASSUME NEW t \in Threads, AddLog(t)
      PROVE  \E r \in Records : /\ r \notin Added /\ Added' = Added \cup {r}
                               /\ UNCHANGED <<durable, returned>>
  <2>1. /\ pc[t] = "out" /\ pc' = [pc EXCEPT ![t] = "link"]
        /\ calls' = [calls EXCEPT ![t] = calls[t] + 1] /\ disk' = disk
    BY <1>1 DEF AddLog, Goto, logVars
  <2>2. /\ calls[t] \in Nat /\ calls'[t] = calls[t] + 1 /\ calls[t] + 1 \in 1..MaxCalls
        /\ pc'[t] = "link"
        /\ \A u \in Threads : calls[u] \in Nat
        /\ \A u \in Threads : u # t => calls'[u] = calls[u] /\ pc'[u] = pc[u]
    BY <2>1, LoggingAssumption DEF RecordTypes, Types
  <2> DEFINE r == <<t, calls[t] + 1>>
  <2>3. r \in Records /\ r \notin Added
    BY <2>2 DEF Records, Added
  <2>4. \A q \in Records : q \in Added' <=> q \in Added \/ q = r
    BY <2>2, LoggingAssumption DEF Records, Added
  <2>5. Added' = Added \cup {r}
    BY <2>3, <2>4 DEF Added
  <2>6. \A q \in Records : q \in returned' <=> q \in returned
    <3> TAKE q \in Records
    <3>1. q[1] \in Threads /\ q[2] \in Nat
      BY LoggingAssumption DEF Records
    <3>2. /\ q \in returned <=> q[2] < calls[q[1]] \/ (q[2] = calls[q[1]] /\ pc[q[1]] = "out")
          /\ q \in returned' <=> q[2] < calls'[q[1]] \/ (q[2] = calls'[q[1]] /\ pc'[q[1]] = "out")
      BY DEF returned
    <3> QED
      BY <2>1, <2>2, <3>1, <3>2
  <2>7. durable' = durable /\ returned' = returned
    BY <2>1, <2>6 DEF durable, returned
  <2> QED
    BY <2>3, <2>5, <2>7
<1>2. ASSUME NEW t \in Threads, Sync(t)
      PROVE  /\ durable \subseteq durable' /\ durable' \subseteq Added
             /\ UNCHANGED <<Added, returned>>
  <2>1. /\ pc[t] = "append" /\ pc' = [pc EXCEPT ![t] = "free"] /\ calls' = calls
        /\ disk' = [disk EXCEPT ![log_num[t]] = disk[log_num[t]] \o buffer[log_num[t]]]
    BY <1>2, Zenon DEF Sync, Goto
  <2>2. Added' = Added /\ returned' = returned
    BY <2>1 DEF Added, returned, Types, Records
  <2>3. durable' \subseteq Added
    BY <2>2, Zenon DEF StoredWereAdded, stored
  <2>4. \A l \in Logs : Range(disk[l]) \subseteq Range(disk'[l])
    <3> TAKE l \in Logs
    <3>1. Range(disk[l] \o buffer[l]) = Range(disk[l]) \cup Range(buffer[l])
      BY ContentIsStored, ConcatRange
    <3>2. disk'[l] = disk[l] \/ disk'[l] = disk[l] \o buffer[l]
      BY <2>1, Zenon DEF RecordTypes
    <3> QED
      BY <3>1, <3>2, Zenon
  <2>5. durable \subseteq durable'
    BY <2>4, Zenon DEF durable
  <2> QED
    BY <2>2, <2>3, <2>5, Zenon
<1>3. ASSUME UNCHANGED <<calls, disk>>, \A u \in Threads : pc[u] = "out" => pc'[u] = "out"
      PROVE  /\ returned \subseteq returned' /\ returned' \subseteq durable
             /\ UNCHANGED <<Added, durable>>
  <2>1. Added' = Added /\ durable' = durable
    BY <1>3 DEF Added, durable
  <2>2. returned' \subseteq durable'
    BY DEF ReturnedAreDurable, returned
  <2>3. returned \subseteq returned'
    BY <1>3 DEF returned, Records
  <2> QED
    BY <2>1, <2>2, <2>3
<1>4. CASE UNCHANGED vars
  BY <1>3, <1>4 DEF vars, logVars
<1>5. CASE Construct \/ StopServer \/ ServerPoll \/ GetLeader \/ ServerStop
  BY <1>3, <1>5 DEF Construct, StopServer, ServerPoll, GetLeader, ServerStop, logVars
<1>6. CASE ServerExchange
  <2>1. \A u \in Threads : pc[u] = "out" => pc'[u] = "out"
    BY <1>6, LoggingAssumption DEF ServerExchange, SetState, Notified, Types, Pointers
  <2> QED
    BY <1>3, <1>6, <2>1 DEF ServerExchange, logVars
<1>7. ASSUME NEW t \in Threads, Client(t), ~Sync(t)
      PROVE  UNCHANGED <<calls, disk>> /\ \A u \in Threads : pc[u] = "out" => pc'[u] = "out"
  <2>1. UNCHANGED <<calls, disk>>
    BY <1>7, Zenon DEF Client, AddToLink, AwaitSpin, AwaitLock, AwaitCV, AppendData, FreeLog,
       FinishGroup, logVars
  <2>2. CASE FinishGroup(t)
    BY <2>1, <2>2, LoggingAssumption DEF FinishGroup, Goto, SetState, Notified, Types, Pointers
  <2>3. CASE ~FinishGroup(t)
    BY <1>7, <2>1, <2>3, Zenon DEF Client, AddToLink, AwaitSpin, AwaitLock, AwaitCV, AppendData, FreeLog,
       Resume, Goto, Types
  <2> QED
    BY <2>1, <2>2, <2>3, Zenon
<1> QED
  BY <1>1, <1>2, <1>3, <1>4, <1>5, <1>6, <1>7, Zenon DEF Next, Server

(* The new record cannot be stored yet. *)
LEMMA AddLogRInv ==
  ASSUME IInv, RInv, NEW t \in Threads, AddLog(t)
  PROVE  RInv'
<1> DEFINE r == <<t, calls[t] + 1>>
<1>0. /\ pc[t] = "out" /\ calls[t] < MaxCalls
      /\ calls' = [calls EXCEPT ![t] = @ + 1]
      /\ state' = [state EXCEPT ![t] = "INIT"]
      /\ link_older' = [link_older EXCEPT ![t] = newest_writer_]
      /\ log_num' = [log_num EXCEPT ![t] = NoLog]
      /\ pc' = [pc EXCEPT ![t] = "link"]
      /\ UNCHANGED <<head, newest_writer_, buffer, disk>>
  BY DEF AddLog, Goto, logVars
<1>1. calls[t] \in Nat /\ calls[t] + 1 \in 1..MaxCalls
  BY <1>0, LoggingAssumption DEF RInv, RecordTypes
<1>a. RecordTypes
  BY Zenon DEF RInv
<1>2. Added' = Added \cup {r} /\ r \in Records \ Added
  <2>1. r \in Records /\ r \notin Added
    BY ONLY <1>1, t \in Threads DEF Added, Records
  <2>2. \A q \in Records : q[1] \in Threads /\ q[2] \in 1..MaxCalls /\ q = <<q[1], q[2]>>
    BY ONLY DEF Records
  <2>3. \A u \in Threads : calls'[u] = IF u = t THEN calls[t] + 1 ELSE calls[u]
    BY ONLY <1>0, <1>a DEF RecordTypes
  <2>4. \A i \in 1..MaxCalls : i <= calls[t] + 1 <=> i <= calls[t] \/ i = calls[t] + 1
    BY ONLY <1>1, LoggingAssumption
  <2>5. \A q \in Records : q[2] <= calls'[q[1]] <=> q[2] <= calls[q[1]] \/ q = r
    BY ONLY <2>1, <2>2, <2>3, <2>4
  <2> QED
    BY ONLY <2>1, <2>5 DEF Added
<1>3. durable' = durable /\ stored' = stored /\ buffered' = buffered
  BY <1>0 DEF durable, stored, buffered
<1>4. RecordTypes'
  BY ONLY <1>0, <1>1, <1>a, t \in Threads, LoggingAssumption DEF RecordTypes
<1>5. PlacesDiffer' /\ StoredWereAdded'
  <2>1. \A l : content(l)' = content(l)
    BY <1>0 DEF content
  <2> QED
    <3>1. PlacesDiffer /\ StoredWereAdded
      BY Zenon DEF RInv
    <3> QED
      BY ONLY <1>2, <1>3, <2>1, <3>1, SMTT(30) DEF PlacesDiffer, StoredWereAdded
<1>6. r \notin stored
  BY <1>2, Zenon DEF RInv, StoredWereAdded
<1>7. /\ newest_writer_ # t
      /\ \A u \in Threads : Follows(u) => link_older[u] # t
      /\ \A u \in Threads : Finishing(u) => head[u] # t
      /\ \A u \in Threads : pc[u] = "append" => head[u] # t
  <2>1. ~Pending(t)
    BY <1>0 DEF Pending, Waits
  <2>2. t # Null
    BY LoggingAssumption
  <2>3. \A u \in Threads : Follows(u) => link_older[u] # t
    BY <2>1, <2>2, Zenon DEF IInv, PointeesWait
  <2>4. newest_writer_ # t /\ \A u \in Threads : Finishing(u) => head[u] # t
    BY <2>1, <2>2, Zenon DEF IInv, PointeesWait
  <2>5. ASSUME NEW u \in Threads, pc[u] = "append", head[u] = t PROVE FALSE
    <3>1. u # t
      BY <1>0, <2>5
    <3>2. \E v \in Threads : Follows(v) /\ link_older[v] = head[u]
      BY <2>2, <2>5, <3>1, Zenon DEF RInv, HeadIsNext
    <3> QED
      BY <2>3, <2>5, <3>2, Zenon
  <2> QED
    BY <2>3, <2>4, <2>5, Zenon
<1>8. \A u \in Threads : u # t => /\ Record(u)' = Record(u)
                                  /\ Follows(u)' = Follows(u)
                                  /\ link_older'[u] = link_older[u]
                                  /\ pc'[u] = pc[u] /\ state'[u] = state[u]
                                  /\ log_num'[u] = log_num[u]
  BY <1>0, Zenon DEF Record, Follows, Waits, IInv, Types, RInv, RecordTypes
<1>9. pc'[t] = "link" /\ ~Follows(t)' /\ Record(t)' = r
  BY <1>0, ZenonT(40) DEF Follows, Waits, Record, IInv, Types, RInv, RecordTypes
<1>10. NotStoredYet'
  <2>1. \A u \in Threads : pc'[u] = "link" => Record(u)' \notin stored
    BY <1>6, <1>8, <1>9, Zenon DEF NotStoredYet, RInv
  <2>2. \A u \in Threads : Waits(u)' /\ state'[u] = "GROUP_LEADER" => Record(u)' \notin stored
    BY <1>8, <1>9, Zenon DEF NotStoredYet, RInv, Waits
  <2>3. /\ newest_writer_ \in Threads \cup {Null}
        /\ \A u \in Threads : head[u] \in Threads \cup {Null}
    BY Zenon DEF IInv, Types, Pointers
  <2>4. newest_writer_ # Null => Record(newest_writer_)' \notin stored
    BY <1>0, <1>7, <1>8, <2>3, Zenon DEF NotStoredYet, RInv
  <2>5. \A u \in Threads : pc'[u] = "append" /\ head[u] # Null => Record(head[u])' \notin stored
    BY <1>0, <1>7, <1>8, <1>9, <2>3, Zenon DEF NotStoredYet, RInv
  <2> QED
    BY <1>0, <1>3, <2>1, <2>2, <2>4, <2>5, Zenon DEF NotStoredYet
<1>11. WrittenDownward'
  <2> SUFFICES ASSUME NEW u \in Threads, Follows(u)', link_older'[u] # Null
               PROVE  /\ Record(u)' \in durable' => Record(link_older[u])' \in durable'
                      /\ Record(u)' \notin stored' => Record(link_older[u])' \notin stored'
                      /\ \A l \in Logs : Record(u)' \in buffered'[l] =>
                           \/ Record(link_older[u])' \in buffered'[l]
                           \/ \E v \in Threads : /\ pc'[v] = "append" /\ log_num'[v] = l
                                                 /\ head'[v] = link_older'[u]
    BY Zenon DEF WrittenDownward
  <2>1. u # t /\ Follows(u) /\ link_older'[u] = link_older[u] /\ Record(u)' = Record(u)
    BY <1>8, <1>9, Zenon
  <2>2. link_older[u] \in Threads
    BY <2>1, Zenon DEF IInv, Types, Pointers
  <2>3. Record(link_older[u])' = Record(link_older[u])
    <3>1. calls'[link_older[u]] = calls[link_older[u]]
      BY <1>7, <1>8, <2>1, <2>2 DEF Record
    <3> QED
      BY <2>1, <3>1, Zenon DEF Record
  <2>4. pc[t] # "append" /\ WrittenDownward /\ head' = head
    BY <1>0 DEF RInv
  <2> QED
    BY <1>3, <1>8, <2>1, <2>3, <2>4, BelowKept, Zenon
<1>12. HeadIsNext'
  <2>1. ~Follows(t)
    BY <1>0, ZenonT(40) DEF Follows, Waits
  <2> QED
    BY <1>0, <1>3, <1>8, <1>9, <2>1, HeadsKept, Zenon DEF RInv
<1>13. ToldAreDurable'
  BY <1>0, <1>3, <1>7, <1>8, <1>9 DEF ToldAreDurable, Finishing, Waits, RInv, IInv, Types, Pointers
<1>14. ReturnedAreDurable'
  <2>1. ReturnedAreDurable /\ \A u \in Threads : /\ calls'[u] = IF u = t THEN calls[t] + 1 ELSE calls[u]
                                                 /\ pc'[u] = IF u = t THEN "link" ELSE pc[u]
    BY <1>0, Zenon DEF RInv, IInv, Types, RecordTypes
  <2>2. \A q \in Records : q[1] \in Threads /\ q[2] \in Nat
    BY ONLY LoggingAssumption, SMTT(30) DEF Records
  <2> QED
    BY ONLY <1>0, <1>1, <1>3, <2>1, <2>2, SMTT(30) DEF ReturnedAreDurable
<1> QED
  BY <1>4, <1>5, <1>10, <1>11, <1>12, <1>13, <1>14 DEF RInv

(* A writer that is pushed is above one that is not written either. *)
LEMMA AddToLinkRInv ==
  ASSUME IInv, RInv, NEW t \in Threads, AddToLink(t)
  PROVE  RInv'
<1> USE DEF IInv, RInv
<1>0. /\ pc[t] = "link" /\ state[t] = "INIT"
      /\ \/ /\ link_older[t] = newest_writer_ /\ newest_writer_' = t
            /\ pc' = [pc EXCEPT ![t] = "await"] /\ UNCHANGED link_older
         \/ /\ link_older' = [link_older EXCEPT ![t] = newest_writer_]
            /\ UNCHANGED <<newest_writer_, pc>>
      /\ UNCHANGED <<calls, state, log_num, head, buffer, disk>>
  BY Zenon DEF AddToLink, Goto, LinkIsCurrent, logVars, StatesAgree
<1>1. /\ durable' = durable /\ stored' = stored /\ buffered' = buffered
      /\ RecordTypes' /\ PlacesDiffer' /\ StoredWereAdded'
  BY <1>0, SameRecords, Zenon DEF Types
<1>2. NotStoredYet'
  BY <1>0, <1>1 DEF NotStoredYet, Waits, Record, Types
<1>3. \A u \in Threads : u # t => /\ Follows(u)' = Follows(u)
                                  /\ link_older'[u] = link_older[u] /\ pc'[u] = pc[u]
  BY <1>0, Zenon DEF Follows, Waits, Types
<1>4. Record(t) \notin stored /\ ~Follows(t)
      /\ (Follows(t)' => link_older'[t] = newest_writer_)
  BY <1>0 DEF NotStoredYet, Follows, Waits, Types
<1>5. WrittenDownward'
  <2>1. durable \subseteq stored /\ \A l \in Logs : buffered[l] \subseteq stored
    BY Zenon DEF durable, stored, buffered
  <2> SUFFICES ASSUME NEW u \in Threads, Follows(u)', link_older'[u] # Null
               PROVE  /\ Record(u)' \in durable' => Record(link_older[u])' \in durable'
                      /\ Record(u)' \notin stored' => Record(link_older[u])' \notin stored'
                      /\ \A l \in Logs : Record(u)' \in buffered'[l] =>
                           \/ Record(link_older[u])' \in buffered'[l]
                           \/ \E v \in Threads : /\ pc'[v] = "append" /\ log_num'[v] = l
                                                 /\ head'[v] = link_older'[u]
    BY DEF WrittenDownward
  <2>2. CASE u = t
    BY <1>0, <1>1, <1>4, <2>1, <2>2, ZenonT(40) DEF NotStoredYet, Record
  <2>3. CASE u # t
    <3>1. /\ Follows(u) /\ link_older'[u] = link_older[u] /\ Record(u)' = Record(u)
          /\ Record(link_older[u])' = Record(link_older[u])
      BY <1>0, <1>3, <2>3, Zenon DEF Record
    <3>2. pc[t] # "append" /\ head' = head /\ log_num' = log_num
      BY <1>0
    <3> QED
      BY <1>1, <1>3, <2>3, <3>1, <3>2, BelowKept, Zenon
  <2> QED
    BY <2>2, <2>3, Zenon
<1>6. HeadIsNext'
  <2>1. \A u \in Threads : Record(u)' = Record(u) /\ (pc'[u] = "append" => u # t)
    BY <1>0, Zenon DEF Record, Types
  <2> QED
    BY <1>0, <1>1, <1>3, <1>4, <2>1, HeadsKept, Zenon
<1>7. ToldAreDurable'
  BY <1>0, <1>1, <1>3, ZenonT(40) DEF ToldAreDurable, Finishing, Waits, Record, Types
<1>8. ReturnedAreDurable'
  BY <1>0, <1>1 DEF ReturnedAreDurable, Types, Records
<1> QED
  BY <1>1, <1>2, <1>5, <1>6, <1>7, <1>8, Zenon

(* Steps that leave the links, the heads and the records alone: the        *)
(* server's, and a writer that locks its state or falls asleep.            *)
LEMMA AsideRInv ==
  ASSUME IInv, RInv,
         UNCHANGED <<calls, link_older, log_num, head, newest_writer_, buffer, disk>>,
         \A u \in Threads : \/ pc'[u] = pc[u] /\ state'[u] = state[u]
                            \/ /\ Waits(u) /\ Waits(u)' /\ ~Awaited(u)
                               /\ state'[u] \in {state[u], "LOCKED_WAITING"}
  PROVE  RInv'
<1>1. \A u \in Threads : /\ Follows(u)' = Follows(u)
                         /\ pc'[u] = pc[u] \/ (Waits(u) /\ Waits(u)')
                         /\ Awaited(u)' => state'[u] = state[u] /\ Waits(u)' = Waits(u)
  BY Zenon DEF Follows, Waits, Awaited
<1>2. \A u \in Threads : /\ Finishing(u)' = Finishing(u) /\ Record(head'[u]) = Record(head[u])
                         /\ pc'[u] # pc[u] => pc'[u] \in {"await", "mutex", "asleep"}
                                              /\ pc[u] \in {"await", "mutex", "asleep"}
  BY <1>1, Zenon DEF Finishing, Waits
<1> QED
  BY <1>1, <1>2, KeptRInv, ZenonT(40) DEF RInv, NotStoredYet, ToldAreDurable, Awaited

(* AddLog goes on behind AwaitState: what is below the new leader hangs    *)
(* below nothing that is written, and who returns is durable.              *)
LEMMA ResumeRInv ==
  ASSUME IInv, RInv, NEW t \in Threads, Waits(t), Awaited(t), Resume(t),
         UNCHANGED <<calls, state, link_older, log_num, newest_writer_, buffer, disk>>
  PROVE  RInv'
<1> USE DEF IInv, RInv
<1>1. /\ durable' = durable /\ stored' = stored /\ buffered' = buffered
      /\ RecordTypes' /\ PlacesDiffer' /\ StoredWereAdded'
  BY SameRecords DEF Types, Resume, Goto, Waits
<1>2. \A u \in Threads : Record(u)' = Record(u)
  BY DEF Record
<1>3. \A u \in Threads : u # t => pc'[u] = pc[u] /\ head'[u] = head[u]
  BY Zenon DEF Resume, Goto, Types
<1>4. \A u \in Threads : Follows(u)' = Follows(u)
  BY DEF Resume, Goto, Follows, Waits, Awaited, Types
<1>5. CASE state[t] = "COMPLETED"
  <2>1. pc'[t] = "out" /\ head'[t] = Null /\ Record(t) \in durable
    BY <1>5 DEF Resume, Goto, Types, ToldAreDurable
  <2>2. \A u \in Threads : u # t /\ Waits(u)' => Waits(u)
    BY <1>3, ZenonT(40) DEF Waits
  <2>3. \A u \in Threads : u # t => (Finishing(u)' = Finishing(u)) /\ state'[u] = state[u]
    BY <1>3 DEF Finishing
  <2>4. ~Waits(t)' /\ ~Finishing(t)' /\ pc[t] \notin {"link", "append", "out"}
    BY <2>1 DEF Waits, Finishing
  <2> QED
    BY <1>3, <1>4, <2>1, <2>2, <2>3, <2>4, KeptRInv, ZenonT(40) DEF NotStoredYet, ToldAreDurable
<1>6. CASE state[t] = "GROUP_LEADER"
  <2>1. pc'[t] = "append" /\ head'[t] = t /\ Record(t) \notin stored
    BY <1>6 DEF Resume, Goto, Types, NotStoredYet
  <2>2. NotStoredYet'
    BY <1>1, <1>2, <1>3, <2>1, Zenon DEF NotStoredYet, Waits, Record
  <2>3. WrittenDownward'
    <3>1. \A u \in Threads : pc[u] = "append" =>
             pc'[u] = "append" /\ head'[u] = head[u] /\ log_num'[u] = log_num[u]
      BY <1>3, Zenon DEF Waits
    <3> QED
      BY <1>1, <1>4, <3>1, DownwardKept, ZenonT(40)
  <2>4. HeadIsNext'
    <3>1. \A u \in Threads : Follows(u) => link_older[u] # t
      BY <1>6, LoggingAssumption, Zenon DEF PointeesWait, Pending
    <3>2. \A u \in Threads : u # t /\ pc[u] = "append" => head[u] # t
      BY <3>1, LoggingAssumption, Zenon DEF HeadIsNext
    <3>3. \A w, u \in Threads : w # u /\ pc'[w] = "append" /\ pc'[u] = "append"
                                /\ head'[w] # Null => head'[w] # head'[u]
      <4>1. ASSUME NEW w \in Threads, NEW u \in Threads, w # t, u # t, w # u,
                   pc'[w] = "append", pc'[u] = "append", head'[w] # Null
            PROVE  head'[w] # head'[u]
        BY <1>3, <4>1, ZenonT(40) DEF HeadIsNext
      <4>2. \A u \in Threads : u # t /\ pc'[u] = "append" => head'[u] # head'[t]
        BY <1>3, <2>1, <3>2, Zenon
      <4> QED
        BY <4>1, <4>2, Zenon
    <3>4. \A w \in Threads : pc'[w] = "append" /\ head'[w] # w =>
             Record(w)' \in buffered'[log_num'[w]]
      BY <1>1, <1>2, <1>3, <2>1, Zenon DEF HeadIsNext
    <3>5. ASSUME NEW w \in Threads, pc'[w] = "append", head'[w] \notin {w, Null}
          PROVE  \E u \in Threads : /\ Follows(u)' /\ link_older'[u] = head'[w]
                                    /\ Record(u)' \in buffered'[log_num'[w]]
      BY <3>5, <1>1, <1>2, <1>3, <1>4, <2>1, ZenonT(40) DEF HeadIsNext
    <3> QED
      BY <3>3, <3>4, <3>5, ZenonT(40) DEF HeadIsNext
  <2>5. ToldAreDurable'
    BY <1>1, <1>3, <2>1, Zenon DEF ToldAreDurable, Finishing, Waits, Record
  <2>6. ReturnedAreDurable'
    BY <1>1, <1>3, <2>1, Zenon DEF ReturnedAreDurable, Records
  <2> QED
    BY <1>1, <2>2, <2>3, <2>4, <2>5, <2>6
<1> QED
  BY <1>5, <1>6, Zenon DEF Awaited

(* A writer falls asleep, or goes on, behind its mutex. *)
LEMMA AwaitCVRInv ==
  ASSUME IInv, RInv, NEW t \in Threads, AwaitCV(t)
  PROVE  RInv'
<1>1. CASE Awaited(t)
  BY <1>1, ResumeRInv DEF AwaitCV, Waits, logVars
<1>2. CASE ~Awaited(t)
  BY <1>2, AsideRInv DEF AwaitCV, Goto, logVars, Waits, IInv, Types
<1> QED
  BY <1>1, <1>2

(* The leader's record and all below it are durable. *)
LEMMA FreeLogRInv ==
  ASSUME IInv, RInv, NEW t \in Threads, FreeLog(t)
  PROVE  RInv'
<1> USE DEF IInv, RInv
<1>0. /\ pc[t] = "free" /\ head' = [head EXCEPT ![t] = link_older[t]]
      /\ pc' = [pc EXCEPT ![t] = "finish"]
      /\ UNCHANGED <<calls, state, link_older, log_num, newest_writer_, buffer, disk>>
  BY Zenon DEF FreeLog, Goto, logVars
<1>1. /\ durable' = durable /\ stored' = stored /\ buffered' = buffered
      /\ RecordTypes' /\ PlacesDiffer' /\ StoredWereAdded'
  BY <1>0, SameRecords DEF Types
<1>2. \A u \in Threads : u # t => /\ pc'[u] = pc[u] /\ head'[u] = head[u]
                                  /\ Follows(u)' = Follows(u)
  BY <1>0 DEF Follows, Waits, Types
<1>3. /\ pc'[t] = "finish" /\ head'[t] = link_older[t] /\ Follows(t) /\ ~Follows(t)'
      /\ Record(t) \in durable
  BY <1>0, Zenon DEF Follows, Waits, Types, ToldAreDurable
<1>4. \A u \in Threads : Record(u)' = Record(u)
  BY <1>0, Zenon DEF Record
<1>5. link_older[t] # Null => Record(link_older[t]) \in durable
  BY <1>3, ZenonT(40) DEF WrittenDownward
<1>6. \A u \in Threads : u # t => (Waits(u)' = Waits(u)) /\ (Finishing(u)' = Finishing(u))
  BY <1>2, Zenon DEF Waits, Finishing
<1>7. ~Waits(t)' /\ (Finishing(t)' => head'[t] # Null)
  BY <1>3 DEF Waits, Finishing
<1> QED
  BY <1>0, <1>2, <1>3, <1>5, <1>6, <1>7, KeptRInv, Zenon DEF NotStoredYet, ToldAreDurable

(* The completed writer is durable, and so is the next one. *)
LEMMA FinishGroupRInv ==
  ASSUME IInv, RInv, NEW t \in Threads, FinishGroup(t)
  PROVE  RInv'
<1> USE DEF IInv, RInv
<1>0. /\ pc[t] = "finish" /\ Record(t) \in durable
      /\ UNCHANGED <<calls, link_older, log_num, newest_writer_, buffer, disk>>
  BY Zenon DEF FinishGroup, logVars, ToldAreDurable
<1>1. \A u \in Threads : Record(u)' = Record(u)
  BY <1>0, Zenon DEF Record
<1>2. CASE head[t] = Null
  <2>0. pc' = [pc EXCEPT ![t] = "out"] /\ UNCHANGED <<state, head>>
    BY <1>2, Zenon DEF FinishGroup, Goto
  <2>1. \A u \in Threads : u # t => pc'[u] = pc[u] /\ (Waits(u)' = Waits(u))
                                     /\ (Follows(u)' = Follows(u)) /\ (Finishing(u)' = Finishing(u))
    BY <2>0 DEF Types, Waits, Follows, Finishing
  <2>2. pc'[t] = "out" /\ ~Waits(t)' /\ ~Follows(t)' /\ ~Follows(t) /\ ~Finishing(t)'
    BY <1>0, <2>0 DEF Types, Waits, Follows, Finishing
  <2> QED
    BY <1>0, <2>0, <2>1, <2>2, KeptRInv, ZenonT(40) DEF NotStoredYet, ToldAreDurable
<1>3. CASE head[t] # Null
  <2>0. PICK w \in Threads : /\ w = head[t] /\ Waits(w) /\ Follows(w) /\ w # t
                             /\ state[w] # "GROUP_LEADER" /\ Record(w) \in durable
    BY <1>0, <1>3 DEF Types, Pointers, PointeesWait, Pending, Finishing, Waits, Follows,
       ToldAreDurable
  <2>1. /\ head' = [head EXCEPT ![t] = link_older[w]]
        /\ state' = [state EXCEPT ![w] = "COMPLETED"]
        /\ pc' = Notified(w, pc)
    BY <1>3, <2>0, Zenon DEF FinishGroup, SetState
  <2>2. /\ \A u \in Threads : u # w => pc'[u] = pc[u] /\ state'[u] = state[u]
        /\ pc'[w] \in {"await", "mutex", "asleep"} /\ state'[w] = "COMPLETED"
        /\ \A u \in Threads : u # t => head'[u] = head[u]
        /\ head'[t] = link_older[w] /\ pc'[t] = "finish"
    BY <1>0, <2>0, <2>1 DEF Notified, Waits, Types
  <2>3. link_older[w] # Null => Record(link_older[w]) \in durable
    BY <2>0, Zenon DEF WrittenDownward
  <2>4. /\ \A u \in Threads : u # w => (Follows(u)' = Follows(u)) /\ (Waits(u)' = Waits(u))
        /\ ~Follows(w)' /\ Waits(w)' /\ ~Finishing(w)'
        /\ \A u \in Threads : u # t /\ u # w => (Finishing(u)' = Finishing(u))
        /\ Finishing(t)' => head'[t] # Null
    BY <2>0, <2>2, Zenon DEF Follows, Waits, Finishing
  <2>5. pc[w] \in {"await", "mutex", "asleep"}
    BY <2>0, Zenon DEF Waits
  <2> QED
    BY <1>0, <2>0, <2>2, <2>3, <2>4, <2>5, KeptRInv, ZenonT(40) DEF NotStoredYet, ToldAreDurable
<1> QED
  BY <1>2, <1>3, ZenonT(40)

(* The new leader has not been written. *)
LEMMA ServerExchangeRInv ==
  ASSUME IInv, RInv, ServerExchange
  PROVE  RInv'
<1> USE DEF IInv, RInv
<1> DEFINE w == newest_writer_
<1>0. /\ newest_writer_' = Null
      /\ UNCHANGED <<calls, link_older, head, buffer, disk>>
  BY Zenon DEF ServerExchange, logVars
<1>1. /\ \A u \in Threads : Record(u)' = Record(u)
      /\ \A u \in Threads : u # w =>
           pc'[u] = pc[u] /\ state'[u] = state[u] /\ log_num'[u] = log_num[u]
      /\ w # Null => /\ w \in Threads /\ Waits(w) /\ Follows(w)
                     /\ Record(w) \notin stored
                     /\ pc'[w] \in {"await", "mutex", "asleep"}
                     /\ state'[w] = "GROUP_LEADER"
  <2>1. CASE w = Null
    BY <1>0, <2>1, Zenon DEF ServerExchange, Record
  <2>2. CASE w # Null
    <3>1. w \in Threads /\ Waits(w) /\ Follows(w) /\ Record(w) \notin stored
      BY <2>2 DEF Types, Pointers, PointeesWait, Pending, Follows, NotStoredYet
    <3>2. /\ log_num' = [log_num EXCEPT ![w] = target]
          /\ state' = [state EXCEPT ![w] = "GROUP_LEADER"]
          /\ pc' = Notified(w, pc)
      BY <2>2 DEF ServerExchange, SetState
    <3> QED
      BY <1>0, <3>1, <3>2, Zenon DEF Record, Notified, Waits, Types
  <2> QED
    BY <2>1, <2>2, Zenon
<1>2. \A u \in Threads : u # w =>
        (Follows(u)' = Follows(u)) /\ (Waits(u)' = Waits(u)) /\ (Finishing(u)' = Finishing(u))
  BY <1>0, <1>1 DEF Follows, Waits, Finishing
<1>3. \A u \in Threads : u = w => /\ Follows(u)' /\ Follows(u) /\ Waits(u)' /\ ~Finishing(u)'
                                  /\ pc[u] \in {"await", "mutex", "asleep"}
                                  /\ pc'[u] \in {"await", "mutex", "asleep"}
                                  /\ state'[u] = "GROUP_LEADER" /\ Record(u) \notin stored
  BY <1>1, LoggingAssumption, Zenon DEF Follows, Waits, Finishing
<1> HIDE DEF w
<1>4. \A u \in Threads : u # w /\ Finishing(u)' => Record(head'[u]) \in durable
  BY <1>0, <1>2 DEF ToldAreDurable
<1> QED
  BY <1>0, <1>1, <1>2, <1>3, <1>4, KeptRInv, Zenon DEF NotStoredYet, ToldAreDurable

(* Every step of clients and server keeps the records in order. *)
LEMMA NextRInv == IInv /\ RInv /\ [Next]_vars => RInv'
<1> SUFFICES ASSUME IInv, RInv, [Next]_vars PROVE RInv'
  OBVIOUS
<1>1. CASE UNCHANGED vars
  BY <1>1, AsideRInv, ZenonT(40) DEF vars, writerVars, logVars
<1>2. CASE Construct \/ StopServer \/ ServerPoll \/ GetLeader \/ ServerStop
  BY <1>2, AsideRInv DEF Construct, StopServer, ServerPoll, GetLeader, ServerStop, writerVars,
     logVars
<1>3. CASE ServerExchange
  BY <1>3, ServerExchangeRInv
<1>4. ASSUME NEW t \in Threads, AddLog(t) \/ Client(t)
      PROVE  RInv'
  <2>1. CASE AddLog(t)
    BY <2>1, AddLogRInv
  <2>2. CASE AddToLink(t)
    BY <2>2, AddToLinkRInv
  <2>3. CASE AwaitSpin(t)
    BY <2>3, ResumeRInv, Zenon DEF AwaitSpin, Waits, Awaited, logVars
  <2>4. CASE AwaitLock(t)
    BY <2>4, AsideRInv DEF AwaitLock, Goto, logVars, Waits, Awaited, IInv, Types
  <2>5. CASE AwaitCV(t)
    BY <2>5, AwaitCVRInv
  <2>6. CASE AppendData(t)
    BY <2>6, AppendDataRInv
  <2>7. CASE Sync(t)
    BY <2>7, SyncRInv
  <2>8. CASE FreeLog(t)
    BY <2>8, FreeLogRInv
  <2>9. CASE FinishGroup(t)
    BY <2>9, FinishGroupRInv
  <2> QED
    BY <1>4, <2>1, <2>2, <2>3, <2>4, <2>5, <2>6, <2>7, <2>8, <2>9 DEF Client
<1> QED
  BY <1>1, <1>2, <1>3, <1>4 DEF Next, Server

(* Both invariants hold in every reachable state. *)
LEMMA RInvHolds == Spec => [](IInv /\ RInv)
<1>1. Init => IInv /\ RInv
  BY InitIInv, InitRInv
<1>2. IInv /\ RInv /\ [Next]_vars => (IInv /\ RInv)'
  BY NextIInv, NextRInv
<1> QED
  BY <1>1, <1>2, PTL DEF Spec

(* No record is written twice, however the groups are cut from a stack     *)
(* that grows meanwhile.                                                   *)
THEOREM RecordsAreStoredOnce == Spec => []StoredOnce
<1>1. IInv /\ RInv => StoredOnce
  BY Zenon DEF RInv, PlacesDiffer, content, StoredOnce
<1> QED
  BY <1>1, RInvHolds, PTL

(* The group commit implements LogService: a record is stored once, and    *)
(* the AddLog that adds it returns only when it is on the device.          *)
THEOREM GroupCommitImplementsLogService == Spec => ImplementsLogService
<1>1. Init => Service!Init
  <2>1. Init => Added = {} /\ durable = {} /\ returned = {}
    BY DEF Init, Added, durable, returned, Records, Range
  <2> QED
    BY <2>1, Zenon DEF Service!Init, durable, returned
<1>2. (IInv /\ RInv) /\ (IInv /\ RInv)' /\ [Next]_vars => [Service!Next]_(Service!svars)
  BY StepIsService, Zenon DEF Service!Next, Service!Add, Service!Persist, Service!Ack, Service!svars,
     durable, returned
<1> QED
  BY <1>1, <1>2, RInvHolds, PTL DEF Spec, ImplementsLogService, Service!Spec

=============================================================================
