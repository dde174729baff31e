------------------------ MODULE LoggingServerProofs ------------------------
(* The group commit for any number of threads, logs and calls: a log has   *)
(* one leader at a time, only writers that still wait are completed, and   *)
(* whoever waits has exactly one leader that will get to it.               *)
(*                                                                         *)
(* The first argument is about the pointers to writers.  LogIsExclusive    *)
(* needs that FinishGroup completes no leader, for a leader that lost its  *)
(* state would still write to its log.  That follows because every pointer *)
(* that is still to be followed leads to a writer that waits, and no two   *)
(* of them to the same: each action hands its pointer on.  The second is   *)
(* about the links: they have no circle, so each waiting writer is linked  *)
(* to from one root.                                                       *)
EXTENDS LoggingServer, TLAPS

(* The seconds a prover has for a step. *)
USE SMTT(30), ZenonT(30)

(* What the proofs use of TypeOK; how many calls there are does not matter. *)
Types ==
  /\ pc \in [Threads -> {"out", "link", "await", "mutex", "asleep", "append",
                         "free", "finish"}]
  /\ state \in [Threads -> States]
  /\ link_older \in [Threads -> Pointers]
  /\ log_num \in [Threads -> Logs \cup {NoLog}]
  /\ head \in [Threads -> Pointers]
  /\ newest_writer_ \in Pointers
  /\ log_free_ \in [Logs -> BOOLEAN]
  /\ spc \in {"poll", "leader", "exchange", "stop", "exited"}
  /\ target \in Logs
  /\ buffer = [l \in Logs |-> buffer[l]]

Pending(w) == Waits(w) /\ state[w] \in {"INIT", "LOCKED_WAITING"}

(* link_older[u] is still to be followed.                                  *)
Follows(u) == pc[u] \in {"append", "free"} \/ (Waits(u) /\ state[u] # "COMPLETED")
Finishing(t) == pc[t] = "finish" /\ head[t] # Null

(* Whoever is still to be followed waits.                                  *)
PointeesWait ==
  /\ newest_writer_ # Null => Pending(newest_writer_)
  /\ \A u \in Threads : Follows(u) /\ link_older[u] # Null => Pending(link_older[u])
  /\ \A t \in Threads : Finishing(t) => Pending(head[t])

(* No writer is pointed to twice.                                          *)
StackTopOnce ==
  newest_writer_ # Null =>
    /\ \A u \in Threads : Follows(u) => link_older[u] # newest_writer_
    /\ \A t \in Threads : Finishing(t) => head[t] # newest_writer_
LinksDiffer ==
  \A u, v \in Threads :
    u # v /\ Follows(u) /\ Follows(v) /\ link_older[u] # Null => link_older[u] # link_older[v]
HeadsDiffer ==
  /\ \A t, u \in Threads : Finishing(t) /\ Follows(u) => head[t] # link_older[u]
  /\ \A t, u \in Threads : t # u /\ Finishing(t) /\ Finishing(u) => head[t] # head[u]

(* The state of a writer agrees with where its thread is.                  *)
StatesAgree ==
  /\ \A t \in Threads : pc[t] = "link" => state[t] = "INIT"
  /\ \A t \in Threads : pc[t] \in {"append", "free"} => state[t] = "GROUP_LEADER"

(* What LogIsExclusive says, with the log the server has just taken.       *)
LogsTaken ==
  /\ \A t \in Threads : Leads(t) =>
       /\ log_num[t] \in Logs /\ log_free_[log_num[t]]
       /\ spc = "exchange" => target # log_num[t]
  /\ \A t, u \in Threads : t # u /\ Leads(t) /\ Leads(u) => log_num[u] # log_num[t]
  /\ spc = "exchange" => log_free_[target]
BuffersEmpty ==
  /\ \A l \in Logs : ~log_free_[l] => buffer[l] = <<>>
  /\ spc = "exchange" => buffer[target] = <<>>
  /\ \A t \in Threads : pc[t] = "free" => buffer[log_num[t]] = <<>>

IInv ==
  /\ Types /\ PointeesWait /\ StackTopOnce /\ LinksDiffer /\ HeadsDiffer
  /\ StatesAgree /\ LogsTaken /\ BuffersEmpty

(* The constructor leaves the stack empty and every log free. *)
LEMMA InitIInv == Init => IInv
<1> SUFFICES ASSUME Init PROVE IInv
  OBVIOUS
<1>1. Types
  BY LoggingAssumption DEF Init, Types, States, Pointers, Logs
<1>2. PointeesWait /\ StackTopOnce /\ LinksDiffer /\ HeadsDiffer
  BY DEF Init, PointeesWait, StackTopOnce, LinksDiffer, HeadsDiffer, Waits,
     Follows, Finishing
<1>3. StatesAgree /\ LogsTaken /\ BuffersEmpty
  BY LoggingAssumption DEF Init, StatesAgree, LogsTaken, BuffersEmpty, Leads
<1> QED
  BY <1>1, <1>2, <1>3 DEF IInv

(* A thread that is outside is not pointed to; its link is not to be *)
(* followed yet. *)
LEMMA AddLogIInv ==
  ASSUME IInv, NEW t \in Threads, AddLog(t)
  PROVE  IInv'
<1> USE LoggingAssumption DEF IInv, AddLog, Goto, writerVars, serverVars,
        logVars
<1>1. Types'
  BY DEF Types, States
<1>2. PointeesWait'
  BY DEF PointeesWait, Waits, Follows, Finishing, Pending
<1>3. StackTopOnce'
  BY DEF StackTopOnce, Waits, Follows, Finishing
<1>4. LinksDiffer'
  BY DEF LinksDiffer, Waits, Follows
<1>5. HeadsDiffer'
  BY DEF HeadsDiffer, Waits, Follows, Finishing
<1>6. StatesAgree'
  BY DEF StatesAgree, Types
<1>7. LogsTaken'
  BY DEF LogsTaken, Leads, Waits
<1>8. BuffersEmpty'
  BY DEF BuffersEmpty
<1> QED
  BY <1>1, <1>2, <1>3, <1>4, <1>5, <1>6, <1>7, <1>8, SMTT(20)

(* The new top takes over the pointer to the old one. *)
LEMMA AddToLinkIInv ==
  ASSUME IInv, NEW t \in Threads, AddToLink(t)
  PROVE  IInv'
<1> USE LoggingAssumption DEF IInv, AddToLink, Goto, LinkIsCurrent, writerVars,
        serverVars, logVars
<1>1. Types'
  <2>1. CASE LinkIsCurrent(t)
    BY <2>1 DEF Types, Pointers
  <2>2. CASE ~LinkIsCurrent(t)
    BY <2>2 DEF Types
  <2> QED
    BY <2>1, <2>2
<1>2. PointeesWait'
  BY DEF PointeesWait, Waits, Follows, Finishing, Pending, Types, StatesAgree,
     StackTopOnce, Pointers
<1>3. StackTopOnce'
  BY DEF StackTopOnce, Waits, Follows, Finishing, Types, PointeesWait, Pending
<1>4. LinksDiffer'
  BY DEF LinksDiffer, Waits, Follows, Types, PointeesWait, Pending, Pointers,
     StackTopOnce
<1>5. HeadsDiffer'
  BY DEF HeadsDiffer, Waits, Follows, Finishing, Types, PointeesWait, Pending,
     Pointers, StackTopOnce
<1>6. StatesAgree'
  BY DEF StatesAgree, Types
<1>7. LogsTaken'
  BY DEF LogsTaken, Leads, Waits, Types, StatesAgree
<1>8. BuffersEmpty'
  BY DEF BuffersEmpty, Types
<1> QED
  BY <1>1, <1>2, <1>3, <1>4, <1>5, <1>6, <1>7, <1>8, SMTT(20)

(* A leader goes on with its log, a completed writer returns. *)
LEMMA AwaitSpinIInv ==
  ASSUME IInv, NEW t \in Threads, AwaitSpin(t)
  PROVE  IInv'
<1> USE LoggingAssumption DEF IInv, AwaitSpin, Goto, Resume, Awaited,
        writerVars, serverVars, logVars
<1>1. Types'
  BY DEF Types, Pointers
<1>2. PointeesWait'
  BY DEF PointeesWait, Waits, Follows, Finishing, Pending
<1>3. StackTopOnce'
  BY DEF StackTopOnce, Waits, Follows, Finishing
<1>4. LinksDiffer'
  BY DEF LinksDiffer, Waits, Follows
<1>5. HeadsDiffer'
  BY DEF HeadsDiffer, Waits, Follows, Finishing
<1>6. StatesAgree'
  BY DEF StatesAgree
<1>7. LogsTaken'
  BY DEF LogsTaken, Leads, Waits
<1>8. BuffersEmpty'
  BY DEF BuffersEmpty
<1> QED
  BY <1>1, <1>2, <1>3, <1>4, <1>5, <1>6, <1>7, <1>8, SMTT(20)

(* A writer that locks itself in still waits. *)
LEMMA AwaitLockIInv ==
  ASSUME IInv, NEW t \in Threads, AwaitLock(t)
  PROVE  IInv'
<1> USE LoggingAssumption DEF IInv, AwaitLock, Goto, writerVars, serverVars,
        logVars
<1>1. Types'
  BY DEF Types, States
<1>2. PointeesWait'
  BY DEF PointeesWait, Waits, Follows, Finishing, Pending
<1>3. StackTopOnce'
  BY DEF StackTopOnce, Waits, Follows, Finishing
<1>4. LinksDiffer'
  BY DEF LinksDiffer, Waits, Follows
<1>5. HeadsDiffer'
  BY DEF HeadsDiffer, Waits, Follows, Finishing
<1>6. StatesAgree'
  BY DEF StatesAgree
<1>7. LogsTaken'
  BY DEF LogsTaken, Leads, Waits
<1>8. BuffersEmpty'
  BY DEF BuffersEmpty
<1> QED
  BY <1>1, <1>2, <1>3, <1>4, <1>5, <1>6, <1>7, <1>8, SMTT(20)

(* The same behind the mutex; a writer that falls asleep waits. *)
LEMMA AwaitCVIInv ==
  ASSUME IInv, NEW t \in Threads, AwaitCV(t)
  PROVE  IInv'
<1> USE LoggingAssumption DEF IInv, AwaitCV, Goto, Resume, Awaited, writerVars,
        serverVars, logVars
<1>1. Types'
  <2>1. CASE Awaited(t)
    BY <2>1 DEF Types, Pointers
  <2>2. CASE ~Awaited(t)
    BY <2>2 DEF Types
  <2> QED
    BY <2>1, <2>2
<1>2. PointeesWait'
  BY DEF PointeesWait, Waits, Follows, Finishing, Pending, Types, Pointers
<1>3. StackTopOnce'
  BY DEF StackTopOnce, Waits, Follows, Finishing, Types
<1>4. LinksDiffer'
  BY DEF LinksDiffer, Waits, Follows, Types
<1>5. HeadsDiffer'
  BY DEF HeadsDiffer, Waits, Follows, Finishing, Types
<1>6. StatesAgree'
  BY DEF StatesAgree, Types
<1>7. LogsTaken'
  BY DEF LogsTaken, Leads, Waits, Types
<1>8. BuffersEmpty'
  <2>1. \A u \in Threads : pc'[u] = "free" => pc[u] = "free"
    BY DEF Types
  <2> QED
    BY <2>1 DEF BuffersEmpty
<1> QED
  BY <1>1, <1>2, <1>3, <1>4, <1>5, <1>6, <1>7, <1>8

(* Only the log of the leader, which is taken, gets data. *)
LEMMA AppendDataIInv ==
  ASSUME IInv, NEW t \in Threads, AppendData(t)
  PROVE  IInv'
<1> USE LoggingAssumption DEF IInv, AppendData, WriteToLog, writerVars,
        serverVars, logVars
<1>1. Types'
  BY Zenon DEF Types, Pointers
<1>2. PointeesWait'
  BY DEF PointeesWait, Waits, Follows, Finishing, Pending
<1>3. StackTopOnce'
  BY DEF StackTopOnce, Waits, Follows, Finishing
<1>4. LinksDiffer'
  BY DEF LinksDiffer, Waits, Follows
<1>5. HeadsDiffer'
  BY DEF HeadsDiffer, Waits, Follows, Finishing
<1>6. StatesAgree'
  BY DEF StatesAgree
<1>7. LogsTaken'
  BY DEF LogsTaken, Leads, Waits
<1>8. BuffersEmpty'
  <2>1. /\ log_num[t] \in Logs /\ log_free_[log_num[t]]
        /\ spc = "exchange" => target # log_num[t]
        /\ \A u \in Threads : pc[u] = "free" => log_num[u] \in Logs /\ log_num[u] # log_num[t]
    BY DEF LogsTaken, Leads, StatesAgree
  <2>2. \A l \in Logs : l # log_num[t] => buffer'[l] = buffer[l]
    BY <2>1 DEF Types
  <2>3. UNCHANGED <<pc, log_num, log_free_, spc, target>> /\ target \in Logs
    BY DEF Types
  <2> HIDE DEF AppendData
  <2> QED
    BY <2>1, <2>2, <2>3 DEF BuffersEmpty
<1> QED
  BY <1>1, <1>2, <1>3, <1>4, <1>5, <1>6, <1>7, <1>8, SMTT(20)

(* The buffer of the log starts over. *)
LEMMA SyncIInv ==
  ASSUME IInv, NEW t \in Threads, Sync(t)
  PROVE  IInv'
<1> USE LoggingAssumption DEF IInv, Sync, Goto, AfterSync, writerVars,
        serverVars, logVars
<1>1. Types'
  BY DEF Types
<1>2. PointeesWait'
  BY DEF PointeesWait, Waits, Follows, Finishing, Pending
<1>3. StackTopOnce'
  BY DEF StackTopOnce, Waits, Follows, Finishing
<1>4. LinksDiffer'
  BY DEF LinksDiffer, Waits, Follows
<1>5. HeadsDiffer'
  BY DEF HeadsDiffer, Waits, Follows, Finishing
<1>6. StatesAgree'
  BY DEF StatesAgree
<1>7. LogsTaken'
  BY DEF LogsTaken, Leads, Waits
<1>8. BuffersEmpty'
  BY Zenon DEF BuffersEmpty, Types, StatesAgree, LogsTaken, Leads
<1> QED
  BY <1>1, <1>2, <1>3, <1>4, <1>5, <1>6, <1>7, <1>8, SMTT(20)

(* FinishGroup takes over the pointer of the leader. *)
LEMMA FreeLogIInv ==
  ASSUME IInv, NEW t \in Threads, FreeLog(t)
  PROVE  IInv'
<1> USE LoggingAssumption DEF IInv, FreeLog, Goto, writerVars, serverVars,
        logVars
<1>1. Types'
  BY Zenon DEF Types
<1>2. PointeesWait'
  BY DEF PointeesWait, Waits, Follows, Finishing, Pending, Types
<1>3. StackTopOnce'
  BY DEF StackTopOnce, Waits, Follows, Finishing, Types
<1>4. LinksDiffer'
  BY DEF LinksDiffer, Waits, Follows
<1>5. HeadsDiffer'
  BY DEF HeadsDiffer, StackTopOnce, LinksDiffer, Types, PointeesWait, StatesAgree,
     Waits, Follows, Finishing, Pending, Pointers
<1>6. StatesAgree'
  BY DEF StatesAgree
<1>7. LogsTaken'
  BY DEF LogsTaken, Leads, Waits, Types, StatesAgree
<1>8. BuffersEmpty'
  <2>1. log_num[t] \in Logs /\ buffer[log_num[t]] = <<>>
    BY DEF LogsTaken, Leads, StatesAgree, BuffersEmpty
  <2>2. \A l \in Logs : l # log_num[t] => log_free_'[l] = log_free_[l]
    BY <2>1 DEF Types
  <2>3. \A u \in Threads : pc'[u] = "free" => pc[u] = "free"
    BY DEF Types
  <2> QED
    BY <2>1, <2>2, <2>3 DEF BuffersEmpty
<1> QED
  BY <1>1, <1>2, <1>3, <1>4, <1>5, <1>6, <1>7, <1>8

(* The completed writer waited, so it is no leader; its pointer is taken *)
(* over. *)
LEMMA FinishGroupIInv ==
  ASSUME IInv, NEW t \in Threads, FinishGroup(t)
  PROVE  IInv'
<1> USE LoggingAssumption DEF IInv, FinishGroup, Goto, SetState, Notified,
        writerVars, serverVars, logVars
<1>1. Types'
  <2>1. CASE head[t] = Null
    BY <2>1 DEF Types
  <2>2. CASE head[t] # Null
    <3>1. head[t] \in Threads
      BY <2>2 DEF Types, Pointers
    <3>2. /\ head' \in [Threads -> Pointers]
          /\ state' \in [Threads -> States]
      BY <2>2, <3>1 DEF Types, States
    <3>3. pc' \in [Threads -> {"out", "link", "await", "mutex", "asleep", "append",
                              "free", "finish"}]
      BY <2>2, <3>1 DEF Types
    <3> QED
      BY <3>2, <3>3 DEF Types
  <2> QED
    BY <2>1, <2>2
<1>2. PointeesWait'
  BY SMTT(20) DEF PointeesWait, StackTopOnce, LinksDiffer, HeadsDiffer, Types, StatesAgree,
     Waits, Follows, Finishing, Pending, Pointers
<1>3. StackTopOnce'
  BY DEF StackTopOnce, Waits, Follows, Finishing, Types, PointeesWait, Pending,
     Pointers
<1>4. LinksDiffer'
  BY DEF LinksDiffer, Waits, Follows, Types
<1>5. HeadsDiffer'
  BY DEF HeadsDiffer, StackTopOnce, LinksDiffer, Types, PointeesWait, StatesAgree,
     Waits, Follows, Finishing, Pending, Pointers
<1>6. StatesAgree'
  BY DEF StatesAgree, Types, PointeesWait, Pending, Waits, Finishing
<1>7. LogsTaken'
  BY DEF LogsTaken, Leads, Waits, Types
<1>8. BuffersEmpty'
  <2>1. \A u \in Threads : pc'[u] = "free" => pc[u] = "free"
    BY DEF Types, Pointers
  <2> QED
    BY <2>1 DEF BuffersEmpty
<1> QED
  BY <1>1, <1>2, <1>3, <1>4, <1>5, <1>6, <1>7, <1>8, SMTT(20)

(* A log that is free has no leader and an empty buffer. *)
LEMMA GetLeaderIInv ==
  ASSUME IInv, GetLeader
  PROVE  IInv'
<1> USE LoggingAssumption DEF IInv, GetLeader, Take, MoreLogs, writerVars,
        serverVars, logVars
<1>1. Types'
  <2>1. CASE log_free_[target]
    BY <2>1 DEF Types, Logs
  <2>2. CASE ~log_free_[target]
    <3>1. log_free_' \in [Logs -> BOOLEAN]
      BY <2>2, Zenon DEF Types
    <3> QED
      BY <2>2, <3>1 DEF Types
  <2> QED
    BY <2>1, <2>2
<1>2. PointeesWait'
  BY DEF PointeesWait, Waits, Follows, Finishing, Pending
<1>3. StackTopOnce'
  BY DEF StackTopOnce, Waits, Follows, Finishing
<1>4. LinksDiffer'
  BY DEF LinksDiffer, Waits, Follows
<1>5. HeadsDiffer'
  BY DEF HeadsDiffer, Waits, Follows, Finishing
<1>6. StatesAgree'
  BY DEF StatesAgree
<1>7. LogsTaken'
  BY DEF LogsTaken, Leads, Waits, Types
<1>8. BuffersEmpty'
  BY DEF BuffersEmpty, Types
<1> QED
  BY <1>1, <1>2, <1>3, <1>4, <1>5, <1>6, <1>7, <1>8, SMTT(20)

(* The top of the stack, which nobody else points to, becomes the leader. *)
LEMMA ServerExchangeIInv ==
  ASSUME IInv, ServerExchange
  PROVE  IInv'
<1> USE LoggingAssumption DEF IInv, ServerExchange, SetState, Notified,
        writerVars, serverVars, logVars
<1>1. Types'
  <2>1. CASE newest_writer_ # Null
    <3>1. newest_writer_ \in Threads
      BY <2>1 DEF Types, Pointers
    <3>2. /\ log_num' \in [Threads -> Logs \cup {NoLog}]
          /\ state' \in [Threads -> States]
      BY <2>1, <3>1 DEF Types, States
    <3>3. pc' \in [Threads -> {"out", "link", "await", "mutex", "asleep", "append",
                              "free", "finish"}]
      BY <2>1, <3>1 DEF Types
    <3> QED
      BY <2>1, <3>2, <3>3 DEF Types, Pointers
  <2>2. CASE newest_writer_ = Null
    <3>1. log_free_' \in [Logs -> BOOLEAN]
      BY <2>2, Zenon DEF Types
    <3> QED
      BY <2>2, <3>1 DEF Types, Pointers
  <2> QED
    BY <2>1, <2>2
<1>2. PointeesWait'
  BY DEF PointeesWait, Waits, Follows, Finishing, Pending, Types, Pointers,
     StackTopOnce
<1>3. StackTopOnce'
  BY DEF StackTopOnce, Waits, Follows, Finishing
<1>4. LinksDiffer'
  BY DEF LinksDiffer, Waits, Follows, Types, PointeesWait, Pending
<1>5. HeadsDiffer'
  BY DEF HeadsDiffer, Waits, Follows, Finishing, Types, PointeesWait, Pending
<1>6. StatesAgree'
  BY DEF StatesAgree, Types, PointeesWait, Pending, Waits
<1>7. LogsTaken'
  <2>1. CASE newest_writer_ # Null
    BY <2>1 DEF LogsTaken, Leads, Types, StatesAgree, PointeesWait, Waits,
       Pending, Pointers
  <2>2. CASE newest_writer_ = Null
    <3>1. \A l \in Logs : l # target => log_free_'[l] = log_free_[l]
      BY <2>2 DEF Types
    <3> QED
      BY <2>2, <3>1 DEF LogsTaken, Leads, Waits
  <2> QED
    BY <2>1, <2>2
<1>8. BuffersEmpty'
  <2>1. \A l \in Logs : l # target => log_free_'[l] = log_free_[l]
    BY DEF Types
  <2>2. \A u \in Threads : pc'[u] = "free" => pc[u] = "free" /\ log_num'[u] = log_num[u]
    BY DEF Types, Pointers, PointeesWait, Pending, Waits
  <2> QED
    BY <2>1, <2>2, ZenonT(30) DEF BuffersEmpty, Types
<1> QED
  BY <1>1, <1>2, <1>3, <1>4, <1>5, <1>6, <1>7, <1>8, SMTT(20)

(* IInv is inductive: one case for each action. *)
LEMMA NextIInv == IInv /\ [Next]_vars => IInv'
<1> SUFFICES ASSUME IInv, [Next]_vars PROVE IInv'
  OBVIOUS
<1>1. CASE Construct \/ StopServer \/ ServerPoll \/ ServerStop \/ UNCHANGED vars
  <2>1. /\ UNCHANGED <<pc, writerVars, newest_writer_, log_free_, buffer>>
        /\ spc' # "exchange" \/ UNCHANGED <<spc, target>>
        /\ spc' \in {"poll", "leader", "exchange", "stop", "exited"}
        /\ target' \in Logs
    BY <1>1, LoggingAssumption DEF Construct, StopServer, ServerPoll, ServerStop, vars,
       writerVars, serverVars, logVars, IInv, Types, Logs
  <2>2. Types' /\ StatesAgree' /\ LogsTaken' /\ BuffersEmpty'
    BY <2>1, SMTT(20) DEF IInv, Types, StatesAgree, LogsTaken, BuffersEmpty, Leads, Waits,
       writerVars
  <2>3. PointeesWait' /\ StackTopOnce' /\ LinksDiffer' /\ HeadsDiffer'
    BY <2>1 DEF IInv, PointeesWait, StackTopOnce, LinksDiffer, HeadsDiffer, Waits,
       Follows, Finishing, Pending, writerVars
  <2> QED
    BY <2>2, <2>3 DEF IInv
<1>2. CASE GetLeader \/ ServerExchange
  BY <1>2, GetLeaderIInv, ServerExchangeIInv
<1>3. CASE \E t \in Threads : AddLog(t) \/ Client(t)
  BY SMTT(20), <1>3, AddLogIInv, AddToLinkIInv, AwaitSpinIInv, AwaitLockIInv, AwaitCVIInv,
     AppendDataIInv, SyncIInv, FreeLogIInv, FinishGroupIInv DEF Client
<1> QED
  BY <1>1, <1>2, <1>3 DEF Next, Server

(* A log has one leader at a time and is given back with an empty buffer,   *)
(* for any number of threads that call AddLog and any number of logs.       *)
THEOREM LogIsExclusiveTheorem == Spec => []LogIsExclusive
<1>1. IInv => LogIsExclusive
  BY DEF IInv, LogsTaken, BuffersEmpty, LogIsExclusive
<1> QED
  BY <1>1, InitIInv, NextIInv, PTL DEF Spec

(* FinishGroup completes, and the server makes a leader of, only a writer   *)
(* whose thread still waits in AwaitState: a writer lives on the stack of   *)
(* its thread and is gone once AddLog has returned.                         *)
THEOREM OnlyWaitersAreTold ==
  Spec => [][\A w \in Threads :
               state'[w] # state[w] /\ state'[w] \in {"COMPLETED", "GROUP_LEADER"}
                 => Waits(w) /\ ~Awaited(w)]_vars
<1> DEFINE Told == \A w \in Threads :
                     state'[w] # state[w] /\ state'[w] \in {"COMPLETED", "GROUP_LEADER"}
                       => Waits(w) /\ ~Awaited(w)
<1>1. IInv /\ [Next]_vars => [Told]_vars
  <2> SUFFICES ASSUME IInv, Next, NEW w \in Threads, state'[w] # state[w],
                      state'[w] \in {"COMPLETED", "GROUP_LEADER"}
               PROVE  Waits(w) /\ ~Awaited(w)
    OBVIOUS
  <2>1. ServerExchange \/ \E t \in Threads : AddLog(t) \/ AwaitLock(t) \/ FinishGroup(t)
    BY Zenon DEF Next, Server, Client, Construct, StopServer, ServerPoll, GetLeader,
       ServerStop, AddToLink, AwaitSpin, AwaitCV, AppendData, Sync, FreeLog, writerVars
  <2>2. CASE ServerExchange
    BY <2>2 DEF ServerExchange, SetState, IInv, Types, PointeesWait, Pending, Awaited,
       Pointers
  <2>3. ASSUME NEW t \in Threads, AddLog(t) \/ AwaitLock(t) PROVE FALSE
    BY <2>3 DEF AddLog, AwaitLock, IInv, Types
  <2>4. ASSUME NEW t \in Threads, FinishGroup(t) PROVE Waits(w) /\ ~Awaited(w)
    BY <2>4 DEF FinishGroup, SetState, IInv, Types, PointeesWait, Pending, Finishing,
       Awaited, Pointers
  <2> QED
    BY <2>1, <2>2, <2>3, <2>4
<1> QED
  BY <1>1, InitIInv, NextIInv, PTL DEF Spec

-----------------------------------------------------------------------------
(* Whoever waits to be told is pointed to, ...                             *)
WaitersPointedTo ==
  \A t \in Threads : Pending(t) =>
    \/ t = newest_writer_
    \/ \E u \in Threads : Follows(u) /\ link_older[u] = t
    \/ \E u \in Threads : Finishing(u) /\ head[u] = t

(* ... and the links do not run in a circle: in every set of writers there *)
(* is one that none of the set points to.                                  *)
NoCircle ==
  \A S \in SUBSET Threads : S # {} =>
    \E t \in S : \A u \in S : Follows(u) => link_older[u] # t

WInv == WaitersPointedTo /\ NoCircle

(* Nobody waits at first. *)
LEMMA InitWInv == Init => WInv
  BY DEF Init, WInv, WaitersPointedTo, NoCircle, Pending, Follows, Waits

(* Links that stay or vanish make no circle. *)
LEMMA CircleKept ==
  ASSUME NoCircle,
         \A u \in Threads : Follows(u)' => Follows(u) /\ link_older'[u] = link_older[u]
  PROVE  NoCircle'
  BY DEF NoCircle

(* Steps that leave the links and who waits as they are. *)
LEMMA LinksKept ==
  ASSUME IInv, WInv, newest_writer_' = newest_writer_,
         \A u \in Threads : /\ Follows(u)' = Follows(u) /\ Pending(u)' = Pending(u)
                            /\ Follows(u) => link_older'[u] = link_older[u]
                            /\ Finishing(u)' = Finishing(u)
                            /\ Finishing(u) => head'[u] = head[u]
  PROVE  WInv'
<1>1. NoCircle'
  BY CircleKept DEF WInv
<1>2. WaitersPointedTo'
  BY DEF WInv, WaitersPointedTo
<1> QED
  BY <1>1, <1>2 DEF WInv

(* The new top of the stack points to the old one, and nobody to it. *)
LEMMA AddToLinkWInv ==
  ASSUME IInv, WInv, NEW t \in Threads, AddToLink(t)
  PROVE  WInv'
<1> USE DEF IInv
<1>1. CASE LinkIsCurrent(t)
  <2>0. /\ pc[t] = "link" /\ newest_writer_' = t /\ link_older[t] = newest_writer_
        /\ pc' = [pc EXCEPT ![t] = "await"] /\ UNCHANGED <<link_older, state, head>>
    BY <1>1 DEF AddToLink, LinkIsCurrent, Goto
  <2>1. /\ \A u \in Threads : u # t => /\ Follows(u)' = Follows(u) /\ Pending(u)' = Pending(u)
        /\ \A u \in Threads : Finishing(u)' = Finishing(u)
        /\ ~Pending(t) /\ ~Follows(t) /\ Follows(t)'
    BY <2>0 DEF Follows, Pending, Finishing, Waits, Types, StatesAgree
  <2>2. WaitersPointedTo'
    <3> SUFFICES ASSUME NEW v \in Threads, Pending(v)', v # t
                 PROVE  \/ \E u \in Threads : Follows(u)' /\ link_older'[u] = v
                        \/ \E u \in Threads : Finishing(u)' /\ head'[u] = v
      BY <2>0 DEF WaitersPointedTo
    <3>1. CASE v = newest_writer_
      BY <2>0, <2>1, <3>1
    <3>2. CASE v # newest_writer_
      BY <2>0, <2>1, <3>2 DEF WInv, WaitersPointedTo
    <3> QED
      BY <3>1, <3>2
  <2>3. \A u \in Threads : Follows(u)' => link_older[u] # t
    <3>1. t # Null
      BY LoggingAssumption
    <3>2. newest_writer_ # t
      BY <2>1, <3>1 DEF PointeesWait
    <3> QED
      BY <2>0, <2>1, <3>1, <3>2 DEF PointeesWait
  <2>4. NoCircle'
    <3> SUFFICES ASSUME NEW S \in SUBSET Threads, S # {},
                        \A v \in S : \E u \in S : Follows(u)' /\ link_older'[u] = v
                 PROVE  FALSE
      BY DEF NoCircle
    <3>1. t \notin S
      BY <2>0, <2>3
    <3> QED
      BY <2>0, <2>1, <3>1 DEF WInv, NoCircle
  <2> QED
    BY <2>2, <2>4 DEF WInv
<1>2. CASE ~LinkIsCurrent(t)
  <2>1. /\ pc[t] = "link" /\ link_older' = [link_older EXCEPT ![t] = newest_writer_]
        /\ UNCHANGED <<newest_writer_, pc, state, head>>
    BY <1>2 DEF AddToLink
  <2> QED
    BY <2>1, LinksKept DEF Follows, Pending, Finishing, Waits, Types
<1> QED
  BY <1>1, <1>2

(* A call in progress that does not touch the links. *)
LEMMA WaitingWInv ==
  ASSUME IInv, WInv, NEW t \in Threads,
         AddLog(t) \/ AwaitSpin(t) \/ AwaitLock(t) \/ AwaitCV(t) \/ AppendData(t) \/ Sync(t)
  PROVE  WInv'
<1> USE DEF IInv
<1>1. CASE AddLog(t)
  BY <1>1, LinksKept DEF AddLog, Goto, Follows, Pending, Finishing, Waits, Types
<1>2. CASE AwaitSpin(t)
  BY <1>2, LinksKept DEF AwaitSpin, Resume, Awaited, Goto, Follows, Pending, Finishing, Waits, Types
<1>3. CASE AwaitLock(t)
  BY <1>3, LinksKept DEF AwaitLock, Goto, Follows, Pending, Finishing, Waits, Types
<1>4. CASE AwaitCV(t)
  BY <1>4, LinksKept DEF AwaitCV, Resume, Awaited, Goto, Follows, Pending, Finishing, Waits, Types
<1>5. CASE AppendData(t)
  BY <1>5, LinksKept DEF AppendData, Follows, Pending, Finishing, Waits, Types
<1>6. CASE Sync(t)
  BY <1>6, LinksKept DEF Sync, Goto, Follows, Pending, Finishing, Waits, Types
<1> QED
  BY <1>1, <1>2, <1>3, <1>4, <1>5, <1>6

(* The leader hands its link to its head. *)
LEMMA FreeLogWInv ==
  ASSUME IInv, WInv, NEW t \in Threads, FreeLog(t)
  PROVE  WInv'
<1> USE DEF IInv
<1>1. /\ pc[t] = "free" /\ head' = [head EXCEPT ![t] = link_older[t]]
      /\ pc' = [pc EXCEPT ![t] = "finish"] /\ UNCHANGED <<link_older, state, newest_writer_>>
  BY DEF FreeLog, Goto
<1>2. \A u \in Threads : /\ Pending(u)' = Pending(u)
                         /\ u # t => Follows(u)' = Follows(u) /\ Finishing(u)' = Finishing(u)
                                     /\ head'[u] = head[u]
                         /\ ~Follows(t)' /\ ~Finishing(t) /\ head'[t] = link_older[t]
                         /\ link_older[t] # Null => Finishing(t)'
  BY <1>1 DEF Follows, Pending, Finishing, Waits, Types
<1>3. NoCircle'
  BY <1>1, <1>2, CircleKept DEF WInv
<1>4. WaitersPointedTo'
  <2> SUFFICES ASSUME NEW v \in Threads, Pending(v), v # newest_writer_
               PROVE  \/ \E u \in Threads : Follows(u)' /\ link_older'[u] = v
                      \/ \E u \in Threads : Finishing(u)' /\ head'[u] = v
    BY <1>1, <1>2 DEF WaitersPointedTo
  <2>1. CASE link_older[t] = v
    BY <1>2, <2>1, LoggingAssumption
  <2>2. CASE link_older[t] # v
    BY <1>1, <1>2, <2>2 DEF WInv, WaitersPointedTo
  <2> QED
    BY <2>1, <2>2
<1> QED
  BY <1>3, <1>4 DEF WInv

(* The head passes on along the link of the writer that is told. *)
LEMMA FinishGroupWInv ==
  ASSUME IInv, WInv, NEW t \in Threads, FinishGroup(t)
  PROVE  WInv'
<1> USE DEF IInv
<1>1. CASE head[t] = Null
  <2>1. /\ pc[t] = "finish" /\ pc' = [pc EXCEPT ![t] = "out"]
        /\ UNCHANGED <<link_older, state, newest_writer_, head>>
    BY <1>1 DEF FinishGroup, Goto
  <2> QED
    BY <1>1, <2>1, LinksKept DEF Follows, Pending, Finishing, Waits, Types
<1>2. CASE head[t] # Null
  <2>0. PICK w \in Threads : w = head[t] /\ Pending(w) /\ Waits(w)
    BY <1>2 DEF FinishGroup, PointeesWait, Finishing, Types, Pointers, Pending
  <2>1. /\ pc[t] = "finish" /\ head' = [head EXCEPT ![t] = link_older[w]]
        /\ state' = [state EXCEPT ![w] = "COMPLETED"] /\ pc' = Notified(w, pc)
        /\ UNCHANGED <<link_older, newest_writer_>>
    BY <1>2, <2>0 DEF FinishGroup, SetState
  <2>2. /\ w # t /\ \A u \in Threads : u # w => pc'[u] = pc[u] /\ state'[u] = state[u]
        /\ state'[w] = "COMPLETED" /\ pc'[w] \in {"await", "mutex", "asleep"}
        /\ head'[t] = link_older[w] /\ \A u \in Threads : u # t => head'[u] = head[u]
    BY <2>0, <2>1 DEF Waits, Types, Notified
  <2>3. /\ \A u \in Threads : u # w => Pending(u)' = Pending(u) /\ Follows(u)' = Follows(u)
        /\ ~Pending(w)' /\ ~Follows(w)'
        /\ \A u \in Threads : u # t => Finishing(u)' = Finishing(u)
        /\ link_older[w] # Null => Finishing(t)'
    BY <2>0, <2>1, <2>2 DEF Pending, Follows, Finishing, Waits
  <2>4. NoCircle'
    BY <2>1, <2>3, CircleKept, Zenon DEF WInv
  <2>5. WaitersPointedTo'
    <3> SUFFICES ASSUME NEW v \in Threads, Pending(v), v # newest_writer_, v # w
                 PROVE  \/ \E u \in Threads : Follows(u)' /\ link_older'[u] = v
                        \/ \E u \in Threads : Finishing(u)' /\ head'[u] = v
      BY <2>1, <2>3 DEF WaitersPointedTo
    <3>1. CASE link_older[w] = v
      BY <2>2, <2>3, <3>1, LoggingAssumption
    <3>2. CASE link_older[w] # v
      BY <2>0, <2>1, <2>2, <2>3, <3>2 DEF WInv, WaitersPointedTo
    <3> QED
      BY <3>1, <3>2
  <2> QED
    BY <2>4, <2>5 DEF WInv
<1> QED
  BY <1>1, <1>2

(* The top of the stack becomes a leader and waits no longer to be told. *)
LEMMA ServerExchangeWInv ==
  ASSUME IInv, WInv, ServerExchange
  PROVE  WInv'
<1> USE DEF IInv
<1>1. CASE newest_writer_ = Null
  <2>1. UNCHANGED <<newest_writer_, pc, state, link_older, head>>
    BY <1>1 DEF ServerExchange
  <2> QED
    BY <2>1, LinksKept DEF Follows, Pending, Finishing, Waits
<1>2. CASE newest_writer_ # Null
  <2>0. PICK w \in Threads : w = newest_writer_ /\ Pending(w) /\ Waits(w)
    BY <1>2 DEF PointeesWait, Types, Pointers, Pending
  <2>1. /\ newest_writer_' = Null /\ pc' = Notified(w, pc)
        /\ state' = [state EXCEPT ![w] = "GROUP_LEADER"] /\ UNCHANGED <<link_older, head>>
    BY <1>2, <2>0 DEF ServerExchange, SetState
  <2>2. /\ \A u \in Threads : u # w => pc'[u] = pc[u] /\ state'[u] = state[u]
        /\ state'[w] = "GROUP_LEADER" /\ pc'[w] \in {"await", "mutex", "asleep"}
    BY <2>0, <2>1 DEF Waits, Types, Notified
  <2>3. /\ \A u \in Threads : u # w => Pending(u)' = Pending(u)
        /\ ~Pending(w)' /\ \A u \in Threads : Follows(u)' = Follows(u) /\ Finishing(u)' = Finishing(u)
    BY <2>0, <2>1, <2>2 DEF Pending, Follows, Finishing, Waits
  <2>4. NoCircle'
    BY <2>1, <2>3, CircleKept DEF WInv
  <2>5. WaitersPointedTo'
    BY <2>0, <2>1, <2>3 DEF WInv, WaitersPointedTo
  <2> QED
    BY <2>4, <2>5 DEF WInv
<1> QED
  BY <1>1, <1>2

(* Every step keeps the waiters pointed to and the links free of circles. *)
LEMMA NextWInv == IInv /\ WInv /\ [Next]_vars => WInv'
<1> SUFFICES ASSUME IInv, WInv, [Next]_vars PROVE WInv'
  OBVIOUS
<1>1. CASE UNCHANGED vars
  BY <1>1, LinksKept DEF vars, writerVars, Follows, Pending, Finishing, Waits
<1>2. CASE Construct \/ StopServer \/ ServerPoll \/ GetLeader \/ ServerStop
  <2>1. UNCHANGED <<pc, state, link_older, head, newest_writer_>>
    BY <1>2 DEF Construct, StopServer, ServerPoll, GetLeader, ServerStop, writerVars
  <2> QED
    BY <2>1, LinksKept DEF Follows, Pending, Finishing, Waits
<1>3. ASSUME NEW t \in Threads, AddLog(t) \/ Client(t)
      PROVE  WInv'
  BY <1>3, AddToLinkWInv, WaitingWInv, FreeLogWInv, FinishGroupWInv DEF Client
<1> QED
  BY <1>1, <1>2, <1>3, ServerExchangeWInv DEF Next, Server

(* Where the group of an owner begins; the owner Null is the stack. *)
Root(o) ==
  IF o = Null THEN newest_writer_
  ELSE IF pc[o] = "finish" THEN head[o]
  ELSE IF Leads(o) THEN o ELSE Null

(* The roots are different writers whose links are to be followed, and no  *)
(* link leads to one.                                                      *)
LEMMA RootsAreApart ==
  ASSUME IInv, NEW o \in Pointers, Root(o) # Null
  PROVE  /\ Root(o) \in Threads /\ Follows(Root(o))
         /\ \A u \in Threads : Follows(u) => link_older[u] # Root(o)
         /\ \A p \in Pointers : p # o => Root(p) # Root(o)
<1> USE LoggingAssumption DEF IInv
<1>1. CASE o = Null
  <2>1. newest_writer_ \in Threads /\ Pending(newest_writer_) /\ Root(o) = newest_writer_
    BY <1>1 DEF Root, PointeesWait, Types, Pointers
  <2>2. ASSUME NEW p \in Threads PROVE Root(p) # newest_writer_
    BY <2>1 DEF Root, StackTopOnce, Finishing, Leads, Pending
  <2> QED
    BY <1>1, <2>1, <2>2 DEF Pointers, StackTopOnce, Follows, Pending
<1>2. CASE o # Null /\ pc[o] = "finish"
  <2>1. /\ o \in Threads /\ head[o] \in Threads /\ Pending(head[o]) /\ Root(o) = head[o]
        /\ Finishing(o)
    BY <1>2 DEF Root, PointeesWait, Types, Pointers, Finishing
  <2>2. ASSUME NEW p \in Threads, p # o PROVE Root(p) # head[o]
    BY <2>1, <2>2 DEF Root, HeadsDiffer, Finishing, Leads, Pending
  <2>3. Root(Null) # head[o]
    BY <2>1 DEF Root, StackTopOnce
  <2> QED
    BY <2>1, <2>2, <2>3 DEF Pointers, HeadsDiffer, Follows, Pending
<1>3. CASE o # Null /\ pc[o] # "finish"
  <2>1. o \in Threads /\ Leads(o) /\ Root(o) = o /\ ~Pending(o) /\ Follows(o)
    BY <1>3 DEF Root, Pointers, Leads, Pending, Follows
  <2>2. ASSUME NEW p \in Threads, p # o PROVE Root(p) # o
    BY <2>1, <2>2 DEF Root, PointeesWait, Finishing
  <2>3. Root(Null) # o
    BY <2>1 DEF Root, PointeesWait
  <2> QED
    BY <2>1, <2>2, <2>3 DEF Pointers, PointeesWait
<1> QED
  BY <1>1, <1>2, <1>3

(* A group: the least set with its root that the links do not leave. *)
LEMMA GroupIsChain ==
  ASSUME IInv, NEW w \in Threads
  PROVE  /\ w \in Linked(w)
         /\ \A x \in Linked(w) : x \in Threads /\ link_older[x] \in Linked(w) \cup {Null}
         /\ \A T \in SUBSET Threads :
              w \in T /\ (\A x \in T : link_older[x] \in T \cup {Null}) => Linked(w) \subseteq T
         /\ \A y \in Linked(w) : y # w => \E x \in Linked(w) : link_older[x] = y
<1> DEFINE closed(S) == \A v \in S : link_older[v] \in S \cup {Null}
<1>1. w # Null /\ Null \notin Threads /\ link_older \in [Threads -> Pointers]
  BY LoggingAssumption DEF IInv, Types
<1>2. Linked(w) = {u \in Threads : \A S \in SUBSET Threads : w \in S /\ closed(S) => u \in S}
  BY <1>1 DEF Linked
<1>3. w \in Linked(w) /\ Linked(w) \subseteq Threads
  BY <1>2
<1>4. ASSUME NEW T \in SUBSET Threads, w \in T, closed(T) PROVE Linked(w) \subseteq T
  BY <1>2, <1>4
<1>5. closed(Linked(w))
  BY <1>1, <1>2 DEF Pointers
<1>6. ASSUME NEW y \in Linked(w), y # w, \A x \in Linked(w) : link_older[x] # y PROVE FALSE
  <2> DEFINE T == Linked(w) \ {y}
  <2>1. T \in SUBSET Threads /\ w \in T /\ closed(T)
    BY <1>3, <1>5, <1>6
  <2> HIDE DEF T
  <2>2. Linked(w) \subseteq T
    BY <1>4, <2>1
  <2> QED
    BY <1>6, <2>2 DEF T
<1> QED
  BY <1>3, <1>4, <1>5, <1>6

(* Nothing is linked to by a stack or a group that is empty. *)
LEMMA NothingLinkedToNull == Linked(Null) = {}
<1>1. {} \in SUBSET Threads /\ Null \in {} \cup {Null}
  OBVIOUS
<1>2. \A u \in Linked(Null) : u \in {}
  BY <1>1, Zenon DEF Linked
<1> QED
  BY <1>2

(* The groups have only writers to be followed, and no writer twice. *)
LEMMA GroupsAreApart ==
  ASSUME IInv, NEW o \in Pointers, Root(o) # Null
  PROVE  /\ \A x \in Linked(Root(o)) : Follows(x)
         /\ \A p \in Pointers : p # o => Linked(Root(p)) \cap Linked(Root(o)) = {}
<1> USE DEF IInv
<1>1. PICK w \in Threads : w = Root(o)
  BY RootsAreApart
<1>2. /\ Follows(w) /\ \A u \in Threads : Follows(u) => link_older[u] # w
      /\ \A p \in Pointers : p # o => Root(p) # w
  BY <1>1, RootsAreApart
<1>3. ASSUME NEW v \in Threads, Follows(v) PROVE \A x \in Linked(v) : Follows(x)
  <2> DEFINE T == {x \in Threads : Follows(x)}
  <2>1. \A x \in T : link_older[x] \in T \cup {Null}
    BY DEF PointeesWait, Pending, Follows, Types, Pointers
  <2>2. T \in SUBSET Threads /\ v \in T
    BY <1>3
  <2>3. Linked(v) \subseteq T
    <3> HIDE DEF T
    <3> QED BY <2>1, <2>2, GroupIsChain
  <2> QED
    BY <2>3
<1>4. ASSUME NEW p \in Pointers, p # o, Root(p) # Null
      PROVE  Linked(Root(p)) \cap Linked(w) = {}
  <2>1. PICK v \in Threads : v = Root(p)
    BY <1>4, RootsAreApart
  <2>2. /\ Follows(v) /\ v # w /\ \A u \in Threads : Follows(u) => link_older[u] # v
    BY <1>2, <1>4, <2>1, RootsAreApart
  <2>3. v \notin Linked(w)
    <3> SUFFICES ASSUME v \in Linked(w) PROVE FALSE
      OBVIOUS
    <3>1. PICK x \in Linked(w) : link_older[x] = v
      BY <2>2, GroupIsChain
    <3> QED
      BY <1>2, <1>3, <2>2, <3>1, GroupIsChain
  <2> DEFINE T == Linked(v) \ Linked(w)
  <2>4. T \in SUBSET Threads /\ v \in T
    BY <2>3, GroupIsChain
  <2>5. \A x \in T : link_older[x] \in T \cup {Null}
    <3> SUFFICES ASSUME NEW x \in Linked(v), x \notin Linked(w), link_older[x] # Null,
                        link_older[x] \in Linked(w)
                 PROVE  FALSE
      BY GroupIsChain
    <3>1. x \in Threads /\ Follows(x) /\ link_older[x] # w
      BY <1>2, <1>3, <2>2, GroupIsChain
    <3>2. PICK z \in Linked(w) : link_older[z] = link_older[x]
      BY <3>1, GroupIsChain
    <3>3. z \in Threads /\ Follows(z)
      BY <1>2, <1>3, <3>2, GroupIsChain
    <3>4. z = x
      BY <3>1, <3>2, <3>3 DEF LinksDiffer
    <3> QED
      BY <3>2, <3>4
  <2>6. Linked(v) \subseteq T
    <3> HIDE DEF T
    <3> QED BY <2>4, <2>5, GroupIsChain
  <2> QED
    BY <2>1, <2>6
<1> QED
  BY <1>1, <1>2, <1>3, <1>4, NothingLinkedToNull

(* Every writer that waits to be told is in a group. *)
LEMMA WaitersAreInGroups ==
  ASSUME IInv, WInv, NEW t \in Threads, Pending(t)
  PROVE  \E o \in Pointers : t \in Linked(Root(o))
<1> USE DEF IInv
<1> DEFINE S == {v \in Threads : Pending(v) /\ \A o \in Pointers : v \notin Linked(Root(o))}
<1> SUFFICES ASSUME S # {} PROVE FALSE
  OBVIOUS
<1>1. PICK v \in S : \A u \in S : Follows(u) => link_older[u] # v
  <2>1. S \in SUBSET Threads
    OBVIOUS
  <2> HIDE DEF S
  <2> QED BY <2>1 DEF WInv, NoCircle
<1>2. v \in Threads /\ Pending(v) /\ \A o \in Pointers : v \notin Linked(Root(o))
  OBVIOUS
<1>3. ASSUME NEW o \in Pointers PROVE Root(o) # v
  BY <1>2, <1>3, GroupIsChain
<1>4. v # newest_writer_
  BY <1>3 DEF Root, Pointers
<1>5. \A u \in Threads : Finishing(u) => head[u] # v
  BY <1>3, LoggingAssumption DEF Root, Pointers, Finishing
<1>6. PICK u \in Threads : Follows(u) /\ link_older[u] = v
  BY <1>2, <1>4, <1>5 DEF WInv, WaitersPointedTo
<1>7. \E o \in Pointers : u \in Linked(Root(o))
  <2>1. CASE Pending(u)
    BY <1>1, <1>6, <2>1
  <2>2. CASE ~Pending(u)
    <3>1. Leads(u) /\ pc[u] # "finish"
      BY <1>6, <2>2 DEF Follows, Pending, Leads, StatesAgree, Waits, Types, States
    <3>2. Root(u) = u
      BY <3>1, LoggingAssumption DEF Root
    <3> QED
      BY <3>2, GroupIsChain DEF Pointers
  <2> QED
    BY <2>1, <2>2
<1>8. PICK o \in Pointers : u \in Linked(Root(o))
  BY <1>7
<1>9. Root(o) # Null
  BY <1>8, NothingLinkedToNull
<1>10. Root(o) \in Threads
  BY <1>9, RootsAreApart
<1>11. link_older[u] \in Linked(Root(o)) \cup {Null}
  BY <1>8, <1>10, GroupIsChain
<1> QED
  BY <1>2, <1>6, <1>8, <1>11, LoggingAssumption

(* No writer is forgotten, and none is touched after its AddLog returned:  *)
(* whoever waits to be told is on the stack or in exactly one group.       *)
THEOREM WaitersKeepOneLeader == Spec => []WaitersHaveOneLeader
<1>1. IInv /\ WInv => WaitersHaveOneLeader
  <2> SUFFICES ASSUME IInv, WInv PROVE WaitersHaveOneLeader
    OBVIOUS
  <2> DEFINE untold == {t \in Threads : Waits(t) /\ ~Awaited(t)}
             owners(t) == {u \in Threads : t \in Group(u)}
                            \cup (IF t \in Linked(newest_writer_) THEN {Null} ELSE {})
  <2>1. \A t : owners(t) = {o \in Pointers : t \in Linked(Root(o))}
    <3>1. \A u \in Threads : Group(u) = Linked(Root(u))
      BY NothingLinkedToNull, LoggingAssumption DEF Group, Root
    <3>2. Root(Null) = newest_writer_
      BY DEF Root
    <3> QED
      BY <3>1, <3>2, LoggingAssumption DEF Pointers
  <2>2. \A t \in Threads : t \in untold <=> Pending(t)
    BY DEF IInv, Types, States, Awaited, Pending
  <2>3. ASSUME NEW t \in Threads, Pending(t) PROVE \E o \in Pointers : owners(t) = {o}
    <3>1. PICK o \in Pointers : t \in Linked(Root(o))
      BY <2>3, WaitersAreInGroups
    <3>2. Root(o) # Null
      BY <3>1, NothingLinkedToNull
    <3>3. owners(t) = {o}
      BY <2>1, <3>1, <3>2, GroupsAreApart
    <3> QED
      BY <3>3
  <2>4. ASSUME NEW t \in Threads, owners(t) # {} PROVE Pending(t) \/ Leads(t)
    <3>1. PICK o \in Pointers : t \in Linked(Root(o))
      BY <2>1, <2>4
    <3>2. Root(o) # Null
      BY <3>1, NothingLinkedToNull
    <3>3. Follows(t)
      BY <3>1, <3>2, GroupsAreApart
    <3> QED
      BY <3>3 DEF Follows, Pending, Leads, IInv, StatesAgree, Types, States
  <2> QED
    BY <2>2, <2>3, <2>4, Zenon DEF WaitersHaveOneLeader
<1>2. Init => IInv /\ WInv
  BY InitIInv, InitWInv
<1>3. IInv /\ WInv /\ [Next]_vars => (IInv /\ WInv)'
  BY NextIInv, NextWInv
<1> QED
  BY <1>1, <1>2, <1>3, PTL DEF Spec

=============================================================================
