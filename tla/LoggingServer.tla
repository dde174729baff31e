--------------------------- MODULE LoggingServer ---------------------------
(* The group commit of src/ssdlogging/ssdlogging_server.cc.  A thread that *)
(* calls AddLog puts a Writer, which lives on its stack, on a lock-free    *)
(* stack and waits.  The server thread takes a free log, empties the stack *)
(* and makes the newest writer the leader of all the others; the leader    *)
(* writes the data of its group, syncs the log, gives it back and wakes    *)
(* the others up one by one.                                               *)
(*                                                                         *)
(* A Writer is named by its thread: consecutive calls of a thread put it   *)
(* at the same address, which is what compare_exchange compares.  What a   *)
(* call writes is the record <<t, n>>, n being the number of the call.     *)
EXTENDS Integers, Sequences, FiniteSets, Functions

CONSTANTS
  Threads,
  logs_num_,   \* number of logs, numbered from 0
  MaxCalls,    \* bound on the AddLog calls of all threads
  Null

ASSUME LoggingAssumption ==
  /\ IsFiniteSet(Threads) /\ Null \notin Threads
  /\ logs_num_ \in Nat \ {0}
  /\ MaxCalls \in Nat

Logs == 0..(logs_num_ - 1)
Records == Threads \X (1..MaxCalls)
Pointers == Threads \cup {Null}
NoLog == -1
States == {"INIT", "GROUP_LEADER", "COMPLETED", "LOCKED_WAITING"}

VARIABLES
  pc,             \* where a thread is in AddLog
  calls,          \* how many calls it has made
  state,          \* Writer::state
  link_older,     \* Writer::link_older, the newest writer as last loaded
  log_num,        \* Writer::log_num
  head,           \* WriteToLog and FinishGroup: the writer at hand
  newest_writer_,
  log_free_,      \* TRUE while the log is taken
  spc,            \* where the server thread is
  target,         \* GetLeader: the log it looks at, or has got
  stop_,
  built,          \* the constructor, or else the destructor, is through
  buffer,         \* AbstractLogWriter::buffer
  disk            \* what Sync has made durable

writerVars == <<state, link_older, log_num, head>>
serverVars == <<spc, target>>
logVars == <<buffer, disk>>
vars == <<pc, calls, writerVars, newest_writer_, log_free_, serverVars,
          stop_, built, logVars>>

Record(t) == <<t, calls[t]>>
Added == {r \in Records : r[2] <= calls[r[1]]}

-----------------------------------------------------------------------------
(* The constructor starts the server thread before it sets stop_, so the   *)
(* server may read whatever the memory held.                               *)
Init ==
  /\ pc = [t \in Threads |-> "out"]
  /\ calls = [t \in Threads |-> 0]
  /\ state = [t \in Threads |-> "COMPLETED"]
  /\ link_older = [t \in Threads |-> Null]
  /\ log_num = [t \in Threads |-> NoLog]
  /\ head = [t \in Threads |-> Null]
  /\ newest_writer_ = Null
  /\ log_free_ = [l \in Logs |-> FALSE]
  /\ spc = "poll"
  /\ target = 0
  /\ stop_ \in BOOLEAN
  /\ built = "no"
  /\ buffer = [l \in Logs |-> <<>>]
  /\ disk = [l \in Logs |-> <<>>]

Construct ==
  /\ built = "no"
  /\ built' = "yes"
  /\ stop_' = FALSE
  /\ UNCHANGED <<pc, calls, writerVars, newest_writer_, log_free_, serverVars,
                 logVars>>

(* The destructor; the owner calls it when no AddLog is running.           *)
StopServer ==
  /\ built = "yes"
  /\ \A t \in Threads : pc[t] = "out"
  /\ built' = "stopped"
  /\ stop_' = TRUE
  /\ UNCHANGED <<pc, calls, writerVars, newest_writer_, log_free_, serverVars,
                 logVars>>

Goto(t, l) == pc' = [pc EXCEPT ![t] = l]

-----------------------------------------------------------------------------
(* AddLog and AddToLink                                                    *)

AddLog(t) ==
  /\ pc[t] = "out" /\ built = "yes"
  /\ calls[t] < MaxCalls /\ Cardinality(Added) < MaxCalls   \* the bound
  /\ calls' = [calls EXCEPT ![t] = @ + 1]
  /\ state' = [state EXCEPT ![t] = "INIT"]
  /\ link_older' = [link_older EXCEPT ![t] = newest_writer_]
  /\ log_num' = [log_num EXCEPT ![t] = NoLog]
  /\ Goto(t, "link")
  /\ UNCHANGED <<head, newest_writer_, log_free_, serverVars, stop_,
                 built, logVars>>

(* compare_exchange_weak: nobody has pushed since the load.                *)
LinkIsCurrent_Unchecked(t) == TRUE
LinkIsCurrent(t) == newest_writer_ = link_older[t]

AddToLink(t) ==
  /\ pc[t] = "link"
  /\ IF LinkIsCurrent(t)
       THEN /\ newest_writer_' = t
            /\ Goto(t, "await")
            /\ UNCHANGED link_older
       ELSE /\ link_older' = [link_older EXCEPT ![t] = newest_writer_]
            /\ UNCHANGED <<newest_writer_, pc>>
  /\ UNCHANGED <<calls, state, log_num, head, log_free_, serverVars, stop_,
                 built, logVars>>

-----------------------------------------------------------------------------
(* AwaitState and SetState.  The spinning and yielding that come before    *)
(* the long wait only load the state again.                                *)

Awaited(t) == state[t] \in {"GROUP_LEADER", "COMPLETED"}

(* AddLog goes on: it returns, or it leads the group.  MakeGroup only adds *)
(* up the writers that link_older already holds together.                  *)
Resume(t) ==
  /\ Goto(t, IF state[t] = "COMPLETED" THEN "out" ELSE "append")
  /\ head' = [head EXCEPT ![t] = IF state[t] = "COMPLETED" THEN Null ELSE t]

AwaitSpin(t) ==
  /\ pc[t] = "await" /\ Awaited(t)
  /\ Resume(t)
  /\ UNCHANGED <<calls, state, link_older, log_num, newest_writer_,
                 log_free_, serverVars, stop_, built, logVars>>

(* compare_exchange_strong of STATE_INIT to STATE_LOCKED_WAITING.          *)
AwaitLock(t) ==
  /\ pc[t] = "await" /\ state[t] = "INIT"
  /\ state' = [state EXCEPT ![t] = "LOCKED_WAITING"]
  /\ Goto(t, "mutex")
  /\ UNCHANGED <<calls, link_older, log_num, head, newest_writer_,
                 log_free_, serverVars, stop_, built, logVars>>

(* StateCV().wait tests its predicate under StateMutex, and sleeps.        *)
AwaitCV(t) ==
  /\ pc[t] = "mutex"
  /\ IF Awaited(t) THEN Resume(t) ELSE Goto(t, "asleep") /\ UNCHANGED head
  /\ UNCHANGED <<calls, state, link_older, log_num, newest_writer_,
                 log_free_, serverVars, stop_, built, logVars>>

Notified_Lost(w, p) == p
Notified(w, p) == IF p[w] = "asleep" THEN [p EXCEPT ![w] = "mutex"] ELSE p

(* The compare_exchange fails only on STATE_LOCKED_WAITING, which stays    *)
(* until the store under StateMutex, so the two steps are one.  p is what  *)
(* the caller leaves in pc.                                                *)
SetState(w, new_state, p) ==
  /\ state' = [state EXCEPT ![w] = new_state]
  /\ pc' = Notified(w, p)

-----------------------------------------------------------------------------
(* The leader: WriteToLog, FSLogWriter and FinishGroup                     *)

WriteToLog_SkipLeader(t) == IF head[t] = t THEN <<>> ELSE <<Record(head[t])>>
WriteToLog(t) == <<Record(head[t])>>

(* FSLogWriter asserts that the group fits MAX_BUFFER_SIZE; nothing limits *)
(* a group, so this is an assumption on what the clients log.              *)
AppendData(t) ==
  /\ pc[t] = "append" /\ head[t] # Null
  /\ buffer' = [buffer EXCEPT ![log_num[t]] = @ \o WriteToLog(t)]
  /\ head' = [head EXCEPT ![t] = link_older[head[t]]]
  /\ UNCHANGED <<pc, calls, state, link_older, log_num,
                 newest_writer_, log_free_, serverVars, stop_, built, disk>>

(* write, fdatasync, and the buffer starts over.                           *)
AfterSync_Kept(l) == buffer
AfterSync(l) == [buffer EXCEPT ![l] = <<>>]

Sync(t) ==
  /\ pc[t] = "append" /\ head[t] = Null
  /\ LET l == log_num[t]
     IN  /\ disk' = [disk EXCEPT ![l] = @ \o buffer[l]]
         /\ buffer' = AfterSync(l)
  /\ Goto(t, "free")
  /\ UNCHANGED <<calls, state, link_older, log_num, head,
                 newest_writer_, log_free_, serverVars, stop_, built>>

FreeLog(t) ==
  /\ pc[t] = "free"
  /\ log_free_' = [log_free_ EXCEPT ![log_num[t]] = FALSE]
  /\ head' = [head EXCEPT ![t] = link_older[t]]
  /\ Goto(t, "finish")
  /\ UNCHANGED <<calls, state, link_older, log_num, newest_writer_,
                 serverVars, stop_, built, logVars>>

(* The older link is read before the writer is completed and may be gone.  *)
FinishGroup(t) ==
  /\ pc[t] = "finish"
  /\ IF head[t] = Null
       THEN Goto(t, "out") /\ UNCHANGED <<state, head>>
       ELSE /\ head' = [head EXCEPT ![t] = link_older[head[t]]]
            /\ SetState(head[t], "COMPLETED", pc)
  /\ UNCHANGED <<calls, link_older, log_num, newest_writer_,
                 log_free_, serverVars, stop_, built, logVars>>

-----------------------------------------------------------------------------
(* The server thread                                                       *)

(* The round starts with a look at newest_writer_ and ends with one at     *)
(* stop_.                                                                  *)
ServerPoll ==
  /\ spc = "poll"
  /\ spc' = IF newest_writer_ # Null THEN "leader" ELSE "stop"
  /\ target' = 0
  /\ UNCHANGED <<pc, calls, writerVars, newest_writer_, log_free_, stop_,
                 built, logVars>>

Take_Unmarked(l) == log_free_
Take(l) == [log_free_ EXCEPT ![l] = TRUE]

MoreLogs == target + 1 < logs_num_

(* compare_exchange_weak on one log after the other; on this build it does *)
(* not fail spuriously.                                                    *)
GetLeader ==
  /\ spc = "leader"
  /\ IF log_free_[target]
       THEN /\ target' = IF MoreLogs THEN target + 1 ELSE 0
            /\ spc' = IF MoreLogs THEN "leader" ELSE "stop"
            /\ UNCHANGED log_free_
       ELSE /\ log_free_' = Take(target)
            /\ spc' = "exchange"
            /\ UNCHANGED target
  /\ UNCHANGED <<pc, calls, writerVars, newest_writer_, stop_, built, logVars>>

(* The newest writer becomes the leader; a log taken for an empty stack is *)
(* given back.                                                             *)
ServerExchange ==
  /\ spc = "exchange"
  /\ newest_writer_' = Null
  /\ IF newest_writer_ # Null
       THEN /\ log_num' = [log_num EXCEPT ![newest_writer_] = target]
            /\ SetState(newest_writer_, "GROUP_LEADER", pc)
            /\ UNCHANGED log_free_
       ELSE /\ log_free_' = [log_free_ EXCEPT ![target] = FALSE]
            /\ UNCHANGED <<log_num, state, pc>>
  /\ spc' = "stop"
  /\ UNCHANGED <<calls, link_older, head, target, stop_, built,
                 logVars>>

ServerStop ==
  /\ spc = "stop"
  /\ spc' = IF stop_ THEN "exited" ELSE "poll"
  /\ UNCHANGED <<pc, calls, writerVars, newest_writer_, log_free_, target,
                 stop_, built, logVars>>

Server == ServerPoll \/ GetLeader \/ ServerExchange \/ ServerStop

Client(t) ==
  \/ AddToLink(t) \/ AwaitSpin(t) \/ AwaitLock(t) \/ AwaitCV(t)
  \/ AppendData(t) \/ Sync(t) \/ FreeLog(t) \/ FinishGroup(t)

Next ==
  \/ Construct \/ StopServer \/ Server
  \/ \E t \in Threads : AddLog(t) \/ Client(t)

(* The threads run, and the object is constructed; nobody has to call      *)
(* AddLog or the destructor.                                               *)
Spec ==
  /\ Init /\ [][Next]_vars
  /\ WF_vars(Construct) /\ WF_vars(Server)
  /\ \A t \in Threads : WF_vars(Client(t))

-----------------------------------------------------------------------------
(* Properties                                                              *)

(* Every variable has its type.                                            *)
TypeOK ==
  /\ pc \in [Threads -> {"out", "link", "await", "mutex", "asleep", "append",
                         "free", "finish"}]
  /\ calls \in [Threads -> 0..MaxCalls]
  /\ state \in [Threads -> States]
  /\ link_older \in [Threads -> Pointers]
  /\ log_num \in [Threads -> Logs \cup {NoLog}]
  /\ head \in [Threads -> Pointers]
  /\ newest_writer_ \in Pointers
  /\ log_free_ \in [Logs -> BOOLEAN]
  /\ spc \in {"poll", "leader", "exchange", "stop", "exited"}
  /\ target \in Logs
  /\ stop_ \in BOOLEAN
  /\ built \in {"no", "yes", "stopped"}
  /\ buffer \in [Logs -> Seq(Records)]
  /\ disk \in [Logs -> Seq(Records)]

Waits(t) == pc[t] \in {"await", "mutex", "asleep"}
Leads(t) == state[t] = "GROUP_LEADER"
            /\ (Waits(t) \/ pc[t] \in {"append", "free"})

(* A log belongs to one leader from the moment the server takes it until   *)
(* FinishGroup gives it back, and is given back with an empty buffer: the  *)
(* assertions of MakeGroup and FinishGroup, and why AppendData and Sync    *)
(* need no lock.                                                           *)
LogIsExclusive ==
  /\ \A t \in Threads : Leads(t) =>
       /\ log_free_[log_num[t]]
       /\ spc = "exchange" => target # log_num[t]
       /\ \A u \in Threads \ {t} : Leads(u) => log_num[u] # log_num[t]
  /\ \A l \in Logs : ~log_free_[l] => buffer[l] = <<>>

(* No record is written twice, neither to one log nor to two, although     *)
(* the groups are cut from a stack that grows while it is emptied.         *)
StoredOnce ==
  \A l, m \in Logs :
    LET a == disk[l] \o buffer[l]
        b == disk[m] \o buffer[m]
    IN  \A i \in DOMAIN a, j \in DOMAIN b : a[i] = b[j] => l = m /\ i = j

(* The writer and all writers it was linked to: those that are in every    *)
(* set that has w and that link_older does not leave.                      *)
Linked(w) ==
  {u \in Threads : \A S \in SUBSET Threads :
     w \in S \cup {Null} /\ (\A v \in S : link_older[v] \in S \cup {Null}) => u \in S}

Group(t) == IF pc[t] = "finish" THEN Linked(head[t])
            ELSE IF Leads(t) THEN Linked(t) ELSE {}

(* Every thread that waits is on the stack or in the group of exactly one  *)
(* leader that will still get to it, and nobody else is: no writer is      *)
(* forgotten, and none is touched after AddLog has returned and its stack  *)
(* frame is gone.                                                          *)
WaitersHaveOneLeader ==
  LET untold == {t \in Threads : Waits(t) /\ ~Awaited(t)}
      owners(t) == {u \in Threads : t \in Group(u)}
                     \cup (IF t \in Linked(newest_writer_) THEN {Null} ELSE {})
  IN  /\ \A t \in untold : \E o \in Pointers : owners(t) = {o}
      /\ \A t \in Threads : owners(t) # {} => t \in untold \/ Leads(t)

(* An AddLog returns once the server serves it, however the waiting writer *)
(* falls asleep against its SetState.  The exception is a server that read *)
(* stop_ before the constructor wrote it, and left.                        *)
AddLogReturns ==
  \A t \in Threads : pc[t] # "out" ~> (pc[t] = "out" \/ spc = "exited")

Service == INSTANCE LogService WITH
  added <- Added,
  durable <- UNION {Range(disk[l]) : l \in Logs},
  acked <- {r \in Records : \/ r[2] < calls[r[1]]
                            \/ r[2] = calls[r[1]] /\ pc[r[1]] = "out"}

(* AddLog returns only when its record is on the device, and every record  *)
(* gets there once: the group commit implements LogService.                *)
ImplementsLogService == Service!Spec

=============================================================================
