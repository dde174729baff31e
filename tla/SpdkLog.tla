------------------------------ MODULE SpdkLog ------------------------------
(* The SPDK log through a crash: the server of SpdkServer runs until the   *)
(* process ends, at any moment and with writes on the way, and the         *)
(* recovery of SpdkRecovery reads what the device holds then.              *)
EXTENDS SpdkServer, SpdkRecovery

vars == <<serverVars, recoveryVars>>

Init == ServerInit /\ RecoveryInit

Run ==
  /\ mode = "up"
  /\ ServerNext
  /\ UNCHANGED recoveryVars

(* The memory of the process is gone; request and home stay for the        *)
(* properties to refer to.                                                 *)
Crash ==
  /\ mode = "up"
  /\ RecoveryServer(metadata)
  /\ submission_queue' = <<>> /\ spc' = "exited" /\ owner' = "idle"
  /\ logfile_seq_' = 0 /\ log_size_' = 0 /\ alive_log_files_' = <<>>
  /\ current_offset' = 0
  /\ leaders' = [i \in Slots |-> NoLeader]
  /\ buffer' = [i \in Slots |-> <<>>]
  /\ lpn' = [i \in Slots |-> 0]
  /\ on_the_way' = [i \in Slots |-> {}]
  /\ UNCHANGED <<request, disk, metadata, home>>

Recover ==
  /\ RecoveryNext
  /\ UNCHANGED serverVars

Next == Run \/ Crash \/ Recover

(* The threads of the recovery run, and the device answers their reads.    *)
Fairness ==
  /\ WF_vars(Reader /\ UNCHANGED serverVars)
  /\ WF_vars(ProcessData /\ UNCHANGED serverVars)
  /\ WF_vars(Recovery /\ UNCHANGED serverVars)
  /\ \A i \in Reads : WF_vars(Arrive(i) /\ UNCHANGED serverVars)

Spec == Init /\ [][Next]_vars /\ Fairness

-----------------------------------------------------------------------------
(* Every variable of the server and of the recovery has its type.          *)
TypeOK ==
  /\ request \in [Requests -> {"new", "sized", "added", "completed"}]
  /\ Range(submission_queue) \subseteq Requests
  /\ current_offset \in 0..MAX_LPN_FOR_LOGGING
  /\ spc \in {"send", "check", "exited"}
  /\ owner \in {"idle", "CreateWAL", "DeleteLog"}
  /\ \A i \in Slots : Range(leaders[i]) \subseteq Requests
  /\ \A r \in Requests : home[r].pages \subseteq Lpns
  /\ mode \in {"up", "reading", "stopping", "done", "terminated", "assert"}
  /\ rpc \in {"send", "check", "ended"}
  /\ sequence \in [Reads -> -1..writableSeq_]
  /\ read \in [Reads -> {"free", "sent", "arrived", "copied"}]
  /\ lastRead_ <= lastWrote_ /\ lastWrote_ < writableSeq_
  /\ ppc \in {"first", "parse", "size", "next", "size on next", "more", "ended"}
  /\ pos \in 0..PAGESIZE

Alive(r) == home[r].log \in Seqs(IF mode = "up" THEN alive_log_files_ ELSE logs_)

OnDisk(r) ==
  /\ home[r] # Nowhere
  /\ \A i \in 1..size_[r] : \E p \in home[r].pages :
       \E c \in 1..PAGESIZE : disk[p][c] = Data(r, i)

(* A request the client was told of is on the device, as long as its log   *)
(* was not deleted: neither another write nor the wrap has touched its     *)
(* pages, and the server has not told too early.                           *)
CompletedIsOnDisk ==
  \A r \in Requests : request[r] = "completed" /\ Alive(r) => OnDisk(r)

-----------------------------------------------------------------------------
(* What recovery has to find in the first of its logs: the requests whose  *)
(* pages are all in the unbroken run of the log's pages.                   *)

First == logs_[1]
RunEnd ==
  IF Len(logs_) > 1 THEN First.end_lpn
  ELSE LET Ours(p) == DecodeFixed32(Stored(p), 0) = First.seq
       IN  Min({p \in First.start_lpn..(DeviceEnd + 1) : ~Ours(p)}) - 1
RunPages == First.start_lpn..RunEnd

InFirst(r) == home[r].log = First.seq
Found(r) == InFirst(r) /\ home[r].pages \subseteq RunPages
Torn(r) == InFirst(r) /\ ~Found(r) /\ home[r].pages \cap RunPages # {}
Wrapped(r) == InFirst(r) /\ Min(home[r].pages) < First.start_lpn

Place(r) ==
  LET p == Min(home[r].pages)
  IN  <<p, CHOOSE c \in 1..PAGESIZE : disk[p][c] = <<"fixed32", size_[r], r>>>>

Before(q, r) ==
  LET a == Place(q)
      b == Place(r)
  IN  a[1] < b[1] \/ (a[1] = b[1] /\ a[2] < b[2])

(* What ProcessData makes of r, before GetLogEntry takes base_log_tag_seq_ *)
(* off the number.                                                         *)
Entry(r) == [size |-> size_[r], log_tag_seq |-> home[r].log,
             data |-> [i \in 1..size_[r] |-> Data(r, i)]]

Expected ==
  LET order == SetToSortSeq({r \in Requests : Found(r)}, Before)
  IN  [i \in DOMAIN order |-> Entry(order[i])]

(* However the reads are answered and however far the two threads drift    *)
(* apart, recovery gives the entries of the unbroken run of pages, whole,  *)
(* in the order of the log and nothing else; it gives all of them unless   *)
(* there is more than one log.  It fails only over an entry that was torn  *)
(* by the crash, or in the join of a second log.                           *)
RecoveryIsExact ==
  mode # "up" =>
    /\ IsPrefix(recovered, Expected)
    /\ mode = "done" => recovered = Expected
    /\ mode = "assert" => Len(logs_) = 1 /\ \E r \in Requests : Torn(r)
    /\ mode = "terminated" => Len(logs_) > 1

(* A request the client was told of is lost only behind a hole, a page of  *)
(* a write in another slot that the crash has caught, or when its log has  *)
(* wrapped, which the reader does not follow.                              *)
LostOnlyBehindHole ==
  mode = "done" => \A r \in Requests :
    request[r] = "completed" /\ InFirst(r) /\ Entry(r) \notin Range(recovered) =>
      \/ Wrapped(r)
      \/ \E q \in Requests : /\ InFirst(q) /\ request[q] # "completed"
                             /\ Min(home[q].pages) < Min(home[r].pages)

(* The recovery comes to an end: the reader never waits for a place in the *)
(* ring that only it could free, nor a page for one that was never read.   *)
RecoveryEnds ==
  mode = "reading" ~> mode \in {"done", "terminated", "assert"}

(* The recovery server goes through the logs of the metadata, the complete *)
(* ones up to their end_lpn and the last one until a page of another log:  *)
(* when it is over, what the client was told of in any of them is there.   *)
CompletedIsRecovered ==
  mode \in {"done", "terminated"} =>
    \A r \in Requests :
      request[r] = "completed" /\ Alive(r) => Entry(r) \in Range(recovered)

Service == INSTANCE LogService WITH
  Records <- Requests,
  added <- {r \in Requests : request[r] # "new"},
  durable <- {r \in Requests : OnDisk(r) \/ request[r] = "completed"},
  acked <- {r \in Requests : request[r] = "completed"}

(* A request is completed only when all its pages are stored: the SPDK     *)
(* log keeps the promise of LogService, through the crash.                 *)
ImplementsLogService == Service!Spec

=============================================================================
