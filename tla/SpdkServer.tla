----------------------------- MODULE SpdkServer -----------------------------
(* The SPDK log of src/ssdlogging/spdk_logging_server.cc: clients push     *)
(* requests on a stack, the server empties it into the buffer of a free    *)
(* slot of its pipeline and writes that to the next pages of the device.   *)
(* The device stores the pages of a write in any order.                    *)
(*                                                                         *)
(* There is one server.  What the caller, which is not part of this        *)
(* repository, has to see to is stated as Quiet and Room.                  *)
EXTENDS LogPages, FiniteSets

CONSTANTS
  pipeline_num,
  MAX_LPN_FOR_LOGGING,
  MaxLogs   \* bound on the logs created

LOGGING_START_LPN == 1
Slots == 0..(pipeline_num - 1)
Lpns == LOGGING_START_LPN..DeviceEnd
NoLeader == <<>>

ASSUME ServerAssumption ==
  /\ pipeline_num \in Nat \ {0}
  /\ MaxLogs \in Nat \ {0}
  /\ MAX_LPN_FOR_LOGGING \in Nat \ {0}
  /\ DeviceEnd > MAX_LPN_FOR_LOGGING

VARIABLES
  request,           \* "new", "sized", "added" or "completed"
  submission_queue,  \* the newest request first
  logfile_seq_,
  log_size_,
  alive_log_files_,  \* records with the members of struct Log
  owner,             \* the thread in CreateWAL or DeleteLog, or "idle"
  current_offset,
  spc,               \* where the server is in its loop
  leaders,           \* by slot, the requests linked by prev
  buffer,            \* by slot
  lpn,               \* by slot, the first page of the write
  on_the_way,        \* by slot, the pages the device has not stored yet
  metadata,          \* page 0 of the device
  home               \* the log and the pages each request went to

ownerVars == <<logfile_seq_, owner, metadata>>
logVars == <<log_size_, alive_log_files_>>
slotVars == <<leaders, buffer, lpn, on_the_way>>
serverVars == <<request, submission_queue, ownerVars, logVars, current_offset,
                spc, slotVars, disk, home>>

Log(seq, start) == [seq |-> seq, start_lpn |-> start, end_lpn |-> 0, size |-> 0]
Nowhere == [log |-> 0, pages |-> {}]

(* What WriteMetadata encodes.                                             *)
Encoded(logs) ==
  [i \in DOMAIN logs |-> [seq |-> logs[i].seq, start_lpn |-> logs[i].start_lpn,
                          end_lpn |-> logs[i].end_lpn]]

(* After the first CreateWAL, on a blank device.  The constructor does not *)
(* make it blank, and its SetLastLogfileSeq is commented out: that no page *)
(* of an earlier life carries a log number of this one is an assumption on *)
(* the owner, which chooses the numbers.                                   *)
ServerInit ==
  /\ request = [r \in Requests |-> "new"]
  /\ submission_queue = <<>>
  /\ logfile_seq_ = 1
  /\ log_size_ = 0
  /\ alive_log_files_ = <<Log(1, LOGGING_START_LPN)>>
  /\ owner = "idle"
  /\ current_offset = LOGGING_START_LPN
  /\ spc = "send"
  /\ leaders = [i \in Slots |-> NoLeader]
  /\ buffer = [i \in Slots |-> <<>>]
  /\ lpn = [i \in Slots |-> 0]
  /\ on_the_way = [i \in Slots |-> {}]
  /\ disk = [p \in Lpns |-> EmptyPage]
  /\ metadata = Encoded(alive_log_files_)
  /\ home = [r \in Requests |-> Nowhere]

-----------------------------------------------------------------------------
(* Clients                                                                 *)

AddSize(n) ==
  /\ log_size_' = log_size_ + n
  /\ alive_log_files_' =
       [alive_log_files_ EXCEPT ![Len(alive_log_files_)].size = @ + n]

(* AddLog counts the size first ...                                        *)
AddLog(r) ==
  /\ request[r] = "new" /\ owner # "CreateWAL"
  /\ AddSize(size_[r])
  /\ request' = [request EXCEPT ![r] = "sized"]
  /\ UNCHANGED <<submission_queue, ownerVars, current_offset, spc, slotVars,
                 disk, home>>

(* ... and pushes the request; a compare_exchange that fails only loads    *)
(* the stack again.                                                        *)
Push(r) ==
  /\ request[r] = "sized"
  /\ request' = [request EXCEPT ![r] = "added"]
  /\ submission_queue' = <<r>> \o submission_queue
  /\ UNCHANGED <<ownerVars, logVars, current_offset, spc, slotVars, disk, home>>

-----------------------------------------------------------------------------
(* The owner of the log                                                    *)

(* CreateWAL changes without a lock what AddLog, MemCopy and SPDKWrite     *)
(* read, so it has to be called when no request is on the way.             *)
Quiet == \A r \in Requests : request[r] \in {"new", "completed"}

(* The process ends with an assertion when nothing was ever written, or    *)
(* the log has just wrapped; to the log that is a crash.                   *)
CreateWAL ==
  /\ owner = "idle" /\ Quiet /\ logfile_seq_ < MaxLogs
  /\ current_offset > 1
  /\ logfile_seq_' = logfile_seq_ + 1
  /\ alive_log_files_' =
       Append([alive_log_files_ EXCEPT ![Len(alive_log_files_)].end_lpn = current_offset - 1],
              Log(logfile_seq_', current_offset))
  /\ owner' = "CreateWAL"
  /\ UNCHANGED <<request, submission_queue, metadata, log_size_, current_offset,
                 spc, slotVars, disk, home>>

Kept(min_log_number) ==
  SelectSeq(alive_log_files_, LAMBDA log : log.seq >= min_log_number)

(* log_size_ loses the sizes of the logs that go.                          *)
SizeLeft(min_log_number) ==
  log_size_ - FoldSeq(LAMBDA log, n : n + log.size, 0,
                SelectSeq(alive_log_files_,
                          LAMBDA log : log.seq < min_log_number))

DeleteLog(min_log_number) ==
  /\ owner = "idle"
  /\ alive_log_files_[1].seq < min_log_number /\ min_log_number <= logfile_seq_
  /\ log_size_' = SizeLeft(min_log_number)
  /\ alive_log_files_' = Kept(min_log_number)
  /\ owner' = "DeleteLog"
  /\ UNCHANGED <<request, submission_queue, logfile_seq_, metadata,
                 current_offset, spc, slotVars, disk, home>>

(* Both wait until the device has stored page 0.                           *)
WriteMetadata ==
  /\ owner # "idle"
  /\ metadata' = Encoded(alive_log_files_)
  /\ owner' = "idle"
  /\ UNCHANGED <<request, submission_queue, logfile_seq_, logVars,
                 current_offset, spc, slotVars, disk, home>>

-----------------------------------------------------------------------------
(* The server                                                              *)

(* lpn = fetch_add(current_offset, page_num), and the wrap.                *)
Advanced_OneShort(n) ==
  IF current_offset + n > MAX_LPN_FOR_LOGGING THEN LOGGING_START_LPN
  ELSE current_offset + n - 1
Advanced(n) ==
  IF current_offset + n > MAX_LPN_FOR_LOGGING THEN LOGGING_START_LPN
  ELSE current_offset + n

Seqs(logs) == {logs[i].seq : i \in DOMAIN logs}

(* Nothing in the code keeps a log that has wrapped from running into the  *)
(* first pages of a log that is not deleted, on the device too: the owner  *)
(* has to delete logs in time.                                             *)
Room(pages) ==
  \A log_ \in Range(alive_log_files_) \cup Range(metadata), r \in Requests :
    home[r].log = log_.seq /\ log_.start_lpn >= current_offset =>
      pages \cap home[r].pages = {}

Free == {i \in Slots : leaders[i] = NoLeader}

(* Take the first free slot, empty the stack, MemCopy and SPDKWrite.       *)
Send ==
  /\ spc = "send" /\ Free # {} /\ submission_queue # <<>>
  /\ LET i     == Min(Free)
         buf   == MemCopy(submission_queue, logfile_seq_)
         n     == page_num(buf)
     IN  /\ Room(current_offset..(current_offset + n - 1))
         /\ leaders' = [leaders EXCEPT ![i] = submission_queue]
         /\ buffer' = [buffer EXCEPT ![i] = buf]
         /\ lpn' = [lpn EXCEPT ![i] = current_offset]
         /\ on_the_way' = [on_the_way EXCEPT ![i] = 1..n]
         /\ current_offset' = Advanced(n)
         /\ home' = [r \in Requests |->
              IF r \notin Range(submission_queue) THEN home[r]
              ELSE [log |-> logfile_seq_,
                    pages |-> {current_offset + p - 1 : p \in PagesOf(buf, r)}]]
  /\ submission_queue' = <<>>
  /\ spc' = "check"
  /\ UNCHANGED <<request, ownerVars, logVars, disk>>

SendNothing ==
  /\ spc = "send" /\ (Free = {} \/ submission_queue = <<>>)
  /\ spc' = "check"
  /\ UNCHANGED <<request, submission_queue, ownerVars, logVars, current_offset,
                 slotVars, disk, home>>

(* completion_flag, as the callback sets it.                               *)
Finished_Submitted(i) == leaders[i] # NoLeader
Finished(i) == leaders[i] # NoLeader /\ on_the_way[i] = {}

(* The requests of every finished write go to the completion queue.        *)
CheckCompletion ==
  /\ spc = "check"
  /\ LET done == {i \in Slots : Finished(i)}
     IN  /\ request' = [r \in Requests |->
              IF \E i \in done : r \in Range(leaders[i]) THEN "completed"
              ELSE request[r]]
         /\ leaders' = [i \in Slots |-> IF i \in done THEN NoLeader ELSE leaders[i]]
         /\ buffer' = [i \in Slots |-> IF i \in done THEN <<>> ELSE buffer[i]]
         /\ lpn' = [i \in Slots |-> IF i \in done THEN 0 ELSE lpn[i]]
         /\ on_the_way' = [i \in Slots |-> IF i \in done THEN {} ELSE on_the_way[i]]
  /\ spc' = "send"
  /\ UNCHANGED <<submission_queue, ownerVars, logVars, current_offset, disk, home>>

(* stop_, or 30 seconds without a request.                                 *)
ServerExit ==
  /\ spc = "send"
  /\ spc' = "exited"
  /\ UNCHANGED <<request, submission_queue, ownerVars, logVars, current_offset,
                 slotVars, disk, home>>

(* The device stores a page.                                               *)
Store(i, p) ==
  /\ p \in on_the_way[i]
  /\ disk' = [disk EXCEPT ![lpn[i] + p - 1] = Page(buffer[i], p)]
  /\ on_the_way' = [on_the_way EXCEPT ![i] = @ \ {p}]
  /\ UNCHANGED <<request, submission_queue, ownerVars, logVars, current_offset,
                 spc, leaders, buffer, lpn, home>>

ServerNext ==
  \/ \E r \in Requests : AddLog(r) \/ Push(r)
  \/ CreateWAL \/ WriteMetadata
  \/ \E n \in 1..MaxLogs : DeleteLog(n)
  \/ Send \/ SendNothing \/ CheckCompletion \/ ServerExit
  \/ \E i \in Slots : \E p \in on_the_way[i] : Store(i, p)

=============================================================================
