---------------------------- MODULE SpdkRecovery ----------------------------
(* Recovery, src/ssdlogging/spdk_logging_recovery.cc: a reader thread      *)
(* keeps several reads of the device going and hands the pages, in order,  *)
(* through a ring buffer to a thread that cuts the log entries out of      *)
(* them.  The recovery server runs one reader per log, one log after the   *)
(* other.                                                                  *)
EXTENDS LogPages

CONSTANTS
  reader_num,   \* reads that can be going on, reader_num_
  ring_size     \* LogPageBuffer::size_

ASSUME RecoveryAssumption ==
  /\ reader_num \in Nat \ {0}
  /\ ring_size \in Nat /\ ring_size >= reader_num

VARIABLES
  mode,          \* the recovery server; "up" while there is none
  logs_,         \* ReadMetadata
  log,           \* the log that is read
  first_seq,
  rpc,           \* the reader: "send", "check" or "ended"
  stop,
  index,         \* the read it looks at
  sequence,      \* by read, its place in the ring buffer, or -1
  read,          \* by read, "free", "sent", "arrived" or "copied"
  writableSeq_, lastWrote_, lastRead_,
  buffer_,
  ppc,           \* ProcessData
  page, pos, log_tag_seq,
  log_entry,     \* the entry that continues on the next page
  recovered      \* entry_buffer_, all of it

readerVars == <<first_seq, rpc, stop, index, sequence, read>>
ringVars == <<writableSeq_, lastWrote_, lastRead_, buffer_>>
processVars == <<ppc, page, pos, log_tag_seq, log_entry, recovered>>
recoveryVars == <<mode, logs_, log, readerVars, ringVars, processVars>>

Reads == 0..(reader_num - 1)
NoEntry == [size |-> 0, log_tag_seq |-> 0, data |-> <<>>]

NoSequence == [i \in Reads |-> -1]
AllFree == [i \in Reads |-> "free"]

RecoveryInit ==
  /\ mode = "up" /\ logs_ = <<>> /\ log = 0
  /\ first_seq = 0 /\ rpc = "send" /\ stop = FALSE /\ index = 0
  /\ sequence = NoSequence /\ read = AllFree
  /\ writableSeq_ = 0 /\ lastWrote_ = -1 /\ lastRead_ = -1
  /\ buffer_ = [i \in 0..(ring_size - 1) |-> Null]
  /\ ppc = "first" /\ page = Null /\ pos = 0 /\ log_tag_seq = 0
  /\ log_entry = NoEntry /\ recovered = <<>>

-----------------------------------------------------------------------------
(* The recovery server                                                     *)

(* ReadMetadata's check, that a log starts where the one before it ends.   *)
Adjoining(logs) ==
  \A i \in 2..Len(logs) :
    logs[i - 1].end_lpn # 0 => logs[i - 1].end_lpn + 1 = logs[i].start_lpn

RecoveryServer(metadata) ==
  /\ mode' = IF Adjoining(metadata) THEN "reading" ELSE "assert"
  /\ logs_' = metadata
  /\ log' = 1
  /\ UNCHANGED <<readerVars, ringVars, processVars>>

(* The last log is read to an end that is found on the way.                *)
IsLast == log = Len(logs_)
end_lpn == IF IsLast THEN 0 ELSE logs_[log].end_lpn

(* The reader has ended: on to the next log, or to the end.                *)
Join ==
  /\ mode = "reading" /\ log = 1 /\ rpc = "ended"
  /\ IF IsLast
       THEN /\ mode' = "stopping"
            /\ UNCHANGED <<log, readerVars>>
       ELSE /\ log' = log + 1
            /\ first_seq' = writableSeq_
            /\ rpc' = "send" /\ stop' = FALSE /\ index' = 0
            /\ sequence' = NoSequence /\ read' = AllFree
            /\ UNCHANGED mode
  /\ UNCHANGED <<logs_, ringVars, processVars>>

(* read_threads still holds the reader of the first log, and a thread that *)
(* was joined cannot be joined again: the exception ends the process.      *)
JoinTwice ==
  /\ mode = "reading" /\ log > 1
  /\ mode' = "terminated"
  /\ UNCHANGED <<logs_, log, readerVars, ringVars, processVars>>

Finish ==
  /\ mode = "stopping" /\ ppc = "ended"
  /\ mode' = "done"
  /\ UNCHANGED <<logs_, log, readerVars, ringVars, processVars>>

-----------------------------------------------------------------------------
(* ReadFromSPDK                                                            *)

FreeReads == {i \in Reads : read[i] = "free"}
lpn_of(seq) == logs_[log].start_lpn + (seq - first_seq)
PastEnd(seq) == end_lpn # 0 /\ lpn_of(seq) > end_lpn

(* GetWriteSeq spins until the place in the ring was read.                 *)
Writable_OneEarly(seq) == seq - lastRead_ <= ring_size + 1
Writable_KeepOne(seq) == seq - lastRead_ < ring_size
Writable(seq) == seq - lastRead_ <= ring_size

ReaderSend ==
  /\ mode = "reading" /\ rpc = "send" /\ ~stop /\ FreeReads # {}
  /\ Writable(writableSeq_)
  /\ writableSeq_' = writableSeq_ + 1
  /\ IF PastEnd(writableSeq_)
       THEN /\ stop' = TRUE
            /\ UNCHANGED <<sequence, read>>
       ELSE /\ sequence' = [sequence EXCEPT ![Min(FreeReads)] = writableSeq_]
            /\ read' = [read EXCEPT ![Min(FreeReads)] = "sent"]
            /\ UNCHANGED stop
  /\ rpc' = "check" /\ index' = 0
  /\ UNCHANGED <<mode, logs_, log, first_seq, lastWrote_, lastRead_, buffer_,
                 processVars>>

ReaderSendNothing ==
  /\ mode = "reading" /\ rpc = "send" /\ (stop \/ FreeReads = {})
  /\ rpc' = IF stop /\ FreeReads = Reads THEN "ended" ELSE "check"
  /\ index' = 0
  /\ UNCHANGED <<mode, logs_, log, first_seq, stop, sequence, read, ringVars,
                 processVars>>

Arrive(i) ==
  /\ mode = "reading" /\ read[i] = "sent"
  /\ read' = [read EXCEPT ![i] = "arrived"]
  /\ UNCHANGED <<mode, logs_, log, first_seq, rpc, stop, index, sequence,
                 ringVars, processVars>>

(* Pages leave in the order of their places in the ring only.              *)
InOrder(i) == sequence[i] - 1 = lastWrote_

FinishWrite(i) ==
  /\ lastWrote_' = IF InOrder(i) THEN sequence[i] ELSE lastWrote_
  /\ read' = [read EXCEPT ![i] = IF InOrder(i) THEN "free" ELSE "copied"]
  /\ sequence' = [sequence EXCEPT ![i] = IF InOrder(i) THEN -1 ELSE @]

(* One read of the loop over them.  A page of another log is the end of    *)
(* the last log, and of any other log a failed assertion.                  *)
ReaderCheck ==
  /\ mode = "reading" /\ rpc = "check"
  /\ LET data == Stored(lpn_of(sequence[index]))
         ours == DecodeFixed32(data, 0) = logs_[log].seq
     IN  CASE read[index] = "arrived" ->
                /\ buffer_' = [buffer_ EXCEPT ![sequence[index] % ring_size] =
                                 IF ours THEN data ELSE Null]
                /\ stop' = (stop \/ ~ours)
                /\ mode' = IF ours \/ end_lpn = 0 THEN mode ELSE "assert"
                /\ FinishWrite(index)
           [] read[index] = "copied" ->
                /\ FinishWrite(index)
                /\ UNCHANGED <<buffer_, stop, mode>>
           [] OTHER -> UNCHANGED <<buffer_, stop, mode, lastWrote_, read, sequence>>
  /\ index' = (index + 1) % reader_num
  /\ rpc' = IF index + 1 = reader_num THEN "send" ELSE "check"
  /\ UNCHANGED <<logs_, log, first_seq, writableSeq_, lastRead_, processVars>>

-----------------------------------------------------------------------------
(* ProcessData                                                             *)

left == PAGESIZE - pos
Processing == mode \in {"reading", "stopping"}

(* LogPageBuffer::Read, which gives no page once the ring is empty and     *)
(* stopped.                                                                *)
Readable == lastRead_ < lastWrote_
GotNothing == ~Readable /\ mode = "stopping"

ReadPage ==
  /\ Readable
  /\ lastRead_' = lastRead_ + 1
  /\ page' = buffer_[(lastRead_ + 1) % ring_size]
  /\ UNCHANGED <<writableSeq_, lastWrote_, buffer_>>

(* Read of the first page, or of the page after a used up one.  The tag is *)
(* looked at only when the loop starts over.                               *)
NextPage ==
  /\ Processing /\ ppc \in {"first", "next", "size on next"}
  /\ \/ ReadPage
     \/ GotNothing /\ page' = Null /\ UNCHANGED ringVars
  /\ pos' = WIDTH
  /\ ppc' = CASE page' = Null -> "ended"
               [] page' # Null /\ ppc = "size on next" -> "size"
               [] OTHER -> "parse"
  /\ UNCHANGED <<mode, logs_, log, readerVars, log_tag_seq, log_entry, recovered>>

(* One turn of the loop: too little left for a size, padding, an entry     *)
(* that is all on this page, or the begin of one that is not.              *)
TooShort == left < WIDTH

Parse ==
  /\ Processing /\ ppc \in {"parse", "size"}
  /\ log_tag_seq' = IF ppc = "parse" /\ pos = WIDTH THEN DecodeFixed32(page, 0)
                    ELSE log_tag_seq
  /\ IF ppc = "parse" /\ TooShort
       THEN ppc' = "size on next" /\ UNCHANGED <<pos, log_entry, recovered>>
       ELSE LET size == DecodeFixed32(page, pos)
                from == pos + WIDTH
            IN  CASE size = 0 ->
                       ppc' = "next" /\ UNCHANGED <<pos, log_entry, recovered>>
                  [] size > 0 /\ PAGESIZE - from >= size ->
                       /\ recovered' = Append(recovered,
                            [size |-> size, log_tag_seq |-> log_tag_seq',
                             data |-> SubSeq(page, from + 1, from + size)])
                       /\ pos' = from + size
                       /\ ppc' = "parse"
                       /\ UNCHANGED log_entry
                  [] OTHER ->
                       /\ log_entry' =
                            [size |-> size, log_tag_seq |-> log_tag_seq',
                             data |-> SubSeq(page, from + 1, PAGESIZE)]
                       /\ pos' = PAGESIZE
                       /\ ppc' = "more"
                       /\ UNCHANGED recovered
  /\ UNCHANGED <<mode, logs_, log, readerVars, ringVars, page>>

(* The rest of an entry; assert(page != nullptr).                          *)
More ==
  /\ Processing /\ ppc = "more"
  /\ \/ ReadPage
     \/ GotNothing /\ page' = Null /\ UNCHANGED ringVars
  /\ IF page' = Null
       THEN mode' = "assert" /\ UNCHANGED <<ppc, pos, log_entry, recovered>>
       ELSE LET r    == log_entry.size - Len(log_entry.data)
                here == Min({r, PAGESIZE - WIDTH})
                all  == [log_entry EXCEPT !.data =
                           @ \o SubSeq(page', WIDTH + 1, WIDTH + here)]
            IN  /\ pos' = WIDTH + here
                /\ IF here = r
                     THEN /\ recovered' = Append(recovered, all)
                          /\ log_entry' = NoEntry /\ ppc' = "parse"
                     ELSE log_entry' = all /\ UNCHANGED <<recovered, ppc>>
                /\ UNCHANGED mode
  /\ UNCHANGED <<logs_, log, readerVars, log_tag_seq>>

Reader == ReaderSend \/ ReaderSendNothing \/ ReaderCheck
ProcessData == NextPage \/ Parse \/ More
Recovery == Join \/ JoinTwice \/ Finish
RecoveryNext ==
  Reader \/ (\E i \in Reads : Arrive(i)) \/ ProcessData \/ Recovery

=============================================================================
