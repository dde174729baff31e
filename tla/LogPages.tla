------------------------------ MODULE LogPages ------------------------------
(* The device, and the pages src/ssdlogging/spdk_logging_server.cc writes. *)
(* A buffer is a sequence of cells, <<kind, value, owner>>.  A Fixed32 is  *)
(* WIDTH cells wide, so that less than one Fixed32 can be left in a page;  *)
(* its value is in the first of them.  The owner, the request that a size  *)
(* or a byte of data belongs to, is there for the properties to look at.   *)
EXTENDS Integers, SequencesExt

CONSTANTS
  Requests,
  size_,      \* LoggingRequest::size_, a function on Requests
  PAGESIZE,   \* cells of a page
  WIDTH,      \* cells of a Fixed32
  DeviceEnd,  \* bound on the pages of the device
  Null

ASSUME PagesAssumption ==
  /\ Null \notin Requests
  /\ size_ \in [Requests -> Nat \ {0}]
  /\ WIDTH \in Nat \ {0}
  /\ PAGESIZE \in Nat /\ PAGESIZE > 2 * WIDTH
  /\ DeviceEnd \in Nat

VARIABLE disk   \* the pages of the device, from 1; page 0 is the metadata

Zero == <<"fixed32", 0, Null>>
Data(r, i) == <<"data", i, r>>
EncodeFixed32(v, r) == << <<"fixed32", v, r>> >> \o [i \in 1..(WIDTH - 1) |-> Zero]

(* Bytes that were not written as a number mean anything.                  *)
Garbage == 2^30
DecodeFixed32(page, pos) ==
  IF page[pos + 1][1] = "fixed32" THEN page[pos + 1][2] ELSE Garbage

EmptyPage == [i \in 1..PAGESIZE |-> Zero]
Stored(p) == IF p \in DOMAIN disk THEN disk[p] ELSE EmptyPage

-----------------------------------------------------------------------------
(* MemCopy.  left_in_page is PAGESIZE at the begin of a page, also where   *)
(* the code still has it at 0 and starts the page later.  A buf has no     *)
(* end here: the assertion of MemCopy that a batch fits MAX_BUFFER_SIZE is *)
(* an assumption on what the clients log.                                  *)

left_in_page(buf) == PAGESIZE - (Len(buf) % PAGESIZE)

Padded(buf) ==
  IF left_in_page(buf) = PAGESIZE THEN buf
  ELSE buf \o [i \in 1..left_in_page(buf) |-> Zero]

BeginPage(buf, logfile_seq) ==
  IF left_in_page(buf) = PAGESIZE THEN buf \o EncodeFixed32(logfile_seq, Null)
  ELSE buf

(* "size" is not allowed to be stored on two pages                         *)
PutSize_Split(buf, logfile_seq, r) ==
  BeginPage(buf, logfile_seq) \o EncodeFixed32(size_[r], r)
PutSize(buf, logfile_seq, r) ==
  BeginPage(IF left_in_page(buf) < WIDTH THEN Padded(buf) ELSE buf, logfile_seq)
    \o EncodeFixed32(size_[r], r)

PutData(buf, logfile_seq, r) ==
  FoldLeft(LAMBDA b, i : Append(BeginPage(b, logfile_seq), Data(r, i)),
           buf, [i \in 1..size_[r] |-> i])

MemCopy(batch, logfile_seq) ==
  Padded(FoldLeft(
    LAMBDA b, r : PutData(PutSize(b, logfile_seq, r), logfile_seq, r),
    <<>>, batch))

page_num(buf) == Len(buf) \div PAGESIZE
Page(buf, p) == SubSeq(buf, (p - 1) * PAGESIZE + 1, p * PAGESIZE)

(* The pages, counted from 1, that hold a part of request r.               *)
PagesOf(buf, r) ==
  {p \in 1..page_num(buf) : \E i \in 1..PAGESIZE : Page(buf, p)[i][3] = r}

=============================================================================
