---------------------------- MODULE LogService ----------------------------
(* What a log server promises its clients, whichever way it batches: a     *)
(* record is stored once, and the call that adds it returns only when it   *)
(* is.  LoggingServer and SpdkLog are shown to implement it.               *)
CONSTANT Records

VARIABLES
  added,     \* records whose AddLog has been called
  durable,   \* records on the device
  acked      \* records whose client has been told that they are

svars == <<added, durable, acked>>

Init == added = {} /\ durable = {} /\ acked = {}

Add(r) ==
  /\ r \in Records \ added
  /\ added' = added \cup {r}
  /\ UNCHANGED <<durable, acked>>

(* A batch of added records reaches the device; nothing ever leaves it.    *)
Persist ==
  /\ durable \subseteq durable'
  /\ durable' \subseteq added
  /\ UNCHANGED <<added, acked>>

(* The clients of one or more durable records are told.                    *)
Ack ==
  /\ acked \subseteq acked'
  /\ acked' \subseteq durable
  /\ UNCHANGED <<added, durable>>

Next == Persist \/ Ack \/ \E r \in Records : Add(r)

Spec == Init /\ [][Next]_svars

=============================================================================
