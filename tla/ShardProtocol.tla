--------------------------- MODULE ShardProtocol ---------------------------
(***************************************************************************)
(* The order in which the monitor may call the FrozenHot shards (LRU_FH,   *)
(* FIFO_FH): get_curve, construct_tier and construct_ratio only on a shard *)
(* that is not frozen, whose frozen list they assert to be empty; and a    *)
(* frozen shard is thawed by deconstruct before any of them is called      *)
(* again.  The monitor of FrozenCache makes its calls in this order;       *)
(* FHMonitor, the code that makes them, is checked to implement Spec.      *)
(***************************************************************************)
CONSTANT Shards

VARIABLE state   \* [Shards -> what is being done with the shard]

step(x, from, to) == state[x] = from /\ state' = [state EXCEPT ![x] = to]

GetCurve(x) == step(x, "thawed", "curve") \/ step(x, "curve", "thawed")
Construct(x) == step(x, "thawed", "building") \/ step(x, "building", "frozen")
Deconstruct(x) == step(x, "frozen", "thawing") \/ step(x, "thawing", "thawed")

Init == state = [x \in Shards |-> "thawed"]

Next == \E x \in Shards : GetCurve(x) \/ Construct(x) \/ Deconstruct(x)

Spec == Init /\ [][Next]_state

=============================================================================
