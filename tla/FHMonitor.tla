----------------------------- MODULE FHMonitor -----------------------------
(***************************************************************************)
(* The monitor thread of ConcurrentScalableCache, FastHashMonitor in       *)
(* hhvm-scalable-cache.h.  It watches the cache until it is stable, tries  *)
(* out on shard 0 and on the cache as a whole what freezing would bring,   *)
(* freezes shard by shard, watches the frozen cache, thaws it, and begins  *)
(* again, until monitor_stop sets should_stop.                             *)
(*                                                                         *)
(* Measured latencies and ratios are real numbers that the requests        *)
(* decide; a comparison of two of them is a choice here.  The counts of    *)
(* latency samples are kept, since the monitor waits for them and divides  *)
(* by them; samples is what GetStepSize returns.  A call on a shard takes  *)
(* time: one step calls, one returns.  A construct is taken to freeze at   *)
(* least one node: deconstruct goes by whether the frozen list is empty.   *)
(* The seconds of a sleep are not counted (SLEEP_THRESHOLD).               *)
(***************************************************************************)
EXTENDS Integers, Sequences, FiniteSets, SequencesExt

CONSTANTS
  m_numShards, PASS_THRESHOLD, WAIT_STABLE_THRESHOLD, FROZEN_THRESHOLD,
  LearnSamples, ConstructSamples, FrozenSamples,  \* 5, 100 and 50 in the code
  MaxSamples   \* bound: samples that come in between two looks of the monitor

ASSUME MonitorAssumption ==
  /\ m_numShards \in Nat \ {0} /\ PASS_THRESHOLD \in Nat \ {0}
  /\ WAIT_STABLE_THRESHOLD \in Nat \ {0} /\ FROZEN_THRESHOLD \in Nat \ {0}
  /\ {LearnSamples, ConstructSamples, FrozenSamples} \subseteq 1..MaxSamples
  /\ MaxSamples \in Nat

Shards == 0..m_numShards-1

VARIABLES
  mpc,                  \* where the monitor is
  shard,                \* [Shards -> states of ShardProtocol]
  should_stop, beginning_flag,
  wait_count, i,        \* locals: stable rounds, the index of a loop
  curve_container,      \* whether it holds a curve
  best_size,            \* "small": below 0.05; "all": 1; "part": in between
  construct_container, fail_list, pass_count, pass_len,
  construct_step, total_step, current_step,
  samples               \* latency samples since the last PrintStepLat

steps == <<construct_step, total_step, current_step>>
passes == <<construct_container, fail_list, pass_count, pass_len>>
vars == <<mpc, shard, should_stop, beginning_flag, wait_count, i,
          curve_container, best_size, passes, steps, samples>>

Init ==
  /\ mpc = "stable0" /\ shard = [x \in Shards |-> "thawed"]
  /\ should_stop = FALSE /\ beginning_flag = TRUE
  /\ wait_count = 0 /\ i = 0
  /\ curve_container = FALSE /\ best_size = "small"
  /\ construct_container = <<>> /\ fail_list = {} /\ pass_count = 0
  /\ pass_len = 0
  /\ construct_step = 0 /\ total_step = 0 /\ current_step = 0
  /\ samples = 0

-----------------------------------------------------------------------------
(* The requests and the client *)

Sample ==
  /\ samples < MaxSamples /\ ~should_stop
  /\ samples' = samples + 1
  /\ UNCHANGED <<mpc, shard, should_stop, beginning_flag, wait_count, i,
                 curve_container, best_size, passes, steps>>

(* warmup calls it after all workers are joined. *)
monitor_stop ==
  /\ ~should_stop
  /\ should_stop' = TRUE
  /\ UNCHANGED <<mpc, shard, beginning_flag, wait_count, i, curve_container,
                 best_size, passes, steps, samples>>

-----------------------------------------------------------------------------
(* Calls on the shards *)

setShard(x, st) == shard' = [shard EXCEPT ![x] = st]

(* A loop that calls deconstruct on every shard: the call returns at once  *)
(* ("no need to deconstruct!") on one that is not frozen.                  *)
lastDone_OneShort == i = m_numShards - 1
lastDone == i = m_numShards

DeconstructRound ==
  /\ ~lastDone
  /\ \/ /\ shard[i] = "thawed"
        /\ i' = i + 1 /\ UNCHANGED shard
     \/ /\ shard[i] = "frozen"
        /\ setShard(i, "thawing") /\ UNCHANGED i
     \/ /\ shard[i] = "thawing"
        /\ setShard(i, "thawed") /\ i' = i + 1
  /\ UNCHANGED mpc

DeconstructLoop(next) ==
  /\ \/ DeconstructRound
     \/ lastDone /\ mpc' = next /\ UNCHANGED <<i, shard>>
  /\ UNCHANGED <<should_stop, beginning_flag, wait_count, curve_container,
                 best_size, passes, steps, samples>>

(* The declarations behind the label WAIT_STABLE. *)
gotoWaitStable == mpc' = "stable0" /\ wait_count' = 0

(* Every wait for samples ends when the clients have stopped. *)
Enough_NoStop(n) == samples >= n
Enough_NoWait(n) == TRUE
Enough(n) == samples >= n \/ should_stop

-----------------------------------------------------------------------------
(* WAIT_STABLE: until the size no longer grows and the miss ratio no       *)
(* longer falls.                                                           *)

(* The first round never counts: last_miss_ratio is 1.5. *)
StableFirst ==
  /\ mpc = "stable0" /\ ~should_stop
  /\ mpc' = "stable" /\ samples' = 0
  /\ UNCHANGED <<shard, should_stop, beginning_flag, wait_count, i,
                 curve_container, best_size, passes, steps>>

StableRound(grows, falls) ==
  LET count == IF ~grows /\ ~falls THEN wait_count + 1 ELSE wait_count
      done == ~grows /\ count >= WAIT_STABLE_THRESHOLD
  IN  /\ mpc = "stable" /\ ~should_stop
      /\ wait_count' = count
      /\ mpc' = IF done THEN "curve" ELSE "stable"
      /\ beginning_flag' = (beginning_flag /\ ~done)
      /\ samples' = 0
      /\ UNCHANGED <<shard, should_stop, i, curve_container, best_size, passes,
                     steps>>

(* PrintGlobalLat forgets the samples, the first time only. *)
StableStop ==
  /\ mpc \in {"stable0", "stable"} /\ should_stop
  /\ mpc' = "curve" /\ beginning_flag' = FALSE
  /\ samples' = IF beginning_flag THEN 0 ELSE samples
  /\ UNCHANGED <<shard, should_stop, wait_count, i, curve_container, best_size,
                 passes, steps>>

-----------------------------------------------------------------------------
(* The search *)

(* get_curve is called on shard 0 unless should_stop. *)
CurveCall ==
  /\ mpc = "curve"
  /\ IF should_stop THEN mpc' = "learn" /\ UNCHANGED shard
                    ELSE mpc' = "curving" /\ setShard(0, "curve")
  /\ UNCHANGED <<should_stop, beginning_flag, wait_count, i, curve_container,
                 best_size, passes, steps, samples>>

(* It ends, with or without a point of the curve. *)
CurveReturn ==
  /\ mpc = "curving"
  /\ mpc' = "learn" /\ setShard(0, "thawed")
  /\ curve_container' \in BOOLEAN
  /\ UNCHANGED <<should_stop, beginning_flag, wait_count, i, best_size, passes,
                 steps, samples>>

(* The latency of the cache as it is.  The loop waits for samples of       *)
(* requests that missed; there are at least as many of all requests.       *)
Learn ==
  /\ mpc = "learn" /\ Enough(LearnSamples)
  /\ mpc' = "tierAll" /\ i' = 0
  /\ samples' = 0
  /\ UNCHANGED <<shard, should_stop, beginning_flag, wait_count, curve_container,
                 best_size, passes, steps>>

(* construct_tier on every shard ... *)
TierAll ==
  /\ mpc = "tierAll"
  /\ \/ /\ i < m_numShards /\ shard[i] # "building"
        /\ setShard(i, "building")
        /\ UNCHANGED <<i, mpc, samples>>
     \/ /\ i < m_numShards /\ shard[i] = "building"
        /\ setShard(i, "frozen") /\ i' = i + 1
        /\ UNCHANGED <<mpc, samples>>
     \/ /\ i = m_numShards
        /\ mpc' = "thawAll" /\ i' = 0 /\ samples' = 0
        /\ UNCHANGED shard
  /\ UNCHANGED <<should_stop, beginning_flag, wait_count, curve_container,
                 best_size, passes, steps>>

(* ... and, after a look at the latencies, deconstruct. *)
ThawAll == mpc = "thawAll" /\ DeconstructLoop("choose")

(* "not suitable for FH" *)
NotSuitable(size) == ~should_stop /\ size = "small"

(* The best point of the curve, or the whole cache, or nothing. *)
Choose ==
  /\ mpc = "choose"
  /\ best_size' \in IF curve_container THEN {"small", "part", "all"}
                                       ELSE {"small", "all"}
  /\ curve_container' = FALSE
  /\ mpc' = IF NotSuitable(best_size') THEN "sleepSearch" ELSE "construct"
  /\ UNCHANGED <<shard, should_stop, beginning_flag, wait_count, i, passes, steps,
                 samples>>

(* A second of a sleep, ended by a print, and the end of the sleep: to     *)
(* WAIT_STABLE, or on when should_stop.                                    *)
SleepRound(sleep) ==
  /\ mpc = sleep /\ ~should_stop
  /\ samples' = 0
  /\ UNCHANGED <<mpc, shard, should_stop, beginning_flag, wait_count, i,
                 curve_container, best_size, passes, steps>>

SleepEnd(sleep, next) ==
  /\ mpc = sleep
  /\ IF should_stop THEN mpc' = next /\ UNCHANGED wait_count ELSE gotoWaitStable
  /\ UNCHANGED <<shard, should_stop, beginning_flag, i, curve_container, best_size,
                 passes, steps, samples>>

-----------------------------------------------------------------------------
(* CONSTRUCT *)

Baseline ==
  /\ mpc = "construct" /\ Enough(ConstructSamples)
  /\ mpc' = "pass"
  /\ fail_list' = {} /\ pass_count' = 0
  /\ construct_container' = construct_container \o [n \in 1..m_numShards |-> n - 1]
  /\ construct_step' = samples /\ samples' = 0
  /\ UNCHANGED <<shard, should_stop, beginning_flag, wait_count, i, pass_len,
                 curve_container, best_size, total_step, current_step>>

PassBegin ==
  /\ mpc = "pass" /\ ~should_stop /\ construct_container # <<>>
  /\ pass_count < PASS_THRESHOLD
  /\ mpc' = "build" /\ i' = 0 /\ pass_len' = Len(construct_container)
  /\ UNCHANGED <<shard, should_stop, beginning_flag, wait_count, curve_container,
                 best_size, construct_container, fail_list, pass_count, steps,
                 samples>>

(* What is left after PASS_THRESHOLD passes has failed. *)
drained == <<>>

PassGiveUp ==
  /\ mpc = "pass" /\ ~should_stop /\ construct_container # <<>>
  /\ pass_count >= PASS_THRESHOLD
  /\ fail_list' = fail_list \cup Range(construct_container)
  /\ construct_container' = drained
  /\ mpc' = "passed"
  /\ UNCHANGED <<shard, should_stop, beginning_flag, wait_count, i, curve_container,
                 best_size, pass_count, pass_len, steps, samples>>

PassesDone ==
  /\ mpc = "pass" /\ (should_stop \/ construct_container = <<>>)
  /\ mpc' = "passed"
  /\ UNCHANGED <<shard, should_stop, beginning_flag, wait_count, i, curve_container,
                 best_size, passes, steps, samples>>

shard_id == Head(construct_container)
popped == Tail(construct_container)

(* construct_tier or construct_ratio on each shard of the pass. *)
Build ==
  /\ mpc = "build"
  /\ \/ /\ i < pass_len /\ shard[shard_id] # "building"
        /\ setShard(shard_id, "building")
        /\ UNCHANGED <<mpc, i, construct_container>>
     \/ /\ i < pass_len /\ shard[shard_id] = "building"
        /\ setShard(shard_id, "frozen")
        /\ construct_container' = Append(popped, shard_id)
        /\ i' = i + 1 /\ UNCHANGED mpc
     \/ /\ i = pass_len
        /\ mpc' = "judge" /\ i' = 0 /\ UNCHANGED <<shard, construct_container>>
  /\ UNCHANGED <<should_stop, beginning_flag, wait_count, curve_container, best_size,
                 fail_list, pass_count, pass_len, steps, samples>>

(* A shard that got faster leaves the container ... *)
JudgeGood ==
  /\ mpc = "judge" /\ i < pass_len
  /\ construct_container' = popped
  /\ i' = i + 1
  /\ UNCHANGED <<mpc, shard, should_stop, beginning_flag, wait_count,
                 curve_container, best_size, fail_list, pass_count, pass_len, steps,
                 samples>>

(* ... and one that did not goes back to its end and is thawed. *)
retried_Lost == popped
retried == Append(popped, shard_id)

JudgeBad ==
  /\ mpc = "judge" /\ i < pass_len
  /\ construct_container' = retried
  /\ setShard(shard_id, "thawing")
  /\ mpc' = "rethaw"
  /\ UNCHANGED <<should_stop, beginning_flag, wait_count, i, curve_container,
                 best_size, fail_list, pass_count, pass_len, steps, samples>>

JudgeThawed ==
  /\ mpc = "rethaw"
  /\ shard' = [x \in Shards |-> IF shard[x] = "thawing" THEN "thawed" ELSE shard[x]]
  /\ mpc' = "judge" /\ i' = i + 1
  /\ UNCHANGED <<should_stop, beginning_flag, wait_count, curve_container, best_size,
                 passes, steps, samples>>

countPass_Forgotten == pass_count
countPass == pass_count + 1

PassEnd ==
  /\ mpc = "judge" /\ i = pass_len
  /\ pass_count' = countPass
  /\ construct_step' = construct_step + samples /\ samples' = 0
  /\ mpc' = "pass"
  /\ UNCHANGED <<shard, should_stop, beginning_flag, wait_count, i, curve_container,
                 best_size, construct_container, fail_list, pass_len, total_step,
                 current_step>>

(* Back to WAIT_STABLE when every shard failed, otherwise on to the frozen *)
(* run.                                                                    *)
Passed ==
  /\ mpc = "passed"
  /\ IF ~should_stop /\ Cardinality(fail_list) = m_numShards
     THEN gotoWaitStable /\ UNCHANGED <<total_step, current_step>>
     ELSE /\ mpc' = "frozen" /\ total_step' = 0 /\ current_step' = 0
          /\ UNCHANGED wait_count
  /\ UNCHANGED <<shard, should_stop, beginning_flag, i, curve_container, best_size,
                 passes, construct_step, samples>>

-----------------------------------------------------------------------------
(* The frozen run *)

FrozenLook ==
  /\ mpc = "frozen"
  /\ IF should_stop THEN mpc' = "deconstruct" /\ i' = 0
                    ELSE mpc' = "check" /\ UNCHANGED i
  /\ UNCHANGED <<shard, should_stop, beginning_flag, wait_count, curve_container,
                 best_size, passes, steps, samples>>

(* performance_depletion is at most 0 ... *)
FrozenDepleted ==
  /\ mpc = "check" /\ Enough(FrozenSamples)
  /\ mpc' = "deconstruct" /\ i' = 0
  /\ samples' = 0
  /\ UNCHANGED <<shard, should_stop, beginning_flag, wait_count, curve_container,
                 best_size, passes, steps>>

(* ... or it is above 0, and good when above COUNT_THRESHOLD: refresh when *)
(* the frozen run is long enough, or at the end of a round that was not    *)
(* good.                                                                   *)
FrozenRun(good) ==
  LET total == total_step + samples
      current == current_step + samples
      refresh == total > construct_step * FROZEN_THRESHOLD
      round == current > construct_step
  IN  /\ mpc = "check" /\ Enough(FrozenSamples)
      /\ total_step' = total
      /\ current_step' = IF ~refresh /\ round /\ good THEN 0 ELSE current
      /\ IF refresh \/ (round /\ ~good) THEN mpc' = "refresh" /\ i' = 0
                                        ELSE mpc' = "frozen" /\ UNCHANGED i
      /\ samples' = 0
      /\ UNCHANGED <<shard, should_stop, beginning_flag, wait_count,
                     curve_container, best_size, passes, construct_step>>

Refresh == mpc = "refresh" /\ DeconstructLoop("construct")

(* DECONSTRUCT, and a sleep unless should_stop. *)
Deconstruct ==
  /\ mpc = "deconstruct"
  /\ DeconstructLoop(IF should_stop THEN "end" ELSE "sleepEnd")

-----------------------------------------------------------------------------

Sleep == \/ SleepRound("sleepSearch") \/ SleepEnd("sleepSearch", "construct")
         \/ SleepRound("sleepEnd") \/ SleepEnd("sleepEnd", "end")

Search == \/ StableFirst \/ \E g, f \in BOOLEAN : StableRound(g, f)
          \/ StableStop \/ CurveCall \/ CurveReturn \/ Learn
          \/ TierAll \/ ThawAll \/ Choose

ConstructPhase == \/ Baseline \/ PassBegin \/ PassGiveUp \/ PassesDone \/ Build
                  \/ JudgeGood \/ JudgeBad \/ JudgeThawed \/ PassEnd \/ Passed

FrozenPhase == \/ FrozenLook \/ FrozenDepleted
               \/ \E good \in BOOLEAN : FrozenRun(good)
               \/ Refresh \/ Deconstruct

FastHashMonitor == Search \/ Sleep \/ ConstructPhase \/ FrozenPhase

Next == FastHashMonitor \/ Sample \/ monitor_stop

(* The monitor is a thread that runs whenever it can, and its calls on the *)
(* shards end.  Nothing is assumed of the clients: they may never stop.    *)
Spec == Init /\ [][Next]_vars /\ WF_vars(FastHashMonitor)

-----------------------------------------------------------------------------
(* Properties *)

MaxConstruct == (PASS_THRESHOLD + 1) * MaxSamples
MaxTotal == MaxConstruct * FROZEN_THRESHOLD + MaxSamples

(* The variables stay within their types; the container holds a shard at   *)
(* most once, and a count of steps is bounded by the passes it sums up.    *)
TypeOK ==
  /\ mpc \in {"stable0", "stable", "curve", "curving", "learn", "tierAll",
              "thawAll", "choose", "sleepSearch", "construct", "pass", "build",
              "judge", "rethaw", "passed", "frozen", "check", "refresh",
              "deconstruct", "sleepEnd", "end"}
  /\ shard \in [Shards -> {"thawed", "curve", "building", "frozen", "thawing"}]
  /\ {should_stop, beginning_flag, curve_container} \subseteq BOOLEAN
  /\ wait_count \in 0..WAIT_STABLE_THRESHOLD
  /\ i \in 0..m_numShards /\ pass_len \in 0..m_numShards
  /\ best_size \in {"small", "part", "all"}
  /\ IsInjective(construct_container)
  /\ Range(construct_container) \subseteq Shards /\ fail_list \subseteq Shards
  /\ pass_count \in 0..PASS_THRESHOLD
  /\ construct_step \in 0..MaxConstruct
  /\ total_step \in 0..MaxTotal /\ current_step \in 0..MaxTotal
  /\ samples \in 0..MaxSamples

(* The assertion at CONSTRUCT, construct_container.empty(), however the    *)
(* monitor gets there; and every shard is thawed, so that the latencies    *)
(* measured there are a baseline.                                          *)
ConstructStartsClean ==
  mpc = "construct" => /\ construct_container = <<>>
                       /\ \A x \in Shards : shard[x] = "thawed"

(* Between passes and during the frozen run the shards that are not frozen *)
(* are those still to be tried and those given up: construct_container and *)
(* fail_list lose none and name no frozen one.                             *)
UnfrozenAreAccounted ==
  mpc \in {"pass", "passed", "frozen", "check"} =>
    {x \in Shards : shard[x] # "frozen"} = Range(construct_container) \cup fail_list

(* The frozen run divides by construct_step, "int(total_step /             *)
(* construct_step)", and compares with it: it has counted the samples that *)
(* CONSTRUCT waits for whenever a look at the frozen run is taken.         *)
StepsToDivideBy == mpc = "check" => construct_step >= ConstructSamples

(* construct_ratio is never called with a best_size that the search found  *)
(* not suitable, though CONSTRUCT is also reached from an interrupted      *)
(* sleep and, long after the search, from the frozen run.                  *)
NeverBuildsUnsuitable == mpc = "build" => best_size # "small"

(* When the monitor returns, every shard has been thawed. *)
EndsThawed == mpc = "end" => \A x \in Shards : shard[x] = "thawed"

Protocol == INSTANCE ShardProtocol WITH state <- shard

(* Each shard sees calls in the order ShardProtocol allows: no get_curve   *)
(* or construct on a shard that is frozen or in another call, which would  *)
(* fail their assertion that the frozen list is empty.                     *)
ShardsFollowProtocol == Protocol!Spec

(* monitor_stop is followed by a join of the monitor: once it is called    *)
(* the monitor returns, from every phase, although no more samples come.   *)
StopEnds == should_stop ~> mpc = "end"

(* The construct phase ends, whatever the shards' latencies are: no shard  *)
(* is tried more often than PASS_THRESHOLD allows.                         *)
PassesEnd == mpc = "pass" ~> mpc = "passed"

=============================================================================
