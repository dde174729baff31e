-------------------------- MODULE FHMonitorProofs --------------------------
(* The monitor with any number of shards and any thresholds: it calls the  *)
(* shards in the order of ShardProtocol, and loses none of them.  The      *)
(* argument says for every place of the monitor what state each shard is   *)
(* in.  In the loops over all shards the index i tells them apart.  In the *)
(* construct phase it is the place of a shard in construct_container, a    *)
(* queue that turns while i counts: the shards still to be handled are its *)
(* first pass_len - i ones.                                                *)
EXTENDS FHMonitor, TLAPS, FiniteSetTheorems

(* The seconds a prover has for a step. *)
USE SMTT(30), ZenonT(30)

(* What the proofs use of TypeOK; no count of samples matters.             *)
Types ==
  /\ mpc \in {"stable0", "stable", "curve", "curving", "learn", "tierAll",
              "thawAll", "choose", "sleepSearch", "construct", "pass", "build",
              "judge", "rethaw", "passed", "frozen", "check", "refresh",
              "deconstruct", "sleepEnd", "end"}
  /\ shard \in [Shards -> {"thawed", "curve", "building", "frozen", "thawing"}]
  /\ i \in Nat /\ pass_len \in Nat
  /\ construct_container \in Seq(Shards)
  /\ fail_list \subseteq Shards

AllThawed == \A x \in Shards : shard[x] = "thawed"

Quiet == {"stable0", "stable", "curve", "learn", "choose", "sleepSearch",
          "construct", "sleepEnd", "end"}
Loops == {"thawAll", "refresh", "deconstruct"}
Trying == {"pass", "build", "judge", "rethaw"}

(* What CONSTRUCT found, or else should_stop, holds until the end of the    *)
(* frozen run.                                                              *)
FromConstruct == Trying \cup {"passed", "frozen", "check"}
FoundInv ==
  /\ samples \in Nat /\ construct_step \in Nat
  /\ mpc \in FromConstruct => construct_step >= ConstructSamples \/ should_stop
  /\ mpc = "check" => construct_step >= ConstructSamples
  /\ mpc \in FromConstruct \cup {"construct", "refresh"} =>
       best_size # "small" \/ should_stop
  /\ mpc = "build" => best_size # "small"

(* Every action keeps it; only CONSTRUCT measures anew. *)
LEMMA NextFoundInv == FoundInv /\ [Next]_vars => FoundInv'
<1> SUFFICES ASSUME FoundInv, [Next]_vars PROVE FoundInv'
  OBVIOUS
<1> USE MonitorAssumption DEF FoundInv, FromConstruct, Trying, steps
<1>1. CASE Sample \/ monitor_stop \/ UNCHANGED vars
  BY <1>1 DEF Sample, monitor_stop, vars
<1>2. CASE Search
  <2>1. CASE StableFirst \/ StableStop \/ \E g, f \in BOOLEAN : StableRound(g, f)
    BY <2>1 DEF StableFirst, StableRound, StableStop
  <2>2. CASE CurveCall \/ CurveReturn \/ Learn
    BY <2>2 DEF CurveCall, CurveReturn, Learn
  <2>3. CASE TierAll \/ ThawAll
    BY <2>3 DEF TierAll, ThawAll, DeconstructLoop, DeconstructRound
  <2>4. CASE Choose
    BY <2>4 DEF Choose, NotSuitable
  <2> HIDE DEF FoundInv
  <2> QED
    BY <1>2, <2>1, <2>2, <2>3, <2>4, Zenon DEF Search
<1>3. CASE Sleep
  BY <1>3 DEF Sleep, SleepRound, SleepEnd, gotoWaitStable
<1>4. CASE Baseline
  BY <1>4 DEF Baseline, Enough
<1>5. CASE PassBegin \/ PassGiveUp \/ PassesDone \/ Build
  BY <1>5 DEF PassBegin, PassGiveUp, PassesDone, Build
<1>6. CASE JudgeGood \/ JudgeBad \/ JudgeThawed \/ PassEnd
  BY <1>6 DEF JudgeGood, JudgeBad, JudgeThawed, PassEnd
<1>7. CASE Passed
  BY <1>7 DEF Passed, gotoWaitStable
<1>8. CASE FrozenLook \/ FrozenDepleted \/ Refresh
  BY <1>8 DEF FrozenLook, FrozenDepleted, Refresh, DeconstructLoop, DeconstructRound
<1>10. CASE Deconstruct
  BY <1>10 DEF Deconstruct, DeconstructLoop, DeconstructRound
<1>9. CASE \E good \in BOOLEAN : FrozenRun(good)
  BY <1>9 DEF FrozenRun
<1> HIDE DEF FoundInv
<1> QED
  BY <1>1, <1>2, <1>3, <1>4, <1>5, <1>6, <1>7, <1>8, <1>9, <1>10, Zenon
     DEF Next, FastHashMonitor, ConstructPhase, FrozenPhase

(* The frozen run never divides by a construct_step of zero, though a stop  *)
(* may leave one behind, and construct_ratio is never called with a size    *)
(* that the search found not suitable.                                      *)
THEOREM FrozenRunIsFounded == Spec => [](StepsToDivideBy /\ NeverBuildsUnsuitable)
<1>1. Init => FoundInv
  BY DEF Init, FoundInv, FromConstruct, Trying
<1>2. FoundInv => StepsToDivideBy /\ NeverBuildsUnsuitable
  BY DEF FoundInv, StepsToDivideBy, NeverBuildsUnsuitable
<1> QED
  BY <1>1, <1>2, NextFoundInv, PTL DEF Spec

-----------------------------------------------------------------------------
(* Outside the construct phase, and in the loops over all shards.          *)
QuietInv == mpc \in Quiet => AllThawed
CurveInv ==
  mpc = "curving" =>
    /\ shard[0] = "curve"
    /\ \A x \in Shards \ {0} : shard[x] = "thawed"
TierInv ==
  mpc = "tierAll" =>
    /\ i <= m_numShards
    /\ \A x \in Shards : /\ x < i => shard[x] = "frozen"
                         /\ x = i => shard[x] \in {"thawed", "building"}
                         /\ x > i => shard[x] = "thawed"
LoopInv ==
  mpc \in Loops =>
    /\ i <= m_numShards
    /\ \A x \in Shards : /\ x < i => shard[x] = "thawed"
                         /\ x = i => shard[x] \in {"thawed", "frozen", "thawing"}
                         /\ x > i => shard[x] \in {"thawed", "frozen"}

(* A shard is in the queue at most once.  The queue is left non-empty only *)
(* when the monitor is told to stop, and then it does not get back to      *)
(* CONSTRUCT.                                                              *)
QueueInv ==
  /\ \A p, q \in 1..Len(construct_container) :
       construct_container[p] = construct_container[q] => p = q
  /\ mpc \notin Trying =>
       \/ construct_container = <<>>
       \/ should_stop /\ mpc \in {"passed", "frozen", "deconstruct", "end"}

(* In the construct phase a shard that is not in the queue is frozen.      *)
AtPlace(p) == shard[construct_container[p]]
Left == pass_len - i
OthersFrozen ==
  mpc \in Trying =>
    /\ fail_list = {}
    /\ \A x \in Shards \ Range(construct_container) : shard[x] = "frozen"
PassInv ==
  mpc = "pass" =>
    \A p \in 1..Len(construct_container) : AtPlace(p) = "thawed"
BuildInv ==
  mpc = "build" =>
    /\ i <= pass_len /\ pass_len = Len(construct_container)
    /\ \A p \in 1..Len(construct_container) :
         /\ p > Left => AtPlace(p) = "frozen"
         /\ p <= Left => AtPlace(p) = "thawed" \/ (p = 1 /\ AtPlace(p) = "building")
JudgeInv ==
  mpc = "judge" =>
    /\ i <= pass_len /\ Left <= Len(construct_container)
    /\ \A p \in 1..Len(construct_container) :
         AtPlace(p) = IF p <= Left THEN "frozen" ELSE "thawed"
RethawInv ==
  mpc = "rethaw" =>
    /\ i < pass_len /\ Left <= Len(construct_container)
    /\ \A p \in 1..Len(construct_container) :
         AtPlace(p) = IF p <= Left - 1 THEN "frozen"
                      ELSE IF p = Len(construct_container) THEN "thawing" ELSE "thawed"
PassedInv ==
  mpc \in {"passed", "frozen", "check"} =>
    \A x \in Shards :
      shard[x] = IF x \in Range(construct_container) \cup fail_list THEN "thawed"
                                                                     ELSE "frozen"

SearchInv == QuietInv /\ CurveInv /\ TierInv /\ LoopInv
PhaseInv == OthersFrozen /\ PassInv /\ BuildInv /\ JudgeInv /\ RethawInv /\ PassedInv
IInv == Types /\ SearchInv /\ QueueInv /\ PhaseInv

(* The queue turns: its first shard goes to the end. *)
LEMMA TurnLemma ==
  ASSUME NEW S, NEW c \in Seq(S), c # <<>>
  PROVE  LET d == Append(Tail(c), Head(c))
         IN  /\ d \in Seq(S) /\ Len(d) = Len(c) /\ Len(c) \in Nat \ {0}
             /\ \A p \in 1..(Len(c) - 1) : d[p] = c[p + 1]
             /\ d[Len(c)] = c[1]
             /\ Range(d) = Range(c)
<1> DEFINE d == Append(Tail(c), Head(c))
<1>1. /\ d \in Seq(S) /\ Len(d) = Len(c) /\ Len(c) \in Nat \ {0}
      /\ \A p \in 1..(Len(c) - 1) : d[p] = c[p + 1]
      /\ d[Len(c)] = c[1]
  OBVIOUS
<1>2. DOMAIN c = 1..Len(c) /\ DOMAIN d = 1..Len(c)
  BY <1>1
<1> HIDE DEF d
<1>3. Range(d) \subseteq Range(c)
  BY <1>1, <1>2 DEF Range
<1>4. ASSUME NEW p \in 1..Len(c) PROVE c[p] \in Range(d)
  <2>1. CASE p = 1
    BY <1>1, <1>2, <2>1 DEF Range
  <2>2. CASE p # 1
    <3>1. p - 1 \in 1..(Len(c) - 1) /\ d[p - 1] = c[p]
      BY <1>1, <2>2
    <3> QED
      BY <1>1, <1>2, <3>1 DEF Range
  <2> QED
    BY <2>1, <2>2
<1>5. Range(c) \subseteq Range(d)
  BY <1>2, <1>4 DEF Range
<1>6. Range(d) = Range(c)
  BY <1>3, <1>5, Zenon
<1> QED
  BY <1>1, <1>6 DEF d

(* The first shard leaves the queue. *)
LEMMA PopLemma ==
  ASSUME NEW S, NEW c \in Seq(S), c # <<>>
  PROVE  /\ Tail(c) \in Seq(S) /\ Len(Tail(c)) = Len(c) - 1 /\ Len(c) \in Nat \ {0}
         /\ \A p \in 1..(Len(c) - 1) : Tail(c)[p] = c[p + 1]
         /\ Range(c) = Range(Tail(c)) \cup {c[1]}
<1> DEFINE d == Tail(c)
<1>1. /\ d \in Seq(S) /\ Len(d) = Len(c) - 1 /\ Len(c) \in Nat \ {0}
      /\ \A p \in 1..(Len(c) - 1) : d[p] = c[p + 1]
  OBVIOUS
<1>2. DOMAIN c = 1..Len(c) /\ DOMAIN d = 1..(Len(c) - 1)
  BY <1>1
<1> HIDE DEF d
<1>3. Range(d) \cup {c[1]} \subseteq Range(c)
  BY <1>1, <1>2 DEF Range
<1>4. ASSUME NEW p \in 1..Len(c), p # 1 PROVE c[p] \in Range(d)
  <2>1. p - 1 \in 1..(Len(c) - 1) /\ d[p - 1] = c[p]
    BY <1>1, <1>4
  <2> QED
    BY <1>2, <2>1 DEF Range
<1>5. Range(c) \subseteq Range(d) \cup {c[1]}
  BY <1>2, <1>4 DEF Range
<1> QED
  BY <1>1, <1>3, <1>5 DEF d

(* The monitor starts with every shard thawed and an empty queue. *)
LEMMA InitIInv == Init => IInv
<1> SUFFICES ASSUME Init PROVE IInv
  OBVIOUS
<1>1. Types
  BY MonitorAssumption DEF Init, Types
<1>2. SearchInv
  BY MonitorAssumption DEF Init, SearchInv, QuietInv, CurveInv, TierInv, LoopInv, AllThawed, Quiet,
     Loops
<1>3. QueueInv /\ PhaseInv
  BY DEF Init, QueueInv, PhaseInv, OthersFrozen, PassInv, BuildInv, JudgeInv, RethawInv,
     PassedInv, AtPlace, Left, Trying
<1> QED
  BY <1>1, <1>2, <1>3 DEF IInv

(* Nothing but the samples, the counts or should_stop changes. *)
LEMMA StillLemma ==
  ASSUME IInv, UNCHANGED <<mpc, shard, i, passes>>, should_stop => should_stop'
  PROVE  IInv'
<1> USE MonitorAssumption DEF IInv, passes
<1>1. Types'
  BY DEF Types
<1>2. SearchInv'
  BY DEF SearchInv, QuietInv, CurveInv, TierInv, LoopInv, AllThawed, Quiet,
     Loops
<1>3. QueueInv'
  BY DEF QueueInv, Trying
<1>4. PhaseInv'
  BY DEF PhaseInv, OthersFrozen, PassInv, BuildInv, JudgeInv, RethawInv,
     PassedInv, AtPlace, Left, Trying
<1> QED
  BY <1>1, <1>2, <1>3, <1>4

(* From one place where every shard is thawed to another. *)
LEMMA QuietLemma ==
  ASSUME IInv, mpc \in Quiet \ {"end"}, mpc' \in Quiet,
         UNCHANGED <<shard, i, passes>>
  PROVE  IInv'
<1> USE MonitorAssumption DEF IInv, passes, Quiet
<1>1. Types'
  BY DEF Types
<1>2. SearchInv'
  BY DEF SearchInv, QuietInv, CurveInv, TierInv, LoopInv, AllThawed, Quiet,
     Loops
<1>3. QueueInv'
  BY DEF QueueInv, Trying
<1>4. PhaseInv'
  BY DEF PhaseInv, OthersFrozen, PassInv, BuildInv, JudgeInv, RethawInv,
     PassedInv, AtPlace, Left, Trying
<1> QED
  BY <1>1, <1>2, <1>3, <1>4

(* get_curve is called on a thawed shard. *)
LEMMA CurveCallLemma ==
  ASSUME IInv, CurveCall
  PROVE  IInv'
<1> USE MonitorAssumption DEF IInv, CurveCall, setShard, passes, Shards
<1>1. Types'
  BY DEF Types
<1>2. SearchInv'
  BY DEF Types, SearchInv, QuietInv, CurveInv, TierInv, LoopInv, AllThawed, Quiet,
     Loops
<1>3. QueueInv'
  BY DEF QueueInv, Trying
<1>4. PhaseInv'
  BY DEF PhaseInv, OthersFrozen, PassInv, BuildInv, JudgeInv, RethawInv,
     PassedInv, AtPlace, Left, Trying
<1> QED
  BY <1>1, <1>2, <1>3, <1>4

(* get_curve returns. *)
LEMMA CurveReturnLemma ==
  ASSUME IInv, CurveReturn
  PROVE  IInv'
<1> USE MonitorAssumption DEF IInv, CurveReturn, setShard, passes, Shards
<1>1. Types'
  BY DEF Types
<1>2. SearchInv'
  BY DEF Types, SearchInv, QuietInv, CurveInv, TierInv, LoopInv, AllThawed, Quiet,
     Loops
<1>3. QueueInv'
  BY DEF QueueInv, Trying
<1>4. PhaseInv'
  BY DEF PhaseInv, OthersFrozen, PassInv, BuildInv, JudgeInv, RethawInv,
     PassedInv, AtPlace, Left, Trying
<1> QED
  BY <1>1, <1>2, <1>3, <1>4, SMTT(20)

(* The loop over all shards starts with every shard thawed. *)
LEMMA LearnLemma ==
  ASSUME IInv, Learn
  PROVE  IInv'
<1> USE MonitorAssumption DEF IInv, Learn, passes
<1>1. Types'
  BY DEF Types
<1>2. SearchInv'
  BY DEF Shards, SearchInv, QuietInv, CurveInv, TierInv, LoopInv, AllThawed, Quiet,
     Loops
<1>3. QueueInv'
  BY DEF QueueInv, Trying
<1>4. PhaseInv'
  BY DEF PhaseInv, OthersFrozen, PassInv, BuildInv, JudgeInv, RethawInv,
     PassedInv, AtPlace, Left, Trying
<1> QED
  BY <1>1, <1>2, <1>3, <1>4

(* Shard i is built, and i moves behind it; at the end all are frozen. *)
LEMMA TierAllLemma ==
  ASSUME IInv, TierAll
  PROVE  IInv'
<1> USE MonitorAssumption DEF IInv, TierAll, setShard, passes, Shards
<1>1. Types'
  BY DEF Types
<1>2. SearchInv'
  <2>1. TierInv'
    BY DEF Types, SearchInv, TierInv
  <2>2. LoopInv'
    BY DEF Types, SearchInv, TierInv, LoopInv, Loops
  <2> QED
    BY <2>1, <2>2 DEF SearchInv, QuietInv, CurveInv, Quiet
<1>3. QueueInv'
  BY DEF QueueInv, Trying
<1>4. PhaseInv'
  BY DEF PhaseInv, OthersFrozen, PassInv, BuildInv, JudgeInv, RethawInv,
     PassedInv, AtPlace, Left, Trying
<1> QED
  BY <1>1, <1>2, <1>3, <1>4

(* Shard i is thawed, and i moves behind it; at the end all are. *)
LEMMA DeconstructLemma ==
  ASSUME IInv, NEW next \in {"choose", "construct", "sleepEnd", "end"},
         mpc \in Loops, DeconstructLoop(next),
         next = "end" => should_stop,
         next # "end" => mpc # "deconstruct" \/ ~should_stop
  PROVE  IInv'
<1> USE MonitorAssumption DEF IInv, DeconstructLoop, DeconstructRound, lastDone, setShard,
        passes, Loops, Shards
<1>1. Types'
  <2>1. shard' \in [Shards -> {"thawed", "curve", "building", "frozen", "thawing"}]
    BY DEF Types
  <2>2. i' \in Nat /\ mpc' \in Loops \cup {next}
    BY DEF Types
  <2> QED
    BY <2>1, <2>2 DEF Types
<1>2. SearchInv'
  <2>1. CASE DeconstructRound
    <3>1. /\ i \in Shards /\ i < m_numShards
          /\ \A x \in Shards : /\ x < i => shard[x] = "thawed"
                               /\ x > i => shard[x] \in {"thawed", "frozen"}
      BY <2>1 DEF SearchInv, LoopInv, Types
    <3>2. LoopInv'
      <4>1. CASE shard[i] = "thawed" /\ i' = i + 1 /\ UNCHANGED shard
        BY <3>1, <4>1 DEF LoopInv
      <4>2. CASE setShard(i, "thawing") /\ UNCHANGED i
        BY <3>1, <4>2 DEF LoopInv, Types
      <4>3. CASE setShard(i, "thawed") /\ i' = i + 1
        BY <3>1, <4>3 DEF LoopInv, Types
      <4> QED
        BY <2>1, <4>1, <4>2, <4>3
    <3>3. mpc' \in Loops
      BY <2>1
    <3> QED
      BY <3>2, <3>3 DEF SearchInv, QuietInv, CurveInv, TierInv, Quiet
  <2>2. CASE lastDone /\ mpc' = next /\ UNCHANGED <<i, shard>>
    <3>1. AllThawed'
      BY <2>2 DEF SearchInv, LoopInv, AllThawed
    <3> QED
      BY <2>2, <3>1 DEF SearchInv, QuietInv, CurveInv, TierInv, LoopInv, Quiet
  <2> QED
    BY <2>1, <2>2
<1>3. QueueInv'
  BY DEF QueueInv, Trying
<1>4. PhaseInv'
  BY DEF PhaseInv, OthersFrozen, PassInv, BuildInv, JudgeInv, RethawInv,
     PassedInv, AtPlace, Left, Trying
<1> QED
  BY <1>1, <1>2, <1>3, <1>4

(* CONSTRUCT puts every shard into the empty queue. *)
LEMMA BaselineLemma ==
  ASSUME IInv, Baseline
  PROVE  IInv'
<1> DEFINE c == [n \in 1..m_numShards |-> n - 1]
<1>1. construct_container' = c
  <2>1. construct_container = <<>>
    BY DEF Baseline, IInv, QueueInv, Trying
  <2>2. c \in Seq(Shards)
    BY MonitorAssumption DEF Shards
  <2> QED
    BY <2>1, <2>2 DEF Baseline
<1>2. c \in Seq(Shards) /\ Len(c) = m_numShards /\ DOMAIN c = 1..m_numShards
  BY MonitorAssumption DEF Shards
<1>3. \A p \in 1..m_numShards : c[p] = p - 1
  OBVIOUS
<1>4. \A x \in Shards : x + 1 \in 1..m_numShards /\ c[x + 1] = x
  BY MonitorAssumption DEF Shards
<1> HIDE DEF c
<1>5. Shards \subseteq Range(c)
  BY <1>2, <1>4 DEF Range
<1>6. Types'
  BY <1>1, <1>2, Zenon DEF IInv, Types, Baseline
<1>7. SearchInv'
  BY DEF Baseline, SearchInv, QuietInv, CurveInv, TierInv, LoopInv, AllThawed, Quiet,
     Loops
<1>8. QueueInv'
  BY <1>1, <1>2, <1>3 DEF QueueInv, Trying, Baseline
<1>9. PhaseInv'
  <2>1. OthersFrozen'
    BY <1>1, <1>5, Zenon DEF OthersFrozen, Baseline
  <2>2. PassInv'
    BY <1>1, <1>2, <1>3, MonitorAssumption DEF PassInv, AtPlace, Baseline, IInv, SearchInv,
       QuietInv, AllThawed, Quiet, Shards
  <2> QED
    BY <2>1, <2>2 DEF Baseline, PhaseInv, BuildInv, JudgeInv, RethawInv, PassedInv
<1> QED
  BY <1>6, <1>7, <1>8, <1>9 DEF IInv

(* A pass starts to build the shards of the queue, which are thawed. *)
LEMMA PassBeginLemma ==
  ASSUME IInv, PassBegin
  PROVE  IInv'
<1> USE MonitorAssumption DEF IInv, PassBegin
<1>1. Types'
  BY DEF Types
<1>2. SearchInv'
  BY DEF SearchInv, QuietInv, CurveInv, TierInv, LoopInv, AllThawed, Quiet,
     Loops
<1>3. QueueInv'
  BY DEF QueueInv, Trying
<1>4. PhaseInv'
  BY DEF PhaseInv, OthersFrozen, PassInv, BuildInv, JudgeInv, RethawInv,
     PassedInv, AtPlace, Left, Trying
<1> QED
  BY <1>1, <1>2, <1>3, <1>4

(* What is in the queue is given up; the queue becomes the fail list. *)
LEMMA PassGiveUpLemma ==
  ASSUME IInv, PassGiveUp
  PROVE  IInv'
<1> USE MonitorAssumption DEF IInv, PassGiveUp, drained
<1>1. Types'
  BY DEF Types, Range
<1>2. SearchInv'
  BY DEF SearchInv, QuietInv, CurveInv, TierInv, LoopInv, AllThawed, Quiet,
     Loops
<1>3. QueueInv'
  BY DEF QueueInv, Trying
<1>4. PhaseInv'
  BY DEF PhaseInv, OthersFrozen, PassInv, BuildInv, JudgeInv, RethawInv,
     PassedInv, AtPlace, Left, Trying, Types, Range
<1> QED
  BY <1>1, <1>2, <1>3, <1>4

(* Everything built, or told to stop. *)
LEMMA PassesDoneLemma ==
  ASSUME IInv, PassesDone
  PROVE  IInv'
<1> USE MonitorAssumption DEF IInv, PassesDone, passes
<1>1. Types'
  BY DEF Types
<1>2. SearchInv'
  BY DEF SearchInv, QuietInv, CurveInv, TierInv, LoopInv, AllThawed, Quiet,
     Loops
<1>3. QueueInv'
  BY DEF QueueInv, Trying
<1>4. PhaseInv'
  BY DEF PhaseInv, OthersFrozen, PassInv, BuildInv, JudgeInv, RethawInv,
     PassedInv, AtPlace, Left, Trying, Types, Range
<1> QED
  BY <1>1, <1>2, <1>3, <1>4

(* The head of the queue is built and goes to its end. *)
LEMMA BuildLemma ==
  ASSUME IInv, Build
  PROVE  IInv'
<1> DEFINE c == construct_container
<1>1. c \in Seq(Shards) /\ mpc = "build"
  BY DEF IInv, Types, Build
<1>2. CASE i < pass_len
  <2>1. c # <<>> /\ Len(c) \in Nat \ {0} /\ shard_id = c[1] /\ c[1] \in Shards
    BY <1>1, <1>2 DEF IInv, PhaseInv, BuildInv, Types, shard_id
  <2>2. CASE shard[shard_id] # "building"
    <3>1. shard' = [shard EXCEPT ![c[1]] = "building"] /\ UNCHANGED <<mpc, i, passes>>
      BY <1>1, <1>2, <2>1, <2>2 DEF Build, setShard, passes, IInv, PhaseInv, BuildInv, Types
    <3>2. shard[c[1]] = "thawed"
      BY <1>1, <1>2, <2>1, <2>2 DEF IInv, PhaseInv, BuildInv, AtPlace, Left, Types
    <3>3. Types'
      BY <2>1, <3>1 DEF IInv, Types, passes
    <3>4. SearchInv'
      BY <1>1, <3>1 DEF SearchInv, QuietInv, CurveInv, TierInv, LoopInv, Quiet, Loops
    <3>5. QueueInv'
      BY <1>1, <3>1 DEF IInv, QueueInv, Trying, passes
    <3>6. OthersFrozen'
      <4>1. c[1] \in Range(c)
        BY <1>1, <2>1 DEF Range
      <4> QED
        BY <1>1, <3>1, <4>1 DEF IInv, Types, PhaseInv, OthersFrozen, Trying, passes
    <3>7. BuildInv'
      BY <1>1, <1>2, <2>1, <3>1 DEF IInv, Types, QueueInv, PhaseInv, BuildInv, AtPlace,
         Left, passes
    <3> QED
      BY <1>1, <3>1, <3>3, <3>4, <3>5, <3>6, <3>7, SMTT(20)
         DEF IInv, PhaseInv, PassInv, JudgeInv, RethawInv, PassedInv
  <2>3. CASE shard[shard_id] = "building"
    <3> DEFINE d == Append(Tail(c), Head(c))
    <3>1. /\ shard' = [shard EXCEPT ![c[1]] = "frozen"] /\ construct_container' = d
          /\ i' = i + 1 /\ UNCHANGED <<mpc, fail_list, pass_len>>
      BY <1>1, <1>2, <2>1, <2>3 DEF Build, setShard, shard_id, popped, IInv, Types
    <3>2. /\ d \in Seq(Shards) /\ Len(d) = Len(c)
          /\ \A p \in 1..(Len(c) - 1) : d[p] = c[p + 1]
          /\ d[Len(c)] = c[1] /\ Range(d) = Range(c)
      BY <1>1, <2>1, TurnLemma
    <3> HIDE DEF d
    <3>3. Types'
      BY <2>1, <3>1, <3>2 DEF IInv, Types
    <3>4. SearchInv'
      BY <1>1, <3>1 DEF SearchInv, QuietInv, CurveInv, TierInv, LoopInv, Quiet, Loops
    <3>5. QueueInv'
      BY <1>1, <2>1, <3>1, <3>2 DEF IInv, QueueInv, Trying
    <3>6. OthersFrozen'
      BY <1>1, <2>1, <3>1, <3>2 DEF IInv, Types, PhaseInv, OthersFrozen, Trying
    <3>7. BuildInv'
      BY <1>1, <1>2, <2>1, <3>1, <3>2, SMTT(20) DEF IInv, Types, QueueInv, PhaseInv, BuildInv,
         AtPlace, Left
    <3> QED
      BY <1>1, <3>1, <3>3, <3>4, <3>5, <3>6, <3>7, SMTT(20)
         DEF IInv, PhaseInv, PassInv, JudgeInv, RethawInv, PassedInv
  <2> QED
    BY <2>2, <2>3
<1>3. CASE i = pass_len
  <2>1. mpc' = "judge" /\ i' = 0 /\ UNCHANGED <<shard, passes>>
    BY <1>3 DEF Build, passes, IInv, Types
  <2>2. Types' /\ SearchInv' /\ QueueInv'
    BY <1>1, <2>1 DEF IInv, Types, SearchInv, QuietInv, CurveInv, TierInv, LoopInv, Quiet,
       Loops, QueueInv, Trying, passes
  <2>3. OthersFrozen' /\ JudgeInv'
    BY <1>1, <1>3, <2>1 DEF IInv, Types, PhaseInv, OthersFrozen, BuildInv, JudgeInv, AtPlace,
       Left, Trying, passes
  <2> QED
    BY <2>1, <2>2, <2>3 DEF IInv, PhaseInv, PassInv, BuildInv, RethawInv, PassedInv
<1> QED
  BY <1>2, <1>3 DEF Build

(* A shard that got faster leaves the queue, frozen. *)
LEMMA JudgeGoodLemma ==
  ASSUME IInv, JudgeGood
  PROVE  IInv'
<1> DEFINE c == construct_container
           d == Tail(c)
<1>1. /\ c \in Seq(Shards) /\ mpc = "judge" /\ i < pass_len /\ c # <<>>
      /\ shard[c[1]] = "frozen" /\ c[1] \in Shards
  BY DEF IInv, Types, JudgeGood, PhaseInv, JudgeInv, AtPlace, Left
<1>2. /\ construct_container' = d /\ i' = i + 1
      /\ UNCHANGED <<mpc, shard, fail_list, pass_len>>
  BY DEF JudgeGood, popped
<1>3. /\ d \in Seq(Shards) /\ Len(d) = Len(c) - 1 /\ Len(c) \in Nat \ {0}
      /\ \A p \in 1..(Len(c) - 1) : d[p] = c[p + 1]
      /\ Range(c) = Range(d) \cup {c[1]}
  BY <1>1, PopLemma
<1> HIDE DEF d
<1>4. Types' /\ SearchInv'
  BY <1>1, <1>2, <1>3 DEF IInv, Types, SearchInv, QuietInv, CurveInv, TierInv, LoopInv, Quiet,
     Loops
<1>5. QueueInv'
  BY <1>1, <1>2, <1>3 DEF IInv, QueueInv, Trying
<1>6. OthersFrozen'
  BY <1>1, <1>2, <1>3 DEF IInv, PhaseInv, OthersFrozen, Trying
<1>7. JudgeInv'
  BY <1>1, <1>2, <1>3, SMTT(20) DEF IInv, Types, PhaseInv, JudgeInv, AtPlace, Left
<1> QED
  BY <1>1, <1>2, <1>4, <1>5, <1>6, <1>7, SMTT(20)
     DEF IInv, PhaseInv, PassInv, BuildInv, RethawInv, PassedInv

(* One that did not goes to the end of the queue and is thawed. *)
LEMMA JudgeBadLemma ==
  ASSUME IInv, JudgeBad
  PROVE  IInv'
<1> DEFINE c == construct_container
           d == Append(Tail(c), Head(c))
<1>1. /\ c \in Seq(Shards) /\ mpc = "judge" /\ i < pass_len /\ c # <<>>
      /\ c[1] \in Shards
  BY DEF IInv, Types, JudgeBad, PhaseInv, JudgeInv, AtPlace, Left
<1>2. /\ construct_container' = d /\ mpc' = "rethaw"
      /\ shard' = [shard EXCEPT ![c[1]] = "thawing"]
      /\ UNCHANGED <<i, fail_list, pass_len>>
  BY <1>1 DEF JudgeBad, retried, popped, shard_id, setShard
<1>3. /\ d \in Seq(Shards) /\ Len(d) = Len(c) /\ Len(c) \in Nat \ {0}
      /\ \A p \in 1..(Len(c) - 1) : d[p] = c[p + 1]
      /\ d[Len(c)] = c[1] /\ Range(d) = Range(c)
  BY <1>1, TurnLemma
<1> HIDE DEF d
<1>4. Types' /\ SearchInv'
  BY <1>1, <1>2, <1>3 DEF IInv, Types, SearchInv, QuietInv, CurveInv, TierInv, LoopInv, Quiet,
     Loops
<1>5. QueueInv'
  BY <1>1, <1>2, <1>3 DEF IInv, QueueInv, Trying
<1>6. OthersFrozen'
  <2>1. c[1] \in Range(c)
    BY <1>1, <1>3 DEF Range
  <2> QED
    BY <1>1, <1>2, <1>3, <2>1 DEF IInv, Types, PhaseInv, OthersFrozen, Trying
<1>7. RethawInv'
  BY <1>1, <1>2, <1>3 DEF IInv, Types, QueueInv, PhaseInv, JudgeInv, RethawInv, AtPlace, Left
<1> QED
  BY <1>2, <1>4, <1>5, <1>6, <1>7, SMTT(20)
     DEF IInv, PhaseInv, PassInv, BuildInv, JudgeInv, PassedInv

(* The shard that is being thawed is the last of the queue, and no other is. *)
LEMMA OneThawing ==
  ASSUME IInv, mpc = "rethaw"
  PROVE  LET y == construct_container[Len(construct_container)]
         IN  y \in Shards /\ \A x \in Shards : shard[x] = "thawing" <=> x = y
<1> DEFINE c == construct_container
<1>1. c \in Seq(Shards) /\ Len(c) \in Nat \ {0} /\ DOMAIN c = 1..Len(c)
  BY DEF IInv, Types, PhaseInv, RethawInv, Left
<1>2. \A x \in Shards : x \notin Range(c) => shard[x] = "frozen"
  BY DEF IInv, PhaseInv, OthersFrozen, Trying
<1>3. Left \in Int /\ Left <= Len(c)
  BY DEF IInv, Types, PhaseInv, RethawInv, Left
<1>4. \A p \in 1..Len(c) :
        shard[c[p]] = IF p <= Left - 1 THEN "frozen"
                      ELSE IF p = Len(c) THEN "thawing" ELSE "thawed"
  BY DEF IInv, PhaseInv, RethawInv, AtPlace
<1>5. ASSUME NEW p \in 1..Len(c) PROVE shard[c[p]] = "thawing" <=> p = Len(c)
  <2>1. CASE p = Len(c)
    <3>1. ~(p <= Left - 1)
      BY <1>1, <1>3, <2>1
    <3> QED
      BY <1>4, <2>1, <3>1
  <2>2. CASE p # Len(c)
    BY <1>4, <2>2
  <2> QED
    BY <2>1, <2>2
<1>6. Len(c) \in 1..Len(c) /\ c[Len(c)] \in Shards
  BY <1>1
<1> HIDE DEF c
<1>7. ASSUME NEW x \in Shards, shard[x] = "thawing" PROVE x = c[Len(c)]
  <2>1. PICK p \in 1..Len(c) : x = c[p]
    BY <1>1, <1>2, <1>7 DEF Range
  <2> QED
    BY <1>5, <1>7, <2>1
<1> QED
  BY <1>5, <1>6, <1>7 DEF c

(* deconstruct returns. *)
LEMMA JudgeThawedLemma ==
  ASSUME IInv, JudgeThawed
  PROVE  IInv'
<1> USE DEF IInv, JudgeThawed, passes
<1>1. Types'
  BY DEF Types
<1>2. SearchInv' /\ QueueInv'
  BY DEF SearchInv, QuietInv, CurveInv, TierInv, LoopInv, Quiet, Loops, QueueInv, Trying
<1>3. OthersFrozen'
  BY DEF PhaseInv, OthersFrozen, Trying, Types
<1>4. JudgeInv'
  BY DEF PhaseInv, RethawInv, JudgeInv, AtPlace, Left, Types
<1> QED
  BY <1>1, <1>2, <1>3, <1>4 DEF PhaseInv, PassInv, BuildInv, RethawInv, PassedInv

(* Every shard of the pass is judged: the queue holds those that were thawed. *)
LEMMA PassEndLemma ==
  ASSUME IInv, PassEnd
  PROVE  IInv'
<1> USE MonitorAssumption DEF IInv, PassEnd
<1>1. Types'
  BY DEF Types
<1>2. SearchInv'
  BY DEF SearchInv, QuietInv, CurveInv, TierInv, LoopInv, AllThawed, Quiet,
     Loops
<1>3. QueueInv'
  BY DEF QueueInv, Trying
<1>4. PhaseInv'
  <2>1. /\ mpc = "judge" /\ mpc' = "pass" /\ Left = 0
        /\ UNCHANGED <<shard, construct_container, fail_list>>
    BY DEF Types, Left
  <2>2. OthersFrozen'
    BY <2>1 DEF PhaseInv, OthersFrozen, Trying
  <2>3. \A p \in 1..Len(construct_container) : AtPlace(p) = "thawed"
    BY <2>1 DEF PhaseInv, JudgeInv
  <2>4. PassInv'
    BY <2>1, <2>3, Zenon DEF PassInv, AtPlace
  <2> QED
    BY <2>1, <2>2, <2>4 DEF PhaseInv, BuildInv, JudgeInv, RethawInv, PassedInv
<1> QED
  BY <1>1, <1>2, <1>3, <1>4

(* When as many shards have failed as there are, all have, and are thawed. *)
LEMMA PassedLemma ==
  ASSUME IInv, Passed
  PROVE  IInv'
<1> USE DEF IInv, Passed, gotoWaitStable, passes
<1>1. Types'
  BY DEF Types
<1>2. QueueInv'
  BY DEF QueueInv, Trying
<1>3. SearchInv'
  <2>1. ASSUME ~should_stop, Cardinality(fail_list) = m_numShards PROVE fail_list = Shards
    <3>1. IsFiniteSet(Shards) /\ Cardinality(Shards) = m_numShards
      <4>1. 0 \in Int /\ m_numShards - 1 \in Int /\ 0 <= m_numShards - 1
        BY MonitorAssumption
      <4>2. /\ IsFiniteSet(0..(m_numShards - 1))
            /\ Cardinality(0..(m_numShards - 1))
                 = IF 0 > m_numShards - 1 THEN 0 ELSE (m_numShards - 1) - 0 + 1
        BY <4>1, FS_Interval
      <4> QED
        BY <4>1, <4>2, MonitorAssumption DEF Shards
    <3> QED
      BY <2>1, <3>1, FS_Subset DEF Types
  <2> QED
    BY <2>1 DEF PhaseInv, PassedInv, SearchInv, QuietInv, CurveInv, TierInv, LoopInv, AllThawed,
       Quiet, Loops
<1>4. PhaseInv'
  BY DEF PhaseInv, OthersFrozen, PassInv, BuildInv, JudgeInv, RethawInv, PassedInv, Trying
<1> QED
  BY <1>1, <1>2, <1>3, <1>4

(* The frozen run goes on, or the loop that thaws every shard starts. *)
LEMMA FrozenLemma ==
  ASSUME IInv, FrozenLook \/ FrozenDepleted \/ \E good \in BOOLEAN : FrozenRun(good)
  PROVE  IInv'
<1>1. /\ mpc \in {"frozen", "check"} /\ UNCHANGED <<shard, passes, should_stop>>
      /\ \/ mpc' \in {"frozen", "check"} /\ UNCHANGED i
         \/ mpc' \in {"refresh", "deconstruct"} /\ i' = 0
      /\ mpc = "frozen" => mpc' = IF should_stop THEN "deconstruct" ELSE "check"
  BY DEF FrozenLook, FrozenDepleted, FrozenRun
<1>2. Types'
  BY <1>1 DEF IInv, Types, passes
<1>3. SearchInv'
  <2>1. LoopInv'
    BY <1>1, MonitorAssumption DEF IInv, LoopInv, Loops, PhaseInv, PassedInv, Shards
  <2>2. QuietInv' /\ CurveInv' /\ TierInv'
    BY <1>1 DEF QuietInv, CurveInv, TierInv, Quiet
  <2> QED
    BY <2>1, <2>2, Zenon DEF SearchInv
<1>4. QueueInv'
  BY <1>1 DEF IInv, QueueInv, Trying, passes
<1>5. PhaseInv'
  BY <1>1 DEF IInv, PhaseInv, OthersFrozen, PassInv, BuildInv, JudgeInv, RethawInv,
     PassedInv, AtPlace, Left, Trying, passes
<1> QED
  BY <1>2, <1>3, <1>4, <1>5 DEF IInv

(* IInv is inductive: one case for each action. *)
LEMMA NextIInv == IInv /\ [Next]_vars => IInv'
<1> SUFFICES ASSUME IInv, [Next]_vars PROVE IInv'
  OBVIOUS
<1>1. CASE Sample \/ monitor_stop \/ UNCHANGED vars \/ SleepRound("sleepSearch")
           \/ SleepRound("sleepEnd")
  <2>1. UNCHANGED <<mpc, shard, i, passes>> /\ (should_stop => should_stop')
    BY <1>1 DEF Sample, monitor_stop, SleepRound, vars, passes
  <2> QED
    BY <2>1, StillLemma, Zenon
<1>2. CASE StableFirst \/ StableStop \/ Choose \/ \E g, f \in BOOLEAN : StableRound(g, f)
  <2>1. /\ mpc \in Quiet \ {"end"} /\ mpc' \in Quiet
        /\ UNCHANGED <<shard, i, passes>>
    BY <1>2 DEF StableFirst, StableStop, Choose, StableRound, Quiet
  <2> QED
    BY <2>1, QuietLemma
<1>3. CASE SleepEnd("sleepSearch", "construct") \/ SleepEnd("sleepEnd", "end")
  <2>1. /\ mpc \in Quiet \ {"end"} /\ mpc' \in Quiet
        /\ UNCHANGED <<shard, i, passes>>
    BY <1>3 DEF SleepEnd, gotoWaitStable, Quiet
  <2> QED
    BY <2>1, QuietLemma
<1>4. CASE CurveCall \/ CurveReturn \/ Learn \/ TierAll
  BY <1>4, CurveCallLemma, CurveReturnLemma, LearnLemma, TierAllLemma, SMTT(20)
<1>5. CASE ThawAll
  BY <1>5, DeconstructLemma DEF ThawAll, Loops
<1>6. CASE Refresh
  BY <1>6, DeconstructLemma DEF Refresh, Loops
<1>7. CASE Deconstruct
  <2>1. CASE should_stop
    BY <1>7, <2>1, DeconstructLemma DEF Deconstruct, Loops
  <2>2. CASE ~should_stop
    BY <1>7, <2>2, DeconstructLemma DEF Deconstruct, Loops
  <2> QED
    BY <2>1, <2>2
<1>8. CASE ConstructPhase
  BY SMTT(20), <1>8, BaselineLemma, PassBeginLemma, PassGiveUpLemma, PassesDoneLemma, BuildLemma,
     JudgeGoodLemma, JudgeBadLemma, JudgeThawedLemma, PassEndLemma, PassedLemma
     DEF ConstructPhase
<1>9. CASE FrozenLook \/ FrozenDepleted \/ \E good \in BOOLEAN : FrozenRun(good)
  BY <1>9, FrozenLemma
<1> QED
  BY <1>1, <1>2, <1>3, <1>4, <1>5, <1>6, <1>7, <1>8, <1>9, SMTT(20)
     DEF Next, FastHashMonitor, Search, Sleep, FrozenPhase

(* Whichever search led to it, CONSTRUCT starts with an empty queue and     *)
(* with every shard thawed, for any number of shards.                       *)
THEOREM ConstructAlwaysStartsClean == Spec => []ConstructStartsClean
<1>1. IInv => ConstructStartsClean
  BY DEF IInv, ConstructStartsClean, SearchInv, QuietInv, AllThawed, Quiet, QueueInv, Trying
<1> QED
  BY <1>1, InitIInv, NextIInv, PTL DEF Spec

(* The queue and the fail list of the construct phase account for every     *)
(* shard that is not frozen, and the monitor returns with every shard       *)
(* thawed, for any number of shards.                                        *)
THEOREM ShardsAreAccountedFor == Spec => [](UnfrozenAreAccounted /\ EndsThawed)
<1>1. IInv => UnfrozenAreAccounted
  <2> SUFFICES ASSUME IInv, mpc \in {"pass", "passed", "frozen", "check"}
               PROVE  {x \in Shards : shard[x] # "frozen"}
                        = Range(construct_container) \cup fail_list
    BY DEF UnfrozenAreAccounted
  <2>1. Range(construct_container) \cup fail_list \subseteq Shards
    BY DEF IInv, Types, Range
  <2>2. CASE mpc = "pass"
    <3>1. \A x \in Range(construct_container) : shard[x] = "thawed"
      BY <2>2 DEF IInv, Types, PhaseInv, PassInv, AtPlace, Range
    <3> QED
      BY <2>1, <2>2, <3>1 DEF IInv, PhaseInv, OthersFrozen, Trying
  <2>3. CASE mpc # "pass"
    BY <2>1, <2>3 DEF IInv, PhaseInv, PassedInv
  <2> QED
    BY <2>2, <2>3
<1>2. IInv => EndsThawed
  BY DEF IInv, EndsThawed, SearchInv, QuietInv, AllThawed, Quiet
<1> QED
  BY <1>1, <1>2, InitIInv, NextIInv, PTL DEF Spec

(* Whatever is measured and whenever it is told to stop, the monitor calls  *)
(* the shards in the order of ShardProtocol: get_curve and construct only   *)
(* on a shard that is thawed, deconstruct on one that is frozen.            *)
THEOREM MonitorFollowsProtocol == Spec => ShardsFollowProtocol
<1>1. Init => Protocol!Init
  BY DEF Init, Protocol!Init
<1>2. IInv /\ [Next]_vars => [Protocol!Next]_shard
  <2> SUFFICES ASSUME IInv, [Next]_vars, shard' # shard PROVE Protocol!Next
    OBVIOUS
  <2> USE DEF Protocol!Next, Protocol!GetCurve, Protocol!Construct, Protocol!Deconstruct,
          Protocol!step
  <2>1. \/ CurveCall \/ CurveReturn \/ TierAll \/ (DeconstructRound /\ mpc \in Loops)
        \/ Build \/ JudgeBad \/ JudgeThawed
    BY Zenon DEF Next, FastHashMonitor, Search, Sleep, ConstructPhase, FrozenPhase, vars, Sample,
       monitor_stop, StableFirst, StableRound, StableStop, Learn, ThawAll, Choose,
       SleepRound, SleepEnd, Baseline, PassBegin, PassGiveUp, PassesDone, JudgeGood,
       PassEnd, Passed, FrozenLook, FrozenDepleted, FrozenRun, Refresh, Deconstruct,
       DeconstructLoop, Loops
  <2>2. CASE CurveCall
    BY <2>2, MonitorAssumption DEF CurveCall, setShard, IInv, SearchInv, QuietInv, Quiet,
       AllThawed, Shards
  <2>3. CASE CurveReturn
    <3>1. 0 \in Shards /\ shard[0] = "curve" /\ shard' = [shard EXCEPT ![0] = "thawed"]
      BY <2>3, MonitorAssumption DEF CurveReturn, setShard, IInv, SearchInv, CurveInv, Shards
    <3> QED
      BY <3>1, Zenon
  <2>4. CASE TierAll
    BY <2>4, ZenonT(30) DEF TierAll, setShard, IInv, Types, SearchInv, TierInv, Shards
  <2>5. CASE DeconstructRound /\ mpc \in Loops
    <3>1. i \in Shards
      BY <2>5, MonitorAssumption DEF DeconstructRound, lastDone, IInv, Types, SearchInv, LoopInv, Shards
    <3> QED
      BY <2>5, <3>1, Zenon DEF DeconstructRound, setShard
  <2>6. CASE Build
    <3>1. mpc = "build" /\ i < pass_len
      BY <2>6 DEF Build, IInv, Types
    <3>2. /\ shard_id \in Shards
          /\ shard[shard_id] \in {"thawed", "building"}
      BY <3>1 DEF IInv, Types, PhaseInv, BuildInv, AtPlace, Left, shard_id
    <3> QED
      BY <2>6, <3>1, <3>2 DEF Build, setShard
  <2>7. CASE JudgeBad
    <3>1. shard_id \in Shards /\ shard[shard_id] = "frozen"
      BY <2>7 DEF JudgeBad, IInv, Types, PhaseInv, JudgeInv, AtPlace, Left, shard_id
    <3> QED
      BY <2>7, <3>1, Zenon DEF JudgeBad, setShard
  <2>8. CASE JudgeThawed
    <3> DEFINE y == construct_container[Len(construct_container)]
    <3>1. y \in Shards /\ \A x \in Shards : shard[x] = "thawing" <=> x = y
      BY <2>8, OneThawing DEF JudgeThawed
    <3> HIDE DEF y
    <3>2. shard' = [shard EXCEPT ![y] = "thawed"]
      BY <2>8, <3>1, ZenonT(30) DEF JudgeThawed, IInv, Types
    <3> QED
      BY <3>1, <3>2, Zenon
  <2> HIDE DEF Protocol!Next, Protocol!GetCurve, Protocol!Construct, Protocol!Deconstruct,
          Protocol!step
  <2> QED
    BY <2>1, <2>2, <2>3, <2>4, <2>5, <2>6, <2>7, <2>8, Zenon
<1> QED
  BY <1>1, <1>2, InitIInv, NextIInv, PTL DEF Spec, ShardsFollowProtocol, Protocol!Spec

=============================================================================
