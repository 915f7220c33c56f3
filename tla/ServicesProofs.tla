---------------------------- MODULE ServicesProofs ----------------------------
(******************************************************************************)
(* Theorems about four services, for every value of their constants: a key of *)
(* the background tasks runs once at a time, and logs keep their numbers; a   *)
(* channel that a sweep of the recovery probes leaves out is not left out     *)
(* twice for the same other channel, and a batch is never too large; a call   *)
(* tries each ready endpoint of its site once; nobody joins a load of a       *)
(* snapshot that is over, and the cache of snapshots keeps its bound. And of  *)
(* the nine services side by side: each keeps its types.                      *)
(******************************************************************************)
EXTENDS MCServices, RouteProofs, OAuthProofs, CodexSessionProofs, SequenceTheorems,
        FiniteSetTheorems, WellFoundedInduction, TLAPS

-----------------------------------------------------------------------------
\* Whatever numbers there are, one of them is the least.
LEMMA LeastOfNaturals ==
    ASSUME NEW T \in SUBSET Nat, T # {}
    PROVE  \E x \in T : \A y \in T : x <= y
  <1> DEFINE R == OpToRel(<, Nat)
  <1>1. IsWellFoundedOn(R, Nat)
    BY NatLessThanWellFounded
  <1>2. \A x, y \in Nat : x < y => <<x, y>> \in R
    BY DEF OpToRel
  <1> HIDE DEF R
  <1>3. PICK x \in T : \A y \in T : ~(<<y, x>> \in R)
    BY <1>1, WFMin
  <1>4. \A y \in T : ~(y < x)
    BY <1>2, <1>3
  <1>5. \A y \in T : x <= y
    BY <1>4
  <1>6. QED
    BY <1>5

-----------------------------------------------------------------------------
(*****************************************************************************)
(* Background tasks                                                          *)
(*****************************************************************************)

\* The types of records, and the bound of the counters, come with those of the
\* type invariant.
TasksTyped ==
    /\ TasksTypeOK
    /\ record \in [Tasks -> [status : Statuses, logs : Seq(Nat)]]
    /\ logged \in 0..MaxLogs
    /\ \A t \in Tasks : logSeq[t] <= logged

\* A running task holds its key, with a record that says so: that is what makes
\* the next caller reuse it.
TaskHolds(t) ==
    taskKey[t] \in DedupeKeys \ outlived /\ stage[t] = "running" =>
        dedupe[taskKey[t]] = t /\ record[t].status = "running"

\* A task without a record has no counter, so one that comes back starts at 1.
Blank(t) ==
    /\ stage[t] = "new" => ~Present(t)
    /\ ~Present(t) => logSeq[t] = 0

\* LogsFollowCounter for one record.
Kept(n) == IF n < LogLimit THEN n ELSE LogLimit
LastNumbers(n) == [i \in 1..Kept(n) |-> n - Kept(n) + i]

Numbered(t) == Present(t) => record[t].logs = LastNumbers(logSeq[t])

TasksInv == TasksTyped /\ \A t \in Tasks : TaskHolds(t) /\ Blank(t) /\ Numbered(t)

-----------------------------------------------------------------------------
(* The logs *)

\* No log at all: the counter stands at 0.
LEMMA NoNumbers == LastNumbers(0) = << >>
  <1>1. Kept(0) = 0
    BY TasksAssumption DEF Kept
  <1>. QED  BY <1>1 DEF LastNumbers

\* The last numbers are a sequence as long as what is kept.
LEMMA NumbersAreSeq ==
    ASSUME NEW n \in Nat
    PROVE  /\ Kept(n) \in Nat /\ Kept(n) <= LogLimit /\ Kept(n) <= n
           /\ LastNumbers(n) \in Seq(Nat)
           /\ Len(LastNumbers(n)) = Kept(n)
           /\ \A i \in 1..Kept(n) : LastNumbers(n)[i] = n - Kept(n) + i
  <1>1. Kept(n) \in Nat /\ Kept(n) <= LogLimit /\ Kept(n) <= n
    BY TasksAssumption DEF Kept
  <1>2. \A i \in 1..Kept(n) : n - Kept(n) + i \in Nat
    BY <1>1
  <1>. QED  BY <1>1, <1>2 DEF LastNumbers

\* Appending the next number, and dropping the first one over the limit, gives
\* the last numbers again.
LEMMA NextNumber ==
    ASSUME NEW n \in Nat
    PROVE  LET logs == Append(LastNumbers(n), n + 1)
           IN  (IF Len(logs) > LogLimit THEN Tail(logs) ELSE logs) = LastNumbers(n + 1)
  <1>. DEFINE s == LastNumbers(n)
              logs == Append(s, n + 1)
              m == Kept(n)
  <1>1. /\ m \in Nat /\ m <= LogLimit /\ m <= n
        /\ s \in Seq(Nat) /\ Len(s) = m
        /\ \A i \in 1..m : s[i] = n - m + i
    BY NumbersAreSeq
  <1>2. /\ Kept(n + 1) \in Nat
        /\ LastNumbers(n + 1) \in Seq(Nat)
        /\ Len(LastNumbers(n + 1)) = Kept(n + 1)
        /\ \A i \in 1..Kept(n + 1) : LastNumbers(n + 1)[i] = n + 1 - Kept(n + 1) + i
    BY NumbersAreSeq
  <1>. HIDE DEF s, m
  <1>3. /\ logs \in Seq(Nat) /\ Len(logs) = m + 1
        /\ \A i \in 1..m : logs[i] = n - m + i
        /\ logs[m + 1] = n + 1
    BY <1>1, AppendProperties
  <1>4. \A i \in 1..m + 1 : logs[i] = n - m + i
    BY <1>1, <1>3
  <1>. HIDE DEF logs
  <1>5. CASE Len(logs) > LogLimit
    <2>1. m = LogLimit /\ Kept(n + 1) = m
      BY <1>1, <1>3, <1>5, TasksAssumption DEF m, Kept
    <2>2. logs # << >>
      BY <1>1, <1>3
    <2>3. /\ Tail(logs) \in Seq(Nat) /\ Len(Tail(logs)) = m
          /\ \A i \in 1..m : Tail(logs)[i] = logs[i + 1]
      BY <1>1, <1>3, <2>2, HeadTailProperties
    <2>4. ASSUME NEW i \in 1..m
          PROVE  Tail(logs)[i] = LastNumbers(n + 1)[i]
      <3>. i \in Nat /\ m \in Nat /\ i + 1 \in 1..m + 1
        BY <1>1
      <3>1. Tail(logs)[i] = logs[i + 1]
        BY <2>3
      <3>2. Tail(logs)[i] = n - m + (i + 1)
        BY <1>4, <3>1
      <3>3. LastNumbers(n + 1)[i] = n + 1 - m + i
        BY <1>2, <2>1
      <3>4. n - m + (i + 1) = n + 1 - m + i
        OBVIOUS
      <3>. QED  BY <3>2, <3>3, <3>4
    <2>5. Tail(logs) = LastNumbers(n + 1)
      BY <1>2, <2>1, <2>3, <2>4, SeqEqual
    <2>. QED  BY <1>5, <2>5 DEF logs, s
  <1>6. CASE ~(Len(logs) > LogLimit)
    <2>1. Kept(n + 1) = m + 1 /\ m = n
      BY <1>1, <1>3, <1>6, TasksAssumption DEF m, Kept
    <2>2. ASSUME NEW i \in 1..m + 1
          PROVE  logs[i] = LastNumbers(n + 1)[i]
      <3>1. logs[i] = n - m + i
        BY <1>4
      <3>2. LastNumbers(n + 1)[i] = n + 1 - (m + 1) + i
        BY <1>2, <2>1
      <3>. QED  BY <1>1, <3>1, <3>2
    <2>3. logs = LastNumbers(n + 1)
      BY <1>2, <1>3, <2>1, <2>2, SeqEqual
    <2>. QED  BY <1>6, <2>3 DEF logs, s
  <1>. QED  BY <1>5, <1>6

-----------------------------------------------------------------------------
(* The steps. Those that free the key of a task or touch its record leave   *)
(* every other task as it was.                                              *)

LEMMA TasksInitInv == TasksInit => TasksInv
  <1>. SUFFICES ASSUME TasksInit PROVE TasksInv
    OBVIOUS
  <1>. USE TasksAssumption DEF TasksInit
  <1>1. TasksTyped
    BY DEF TasksTyped, TasksTypeOK, Statuses, Absent
  <1>2. \A t \in Tasks : TaskHolds(t) /\ Blank(t) /\ Numbered(t)
    BY DEF TaskHolds, Blank, Numbered, Present, Absent
  <1>. QED  BY <1>1, <1>2 DEF TasksInv

LEMMA TasksStartInv ==
    ASSUME TasksInv, NEW t \in Tasks, NEW k \in DedupeKeys \cup {NoKey},
           StartBackgroundTask(t, k)
    PROVE  TasksInv'
  <1>. USE TasksAssumption DEF StartBackgroundTask, TasksInv
  <1>1. TasksTyped'
    BY DEF TasksTyped, TasksTypeOK, Statuses, Started
  <1>2. /\ record'[t] = Started /\ stage'[t] = "running" /\ taskKey'[t] = k
        /\ k \in DedupeKeys => dedupe'[k] = t
        /\ \A q \in Tasks \ {t} :
              record'[q] = record[q] /\ stage'[q] = stage[q] /\ taskKey'[q] = taskKey[q]
        /\ \A x \in DedupeKeys \ {k} : dedupe'[x] = dedupe[x]
    BY DEF TasksTyped, TasksTypeOK
  <1>3. TaskHolds(t)'
    BY <1>2 DEF TaskHolds, Started
  <1>4. ASSUME NEW q \in Tasks \ {t}
        PROVE  TaskHolds(q)'
    \* Two runners of one key: the first one would have been reused.
    <2>1. CASE taskKey[q] = k /\ k \in DedupeKeys
      BY <1>2, <2>1 DEF TaskHolds, Reusable
    <2>2. CASE ~(taskKey[q] = k /\ k \in DedupeKeys)
      BY <1>2, <2>2 DEF TaskHolds
    <2>. QED  BY <2>1, <2>2
  <1>5. Numbered(t)'
    BY <1>2, NoNumbers DEF Numbered, Blank, Started
  <1>6. \A q \in Tasks : Blank(q)'
    BY <1>2 DEF Blank, Present, Started
  <1>7. \A q \in Tasks \ {t} : Numbered(q)'
    BY <1>2 DEF Numbered, Present
  <1>. QED  BY <1>1, <1>3, <1>4, <1>5, <1>6, <1>7

LEMMA AppendInv ==
    ASSUME TasksInv, NEW t \in Tasks, AppendBackgroundTaskLog(t)
    PROVE  TasksInv'
  <1>. USE TasksAssumption DEF AppendBackgroundTaskLog, TasksInv
  <1>. DEFINE logs == Append(record[t].logs, logSeq'[t])
              kept == IF Len(logs) > LogLimit THEN Tail(logs) ELSE logs
  <1>1. /\ logSeq[t] \in Nat /\ logSeq'[t] = logSeq[t] + 1 /\ logSeq[t] <= logged
        /\ logged \in Nat /\ MaxLogs \in Nat
    BY DEF TasksTyped, TasksTypeOK
  <1>2. record[t].logs = LastNumbers(logSeq[t])
    BY DEF Numbered
  <1>3. kept = LastNumbers(logSeq'[t]) /\ kept \in Seq(Nat)
    <2>. DEFINE n == logSeq[t]
    <2>1. n \in Nat /\ n + 1 \in Nat
      BY <1>1
    <2>. HIDE DEF n
    <2>2. logs = Append(LastNumbers(n), n + 1)
      BY <1>1, <1>2 DEF n
    <2>3. kept = LastNumbers(n + 1)
      BY <2>1, <2>2, NextNumber
    <2>4. LastNumbers(n + 1) \in Seq(Nat)
      BY <2>1, NumbersAreSeq
    <2>. QED  BY <1>1, <2>3, <2>4 DEF n
  <1>. HIDE DEF kept
  <1>4. record' = [record EXCEPT ![t].logs = kept]
    BY DEF kept
  <1>5. /\ record'[t].logs = kept /\ record'[t].status = record[t].status
        /\ \A q \in Tasks \ {t} : record'[q] = record[q] /\ logSeq'[q] = logSeq[q]
    BY <1>4 DEF TasksTyped, TasksTypeOK
  <1>6. TasksTyped'
    <2>1. record' \in [Tasks -> [status : Statuses, logs : Seq(Nat)]]
      BY <1>3, <1>4 DEF TasksTyped
    <2>2. \A q \in Tasks : logSeq'[q] \in 0..MaxLogs /\ logSeq'[q] <= logged'
      BY <1>1, <1>5 DEF TasksTyped, TasksTypeOK
    <2>3. logSeq' \in [Tasks -> 0..MaxLogs]
      BY <2>2 DEF TasksTyped, TasksTypeOK
    <2>. QED  BY <1>1, <2>1, <2>2, <2>3 DEF TasksTyped, TasksTypeOK
  <1>7. \A q \in Tasks : TaskHolds(q)' /\ Blank(q)'
    BY <1>1, <1>5 DEF TaskHolds, Blank, Present
  <1>8. \A q \in Tasks : Numbered(q)'
    BY <1>3, <1>5 DEF Numbered, Present
  <1>. QED  BY <1>6, <1>7, <1>8

\* A key that is freed is freed by its own task.
LEMMA FreeKeeps ==
    ASSUME TasksTyped, NEW t \in Tasks, FreeDedupeKey(t)
    PROVE  /\ dedupe' \in [DedupeKeys -> Tasks \cup {NoTask}]
           /\ \A k \in DedupeKeys : dedupe[k] # t => dedupe'[k] = dedupe[k]
  BY DEF FreeDedupeKey, TasksTyped, TasksTypeOK

\* A step that only ends the run of t, or its notification.
LEMMA OthersHold ==
    ASSUME TasksInv, NEW t \in Tasks,
           UNCHANGED dedupe \/ FreeDedupeKey(t), UNCHANGED taskKey, outlived \subseteq outlived',
           \A q \in Tasks \ {t} : record'[q] = record[q] /\ stage'[q] = stage[q],
           NEW q \in Tasks \ {t}
    PROVE  TaskHolds(q)'
  <1>1. \A k \in DedupeKeys : dedupe[k] # t => dedupe'[k] = dedupe[k]
    BY FreeKeeps DEF TasksInv
  <1>. QED  BY <1>1 DEF TasksInv, TaskHolds, TasksTyped, TasksTypeOK

LEMMA SettlesInv ==
    ASSUME TasksInv, NEW t \in Tasks, RunnerSettles(t)
    PROVE  TasksInv'
  <1>. USE TasksAssumption DEF RunnerSettles
  <1>1. PICK status \in {"succeeded", "failed"} : SetTaskStatus(t, status)
    OBVIOUS
  <1>. DEFINE base == IF Present(t) THEN record[t] ELSE Started
  <1>2. base \in [status : Statuses, logs : Seq(Nat)]
    BY DEF Started, Statuses, TasksInv, TasksTyped
  <1>3. record' = [record EXCEPT ![t] = [base EXCEPT !.status = status]]
    BY <1>1 DEF SetTaskStatus
  <1>4. base.logs = IF Present(t) THEN record[t].logs ELSE << >>
    BY DEF Started
  <1>. HIDE DEF base
  <1>5. /\ record'[t].status = status /\ record'[t].logs = base.logs
        /\ \A q \in Tasks \ {t} : record'[q] = record[q] /\ stage'[q] = stage[q]
        /\ record' \in [Tasks -> [status : Statuses, logs : Seq(Nat)]]
        /\ stage' \in [Tasks -> {"new", "running", "notifying", "over"}]
        /\ stage'[t] \in {"notifying", "over"}
    BY <1>2, <1>3 DEF Statuses, TasksInv, TasksTyped, TasksTypeOK
  <1>6. TasksTyped'
    BY <1>5, FreeKeeps DEF TasksInv, TasksTyped, TasksTypeOK
  <1>7. \A q \in Tasks \ {t} : TaskHolds(q)'
    BY <1>5, OthersHold
  <1>8. TaskHolds(t)'
    BY <1>5 DEF TaskHolds
  <1>9. \A q \in Tasks : Blank(q)'
    BY <1>5 DEF TasksInv, Blank, Present
  <1>10. Numbered(t)'
    BY <1>5, <1>4, NoNumbers DEF TasksInv, Numbered, Blank
  <1>11. \A q \in Tasks \ {t} : Numbered(q)'
    BY <1>5 DEF TasksInv, Numbered, Present
  <1>. QED  BY <1>6, <1>7, <1>8, <1>9, <1>10, <1>11 DEF TasksInv

LEMMA NotifiedInv ==
    ASSUME TasksInv, NEW t \in Tasks, NotificationSent(t)
    PROVE  TasksInv'
  <1>. USE TasksAssumption DEF NotificationSent
  <1>1. /\ stage'[t] = "over" /\ \A q \in Tasks \ {t} : stage'[q] = stage[q]
        /\ stage' \in [Tasks -> {"new", "running", "notifying", "over"}]
    BY DEF TasksInv, TasksTyped, TasksTypeOK
  <1>2. TasksTyped'
    BY <1>1, FreeKeeps DEF TasksInv, TasksTyped, TasksTypeOK
  <1>3. \A q \in Tasks \ {t} : TaskHolds(q)'
    BY <1>1, OthersHold
  <1>4. TaskHolds(t)'
    BY <1>1 DEF TaskHolds
  <1>5. \A q \in Tasks : Blank(q)' /\ Numbered(q)'
    BY <1>1 DEF TasksInv, Blank, Numbered, Present
  <1>. QED  BY <1>2, <1>3, <1>4, <1>5 DEF TasksInv

LEMMA SweepInv ==
    ASSUME TasksInv, NEW t \in Tasks, Sweep(t)
    PROVE  TasksInv'
  <1>. USE TasksAssumption DEF Sweep, CleanupExpiredTask
  <1>1. /\ record'[t].status = "absent" /\ logSeq'[t] = 0
        /\ \A q \in Tasks \ {t} : record'[q] = record[q] /\ logSeq'[q] = logSeq[q]
        /\ record' \in [Tasks -> [status : Statuses, logs : Seq(Nat)]]
        /\ logSeq' \in [Tasks -> 0..MaxLogs]
        /\ outlived \subseteq outlived' /\ outlived' \subseteq DedupeKeys
    BY DEF Absent, Statuses, TasksInv, TasksTyped, TasksTypeOK
  <1>2. \A q \in Tasks : logSeq'[q] <= logged
    BY <1>1 DEF TasksInv, TasksTyped
  <1>3. TasksTyped'
    BY <1>1, <1>2, FreeKeeps DEF TasksInv, TasksTyped, TasksTypeOK
  <1>4. \A q \in Tasks \ {t} : TaskHolds(q)'
    BY <1>1, OthersHold
  <1>5. TaskHolds(t)'
    BY <1>1 DEF TaskHolds
  <1>6. \A q \in Tasks : Blank(q)'
    BY <1>1 DEF TasksInv, Blank, Present
  <1>7. \A q \in Tasks : Numbered(q)'
    BY <1>1 DEF TasksInv, Numbered, Present
  <1>. QED  BY <1>3, <1>4, <1>5, <1>6, <1>7 DEF TasksInv

LEMMA TasksStutterInv ==
    ASSUME TasksInv, UNCHANGED taskVars
    PROVE  TasksInv'
  BY DEF TasksInv, taskVars, TasksTyped, TasksTypeOK, TaskHolds, Blank, Numbered, Present

LEMMA TasksStepInv == TasksInv /\ [TasksNext]_taskVars => TasksInv'
  <1>. SUFFICES ASSUME TasksInv, [TasksNext]_taskVars PROVE TasksInv'
    OBVIOUS
  <1>1. CASE UNCHANGED taskVars
    BY <1>1, TasksStutterInv
  <1>2. CASE TasksNext
    <2>1. PICK t \in Tasks :
             \/ \E k \in DedupeKeys \cup {NoKey} : StartBackgroundTask(t, k)
             \/ AppendBackgroundTaskLog(t) \/ RunnerSettles(t)
             \/ NotificationSent(t) \/ Sweep(t)
      BY <1>2 DEF TasksNext
    <2>. QED  BY <2>1, TasksStartInv, AppendInv, SettlesInv, NotifiedInv, SweepInv
  <1>. QED  BY <1>1, <1>2

-----------------------------------------------------------------------------
(* The theorems *)

\* Every variable stays in its range: the records, the keys and the counters of
\* the task service.
THEOREM TasksTypeCorrect == TasksSpec => []TasksTypeOK
  <1>1. TasksInv => TasksTypeOK
    BY DEF TasksInv, TasksTyped
  <1>. QED  BY TasksInitInv, TasksStepInv, <1>1, PTL DEF TasksSpec

\* Runners of one key coincide, unless one outlived its record: a task that
\* still runs holds its key, so startBackgroundTask hands it out again.
LEMMA RunnersCoincide ==
    ASSUME TasksInv, NEW k \in DedupeKeys \ outlived
    PROVE  Cardinality({t \in Tasks : taskKey[t] = k /\ stage[t] = "running"}) <= 1
  <1>. DEFINE R == {t \in Tasks : taskKey[t] = k /\ stage[t] = "running"}
  <1>1. \A t \in R : t = dedupe[k]
    BY DEF TasksInv, TaskHolds
  <1>2. R = {} \/ R = {dedupe[k]}
    BY <1>1
  <1>3. Cardinality(R) = 0 \/ Cardinality(R) = 1
    BY <1>2, FS_EmptySet, FS_Singleton
  <1>. QED  BY <1>3

\* At most one runner per dedupe key is at work, for any number of tasks.
THEOREM KeysRunOnce == TasksSpec => []OneRunPerKey
  <1>1. TasksInv => OneRunPerKey
    BY RunnersCoincide DEF OneRunPerKey
  <1>. QED  BY TasksInitInv, TasksStepInv, <1>1, PTL DEF TasksSpec

\* The logs of every record are the last numbers of its counter, without a gap
\* or a repetition, whatever the limit and however often the sweep came first.
THEOREM LogsStayNumbered == TasksSpec => []LogsFollowCounter
  <1>1. TasksInv => LogsFollowCounter
    BY DEF TasksInv, Numbered, LastNumbers, Kept, LogsFollowCounter
  <1>. QED  BY TasksInitInv, TasksStepInv, <1>1, PTL DEF TasksSpec

-----------------------------------------------------------------------------
(*****************************************************************************)
(* Recovery probes                                                           *)
(*****************************************************************************)

SweepPcs == {"none", "loading", "probing", "asking", "booking", "siblings", "clearing"}
SweepRec == [pc : SweepPcs, at : Nat, active : SUBSET ProbeChannels,
             batch : SUBSET ProbeChannels, waiting : SUBSET ProbeChannels,
             probed : SUBSET ProbeChannels, resetting : SUBSET ProbeChannels]

Shaped ==
    /\ leased \subseteq ProbeChannels
    /\ lastStartedAt \in [ProbeChannels -> Nat]
    /\ sweep \in SweepRec
    /\ time \in Nat \ {0}
    /\ passedBy \in [ProbeChannels -> SUBSET ProbeChannels]

\* The time of a sweep is that of its start, behind which every start of a probe lies.
StartsLieBehind ==
    /\ \A c \in ProbeChannels : lastStartedAt[c] <= time
    /\ sweep.pc # "none" =>
        /\ sweep.at > 0 /\ sweep.at <= time
        /\ \A c \in ProbeChannels : lastStartedAt[c] <= sweep.at

\* The channels a sweep leaves out were not started at its time.
LeftOut ==
    /\ sweep.pc \in {"none", "loading"} => sweep.batch = {} /\ sweep.waiting = {}
    /\ sweep.batch \cap sweep.waiting = {}
    /\ \A c \in sweep.waiting : lastStartedAt[c] < sweep.at

\* Whoever was taken instead of a channel was started after it.
OvertakenByLater ==
    \A c \in ProbeChannels : \A d \in passedBy[c] : lastStartedAt[c] < lastStartedAt[d]

StarveInv == Shaped /\ StartsLieBehind /\ LeftOut /\ OvertakenByLater /\ NoChannelStarves

-----------------------------------------------------------------------------
(* The choice of a batch *)

LEMMA DueKnown ==
    ASSUME StarveInv, sweep.pc = "loading"
    PROVE  /\ Due \subseteq ProbeChannels
           /\ \A c \in Due : lastStartedAt[c] < sweep.at
  <1>. USE RecoveryProbeAssumption DEF StarveInv, Shaped, SweepRec
  <1>1. Due \subseteq ProbeChannels
    BY DEF Due, Cooling
  <1>2. ASSUME NEW c \in Due PROVE lastStartedAt[c] < sweep.at
    <2>1. PICK w \in Nat \ {0} : lastStartedAt[c] = 0 \/ sweep.at >= lastStartedAt[c] + w
      BY DEF Due
    <2>2. sweep.at > 0 /\ sweep.at \in Nat /\ lastStartedAt[c] \in Nat
      BY <1>1 DEF StartsLieBehind
    <2>. QED  BY <2>1, <2>2
  <1>. QED  BY <1>1, <1>2

\* Of two that are due, the batch does not take the later one alone.
LEMMA EarlierFirst ==
    ASSUME StarveInv, sweep.pc = "loading",
           NEW c \in Due \ Taken, NEW d \in Taken
    PROVE  ~(lastStartedAt[c] < lastStartedAt[d])
  <1>. DEFINE Ahead(x) == {e \in Due : Precedes(e, x)}
  <1>. SUFFICES ASSUME lastStartedAt[c] < lastStartedAt[d] PROVE FALSE
    OBVIOUS
  <1>1. Due \subseteq ProbeChannels
    BY DueKnown
  <1>2. /\ ProbeChannels \subseteq Nat /\ IsFiniteSet(ProbeChannels) /\ MaxBatch \in Nat
        /\ d \in Due
        /\ \A e \in Due : lastStartedAt[e] \in Nat /\ e \in Nat
    BY <1>1, RecoveryProbeAssumption DEF Taken, StarveInv, Shaped
  <1>3. Ahead(c) \subseteq Ahead(d)
    <2>. SUFFICES ASSUME NEW e \in Due, Precedes(e, c) PROVE Precedes(e, d)
      OBVIOUS
    <2>. QED  BY <1>2 DEF Precedes
  <1>4. IsFiniteSet(Ahead(d))
    BY <1>1, <1>2, FS_Subset
  <1>5. /\ Cardinality(Ahead(c)) <= Cardinality(Ahead(d))
        /\ Cardinality(Ahead(c)) \in Nat /\ Cardinality(Ahead(d)) \in Nat
    BY <1>3, <1>4, FS_Subset, FS_CardinalityType
  <1>6. Cardinality(Ahead(d)) < MaxBatch /\ ~(Cardinality(Ahead(c)) < MaxBatch)
    BY DEF Taken
  <1>. QED  BY <1>2, <1>5, <1>6

LEMMA LoadCandidatesInv ==
    ASSUME StarveInv, LoadCandidates PROVE StarveInv'
  <1>. USE DEF LoadCandidates, StarveInv
  <1>. DEFINE loaded == [sweep EXCEPT !.pc = "probing", !.batch = Taken, !.waiting = Due \ Taken]
  <1>1. /\ Due \subseteq ProbeChannels /\ Taken \subseteq Due
        /\ \A c \in Due : lastStartedAt[c] < sweep.at
    BY DueKnown DEF Taken
  <1>2. CASE Due = {}
    BY <1>2 DEF Shaped, SweepRec, SweepPcs, NoSweep, StartsLieBehind, LeftOut, OvertakenByLater,
                NoChannelStarves
  <1>3. CASE Due # {}
    <2>1. /\ sweep' = loaded
          /\ sweep'.pc = "probing" /\ sweep'.at = sweep.at
          /\ sweep'.batch = Taken /\ sweep'.waiting = Due \ Taken
      BY <1>3 DEF Shaped, SweepRec
    <2>2. Shaped'
      BY <1>1, <2>1 DEF Shaped, SweepRec, SweepPcs
    <2>3. StartsLieBehind' /\ LeftOut' /\ OvertakenByLater'
      BY <1>1, <2>1 DEF StartsLieBehind, LeftOut, OvertakenByLater
    <2>4. NoChannelStarves'
      <3>. SUFFICES ASSUME NEW c \in Due \ Taken, NEW d \in Taken, d \in passedBy[c]
                    PROVE  FALSE
        BY <2>1 DEF NoChannelStarves
      <3>1. lastStartedAt[c] < lastStartedAt[d]
        BY <1>1 DEF OvertakenByLater
      <3>. QED  BY <3>1, EarlierFirst
    <2>. QED  BY <2>2, <2>3, <2>4
  <1>. QED  BY <1>2, <1>3

-----------------------------------------------------------------------------
(* The other steps *)

LEMMA StartProbingInv ==
    ASSUME StarveInv, NEW c \in ProbeChannels, StartProbing(c) PROVE StarveInv'
  <1>. USE DEF StartProbing, StarveInv
  <1>1. /\ sweep'.pc = "asking" /\ sweep'.at = sweep.at /\ sweep'.waiting = sweep.waiting
        /\ sweep'.batch = sweep.batch \ {c}
        /\ c \in sweep.batch /\ c \notin sweep.waiting
        /\ sweep.batch \subseteq ProbeChannels /\ sweep.waiting \subseteq ProbeChannels
        /\ sweep.at \in Nat /\ time \in Nat
        /\ sweep.at > 0 /\ sweep.at <= time
    BY DEF Shaped, SweepRec, LeftOut, StartsLieBehind
  <1>2. /\ \A d \in ProbeChannels : lastStartedAt[d] \in Nat /\ lastStartedAt[d] <= sweep.at
        /\ \A d \in ProbeChannels : lastStartedAt'[d] = IF d = c THEN sweep.at ELSE lastStartedAt[d]
    BY DEF Shaped, StartsLieBehind
  <1>3. \A d \in ProbeChannels :
            passedBy'[d] = CASE d = c -> {}
                             [] d \in sweep.waiting -> passedBy[d] \cup {c}
                             [] OTHER -> passedBy[d]
    OBVIOUS
  <1>4. Shaped'
    BY <1>1 DEF Shaped, SweepRec, SweepPcs
  <1>5. StartsLieBehind'
    BY <1>1, <1>2 DEF StartsLieBehind
  <1>6. LeftOut'
    BY <1>1, <1>2 DEF LeftOut
  <1>7. OvertakenByLater'
    <2>. SUFFICES ASSUME NEW d \in ProbeChannels, NEW e \in passedBy'[d]
                  PROVE  lastStartedAt'[d] < lastStartedAt'[e]
      BY DEF OvertakenByLater
    <2>1. d # c /\ (e \in passedBy[d] \/ (e = c /\ d \in sweep.waiting))
      <3>1. CASE d = c
        BY <1>1, <1>3, <3>1
      <3>2. CASE d # c /\ d \in sweep.waiting
        BY <1>3, <3>2
      <3>3. CASE d # c /\ d \notin sweep.waiting
        BY <1>3, <3>3
      <3>. QED  BY <3>1, <3>2, <3>3
    <2>2. passedBy[d] \subseteq ProbeChannels
      BY DEF Shaped
    <2>3. CASE e \in passedBy[d]
      <3>1. lastStartedAt[d] < lastStartedAt[e] /\ e \in ProbeChannels
        BY <2>2, <2>3 DEF OvertakenByLater
      <3>. QED  BY <1>1, <1>2, <2>1, <3>1
    <2>4. CASE e = c /\ d \in sweep.waiting
      BY <1>2, <2>1, <2>4 DEF LeftOut
    <2>. QED  BY <2>1, <2>3, <2>4
  <1>8. NoChannelStarves'
    BY <1>1, <1>3 DEF NoChannelStarves
  <1>. QED  BY <1>4, <1>5, <1>6, <1>7, <1>8

\* Requests and the clock leave the sweep alone.
LEMMA OutsideInv ==
    ASSUME StarveInv, leased' \subseteq ProbeChannels,
           time' = time \/ time' = time + 1,
           UNCHANGED <<lastStartedAt, sweep, passedBy>>
    PROVE  StarveInv'
  <1>. USE DEF StarveInv
  <1>1. Shaped' /\ LeftOut' /\ OvertakenByLater' /\ NoChannelStarves'
    BY DEF Shaped, LeftOut, OvertakenByLater, NoChannelStarves
  <1>2. StartsLieBehind'
    <2>1. /\ time \in Nat /\ sweep.at \in Nat
          /\ \A c \in ProbeChannels : lastStartedAt[c] \in Nat
      BY DEF Shaped, SweepRec
    <2>. QED  BY <2>1 DEF StartsLieBehind
  <1>. QED  BY <1>1, <1>2

LEMMA SweepEndsInv ==
    ASSUME StarveInv, sweep' = NoSweep, UNCHANGED <<leased, lastStartedAt, time, passedBy>>
    PROVE  StarveInv'
  BY DEF StarveInv, Shaped, SweepRec, SweepPcs, NoSweep, StartsLieBehind, LeftOut,
         OvertakenByLater, NoChannelStarves

\* A step of a sweep that keeps its candidates
LEMMA WithinSweepInv ==
    ASSUME StarveInv, sweep.pc \notin {"none", "loading"},
           NEW pc \in SweepPcs \ {"none", "loading"}, NEW probed \in SUBSET ProbeChannels,
           NEW resetting \in SUBSET ProbeChannels,
           sweep' = [sweep EXCEPT !.pc = pc, !.probed = probed, !.resetting = resetting],
           UNCHANGED <<leased, lastStartedAt, time, passedBy>>
    PROVE  StarveInv'
  <1>. USE DEF StarveInv
  <1>1. /\ sweep'.pc \notin {"none", "loading"}
        /\ sweep'.at = sweep.at /\ sweep'.batch = sweep.batch /\ sweep'.waiting = sweep.waiting
    BY DEF Shaped, SweepRec
  <1>2. Shaped'
    BY DEF Shaped, SweepRec
  <1>3. StartsLieBehind' /\ LeftOut' /\ OvertakenByLater' /\ NoChannelStarves'
    BY <1>1 DEF StartsLieBehind, LeftOut, OvertakenByLater, NoChannelStarves
  <1>. QED  BY <1>2, <1>3

LEMMA StartSweepInv ==
    ASSUME StarveInv, StartSweep PROVE StarveInv'
  <1>. USE DEF StarveInv, StartSweep
  <1>1. sweep' = [NoSweep EXCEPT !.pc = "loading", !.at = time, !.active = leased]
    OBVIOUS
  <1>2. /\ sweep'.pc = "loading" /\ sweep'.at = time
        /\ sweep'.batch = {} /\ sweep'.waiting = {}
    BY <1>1 DEF NoSweep
  <1>3. Shaped'
    BY <1>1 DEF Shaped, SweepRec, SweepPcs, NoSweep
  <1>4. StartsLieBehind'
    BY <1>2 DEF StartsLieBehind, Shaped
  <1>5. LeftOut' /\ OvertakenByLater' /\ NoChannelStarves'
    BY <1>2 DEF LeftOut, OvertakenByLater, NoChannelStarves
  <1>. QED  BY <1>3, <1>4, <1>5

LEMMA RestartInv ==
    ASSUME StarveInv, ProcessRestart PROVE StarveInv'
  <1>. USE DEF StarveInv, ProcessRestart
  <1>1. Shaped'
    BY DEF Shaped, SweepRec, SweepPcs, NoSweep
  <1>2. StartsLieBehind' /\ LeftOut' /\ OvertakenByLater' /\ NoChannelStarves'
    BY DEF Shaped, NoSweep, StartsLieBehind, LeftOut, OvertakenByLater, NoChannelStarves
  <1>. QED  BY <1>1, <1>2

LEMMA StarveStep == StarveInv /\ [RecoveryNext]_probeVars => StarveInv'
  <1>. SUFFICES ASSUME StarveInv, [RecoveryNext]_probeVars PROVE StarveInv'
    OBVIOUS
  <1>1. /\ leased \subseteq ProbeChannels /\ sweep \in SweepRec
        /\ \A c \in ProbeChannels : SameCredential(c) \subseteq ProbeChannels
    BY DEF StarveInv, Shaped, SameCredential
  <1>2. ASSUME NEW c \in ProbeChannels,
               LeaseChanges(c) \/ RecordFailure(c) \/ RecordQuota(c) \/ RecordSuccess(c)
        PROVE  StarveInv'
    BY <1>1, <1>2, OutsideInv DEF LeaseChanges, RecordFailure, RecordQuota, RecordSuccess
  <1>3. ASSUME NEW c \in ProbeChannels, StartProbing(c) PROVE StarveInv'
    BY <1>3, StartProbingInv
  <1>4. CASE StartSweep
    BY <1>4, StartSweepInv
  <1>5. CASE LoadCandidates
    BY <1>5, LoadCandidatesInv
  <1>6. ASSUME sweep.pc \notin {"none", "loading"}, Proceed,
               UNCHANGED <<leased, lastStartedAt, time, passedBy>>
        PROVE  StarveInv'
    <2>1. \/ sweep' = NoSweep
          \/ sweep' = [sweep EXCEPT !.pc = "probing", !.probed = {}, !.resetting = {}]
      BY <1>6 DEF Proceed
    <2>2. CASE sweep' = NoSweep
      BY <1>6, <2>2, SweepEndsInv
    <2>3. CASE sweep' = [sweep EXCEPT !.pc = "probing", !.probed = {}, !.resetting = {}]
      <3>1. "probing" \in SweepPcs \ {"none", "loading"} /\ {} \in SUBSET ProbeChannels
        BY DEF SweepPcs
      <3>. HIDE DEF SweepPcs
      <3>. QED  BY <1>6, <2>3, <3>1, WithinSweepInv
    <2>. QED  BY <2>1, <2>2, <2>3
  <1>7. ASSUME NEW pc \in SweepPcs \ {"none", "loading"}, sweep.pc \notin {"none", "loading"},
               NEW resetting \in SUBSET ProbeChannels,
               sweep' = [sweep EXCEPT !.pc = pc, !.resetting = resetting],
               UNCHANGED <<leased, lastStartedAt, time, passedBy>>
        PROVE  StarveInv'
    <2>1. sweep' = [sweep EXCEPT !.pc = pc, !.probed = sweep.probed, !.resetting = resetting]
      BY <1>1, <1>7 DEF SweepRec
    <2>2. sweep.probed \in SUBSET ProbeChannels
      BY <1>1 DEF SweepRec
    <2>. QED  BY <1>7, <2>1, <2>2, WithinSweepInv
  <1>8. ASSUME NEW pc \in SweepPcs \ {"none", "loading"}, sweep.pc \notin {"none", "loading"},
               sweep' = [sweep EXCEPT !.pc = pc],
               UNCHANGED <<leased, lastStartedAt, time, passedBy>>
        PROVE  StarveInv'
    <2>1. sweep' = [sweep EXCEPT !.pc = pc, !.resetting = sweep.resetting]
      BY <1>1, <1>8 DEF SweepRec
    <2>2. sweep.resetting \in SUBSET ProbeChannels
      BY <1>1 DEF SweepRec
    <2>. QED  BY <1>7, <1>8, <2>1, <2>2
  <1>9. ASSUME NEW supported \in BOOLEAN, ProbeAnswers(supported) PROVE StarveInv'
    BY <1>6, <1>8, <1>9 DEF ProbeAnswers, Then, SweepPcs
  <1>10. CASE ReadProbed
    <2>1. PICK c \in sweep.probed :
              \/ sweep' = [sweep EXCEPT !.pc = "clearing", !.resetting = {c}]
              \/ sweep' = [sweep EXCEPT !.pc = "clearing", !.resetting = SameCredential(c)]
              \/ sweep' = [sweep EXCEPT !.pc = "siblings"]
      BY <1>10 DEF ReadProbed
    <2>2. c \in ProbeChannels
      BY <1>1 DEF SweepRec
    <2>3. /\ sweep.pc \notin {"none", "loading"}
          /\ UNCHANGED <<leased, lastStartedAt, time, passedBy>>
      BY <1>10 DEF ReadProbed
    <2>4. /\ "clearing" \in SweepPcs \ {"none", "loading"}
          /\ "siblings" \in SweepPcs \ {"none", "loading"}
      BY DEF SweepPcs
    <2>5. {c} \in SUBSET ProbeChannels /\ SameCredential(c) \in SUBSET ProbeChannels
      BY <1>1, <2>2
    <2>6. CASE \E resetting \in SUBSET ProbeChannels :
                  sweep' = [sweep EXCEPT !.pc = "clearing", !.resetting = resetting]
      BY <1>7, <2>3, <2>4, <2>6
    <2>7. CASE sweep' = [sweep EXCEPT !.pc = "siblings"]
      BY <1>8, <2>3, <2>4, <2>7
    <2>. QED  BY <2>1, <2>5, <2>6, <2>7
  <1>11. CASE ReadSiblings
    <2>1. PICK c \in sweep.probed :
              sweep' = [sweep EXCEPT !.pc = "clearing",
                                     !.resetting = {d \in SameCredential(c) \ {c} : chan[d].failed}]
      BY <1>11 DEF ReadSiblings
    <2>2. {d \in SameCredential(c) \ {c} : chan[d].failed} \in SUBSET ProbeChannels
      BY DEF SameCredential
    <2>. QED  BY <1>7, <1>11, <2>1, <2>2 DEF ReadSiblings, SweepPcs
  <1>12. CASE ClearProbed
    BY <1>6, <1>12 DEF ClearProbed
  <1>13. CASE Tick
    BY <1>1, <1>13, OutsideInv DEF Tick
  <1>14. CASE ProcessRestart
    BY <1>14, RestartInv
  <1>15. CASE UNCHANGED probeVars
    BY <1>1, <1>15, OutsideInv DEF probeVars
  <1>. QED
    BY <1>2, <1>3, <1>4, <1>5, <1>9, <1>10, <1>11, <1>12, <1>13, <1>14, <1>15 DEF RecoveryNext

LEMMA StarveInit == ProbeInit => StarveInv
  BY DEF ProbeInit, NoSweep, StarveInv, Shaped, SweepRec, SweepPcs, StartsLieBehind, LeftOut,
         OvertakenByLater, NoChannelStarves

\* A due channel that a sweep left out is probed before any channel taken in its
\* place is taken again (compareRecoveryProbeCandidatePriority), for any number of
\* channels, any windows and batches, across requests, successes and restarts.
THEOREM NobodyStarves == RecoverySpec => []NoChannelStarves
  <1>1. StarveInv => NoChannelStarves
    BY DEF StarveInv
  <1>. QED  BY <1>1, StarveInit, StarveStep, PTL DEF RecoverySpec

\* What the type invariant adds: rows and bounds, a batch as large as allowed, of which
\* the channel being probed has been taken out.
ProbeRanges ==
    /\ chan \in [ProbeChannels -> [until : 0..MaxTime + CooldownSpan,
                                   failed : BOOLEAN, counted : BOOLEAN]]
    /\ time <= MaxTime /\ events \in 0..MaxEvents /\ restarts \in 0..MaxRestarts
    /\ sweep.pc = "none" <=> sweep = NoSweep
    /\ Cardinality(sweep.batch \cup sweep.probed) <= MaxBatch
    /\ sweep.probed = {} <=> sweep.pc \in {"none", "loading", "probing"}

\* Of a batch, the last one in the order of priority has all others before it.
LEMMA BatchIsSmall ==
    ASSUME StarveInv, sweep.pc = "loading"
    PROVE  Taken \subseteq ProbeChannels /\ Cardinality(Taken) <= MaxBatch
  <1>. DEFINE Ahead(x) == {e \in Due : Precedes(e, x)}
              Room(x) == MaxBatch - Cardinality(Ahead(x))
  <1>1. Due \subseteq ProbeChannels
    BY DueKnown
  <1>2. /\ ProbeChannels \subseteq Nat /\ IsFiniteSet(ProbeChannels) /\ MaxBatch \in Nat \ {0}
        /\ \A e \in Due : lastStartedAt[e] \in Nat /\ e \in Nat
    BY <1>1, RecoveryProbeAssumption DEF StarveInv, Shaped
  <1>3. Taken \subseteq Due /\ \A c \in Taken : Cardinality(Ahead(c)) < MaxBatch
    BY DEF Taken
  <1>4. \A c \in Due : IsFiniteSet(Ahead(c)) /\ Cardinality(Ahead(c)) \in Nat
    <2>1. \A c \in Due : Ahead(c) \subseteq ProbeChannels
      BY <1>1
    <2>. QED  BY <1>2, <2>1, FS_Subset, FS_CardinalityType
  <1>5. CASE Taken = {}
    BY <1>2, <1>5, FS_EmptySet
  <1>6. CASE Taken # {}
    <2>1. PICK c \in Taken : \A d \in Taken : Room(c) <= Room(d)
      <3>. DEFINE Rooms == {Room(d) : d \in Taken}
      <3>1. Rooms \in SUBSET Nat /\ Rooms # {}
        <4>1. ASSUME NEW d \in Taken PROVE Room(d) \in Nat
          <5>1. Cardinality(Ahead(d)) \in Nat /\ Cardinality(Ahead(d)) < MaxBatch
            BY <1>3, <1>4
          <5>. HIDE DEF Ahead
          <5>. QED  BY <1>2, <5>1
        <4>. HIDE DEF Room
        <4>. QED  BY <1>6, <4>1
      <3>2. PICK r \in Rooms : \A q \in Rooms : r <= q
        <4>. HIDE DEF Rooms
        <4>. QED  BY <3>1, LeastOfNaturals
      <3>. QED  BY <3>2
    <2>2. Taken \ {c} \subseteq Ahead(c)
      <3>. SUFFICES ASSUME NEW d \in Taken, d # c, ~Precedes(d, c) PROVE FALSE
        BY <1>3
      <3>1. c \in Due /\ d \in Due
        BY <1>3
      <3>2. Precedes(c, d) /\ ~Precedes(c, c)
        BY <1>2, <3>1 DEF Precedes
      <3>3. Ahead(c) \subseteq Ahead(d) /\ c \in Ahead(d) /\ c \notin Ahead(c)
        <4>1. \A e \in Due : Precedes(e, c) => Precedes(e, d)
          BY <1>2, <3>1, <3>2 DEF Precedes
        <4>. QED  BY <3>1, <3>2, <4>1
      <3>4. Cardinality(Ahead(c)) < Cardinality(Ahead(d))
        <4>. HIDE DEF Ahead
        <4>1. Ahead(c) # Ahead(d)
          BY <3>3
        <4>2. Cardinality(Ahead(c)) <= Cardinality(Ahead(d))
              /\ (Cardinality(Ahead(c)) = Cardinality(Ahead(d)) => Ahead(c) = Ahead(d))
          BY <1>4, <3>1, <3>3, FS_Subset
        <4>. QED  BY <1>4, <3>1, <4>1, <4>2
      <3>5. Room(c) <= Room(d)
        BY <2>1
      <3>. HIDE DEF Ahead
      <3>. QED  BY <1>2, <1>4, <3>1, <3>4, <3>5
    <2>3. /\ Cardinality(Taken \ {c}) <= Cardinality(Ahead(c)) /\ IsFiniteSet(Taken \ {c})
          /\ Cardinality(Taken \ {c}) \in Nat
      BY <1>3, <1>4, <2>2, FS_Subset, FS_CardinalityType
    <2>4. Cardinality(Taken) = Cardinality(Taken \ {c}) + 1
      <3>1. Taken = (Taken \ {c}) \cup {c} /\ c \notin Taken \ {c}
        OBVIOUS
      <3>. QED  BY <2>3, <3>1, FS_AddElement
    <2>. HIDE DEF Ahead
    <2>. QED  BY <1>1, <1>2, <1>3, <1>4, <2>3, <2>4
  <1>. QED  BY <1>1, <1>3, <1>5, <1>6

\* A process that has started: cooldowns from before it, and no sweep.
LEMMA ProbeInitRanges == ProbeInit => ProbeRanges
  <1>. SUFFICES ASSUME ProbeInit PROVE ProbeRanges
    OBVIOUS
  <1>. USE RecoveryProbeAssumption
  <1>1. chan \in [ProbeChannels -> [until : 0..MaxTime + CooldownSpan,
                                    failed : BOOLEAN, counted : BOOLEAN]]
    <2>1. PICK cooling : chan = [c \in ProbeChannels |->
              IF c \in cooling THEN [until |-> MaxTime + 1, failed |-> TRUE, counted |-> TRUE] ELSE Well]
      BY DEF ProbeInit
    <2>2. MaxTime + 1 \in 0..MaxTime + CooldownSpan /\ 0 \in 0..MaxTime + CooldownSpan
      OBVIOUS
    <2>. QED  BY <2>1, <2>2, Zenon DEF Well
  <1>2. sweep = NoSweep /\ sweep.pc = "none" /\ sweep.probed = {} /\ sweep.batch \cup sweep.probed = {}
    BY DEF ProbeInit, NoSweep
  <1>3. Cardinality(sweep.batch \cup sweep.probed) <= MaxBatch
    BY <1>2, FS_EmptySet
  <1>. QED  BY <1>1, <1>2, <1>3 DEF ProbeInit, ProbeRanges

\* The rows a request writes have their bound from the clock.
LEMMA OutcomeRanges ==
    ASSUME StarveInv, ProbeRanges, NEW c \in ProbeChannels,
           RecordFailure(c) \/ RecordQuota(c) \/ RecordSuccess(c) \/ LeaseChanges(c)
    PROVE  ProbeRanges'
  <1>. USE RecoveryProbeAssumption
  <1>1. /\ chan \in [ProbeChannels -> [until : 0..MaxTime + CooldownSpan,
                                       failed : BOOLEAN, counted : BOOLEAN]]
        /\ 0 \in 0..MaxTime + CooldownSpan /\ time + CooldownSpan \in 0..MaxTime + CooldownSpan
    BY DEF StarveInv, Shaped, ProbeRanges
  <1>2. events' \in 0..MaxEvents /\ UNCHANGED <<sweep, time, restarts>>
    <2>1. Event /\ UNCHANGED <<sweep, time, restarts>>
      BY DEF RecordFailure, RecordQuota, RecordSuccess, LeaseChanges
    <2>. QED  BY <2>1 DEF Event, ProbeRanges
  <1>3. chan' \in [ProbeChannels -> [until : 0..MaxTime + CooldownSpan,
                                     failed : BOOLEAN, counted : BOOLEAN]]
    <2>. HIDE RecoveryProbeAssumption
    <2>1. CASE RecordFailure(c)
      <3>1. PICK until \in {0, time + CooldownSpan} :
              chan' = [chan EXCEPT ![c] = [until |-> until, failed |-> TRUE, counted |-> TRUE]]
        BY <2>1 DEF RecordFailure
      <3>2. until \in 0..MaxTime + CooldownSpan
        BY <1>1, <3>1
      <3>. QED  BY <1>1, <3>1, <3>2, Zenon
    <2>2. CASE RecordQuota(c)
      BY <1>1, <2>2, Zenon DEF RecordQuota
    <2>3. CASE RecordSuccess(c)
      BY <1>1, <2>3 DEF RecordSuccess, Recovered
    <2>4. CASE LeaseChanges(c)
      BY <1>1, <2>4 DEF LeaseChanges
    <2>. QED  BY <2>1, <2>2, <2>3, <2>4
  <1>. QED  BY <1>2, <1>3 DEF ProbeRanges

\* A sweep that ends, or goes on with what is left of its batch
LEMMA ProceedRanges ==
    ASSUME StarveInv, ProbeRanges, Proceed \/ sweep' = NoSweep,
           UNCHANGED <<time, events>>, restarts' \in 0..MaxRestarts,
           chan' \in [ProbeChannels -> [until : 0..MaxTime + CooldownSpan,
                                        failed : BOOLEAN, counted : BOOLEAN]]
    PROVE  ProbeRanges'
  <1>1. sweep \in SweepRec /\ MaxBatch \in Nat /\ IsFiniteSet(ProbeChannels)
    BY RecoveryProbeAssumption DEF StarveInv, Shaped
  <1>2. CASE sweep' = NoSweep
    <2>1. sweep'.pc = "none" /\ sweep'.probed = {} /\ sweep'.batch \cup sweep'.probed = {}
      BY <1>2 DEF NoSweep
    <2>2. Cardinality(sweep'.batch \cup sweep'.probed) <= MaxBatch
      BY <1>1, <2>1, FS_EmptySet
    <2>. QED  BY <1>2, <2>1, <2>2 DEF ProbeRanges
  <1>3. CASE sweep' = [sweep EXCEPT !.pc = "probing", !.probed = {}, !.resetting = {}]
    <2>1. sweep'.pc = "probing" /\ sweep'.probed = {} /\ sweep'.batch = sweep.batch
      BY <1>1, <1>3 DEF SweepRec
    <2>2. Cardinality(sweep'.batch \cup sweep'.probed) <= MaxBatch
      <3>1. /\ sweep'.batch \cup sweep'.probed \subseteq sweep.batch \cup sweep.probed
            /\ IsFiniteSet(sweep.batch \cup sweep.probed)
        BY <1>1, <2>1, FS_Subset DEF SweepRec
      <3>2. /\ Cardinality(sweep'.batch \cup sweep'.probed) <= Cardinality(sweep.batch \cup sweep.probed)
            /\ Cardinality(sweep'.batch \cup sweep'.probed) \in Nat
            /\ Cardinality(sweep.batch \cup sweep.probed) \in Nat
        BY <3>1, FS_Subset, FS_CardinalityType
      <3>. QED  BY <1>1, <3>2 DEF ProbeRanges
    <2>3. sweep' # NoSweep
      BY <2>1 DEF NoSweep
    <2>. QED  BY <2>1, <2>2, <2>3 DEF ProbeRanges
  <1>. QED  BY <1>2, <1>3 DEF Proceed

\* A step of a sweep behind its choice that keeps its batch and what is probed
LEMMA StayRanges ==
    ASSUME StarveInv, ProbeRanges, sweep'.pc \in {"booking", "siblings", "clearing"},
           sweep.pc \in {"asking", "booking", "siblings"},
           sweep'.probed = sweep.probed, sweep'.batch = sweep.batch,
           UNCHANGED <<chan, time, events, restarts>>
    PROVE  ProbeRanges'
  <1>1. sweep' # NoSweep
    BY DEF NoSweep
  <1>. QED  BY <1>1 DEF ProbeRanges

\* Every step keeps the ranges.
LEMMA ProbeNextRanges == StarveInv /\ ProbeRanges /\ [RecoveryNext]_probeVars => ProbeRanges'
  <1>. SUFFICES ASSUME StarveInv, ProbeRanges, [RecoveryNext]_probeVars PROVE ProbeRanges'
    OBVIOUS
  <1>1. sweep \in SweepRec /\ time \in Nat /\ MaxBatch \in Nat /\ MaxTime \in Nat
    BY RecoveryProbeAssumption DEF StarveInv, Shaped
  <1>2. ASSUME NEW c \in ProbeChannels,
               LeaseChanges(c) \/ RecordFailure(c) \/ RecordQuota(c) \/ RecordSuccess(c)
        PROVE  ProbeRanges'
    BY <1>2, OutcomeRanges
  <1>3. ASSUME NEW c \in ProbeChannels, StartProbing(c) PROVE ProbeRanges'
    <2>1. /\ sweep.pc = "probing" /\ c \in sweep.batch
          /\ sweep' = [sweep EXCEPT !.pc = "asking", !.batch = @ \ {c}, !.probed = {c}]
          /\ UNCHANGED <<chan, time, events, restarts>>
      BY <1>3 DEF StartProbing
    <2>2. sweep'.pc = "asking" /\ sweep'.probed = {c} /\ sweep'.batch = sweep.batch \ {c}
      BY <1>1, <2>1 DEF SweepRec
    <2>3. sweep.probed = {} /\ sweep'.batch \cup sweep'.probed = sweep.batch \cup sweep.probed
      BY <2>1, <2>2 DEF ProbeRanges
    <2>4. sweep' # NoSweep
      BY <2>2 DEF NoSweep
    <2>. QED  BY <2>1, <2>2, <2>3, <2>4 DEF ProbeRanges
  <1>4. CASE StartSweep
    <2>1. /\ sweep'.pc = "loading" /\ sweep'.probed = {} /\ sweep'.batch \cup sweep'.probed = {}
          /\ UNCHANGED <<chan, time, events, restarts>>
      BY <1>4 DEF StartSweep, NoSweep
    <2>2. sweep' # NoSweep /\ Cardinality(sweep'.batch \cup sweep'.probed) <= MaxBatch
      BY <1>1, <2>1, FS_EmptySet DEF NoSweep
    <2>. QED  BY <2>1, <2>2 DEF ProbeRanges
  <1>5. CASE LoadCandidates
    <2>1. sweep.pc = "loading" /\ UNCHANGED <<chan, time, events, restarts>>
      BY <1>5 DEF LoadCandidates
    <2>2. CASE sweep' = NoSweep
      BY <2>1, <2>2, ProceedRanges DEF ProbeRanges
    <2>3. CASE sweep' = [sweep EXCEPT !.pc = "probing", !.batch = Taken, !.waiting = Due \ Taken]
      <3>1. sweep'.pc = "probing" /\ sweep'.batch = Taken /\ sweep'.probed = sweep.probed
        BY <1>1, <2>3 DEF SweepRec
      <3>2. sweep.probed = {}
        BY <2>1 DEF ProbeRanges
      <3>3. sweep' # NoSweep /\ sweep'.batch \cup sweep'.probed = Taken
        BY <3>1, <3>2 DEF NoSweep
      <3>4. Cardinality(Taken) <= MaxBatch
        BY <2>1, BatchIsSmall
      <3>. QED  BY <2>1, <3>1, <3>2, <3>3, <3>4 DEF ProbeRanges
    <2>. QED  BY <1>5, <2>2, <2>3 DEF LoadCandidates
  <1>6. ASSUME NEW supported \in BOOLEAN, ProbeAnswers(supported) PROVE ProbeRanges'
    <2>1. sweep.pc = "asking" /\ UNCHANGED <<chan, time, events, restarts>>
      BY <1>6 DEF ProbeAnswers
    <2>2. CASE Proceed
      BY <2>1, <2>2, ProceedRanges DEF ProbeRanges
    <2>3. CASE sweep' = [sweep EXCEPT !.pc = "booking"]
      BY <1>1, <2>1, <2>3, StayRanges DEF SweepRec
    <2>. QED  BY <1>6, <2>2, <2>3 DEF ProbeAnswers, Then
  <1>7. CASE ReadProbed
    <2>1. PICK c \in sweep.probed :
              \/ sweep' = [sweep EXCEPT !.pc = "clearing", !.resetting = {c}]
              \/ sweep' = [sweep EXCEPT !.pc = "clearing", !.resetting = SameCredential(c)]
              \/ sweep' = [sweep EXCEPT !.pc = "siblings"]
      BY <1>7 DEF ReadProbed
    <2>2. sweep.pc = "booking" /\ UNCHANGED <<chan, time, events, restarts>>
      BY <1>7 DEF ReadProbed
    <2>3. /\ sweep'.pc \in {"clearing", "siblings"}
          /\ sweep'.probed = sweep.probed /\ sweep'.batch = sweep.batch
      BY <1>1, <2>1 DEF SweepRec
    <2>. QED  BY <2>2, <2>3, StayRanges
  <1>8. CASE ReadSiblings
    <2>1. PICK resetting : sweep' = [sweep EXCEPT !.pc = "clearing", !.resetting = resetting]
      <3>1. \E c \in sweep.probed :
               sweep' = [sweep EXCEPT !.pc = "clearing",
                                      !.resetting = {d \in SameCredential(c) \ {c} : chan[d].failed}]
        BY <1>8 DEF ReadSiblings
      <3>. QED  BY <3>1
    <2>2. sweep.pc = "siblings" /\ UNCHANGED <<chan, time, events, restarts>>
      BY <1>8 DEF ReadSiblings
    <2>3. sweep'.pc = "clearing" /\ sweep'.probed = sweep.probed /\ sweep'.batch = sweep.batch
      BY <1>1, <2>1 DEF SweepRec
    <2>. QED  BY <2>2, <2>3, StayRanges
  <1>9. CASE ClearProbed
    <2>1. chan' \in [ProbeChannels -> [until : 0..MaxTime + CooldownSpan,
                                       failed : BOOLEAN, counted : BOOLEAN]]
      <3>1. 0 \in 0..MaxTime + CooldownSpan
        BY RecoveryProbeAssumption
      <3>. QED  BY <1>9, <3>1 DEF ClearProbed, Recovered, ProbeRanges
    <2>. QED  BY <1>9, <2>1, ProceedRanges DEF ClearProbed, ProbeRanges
  <1>10. CASE Tick
    BY <1>1, <1>10 DEF Tick, ProbeRanges
  <1>11. CASE ProcessRestart
    <2>1. restarts' \in 0..MaxRestarts /\ sweep' = NoSweep /\ UNCHANGED <<chan, time, events>>
      BY <1>11, RecoveryProbeAssumption DEF ProcessRestart, ProbeRanges
    <2>. QED  BY <2>1, ProceedRanges DEF ProbeRanges
  <1>12. CASE UNCHANGED probeVars
    BY <1>12 DEF probeVars, ProbeRanges
  <1>. QED
    BY <1>2, <1>3, <1>4, <1>5, <1>6, <1>7, <1>8, <1>9, <1>10, <1>11, <1>12 DEF RecoveryNext

\* The sweep keeps its shape and takes no more than MaxBatch channels at a time
\* (CHANNEL_RECOVERY_MAX_BATCH, runChannelRecoveryProbeSweep), for any channels.
THEOREM ProbeTypeCorrect == RecoverySpec => []ProbeTypeOK
  <1>1. StarveInv /\ ProbeRanges => ProbeTypeOK
    <2>. SUFFICES ASSUME StarveInv, ProbeRanges PROVE ProbeTypeOK
      OBVIOUS
    <2>1. /\ leased \subseteq ProbeChannels /\ sweep \in SweepRec /\ time \in Nat \ {0} /\ MaxTime \in Nat
          /\ passedBy \in [ProbeChannels -> SUBSET ProbeChannels]
      BY RecoveryProbeAssumption DEF StarveInv, Shaped
    <2>2. lastStartedAt \in [ProbeChannels -> 0..time]
      BY DEF StarveInv, Shaped, StartsLieBehind
    <2>3. sweep.batch \cap sweep.waiting = {}
      BY DEF StarveInv, LeftOut
    <2>4. time \in 1..MaxTime
      BY <2>1 DEF ProbeRanges
    <2>. QED  BY <2>1, <2>2, <2>3, <2>4 DEF ProbeTypeOK, ProbeRanges, SweepRec, SweepPcs
  <1>. QED  BY StarveInit, StarveStep, ProbeInitRanges, ProbeNextRanges, <1>1, PTL DEF RecoverySpec

-----------------------------------------------------------------------------
(***************************************************************************)
(* The endpoint that comes first                                           *)
(***************************************************************************)

\* Among any endpoints there is one that comes first.
LEMMA OneComesFirst ==
    ASSUME EndpointTypeOK, NEW T \in SUBSET Endpoints, T # {}
    PROVE  First(T) # {}
  <1> DEFINE Orders == {endpoint[e].order : e \in T}
  <1>1. \A e \in T : e \in Nat /\ endpoint[e].order \in Nat /\ endpoint[e].lastSelectedAt \in Nat
    BY EndpointAssumption DEF EndpointTypeOK
  <1>2. PICK o \in Orders : \A p \in Orders : o <= p
    <2>1. Orders \in SUBSET Nat /\ Orders # {}
      BY <1>1
    <2> HIDE DEF Orders
    <2>2. QED
      BY <2>1, LeastOfNaturals
  <1> DEFINE T1 == {e \in T : endpoint[e].order = o}
             Times == {endpoint[e].lastSelectedAt : e \in T1}
  <1>3. PICK m \in Times : \A p \in Times : m <= p
    <2>1. Times \in SUBSET Nat /\ Times # {}
      BY <1>1, <1>2
    <2> HIDE DEF Times
    <2>2. QED
      BY <2>1, LeastOfNaturals
  <1> DEFINE T2 == {e \in T1 : endpoint[e].lastSelectedAt = m}
  <1>4. PICK x \in T2 : \A y \in T2 : x <= y
    <2>1. T2 \in SUBSET Nat /\ T2 # {}
      BY <1>1, <1>3
    <2> HIDE DEF T2
    <2>2. QED
      BY <2>1, LeastOfNaturals
  <1>5. x \in T /\ endpoint[x].order = o /\ endpoint[x].lastSelectedAt = m
    BY <1>4
  <1>6. ASSUME NEW y \in T \ {x} PROVE Before(x, y)
    <2>1. /\ x \in Nat /\ y \in Nat /\ x # y /\ o \in Nat /\ m \in Nat
          /\ endpoint[y].order \in Nat /\ endpoint[y].lastSelectedAt \in Nat
      BY <1>1, <1>5
    <2>2. o <= endpoint[y].order
      BY <1>2
    <2>3. endpoint[y].order = o => m <= endpoint[y].lastSelectedAt
      BY <1>3
    <2>4. endpoint[y].order = o /\ endpoint[y].lastSelectedAt = m => x <= y
      BY <1>4
    <2> HIDE DEF Orders, Times, T1, T2
    <2>5. QED
      BY <1>5, <2>1, <2>2, <2>3, <2>4 DEF Before
  <1>7. x \in First(T)
    BY <1>5, <1>6 DEF First
  <1>8. QED
    BY <1>7

-----------------------------------------------------------------------------
(***************************************************************************)
(* The inductive invariant                                                 *)
(***************************************************************************)

EndpointTimes == 0..MaxTick
CooldownTimes == 0..(MaxTick + Cooldown)
EndpointRows == [there : BOOLEAN, enabled : BOOLEAN, order : {0, 1},
                 cooldownUntil : CooldownTimes, lastSelectedAt : EndpointTimes]
CallerPcs == {"idle", "select", "calling", "exhausted"}
CallTargets == Endpoints \cup {NoEndpoint}
CallerRecs == [pc : CallerPcs, target : CallTargets, attempted : SUBSET Endpoints]

\* A request has called no endpoint but those it has tried and the one it calls.
CallsCounted(q) ==
    /\ caller[q].pc = "idle" => caller[q].attempted = {}
    /\ caller[q].pc = "select" => called[q].ids \subseteq caller[q].attempted
    /\ caller[q].pc = "calling" => called[q].ids \subseteq caller[q].attempted \cup {caller[q].target}
    /\ ~called[q].again

\* What was ready all along is ready; what was tried is on cooldown, gone or disabled.
RowsKnown(q) ==
    /\ ready[q] \subseteq Eligible(endpoint, tick)
    /\ caller[q].pc \in {"select", "calling"} /\ ~revived[q] =>
          caller[q].attempted \cap Eligible(endpoint, tick) = {}
    /\ caller[q].pc = "exhausted" /\ ~revived[q] => ready[q] = {}

EndpointIInv == EndpointTypeOK /\ \A q \in Callers : CallsCounted(q) /\ RowsKnown(q)

\* The type invariant in these names, and of the next state.
LEMMA EndpointShapes ==
    EndpointTypeOK <=>
        /\ endpoint \in [Endpoints -> EndpointRows] /\ caller \in [Callers -> CallerRecs]
        /\ tick \in 1..MaxTick /\ calls \in 0..MaxCalls
        /\ called \in [Callers -> [ids : SUBSET Endpoints, again : BOOLEAN]]
        /\ ready \in [Callers -> SUBSET Endpoints] /\ revived \in [Callers -> BOOLEAN]
  BY DEF EndpointTypeOK, EndpointRows, EndpointTimes, CooldownTimes, CallerRecs, CallerPcs,
         CallTargets

LEMMA EndpointShapesNext ==
    ASSUME endpoint' \in [Endpoints -> EndpointRows], caller' \in [Callers -> CallerRecs],
           tick' \in 1..MaxTick, calls' \in 0..MaxCalls,
           called' \in [Callers -> [ids : SUBSET Endpoints, again : BOOLEAN]],
           ready' \in [Callers -> SUBSET Endpoints], revived' \in [Callers -> BOOLEAN]
    PROVE  EndpointTypeOK'
  BY DEF EndpointTypeOK, EndpointRows, EndpointTimes, CooldownTimes, CallerRecs, CallerPcs,
         CallTargets

\* How the record of a request changes.
LEMMA CallerMoves ==
    ASSUME EndpointTypeOK, NEW q \in Callers, NEW pc \in CallerPcs,
           NEW e \in CallTargets, NEW tried \in SUBSET Endpoints
    PROVE  /\ [caller EXCEPT ![q].pc = pc] \in [Callers -> CallerRecs]
           /\ [caller EXCEPT ![q].pc = pc, ![q].target = e] \in [Callers -> CallerRecs]
           /\ [caller EXCEPT ![q].pc = pc, ![q].target = e, ![q].attempted = tried]
                 \in [Callers -> CallerRecs]
  <1>1. caller \in [Callers -> CallerRecs]
    BY EndpointShapes
  <1>2. [caller EXCEPT ![q].pc = pc] \in [Callers -> CallerRecs]
    BY <1>1 DEF CallerRecs
  <1>3. [caller EXCEPT ![q].pc = pc, ![q].target = e] \in [Callers -> CallerRecs]
    BY <1>1 DEF CallerRecs
  <1>4. [caller EXCEPT ![q].pc = pc, ![q].target = e, ![q].attempted = tried]
           \in [Callers -> CallerRecs]
    BY <1>1 DEF CallerRecs
  <1>5. QED
    BY <1>2, <1>3, <1>4

\* A row that an edit leaves, or that is there at first.
LEMMA RowsOfAnEdit ==
    /\ Gone \in EndpointRows
    /\ \A i \in {0, 1} :
          Row(i) \in EndpointRows /\ [Row(i) EXCEPT !.enabled = FALSE] \in EndpointRows
  <1>1. 0 \in EndpointTimes /\ 0 \in CooldownTimes
    BY EndpointAssumption DEF EndpointTimes, CooldownTimes
  <1>2. QED
    BY <1>1 DEF Gone, Row, EndpointRows

LEMMA EndpointInitInv == EndpointInit => EndpointIInv
  <1> SUFFICES ASSUME EndpointInit PROVE EndpointIInv
    OBVIOUS
  <1>1. /\ Gone \in EndpointRows
        /\ \A i \in {0, 1} :
              Row(i) \in EndpointRows /\ [Row(i) EXCEPT !.enabled = FALSE] \in EndpointRows
    BY RowsOfAnEdit
  <1>2. endpoint \in [Endpoints -> EndpointRows]
    BY <1>1 DEF EndpointInit
  <1>3. EndpointTypeOK
    <2>1. Resting \in CallerRecs
      BY DEF Resting, CallerRecs, CallerPcs, CallTargets
    <2>2. caller \in [Callers -> CallerRecs]
      BY <2>1 DEF EndpointInit
    <2>3. /\ tick \in 1..MaxTick /\ calls \in 0..MaxCalls
          /\ called \in [Callers -> [ids : SUBSET Endpoints, again : BOOLEAN]]
          /\ ready \in [Callers -> SUBSET Endpoints] /\ revived \in [Callers -> BOOLEAN]
      BY EndpointAssumption DEF EndpointInit
    <2>4. QED
      BY <1>2, <2>2, <2>3, EndpointShapes
  <1>4. QED
    BY <1>3 DEF EndpointInit, EndpointIInv, CallsCounted, RowsKnown, Resting

-----------------------------------------------------------------------------
(***************************************************************************)
(* Every step preserves the invariant                                      *)
(***************************************************************************)

LEMMA BeginInv ==
    ASSUME EndpointIInv, NEW q \in Callers, Begin(q)
    PROVE  EndpointIInv'
  <1>1. /\ caller[q].pc = "idle" /\ caller[q].attempted = {}
        /\ UNCHANGED <<endpoint, tick>> /\ calls' = calls + 1 /\ calls < MaxCalls
    BY DEF Begin, EndpointIInv, CallsCounted
  <1>2. /\ caller'[q].pc = "select" /\ caller'[q].attempted = {}
        /\ \A p \in Callers \ {q} : caller'[p] = caller[p]
        /\ caller' \in [Callers -> CallerRecs]
    <2>1. caller' = [caller EXCEPT ![q].pc = "select"] /\ EndpointTypeOK
      BY DEF Begin, EndpointIInv
    <2>2. "select" \in CallerPcs
      BY DEF CallerPcs
    <2>3. caller \in [Callers -> CallerRecs]
      BY <2>1, EndpointShapes
    <2>4. caller' \in [Callers -> CallerRecs]
      BY <2>1, <2>2, CallerMoves DEF CallTargets
    <2>5. QED
      BY <1>1, <2>1, <2>3, <2>4 DEF CallerRecs
  <1>3. /\ called'[q].ids = {} /\ called'[q].again = called[q].again
        /\ \A p \in Callers \ {q} : called'[p] = called[p]
        /\ called' \in [Callers -> [ids : SUBSET Endpoints, again : BOOLEAN]]
    BY DEF Begin, EndpointIInv, EndpointTypeOK
  <1>4. /\ ready'[q] = Eligible(endpoint, tick) /\ Eligible(endpoint, tick) \subseteq Endpoints
        /\ \A p \in Callers \ {q} : ready'[p] = ready[p] /\ revived'[p] = revived[p]
        /\ ready' \in [Callers -> SUBSET Endpoints] /\ revived' \in [Callers -> BOOLEAN]
    BY DEF Begin, EndpointIInv, EndpointTypeOK, Eligible
  <1>5. EndpointTypeOK'
    BY <1>1, <1>2, <1>3, <1>4, EndpointAssumption, EndpointShapes, EndpointShapesNext DEF EndpointIInv
  <1>6. ASSUME NEW p \in Callers PROVE CallsCounted(p)' /\ RowsKnown(p)'
    <2>1. CallsCounted(p) /\ RowsKnown(p) /\ Eligible(endpoint, tick)' = Eligible(endpoint, tick)
      BY <1>1 DEF EndpointIInv, Eligible
    <2>2. CASE p = q
      BY <1>2, <1>3, <1>4, <2>1, <2>2 DEF CallsCounted, RowsKnown
    <2>3. CASE p # q
      BY <1>2, <1>3, <1>4, <2>1, <2>3 DEF CallsCounted, RowsKnown
    <2>4. QED
      BY <2>2, <2>3
  <1>7. QED
    BY <1>5, <1>6 DEF EndpointIInv

\* Taking the endpoint that comes first, if it was not tried yet.
LEMMA CallInv ==
    ASSUME EndpointIInv, NEW q \in Callers, caller[q].pc = "select",
           NEW e \in Endpoints \cup {NoEndpoint}, e \notin caller[q].attempted, Call(q, e),
           UNCHANGED <<endpoint, tick, ready, revived, calls>>
    PROVE  EndpointIInv'
  <1>1. called[q].ids \subseteq caller[q].attempted /\ ~called[q].again
        /\ called[q].ids \subseteq Endpoints /\ e \notin called[q].ids
    BY DEF EndpointIInv, EndpointTypeOK, CallsCounted
  <1>2. /\ caller'[q].pc = "calling" /\ caller'[q].target = e
        /\ caller'[q].attempted = caller[q].attempted
        /\ \A p \in Callers \ {q} : caller'[p] = caller[p]
        /\ caller' \in [Callers -> CallerRecs]
    <2>1. caller' = [caller EXCEPT ![q].pc = "calling", ![q].target = e] /\ EndpointTypeOK
      BY DEF Call, EndpointIInv
    <2>2. "calling" \in CallerPcs /\ e \in CallTargets
      BY DEF CallerPcs, CallTargets
    <2>3. caller \in [Callers -> CallerRecs]
      BY <2>1, EndpointShapes
    <2>4. caller' \in [Callers -> CallerRecs]
      BY <2>1, <2>2, CallerMoves
    <2>5. QED
      BY <2>1, <2>3, <2>4 DEF CallerRecs
  <1>3. /\ called'[q].ids = called[q].ids \cup ({e} \ {NoEndpoint}) /\ ~called'[q].again
        /\ \A p \in Callers \ {q} : called'[p] = called[p]
        /\ called' \in [Callers -> [ids : SUBSET Endpoints, again : BOOLEAN]]
    BY <1>1 DEF Call, EndpointIInv, EndpointTypeOK
  <1>4. EndpointTypeOK'
    BY <1>2, <1>3, EndpointShapes, EndpointShapesNext DEF EndpointIInv
  <1>5. ASSUME NEW p \in Callers PROVE CallsCounted(p)' /\ RowsKnown(p)'
    <2>1. CallsCounted(p) /\ RowsKnown(p) /\ Eligible(endpoint, tick)' = Eligible(endpoint, tick)
      BY DEF EndpointIInv, Eligible
    <2>2. CASE p = q
      BY <1>1, <1>2, <1>3, <2>1, <2>2 DEF CallsCounted, RowsKnown
    <2>3. CASE p # q
      BY <1>2, <1>3, <2>1, <2>3 DEF CallsCounted, RowsKnown
    <2>4. QED
      BY <2>2, <2>3
  <1>6. QED
    BY <1>4, <1>5 DEF EndpointIInv

LEMMA SelectInv ==
    ASSUME EndpointIInv, NEW q \in Callers, Select(q)
    PROVE  EndpointIInv'
  <1> DEFINE first == First(Eligible(endpoint, tick))
             next == first \ caller[q].attempted
  <1>1. /\ caller[q].pc = "select" /\ UNCHANGED <<endpoint, tick, ready, revived, calls>>
        /\ Eligible(endpoint, tick) \subseteq Endpoints /\ first \subseteq Eligible(endpoint, tick)
    BY DEF Select, Eligible, First
  <1>2. CASE Call(q, NoEndpoint)
    <2>1. NoEndpoint \notin caller[q].attempted
      BY EndpointAssumption DEF EndpointIInv, EndpointTypeOK
    <2>2. QED
      BY <1>1, <1>2, <2>1, CallInv
  <1>3. CASE \E e \in next : Call(q, e)
    BY <1>1, <1>3, CallInv
  <1>4. CASE next = {} /\ caller' = [caller EXCEPT ![q].pc = "exhausted"] /\ UNCHANGED called
    <2>1. /\ caller'[q].pc = "exhausted" /\ \A p \in Callers \ {q} : caller'[p] = caller[p]
          /\ caller' \in [Callers -> CallerRecs]
      <3>1. EndpointTypeOK /\ "exhausted" \in CallerPcs /\ NoEndpoint \in CallTargets
        BY DEF EndpointIInv, CallerPcs, CallTargets
      <3>2. caller \in [Callers -> CallerRecs]
        BY <3>1, EndpointShapes
      <3>3. caller' \in [Callers -> CallerRecs]
        BY <1>4, <3>1, CallerMoves
      <3>4. QED
        BY <1>4, <3>2, <3>3 DEF CallerRecs
    <2>2. EndpointTypeOK'
      BY <1>1, <1>4, <2>1, EndpointShapes, EndpointShapesNext DEF EndpointIInv
    <2>3. ~revived[q] => Eligible(endpoint, tick) = {}
      <3>1. SUFFICES ASSUME ~revived[q], Eligible(endpoint, tick) # {} PROVE FALSE
        OBVIOUS
      <3>2. first # {}
        BY <1>1, <3>1, OneComesFirst DEF EndpointIInv
      <3>3. caller[q].attempted \cap Eligible(endpoint, tick) = {}
        BY <1>1, <3>1 DEF EndpointIInv, RowsKnown
      <3>4. QED
        BY <1>1, <1>4, <3>2, <3>3
    <2>4. ASSUME NEW p \in Callers PROVE CallsCounted(p)' /\ RowsKnown(p)'
      <3>1. CallsCounted(p) /\ RowsKnown(p) /\ Eligible(endpoint, tick)' = Eligible(endpoint, tick)
        BY <1>1 DEF EndpointIInv, Eligible
      <3>2. CASE p = q
        BY <1>1, <1>4, <2>1, <2>3, <3>1, <3>2 DEF CallsCounted, RowsKnown
      <3>3. CASE p # q
        BY <1>1, <1>4, <2>1, <3>1, <3>3 DEF CallsCounted, RowsKnown
      <3>4. QED
        BY <3>2, <3>3
    <2>5. QED
      BY <2>2, <2>4 DEF EndpointIInv
  <1>5. QED
    BY <1>2, <1>3, <1>4 DEF Select

\* A step that changes rows or the time: those who did not take it observe it, and
\* one who took it rests, or goes on with what it tried put out of reach.
LEMMA ObservedInv ==
    ASSUME EndpointIInv, NEW others \in SUBSET Callers, Observe(endpoint', tick', others),
           endpoint' \in [Endpoints -> EndpointRows],
           tick' \in 1..MaxTick,
           caller' \in [Callers -> CallerRecs],
           \A q \in others : caller'[q] = caller[q],
           \A q \in Callers \ others :
               \/ caller'[q].pc = "idle" /\ caller'[q].attempted = {}
               \/ /\ caller'[q].pc = "select" /\ called[q].ids \subseteq caller'[q].attempted
                  /\ ~revived[q] => caller'[q].attempted \cap Eligible(endpoint', tick') = {},
           UNCHANGED <<called, calls>>
    PROVE  EndpointIInv'
  <1>1. \A q \in Callers :
           /\ ready'[q] = ready[q] \cap Eligible(endpoint', tick')
           /\ revived'[q] = (revived[q] \/ (q \in others
                    /\ caller[q].attempted \cap Eligible(endpoint', tick') # {}))
    BY DEF Observe
  <1>2. ready' \in [Callers -> SUBSET Endpoints] /\ revived' \in [Callers -> BOOLEAN]
    BY DEF Observe, EndpointIInv, EndpointTypeOK
  <1>3. EndpointTypeOK'
    BY <1>2, EndpointShapes, EndpointShapesNext DEF EndpointIInv
  <1>4. Eligible(endpoint, tick)' = Eligible(endpoint', tick')
    OBVIOUS
  <1>5. ASSUME NEW q \in Callers PROVE CallsCounted(q)' /\ RowsKnown(q)'
    <2>1. CallsCounted(q) /\ RowsKnown(q)
      BY DEF EndpointIInv
    <2>2. CASE q \in others
      BY <1>1, <1>4, <2>1, <2>2 DEF CallsCounted, RowsKnown
    <2>3. CASE q \notin others
      BY <1>1, <1>4, <2>1, <2>3 DEF CallsCounted, RowsKnown
    <2>4. QED
      BY <2>2, <2>3
  <1>6. QED
    BY <1>3, <1>5 DEF EndpointIInv

\* What the bookings leave of the rows.
LEMMA BookedShape ==
    ASSUME EndpointIInv, NEW e \in Endpoints, NEW retryable \in BOOLEAN
    PROVE  /\ SuccessBooked(e) \in [Endpoints -> EndpointRows]
           /\ FailureBooked(e, retryable) \in
                 [Endpoints -> EndpointRows]
           /\ \A f \in Endpoints \ {e} : FailureBooked(e, retryable)[f] = endpoint[f]
           /\ retryable => ~FailureBooked(e, retryable)[e].there
                              \/ FailureBooked(e, retryable)[e].cooldownUntil = tick + Cooldown
  <1>1. tick \in EndpointTimes /\ 0 \in CooldownTimes /\ tick + Cooldown \in CooldownTimes
    BY EndpointAssumption DEF EndpointIInv, EndpointTypeOK, EndpointTimes, CooldownTimes
  <1>2. endpoint \in [Endpoints -> EndpointRows]
    BY EndpointShapes DEF EndpointIInv
  <1>3. QED
    BY <1>1, <1>2 DEF SuccessBooked, FailureBooked, Updated, EndpointRows

LEMMA FinishedFacts ==
    ASSUME EndpointIInv, NEW q \in Callers, Finished(q)
    PROVE  /\ caller'[q].pc = "idle" /\ caller'[q].attempted = {}
           /\ \A p \in Callers \ {q} : caller'[p] = caller[p]
           /\ caller' \in [Callers -> CallerRecs]
  <1>1. caller \in [Callers -> CallerRecs] /\ Resting \in CallerRecs
    BY EndpointShapes DEF EndpointIInv, Resting, CallerRecs, CallerPcs, CallTargets
  <1>2. QED
    BY <1>1 DEF Finished, Resting

LEMMA EndsInv ==
    ASSUME EndpointIInv, NEW q \in Callers, Succeeds(q) \/ FailsForGood(q)
    PROVE  EndpointIInv'
  <1>1. caller[q].target \in Endpoints \cup {NoEndpoint} /\ tick \in 1..MaxTick
    BY DEF EndpointIInv, EndpointTypeOK
  <1>2. /\ Finished(q) /\ Observe(endpoint', tick, Callers \ {q}) /\ UNCHANGED <<tick, called, calls>>
    BY DEF Succeeds, FailsForGood
  <1>3. endpoint' \in [Endpoints -> EndpointRows]
    <2>1. endpoint \in [Endpoints -> EndpointRows]
      BY EndpointShapes DEF EndpointIInv
    <2>2. \/ endpoint' = endpoint
          \/ /\ caller[q].target \in Endpoints
             /\ \/ endpoint' = SuccessBooked(caller[q].target)
                \/ endpoint' = FailureBooked(caller[q].target, FALSE)
      BY <1>1 DEF Succeeds, FailsForGood
    <2>3. QED
      BY <2>1, <2>2, BookedShape
  <1>4. Observe(endpoint', tick', Callers \ {q}) /\ tick' \in 1..MaxTick
    BY <1>1, <1>2
  <1> DEFINE others == Callers \ {q}
  <1>5. /\ others \in SUBSET Callers /\ Observe(endpoint', tick', others)
        /\ \A p \in others : caller'[p] = caller[p]
        /\ \A p \in Callers \ others : caller'[p].pc = "idle" /\ caller'[p].attempted = {}
    BY <1>2, <1>4, FinishedFacts
  <1> HIDE DEF others
  <1>6. QED
    BY <1>2, <1>3, <1>4, <1>5, FinishedFacts, ObservedInv

LEMMA RotateInv ==
    ASSUME EndpointIInv, NEW q \in Callers, Rotate(q)
    PROVE  EndpointIInv'
  <1> DEFINE e == caller[q].target
             others == Callers \ {q}
  <1>1. /\ caller[q].pc = "calling" /\ e \in Endpoints /\ endpoint' = FailureBooked(e, TRUE)
        /\ UNCHANGED <<tick, called, calls>> /\ tick \in 1..MaxTick
        /\ Observe(endpoint', tick', others)
    BY DEF Rotate, EndpointIInv, EndpointTypeOK
  <1>2. /\ caller'[q].pc = "select" /\ caller'[q].attempted = caller[q].attempted \cup {e}
        /\ \A p \in others : caller'[p] = caller[p]
        /\ caller' \in [Callers -> CallerRecs]
    <2>1. /\ caller' = [caller EXCEPT ![q].pc = "select", ![q].target = NoEndpoint,
                                      ![q].attempted = @ \cup {e}]
          /\ EndpointTypeOK /\ "select" \in CallerPcs /\ NoEndpoint \in CallTargets
      BY DEF Rotate, EndpointIInv, CallerPcs, CallTargets
    <2>2. caller \in [Callers -> CallerRecs]
      BY <2>1, EndpointShapes
    <2> DEFINE tried == caller[q].attempted \cup {e}
    <2>3. tried \in SUBSET Endpoints
      BY <1>1, <2>2 DEF CallerRecs
    <2>4. caller' = [caller EXCEPT ![q].pc = "select", ![q].target = NoEndpoint,
                                   ![q].attempted = tried]
      BY <2>1, <2>2 DEF CallerRecs
    <2> HIDE DEF tried
    <2>5. caller' \in [Callers -> CallerRecs]
      <3>1. "select" \in CallerPcs /\ NoEndpoint \in CallTargets
        BY <2>1
      <3> DEFINE c1 == [caller EXCEPT ![q].pc = "select"]
                 c2 == [c1 EXCEPT ![q].target = NoEndpoint]
      <3>2. c1 \in [Callers -> CallerRecs]
        BY <2>2, <3>1 DEF CallerRecs
      <3>3. c2 \in [Callers -> CallerRecs]
        <4> HIDE DEF c1
        <4>1. QED
          BY <3>1, <3>2 DEF CallerRecs
      <3>4. [c2 EXCEPT ![q].attempted = tried] \in [Callers -> CallerRecs]
        <4> HIDE DEF c2
        <4>1. QED
          BY <2>3, <3>3 DEF CallerRecs
      <3>5. caller' = [c2 EXCEPT ![q].attempted = tried]
        BY <2>4
      <3>6. QED
        BY <3>4, <3>5
    <2>6. /\ caller'[q].pc = "select" /\ caller'[q].attempted = tried
          /\ \A p \in others : caller'[p] = caller[p]
      BY <2>2, <2>4 DEF CallerRecs
    <2>7. QED
      BY <2>5, <2>6 DEF tried
  <1>3. /\ endpoint' \in [Endpoints -> EndpointRows]
        /\ \A f \in Endpoints \ {e} : endpoint'[f] = endpoint[f]
        /\ ~endpoint'[e].there \/ endpoint'[e].cooldownUntil = tick + Cooldown
    <2>1. TRUE \in BOOLEAN
      OBVIOUS
    <2>2. /\ FailureBooked(e, TRUE) \in [Endpoints -> EndpointRows]
          /\ \A f \in Endpoints \ {e} : FailureBooked(e, TRUE)[f] = endpoint[f]
          /\ ~FailureBooked(e, TRUE)[e].there
                \/ FailureBooked(e, TRUE)[e].cooldownUntil = tick + Cooldown
      <3> HIDE DEF e
      <3>1. QED
        BY <1>1, <2>1, BookedShape
    <2>3. QED
      BY <1>1, <2>2
  <1>4. e \notin Eligible(endpoint', tick')
    <2>1. ~(tick + Cooldown <= tick) /\ tick' = tick
      BY <1>1, EndpointAssumption
    <2> HIDE DEF e
    <2>2. QED
      BY <1>3, <2>1 DEF Eligible
  <1>5. \A f \in Endpoints \ {e} : f \in Eligible(endpoint', tick') => f \in Eligible(endpoint, tick)
    BY <1>1, <1>3 DEF Eligible
  <1>6. ~revived[q] => caller[q].attempted \cap Eligible(endpoint, tick) = {}
    BY <1>1 DEF EndpointIInv, RowsKnown
  <1>7. called[q].ids \subseteq caller'[q].attempted
    BY <1>1, <1>2 DEF EndpointIInv, CallsCounted
  <1>8. ~revived[q] => caller'[q].attempted \cap Eligible(endpoint', tick') = {}
    <2>1. Eligible(endpoint', tick') \subseteq Endpoints
      BY DEF Eligible
    <2> HIDE DEF e
    <2>2. QED
      BY <1>2, <1>4, <1>5, <1>6, <2>1
  <1>9. /\ others \in SUBSET Callers
        /\ \A p \in Callers \ others :
              /\ caller'[p].pc = "select" /\ called[p].ids \subseteq caller'[p].attempted
              /\ ~revived[p] => caller'[p].attempted \cap Eligible(endpoint', tick') = {}
    BY <1>2, <1>7, <1>8
  <1> HIDE DEF others, e
  <1>10. QED
    BY <1>1, <1>2, <1>3, <1>9, ObservedInv

LEMMA ThrowInv ==
    ASSUME EndpointIInv, NEW q \in Callers, Throw(q)
    PROVE  EndpointIInv'
  <1>1. Finished(q) /\ UNCHANGED <<endpoint, tick, called, ready, revived, calls>>
    BY DEF Throw
  <1>2. EndpointTypeOK'
    BY <1>1, FinishedFacts, EndpointShapes, EndpointShapesNext DEF EndpointIInv
  <1>3. ASSUME NEW p \in Callers PROVE CallsCounted(p)' /\ RowsKnown(p)'
    <2>1. CallsCounted(p) /\ RowsKnown(p) /\ Eligible(endpoint, tick)' = Eligible(endpoint, tick)
      BY <1>1 DEF EndpointIInv, Eligible
    <2>2. CASE p = q
      BY <1>1, <2>1, <2>2, FinishedFacts DEF CallsCounted, RowsKnown
    <2>3. CASE p # q
      BY <1>1, <2>1, <2>3, FinishedFacts DEF CallsCounted, RowsKnown
    <2>4. QED
      BY <2>2, <2>3
  <1>4. QED
    BY <1>2, <1>3 DEF EndpointIInv

LEMMA RowsMoveInv ==
    ASSUME EndpointIInv, EditSite \/ ElapseTick
    PROVE  EndpointIInv'
  <1>1. /\ Observe(endpoint', tick', Callers) /\ UNCHANGED <<caller, called, calls>>
        /\ tick' \in 1..MaxTick
    BY EndpointAssumption DEF EditSite, ElapseTick, EndpointIInv, EndpointTypeOK
  <1>2. endpoint' \in [Endpoints -> EndpointRows]
    <2>1. CASE ElapseTick
      BY <2>1, EndpointShapes DEF ElapseTick, EndpointIInv
    <2>2. CASE EditSite
      <3>1. PICK new \in {{}, Unissued}, place \in {0, 1} :
               endpoint' = [e \in Endpoints |-> IF e \in new THEN Row(place) ELSE Gone]
        BY <2>2 DEF EditSite
      <3>2. QED
        BY <3>1, RowsOfAnEdit
    <2>3. QED
      BY <2>1, <2>2
  <1>3. caller' \in [Callers -> CallerRecs]
    BY <1>1, EndpointShapes DEF EndpointIInv
  <1>4. QED
    BY <1>1, <1>2, <1>3, ObservedInv

LEMMA EndpointNextInv == EndpointIInv /\ [EndpointNext]_endpointVars => EndpointIInv'
  <1> SUFFICES ASSUME EndpointIInv, [EndpointNext]_endpointVars PROVE EndpointIInv'
    OBVIOUS
  <1>1. CASE UNCHANGED endpointVars
    BY <1>1 DEF endpointVars, EndpointIInv, EndpointTypeOK, CallsCounted, RowsKnown, Eligible
  <1>2. CASE EndpointNext
    BY <1>2, BeginInv, SelectInv, EndsInv, RotateInv, ThrowInv, RowsMoveInv DEF EndpointNext
  <1>3. QED
    BY <1>1, <1>2

LEMMA EndpointInvariant == EndpointSpec => []EndpointIInv
  BY EndpointInitInv, EndpointNextInv, PTL DEF EndpointSpec

\* The rows and what the requests know of them keep their shape.
THEOREM EndpointsTypeCorrect == EndpointSpec => []EndpointTypeOK
  BY EndpointInvariant, PTL DEF EndpointIInv

\* However many requests share the endpoints of a site, none calls an endpoint
\* twice, and one that gives up has left none untried that was ready all along,
\* unless one it had tried became eligible again.
THEOREM NoEndpointLeftOut == EndpointSpec => []EachReadyEndpointOnce
  <1>1. EndpointIInv => EachReadyEndpointOnce
    BY DEF EndpointIInv, CallsCounted, RowsKnown, EachReadyEndpointOnce
  <1>2. QED
    BY <1>1, EndpointInvariant, PTL

-----------------------------------------------------------------------------
(***************************************************************************)
(* The inductive invariant                                                 *)
(***************************************************************************)

SnapTimes == 0..MaxMs
LoadMarks == Loads \cup {NoLoad}
EntryRecs == [generated : SnapTimes, inFlight : LoadMarks]
LoadPcs == {"unused", "loading", "writing", "over"}
LoadKeys == SnapKeys \cup {CHOOSE k \in SnapKeys : TRUE}
LoadRecs == [pc : LoadPcs, key : LoadKeys, generated : SnapTimes]
AskRecs == [pc : {"idle", "row", "joined"}, key : LoadKeys, forced : BOOLEAN,
            at : SnapTimes, load : LoadMarks]

SnapShape ==
    /\ entry \in [SnapKeys -> EntryRecs]
    /\ loads \in [Loads -> LoadRecs]
    /\ copy \in [SnapKeys -> SnapTimes]
    /\ asking \in [SnapReaders -> AskRecs]
    /\ ms \in 1..MaxMs

\* A mark or a reader that waits is for a load under way, of the same key.
For(l, k) == l \in Loads /\ Running(l) /\ loads[l].key = k

SnapIInv ==
    /\ SnapShape
    /\ \A l \in Loads : Running(l) => loads[l].key \in SnapKeys
    /\ \A k \in SnapKeys : entry[k].inFlight # NoLoad => For(entry[k].inFlight, k)
    /\ \A r \in SnapReaders :
          /\ asking[r].pc = "row" => asking[r].key \in SnapKeys
          /\ asking[r].pc = "joined" => For(asking[r].load, asking[r].key)

LEMMA SnapRecords ==
    /\ Nothing \in EntryRecs /\ Unused \in LoadRecs /\ NotAsking \in AskRecs
    /\ Nothing.inFlight = NoLoad /\ NotAsking.pc = "idle" /\ Unused.pc = "unused"
    /\ [Unused EXCEPT !.pc = "over"] \in LoadRecs /\ [Unused EXCEPT !.pc = "over"].pc = "over"
    /\ \A t \in SnapTimes : Unmarked(t) \in EntryRecs /\ Unmarked(t).inFlight = NoLoad
  <1>1. 0 \in SnapTimes
    BY SnapshotAssumption DEF SnapTimes
  <1>2. QED
    BY <1>1 DEF Nothing, Unmarked, Unused, NotAsking, EntryRecs, LoadRecs, AskRecs, LoadPcs,
                LoadKeys, LoadMarks

LEMMA SnapInitInv == SnapInit => SnapIInv
  <1> SUFFICES ASSUME SnapInit PROVE SnapIInv
    OBVIOUS
  <1>1. SnapShape
    BY SnapRecords, SnapshotAssumption DEF SnapInit, SnapShape, SnapTimes
  <1>2. QED
    BY <1>1, SnapRecords DEF SnapInit, SnapIInv, Running

-----------------------------------------------------------------------------
(***************************************************************************)
(* Every step preserves the invariant                                      *)
(***************************************************************************)

\* Putting an entry in changes no other, unless one is dropped.
LEMMA PutFacts ==
    ASSUME entry \in [SnapKeys -> EntryRecs], NEW k \in SnapKeys, NEW e \in EntryRecs, Put(k, e)
    PROVE  /\ entry' \in [SnapKeys -> EntryRecs]
           /\ \A x \in SnapKeys \ {k} : entry'[x] = Nothing \/ entry'[x] = entry[x]
           /\ entry'[k] = Nothing \/ entry'[k] = e
  <1>1. PICK set : entry' = [x \in SnapKeys |-> IF x \notin set THEN Nothing
                                                ELSE IF x = k THEN e ELSE entry[x]]
    BY DEF Put
  <1>2. Nothing \in EntryRecs
    BY SnapRecords
  <1>3. QED
    BY <1>1, <1>2

\* A load that starts was not running, so that nothing is marked with it; no other
\* load changes.
LEMMA StartLoadFacts ==
    ASSUME SnapIInv, NEW k \in SnapKeys, NEW l \in Loads, StartLoad(k, l)
    PROVE  /\ loads' \in [Loads -> LoadRecs]
           /\ \A x \in Loads : Running(x)' => loads'[x].key \in SnapKeys
           /\ For(l, k)'
           /\ \A x, y : For(x, y) => For(x, y)'
  <1>1. loads \in [Loads -> LoadRecs] /\ 0 \in SnapTimes /\ "loading" \in LoadPcs
    BY SnapshotAssumption DEF SnapIInv, SnapShape, SnapTimes, LoadPcs
  <1>2. loads' = [loads EXCEPT ![l] = [pc |-> "loading", key |-> k, generated |-> 0]]
    BY DEF StartLoad
  <1>3. loads'[l].pc = "loading" /\ loads'[l].key = k
    BY <1>1, <1>2
  <1>4. \A x \in Loads \ {l} : loads'[x] = loads[x]
    BY <1>1, <1>2
  <1>5. loads[l].pc = "unused"
    BY DEF StartLoad
  <1>6. loads' \in [Loads -> LoadRecs]
    BY <1>1, <1>2 DEF LoadRecs, LoadKeys
  <1>7. For(l, k)'
    BY <1>3 DEF For, Running
  <1>8. ASSUME NEW x, NEW y, For(x, y) PROVE For(x, y)'
    BY <1>4, <1>5, <1>8 DEF For, Running
  <1>9. \A x \in Loads : Running(x)' => loads'[x].key \in SnapKeys
    BY <1>3, <1>4 DEF SnapIInv, Running
  <1>10. QED
    BY <1>6, <1>7, <1>8, <1>9

\* A step of one reader in which every load goes on: whatever is put in and whatever
\* is joined is for a load of the key.
LEMMA AskedInv ==
    ASSUME SnapIInv, NEW r \in SnapReaders, NEW k \in SnapKeys, NEW e \in EntryRecs, Put(k, e),
           loads' \in [Loads -> LoadRecs],
           \A x \in Loads : Running(x)' => loads'[x].key \in SnapKeys,
           \A x, y : For(x, y) => For(x, y)',
           e.inFlight # NoLoad => For(e.inFlight, k)',
           asking' \in [SnapReaders -> AskRecs],
           \A q \in SnapReaders \ {r} : asking'[q] = asking[q],
           asking'[r].pc \in {"idle", "joined"},
           asking'[r].pc = "joined" => For(asking[r].load, asking[r].key)',
           UNCHANGED <<copy, ms>>
    PROVE  SnapIInv'
  <1>1. /\ entry' \in [SnapKeys -> EntryRecs]
        /\ \A x \in SnapKeys \ {k} : entry'[x] = Nothing \/ entry'[x] = entry[x]
        /\ entry'[k] = Nothing \/ entry'[k] = e
    BY PutFacts DEF SnapIInv, SnapShape
  <1>2. SnapShape'
    BY <1>1 DEF SnapIInv, SnapShape
  <1>3. ASSUME NEW x \in SnapKeys, entry'[x].inFlight # NoLoad PROVE For(entry[x].inFlight, x)'
    <2>1. entry'[x] # Nothing
      BY <1>3, SnapRecords
    <2>2. CASE x = k
      BY <1>1, <1>3, <2>1, <2>2
    <2>3. CASE x # k
      <3>1. entry'[x] = entry[x]
        BY <1>1, <2>1, <2>3
      <3>2. For(entry[x].inFlight, x)
        BY <1>3, <3>1 DEF SnapIInv
      <3>3. QED
        BY <3>1, <3>2 DEF For, Running
    <2>4. QED
      BY <2>2, <2>3
  <1>4. ASSUME NEW q \in SnapReaders
        PROVE  /\ asking'[q].pc = "row" => asking'[q].key \in SnapKeys
               /\ asking'[q].pc = "joined" => For(asking[q].load, asking[q].key)'
    <2>1. CASE q = r
      BY <2>1
    <2>2. CASE q # r
      BY <2>2 DEF SnapIInv
    <2>3. QED
      BY <2>1, <2>2
  <1>5. QED
    BY <1>2, <1>3, <1>4 DEF SnapIInv

\* What a reader decides on an entry whose mark, if any, is a load of the key.
LEMMA DecideInv ==
    ASSUME SnapIInv, NEW r \in SnapReaders, NEW k \in SnapKeys, NEW forced \in BOOLEAN,
           NEW when \in SnapTimes, NEW e \in EntryRecs, e.inFlight # NoLoad => For(e.inFlight, k),
           Decide(r, k, forced, when, e), UNCHANGED <<copy, ms>>
    PROVE  SnapIInv'
  <1>1. asking \in [SnapReaders -> AskRecs] /\ k \in LoadKeys
    BY DEF SnapIInv, SnapShape, LoadKeys
  <1>2. ASSUME Ended(r)
        PROVE  /\ asking' \in [SnapReaders -> AskRecs]
               /\ \A q \in SnapReaders \ {r} : asking'[q] = asking[q]
               /\ asking'[r].pc = "idle"
    BY <1>1, <1>2, SnapRecords DEF Ended
  <1>3. ASSUME NEW l \in Loads, Joined(r, k, forced, when, l)
        PROVE  /\ asking' \in [SnapReaders -> AskRecs]
               /\ \A q \in SnapReaders \ {r} : asking'[q] = asking[q]
               /\ asking'[r].pc = "joined" /\ asking'[r].load = l /\ asking'[r].key = k
    BY <1>1, <1>3 DEF Joined, AskRecs, LoadMarks
  <1>4. ASSUME UNCHANGED loads
        PROVE  /\ loads' \in [Loads -> LoadRecs]
               /\ \A x \in Loads : Running(x)' => loads'[x].key \in SnapKeys
               /\ \A x, y : For(x, y) => For(x, y)'
    BY <1>4 DEF SnapIInv, SnapShape, Running, For
  <1>5. ASSUME NEW l \in Loads, StartLoad(k, l)
        PROVE  /\ loads' \in [Loads -> LoadRecs]
               /\ \A x \in Loads : Running(x)' => loads'[x].key \in SnapKeys
               /\ For(l, k)'
               /\ \A x, y : For(x, y) => For(x, y)'
    BY <1>5, StartLoadFacts
  <1>6. ASSUME NEW l \in Loads
        PROVE  [e EXCEPT !.inFlight = l] \in EntryRecs /\ [e EXCEPT !.inFlight = l].inFlight = l
    BY DEF EntryRecs, LoadMarks
  <1>7. CASE Ended(r) /\ Put(k, e) /\ UNCHANGED loads
    <2>1. /\ asking'[r].pc \in {"idle", "joined"}
          /\ asking'[r].pc = "joined" => For(asking[r].load, asking[r].key)'
      <3>1. asking'[r].pc = "idle"
        BY <1>2, <1>7
      <3>2. QED
        BY <3>1
    <2>2. e.inFlight # NoLoad => For(e.inFlight, k)'
      BY <1>4, <1>7
    <2>3. QED
      BY <1>2, <1>4, <1>7, <2>1, <2>2, AskedInv
  <1>8. CASE \E l \in Loads : Ended(r) /\ StartLoad(k, l) /\ Put(k, [e EXCEPT !.inFlight = l])
    <2>1. PICK l \in Loads : Ended(r) /\ StartLoad(k, l) /\ Put(k, [e EXCEPT !.inFlight = l])
      BY <1>8
    <2> DEFINE marked == [e EXCEPT !.inFlight = l]
    <2>2. marked \in EntryRecs /\ For(l, k)' /\ Put(k, marked) /\ marked.inFlight = l
      BY <1>5, <1>6, <2>1
    <2> HIDE DEF marked
    <2>3. /\ asking'[r].pc \in {"idle", "joined"}
          /\ asking'[r].pc = "joined" => For(asking[r].load, asking[r].key)'
      <3>1. asking'[r].pc = "idle"
        BY <1>2, <2>1
      <3>2. QED
        BY <3>1
    <2>4. marked.inFlight # NoLoad => For(marked.inFlight, k)'
      BY <2>2
    <2>5. QED
      BY <1>2, <1>5, <2>1, <2>2, <2>3, <2>4, AskedInv
  <1>9. CASE e.inFlight # NoLoad /\ Joined(r, k, forced, when, e.inFlight) /\ Put(k, e) /\ UNCHANGED loads
    <2>1. e.inFlight \in Loads /\ For(e.inFlight, k)'
      BY <1>4, <1>9 DEF For
    <2>2. asking'[r].load = e.inFlight /\ asking'[r].key = k /\ asking'[r].pc = "joined"
      BY <1>3, <1>9, <2>1
    <2>3. For(asking[r].load, asking[r].key)'
      BY <2>1, <2>2 DEF For, Running
    <2>4. QED
      BY <1>3, <1>4, <1>9, <2>1, <2>2, <2>3, AskedInv
  <1>10. CASE \E l \in Loads : /\ StartLoad(k, l) /\ Put(k, [e EXCEPT !.inFlight = l])
                               /\ Joined(r, k, forced, when, l)
    <2>1. PICK l \in Loads : /\ StartLoad(k, l) /\ Put(k, [e EXCEPT !.inFlight = l])
                             /\ Joined(r, k, forced, when, l)
      BY <1>10
    <2> DEFINE marked == [e EXCEPT !.inFlight = l]
    <2>2. marked \in EntryRecs /\ For(l, k)' /\ Put(k, marked) /\ marked.inFlight = l
      BY <1>5, <1>6, <2>1
    <2> HIDE DEF marked
    <2>3. asking'[r].load = l /\ asking'[r].key = k /\ asking'[r].pc = "joined"
      BY <1>3, <2>1
    <2>4. For(asking[r].load, asking[r].key)'
      BY <2>2, <2>3 DEF For, Running
    <2>5. QED
      BY <1>3, <1>5, <2>1, <2>2, <2>3, <2>4, AskedInv
  <1>11. QED
    BY <1>7, <1>8, <1>9, <1>10 DEF Decide, ServeFresh, ServeStale, JoinOrLoad

LEMMA AskInv ==
    ASSUME SnapIInv, NEW r \in SnapReaders, NEW k \in SnapKeys, NEW forced \in BOOLEAN,
           Ask(r, k, forced)
    PROVE  SnapIInv'
  <1>1. /\ ms \in SnapTimes /\ UNCHANGED <<copy, ms>> /\ asking \in [SnapReaders -> AskRecs]
        /\ entry[k] \in EntryRecs /\ (entry[k].inFlight # NoLoad => For(entry[k].inFlight, k))
    BY SnapshotAssumption DEF Ask, SnapIInv, SnapShape, SnapTimes
  <1>2. CASE Decide(r, k, forced, ms, entry[k])
    BY <1>1, <1>2, DecideInv
  <1>3. CASE /\ asking' = [asking EXCEPT ![r] = [pc |-> "row", key |-> k, forced |-> FALSE,
                                                 at |-> ms, load |-> NoLoad]]
             /\ UNCHANGED <<entry, order, loads>>
    <2>1. /\ asking' \in [SnapReaders -> AskRecs]
          /\ asking'[r].pc = "row" /\ asking'[r].key = k
          /\ \A q \in SnapReaders \ {r} : asking'[q] = asking[q]
      BY <1>1, <1>3 DEF AskRecs, LoadKeys, LoadMarks
    <2>2. SnapShape' /\ \A l \in Loads : Running(l)' => loads'[l].key \in SnapKeys
      BY <1>1, <1>3, <2>1 DEF SnapIInv, SnapShape, Running
    <2>3. \A x \in SnapKeys : entry'[x].inFlight # NoLoad => For(entry[x].inFlight, x)'
      BY <1>3 DEF SnapIInv, For, Running
    <2>4. ASSUME NEW q \in SnapReaders
          PROVE  /\ asking'[q].pc = "row" => asking'[q].key \in SnapKeys
                 /\ asking'[q].pc = "joined" => For(asking[q].load, asking[q].key)'
      <3>1. CASE q = r
        BY <2>1, <3>1
      <3>2. CASE q # r
        BY <1>3, <2>1, <3>2 DEF SnapIInv, For, Running
      <3>3. QED
        BY <3>1, <3>2
    <2>5. QED
      BY <2>2, <2>3, <2>4 DEF SnapIInv
  <1>4. QED
    BY <1>2, <1>3 DEF Ask

LEMMA ReadCopyInv ==
    ASSUME SnapIInv, NEW r \in SnapReaders, ReadCopy(r)
    PROVE  SnapIInv'
  <1> DEFINE k == asking[r].key
             when == asking[r].at
  <1>1. k \in SnapKeys /\ when \in SnapTimes /\ FALSE \in BOOLEAN /\ UNCHANGED <<copy, ms>>
    BY DEF ReadCopy, SnapIInv, SnapShape, AskRecs
  <1>2. PICK found \in {copy[k], 0} :
           Decide(r, k, FALSE, when, IF Cached(k) THEN entry[k] ELSE Unmarked(found))
    BY DEF ReadCopy
  <1>3. found \in SnapTimes
    BY <1>1, SnapshotAssumption DEF SnapIInv, SnapShape, SnapTimes
  <1> DEFINE e == IF Cached(k) THEN entry[k] ELSE Unmarked(found)
  <1>4. e \in EntryRecs /\ (e.inFlight # NoLoad => For(e.inFlight, k))
    BY <1>1, <1>3, SnapRecords DEF SnapIInv, SnapShape
  <1> HIDE DEF e, k, when
  <1>5. Decide(r, k, FALSE, when, e)
    BY <1>2 DEF e
  <1>6. QED
    BY <1>1, <1>4, <1>5, DecideInv

\* A load is over: the entry of its key loses its mark, and whoever waits for it goes on.
LEMMA OverInv ==
    ASSUME SnapIInv, NEW l \in Loads, Running(l), Release(l),
           loads' \in [Loads -> LoadRecs], loads'[l].pc = "over",
           \A x \in Loads \ {l} : loads'[x] = loads[x],
           entry' \in [SnapKeys -> EntryRecs],
           \A x \in SnapKeys : entry'[x].inFlight \in {NoLoad, entry[x].inFlight},
           entry'[loads[l].key].inFlight = NoLoad,
           copy' \in [SnapKeys -> SnapTimes], UNCHANGED ms
    PROVE  SnapIInv'
  <1>1. asking' \in [SnapReaders -> AskRecs]
    BY SnapRecords DEF Release, SnapIInv, SnapShape
  <1>2. SnapShape' /\ \A x \in Loads : Running(x)' => loads'[x].key \in SnapKeys
    BY <1>1 DEF SnapIInv, SnapShape, Running
  <1>3. \A x, y : x # l /\ For(x, y) => For(x, y)'
    BY DEF For, Running
  <1>4. ASSUME NEW x \in SnapKeys, entry'[x].inFlight # NoLoad PROVE For(entry[x].inFlight, x)'
    <2>1. entry'[x].inFlight = entry[x].inFlight /\ For(entry[x].inFlight, x) /\ x # loads[l].key
      BY <1>4 DEF SnapIInv
    <2>2. entry[x].inFlight # l
      BY <2>1 DEF For
    <2>3. QED
      BY <1>3, <2>1, <2>2 DEF For, Running
  <1>5. ASSUME NEW q \in SnapReaders
        PROVE  /\ asking'[q].pc = "row" => asking'[q].key \in SnapKeys
               /\ asking'[q].pc = "joined" => For(asking[q].load, asking[q].key)'
    <2>1. CASE asking[q].pc = "joined" /\ asking[q].load = l
      BY <2>1, SnapRecords DEF Release
    <2>2. CASE ~(asking[q].pc = "joined" /\ asking[q].load = l)
      <3>1. asking'[q] = asking[q]
        BY <2>2 DEF Release
      <3>2. QED
        BY <1>3, <2>2, <3>1 DEF SnapIInv, For, Running
    <2>3. QED
      BY <2>1, <2>2
  <1>6. QED
    BY <1>2, <1>4, <1>5 DEF SnapIInv

\* The entry under the key of a load loses its mark.
LEMMA UnmarkFacts ==
    ASSUME SnapIInv, NEW l \in Loads, Running(l), Unmark(l)
    PROVE  /\ entry' \in [SnapKeys -> EntryRecs]
           /\ \A x \in SnapKeys : entry'[x].inFlight \in {NoLoad, entry[x].inFlight}
           /\ entry'[loads[l].key].inFlight = NoLoad
  <1> DEFINE k == loads[l].key
  <1>1. k \in SnapKeys /\ entry \in [SnapKeys -> EntryRecs]
    BY DEF SnapIInv, SnapShape
  <1>2. entry' = [entry EXCEPT ![k].inFlight = NoLoad]
    BY DEF Unmark
  <1> HIDE DEF k
  <1>3. /\ entry' \in [SnapKeys -> EntryRecs]
        /\ \A x \in SnapKeys : entry'[x].inFlight \in {NoLoad, entry[x].inFlight}
        /\ entry'[k].inFlight = NoLoad
    BY <1>1, <1>2 DEF EntryRecs, LoadMarks
  <1>4. QED
    BY <1>3 DEF k

LEMMA LoaderReturnsInv ==
    ASSUME SnapIInv, NEW l \in Loads, LoaderReturns(l)
    PROVE  SnapIInv'
  <1> DEFINE k == loads[l].key
  <1>1. /\ Running(l) /\ k \in SnapKeys /\ ms \in SnapTimes /\ UNCHANGED <<copy, ms>>
        /\ loads \in [Loads -> LoadRecs] /\ copy \in [SnapKeys -> SnapTimes]
        /\ entry \in [SnapKeys -> EntryRecs] /\ Put(k, Unmarked(ms)) /\ 0 \in SnapTimes
    BY SnapshotAssumption DEF LoaderReturns, SnapIInv, SnapShape, Running, SnapTimes
  <1>2. /\ entry' \in [SnapKeys -> EntryRecs]
        /\ \A x \in SnapKeys \ {k} : entry'[x] = Nothing \/ entry'[x] = entry[x]
        /\ entry'[k].inFlight = NoLoad
    <2>1. Unmarked(ms) \in EntryRecs /\ Unmarked(ms).inFlight = NoLoad
      BY <1>1, SnapRecords
    <2> HIDE DEF k
    <2>2. QED
      BY <1>1, <2>1, PutFacts, SnapRecords
  <1>3. \A x \in SnapKeys : entry'[x].inFlight \in {NoLoad, entry[x].inFlight}
    <2> HIDE DEF k
    <2>1. QED
      BY <1>2, SnapRecords
  <1>4. loads' = [loads EXCEPT ![l].pc = IF Persisted THEN "writing" ELSE "over",
                               ![l].generated = IF Persisted THEN ms ELSE 0]
    BY DEF LoaderReturns
  <1>5. CASE Persisted
    <2>1. /\ loads' \in [Loads -> LoadRecs] /\ loads'[l].pc = "writing" /\ loads'[l].key = k
          /\ \A x \in Loads \ {l} : loads'[x] = loads[x]
      BY <1>1, <1>4, <1>5 DEF LoadRecs, LoadPcs
    <2>2. UNCHANGED asking
      BY <1>5 DEF LoaderReturns
    <2>3. \A x, y : For(x, y) => For(x, y)'
      BY <2>1 DEF For, Running
    <2>4. SnapShape' /\ \A x \in Loads : Running(x)' => loads'[x].key \in SnapKeys
      BY <1>1, <1>2, <2>1, <2>2 DEF SnapIInv, SnapShape, Running
    <2>5. \A x \in SnapKeys : entry'[x].inFlight # NoLoad => For(entry[x].inFlight, x)'
      BY <1>3, <2>3 DEF SnapIInv, For, Running
    <2>6. ASSUME NEW q \in SnapReaders
          PROVE  /\ asking'[q].pc = "row" => asking'[q].key \in SnapKeys
                 /\ asking'[q].pc = "joined" => For(asking[q].load, asking[q].key)'
      BY <2>2, <2>3 DEF SnapIInv, For, Running
    <2>7. QED
      BY <2>4, <2>5, <2>6 DEF SnapIInv
  <1>6. CASE ~Persisted
    <2>1. /\ loads' \in [Loads -> LoadRecs] /\ loads'[l].pc = "over"
          /\ \A x \in Loads \ {l} : loads'[x] = loads[x]
      BY <1>1, <1>4, <1>6 DEF LoadRecs, LoadPcs
    <2>2. Release(l) /\ copy' \in [SnapKeys -> SnapTimes]
      BY <1>1, <1>6 DEF LoaderReturns
    <2>3. QED
      BY <1>1, <1>2, <1>3, <2>1, <2>2, OverInv
  <1>7. QED
    BY <1>5, <1>6

LEMMA LoadEndsInv ==
    ASSUME SnapIInv, NEW l \in Loads, CopyWritten(l) \/ LoaderThrows(l)
    PROVE  SnapIInv'
  <1>1. /\ Running(l) /\ loads[l].key \in SnapKeys /\ Unmark(l) /\ Release(l) /\ UNCHANGED ms
        /\ loads \in [Loads -> LoadRecs] /\ copy \in [SnapKeys -> SnapTimes]
        /\ loads' = [loads EXCEPT ![l] = [Unused EXCEPT !.pc = "over"]]
    BY DEF CopyWritten, LoaderThrows, SnapIInv, SnapShape, Running
  <1> DEFINE over == [Unused EXCEPT !.pc = "over"]
  <1>2. over \in LoadRecs /\ over.pc = "over"
    BY SnapRecords
  <1>3. loads' = [loads EXCEPT ![l] = over]
    BY <1>1
  <1> HIDE DEF over
  <1>4. /\ loads' \in [Loads -> LoadRecs] /\ loads'[l].pc = "over"
        /\ \A x \in Loads \ {l} : loads'[x] = loads[x]
    BY <1>1, <1>2, <1>3
  <1>5. copy' \in [SnapKeys -> SnapTimes]
    <2>1. loads[l].generated \in SnapTimes
      BY <1>1 DEF LoadRecs
    <2>2. copy' = copy \/ copy' = [copy EXCEPT ![loads[l].key] = loads[l].generated]
      BY DEF CopyWritten, LoaderThrows
    <2>3. QED
      BY <1>1, <2>1, <2>2
  <1>6. QED
    BY <1>1, <1>4, <1>5, UnmarkFacts, OverInv

\* Clearing drops entries, the time passes.
LEMMA ClearOrTickInv ==
    ASSUME SnapIInv, ClearSnapshotCache \/ SnapTick
    PROVE  SnapIInv'
  <1>1. UNCHANGED <<loads, copy, asking>> /\ ms' \in 1..MaxMs
    <2>1. ms \in 1..MaxMs
      BY DEF SnapIInv, SnapShape
    <2>2. CASE ClearSnapshotCache
      BY <2>1, <2>2 DEF ClearSnapshotCache
    <2>3. CASE SnapTick
      BY <2>1, <2>3, SnapshotAssumption DEF SnapTick
    <2>4. QED
      BY <2>2, <2>3
  <1>2. /\ entry' \in [SnapKeys -> EntryRecs]
        /\ \A x \in SnapKeys : entry'[x] = Nothing \/ entry'[x] = entry[x]
    <2>1. CASE SnapTick
      BY <2>1 DEF SnapTick, SnapIInv, SnapShape
    <2>2. CASE ClearSnapshotCache
      <3>1. PICK ks : entry' = [k \in SnapKeys |-> IF k \in ks THEN Nothing ELSE entry[k]]
        BY <2>2 DEF ClearSnapshotCache
      <3>2. Nothing \in EntryRecs /\ entry \in [SnapKeys -> EntryRecs]
        BY SnapRecords DEF SnapIInv, SnapShape
      <3>3. QED
        BY <3>1, <3>2
    <2>3. QED
      BY <2>1, <2>2
  <1>3. SnapShape' /\ \A x \in Loads : Running(x)' => loads'[x].key \in SnapKeys
    BY <1>1, <1>2 DEF SnapIInv, SnapShape, Running
  <1>4. \A x \in SnapKeys : entry'[x].inFlight # NoLoad => For(entry[x].inFlight, x)'
    BY <1>1, <1>2, SnapRecords DEF SnapIInv, For, Running
  <1>5. \A q \in SnapReaders :
           /\ asking'[q].pc = "row" => asking'[q].key \in SnapKeys
           /\ asking'[q].pc = "joined" => For(asking[q].load, asking[q].key)'
    BY <1>1 DEF SnapIInv, For, Running
  <1>6. QED
    BY <1>3, <1>4, <1>5 DEF SnapIInv

LEMMA SnapNextInv == SnapIInv /\ [SnapNext]_snapVars => SnapIInv'
  <1> SUFFICES ASSUME SnapIInv, [SnapNext]_snapVars PROVE SnapIInv'
    OBVIOUS
  <1>1. CASE UNCHANGED snapVars
    BY <1>1 DEF snapVars, SnapIInv, SnapShape, For, Running
  <1>2. CASE SnapNext
    BY <1>2, AskInv, ReadCopyInv, LoaderReturnsInv, LoadEndsInv, ClearOrTickInv DEF SnapNext
  <1>3. QED
    BY <1>1, <1>2

LEMMA SnapInvariant == SnapSpec => []SnapIInv
  BY SnapInitInv, SnapNextInv, PTL DEF SnapSpec

\* Whatever is cleared, evicted, overwritten and loaded again: nobody joins a load that
\* is over or one of another key, and no mark outlives its load (readSnapshotCache).
THEOREM NobodyJoinsSpentLoad == SnapSpec => []JoinsRunningLoads
  <1>1. SnapIInv => JoinsRunningLoads
    BY DEF SnapIInv, JoinsRunningLoads, For
  <1>2. QED
    BY <1>1, SnapInvariant, PTL

-----------------------------------------------------------------------------
(***************************************************************************)
(* The order of the entries and the bound of the cache                     *)
(***************************************************************************)

\* A total order on a set, as pairs: the smaller one first, and each beside itself.
OrderOn(R, S) ==
    /\ R \subseteq S \X S
    /\ \A j, k \in S : <<j, k>> \in R /\ <<k, j>> \in R <=> j = k
    /\ \A j, k \in S : <<j, k>> \in R \/ <<k, j>> \in R
    /\ \A i, j, k \in S : <<i, j>> \in R /\ <<j, k>> \in R => <<i, k>> \in R

LastUsed ==
    /\ OrderOn(order, CachedKeys)
    /\ IsFiniteSet(CachedKeys) /\ Cardinality(CachedKeys) <= MaxEntries
    /\ \A k \in SnapKeys : ~Cached(k) => entry[k] = Nothing
    /\ clears \in 0..MaxClears

\* What is left of a set is ordered as before.
LEMMA OrderOfPart ==
    ASSUME NEW R, NEW S, OrderOn(R, S), NEW T \in SUBSET S
    PROVE  OrderOn(R \cap (T \X T), T)
  BY DEF OrderOn

\* Among finitely many there is one oldest.
LEMMA OneIsOldest ==
    ASSUME NEW R, NEW S, OrderOn(R, S), IsFiniteSet(S), S # {}
    PROVE  \E x \in S : {y \in S : \A z \in S : <<y, z>> \in R} = {x}
  <1>. DEFINE Upto(x) == {y \in S : <<y, x>> \in R}
              Sizes == {Cardinality(Upto(x)) : x \in S}
  <1>1. \A x \in S : IsFiniteSet(Upto(x)) /\ Cardinality(Upto(x)) \in Nat
    <2>1. \A x \in S : Upto(x) \subseteq S
      OBVIOUS
    <2>. HIDE DEF Upto
    <2>. QED  BY <2>1, FS_Subset, FS_CardinalityType
  <1>2. PICK x \in S : \A y \in S : Cardinality(Upto(x)) <= Cardinality(Upto(y))
    <2>1. Sizes \in SUBSET Nat /\ Sizes # {}
      <3>. HIDE DEF Upto
      <3>. QED  BY <1>1
    <2>2. PICK n \in Sizes : \A m \in Sizes : n <= m
      <3>. HIDE DEF Sizes
      <3>. QED  BY <2>1, LeastOfNaturals
    <2>. QED  BY <2>2
  <1>3. ASSUME NEW z \in S PROVE <<x, z>> \in R
    <2>. SUFFICES ASSUME <<x, z>> \notin R PROVE FALSE
      OBVIOUS
    <2>1. <<z, x>> \in R /\ z # x
      BY DEF OrderOn
    <2>2. Upto(z) \subseteq Upto(x)
      BY <2>1 DEF OrderOn
    <2>3. x \in Upto(x) /\ x \notin Upto(z)
      BY DEF OrderOn
    <2>. HIDE DEF Upto
    <2>4. Cardinality(Upto(z)) <= Cardinality(Upto(x)) /\ Cardinality(Upto(z)) # Cardinality(Upto(x))
      BY <1>1, <2>2, <2>3, FS_Subset
    <2>. QED  BY <1>1, <1>2, <2>4
  <1>. DEFINE oldest == {y \in S : \A z \in S : <<y, z>> \in R}
  <1>4. x \in oldest
    BY <1>3
  <1>5. ASSUME NEW y \in oldest PROVE y = x
    <2>1. y \in S /\ <<y, x>> \in R /\ <<x, y>> \in R
      BY <1>3
    <2>. QED  BY <2>1 DEF OrderOn
  <1>. HIDE DEF oldest
  <1>6. oldest = {x}
    BY <1>4, <1>5
  <1>. QED  BY <1>6 DEF oldest

\* The key that is used comes last.
LEMMA UsedIsLast ==
    ASSUME OrderOn(order, CachedKeys), NEW k \in SnapKeys
    PROVE  OrderOn(Used(k), CachedKeys \cup {k})
  <1>. DEFINE inMap == CachedKeys \cup {k}
  <1>1. \A i, j : <<i, j>> \in Used(k) <=>
                    \/ <<i, j>> \in order /\ i # k /\ j # k
                    \/ i \in inMap /\ j = k
    <2>1. \A i, j : <<i, j>> \in {pair \in order : k \notin {pair[1], pair[2]}} <=>
                       <<i, j>> \in order /\ i # k /\ j # k
      OBVIOUS
    <2>. QED  BY <2>1 DEF Used
  <1>2. Used(k) \subseteq inMap \X inMap
    BY DEF Used, OrderOn
  <1>3. \A i, j : <<i, j>> \in order => i \in CachedKeys /\ j \in CachedKeys
    BY DEF OrderOn
  <1>. HIDE DEF CachedKeys
  <1>4. ASSUME NEW i \in inMap, NEW j \in inMap
        PROVE  /\ <<i, j>> \in Used(k) /\ <<j, i>> \in Used(k) <=> i = j
               /\ <<i, j>> \in Used(k) \/ <<j, i>> \in Used(k)
    BY <1>1, <1>3 DEF OrderOn
  <1>5. ASSUME NEW h \in inMap, NEW i \in inMap, NEW j \in inMap,
               <<h, i>> \in Used(k), <<i, j>> \in Used(k)
        PROVE  <<h, j>> \in Used(k)
    BY <1>1, <1>3, <1>5 DEF OrderOn
  <1>. QED  BY <1>2, <1>4, <1>5 DEF OrderOn

\* The keys of the cache are those that are ordered.
LEMMA OrderedKeys ==
    ASSUME NEW S \in SUBSET SnapKeys, OrderOn(order', S)
    PROVE  CachedKeys' = S
  BY DEF CachedKeys, Cached, OrderOn

\* Putting an entry in keeps the bound: what is one too many is the oldest one.
LEMMA PutLastUsed ==
    ASSUME LastUsed, NEW k \in SnapKeys, NEW e, Put(k, e), UNCHANGED clears,
           entry \in [SnapKeys -> EntryRecs]
    PROVE  LastUsed'
  <1>. DEFINE inMap == CachedKeys \cup {k}
              oldest == {x \in inMap : \A y \in inMap : <<x, y>> \in Used(k)}
              kept == IF Cardinality(inMap) > MaxEntries THEN inMap \ oldest ELSE inMap
  <1>1. /\ order' = Used(k) \cap (kept \X kept)
        /\ entry' = [x \in SnapKeys |-> IF x \notin kept THEN Nothing
                                         ELSE IF x = k THEN e ELSE entry[x]]
    BY DEF Put
  <1>2. OrderOn(Used(k), inMap) /\ inMap \in SUBSET SnapKeys /\ MaxEntries \in Nat
    BY UsedIsLast, SnapshotAssumption DEF LastUsed, CachedKeys
  <1>3. /\ IsFiniteSet(inMap) /\ Cardinality(inMap) \in Nat
        /\ Cardinality(inMap) <= MaxEntries + 1
    <2>1. /\ IsFiniteSet(inMap) /\ Cardinality(CachedKeys) \in Nat
          /\ Cardinality(inMap) = Cardinality(CachedKeys)
                \/ Cardinality(inMap) = Cardinality(CachedKeys) + 1
      BY FS_AddElement, FS_CardinalityType DEF LastUsed
    <2>. QED  BY <1>2, <2>1, FS_CardinalityType DEF LastUsed
  <1>. HIDE DEF inMap
  <1>4. PICK x \in inMap : oldest = {x}
    <2>1. k \in inMap
      BY DEF inMap
    <2>. QED  BY <1>2, <1>3, <2>1, OneIsOldest
  <1>. HIDE DEF oldest
  <1>5. kept \in SUBSET inMap /\ IsFiniteSet(kept) /\ Cardinality(kept) <= MaxEntries
    <2>1. CASE Cardinality(inMap) > MaxEntries
      <3>1. kept = inMap \ {x}
        BY <1>4, <2>1
      <3>2. IsFiniteSet(inMap \ {x}) /\ Cardinality(inMap \ {x}) = Cardinality(inMap) - 1
        BY <1>3, <1>4, FS_RemoveElement
      <3>3. Cardinality(kept) = Cardinality(inMap) - 1
        BY <3>1, <3>2
      <3>4. Cardinality(kept) <= MaxEntries
        BY <1>2, <1>3, <3>3
      <3>5. kept \in SUBSET inMap /\ IsFiniteSet(kept)
        BY <3>1, <3>2
      <3>. QED  BY <3>4, <3>5
    <2>2. CASE ~(Cardinality(inMap) > MaxEntries)
      BY <1>2, <1>3, <2>2
    <2>. QED  BY <2>1, <2>2
  <1>. HIDE DEF kept
  <1>6. OrderOn(order', kept)
    BY <1>1, <1>2, <1>5, OrderOfPart
  <1>7. CachedKeys' = kept
    BY <1>2, <1>5, <1>6, OrderedKeys
  <1>8. ASSUME NEW y \in SnapKeys, ~Cached(y)' PROVE entry'[y] = Nothing
    BY <1>1, <1>7, <1>8 DEF CachedKeys
  <1>. QED  BY <1>5, <1>6, <1>7, <1>8 DEF LastUsed

\* What is cleared leaves the order of the others.
LEMMA ClearLastUsed ==
    ASSUME LastUsed, ClearSnapshotCache, entry \in [SnapKeys -> EntryRecs]
    PROVE  LastUsed'
  <1>1. PICK ks \in SUBSET SnapKeys :
            /\ order' = {pair \in order : pair[1] \notin ks /\ pair[2] \notin ks}
            /\ entry' = [k \in SnapKeys |-> IF k \in ks THEN Nothing ELSE entry[k]]
    BY DEF ClearSnapshotCache
  <1>. DEFINE kept == CachedKeys \ ks
  <1>2. order' = order \cap (kept \X kept)
    BY <1>1 DEF LastUsed, OrderOn
  <1>3. OrderOn(order', kept) /\ kept \in SUBSET SnapKeys
    BY <1>2, OrderOfPart DEF LastUsed, CachedKeys
  <1>4. CachedKeys' = kept
    BY <1>3, OrderedKeys
  <1>5. IsFiniteSet(kept) /\ Cardinality(kept) <= MaxEntries
    <2>1. /\ IsFiniteSet(kept) /\ Cardinality(kept) <= Cardinality(CachedKeys)
          /\ Cardinality(kept) \in Nat /\ Cardinality(CachedKeys) \in Nat
      BY FS_Subset, FS_CardinalityType DEF LastUsed
    <2>. QED  BY <2>1, SnapshotAssumption DEF LastUsed
  <1>6. ASSUME NEW y \in SnapKeys, ~Cached(y)' PROVE entry'[y] = Nothing
    <2>1. y \in ks \/ ~Cached(y)
      BY <1>4, <1>6 DEF CachedKeys
    <2>. QED  BY <1>1, <2>1 DEF LastUsed
  <1>7. clears' \in 0..MaxClears
    BY SnapshotAssumption DEF ClearSnapshotCache, LastUsed
  <1>. QED  BY <1>3, <1>4, <1>5, <1>6, <1>7 DEF LastUsed

LEMMA InitLastUsed == SnapInit => LastUsed
  <1>. SUFFICES ASSUME SnapInit PROVE LastUsed
    OBVIOUS
  <1>1. order = {} /\ clears = 0 /\ \A k \in SnapKeys : entry[k] = Nothing
    BY DEF SnapInit
  <1>2. CachedKeys = {}
    BY <1>1 DEF CachedKeys, Cached
  <1>3. IsFiniteSet({}) /\ Cardinality({}) = 0
    BY FS_EmptySet
  <1>. QED  BY <1>1, <1>2, <1>3, SnapshotAssumption DEF LastUsed, OrderOn

\* The end of a load leaves the order, and takes no mark from what is not cached.
LEMMA EndLastUsed ==
    ASSUME SnapIInv, LastUsed, NEW l \in Loads, CopyWritten(l) \/ LoaderThrows(l)
    PROVE  LastUsed'
  <1>1. UNCHANGED <<order, clears>> /\ Unmark(l) /\ Running(l)
    BY DEF CopyWritten, LoaderThrows, Running
  <1>2. CachedKeys' = CachedKeys /\ \A k : Cached(k)' <=> Cached(k)
    BY <1>1 DEF CachedKeys, Cached
  <1>3. ASSUME NEW k \in SnapKeys, ~Cached(k) PROVE entry'[k] = Nothing
    <2>1. entry[k] = Nothing /\ entry \in [SnapKeys -> EntryRecs] /\ loads[l].key \in SnapKeys
      BY <1>1, <1>3 DEF LastUsed, SnapIInv, SnapShape
    <2>2. entry' = [entry EXCEPT ![loads[l].key].inFlight = NoLoad]
      BY <1>1 DEF Unmark
    <2>3. CASE k # loads[l].key
      BY <2>1, <2>2, <2>3
    <2>4. CASE k = loads[l].key
      <3>1. entry'[k] = [Nothing EXCEPT !.inFlight = NoLoad]
        BY <2>1, <2>2, <2>4
      <3>. QED  BY <3>1 DEF Nothing, Unmarked
    <2>. QED  BY <2>3, <2>4
  <1>. QED  BY <1>1, <1>2, <1>3 DEF LastUsed, OrderOn

\* Whoever reads puts the entry in again, as the one used last, or goes for the copy.
LEMMA ReadLastUsed ==
    ASSUME SnapIInv, LastUsed, NEW r \in SnapReaders,
           ReadCopy(r) \/ \E k \in SnapKeys, forced \in BOOLEAN : Ask(r, k, forced)
    PROVE  LastUsed'
  <1>1. entry \in [SnapKeys -> EntryRecs]
    BY DEF SnapIInv, SnapShape
  <1>2. ASSUME NEW k \in SnapKeys, NEW forced, NEW when, NEW e, Decide(r, k, forced, when, e)
        PROVE  \E marked : Put(k, marked)
    BY <1>2 DEF Decide, ServeFresh, ServeStale, JoinOrLoad
  <1>3. CASE ReadCopy(r)
    <2>1. asking[r].key \in SnapKeys /\ UNCHANGED clears
      BY <1>3 DEF ReadCopy, SnapIInv
    <2>2. \E e : Decide(r, asking[r].key, FALSE, asking[r].at, e)
      BY <1>3 DEF ReadCopy
    <2>. QED  BY <1>1, <1>2, <2>1, <2>2, PutLastUsed
  <1>4. ASSUME NEW k \in SnapKeys, NEW forced \in BOOLEAN, Ask(r, k, forced) PROVE LastUsed'
    <2>1. UNCHANGED clears
      BY <1>4 DEF Ask
    <2>2. CASE Decide(r, k, forced, ms, entry[k])
      BY <1>1, <1>2, <2>1, <2>2, PutLastUsed
    <2>3. CASE UNCHANGED <<entry, order>>
      BY <2>1, <2>3 DEF LastUsed, OrderOn, CachedKeys, Cached
    <2>. QED  BY <1>4, <2>2, <2>3 DEF Ask
  <1>. QED  BY <1>3, <1>4

LEMMA NextLastUsed == SnapIInv /\ LastUsed /\ [SnapNext]_snapVars => LastUsed'
  <1>. SUFFICES ASSUME SnapIInv, LastUsed, [SnapNext]_snapVars PROVE LastUsed'
    OBVIOUS
  <1>1. entry \in [SnapKeys -> EntryRecs]
    BY DEF SnapIInv, SnapShape
  <1>2. CASE UNCHANGED <<entry, order, clears>>
    BY <1>2 DEF LastUsed, OrderOn, CachedKeys, Cached
  <1>3. ASSUME NEW l \in Loads, LoaderReturns(l) PROVE LastUsed'
    <2>1. loads[l].key \in SnapKeys /\ UNCHANGED clears /\ Put(loads[l].key, Unmarked(ms))
      BY <1>3 DEF LoaderReturns, SnapIInv, Running
    <2>. QED  BY <1>1, <2>1, PutLastUsed
  <1>4. ASSUME NEW l \in Loads, CopyWritten(l) \/ LoaderThrows(l) PROVE LastUsed'
    BY <1>4, EndLastUsed
  <1>5. ASSUME NEW r \in SnapReaders,
               ReadCopy(r) \/ \E k \in SnapKeys, forced \in BOOLEAN : Ask(r, k, forced)
        PROVE  LastUsed'
    BY <1>5, ReadLastUsed
  <1>6. CASE ClearSnapshotCache
    BY <1>1, <1>6, ClearLastUsed
  <1>. QED  BY <1>2, <1>3, <1>4, <1>5, <1>6 DEF SnapNext, snapVars, SnapTick

\* The type invariant with the bound of the cache, for every number of entries: what is
\* one too many is the one entry used least recently, whatever the readers, the loads and
\* the clearing did to the order (setSnapshotCacheEntry).
THEOREM SnapTypeCorrect == SnapSpec => []SnapTypeOK
  <1>1. SnapSpec => []LastUsed
    BY InitLastUsed, NextLastUsed, SnapInvariant, PTL DEF SnapSpec
  <1>2. SnapIInv /\ LastUsed => SnapTypeOK
    BY DEF SnapIInv, SnapShape, LastUsed, OrderOn, SnapTypeOK, SnapTimes, EntryRecs, LoadMarks,
           LoadRecs, LoadPcs, AskRecs
  <1>. QED  BY <1>1, <1>2, SnapInvariant, PTL

-----------------------------------------------------------------------------
(***************************************************************************)
(* The nine services together                                              *)
(***************************************************************************)

\* A service that rests stutters, so that each of the nine behaves as by itself.
LEMMA EachByItself ==
    MCSpec => /\ CacheSpec /\ SnapSpec /\ TasksSpec /\ EndpointSpec /\ TokensSpec
              /\ CodexSpec /\ ModelRoutesSpec /\ RecoverySpec /\ LoginSpec
  <1>1. MCInit => /\ CacheInit /\ SnapInit /\ TasksInit /\ EndpointInit /\ TokensInit
                  /\ CodexInit /\ ModelRoutesInit /\ ProbeInit /\ LoginInit
    BY DEF MCInit
  <1>2. [MCNext]_servicesVars => [CacheNext]_cacheVars
    BY DEF MCNext, servicesVars
  <1>3. [MCNext]_servicesVars => [SnapNext]_snapVars
    BY DEF MCNext, servicesVars
  <1>4. [MCNext]_servicesVars => [TasksNext]_taskVars
    BY DEF MCNext, servicesVars
  <1>5. [MCNext]_servicesVars => [EndpointNext]_endpointVars
    BY DEF MCNext, servicesVars
  <1>6. [MCNext]_servicesVars => [TokensNext]_tokenVars
    BY DEF MCNext, servicesVars
  <1>7. [MCNext]_servicesVars => [CodexNext]_codexVars
    BY DEF MCNext, servicesVars
  <1>8. [MCNext]_servicesVars => [ModelRoutesNext]_modelRouteVars
    BY DEF MCNext, servicesVars
  <1>9. [MCNext]_servicesVars => [RecoveryNext]_probeVars
    BY DEF MCNext, servicesVars
  <1>10. [MCNext]_servicesVars => [LoginNext]_loginVars
    BY DEF MCNext, servicesVars
  <1>. QED
    BY <1>1, <1>2, <1>3, <1>4, <1>5, <1>6, <1>7, <1>8, <1>9, <1>10, PTL
    DEF MCSpec, CacheSpec, SnapSpec, TasksSpec, EndpointSpec, TokensSpec,
        CodexSpec, ModelRoutesSpec, RecoverySpec, LoginSpec

\* Whichever service moves, its variables stay in their ranges: the type invariants of
\* the nine together, the bound of the snapshot cache and the numbered logs among them.
THEOREM ServicesTypeCorrect == MCSpec => []ServicesTypeOK
  <1>1. MCInit => moved \in Services
    BY DEF MCInit
  <1>2. moved \in Services /\ [MCNext]_servicesVars => (moved \in Services)'
    BY DEF MCNext, servicesVars
  <1>3. MCSpec => [](moved \in Services)
    BY <1>1, <1>2, PTL DEF MCSpec
  <1>4. /\ moved \in Services
        /\ CacheTypeOK /\ SnapTypeOK /\ TasksTypeOK /\ EndpointTypeOK /\ TokensTypeOK
        /\ CodexTypeOK /\ ModelRoutesTypeOK /\ ProbeTypeOK /\ LoginTypeOK
        => ServicesTypeOK
    BY DEF Services, ServicesTypeOK
  <1>. QED
    BY <1>3, <1>4, EachByItself, CacheTypeCorrect, SnapTypeCorrect, TasksTypeCorrect,
       EndpointsTypeCorrect, TokensTypeCorrect, CodexTypeCorrect, RoutesTypeCorrect, ProbeTypeCorrect, LoginsTypeCorrect, PTL
===============================================================================
