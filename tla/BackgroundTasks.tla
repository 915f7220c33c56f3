--------------------------- MODULE BackgroundTasks ---------------------------
(***************************************************************************)
(* Background tasks of the admin API: records in a map, one running task   *)
(* per dedupe key, numbered logs, and a sweep that drops expired records.  *)
(* One action is the code between two awaits; the sweep is a timer.        *)
(***************************************************************************)
EXTENDS Naturals, Sequences, FiniteSets

CONSTANTS
    Tasks,          \* ids, each given out once
    DedupeKeys,
    NoKey,          \* a task started without a dedupe key
    NoTask,
    LogLimit,       \* TASK_LOG_LIMIT
    MaxLogs         \* bound: entries a runner writes

ASSUME TasksAssumption ==
    /\ NoKey \notin DedupeKeys /\ NoTask \notin Tasks
    /\ LogLimit \in Nat \ {0} /\ MaxLogs \in Nat

VARIABLES
    record,     \* tasks: status and logs of each record in the map
    dedupe,     \* dedupeTaskIds
    logSeq,     \* taskLogSeq; 0 also stands for no counter
    stage,      \* runTask: "new", "running", "notifying", "over"
    taskKey,    \* the dedupe key each task was started with
    logged,     \* entries written so far: bound
    outlived    \* history: keys whose task expired while it was running

taskVars == <<record, dedupe, logSeq, stage, taskKey, logged, outlived>>

Absent == [status |-> "absent", logs |-> <<>>]
Statuses == {"absent", "running", "succeeded", "failed"}
Present(t) == record[t].status # "absent"

TasksTypeOK ==
    /\ \A t \in Tasks : record[t].status \in Statuses
    /\ dedupe \in [DedupeKeys -> Tasks \cup {NoTask}]
    /\ logSeq \in [Tasks -> 0..MaxLogs]
    /\ stage \in [Tasks -> {"new", "running", "notifying", "over"}]
    /\ taskKey \in [Tasks -> DedupeKeys \cup {NoKey}]
    /\ outlived \in SUBSET DedupeKeys

TasksInit ==
    /\ record = [t \in Tasks |-> Absent]
    /\ dedupe = [k \in DedupeKeys |-> NoTask]
    /\ logSeq = [t \in Tasks |-> 0]
    /\ stage = [t \in Tasks |-> "new"]
    /\ taskKey = [t \in Tasks |-> NoKey]
    /\ logged = 0
    /\ outlived = {}

-----------------------------------------------------------------------------
\* What runTask puts into the map before it calls the runner, and keeps.
Started == [status |-> "running", logs |-> <<>>]

\* setTaskStatus: the record in the map, or else the copy runTask kept, is
\* changed and put into the map - also when the sweep has removed it.
SetTaskStatus(t, status) ==
    record' = [record EXCEPT ![t] =
                  [(IF Present(t) THEN @ ELSE Started) EXCEPT !.status = status]]

\* startBackgroundTask: a pending or running task of the key is handed out
\* again (and nothing changes), otherwise runTask starts and runs up to its
\* first await.
Reusable(k) == k # NoKey /\ dedupe[k] # NoTask /\ record[dedupe[k]].status = "running"

NextId == CHOOSE t \in Tasks : stage[t] = "new"

StartBackgroundTask(t, k) ==
    /\ stage[t] = "new" /\ t = NextId
    /\ ~Reusable(k)
    /\ record' = [record EXCEPT ![t] = Started]
    /\ stage' = [stage EXCEPT ![t] = "running"]
    /\ taskKey' = [taskKey EXCEPT ![t] = k]
    /\ dedupe' = IF k = NoKey THEN dedupe ELSE [dedupe EXCEPT ![k] = t]
    /\ UNCHANGED <<logSeq, logged, outlived>>

\* appendBackgroundTaskLog, called by the runner
AppendBackgroundTaskLog(t) ==
    /\ stage[t] = "running" /\ Present(t) /\ logged < MaxLogs
    /\ logged' = logged + 1
    /\ logSeq' = [logSeq EXCEPT ![t] = @ + 1]
    /\ LET logs == Append(record[t].logs, logSeq'[t])
       IN  record' = [record EXCEPT ![t].logs =
                        IF Len(logs) > LogLimit THEN Tail(logs) ELSE logs]
    /\ UNCHANGED <<dedupe, stage, taskKey, outlived>>

\* Mutant: whoever is done frees the key, whoever holds it.
FreeDedupeKeyOfAnyone(t) ==
    dedupe' = IF taskKey[t] = NoKey THEN dedupe ELSE [dedupe EXCEPT ![taskKey[t]] = NoTask]

\* The finally of runTask, and the sweep: the key is freed if it is still t's.
FreeDedupeKey(t) ==
    dedupe' = [k \in DedupeKeys |-> IF k = taskKey[t] /\ dedupe[k] = t THEN NoTask ELSE dedupe[k]]

\* The runner returns or throws. Unless a notification is to be awaited (on
\* failure by default, on success on request) runTask ends at once.
RunnerSettles(t) ==
    /\ stage[t] = "running"
    /\ \E status \in {"succeeded", "failed"} : SetTaskStatus(t, status)
    /\ \/ stage' = [stage EXCEPT ![t] = "notifying"] /\ UNCHANGED dedupe
       \/ stage' = [stage EXCEPT ![t] = "over"] /\ FreeDedupeKey(t)
    /\ UNCHANGED <<logSeq, taskKey, logged, outlived>>

\* sendNotification reports failed channels, it does not throw.
NotificationSent(t) ==
    /\ stage[t] = "notifying"
    /\ stage' = [stage EXCEPT ![t] = "over"]
    /\ FreeDedupeKey(t)
    /\ UNCHANGED <<record, logSeq, taskKey, logged, outlived>>

\* Mutant: the sweep leaves the counter of the logs.
CleanupKeepingCounter(t) ==
    /\ record' = [record EXCEPT ![t] = Absent]
    /\ FreeDedupeKey(t)
    /\ UNCHANGED logSeq

CleanupExpiredTask(t) ==
    /\ record' = [record EXCEPT ![t] = Absent]
    /\ FreeDedupeKey(t)
    /\ logSeq' = [logSeq EXCEPT ![t] = 0]

\* cleanupExpiredTasks: the keep time of a task is over, whatever its status.
Sweep(t) ==
    /\ Present(t)
    /\ CleanupExpiredTask(t)
    /\ outlived' = IF stage[t] = "running" THEN outlived \cup ({taskKey[t]} \cap DedupeKeys)
                   ELSE outlived
    /\ UNCHANGED <<stage, taskKey, logged>>

TasksNext ==
    \E t \in Tasks :
        \/ \E k \in DedupeKeys \cup {NoKey} : StartBackgroundTask(t, k)
        \/ AppendBackgroundTaskLog(t) \/ RunnerSettles(t) \/ NotificationSent(t) \/ Sweep(t)

TasksSpec == TasksInit /\ [][TasksNext]_taskVars

-----------------------------------------------------------------------------
\* Properties

\* At most one runner per dedupe key is at work, also while an earlier task of
\* the key still awaits its notification - unless one was running for longer
\* than its keep time (startBackgroundTask, the finally of runTask).
OneRunPerKey ==
    \A k \in DedupeKeys \ outlived :
        Cardinality({t \in Tasks : taskKey[t] = k /\ stage[t] = "running"}) <= 1

\* The logs of a record are the last numbers of its counter, without a gap or a
\* repetition, also when the sweep dropped a running task and its end put the
\* record back (appendBackgroundTaskLog, cleanupTaskInternals, setTaskStatus).
LogsFollowCounter ==
    \A t \in Tasks : Present(t) =>
        LET kept == IF logSeq[t] < LogLimit THEN logSeq[t] ELSE LogLimit
        IN  record[t].logs = [i \in 1..kept |-> logSeq[t] - kept + i]
=============================================================================
