---------------------------- MODULE UsageProjection ----------------------------
(***************************************************************************)
(* Projection of the proxy logs into the day / hour / model usage tables   *)
(* (src/src/server/services/usageAggregationService.ts).                   *)
(*                                                                         *)
(* Every proxied request leaves a row in proxy_logs.  A projection pass    *)
(* adds the rows behind the watermark of one checkpoint row to the usage   *)
(* tables, batch by batch, each batch and its watermark in one             *)
(* transaction.  A lease on the checkpoint row keeps two processes that    *)
(* share the database from projecting at the same time; a recompute        *)
(* request makes the next pass erase whole days and project them again.    *)
(* Each action below is one database statement or transaction of a pass,   *)
(* so the statements of different processes, the arrival and the cleanup   *)
(* of logs, crashes and lease expiry interleave between them.              *)
(*                                                                         *)
(* A log is its id.  Its createdAt is taken by the process that served the *)
(* request, before the insert that draws the id, so neither it nor its day *)
(* need follow the order of the ids.  The usage rows of a day are sums     *)
(* over the logs of that day: `counted` gives how often each log is in     *)
(* these sums.                                                             *)
(***************************************************************************)
EXTENDS Integers, FiniteSets

CONSTANTS
    Procs,            \* server processes sharing the database
    Tokens,           \* lease tokens (random UUIDs: an acquisition takes a fresh one)
    NoToken,
    MaxLog,           \* bound: proxy logs ever written
    CreatedAt,        \* createdAt of each log
    DayOf,            \* local day of each log's createdAt
    BatchSize,        \* PROJECTION_BATCH_SIZE
    MaxBatches,       \* PROJECTION_MAX_BATCHES_PER_PASS
    MaxFaults,        \* bound: crashes and failing statements
    MaxRequests,      \* bound: recompute requests
    MaxCleanups,      \* bound: deletions of old logs
    InOrder,          \* logs become visible in the order of their ids
    LeaseOutlivesPass,\* no statement of a pass takes longer than the lease
    RacingRequests,   \* recompute requests may overlap passes
    RequestsAhead     \* recompute requests may name a log not projected yet

LogIds == 1..MaxLog

ASSUME ProjectionAssumption ==
    /\ NoToken \notin Tokens
    /\ MaxLog \in Nat
    /\ CreatedAt \in [LogIds -> Nat]
    /\ DayOf \in [LogIds -> Nat]
    /\ \A i, j \in LogIds : CreatedAt[i] <= CreatedAt[j] => DayOf[i] <= DayOf[j]
    /\ BatchSize \in Nat \ {0}
    /\ MaxBatches \in Nat \ {0}
    /\ {MaxFaults, MaxRequests, MaxCleanups} \subseteq Nat
    /\ {InOrder, LeaseOutlivesPass, RacingRequests, RequestsAhead} \subseteq BOOLEAN

VARIABLES
    logs,       \* ids of the logs whose insert is visible
    deleted,    \* those that the log cleanup removed since
    counted,    \* how often each log is in the usage tables
    row,        \* the checkpoint row: watermark, requested recompute, lease token
    live,       \* its lease_expires_at lies in the future
    pc,         \* next statement of each process's pass
    copy,       \* the pass's lease token and its `checkpoint`
    found,      \* the batch or the affected log its last SELECT returned
    bound,      \* the last id of that batch, or the id a recompute restarts from
    batches,    \* batches applied in this pass
    request,    \* a recompute request between its read and its write
    faults, requests, cleanups

logVars == <<logs, deleted, cleanups>>
passVars == <<pc, copy, found, bound, batches>>
vars == <<logVars, counted, row, live, passVars, request, faults, requests>>

Rows == [last : 0..MaxLog, recompute : 0..MaxLog, token : Tokens \cup {NoToken}]
EmptyRow == [last |-> 0, recompute |-> 0, token |-> NoToken]
RequestStates == [open : BOOLEAN, from : 0..MaxLog, row : Rows, live : BOOLEAN]
NoRequest == [open |-> FALSE, from |-> 0, row |-> EmptyRow, live |-> FALSE]
Locations == {"idle", "read", "affected", "restart", "recompute", "fetch",
              "apply", "release", "failed"}

TypeOK ==
    /\ logs \subseteq LogIds
    /\ deleted \subseteq logs
    /\ counted \in [LogIds -> Nat]
    /\ row \in Rows
    /\ live \in BOOLEAN
    /\ pc \in [Procs -> Locations]
    /\ copy \in [Procs -> Rows]
    /\ found \in [Procs -> SUBSET LogIds]
    /\ bound \in [Procs -> 0..MaxLog]
    /\ batches \in [Procs -> Nat]
    /\ request \in RequestStates
    /\ faults \in 0..MaxFaults
    /\ requests \in 0..MaxRequests
    /\ cleanups \in 0..MaxCleanups

Init ==
    /\ logs = {}
    /\ deleted = {}
    /\ counted = [i \in LogIds |-> 0]
    /\ row = EmptyRow
    /\ live = FALSE
    /\ pc = [p \in Procs |-> "idle"]
    /\ copy = [p \in Procs |-> EmptyRow]
    /\ found = [p \in Procs |-> {}]
    /\ bound = [p \in Procs |-> 0]
    /\ batches = [p \in Procs |-> 0]
    /\ request = NoRequest
    /\ faults = 0
    /\ requests = 0
    /\ cleanups = 0

-----------------------------------------------------------------------------
(* The logs *)

Retained == logs \ deleted

\* The insert of a log becomes visible.  Ids are handed out by the insert
\* sequence; on a server database an insert may commit after one with a
\* higher id.
LogArrives(i) ==
    /\ i \in LogIds \ logs
    /\ InOrder => \A j \in LogIds : j < i => j \in logs
    /\ logs' = logs \cup {i}
    /\ UNCHANGED <<deleted, cleanups, counted, row, live, passVars, request,
                   faults, requests>>

\* Logs created before a cutoff are deleted by the daily cleanup, or all of
\* them by the operator.
CleanUpLogs(cutoff) ==
    /\ cleanups < MaxCleanups
    /\ \E i \in Retained : CreatedAt[i] < cutoff
    /\ deleted' = deleted \cup {i \in logs : CreatedAt[i] < cutoff}
    /\ cleanups' = cleanups + 1
    /\ UNCHANGED <<logs, counted, row, live, passVars, request, faults, requests>>

-----------------------------------------------------------------------------
(* The lease *)

InPass(p) == pc[p] # "idle"

FreshToken(t) ==
    /\ t # row.token
    /\ t # request.row.token
    /\ \A p \in Procs : t # copy[p].token

EndPass(p) ==
    /\ pc' = [pc EXCEPT ![p] = "idle"]
    /\ copy' = [copy EXCEPT ![p] = EmptyRow]
    /\ found' = [found EXCEPT ![p] = {}]
    /\ bound' = [bound EXCEPT ![p] = 0]
    /\ batches' = [batches EXCEPT ![p] = 0]

\* Mutant of AcquireLease: the WHERE clause forgets the expiry.
AcquireHeldLease(p) ==
    /\ ~InPass(p)
    /\ RacingRequests \/ ~request.open
    /\ \E t \in Tokens :
          /\ FreshToken(t)
          /\ row' = [row EXCEPT !.token = t]
          /\ copy' = [copy EXCEPT ![p].token = t]
    /\ live' = TRUE
    /\ pc' = [pc EXCEPT ![p] = "read"]
    /\ UNCHANGED <<logVars, counted, found, bound, batches, request, faults, requests>>

\* A pass starts: projectionInFlight keeps it the only one of its process,
\* and the lease has to be free or expired.
AcquireLease(p) ==
    /\ ~InPass(p)
    /\ ~live
    /\ RacingRequests \/ ~request.open
    /\ \E t \in Tokens :
          /\ FreshToken(t)
          /\ row' = [row EXCEPT !.token = t]
          /\ copy' = [copy EXCEPT ![p].token = t]
    /\ live' = TRUE
    /\ pc' = [pc EXCEPT ![p] = "read"]
    /\ UNCHANGED <<logVars, counted, found, bound, batches, request, faults, requests>>

ReleaseLease(p) ==
    /\ pc[p] \in {"release", "failed"}
    /\ IF row.token = copy[p].token
         THEN row' = [row EXCEPT !.token = NoToken] /\ live' = FALSE
         ELSE UNCHANGED <<row, live>>
    /\ EndPass(p)
    /\ UNCHANGED <<logVars, counted, request, faults, requests>>

LeaseExpires ==
    /\ live
    /\ LeaseOutlivesPass => \A p \in Procs : InPass(p) => copy[p].token # row.token
    /\ live' = FALSE
    /\ UNCHANGED <<logVars, counted, row, passVars, request, faults, requests>>

-----------------------------------------------------------------------------
(* The statements of a pass *)

ReadCheckpoint(p) ==
    /\ pc[p] = "read"
    /\ copy' = [copy EXCEPT ![p] = [row EXCEPT !.token = copy[p].token]]
    /\ pc' = [pc EXCEPT ![p] = IF row.recompute > 0 THEN "affected" ELSE "fetch"]
    /\ UNCHANGED <<logVars, counted, row, live, found, bound, batches, request,
                   faults, requests>>

\* The first log in a set of ids, as ORDER BY id ... LIMIT 1 returns it.
IsFirst(i, ids) == i \in ids /\ \A j \in ids : i <= j

Requested(p) == {i \in Retained : i >= copy[p].recompute}

ReadAffectedLog(p) ==
    /\ pc[p] = "affected"
    /\ \/ \E i \in Retained :
             /\ IsFirst(i, Requested(p))
             /\ found' = [found EXCEPT ![p] = {i}]
             /\ bound' = [bound EXCEPT ![p] = i]
             /\ pc' = [pc EXCEPT ![p] = "restart"]
       \/ /\ Requested(p) = {}
          /\ pc' = [pc EXCEPT ![p] = "recompute"]
          /\ UNCHANGED <<found, bound>>
    /\ UNCHANGED <<logVars, counted, row, live, copy, batches, request, faults, requests>>

\* Recomputing restarts at the first log of the affected day, or at the
\* affected log when the logs of that day were cleaned up meanwhile.
FromAffectedDay(p) ==
    {i \in Retained : \E a \in found[p] : DayOf[i] >= DayOf[a]}

\* Mutant of ReadRestartLog: recomputing restarts at the affected log itself.
RestartAtAffectedLog(p) ==
    /\ pc[p] = "restart"
    /\ pc' = [pc EXCEPT ![p] = "recompute"]
    /\ UNCHANGED <<logVars, counted, row, live, copy, found, bound, batches, request,
                   faults, requests>>

ReadRestartLog(p) ==
    /\ pc[p] = "restart"
    /\ \/ \E i \in Retained :
             /\ IsFirst(i, FromAffectedDay(p))
             /\ bound' = [bound EXCEPT ![p] = i]
       \/ /\ FromAffectedDay(p) = {}
          /\ UNCHANGED bound
    /\ pc' = [pc EXCEPT ![p] = "recompute"]
    /\ UNCHANGED <<logVars, counted, row, live, copy, found, batches, request,
                   faults, requests>>

\* Mutant of ApplyRecompute: the affected day itself is not erased.
RecomputeAfterDay(p) ==
    /\ pc[p] = "recompute"
    /\ counted' = [i \in LogIds |->
                     IF \E a \in found[p] : DayOf[i] > DayOf[a] THEN 0 ELSE counted[i]]
    /\ row' = [copy[p] EXCEPT !.recompute = 0, !.last = IF found[p] = {} THEN @ ELSE bound[p] - 1]
    /\ copy' = [copy EXCEPT ![p] = row']
    /\ live' = TRUE
    /\ found' = [found EXCEPT ![p] = {}]
    /\ bound' = [bound EXCEPT ![p] = 0]
    /\ pc' = [pc EXCEPT ![p] = "fetch"]
    /\ UNCHANGED <<logVars, batches, request, faults, requests>>

\* Mutant of ApplyRecompute: without a log to restart from the watermark is still
\* computed from it.
RecomputeWithoutRow(p) ==
    /\ pc[p] = "recompute"
    /\ counted' = [i \in LogIds |->
                     IF \E a \in found[p] : DayOf[i] >= DayOf[a] THEN 0 ELSE counted[i]]
    /\ row' = [copy[p] EXCEPT !.recompute = 0, !.last = bound[p] - 1]
    /\ copy' = [copy EXCEPT ![p] = row']
    /\ live' = TRUE
    /\ found' = [found EXCEPT ![p] = {}]
    /\ bound' = [bound EXCEPT ![p] = 0]
    /\ pc' = [pc EXCEPT ![p] = "fetch"]
    /\ UNCHANGED <<logVars, batches, request, faults, requests>>

\* Mutant of ApplyRecompute: the watermark is set to the restart log.
RecomputeSkippingOne(p) ==
    /\ pc[p] = "recompute"
    /\ counted' = [i \in LogIds |->
                     IF \E a \in found[p] : DayOf[i] >= DayOf[a] THEN 0 ELSE counted[i]]
    /\ row' = [copy[p] EXCEPT !.recompute = 0, !.last = IF found[p] = {} THEN @ ELSE bound[p]]
    /\ copy' = [copy EXCEPT ![p] = row']
    /\ live' = TRUE
    /\ found' = [found EXCEPT ![p] = {}]
    /\ bound' = [bound EXCEPT ![p] = 0]
    /\ pc' = [pc EXCEPT ![p] = "fetch"]
    /\ UNCHANGED <<logVars, batches, request, faults, requests>>

\* Mutant of ApplyRecompute: the request is not cleared.
RecomputeKept(p) ==
    /\ pc[p] = "recompute"
    /\ counted' = [i \in LogIds |->
                     IF \E a \in found[p] : DayOf[i] >= DayOf[a] THEN 0 ELSE counted[i]]
    /\ row' = [copy[p] EXCEPT !.last = IF found[p] = {} THEN @ ELSE bound[p] - 1]
    /\ copy' = [copy EXCEPT ![p] = row']
    /\ live' = TRUE
    /\ found' = [found EXCEPT ![p] = {}]
    /\ bound' = [bound EXCEPT ![p] = 0]
    /\ pc' = [pc EXCEPT ![p] = "fetch"]
    /\ UNCHANGED <<logVars, batches, request, faults, requests>>

\* One transaction erases the affected days and moves the watermark back.
\* Every checkpoint write stores the pass's whole copy, lease included, and
\* renews the lease.
ApplyRecompute(p) ==
    /\ pc[p] = "recompute"
    /\ counted' = [i \in LogIds |->
                     IF \E a \in found[p] : DayOf[i] >= DayOf[a] THEN 0 ELSE counted[i]]
    /\ row' = [copy[p] EXCEPT !.recompute = 0,
                              !.last = IF found[p] = {} THEN @ ELSE bound[p] - 1]
    /\ copy' = [copy EXCEPT ![p] = row']
    /\ live' = TRUE
    /\ found' = [found EXCEPT ![p] = {}]
    /\ bound' = [bound EXCEPT ![p] = 0]
    /\ pc' = [pc EXCEPT ![p] = "fetch"]
    /\ UNCHANGED <<logVars, batches, request, faults, requests>>

\* ids is what SELECT ... WHERE id > after ORDER BY id LIMIT BatchSize
\* returns, with last id i.
IsBatch(ids, after, i) ==
    /\ i \in Retained /\ i > after
    /\ ids = {j \in Retained : after < j /\ j <= i}
    /\ \/ Cardinality(ids) = BatchSize
       \/ Cardinality(ids) < BatchSize /\ \A j \in Retained : j <= i

FetchBatch(p) ==
    /\ pc[p] = "fetch"
    /\ \/ \E i \in Retained :
             /\ found' = [found EXCEPT ![p] = {j \in Retained : copy[p].last < j /\ j <= i}]
             /\ IsBatch(found'[p], copy[p].last, i)
             /\ bound' = [bound EXCEPT ![p] = i]
             /\ pc' = [pc EXCEPT ![p] = "apply"]
       \/ /\ \A i \in Retained : i <= copy[p].last
          /\ pc' = [pc EXCEPT ![p] = "release"]
          /\ UNCHANGED <<found, bound>>
    /\ UNCHANGED <<logVars, counted, row, live, copy, batches, request, faults, requests>>

\* Mutant of ApplyBatch: the pass goes on with the checkpoint it read first.
ApplyBatchKeepingCopy(p) ==
    /\ pc[p] = "apply"
    /\ counted' = [i \in LogIds |-> IF i \in found[p] THEN counted[i] + 1 ELSE counted[i]]
    /\ row' = [copy[p] EXCEPT !.last = bound[p]]
    /\ live' = TRUE
    /\ found' = [found EXCEPT ![p] = {}]
    /\ bound' = [bound EXCEPT ![p] = 0]
    /\ batches' = [batches EXCEPT ![p] = @ + 1]
    /\ pc' = [pc EXCEPT ![p] =
                IF Cardinality(found[p]) < BatchSize \/ batches'[p] >= MaxBatches
                  THEN "release" ELSE "fetch"]
    /\ UNCHANGED <<logVars, copy, request, faults, requests>>

\* One transaction adds the batch to the usage tables and moves the watermark
\* to its last row.
ApplyBatch(p) ==
    /\ pc[p] = "apply"
    /\ counted' = [i \in LogIds |-> IF i \in found[p] THEN counted[i] + 1 ELSE counted[i]]
    /\ row' = [copy[p] EXCEPT !.last = bound[p]]
    /\ copy' = [copy EXCEPT ![p] = row']
    /\ live' = TRUE
    /\ found' = [found EXCEPT ![p] = {}]
    /\ bound' = [bound EXCEPT ![p] = 0]
    /\ batches' = [batches EXCEPT ![p] = @ + 1]
    /\ pc' = [pc EXCEPT ![p] =
                IF Cardinality(found[p]) < BatchSize \/ batches'[p] >= MaxBatches
                  THEN "release" ELSE "fetch"]
    /\ UNCHANGED <<logVars, request, faults, requests>>

-----------------------------------------------------------------------------
(* Failures *)

\* A statement of the pass throws; the catch releases the lease.
StatementFails(p) ==
    /\ pc[p] \notin {"idle", "failed"}
    /\ faults < MaxFaults
    /\ faults' = faults + 1
    /\ pc' = [pc EXCEPT ![p] = "failed"]
    /\ UNCHANGED <<logVars, counted, row, live, copy, found, bound, batches,
                   request, requests>>

\* The process dies, or the release in the catch throws as well: the lease
\* stays in the row until it expires.
AbandonPass(p) ==
    /\ InPass(p)
    /\ faults < MaxFaults
    /\ faults' = faults + 1
    /\ EndPass(p)
    /\ UNCHANGED <<logVars, counted, row, live, request, requests>>

-----------------------------------------------------------------------------
(* Recompute requests (requestUsageAggregatesRecompute) *)

ReadForRequest(from) ==
    /\ requests < MaxRequests
    /\ ~request.open
    /\ RacingRequests \/ \A p \in Procs : ~InPass(p)
    /\ RequestsAhead \/ from = 1 \/ from <= row.last
    /\ requests' = requests + 1
    /\ request' = [open |-> TRUE, from |-> from, row |-> row, live |-> live]
    /\ UNCHANGED <<logVars, counted, row, live, passVars, faults>>

Earlier(pending, from) == IF 0 < pending /\ pending < from THEN pending ELSE from

WriteRequest ==
    /\ request.open
    /\ row' = [request.row EXCEPT !.recompute = Earlier(@, request.from)]
    /\ live' = request.live
    /\ request' = NoRequest
    /\ UNCHANGED <<logVars, counted, passVars, faults, requests>>

-----------------------------------------------------------------------------
PassStep(p) ==
    \/ ReadCheckpoint(p)
    \/ ReadAffectedLog(p)
    \/ ReadRestartLog(p)
    \/ ApplyRecompute(p)
    \/ FetchBatch(p)
    \/ ApplyBatch(p)
    \/ ReleaseLease(p)

Next ==
    \/ \E i \in LogIds :
          LogArrives(i) \/ ReadForRequest(i) \/ CleanUpLogs(CreatedAt[i] + 1)
    \/ WriteRequest
    \/ LeaseExpires
    \/ \E p \in Procs :
          \/ AcquireLease(p)
          \/ PassStep(p)
          \/ StatementFails(p)
          \/ AbandonPass(p)

Spec == Init /\ [][Next]_vars

\* Statements return, the 5-second interval starts a pass again and again,
\* clocks advance.  Nothing forces a log to arrive or a request to be made.
Fairness ==
    /\ \A p \in Procs : WF_vars(AcquireLease(p)) /\ WF_vars(PassStep(p))
    /\ WF_vars(LeaseExpires)
    /\ WF_vars(WriteRequest)

FairSpec == Spec /\ Fairness

-----------------------------------------------------------------------------
(* What the projection promises *)

\* No log is in the usage tables twice, whatever crashes, failures, cleanups
\* and lease takeovers fall between a batch and the next
\* (applyProjectionBatch's transaction, tryAcquireProjectionLease).
NothingCountedTwice == \A i \in LogIds : counted[i] <= 1

\* A log behind the watermark has been counted if it still exists, and one
\* before it has not: the next pass, of whichever process, starts where the
\* tables end.  A requested recompute may rewind both, never one of them.
WatermarkMatchesTables ==
    \A i \in LogIds :
        /\ i \in Retained /\ i <= row.last => counted[i] = 1
        /\ i > row.last => counted[i] = 0

\* Two processes never project at the same time (the lease of the checkpoint
\* row); a crashed holder's lease can be taken over only because its pass is
\* gone.
OneProjectionAtATime ==
    \A p, q \in Procs : InPass(p) /\ InPass(q) => p = q

\* Once traffic, operator requests and faults cease, every log that was not
\* cleaned up stays in the tables: no log is skipped for good, and a
\* recompute erases nothing that it does not count again.
AllLogsCounted == <>[](\A i \in Retained : counted[i] = 1)

\* A requested recompute is taken up by some pass and completed.
RecomputeServed == row.recompute > 0 ~> row.recompute = 0
=============================================================================
