-------------------------- MODULE UsageProjectionProofs --------------------------
(***************************************************************************)
(* Proofs about UsageProjection, for any number of processes, logs, days,  *)
(* batch sizes, faults, cleanups and recompute requests.  As long as no    *)
(* statement outlasts the lease and recompute requests keep clear of       *)
(* passes, no two passes overlap.  If days follow ids besides, or nobody   *)
(* asks for a recompute, no log counts twice, in whatever order logs       *)
(* become visible.  If they become visible in id order and requests name   *)
(* logs already projected, the usage tables and the watermark agree, and   *)
(* the tables are the ledger of UsageLedger.                               *)
(***************************************************************************)
EXTENDS MCUsageProjection, TLAPS

\* The lease does what it is for.
Serialized == LeaseOutlivesPass /\ ~RacingRequests

\* A log with a later id does not lie on an earlier day.  The code does not see to it:
\* createdAt is taken before the insert that draws the id.
DaysFollowIds == \A i, j \in LogIds : i < j => DayOf[i] <= DayOf[j]

\* Nobody asks for a recompute: the program as it is, where only a test does.
NoRecompute == MaxRequests = 0

\* A recompute erases days and starts again at an id.  That is the same set of logs only
\* if days follow ids.
Countable == Serialized /\ (DaysFollowIds \/ NoRecompute)

\* The environment the full guarantee needs; TLC shows what happens without its parts.
Orderly ==
    /\ Countable
    /\ InOrder
    /\ ~RequestsAhead

-----------------------------------------------------------------------------
(***************************************************************************)
(* What holds in whatever order logs become visible                        *)
(***************************************************************************)

\* A running pass holds the lease and works on the current checkpoint.
PassHoldsLease ==
    \A p \in Procs : InPass(p) =>
        /\ live
        /\ row.token = copy[p].token
        /\ pc[p] \in {"affected", "restart", "recompute", "fetch", "apply"} =>
              copy[p] = row

\* A request is alone between its read and its write.
RequestAlone ==
    request.open =>
        /\ \A p \in Procs : ~InPass(p)
        /\ request.row = row

\* A batch lies beyond the watermark; a recompute starts again at a log of the
\* days it erases.
Selected(p) ==
    /\ pc[p] \in {"idle", "read", "affected", "fetch"} => found[p] = {}
    /\ pc[p] = "restart" => found[p] = {bound[p]}
    /\ pc[p] \in {"restart", "recompute"} =>
          \A a \in found[p] :
              /\ found[p] = {a}
              /\ bound[p] \in logs
              /\ DayOf[bound[p]] >= DayOf[a]
    /\ pc[p] = "apply" =>
          /\ bound[p] \in logs /\ bound[p] > row.last
          /\ \A i \in found[p] : row.last < i /\ i <= bound[p]

SelectionsKnown == \A p \in Procs : Selected(p)

\* Where nobody asks for a recompute, none is pending or under way.
NothingRequested ==
    NoRecompute =>
        /\ ~request.open
        /\ row.recompute = 0
        /\ \A p \in Procs : pc[p] \notin {"affected", "restart", "recompute"}

SInv ==
    /\ TypeOK
    /\ NothingRequested
    /\ OneProjectionAtATime
    /\ PassHoldsLease
    /\ RequestAlone
    /\ SelectionsKnown

\* What a running pass may rely on between two of its statements.
OnlyPass(p) ==
    /\ \A q \in Procs : q # p => pc[q] = "idle"
    /\ live
    /\ row.token = copy[p].token
    /\ pc[p] \in {"affected", "restart", "recompute", "fetch", "apply"} => copy[p] = row
    /\ ~request.open

LEMMA OnlyOnePass ==
    ASSUME SInv, NEW p \in Procs, InPass(p)
    PROVE  OnlyPass(p)
  BY DEF SInv, OnlyPass, OneProjectionAtATime, PassHoldsLease, RequestAlone, InPass

LEMMA LogArrivesSerial ==
    ASSUME Serialized, SInv, NEW n \in LogIds, LogArrives(n)
    PROVE  SInv'
  <1>1. TypeOK'
    BY DEF SInv, TypeOK, LogArrives, logVars, passVars
  <1>2. NothingRequested'
    BY DEF SInv, TypeOK, NothingRequested, NoRecompute, LogArrives, logVars, passVars
  <1>3. OneProjectionAtATime'
    BY DEF SInv, TypeOK, OneProjectionAtATime, InPass, LogArrives, logVars, passVars
  <1>4. PassHoldsLease'
    BY DEF SInv, TypeOK, PassHoldsLease, InPass, LogArrives, logVars, passVars
  <1>5. RequestAlone'
    BY DEF SInv, TypeOK, LogArrives, RequestAlone, logVars, passVars, Rows, InPass
  <1>6. SelectionsKnown'
    BY DEF SInv, TypeOK, LogArrives, SelectionsKnown, Selected, logVars, passVars, Rows,
       InPass, Retained, LogIds
  <1>. QED
    BY <1>1, <1>2, <1>3, <1>4, <1>5, <1>6 DEF SInv

LEMMA CleanUpLogsSerial ==
    ASSUME Serialized, SInv, NEW cutoff, CleanUpLogs(cutoff)
    PROVE  SInv'
  <1>1. TypeOK'
    BY ProjectionAssumption DEF SInv, TypeOK, CleanUpLogs, logVars, passVars
  <1>2. NothingRequested'
    BY DEF SInv, TypeOK, NothingRequested, NoRecompute, CleanUpLogs, logVars, passVars
  <1>3. OneProjectionAtATime'
    BY DEF SInv, TypeOK, OneProjectionAtATime, InPass, CleanUpLogs, logVars,
       passVars
  <1>4. PassHoldsLease'
    BY DEF SInv, TypeOK, PassHoldsLease, InPass, CleanUpLogs, logVars, passVars
  <1>5. RequestAlone'
    BY DEF SInv, TypeOK, CleanUpLogs, RequestAlone, logVars, passVars, Rows, InPass
  <1>6. SelectionsKnown'
    BY DEF SInv, TypeOK, CleanUpLogs, SelectionsKnown, Selected, logVars, passVars, Rows,
       InPass, Retained, LogIds
  <1>. QED
    BY <1>1, <1>2, <1>3, <1>4, <1>5, <1>6 DEF SInv

LEMMA LeaseExpiresSerial ==
    ASSUME Serialized, SInv, LeaseExpires
    PROVE  SInv'
  <1>1. TypeOK'
    BY DEF SInv, TypeOK, LeaseExpires, logVars, passVars, Serialized, PassHoldsLease,
       InPass
  <1>2. NothingRequested'
    BY DEF SInv, TypeOK, NothingRequested, NoRecompute, LeaseExpires, logVars, passVars,
       Serialized, PassHoldsLease, InPass
  <1>3. OneProjectionAtATime'
    BY DEF SInv, TypeOK, OneProjectionAtATime, InPass, LeaseExpires, logVars,
       passVars, Serialized, PassHoldsLease
  <1>4. PassHoldsLease'
    BY DEF SInv, TypeOK, PassHoldsLease, InPass, LeaseExpires, logVars, passVars,
       Serialized
  <1>5. RequestAlone'
    BY DEF SInv, TypeOK, LeaseExpires, RequestAlone, Serialized, logVars, passVars, Rows, InPass
  <1>6. SelectionsKnown'
    BY DEF SInv, TypeOK, LeaseExpires, SelectionsKnown, Selected, Serialized, logVars,
       passVars, Rows, InPass, Retained, LogIds
  <1>. QED
    BY <1>1, <1>2, <1>3, <1>4, <1>5, <1>6 DEF SInv

LEMMA WriteRequestSerial ==
    ASSUME Serialized, SInv, WriteRequest
    PROVE  SInv'
  <1>1. TypeOK'
    <2>1. /\ (row \in Rows)'
          /\ (live \in BOOLEAN)'
          /\ (request \in RequestStates)'
      BY ProjectionAssumption DEF SInv, TypeOK, WriteRequest, Earlier, NoRequest,
         EmptyRow, Rows, RequestStates
    <2>2. /\ (logs \subseteq LogIds)'
          /\ (deleted \subseteq logs)'
          /\ (counted \in [LogIds -> Nat])'
          /\ (pc \in [Procs -> Locations])'
          /\ (copy \in [Procs -> Rows])'
          /\ (found \in [Procs -> SUBSET LogIds])'
          /\ (bound \in [Procs -> 0..MaxLog])'
          /\ (batches \in [Procs -> Nat])'
          /\ (faults \in 0..MaxFaults)'
          /\ (requests \in 0..MaxRequests)'
          /\ (cleanups \in 0..MaxCleanups)'
      BY DEF SInv, TypeOK, WriteRequest, logVars, passVars
    <2>3. QED
      BY <2>1, <2>2 DEF TypeOK
  <1>2. NothingRequested'
    BY DEF SInv, TypeOK, NothingRequested, NoRecompute, WriteRequest, logVars, passVars,
       RequestAlone, InPass, Rows, RequestStates, Earlier, NoRequest
  <1>3. OneProjectionAtATime'
    BY DEF SInv, TypeOK, OneProjectionAtATime, InPass, WriteRequest, logVars,
       passVars, RequestAlone, Rows, RequestStates, Earlier, NoRequest
  <1>4. PassHoldsLease'
    BY DEF SInv, TypeOK, PassHoldsLease, InPass, WriteRequest, logVars, passVars,
       RequestAlone, Rows, RequestStates, Earlier, NoRequest
  <1>5. RequestAlone'
    BY DEF SInv, TypeOK, WriteRequest, RequestAlone, Earlier, NoRequest, RequestStates,
       logVars, passVars, Rows, InPass
  <1>6. SelectionsKnown'
    BY DEF SInv, TypeOK, WriteRequest, SelectionsKnown, Selected, RequestAlone, Earlier,
       NoRequest, RequestStates, logVars, passVars, Rows, InPass, Retained, LogIds
  <1>. QED
    BY <1>1, <1>2, <1>3, <1>4, <1>5, <1>6 DEF SInv

LEMMA ReadForRequestSerial ==
    ASSUME Serialized, SInv, NEW from \in LogIds, ReadForRequest(from)
    PROVE  SInv'
  <1>1. TypeOK'
    <2>1. (request \in RequestStates)'
      BY ProjectionAssumption DEF SInv, TypeOK, ReadForRequest, LogIds,
         RequestStates
    <2>2. (requests \in 0..MaxRequests)'
      BY ProjectionAssumption DEF SInv, TypeOK, ReadForRequest
    <2>3. /\ (logs \subseteq LogIds)'
          /\ (deleted \subseteq logs)'
          /\ (counted \in [LogIds -> Nat])'
          /\ (row \in Rows)'
          /\ (live \in BOOLEAN)'
          /\ (pc \in [Procs -> Locations])'
          /\ (copy \in [Procs -> Rows])'
          /\ (found \in [Procs -> SUBSET LogIds])'
          /\ (bound \in [Procs -> 0..MaxLog])'
          /\ (batches \in [Procs -> Nat])'
          /\ (faults \in 0..MaxFaults)'
          /\ (cleanups \in 0..MaxCleanups)'
      BY DEF SInv, TypeOK, ReadForRequest, logVars, passVars
    <2>4. QED
      BY <2>1, <2>2, <2>3 DEF TypeOK
  <1>2. NothingRequested'
    BY DEF SInv, TypeOK, NothingRequested, NoRecompute, ReadForRequest, logVars, passVars,
       Serialized
  <1>3. OneProjectionAtATime'
    BY DEF SInv, TypeOK, OneProjectionAtATime, InPass, ReadForRequest, logVars,
       passVars, Serialized
  <1>4. PassHoldsLease'
    BY DEF SInv, TypeOK, PassHoldsLease, InPass, ReadForRequest, logVars, passVars,
       Serialized
  <1>5. RequestAlone'
    BY DEF SInv, TypeOK, ReadForRequest, RequestAlone, Serialized, logVars, passVars, Rows,
       InPass
  <1>6. SelectionsKnown'
    BY DEF SInv, TypeOK, ReadForRequest, SelectionsKnown, Selected, Serialized, logVars,
       passVars, Rows, InPass, Retained, LogIds
  <1>. QED
    BY <1>1, <1>2, <1>3, <1>4, <1>5, <1>6 DEF SInv

LEMMA AcquireLeaseSerial ==
    ASSUME Serialized, SInv, NEW p \in Procs, AcquireLease(p)
    PROVE  SInv'
  <1>1. TypeOK'
    <2>1. /\ (row \in Rows)'
          /\ (copy \in [Procs -> Rows])'
      BY DEF SInv, TypeOK, AcquireLease, Rows
    <2>2. (pc \in [Procs -> Locations])'
      BY DEF SInv, TypeOK, AcquireLease, Locations
    <2>3. /\ (logs \subseteq LogIds)'
          /\ (deleted \subseteq logs)'
          /\ (counted \in [LogIds -> Nat])'
          /\ (live \in BOOLEAN)'
          /\ (found \in [Procs -> SUBSET LogIds])'
          /\ (bound \in [Procs -> 0..MaxLog])'
          /\ (batches \in [Procs -> Nat])'
          /\ (request \in RequestStates)'
          /\ (faults \in 0..MaxFaults)'
          /\ (requests \in 0..MaxRequests)'
          /\ (cleanups \in 0..MaxCleanups)'
      BY DEF SInv, TypeOK, AcquireLease, logVars, passVars
    <2>4. QED
      BY <2>1, <2>2, <2>3 DEF TypeOK
  <1>2. NothingRequested'
    BY DEF SInv, TypeOK, NothingRequested, NoRecompute, AcquireLease, logVars, passVars
  <1>3. OneProjectionAtATime'
    BY DEF SInv, TypeOK, OneProjectionAtATime, InPass, AcquireLease, logVars,
       passVars, PassHoldsLease, Serialized, Rows
  <1>4. PassHoldsLease'
    BY DEF SInv, TypeOK, PassHoldsLease, InPass, AcquireLease, logVars, passVars,
       Serialized, Rows
  <1>5. RequestAlone'
    BY DEF SInv, TypeOK, AcquireLease, RequestAlone, PassHoldsLease, Serialized, logVars,
       passVars, Rows, InPass
  <1>6. SelectionsKnown'
    BY DEF SInv, TypeOK, AcquireLease, SelectionsKnown, Selected, PassHoldsLease, Serialized,
       logVars, passVars, Rows, InPass, Retained, LogIds
  <1>. QED
    BY <1>1, <1>2, <1>3, <1>4, <1>5, <1>6 DEF SInv

LEMMA ReleaseLeaseSerial ==
    ASSUME Serialized, SInv, NEW p \in Procs, ReleaseLease(p)
    PROVE  SInv'
  <1>0. OnlyPass(p)
    BY OnlyOnePass DEF ReleaseLease, InPass
  <1>1. TypeOK'
    <2>1. (row \in Rows)'
      BY DEF SInv, TypeOK, ReleaseLease, Rows
    <2>2. (pc \in [Procs -> Locations])'
      BY DEF SInv, TypeOK, ReleaseLease, EndPass, Locations
    <2>3. (copy \in [Procs -> Rows])'
      BY ProjectionAssumption DEF SInv, TypeOK, ReleaseLease, EndPass, Rows,
         EmptyRow
    <2>4. /\ (bound \in [Procs -> 0..MaxLog])'
          /\ (batches \in [Procs -> Nat])'
      BY ProjectionAssumption DEF SInv, TypeOK, ReleaseLease, EndPass
    <2>5. /\ (logs \subseteq LogIds)'
          /\ (deleted \subseteq logs)'
          /\ (counted \in [LogIds -> Nat])'
          /\ (live \in BOOLEAN)'
          /\ (found \in [Procs -> SUBSET LogIds])'
          /\ (request \in RequestStates)'
          /\ (faults \in 0..MaxFaults)'
          /\ (requests \in 0..MaxRequests)'
          /\ (cleanups \in 0..MaxCleanups)'
      BY DEF SInv, TypeOK, ReleaseLease, logVars, passVars, EndPass
    <2>6. QED
      BY <2>1, <2>2, <2>3, <2>4, <2>5 DEF TypeOK
  <1>2. NothingRequested'
    BY <1>0 DEF SInv, TypeOK, NothingRequested, NoRecompute, ReleaseLease, EndPass, OnlyPass,
       logVars, passVars, Rows
  <1>3. OneProjectionAtATime'
    BY <1>0 DEF SInv, TypeOK, OneProjectionAtATime, InPass, ReleaseLease, EndPass,
       OnlyPass, logVars, passVars
  <1>4. PassHoldsLease'
    BY <1>0 DEF SInv, TypeOK, PassHoldsLease, InPass, ReleaseLease, EndPass,
       OnlyPass, logVars, passVars, Rows
  <1>5. RequestAlone'
    BY <1>0 DEF SInv, TypeOK, ReleaseLease, RequestAlone, EndPass, OnlyPass, logVars, passVars,
       Rows, InPass
  <1>6. SelectionsKnown'
    BY <1>0 DEF SInv, TypeOK, ReleaseLease, SelectionsKnown, Selected, EndPass, OnlyPass,
       logVars, passVars, Rows, InPass, Retained, LogIds
  <1>. QED
    BY <1>1, <1>2, <1>3, <1>4, <1>5, <1>6 DEF SInv

LEMMA ReadCheckpointSerial ==
    ASSUME Serialized, SInv, NEW p \in Procs, ReadCheckpoint(p)
    PROVE  SInv'
  <1>0. OnlyPass(p)
    BY OnlyOnePass DEF ReadCheckpoint, InPass
  <1>1. TypeOK'
    BY <1>0 DEF SInv, TypeOK, ReadCheckpoint, OnlyPass, logVars, passVars, Rows,
       EmptyRow, NoRequest, Locations, LogIds
  <1>2. NothingRequested'
    BY <1>0 DEF SInv, TypeOK, NothingRequested, NoRecompute, ReadCheckpoint, OnlyPass,
       logVars, passVars
  <1>3. OneProjectionAtATime'
    BY <1>0 DEF SInv, TypeOK, OneProjectionAtATime, InPass, ReadCheckpoint,
       OnlyPass, logVars, passVars
  <1>4. PassHoldsLease'
    BY <1>0 DEF SInv, TypeOK, PassHoldsLease, InPass, ReadCheckpoint, OnlyPass,
       logVars, passVars, Rows
  <1>5. RequestAlone'
    BY <1>0 DEF SInv, TypeOK, ReadCheckpoint, RequestAlone, OnlyPass, logVars, passVars, Rows,
       InPass
  <1>6. SelectionsKnown'
    BY <1>0 DEF SInv, TypeOK, ReadCheckpoint, SelectionsKnown, Selected, OnlyPass, logVars,
       passVars, Rows, InPass, Retained, LogIds
  <1>. QED
    BY <1>1, <1>2, <1>3, <1>4, <1>5, <1>6 DEF SInv

LEMMA ReadAffectedLogSerial ==
    ASSUME Serialized, SInv, NEW p \in Procs, ReadAffectedLog(p)
    PROVE  SInv'
  <1>0. OnlyPass(p)
    BY OnlyOnePass DEF ReadAffectedLog, InPass
  <1>1. TypeOK'
    <2>1. (pc \in [Procs -> Locations])'
      BY DEF SInv, TypeOK, ReadAffectedLog, Locations
    <2>2. (found \in [Procs -> SUBSET LogIds])'
      BY DEF SInv, TypeOK, ReadAffectedLog, Retained
    <2>3. (bound \in [Procs -> 0..MaxLog])'
      <3>1. Retained \subseteq 0..MaxLog
        BY DEF SInv, TypeOK, Retained, LogIds
      <3>2. QED
        BY <3>1 DEF SInv, TypeOK, ReadAffectedLog
    <2>4. /\ (logs \subseteq LogIds)'
          /\ (deleted \subseteq logs)'
          /\ (counted \in [LogIds -> Nat])'
          /\ (row \in Rows)'
          /\ (live \in BOOLEAN)'
          /\ (copy \in [Procs -> Rows])'
          /\ (batches \in [Procs -> Nat])'
          /\ (request \in RequestStates)'
          /\ (faults \in 0..MaxFaults)'
          /\ (requests \in 0..MaxRequests)'
          /\ (cleanups \in 0..MaxCleanups)'
      BY DEF SInv, TypeOK, ReadAffectedLog, logVars, passVars
    <2>5. QED
      BY <2>1, <2>2, <2>3, <2>4 DEF TypeOK
  <1>2. NothingRequested'
    BY <1>0 DEF SInv, TypeOK, NothingRequested, NoRecompute, ReadAffectedLog, OnlyPass,
       logVars, passVars
  <1>3. OneProjectionAtATime'
    BY <1>0 DEF SInv, TypeOK, OneProjectionAtATime, InPass, ReadAffectedLog,
       OnlyPass, logVars, passVars
  <1>4. PassHoldsLease'
    BY <1>0 DEF SInv, TypeOK, PassHoldsLease, InPass, ReadAffectedLog, OnlyPass,
       logVars, passVars
  <1>5. RequestAlone'
    BY <1>0 DEF SInv, TypeOK, ReadAffectedLog, RequestAlone, OnlyPass, logVars, passVars, Rows,
       InPass
  <1>6. SelectionsKnown'
    <2>1. CASE Requested(p) = {}
      BY <1>0, <2>1
      DEF SInv, TypeOK, ReadAffectedLog, SelectionsKnown, Selected, OnlyPass, IsFirst, logVars
    <2>2. CASE Requested(p) # {}
      <3>1. PICK a \in Retained :
                /\ found' = [found EXCEPT ![p] = {a}]
                /\ bound' = [bound EXCEPT ![p] = a]
                /\ pc' = [pc EXCEPT ![p] = "restart"]
        BY <2>2 DEF ReadAffectedLog, IsFirst
      <3>2. a \in LogIds /\ DayOf[a] >= DayOf[a]
        BY ProjectionAssumption DEF SInv, TypeOK, Retained
      <3>. QED
        BY <1>0, <3>1, <3>2
        DEF SInv, TypeOK, ReadAffectedLog, SelectionsKnown, Selected, OnlyPass, Retained,
            logVars
    <2>. QED
      BY <2>1, <2>2
  <1>. QED
    BY <1>1, <1>2, <1>3, <1>4, <1>5, <1>6 DEF SInv

LEMMA ReadRestartLogSerial ==
    ASSUME Serialized, SInv, NEW p \in Procs, ReadRestartLog(p)
    PROVE  SInv'
  <1>0. OnlyPass(p)
    BY OnlyOnePass DEF ReadRestartLog, InPass
  <1>1. TypeOK'
    <2>1. (pc \in [Procs -> Locations])'
      BY DEF SInv, TypeOK, ReadRestartLog, Locations
    <2>2. (found \in [Procs -> SUBSET LogIds])'
      BY DEF SInv, TypeOK, ReadRestartLog, Retained
    <2>3. (bound \in [Procs -> 0..MaxLog])'
      <3>1. Retained \subseteq 0..MaxLog
        BY DEF SInv, TypeOK, Retained, LogIds
      <3>2. QED
        BY <3>1 DEF SInv, TypeOK, ReadRestartLog
    <2>4. /\ (logs \subseteq LogIds)'
          /\ (deleted \subseteq logs)'
          /\ (counted \in [LogIds -> Nat])'
          /\ (row \in Rows)'
          /\ (live \in BOOLEAN)'
          /\ (copy \in [Procs -> Rows])'
          /\ (batches \in [Procs -> Nat])'
          /\ (request \in RequestStates)'
          /\ (faults \in 0..MaxFaults)'
          /\ (requests \in 0..MaxRequests)'
          /\ (cleanups \in 0..MaxCleanups)'
      BY DEF SInv, TypeOK, ReadRestartLog, logVars, passVars
    <2>5. QED
      BY <2>1, <2>2, <2>3, <2>4 DEF TypeOK
  <1>2. NothingRequested'
    BY <1>0 DEF SInv, TypeOK, NothingRequested, NoRecompute, ReadRestartLog, OnlyPass,
       logVars, passVars
  <1>3. OneProjectionAtATime'
    BY <1>0 DEF SInv, TypeOK, OneProjectionAtATime, InPass, ReadRestartLog,
       OnlyPass, logVars, passVars
  <1>4. PassHoldsLease'
    BY <1>0 DEF SInv, TypeOK, PassHoldsLease, InPass, ReadRestartLog, OnlyPass,
       logVars, passVars
  <1>5. RequestAlone'
    BY <1>0 DEF SInv, TypeOK, ReadRestartLog, RequestAlone, OnlyPass, logVars, passVars, Rows,
       InPass
  <1>6. SelectionsKnown'
    <2>1. PICK a \in logs : found[p] = {a} /\ bound[p] = a
      BY DEF SInv, SelectionsKnown, Selected, ReadRestartLog
    <2>2. a \in LogIds /\ DayOf[a] \in Nat
      BY <2>1, ProjectionAssumption DEF SInv, TypeOK
    <2>3. bound'[p] \in logs /\ DayOf[bound'[p]] >= DayOf[a]
      <3>1. CASE FromAffectedDay(p) = {}
        BY <2>1, <2>2, <3>1 DEF ReadRestartLog, IsFirst
      <3>2. CASE \E i \in Retained : /\ IsFirst(i, FromAffectedDay(p))
                                     /\ bound' = [bound EXCEPT ![p] = i]
        BY <2>1, <3>2 DEF SInv, TypeOK, IsFirst, FromAffectedDay, Retained
      <3>. QED
        BY <3>1, <3>2 DEF ReadRestartLog
    <2>4. Selected(p)'
      BY <2>1, <2>3 DEF SInv, TypeOK, ReadRestartLog, Selected, logVars
    <2>5. ASSUME NEW q \in Procs, q # p PROVE Selected(q)'
      BY <1>0, <2>5 DEF SInv, TypeOK, ReadRestartLog, SelectionsKnown, Selected, OnlyPass
    <2>. QED
      BY <2>4, <2>5 DEF SelectionsKnown
  <1>. QED
    BY <1>1, <1>2, <1>3, <1>4, <1>5, <1>6 DEF SInv

LEMMA ApplyRecomputeSerial ==
    ASSUME Serialized, SInv, NEW p \in Procs, ApplyRecompute(p)
    PROVE  SInv'
  <1>0. OnlyPass(p)
    BY OnlyOnePass DEF ApplyRecompute, InPass
  <1>1. TypeOK'
    <2>1. (row \in Rows)'
      <3>1. found[p] = {} \/ bound[p] - 1 \in 0..MaxLog
        BY ProjectionAssumption DEF SInv, TypeOK, SelectionsKnown, Selected, ApplyRecompute,
           LogIds
      <3>2. 0 \in 0..MaxLog
        BY ProjectionAssumption
      <3>3. QED
        BY <3>1, <3>2 DEF SInv, TypeOK, ApplyRecompute, Rows
    <2>2. (copy \in [Procs -> Rows])'
      BY <2>1 DEF SInv, TypeOK, ApplyRecompute
    <2>3. (pc \in [Procs -> Locations])'
      BY DEF SInv, TypeOK, ApplyRecompute, Locations
    <2>4. (bound \in [Procs -> 0..MaxLog])'
      BY ProjectionAssumption DEF SInv, TypeOK, ApplyRecompute
    <2>5. /\ (logs \subseteq LogIds)'
          /\ (deleted \subseteq logs)'
          /\ (counted \in [LogIds -> Nat])'
          /\ (live \in BOOLEAN)'
          /\ (found \in [Procs -> SUBSET LogIds])'
          /\ (batches \in [Procs -> Nat])'
          /\ (request \in RequestStates)'
          /\ (faults \in 0..MaxFaults)'
          /\ (requests \in 0..MaxRequests)'
          /\ (cleanups \in 0..MaxCleanups)'
      BY DEF SInv, TypeOK, ApplyRecompute, logVars, passVars
    <2>6. QED
      BY <2>1, <2>2, <2>3, <2>4, <2>5 DEF TypeOK
  <1>2. NothingRequested'
    BY <1>0 DEF SInv, TypeOK, NothingRequested, NoRecompute, ApplyRecompute, OnlyPass,
       logVars, passVars
  <1>3. OneProjectionAtATime'
    BY <1>0 DEF SInv, TypeOK, OneProjectionAtATime, InPass, ApplyRecompute,
       OnlyPass, logVars, passVars
  <1>4. PassHoldsLease'
    BY <1>0 DEF SInv, TypeOK, PassHoldsLease, InPass, ApplyRecompute, OnlyPass,
       logVars, passVars, Rows
  <1>5. RequestAlone'
    BY <1>0 DEF SInv, TypeOK, ApplyRecompute, RequestAlone, OnlyPass, logVars, passVars, Rows,
       InPass
  <1>6. SelectionsKnown'
    BY <1>0 DEF SInv, TypeOK, ApplyRecompute, SelectionsKnown, Selected, OnlyPass, logVars,
       passVars, Rows, InPass, Retained, LogIds
  <1>. QED
    BY <1>1, <1>2, <1>3, <1>4, <1>5, <1>6 DEF SInv

LEMMA FetchBatchSerial ==
    ASSUME Serialized, SInv, NEW p \in Procs, FetchBatch(p)
    PROVE  SInv'
  <1>0. OnlyPass(p)
    BY OnlyOnePass DEF FetchBatch, InPass
  <1>1. TypeOK'
    <2>1. (pc \in [Procs -> Locations])'
      BY DEF SInv, TypeOK, FetchBatch, Locations
    <2>2. (found \in [Procs -> SUBSET LogIds])'
      BY DEF SInv, TypeOK, FetchBatch, Retained
    <2>3. (bound \in [Procs -> 0..MaxLog])'
      <3>1. Retained \subseteq 0..MaxLog
        BY DEF SInv, TypeOK, Retained, LogIds
      <3>2. QED
        BY <3>1 DEF SInv, TypeOK, FetchBatch
    <2>4. /\ (logs \subseteq LogIds)'
          /\ (deleted \subseteq logs)'
          /\ (counted \in [LogIds -> Nat])'
          /\ (row \in Rows)'
          /\ (live \in BOOLEAN)'
          /\ (copy \in [Procs -> Rows])'
          /\ (batches \in [Procs -> Nat])'
          /\ (request \in RequestStates)'
          /\ (faults \in 0..MaxFaults)'
          /\ (requests \in 0..MaxRequests)'
          /\ (cleanups \in 0..MaxCleanups)'
      BY DEF SInv, TypeOK, FetchBatch, logVars, passVars
    <2>5. QED
      BY <2>1, <2>2, <2>3, <2>4 DEF TypeOK
  <1>2. NothingRequested'
    BY <1>0 DEF SInv, TypeOK, NothingRequested, NoRecompute, FetchBatch, OnlyPass, logVars,
       passVars
  <1>3. OneProjectionAtATime'
    BY <1>0 DEF SInv, TypeOK, OneProjectionAtATime, InPass, FetchBatch, OnlyPass,
       logVars, passVars
  <1>4. PassHoldsLease'
    BY <1>0 DEF SInv, TypeOK, PassHoldsLease, InPass, FetchBatch, OnlyPass, logVars,
       passVars
  <1>5. RequestAlone'
    BY <1>0 DEF SInv, TypeOK, FetchBatch, RequestAlone, OnlyPass, logVars, passVars, Rows,
       InPass
  <1>6. SelectionsKnown'
    <2>1. CASE \A i \in Retained : i <= copy[p].last
      <3>1. UNCHANGED <<found, bound>> /\ pc' = [pc EXCEPT ![p] = "release"]
        BY <2>1 DEF SInv, TypeOK, FetchBatch, IsBatch, Retained, LogIds, Rows
      <3>. QED
        BY <1>0, <3>1 DEF SInv, TypeOK, FetchBatch, SelectionsKnown, Selected, OnlyPass, logVars
    <2>2. ASSUME NEW i \in Retained, i > copy[p].last,
                 found' = [found EXCEPT ![p] = {j \in Retained : copy[p].last < j /\ j <= i}],
                 bound' = [bound EXCEPT ![p] = i], pc' = [pc EXCEPT ![p] = "apply"]
          PROVE  SelectionsKnown'
      <3>1. copy[p] = row /\ UNCHANGED <<row, logs>>
        BY <1>0 DEF OnlyPass, FetchBatch, logVars
      <3>2. Selected(p)'
        BY <2>2, <3>1 DEF SInv, TypeOK, Selected, Retained
      <3>3. ASSUME NEW q \in Procs, q # p PROVE Selected(q)'
        BY <1>0, <2>2, <3>3 DEF SInv, TypeOK, SelectionsKnown, Selected, OnlyPass
      <3>. QED
        BY <3>2, <3>3 DEF SelectionsKnown
    <2>. QED
      BY <2>1, <2>2 DEF FetchBatch, IsBatch
  <1>. QED
    BY <1>1, <1>2, <1>3, <1>4, <1>5, <1>6 DEF SInv

LEMMA ApplyBatchSerial ==
    ASSUME Serialized, SInv, NEW p \in Procs, ApplyBatch(p)
    PROVE  SInv'
  <1>0. OnlyPass(p)
    BY OnlyOnePass DEF ApplyBatch, InPass
  <1>1. TypeOK'
    <2>1. /\ (row \in Rows)'
          /\ (copy \in [Procs -> Rows])'
      BY ProjectionAssumption DEF SInv, TypeOK, ApplyBatch, Rows
    <2>2. (pc \in [Procs -> Locations])'
      BY DEF SInv, TypeOK, ApplyBatch, Locations
    <2>3. (bound \in [Procs -> 0..MaxLog])'
      BY ProjectionAssumption DEF SInv, TypeOK, ApplyBatch
    <2>4. /\ (logs \subseteq LogIds)'
          /\ (deleted \subseteq logs)'
          /\ (counted \in [LogIds -> Nat])'
          /\ (live \in BOOLEAN)'
          /\ (found \in [Procs -> SUBSET LogIds])'
          /\ (batches \in [Procs -> Nat])'
          /\ (request \in RequestStates)'
          /\ (faults \in 0..MaxFaults)'
          /\ (requests \in 0..MaxRequests)'
          /\ (cleanups \in 0..MaxCleanups)'
      BY DEF SInv, TypeOK, ApplyBatch, logVars, passVars
    <2>5. QED
      BY <2>1, <2>2, <2>3, <2>4 DEF TypeOK
  <1>2. NothingRequested'
    BY <1>0 DEF SInv, TypeOK, NothingRequested, NoRecompute, ApplyBatch, OnlyPass, logVars,
       passVars, InPass, Rows
  <1>3. OneProjectionAtATime'
    BY <1>0 DEF SInv, TypeOK, OneProjectionAtATime, InPass, ApplyBatch, OnlyPass,
       logVars, passVars
  <1>4. PassHoldsLease'
    BY <1>0 DEF SInv, TypeOK, PassHoldsLease, InPass, ApplyBatch, OnlyPass, logVars,
       passVars, Rows
  <1>5. RequestAlone'
    BY <1>0 DEF SInv, TypeOK, ApplyBatch, RequestAlone, OnlyPass, logVars, passVars, Rows,
       InPass
  <1>6. SelectionsKnown'
    BY <1>0 DEF SInv, TypeOK, ApplyBatch, SelectionsKnown, Selected, OnlyPass, logVars,
       passVars, Rows, InPass, Retained, LogIds
  <1>. QED
    BY <1>1, <1>2, <1>3, <1>4, <1>5, <1>6 DEF SInv

LEMMA StatementFailsSerial ==
    ASSUME Serialized, SInv, NEW p \in Procs, StatementFails(p)
    PROVE  SInv'
  <1>0. OnlyPass(p)
    BY OnlyOnePass DEF StatementFails, InPass
  <1>1. TypeOK'
    <2>1. (pc \in [Procs -> Locations])' /\ (faults \in 0..MaxFaults)'
      BY ProjectionAssumption DEF SInv, TypeOK, StatementFails, Locations
    <2>2. /\ (logs \subseteq LogIds)'
          /\ (deleted \subseteq logs)'
          /\ (counted \in [LogIds -> Nat])'
          /\ (row \in Rows)'
          /\ (live \in BOOLEAN)'
          /\ (copy \in [Procs -> Rows])'
          /\ (found \in [Procs -> SUBSET LogIds])'
          /\ (bound \in [Procs -> 0..MaxLog])'
          /\ (batches \in [Procs -> Nat])'
          /\ (request \in RequestStates)'
          /\ (requests \in 0..MaxRequests)'
          /\ (cleanups \in 0..MaxCleanups)'
      BY DEF SInv, TypeOK, StatementFails, logVars
    <2>. QED
      BY <2>1, <2>2 DEF TypeOK
  <1>2. NothingRequested'
    BY <1>0 DEF SInv, TypeOK, NothingRequested, NoRecompute, StatementFails, OnlyPass,
       logVars, passVars
  <1>3. OneProjectionAtATime'
    BY <1>0 DEF SInv, TypeOK, OneProjectionAtATime, InPass, StatementFails,
       OnlyPass, logVars, passVars
  <1>4. PassHoldsLease'
    BY <1>0 DEF SInv, TypeOK, PassHoldsLease, InPass, StatementFails, OnlyPass,
       logVars, passVars
  <1>5. RequestAlone'
    BY <1>0 DEF SInv, TypeOK, StatementFails, RequestAlone, OnlyPass, logVars, passVars, Rows,
       InPass
  <1>6. SelectionsKnown'
    BY <1>0 DEF SInv, TypeOK, StatementFails, SelectionsKnown, Selected, OnlyPass, logVars,
       passVars, Rows, InPass, Retained, LogIds
  <1>. QED
    BY <1>1, <1>2, <1>3, <1>4, <1>5, <1>6 DEF SInv

LEMMA AbandonPassSerial ==
    ASSUME Serialized, SInv, NEW p \in Procs, AbandonPass(p)
    PROVE  SInv'
  <1>0. OnlyPass(p)
    BY OnlyOnePass DEF AbandonPass, InPass
  <1>1. TypeOK'
    <2>1. (pc \in [Procs -> Locations])'
      BY DEF SInv, TypeOK, AbandonPass, EndPass, Locations
    <2>2. (copy \in [Procs -> Rows])'
      BY ProjectionAssumption DEF SInv, TypeOK, AbandonPass, EndPass, Rows, EmptyRow
    <2>3. /\ (bound \in [Procs -> 0..MaxLog])'
          /\ (batches \in [Procs -> Nat])'
          /\ (faults \in 0..MaxFaults)'
      BY ProjectionAssumption DEF SInv, TypeOK, AbandonPass, EndPass
    <2>4. /\ (logs \subseteq LogIds)'
          /\ (deleted \subseteq logs)'
          /\ (counted \in [LogIds -> Nat])'
          /\ (row \in Rows)'
          /\ (live \in BOOLEAN)'
          /\ (found \in [Procs -> SUBSET LogIds])'
          /\ (request \in RequestStates)'
          /\ (requests \in 0..MaxRequests)'
          /\ (cleanups \in 0..MaxCleanups)'
      BY DEF SInv, TypeOK, AbandonPass, logVars, passVars, EndPass
    <2>5. QED
      BY <2>1, <2>2, <2>3, <2>4 DEF TypeOK
  <1>2. NothingRequested'
    BY <1>0 DEF SInv, TypeOK, NothingRequested, NoRecompute, AbandonPass, EndPass, OnlyPass,
       logVars, passVars
  <1>3. OneProjectionAtATime'
    BY <1>0 DEF SInv, TypeOK, OneProjectionAtATime, InPass, AbandonPass, EndPass,
       OnlyPass, logVars, passVars
  <1>4. PassHoldsLease'
    BY <1>0 DEF SInv, TypeOK, PassHoldsLease, InPass, AbandonPass, EndPass,
       OnlyPass, logVars, passVars
  <1>5. RequestAlone'
    BY <1>0 DEF SInv, TypeOK, AbandonPass, RequestAlone, EndPass, OnlyPass, logVars, passVars,
       Rows, InPass
  <1>6. SelectionsKnown'
    BY <1>0 DEF SInv, TypeOK, AbandonPass, SelectionsKnown, Selected, EndPass, OnlyPass,
       logVars, passVars, Rows, InPass, Retained, LogIds
  <1>. QED
    BY <1>1, <1>2, <1>3, <1>4, <1>5, <1>6 DEF SInv

LEMMA InitSerial == Init => SInv
  <1>1. SUFFICES ASSUME Init
                 PROVE  SInv
    OBVIOUS
  <1>2. TypeOK
    <2>1. 0 \in 0..MaxLog /\ 0 \in 0..MaxFaults /\ 0 \in 0..MaxRequests /\ 0 \in 0..MaxCleanups
      BY ProjectionAssumption
    <2>2. EmptyRow \in Rows
      BY <2>1 DEF EmptyRow, Rows
    <2>3. NoRequest \in RequestStates
      BY <2>1, <2>2 DEF NoRequest, RequestStates
    <2>4. QED
      BY <1>1, <2>1, <2>2, <2>3 DEF Init, TypeOK, Locations
  <1>. QED
    BY <1>1, <1>2 DEF Init, SInv, NothingRequested, NoRecompute, OneProjectionAtATime, EmptyRow,
       PassHoldsLease, RequestAlone, SelectionsKnown, Selected, InPass, NoRequest

LEMMA NextSerial == Serialized /\ SInv /\ [Next]_vars => SInv'
  <1>1. SUFFICES ASSUME Serialized, SInv, [Next]_vars
                 PROVE  SInv'
    OBVIOUS
  <1>2. CASE \E i \in LogIds : LogArrives(i) \/ ReadForRequest(i)
    BY <1>1, <1>2, LogArrivesSerial, ReadForRequestSerial
  <1>3. CASE \E i \in LogIds : CleanUpLogs(CreatedAt[i] + 1)
    BY <1>1, <1>3, CleanUpLogsSerial
  <1>4. CASE WriteRequest \/ LeaseExpires
    BY <1>1, <1>4, WriteRequestSerial, LeaseExpiresSerial
  <1>5. ASSUME NEW p \in Procs,
               AcquireLease(p) \/ PassStep(p) \/ StatementFails(p) \/ AbandonPass(p)
        PROVE  SInv'
    BY <1>1, <1>5, AcquireLeaseSerial, ReadCheckpointSerial, ReadAffectedLogSerial,
       ReadRestartLogSerial, ApplyRecomputeSerial, FetchBatchSerial, ApplyBatchSerial,
       ReleaseLeaseSerial, StatementFailsSerial, AbandonPassSerial DEF PassStep
  <1>6. CASE UNCHANGED vars
    BY <1>1, <1>6
    DEF SInv, vars, logVars, passVars, TypeOK, NothingRequested,
        OneProjectionAtATime, PassHoldsLease, RequestAlone, SelectionsKnown, Selected, InPass
  <1>7. QED
    BY <1>1, <1>2, <1>3, <1>4, <1>5, <1>6 DEF Next

\* As long as no statement outlasts the lease and requests keep clear of passes, the
\* projector's bookkeeping keeps its shape.
THEOREM TypeCorrect ==
    ASSUME Serialized
    PROVE  Spec => []TypeOK
  <1>1. SInv /\ [Next]_vars => SInv'
    BY NextSerial
  <1>2. SInv => TypeOK
    BY DEF SInv
  <1>3. QED
    BY InitSerial, <1>1, <1>2, PTL DEF Spec

\* Then the lease admits one pass at a time, over any number of processes
\* (tryAcquireProjectionLease).
THEOREM PassesExcludeEachOther ==
    ASSUME Serialized
    PROVE  Spec => []OneProjectionAtATime
  <1>1. SInv /\ [Next]_vars => SInv'
    BY NextSerial
  <1>2. SInv => OneProjectionAtATime
    BY DEF SInv
  <1>3. QED
    BY InitSerial, <1>1, <1>2, PTL DEF Spec

-----------------------------------------------------------------------------
(***************************************************************************)
(* What holds in whatever order logs become visible, if days follow ids or *)
(* nothing is recomputed                                                   *)
(***************************************************************************)

\* Nothing beyond the watermark has been counted: what a pass adds is new.
NothingBeyond == \A i \in LogIds : i > row.last => counted[i] = 0

CInv == SInv /\ NothingCountedTwice /\ NothingBeyond

LEMMA ApplyBatchCounts ==
    ASSUME Serialized, CInv, NEW p \in Procs, ApplyBatch(p)
    PROVE  NothingCountedTwice' /\ NothingBeyond'
  <1>1. OnlyPass(p)
    BY OnlyOnePass DEF CInv, ApplyBatch, InPass
  <1>2. /\ counted \in [LogIds -> Nat]
        /\ counted' = [i \in LogIds |-> IF i \in found[p] THEN counted[i] + 1 ELSE counted[i]]
    BY DEF CInv, SInv, TypeOK, ApplyBatch
  <1>3. /\ bound[p] \in LogIds /\ bound[p] > row.last /\ row.last \in Nat
        /\ \A i \in found[p] : row.last < i /\ i <= bound[p]
    BY DEF CInv, SInv, TypeOK, SelectionsKnown, Selected, ApplyBatch, Rows
  <1>4. row'.last = bound[p]
    BY <1>1, <1>3 DEF CInv, SInv, TypeOK, ApplyBatch, OnlyPass, Rows
  <1>5. NothingCountedTwice'
    BY <1>2, <1>3 DEF CInv, NothingCountedTwice, NothingBeyond, LogIds
  <1>6. NothingBeyond'
    BY <1>2, <1>3, <1>4 DEF CInv, NothingBeyond, LogIds
  <1>. QED
    BY <1>5, <1>6

LEMMA DaysOrdered ==
    ASSUME DaysFollowIds, NEW i \in LogIds, NEW j \in LogIds
    PROVE  /\ i <= j => DayOf[i] <= DayOf[j]
           /\ i <= j => DayOf[j] >= DayOf[i]
           /\ DayOf[i] < DayOf[j] => i < j
  <1>1. i \in Int /\ j \in Int /\ DayOf[i] \in Nat /\ DayOf[j] \in Nat
    BY ProjectionAssumption DEF LogIds
  <1>2. /\ i < j => DayOf[i] <= DayOf[j]
        /\ j < i => DayOf[j] <= DayOf[i]
    BY DEF DaysFollowIds
  <1>3. i = j => DayOf[i] = DayOf[j]
    OBVIOUS
  <1>. QED
    BY <1>1, <1>2, <1>3

LEMMA ApplyRecomputeCounts ==
    ASSUME Countable, CInv, NEW p \in Procs, ApplyRecompute(p)
    PROVE  NothingCountedTwice' /\ NothingBeyond'
  <1>1. OnlyPass(p) /\ DaysFollowIds
    <2>1. ~NoRecompute
      BY DEF CInv, SInv, NothingRequested, ApplyRecompute
    <2>. QED
      BY <2>1, OnlyOnePass DEF CInv, Countable, ApplyRecompute, InPass
  <1>2. NothingCountedTwice'
    BY DEF CInv, SInv, TypeOK, NothingCountedTwice, ApplyRecompute
  <1>3. NothingBeyond'
    <2>1. CASE found[p] = {}
      BY <1>1, <2>1 DEF CInv, SInv, TypeOK, ApplyRecompute, NothingBeyond, OnlyPass, Rows
    <2>2. ASSUME NEW a \in found[p] PROVE NothingBeyond'
      <3>1. found[p] = {a} /\ bound[p] \in LogIds /\ DayOf[bound[p]] >= DayOf[a] /\ a \in LogIds
        BY <2>2 DEF CInv, SInv, TypeOK, SelectionsKnown, Selected, ApplyRecompute
      <3>2. /\ row'.last = bound[p] - 1
            /\ counted' = [i \in LogIds |-> IF DayOf[i] >= DayOf[a] THEN 0 ELSE counted[i]]
        BY <3>1 DEF ApplyRecompute, CInv, SInv, TypeOK, Rows
      <3>3. ASSUME NEW i \in LogIds, i > bound[p] - 1 PROVE DayOf[i] >= DayOf[a]
        <4>1. DayOf[i] >= DayOf[bound[p]]
          <5>1. bound[p] <= i
            BY <3>1, <3>3 DEF LogIds
          <5>. QED
            BY <1>1, <3>1, <5>1, DaysOrdered
        <4>. QED
          BY <3>1, <4>1, ProjectionAssumption
      <3>. QED
        BY <3>2, <3>3 DEF NothingBeyond
    <2>. QED
      BY <2>1, <2>2
  <1>. QED
    BY <1>2, <1>3

LEMMA NextCounts == Countable /\ CInv /\ [Next]_vars => CInv'
  <1>. SUFFICES ASSUME Countable, CInv, [Next]_vars
                PROVE  NothingCountedTwice' /\ NothingBeyond'
    BY NextSerial DEF CInv, Countable
  <1>1. ASSUME counted' = counted, row'.last = row.last
        PROVE  NothingCountedTwice' /\ NothingBeyond'
    <2>1. NothingCountedTwice /\ NothingBeyond
      BY DEF CInv
    <2>. QED
      BY <1>1, <2>1 DEF NothingCountedTwice, NothingBeyond
  <1>2. CASE UNCHANGED <<counted, row>>
    BY <1>1, <1>2
  <1>3. CASE WriteRequest
    <2>1. request.row = row /\ row \in Rows
      BY <1>3 DEF WriteRequest, CInv, SInv, TypeOK, RequestAlone
    <2>2. row'.last = row.last
      BY <1>3, <2>1 DEF WriteRequest, Rows
    <2>. QED
      BY <1>1, <1>3, <2>2 DEF WriteRequest
  <1>4. ASSUME NEW p \in Procs, AcquireLease(p) \/ ReleaseLease(p)
        PROVE  NothingCountedTwice' /\ NothingBeyond'
    BY <1>1, <1>4 DEF AcquireLease, ReleaseLease, CInv, SInv, TypeOK, Rows
  <1>5. ASSUME NEW p \in Procs,
               \/ ReadCheckpoint(p) \/ ReadAffectedLog(p) \/ ReadRestartLog(p) \/ FetchBatch(p)
               \/ StatementFails(p) \/ AbandonPass(p)
        PROVE  UNCHANGED <<counted, row>>
    BY <1>5 DEF ReadCheckpoint, ReadAffectedLog, ReadRestartLog, FetchBatch, StatementFails,
                AbandonPass
  <1>6. ASSUME NEW i \in LogIds,
               LogArrives(i) \/ ReadForRequest(i) \/ CleanUpLogs(CreatedAt[i] + 1)
        PROVE  UNCHANGED <<counted, row>>
    BY <1>6 DEF LogArrives, ReadForRequest, CleanUpLogs
  <1>7. ASSUME LeaseExpires \/ UNCHANGED vars
        PROVE  UNCHANGED <<counted, row>>
    BY <1>7 DEF LeaseExpires, vars
  <1>8. ASSUME NEW p \in Procs,
               AcquireLease(p) \/ PassStep(p) \/ StatementFails(p) \/ AbandonPass(p)
        PROVE  NothingCountedTwice' /\ NothingBeyond'
    <2>1. CASE ApplyBatch(p)
      BY <2>1, ApplyBatchCounts DEF Countable
    <2>2. CASE ApplyRecompute(p)
      BY <2>2, ApplyRecomputeCounts
    <2>. QED
      BY <1>2, <1>4, <1>5, <1>8, <2>1, <2>2 DEF PassStep
  <1>. QED
    BY <1>2, <1>3, <1>6, <1>7, <1>8 DEF Next

\* If days follow ids, or nobody asks for a recompute (as in the program today, whatever
\* the days), no crash, failure, cleanup, lease takeover or recompute makes a log count
\* twice, in whatever order the inserts of a server database commit and whatever log a
\* recompute is requested from (applyProjectionBatch).  A recompute over a log whose day
\* lies before that of a log with a lower id may count it twice.
THEOREM CountedOnce ==
    ASSUME Countable
    PROVE  Spec => []NothingCountedTwice
  <1>1. Init => CInv
    BY InitSerial DEF CInv, Init, NothingCountedTwice, NothingBeyond
  <1>2. CInv /\ [Next]_vars => CInv'
    BY NextCounts
  <1>3. CInv => NothingCountedTwice
    BY DEF CInv
  <1>4. QED
    BY <1>1, <1>2, <1>3, PTL DEF Spec

-----------------------------------------------------------------------------
(***************************************************************************)
(* What holds besides if logs become visible in order                      *)
(***************************************************************************)

\* The visible logs are an initial segment of the ids.
LogsArePrefix == \A i \in logs, j \in LogIds : j < i => j \in logs

\* The watermark names a log that was visible once, so all below are.
WatermarkReached == \A i \in LogIds : i <= row.last => i \in logs

\* A request under way, and then the pending recompute, starts at the first log or
\* behind the watermark; it is settled before anything is projected.
RequestBehind ==
    request.open =>
        /\ request.from \in LogIds
        /\ request.from = 1 \/ request.from <= row.last

RecomputeBehind ==
    /\ row.recompute > 0 => row.recompute = 1 \/ row.recompute <= row.last
    /\ \A p \in Procs : pc[p] \in {"fetch", "apply"} => row.recompute = 0
    /\ \A p \in Procs : pc[p] \in {"affected", "restart", "recompute"} => row.recompute > 0

\* What the SELECTs of a recompute found stays true until it is used.
AffectedKnown ==
    \A p \in Procs :
        /\ pc[p] \in {"idle", "read", "affected", "fetch"} => found[p] = {}
        /\ pc[p] = "restart" => found[p] # {}
        /\ pc[p] \in {"restart", "recompute"} =>
              \A a \in found[p] :
                  /\ found[p] = {a}
                  /\ a \in logs /\ bound[p] \in logs
                  /\ \A i \in Retained : i < a => i < row.recompute
        /\ pc[p] = "restart" => bound[p] \in found[p]
        /\ pc[p] = "recompute" =>
              \A a \in found[p] :
                  /\ DayOf[bound[p]] >= DayOf[a]
                  /\ \A i \in Retained : i < bound[p] => DayOf[i] < DayOf[a]

\* A fetched batch is what lies between the watermark and its last log, up to
\* logs cleaned up since.
BatchKnown ==
    \A p \in Procs : pc[p] = "apply" =>
        /\ bound[p] \in logs /\ bound[p] > row.last
        /\ \A i \in found[p] : row.last < i /\ i <= bound[p]
        /\ \A i \in Retained : row.last < i /\ i <= bound[p] => i \in found[p]

IInv ==
    /\ SInv
    /\ WatermarkMatchesTables
    /\ LogsArePrefix
    /\ WatermarkReached
    /\ RequestBehind
    /\ RecomputeBehind
    /\ AffectedKnown
    /\ BatchKnown

-----------------------------------------------------------------------------

LEMMA LogArrivesKeeps ==
    ASSUME Orderly, IInv, NEW n \in LogIds, LogArrives(n)
    PROVE  IInv'
  <1>1. SInv'
    BY LogArrivesSerial DEF IInv, Orderly, Countable
  <1>2. WatermarkMatchesTables'
    BY DEF IInv, SInv, TypeOK, WatermarkMatchesTables, Retained, LogArrives, logVars,
       passVars, WatermarkReached
  <1>3. LogsArePrefix'
    BY DEF IInv, SInv, LogsArePrefix, LogArrives, logVars, passVars, Orderly, Countable, Serialized, TypeOK
  <1>4. WatermarkReached'
    BY DEF IInv, SInv, TypeOK, WatermarkReached, LogArrives, logVars, passVars
  <1>5. RequestBehind'
    BY DEF IInv, SInv, TypeOK, RequestAlone, RequestBehind, InPass, LogArrives, logVars,
       passVars
  <1>6. RecomputeBehind'
    BY DEF IInv, SInv, TypeOK, RecomputeBehind, LogArrives, logVars, passVars
  <1>7. AffectedKnown'
    BY DEF IInv, SInv, TypeOK, AffectedKnown, Retained, LogArrives, logVars, passVars,
       LogsArePrefix, LogIds
  <1>8. BatchKnown'
    BY DEF IInv, SInv, TypeOK, BatchKnown, Retained, LogArrives, logVars, passVars,
       LogsArePrefix, LogIds
  <1>9. QED
    BY <1>1, <1>2, <1>3, <1>4, <1>5, <1>6, <1>7, <1>8 DEF IInv

LEMMA CleanUpLogsKeeps ==
    ASSUME Orderly, IInv, NEW cutoff, CleanUpLogs(cutoff)
    PROVE  IInv'
  <1>1. SInv'
    BY CleanUpLogsSerial DEF IInv, Orderly, Countable
  <1>2. WatermarkMatchesTables'
    BY DEF IInv, SInv, TypeOK, WatermarkMatchesTables, Retained, CleanUpLogs, logVars,
       passVars
  <1>3. LogsArePrefix'
    BY DEF IInv, SInv, LogsArePrefix, CleanUpLogs, logVars, passVars
  <1>4. WatermarkReached'
    BY DEF IInv, SInv, TypeOK, WatermarkReached, CleanUpLogs, logVars, passVars
  <1>5. RequestBehind'
    BY DEF IInv, SInv, TypeOK, RequestAlone, RequestBehind, InPass, CleanUpLogs, logVars,
       passVars
  <1>6. RecomputeBehind'
    BY DEF IInv, SInv, TypeOK, RecomputeBehind, CleanUpLogs, logVars, passVars
  <1>7. AffectedKnown'
    BY DEF IInv, SInv, TypeOK, AffectedKnown, Retained, CleanUpLogs, logVars, passVars
  <1>8. BatchKnown'
    BY DEF IInv, SInv, TypeOK, BatchKnown, Retained, CleanUpLogs, logVars, passVars
  <1>9. QED
    BY <1>1, <1>2, <1>3, <1>4, <1>5, <1>6, <1>7, <1>8 DEF IInv

LEMMA LeaseExpiresKeeps ==
    ASSUME Orderly, IInv, LeaseExpires
    PROVE  IInv'
  <1>1. SInv'
    BY LeaseExpiresSerial DEF IInv, Orderly, Countable
  <1>2. WatermarkMatchesTables'
    BY DEF IInv, SInv, TypeOK, WatermarkMatchesTables, Retained, LeaseExpires, logVars,
       passVars, Orderly, Countable, Serialized, PassHoldsLease, InPass
  <1>3. LogsArePrefix'
    BY DEF IInv, SInv, LogsArePrefix, LeaseExpires, logVars, passVars, Orderly, Countable, Serialized,
       PassHoldsLease, InPass
  <1>4. WatermarkReached'
    BY DEF IInv, SInv, TypeOK, WatermarkReached, LeaseExpires, logVars, passVars, Orderly, Countable,
       Serialized,
       PassHoldsLease, InPass
  <1>5. RequestBehind'
    BY DEF IInv, SInv, TypeOK, RequestAlone, RequestBehind, InPass, LeaseExpires, logVars,
       passVars,
       Orderly, Countable, Serialized, PassHoldsLease
  <1>6. RecomputeBehind'
    BY DEF IInv, SInv, TypeOK, RecomputeBehind, LeaseExpires, logVars, passVars, Orderly, Countable,
       Serialized,
       PassHoldsLease, InPass
  <1>7. AffectedKnown'
    BY DEF IInv, SInv, TypeOK, AffectedKnown, Retained, LeaseExpires, logVars, passVars,
       Orderly, Countable, Serialized, PassHoldsLease, InPass
  <1>8. BatchKnown'
    BY DEF IInv, SInv, TypeOK, BatchKnown, Retained, LeaseExpires, logVars, passVars,
       Orderly, Countable, Serialized, PassHoldsLease, InPass
  <1>9. QED
    BY <1>1, <1>2, <1>3, <1>4, <1>5, <1>6, <1>7, <1>8 DEF IInv

LEMMA WriteRequestKeeps ==
    ASSUME Orderly, IInv, WriteRequest
    PROVE  IInv'
  <1>1. SInv'
    BY WriteRequestSerial DEF IInv, Orderly, Countable
  <1>2. WatermarkMatchesTables'
    BY DEF IInv, SInv, TypeOK, WatermarkMatchesTables, Retained, WriteRequest, logVars,
       passVars, RequestAlone, RequestBehind, InPass, Rows, RequestStates, Earlier, NoRequest
  <1>3. LogsArePrefix'
    BY DEF IInv, SInv, LogsArePrefix, WriteRequest, logVars, passVars, RequestAlone,
       InPass, Rows, RequestStates, Earlier, NoRequest
  <1>4. WatermarkReached'
    BY DEF IInv, SInv, TypeOK, WatermarkReached, WriteRequest, logVars, passVars,
       RequestAlone, RequestBehind, InPass, Rows, RequestStates, Earlier, NoRequest
  <1>5. RequestBehind'
    BY DEF IInv, SInv, TypeOK, RequestAlone, RequestBehind, InPass, WriteRequest, logVars,
       passVars,
       Rows, RequestStates, Earlier, NoRequest
  <1>6. RecomputeBehind'
    BY DEF IInv, SInv, TypeOK, RecomputeBehind, WriteRequest, logVars, passVars,
       RequestAlone, RequestBehind, InPass, Rows, RequestStates, Earlier, NoRequest
  <1>7. AffectedKnown'
    BY DEF IInv, SInv, TypeOK, AffectedKnown, Retained, WriteRequest, logVars, passVars,
       RequestAlone, RequestBehind, InPass, Rows, RequestStates, Earlier, NoRequest
  <1>8. BatchKnown'
    BY DEF IInv, SInv, TypeOK, BatchKnown, Retained, WriteRequest, logVars, passVars,
       RequestAlone, RequestBehind, InPass, Rows, RequestStates, Earlier, NoRequest
  <1>9. QED
    BY <1>1, <1>2, <1>3, <1>4, <1>5, <1>6, <1>7, <1>8 DEF IInv

LEMMA ReadForRequestKeeps ==
    ASSUME Orderly, IInv, NEW from \in LogIds, ReadForRequest(from)
    PROVE  IInv'
  <1>1. SInv'
    BY ReadForRequestSerial DEF IInv, Orderly, Countable
  <1>2. WatermarkMatchesTables'
    BY DEF IInv, SInv, TypeOK, WatermarkMatchesTables, Retained, ReadForRequest, logVars,
       passVars, Orderly, Countable, Serialized
  <1>3. LogsArePrefix'
    BY DEF IInv, SInv, LogsArePrefix, ReadForRequest, logVars, passVars, Orderly, Countable, Serialized
  <1>4. WatermarkReached'
    BY DEF IInv, SInv, TypeOK, WatermarkReached, ReadForRequest, logVars, passVars,
       Orderly, Countable, Serialized
  <1>5. RequestBehind'
    BY DEF IInv, SInv, TypeOK, RequestAlone, RequestBehind, InPass, ReadForRequest, logVars,
       passVars,
       Orderly, Countable, Serialized
  <1>6. RecomputeBehind'
    BY DEF IInv, SInv, TypeOK, RecomputeBehind, ReadForRequest, logVars, passVars, Orderly, Countable,
       Serialized
  <1>7. AffectedKnown'
    BY DEF IInv, SInv, TypeOK, AffectedKnown, Retained, ReadForRequest, logVars, passVars,
       Orderly, Countable, Serialized
  <1>8. BatchKnown'
    BY DEF IInv, SInv, TypeOK, BatchKnown, Retained, ReadForRequest, logVars, passVars,
       Orderly, Countable, Serialized
  <1>9. QED
    BY <1>1, <1>2, <1>3, <1>4, <1>5, <1>6, <1>7, <1>8 DEF IInv

LEMMA AcquireLeaseKeeps ==
    ASSUME Orderly, IInv, NEW p \in Procs, AcquireLease(p)
    PROVE  IInv'
  <1>1. SInv'
    BY AcquireLeaseSerial DEF IInv, Orderly, Countable
  <1>2. WatermarkMatchesTables'
    BY DEF IInv, SInv, TypeOK, WatermarkMatchesTables, Retained, AcquireLease, logVars,
       passVars, Rows
  <1>3. LogsArePrefix'
    BY DEF IInv, SInv, LogsArePrefix, AcquireLease, logVars, passVars
  <1>4. WatermarkReached'
    BY DEF IInv, SInv, TypeOK, WatermarkReached, AcquireLease, logVars, passVars, Rows
  <1>5. RequestBehind'
    BY DEF IInv, SInv, TypeOK, RequestAlone, RequestBehind, InPass, AcquireLease, logVars,
       passVars,
       PassHoldsLease, Orderly, Countable, Serialized, Rows
  <1>6. RecomputeBehind'
    BY DEF IInv, SInv, TypeOK, RecomputeBehind, AcquireLease, logVars, passVars,
       PassHoldsLease, InPass, Orderly, Countable, Serialized, Rows
  <1>7. AffectedKnown'
    BY DEF IInv, SInv, TypeOK, AffectedKnown, Retained, AcquireLease, logVars, passVars,
       PassHoldsLease, InPass, Rows
  <1>8. BatchKnown'
    BY DEF IInv, SInv, TypeOK, BatchKnown, Retained, AcquireLease, logVars, passVars,
       PassHoldsLease, InPass, Orderly, Countable, Serialized, Rows
  <1>9. QED
    BY <1>1, <1>2, <1>3, <1>4, <1>5, <1>6, <1>7, <1>8 DEF IInv

LEMMA ReleaseLeaseKeeps ==
    ASSUME Orderly, IInv, NEW p \in Procs, ReleaseLease(p)
    PROVE  IInv'
  <1>0. OnlyPass(p)
    BY OnlyOnePass DEF IInv, ReleaseLease, InPass
  <1>1. SInv'
    BY ReleaseLeaseSerial DEF IInv, Orderly, Countable
  <1>2. WatermarkMatchesTables'
    BY <1>0 DEF IInv, SInv, TypeOK, WatermarkMatchesTables, Retained, ReleaseLease,
       EndPass, OnlyPass, logVars, passVars, Rows
  <1>3. LogsArePrefix'
    BY <1>0 DEF IInv, SInv, LogsArePrefix, ReleaseLease, EndPass, OnlyPass, logVars,
       passVars
  <1>4. WatermarkReached'
    BY <1>0 DEF IInv, SInv, TypeOK, WatermarkReached, ReleaseLease, EndPass, OnlyPass,
       logVars, passVars, Rows
  <1>5. RequestBehind'
    BY <1>0 DEF IInv, SInv, TypeOK, RequestAlone, RequestBehind, InPass, ReleaseLease, EndPass,
       OnlyPass,
       logVars, passVars, Rows
  <1>6. RecomputeBehind'
    BY <1>0 DEF IInv, SInv, TypeOK, RecomputeBehind, ReleaseLease, EndPass, OnlyPass,
       logVars, passVars, Rows
  <1>7. AffectedKnown'
    BY <1>0 DEF IInv, SInv, TypeOK, AffectedKnown, Retained, ReleaseLease, EndPass,
       OnlyPass, logVars, passVars, Rows, InPass
  <1>8. BatchKnown'
    BY <1>0 DEF IInv, SInv, TypeOK, BatchKnown, Retained, ReleaseLease, EndPass, OnlyPass,
       logVars, passVars, Rows
  <1>9. QED
    BY <1>1, <1>2, <1>3, <1>4, <1>5, <1>6, <1>7, <1>8 DEF IInv

LEMMA ReadCheckpointKeeps ==
    ASSUME Orderly, IInv, NEW p \in Procs, ReadCheckpoint(p)
    PROVE  IInv'
  <1>0. OnlyPass(p)
    BY OnlyOnePass DEF IInv, ReadCheckpoint, InPass
  <1>1. SInv'
    BY ReadCheckpointSerial DEF IInv, Orderly, Countable
  <1>2. WatermarkMatchesTables'
    BY <1>0 DEF IInv, SInv, TypeOK, WatermarkMatchesTables, Retained, ReadCheckpoint,
       OnlyPass, logVars, passVars, Rows
  <1>3. LogsArePrefix'
    BY <1>0 DEF IInv, SInv, LogsArePrefix, ReadCheckpoint, OnlyPass, logVars, passVars
  <1>4. WatermarkReached'
    BY <1>0 DEF IInv, SInv, TypeOK, WatermarkReached, ReadCheckpoint, OnlyPass, logVars,
       passVars, Rows
  <1>5. RequestBehind'
    BY <1>0 DEF IInv, SInv, TypeOK, RequestAlone, RequestBehind, InPass, ReadCheckpoint,
       OnlyPass,
       logVars, passVars, Rows
  <1>6. RecomputeBehind'
    BY <1>0 DEF IInv, SInv, TypeOK, RecomputeBehind, ReadCheckpoint, OnlyPass, logVars,
       passVars, Rows
  <1>7. AffectedKnown'
    BY <1>0 DEF IInv, SInv, TypeOK, AffectedKnown, Retained, ReadCheckpoint, OnlyPass,
       logVars, passVars, Rows
  <1>8. BatchKnown'
    BY <1>0 DEF IInv, SInv, TypeOK, BatchKnown, Retained, ReadCheckpoint, OnlyPass,
       logVars, passVars, Rows
  <1>9. QED
    BY <1>1, <1>2, <1>3, <1>4, <1>5, <1>6, <1>7, <1>8 DEF IInv

LEMMA ReadAffectedLogKeeps ==
    ASSUME Orderly, IInv, NEW p \in Procs, ReadAffectedLog(p)
    PROVE  IInv'
  <1>0. OnlyPass(p)
    BY OnlyOnePass DEF IInv, ReadAffectedLog, InPass
  <1>1. SInv'
    BY ReadAffectedLogSerial DEF IInv, Orderly, Countable
  <1>2. WatermarkMatchesTables'
    BY <1>0 DEF IInv, SInv, TypeOK, WatermarkMatchesTables, Retained, ReadAffectedLog,
       OnlyPass, logVars, passVars
  <1>3. LogsArePrefix'
    BY <1>0 DEF IInv, SInv, LogsArePrefix, ReadAffectedLog, OnlyPass, logVars, passVars
  <1>4. WatermarkReached'
    BY <1>0 DEF IInv, SInv, TypeOK, WatermarkReached, ReadAffectedLog, OnlyPass, logVars,
       passVars
  <1>5. RequestBehind'
    BY <1>0 DEF IInv, SInv, TypeOK, RequestAlone, RequestBehind, InPass, ReadAffectedLog,
       OnlyPass,
       logVars, passVars
  <1>6. RecomputeBehind'
    BY <1>0 DEF IInv, SInv, TypeOK, RecomputeBehind, ReadAffectedLog, OnlyPass, logVars,
       passVars
  <1>7. AffectedKnown'
    <2>1. CASE Requested(p) = {}
      BY <1>0, <2>1
      DEF IInv, SInv, TypeOK, AffectedKnown, ReadAffectedLog, Retained, OnlyPass, IsFirst,
         logVars
    <2>2. CASE \E i \in Retained : IsFirst(i, Requested(p))
      <3>1. PICK a \in Retained :
                /\ IsFirst(a, Requested(p))
                /\ found' = [found EXCEPT ![p] = {a}]
                /\ bound' = [bound EXCEPT ![p] = a]
                /\ pc' = [pc EXCEPT ![p] = "restart"]
        BY <2>2 DEF ReadAffectedLog, IsFirst
      <3>2. ASSUME NEW i \in Retained, i < a
            PROVE  i < row.recompute
        <4>1. i \in LogIds /\ a \in LogIds /\ row.recompute \in 0..MaxLog
          BY DEF IInv, SInv, TypeOK, Retained, Rows
        <4>2. i \notin Requested(p)
          BY <3>1, <3>2, <4>1 DEF IsFirst, LogIds
        <4>3. copy[p] = row
          BY <1>0 DEF OnlyPass, ReadAffectedLog
        <4>4. QED
          BY <4>1, <4>2, <4>3 DEF Requested, LogIds
      <3>3. QED
        BY <1>0, <3>1, <3>2
        DEF IInv, SInv, TypeOK, AffectedKnown, ReadAffectedLog, Retained, OnlyPass,
           logVars
    <2>3. QED
      BY <2>1, <2>2 DEF ReadAffectedLog
  <1>8. BatchKnown'
    BY <1>0 DEF IInv, SInv, TypeOK, BatchKnown, Retained, ReadAffectedLog, OnlyPass,
       logVars, passVars
  <1>9. QED
    BY <1>1, <1>2, <1>3, <1>4, <1>5, <1>6, <1>7, <1>8 DEF IInv

LEMMA ReadRestartLogKeeps ==
    ASSUME Orderly, IInv, NEW p \in Procs, ReadRestartLog(p)
    PROVE  IInv'
  <1>0. OnlyPass(p)
    BY OnlyOnePass DEF IInv, ReadRestartLog, InPass
  <1>1. SInv'
    BY ReadRestartLogSerial DEF IInv, Orderly, Countable
  <1>2. WatermarkMatchesTables'
    BY <1>0 DEF IInv, SInv, TypeOK, WatermarkMatchesTables, Retained, ReadRestartLog,
       OnlyPass, logVars, passVars
  <1>3. LogsArePrefix'
    BY <1>0 DEF IInv, SInv, LogsArePrefix, ReadRestartLog, OnlyPass, logVars, passVars
  <1>4. WatermarkReached'
    BY <1>0 DEF IInv, SInv, TypeOK, WatermarkReached, ReadRestartLog, OnlyPass, logVars,
       passVars
  <1>5. RequestBehind'
    BY <1>0 DEF IInv, SInv, TypeOK, RequestAlone, RequestBehind, InPass, ReadRestartLog,
       OnlyPass,
       logVars, passVars
  <1>6. RecomputeBehind'
    BY <1>0 DEF IInv, SInv, TypeOK, RecomputeBehind, ReadRestartLog, OnlyPass, logVars,
       passVars
  <1>7. AffectedKnown'
    <2>1. PICK a \in found[p] : found[p] = {a} /\ a \in logs /\ bound[p] = a
      BY DEF IInv, AffectedKnown, ReadRestartLog
    <2>2. /\ bound'[p] \in logs
          /\ DayOf[bound'[p]] >= DayOf[a]
          /\ \A i \in Retained : i < bound'[p] => DayOf[i] < DayOf[a]
      <3>1. CASE FromAffectedDay(p) = {}
        <4>1. bound'[p] = a
          BY <2>1, <3>1 DEF ReadRestartLog, IsFirst
        <4>2. \A i \in Retained : DayOf[i] < DayOf[a]
          BY <2>1, <3>1, ProjectionAssumption
          DEF IInv, SInv, TypeOK, FromAffectedDay, Retained
        <4>3. QED
          BY <2>1, <4>1, <4>2, ProjectionAssumption DEF IInv, SInv, TypeOK
      <3>2. CASE \E i \in Retained :
                    /\ IsFirst(i, FromAffectedDay(p))
                    /\ bound' = [bound EXCEPT ![p] = i]
        <4>1. PICK i \in Retained : IsFirst(i, FromAffectedDay(p)) /\ bound'[p] = i
          BY <3>2 DEF IInv, SInv, TypeOK
        <4>2. DayOf[i] >= DayOf[a]
          BY <2>1, <4>1 DEF IsFirst, FromAffectedDay
        <4>3. ASSUME NEW j \in Retained, j < i
              PROVE  DayOf[j] < DayOf[a]
          <5>1. j \in LogIds /\ i \in LogIds /\ a \in LogIds
            BY <2>1 DEF IInv, SInv, TypeOK, Retained
          <5>2. j \notin FromAffectedDay(p)
            BY <4>1, <4>3, <5>1 DEF IsFirst, LogIds
          <5>3. ~(DayOf[j] >= DayOf[a])
            BY <2>1, <5>2 DEF FromAffectedDay
          <5>4. QED
            BY <5>1, <5>3, ProjectionAssumption
        <4>4. QED
          BY <4>1, <4>2, <4>3 DEF Retained
      <3>3. QED
        BY <3>1, <3>2 DEF ReadRestartLog
    <2>3. \A i \in Retained : i < a => i < row.recompute
      BY <2>1 DEF IInv, AffectedKnown, ReadRestartLog
    <2>4. QED
      BY <1>0, <2>1, <2>2, <2>3
      DEF IInv, SInv, TypeOK, AffectedKnown, ReadRestartLog, Retained, OnlyPass, logVars
  <1>8. BatchKnown'
    BY <1>0 DEF IInv, SInv, TypeOK, BatchKnown, Retained, ReadRestartLog, OnlyPass,
       logVars, passVars
  <1>9. QED
    BY <1>1, <1>2, <1>3, <1>4, <1>5, <1>6, <1>7, <1>8 DEF IInv

LEMMA ApplyRecomputeKeeps ==
    ASSUME Orderly, IInv, NEW p \in Procs, ApplyRecompute(p)
    PROVE  IInv'
  <1>0. OnlyPass(p)
    BY OnlyOnePass DEF IInv, ApplyRecompute, InPass
  <1>1. SInv'
    BY ApplyRecomputeSerial DEF IInv, Orderly, Countable
  <1>2. WatermarkMatchesTables'
    <2>0. DaysFollowIds
      BY DEF Orderly, Countable, IInv, SInv, NothingRequested, ApplyRecompute
    <2>1. CASE found[p] = {}
      BY <1>0, <2>1
      DEF IInv, SInv, TypeOK, WatermarkMatchesTables, ApplyRecompute, OnlyPass, Retained,
         Rows, logVars
    <2>2. CASE found[p] # {}
      <3>1. PICK a \in found[p] : found[p] = {a}
        BY <2>2 DEF IInv, AffectedKnown, ApplyRecompute
      <3>2. a \in LogIds /\ bound[p] \in LogIds
        BY <3>1 DEF IInv, SInv, TypeOK, AffectedKnown, ApplyRecompute
      <3>3. /\ row'.last = bound[p] - 1
            /\ counted' = [i \in LogIds |-> IF DayOf[i] >= DayOf[a] THEN 0 ELSE counted[i]]
            /\ Retained' = Retained
        BY <1>0, <3>1 DEF ApplyRecompute, OnlyPass, IInv, TypeOK, Rows, Retained,
           logVars
      <3>4. ASSUME NEW i \in Retained, i < bound[p]
            PROVE  counted'[i] = 1
        <4>1. i \in LogIds /\ DayOf[i] \in Nat /\ DayOf[a] \in Nat
          BY <3>2, ProjectionAssumption DEF IInv, SInv, TypeOK, Retained
        <4>2. DayOf[i] < DayOf[a]
          BY <3>1, <3>4 DEF IInv, AffectedKnown, ApplyRecompute
        <4>3. i < a
          BY <2>0, <3>2, <4>1, <4>2, DaysOrdered
        <4>4. i < row.recompute
          BY <3>1, <3>4, <4>3 DEF IInv, AffectedKnown, ApplyRecompute
        <4>5. i <= row.last
          BY <4>1, <4>4 DEF IInv, SInv, TypeOK, RecomputeBehind, Rows, LogIds
        <4>6. counted[i] = 1
          BY <4>1, <4>5 DEF IInv, WatermarkMatchesTables
        <4>7. QED
          BY <3>3, <4>1, <4>2, <4>6
      <3>5. ASSUME NEW i \in LogIds, i >= bound[p]
            PROVE  counted'[i] = 0
        <4>1. DayOf[bound[p]] >= DayOf[a]
          BY <3>1 DEF IInv, AffectedKnown, ApplyRecompute
        <4>2. DayOf[i] >= DayOf[bound[p]]
          BY <2>0, <3>2, <3>5, DaysOrdered
        <4>3. DayOf[i] >= DayOf[a]
          BY <3>2, <4>1, <4>2, ProjectionAssumption
        <4>4. QED
          BY <3>3, <4>3
      <3>6. Retained \subseteq LogIds
        BY DEF IInv, SInv, TypeOK, Retained
      <3>7. QED
        BY <3>2, <3>3, <3>4, <3>5, <3>6 DEF WatermarkMatchesTables, LogIds
    <2>3. QED
      BY <2>1, <2>2
  <1>3. LogsArePrefix'
    BY <1>0 DEF IInv, SInv, LogsArePrefix, ApplyRecompute, OnlyPass, logVars, passVars
  <1>4. WatermarkReached'
    BY <1>0 DEF IInv, SInv, TypeOK, WatermarkReached, ApplyRecompute, OnlyPass, logVars,
       passVars, AffectedKnown, LogsArePrefix, LogIds, Rows
  <1>5. RequestBehind'
    BY <1>0 DEF IInv, SInv, TypeOK, RequestAlone, RequestBehind, InPass, ApplyRecompute,
       OnlyPass,
       logVars, passVars, Rows
  <1>6. RecomputeBehind'
    BY <1>0 DEF IInv, SInv, TypeOK, RecomputeBehind, ApplyRecompute, OnlyPass, logVars,
       passVars, Rows
  <1>7. AffectedKnown'
    BY <1>0 DEF IInv, SInv, TypeOK, AffectedKnown, Retained, ApplyRecompute, OnlyPass,
       logVars, passVars, Rows
  <1>8. BatchKnown'
    BY <1>0 DEF IInv, SInv, TypeOK, BatchKnown, Retained, ApplyRecompute, OnlyPass,
       logVars, passVars, Rows
  <1>9. QED
    BY <1>1, <1>2, <1>3, <1>4, <1>5, <1>6, <1>7, <1>8 DEF IInv

LEMMA FetchBatchKeeps ==
    ASSUME Orderly, IInv, NEW p \in Procs, FetchBatch(p)
    PROVE  IInv'
  <1>0. OnlyPass(p)
    BY OnlyOnePass DEF IInv, FetchBatch, InPass
  <1>1. SInv'
    BY FetchBatchSerial DEF IInv, Orderly, Countable
  <1>2. WatermarkMatchesTables'
    BY <1>0 DEF IInv, SInv, TypeOK, WatermarkMatchesTables, Retained, FetchBatch,
       OnlyPass, logVars, passVars
  <1>3. LogsArePrefix'
    BY <1>0 DEF IInv, SInv, LogsArePrefix, FetchBatch, OnlyPass, logVars, passVars
  <1>4. WatermarkReached'
    BY <1>0 DEF IInv, SInv, TypeOK, WatermarkReached, FetchBatch, OnlyPass, logVars,
       passVars
  <1>5. RequestBehind'
    BY <1>0 DEF IInv, SInv, TypeOK, RequestAlone, RequestBehind, InPass, FetchBatch, OnlyPass,
       logVars,
       passVars
  <1>6. RecomputeBehind'
    BY <1>0 DEF IInv, SInv, TypeOK, RecomputeBehind, FetchBatch, OnlyPass, logVars,
       passVars
  <1>7. AffectedKnown'
    BY <1>0 DEF IInv, SInv, TypeOK, AffectedKnown, Retained, FetchBatch, OnlyPass,
       logVars, passVars
  <1>8. BatchKnown'
    BY <1>0 DEF IInv, SInv, TypeOK, BatchKnown, Retained, FetchBatch, OnlyPass, logVars,
       passVars, IsBatch, LogIds, Rows
  <1>9. QED
    BY <1>1, <1>2, <1>3, <1>4, <1>5, <1>6, <1>7, <1>8 DEF IInv

LEMMA ApplyBatchKeeps ==
    ASSUME Orderly, IInv, NEW p \in Procs, ApplyBatch(p)
    PROVE  IInv'
  <1>0. OnlyPass(p)
    BY OnlyOnePass DEF IInv, ApplyBatch, InPass
  <1>1. SInv'
    BY ApplyBatchSerial DEF IInv, Orderly, Countable
  <1>2. WatermarkMatchesTables'
    BY <1>0 DEF IInv, SInv, TypeOK, WatermarkMatchesTables, Retained, ApplyBatch,
       OnlyPass, logVars, passVars, BatchKnown, LogIds, Rows
  <1>3. LogsArePrefix'
    BY <1>0 DEF IInv, SInv, LogsArePrefix, ApplyBatch, OnlyPass, logVars, passVars
  <1>4. WatermarkReached'
    BY <1>0 DEF IInv, SInv, TypeOK, WatermarkReached, ApplyBatch, OnlyPass, logVars,
       passVars, BatchKnown, LogsArePrefix, LogIds, Rows
  <1>5. RequestBehind'
    BY <1>0 DEF IInv, SInv, TypeOK, RequestAlone, RequestBehind, InPass, ApplyBatch, OnlyPass,
       logVars,
       passVars, Rows
  <1>6. RecomputeBehind'
    BY <1>0 DEF IInv, SInv, TypeOK, RecomputeBehind, ApplyBatch, OnlyPass, logVars,
       passVars, Rows
  <1>7. AffectedKnown'
    BY <1>0 DEF IInv, SInv, TypeOK, AffectedKnown, Retained, ApplyBatch, OnlyPass,
       logVars, passVars, Rows
  <1>8. BatchKnown'
    BY <1>0 DEF IInv, SInv, TypeOK, BatchKnown, Retained, ApplyBatch, OnlyPass, logVars,
       passVars, Rows
  <1>9. QED
    BY <1>1, <1>2, <1>3, <1>4, <1>5, <1>6, <1>7, <1>8 DEF IInv

LEMMA StatementFailsKeeps ==
    ASSUME Orderly, IInv, NEW p \in Procs, StatementFails(p)
    PROVE  IInv'
  <1>0. OnlyPass(p)
    BY OnlyOnePass DEF IInv, StatementFails, InPass
  <1>1. SInv'
    BY StatementFailsSerial DEF IInv, Orderly, Countable
  <1>2. WatermarkMatchesTables'
    BY <1>0 DEF IInv, SInv, TypeOK, WatermarkMatchesTables, Retained, StatementFails,
       OnlyPass, logVars, passVars
  <1>3. LogsArePrefix'
    BY <1>0 DEF IInv, SInv, LogsArePrefix, StatementFails, OnlyPass, logVars, passVars
  <1>4. WatermarkReached'
    BY <1>0 DEF IInv, SInv, TypeOK, WatermarkReached, StatementFails, OnlyPass, logVars,
       passVars
  <1>5. RequestBehind'
    BY <1>0 DEF IInv, SInv, TypeOK, RequestAlone, RequestBehind, InPass, StatementFails,
       OnlyPass,
       logVars, passVars
  <1>6. RecomputeBehind'
    BY <1>0 DEF IInv, SInv, TypeOK, RecomputeBehind, StatementFails, OnlyPass, logVars,
       passVars
  <1>7. AffectedKnown'
    BY <1>0 DEF IInv, SInv, TypeOK, AffectedKnown, Retained, StatementFails, OnlyPass,
       logVars, passVars
  <1>8. BatchKnown'
    BY <1>0 DEF IInv, SInv, TypeOK, BatchKnown, Retained, StatementFails, OnlyPass,
       logVars, passVars
  <1>9. QED
    BY <1>1, <1>2, <1>3, <1>4, <1>5, <1>6, <1>7, <1>8 DEF IInv

LEMMA AbandonPassKeeps ==
    ASSUME Orderly, IInv, NEW p \in Procs, AbandonPass(p)
    PROVE  IInv'
  <1>0. OnlyPass(p)
    BY OnlyOnePass DEF IInv, AbandonPass, InPass
  <1>1. SInv'
    BY AbandonPassSerial DEF IInv, Orderly, Countable
  <1>2. WatermarkMatchesTables'
    BY <1>0 DEF IInv, SInv, TypeOK, WatermarkMatchesTables, Retained, AbandonPass,
       EndPass, OnlyPass, logVars, passVars
  <1>3. LogsArePrefix'
    BY <1>0 DEF IInv, SInv, LogsArePrefix, AbandonPass, EndPass, OnlyPass, logVars,
       passVars
  <1>4. WatermarkReached'
    BY <1>0 DEF IInv, SInv, TypeOK, WatermarkReached, AbandonPass, EndPass, OnlyPass,
       logVars, passVars
  <1>5. RequestBehind'
    BY <1>0 DEF IInv, SInv, TypeOK, RequestAlone, RequestBehind, InPass, AbandonPass, EndPass,
       OnlyPass,
       logVars, passVars
  <1>6. RecomputeBehind'
    BY <1>0 DEF IInv, SInv, TypeOK, RecomputeBehind, AbandonPass, EndPass, OnlyPass,
       logVars, passVars
  <1>7. AffectedKnown'
    BY <1>0 DEF IInv, SInv, TypeOK, AffectedKnown, Retained, AbandonPass, EndPass,
       OnlyPass, logVars, passVars, InPass
  <1>8. BatchKnown'
    BY <1>0 DEF IInv, SInv, TypeOK, BatchKnown, Retained, AbandonPass, EndPass, OnlyPass,
       logVars, passVars
  <1>9. QED
    BY <1>1, <1>2, <1>3, <1>4, <1>5, <1>6, <1>7, <1>8 DEF IInv

(***************************************************************************)
(* The invariant holds                                                     *)
(***************************************************************************)

LEMMA InitInv == Init => IInv
  <1>. SUFFICES ASSUME Init PROVE IInv
    OBVIOUS
  <1>1. SInv
    BY InitSerial
  <1>2. WatermarkMatchesTables /\ LogsArePrefix /\ WatermarkReached
    BY DEF Init, WatermarkMatchesTables, LogsArePrefix, WatermarkReached, Retained, EmptyRow,
       LogIds
  <1>3. RequestBehind /\ RecomputeBehind /\ AffectedKnown /\ BatchKnown
    BY DEF Init, RequestBehind, RecomputeBehind, AffectedKnown, BatchKnown, NoRequest, EmptyRow
  <1>. QED
    BY <1>1, <1>2, <1>3 DEF IInv

LEMMA NextInv == Orderly /\ IInv /\ [Next]_vars => IInv'
  <1>1. SUFFICES ASSUME Orderly, IInv, [Next]_vars
                 PROVE  IInv'
    OBVIOUS
  <1>2. CASE \E i \in LogIds : LogArrives(i) \/ ReadForRequest(i)
    BY <1>1, <1>2, LogArrivesKeeps, ReadForRequestKeeps
  <1>3. CASE \E i \in LogIds : CleanUpLogs(CreatedAt[i] + 1)
    BY <1>1, <1>3, CleanUpLogsKeeps
  <1>4. CASE WriteRequest \/ LeaseExpires
    BY <1>1, <1>4, WriteRequestKeeps, LeaseExpiresKeeps
  <1>5. ASSUME NEW p \in Procs,
               AcquireLease(p) \/ PassStep(p) \/ StatementFails(p) \/ AbandonPass(p)
        PROVE  IInv'
    BY <1>1, <1>5, AcquireLeaseKeeps, ReadCheckpointKeeps, ReadAffectedLogKeeps,
       ReadRestartLogKeeps, ApplyRecomputeKeeps, FetchBatchKeeps, ApplyBatchKeeps,
       ReleaseLeaseKeeps, StatementFailsKeeps, AbandonPassKeeps DEF PassStep
  <1>6. CASE UNCHANGED vars
    <2>1. SInv'
      BY <1>1, <1>6, NextSerial DEF IInv, Orderly, Countable
    <2>. QED
      BY <1>1, <1>6, <2>1
      DEF IInv, vars, logVars, passVars, WatermarkMatchesTables, LogsArePrefix,
          WatermarkReached,
          RequestBehind, RecomputeBehind, AffectedKnown, BatchKnown, InPass, Retained
  <1>7. QED
    BY <1>1, <1>2, <1>3, <1>4, <1>5, <1>6 DEF Next

\* In an orderly environment the tables hold what lies behind the watermark
\* and nothing beyond it, so that any later pass goes on where the last ended.
THEOREM WatermarkExact ==
    ASSUME Orderly
    PROVE  Spec => []WatermarkMatchesTables
  <1>1. IInv /\ [Next]_vars => IInv'
    BY NextInv
  <1>2. IInv => WatermarkMatchesTables
    BY DEF IInv
  <1>3. QED
    BY InitInv, <1>1, <1>2, PTL DEF Spec

-----------------------------------------------------------------------------
(***************************************************************************)
(* The projection implements UsageLedger                                   *)
(***************************************************************************)

LEMMA InitLedger == Init => Ledger!LedgerInit
  BY DEF Init, Retained, Ledger!LedgerInit

\* A batch continues the ledger: it lies beyond the watermark, and all that exists
\* and precedes it is in the batch or in the tables.
LEMMA BatchPosts ==
    ASSUME IInv, NEW p \in Procs, ApplyBatch(p)
    PROVE  found[p] \in SUBSET LogIds /\ Ledger!Post(found[p])
  <1>1. pc[p] = "apply" /\ found[p] \in SUBSET LogIds /\ counted \in [LogIds -> Nat]
    BY DEF ApplyBatch, IInv, SInv, TypeOK
  <1>2. /\ bound[p] \in LogIds /\ row.last \in Nat
        /\ \A i \in found[p] : row.last < i /\ i <= bound[p]
        /\ \A i \in Retained : row.last < i /\ i <= bound[p] => i \in found[p]
    BY <1>1 DEF IInv, SInv, BatchKnown, TypeOK, Rows
  <1>3. \A i \in found[p] : counted[i] = 0
    BY <1>1, <1>2 DEF IInv, WatermarkMatchesTables, LogIds
  <1>4. ASSUME NEW i \in found[p], NEW j \in Retained, j < i
        PROVE  j \in found[p] \/ counted[j] = 1
    <2>1. i \in LogIds /\ j \in LogIds /\ j <= bound[p]
      BY <1>1, <1>2, <1>4 DEF Retained, IInv, SInv, TypeOK, LogIds
    <2>2. CASE row.last < j
      BY <1>2, <2>1, <2>2
    <2>3. CASE j <= row.last
      BY <2>1, <2>3 DEF IInv, WatermarkMatchesTables
    <2>. QED  BY <1>2, <2>1, <2>2, <2>3 DEF LogIds
  <1>5. counted' = [i \in LogIds |-> IF i \in found[p] THEN 1 ELSE counted[i]]
    BY <1>3 DEF ApplyBatch
  <1>6. Retained' = Retained
    BY DEF ApplyBatch, logVars, Retained
  <1>. QED  BY <1>1, <1>3, <1>4, <1>5, <1>6 DEF Ledger!Post

\* A recompute erases the days from that of the affected log on, or nothing.
LEMMA RecomputeRetracts ==
    ASSUME IInv, NEW p \in Procs, ApplyRecompute(p)
    PROVE  \/ UNCHANGED <<Retained, counted>>
           \/ \E i \in LogIds : Ledger!Retract(DayOf[i])
  <1>1. Retained' = Retained
    BY DEF ApplyRecompute, logVars, Retained
  <1>2. CASE found[p] = {}
    BY <1>1, <1>2 DEF ApplyRecompute, IInv, SInv, TypeOK
  <1>3. ASSUME NEW a \in found[p]
        PROVE  \E i \in LogIds : Ledger!Retract(DayOf[i])
    <2>1. found[p] = {a} /\ a \in LogIds
      BY <1>3 DEF ApplyRecompute, IInv, SInv, AffectedKnown, TypeOK
    <2>. QED  BY <1>1, <2>1 DEF ApplyRecompute, Ledger!Retract
  <1>. QED  BY <1>2, <1>3

LEMMA NextLedger == IInv /\ [Next]_vars => [Ledger!LedgerNext]_(Ledger!ledgerVars)
  <1>. SUFFICES ASSUME IInv, [Next]_vars PROVE [Ledger!LedgerNext]_(Ledger!ledgerVars)
    OBVIOUS
  <1>1. ASSUME UNCHANGED <<logs, deleted, counted>> PROVE UNCHANGED Ledger!ledgerVars
    BY <1>1 DEF Retained, Ledger!ledgerVars
  <1>2. ASSUME NEW i \in LogIds, LogArrives(i) PROVE Ledger!Arrive(i)
    BY <1>2 DEF LogArrives, IInv, SInv, TypeOK, Retained, Ledger!Arrive
  <1>3. ASSUME NEW cutoff, CleanUpLogs(cutoff)
        PROVE  \E ids \in SUBSET LogIds : Ledger!Remove(ids)
    <2>1. {i \in logs : CreatedAt[i] < cutoff} \in SUBSET LogIds
      BY DEF IInv, SInv, TypeOK
    <2>2. Ledger!Remove({i \in logs : CreatedAt[i] < cutoff})
      BY <1>3 DEF CleanUpLogs, Retained, Ledger!Remove
    <2>. QED  BY <2>1, <2>2
  <1>4. ASSUME NEW p \in Procs, ApplyBatch(p) PROVE Ledger!LedgerNext
    BY <1>4, BatchPosts DEF Ledger!LedgerNext
  <1>5. ASSUME NEW p \in Procs, ApplyRecompute(p)
        PROVE  [Ledger!LedgerNext]_(Ledger!ledgerVars)
    BY <1>5, RecomputeRetracts DEF Ledger!LedgerNext, Ledger!ledgerVars
  <1>6. ASSUME NEW p \in Procs,
               \/ AcquireLease(p) \/ ReadCheckpoint(p) \/ ReadAffectedLog(p) \/ ReadRestartLog(p)
               \/ FetchBatch(p) \/ ReleaseLease(p) \/ StatementFails(p) \/ AbandonPass(p)
        PROVE  UNCHANGED <<logs, deleted, counted>>
    BY <1>6 DEF AcquireLease, ReadCheckpoint, ReadAffectedLog, ReadRestartLog, FetchBatch,
                ReleaseLease, StatementFails, AbandonPass, logVars
  <1>7. ASSUME NEW i \in LogIds, ReadForRequest(i) PROVE UNCHANGED <<logs, deleted, counted>>
    BY <1>7 DEF ReadForRequest, logVars
  <1>8. ASSUME WriteRequest \/ LeaseExpires \/ UNCHANGED vars
        PROVE  UNCHANGED <<logs, deleted, counted>>
    BY <1>8 DEF WriteRequest, LeaseExpires, vars, logVars
  <1>. QED  BY <1>1, <1>2, <1>3, <1>4, <1>5, <1>6, <1>7, <1>8
            DEF Next, PassStep, Ledger!LedgerNext

\* In an orderly environment the usage tables are the ledger their readers expect:
\* every transaction of a pass posts a run of logs that continues it or retracts its
\* last days, and whatever else happens (leases, crashes, cleanups, requests) posts
\* nothing.
THEOREM ProjectionKeepsLedger ==
    ASSUME Orderly
    PROVE  Spec => ImplementsLedger
  <1>1. IInv /\ [Next]_vars => IInv'
    BY NextInv
  <1>2. QED
    BY InitInv, InitLedger, NextLedger, <1>1, PTL
       DEF Spec, ImplementsLedger, Ledger!LedgerSpec
=============================================================================
