------------------------- MODULE ChannelFailoverProofs -------------------------
(***************************************************************************)
(* What the retry loop guarantees for any number of requests, sessions,    *)
(* channels and pools, and under any behaviour of the upstreams.           *)
(*                                                                         *)
(* Four invariants, one on top of the other. LoopInv follows one request   *)
(* through its loop: how many attempts it may have made at each stage,     *)
(* which is what makes the bound on them inductive, and what it may lease. *)
(* StateInv adds the tables it shares with the others, and with that the   *)
(* types. Where no connection dies under a response, StreamInv says what   *)
(* a response that has begun excludes, and the loop keeps its contract.    *)
(* Where a channel and its account are one, ServedInv and BlameInv say who *)
(* is charged for what. RestInv says which members of a pool are avoided,  *)
(* and StepsLeft counts a request's loop down to its end.                  *)
(***************************************************************************)
EXTENDS ChannelFailover, FiniteSetTheorems, WellFoundedInduction, TLAPS

\* Where a request stands in its loop and what it holds.
Shape ==
    /\ pc \in [Requests -> Stages]
    /\ tried \in [Requests -> Seq(Attempt)]
    /\ lease \in [Requests -> Channels \cup {NoChannel}]
    /\ result \in [Requests -> Results]

\* A request that is about to select has an attempt left; a pinned one has
\* made none.
Budget(r) ==
    /\ Len(tried[r]) <= MaxAttempts
    /\ pc[r] = "select" => Len(tried[r]) < MaxAttempts
    /\ pc[r] = "refresh" => tried[r] = << >>
    /\ pc[r] \in {"lease", "exchange", "charge"} => tried[r] # << >>
    /\ ForcedChannel[r] # NoChannel =>
          Len(tried[r]) <= 1 /\ (pc[r] = "select" => tried[r] = << >>)

\* Only pools occur twice among the attempts.
NoRepeat(r) ==
    \A i, j \in 1..Len(tried[r]) :
        i < j /\ tried[r][i].channel = tried[r][j].channel => tried[r][i].channel \in Units

\* A slot is held during the exchange and the booking of its outcome only.
Holds(r) ==
    lease[r] # NoChannel =>
        pc[r] \in {"exchange", "charge"} /\ lease[r] = Current(r).channel

\* How a finished request ended.
Ending(r) ==
    /\ pc[r] # "done" => result[r] = "pending"
    /\ result[r] \in {"failed", "busy"} /\ ForcedChannel[r] = NoChannel
          => Len(tried[r]) >= MaxAttempts

LoopInv ==
    /\ Shape
    /\ \A r \in Requests : Budget(r) /\ NoRepeat(r) /\ Holds(r) /\ Ending(r)

-----------------------------------------------------------------------------
(* One request moves; the others stay where they are *)

OnlyMoves(r) ==
    \A q \in Requests \ {r} :
        pc'[q] = pc[q] /\ lease'[q] = lease[q] /\ result'[q] = result[q]

\* A step of r alone that keeps what r has tried.
LEMMA StayKeeps ==
    ASSUME LoopInv, NEW r \in Requests, Shape', UNCHANGED tried, OnlyMoves(r),
           Budget(r)', Holds(r)', Ending(r)'
    PROVE  LoopInv'
  <1>1. ASSUME NEW q \in Requests, q # r
        PROVE  Budget(q)' /\ NoRepeat(q)' /\ Holds(q)' /\ Ending(q)'
    BY <1>1 DEF OnlyMoves, LoopInv, Budget, NoRepeat, Holds, Ending, Current
  <1>2. NoRepeat(r)'
    BY DEF LoopInv, NoRepeat
  <1>. QED  BY <1>1, <1>2 DEF LoopInv

\* What Pick does to the request.
Adds(r, a) ==
    /\ tried' = [tried EXCEPT ![r] = Append(@, a)]
    /\ pc' = [pc EXCEPT ![r] = "lease"]
    /\ UNCHANGED result

\* A selection: one more attempt, on a channel that is new or a pool.
LEMMA PickKeeps ==
    ASSUME LoopInv, NEW r \in Requests, NEW a \in Attempt,
           pc[r] \in {"select", "refresh"},
           a.channel \in Units \/ a.channel \notin Tried(r),
           Adds(r, a), UNCHANGED lease
    PROVE  LoopInv'
  <1>. USE FailoverAssumption
  <1>1. /\ tried' = [tried EXCEPT ![r] = Append(tried[r], a)]
        /\ pc' = [pc EXCEPT ![r] = "lease"]
        /\ result' = result
    BY DEF Adds, LoopInv, Shape
  <1>2. tried[r] \in Seq(Attempt) /\ Len(tried[r]) \in Nat
    BY DEF LoopInv, Shape
  <1>3. Shape'
    BY <1>1, <1>2 DEF LoopInv, Shape, Stages
  <1>4. /\ tried'[r] = Append(tried[r], a)
        /\ pc'[r] = "lease"
        /\ lease[r] = NoChannel
        /\ result[r] = "pending"
    BY <1>1 DEF LoopInv, Shape, Holds, Ending
  <1>5. Len(tried'[r]) = Len(tried[r]) + 1
    BY <1>2, <1>4
  <1>6. Budget(r)'
    <2>1. Len(tried[r]) < MaxAttempts
      BY <1>2 DEF LoopInv, Budget
    <2>2. ForcedChannel[r] # NoChannel => tried[r] = << >>
      BY DEF LoopInv, Budget
    <2>3. tried'[r] # << >>
      BY <1>2, <1>5
    <2>. QED  BY <1>2, <1>4, <1>5, <2>1, <2>2, <2>3 DEF Budget
  <1>7. NoRepeat(r)'
    <2>. SUFFICES ASSUME NEW i \in 1..Len(tried'[r]), NEW j \in 1..Len(tried'[r]),
                         i < j, tried'[r][i].channel = tried'[r][j].channel
                  PROVE  tried'[r][i].channel \in Units
      BY DEF NoRepeat
    <2>1. i \in 1..Len(tried[r]) /\ tried'[r][i] = tried[r][i]
      BY <1>2, <1>4, <1>5
    <2>2. CASE j = Len(tried[r]) + 1
      <3>1. tried'[r][j] = a
        BY <1>2, <1>4, <2>2
      <3>2. tried[r][i].channel \in Tried(r)
        BY <2>1 DEF Tried
      <3>. QED  BY <2>1, <3>1, <3>2
    <2>3. CASE j # Len(tried[r]) + 1
      <3>1. j \in 1..Len(tried[r]) /\ tried'[r][j] = tried[r][j]
        BY <1>2, <1>4, <1>5, <2>3
      <3>. QED  BY <2>1, <3>1 DEF LoopInv, NoRepeat
    <2>. QED  BY <2>2, <2>3
  <1>8. Holds(r)' /\ Ending(r)'
    BY <1>1, <1>4 DEF Holds, Ending
  <1>9. ASSUME NEW q \in Requests, q # r
        PROVE  Budget(q)' /\ NoRepeat(q)' /\ Holds(q)' /\ Ending(q)'
    <2>1. pc'[q] = pc[q] /\ tried'[q] = tried[q]
      BY <1>1, <1>9 DEF LoopInv, Shape
    <2>. QED  BY <1>1, <2>1 DEF LoopInv, Budget, NoRepeat, Holds, Ending, Current
  <1>. QED  BY <1>3, <1>6, <1>7, <1>8, <1>9 DEF LoopInv

\* What selection offers is new to the request or a pool.
LEMMA OfferedIsFresh ==
    ASSUME NEW r \in Requests, NEW c \in Available(r)
    PROVE  c \in Units \/ c \notin Tried(r)
  BY DEF Available

\* Giving up a selection.
LEMMA RefuseKeeps ==
    ASSUME LoopInv, NEW r \in Requests, pc[r] \in {"select", "refresh"},
           Finish(r, "no_channel"), UNCHANGED <<tried, lease>>
    PROVE  LoopInv'
  <1>1. pc'[r] = "done" /\ result'[r] = "no_channel" /\ lease[r] = NoChannel
    BY DEF Finish, LoopInv, Shape, Holds
  <1>2. Budget(r)'
    BY <1>1 DEF LoopInv, Budget
  <1>3. Holds(r)' /\ Ending(r)'
    BY <1>1 DEF Holds, Ending
  <1>4. Shape' /\ OnlyMoves(r)
    BY DEF Finish, LoopInv, Shape, OnlyMoves, Stages, Results
  <1>. QED  BY <1>2, <1>3, <1>4, StayKeeps

-----------------------------------------------------------------------------
(* The actions of a request *)

LEMMA SelectKeeps ==
    ASSUME LoopInv, NEW r \in Requests, Select(r)
    PROVE  LoopInv'
  <1>1. \A a \in Choices(r) : a \in Attempt /\ a.channel \in Available(r)
    BY DEF Choices
  <1>2. \A c : \A a \in PreferredChoices(r, c) : a \in Attempt /\ a.channel \in Available(r)
    BY DEF PreferredChoices
  <1>3. ASSUME NEW a \in Attempt, a.channel \in Available(r),
               pc[r] \in {"select", "refresh"}, Adds(r, a), UNCHANGED lease
        PROVE  LoopInv'
    <2>1. a.channel \in Units \/ a.channel \notin Tried(r)
      BY <1>3, OfferedIsFresh
    <2>. QED  BY <1>3, <2>1, PickKeeps
  <1>4. ASSUME NEW c, FirstAttempt(r), pc[r] = "select", StartRefresh(r, c), UNCHANGED lease
        PROVE  LoopInv'
    <2>1. pc'[r] = "refresh" /\ lease[r] = NoChannel /\ result'[r] = "pending"
      BY <1>4 DEF StartRefresh, LoopInv, Shape, Holds, Ending
    <2>2. Budget(r)' /\ Holds(r)' /\ Ending(r)'
      BY <1>4, <2>1 DEF StartRefresh, FirstAttempt, LoopInv, Budget, Holds, Ending
    <2>3. Shape' /\ OnlyMoves(r)
      BY <1>4 DEF StartRefresh, LoopInv, Shape, OnlyMoves, Stages
    <2>. QED  BY <1>4, <2>2, <2>3, StayKeeps DEF StartRefresh
  <1>5. ASSUME NEW c, pc[r] \in {"select", "refresh"}, UNCHANGED lease,
               NEW a \in Choices(r) \cup PreferredChoices(r, c), Adds(r, a)
        PROVE  LoopInv'
    <2>1. a \in Attempt /\ a.channel \in Available(r)
      BY <1>1, <1>2
    <2>. QED  BY <1>3, <1>5, <2>1
  <1>6. \A a, mark : Pick(r, a, mark) => Adds(r, a)
    BY DEF Pick, Adds
  <1>7. CASE SelectForced(r)
    <2>1. pc[r] = "select" /\ UNCHANGED lease
      BY <1>7 DEF SelectForced
    <2>2. CASE \E a \in PreferredChoices(r, ForcedChannel[r]) : Adds(r, a)
      BY <1>5, <2>1, <2>2
    <2>3. CASE Finish(r, "no_channel") /\ UNCHANGED tried
      BY <2>1, <2>3, RefuseKeeps
    <2>. QED  BY <1>6, <1>7, <2>2, <2>3 DEF SelectForced
  <1>8. CASE SelectSticky(r)
    <2>1. pc[r] = "select" /\ FirstAttempt(r) /\ UNCHANGED lease
      BY <1>8 DEF SelectSticky
    <2>2. CASE StartRefresh(r, StickyOf(r))
      BY <1>4, <2>1, <2>2
    <2>3. CASE \E a \in PreferredChoices(r, StickyOf(r)) : Adds(r, a)
      BY <1>5, <2>1, <2>3
    <2>. QED  BY <1>6, <1>8, <2>2, <2>3 DEF SelectSticky
  <1>9. CASE SelectAny(r)
    <2>1. pc[r] = "select" /\ UNCHANGED lease
      BY <1>9 DEF SelectAny
    <2>2. CASE FirstAttempt(r) /\ StartRefresh(r, NoChannel)
      BY <1>4, <2>1, <2>2
    <2>3. CASE \E a \in Choices(r) : Adds(r, a)
      BY <1>1, <1>5, <2>1, <2>3
    <2>4. CASE Finish(r, "no_channel") /\ UNCHANGED tried
      BY <2>1, <2>4, RefuseKeeps
    <2>. QED  BY <1>6, <1>9, <2>2, <2>3, <2>4 DEF SelectAny
  <1>10. CASE AfterRefresh(r)
    <2>1. pc[r] = "refresh" /\ UNCHANGED lease
      BY <1>10 DEF AfterRefresh
    <2>2. CASE \E a \in PreferredChoices(r, aim[r]) : Adds(r, a)
      BY <1>5, <2>1, <2>2
    <2>3. CASE \E a \in Choices(r) : Adds(r, a)
      BY <1>5, <2>1, <2>3
    <2>4. CASE Finish(r, "no_channel") /\ UNCHANGED tried
      BY <2>1, <2>4, RefuseKeeps
    <2>. QED  BY <1>6, <1>10, <2>2, <2>3, <2>4 DEF AfterRefresh, PickAnyOrRefuse
  <1>. QED  BY <1>7, <1>8, <1>9, <1>10 DEF Select

LEMMA AcquireLeaseKeeps ==
    ASSUME LoopInv, NEW r \in Requests, AcquireLease(r)
    PROVE  LoopInv'
  <1>1. pc'[r] = "exchange" /\ UNCHANGED <<tried, result>> /\ lease[r] = NoChannel
    BY DEF AcquireLease, LoopInv, Shape, Holds
  <1>2. Current(r)' = Current(r) /\ Current(r).channel \in Channels
    <2>1. tried[r] \in Seq(Attempt) /\ tried[r] # << >>
      BY DEF AcquireLease, LoopInv, Shape, Budget
    <2>2. Current(r) \in Attempt
      BY <2>1 DEF Current
    <2>. QED  BY <1>1, <2>2 DEF Current, Attempt
  <1>3. lease'[r] \in {NoChannel, Current(r).channel}
    BY <1>1 DEF AcquireLease, LoopInv, Shape
  <1>4. Shape' /\ OnlyMoves(r)
    BY <1>1, <1>2 DEF AcquireLease, LoopInv, Shape, OnlyMoves, Stages
  <1>5. pc[r] = "lease" /\ tried'[r] = tried[r] /\ tried[r] # << >> /\ result'[r] = result[r]
    BY <1>1 DEF AcquireLease, LoopInv, Budget
  <1>6. Budget(r)'
    BY <1>1, <1>5 DEF LoopInv, Budget
  <1>7. Holds(r)' /\ Ending(r)'
    BY <1>1, <1>2, <1>3, <1>5 DEF LoopInv, Holds, Ending
  <1>. QED  BY <1>1, <1>4, <1>6, <1>7, StayKeeps

\* Going on to the next attempt, or ending without one.
LEMMA RetryKeeps ==
    ASSUME LoopInv, NEW r \in Requests, NEW how \in Results,
           pc[r] \in {"lease", "charge"}, lease'[r] = NoChannel, UNCHANGED tried,
           lease' \in {lease, [lease EXCEPT ![r] = NoChannel]},
           \/ RetryOrFinish(r, how)
           \/ how \in {"rejected", "cut"} /\ Finish(r, how)
    PROVE  LoopInv'
  <1>1. tried[r] \in Seq(Attempt) /\ Len(tried[r]) \in Nat
    BY DEF LoopInv, Shape
  <1>2. Shape' /\ OnlyMoves(r)
    <2>1. \E stage \in {"select", "done"} : pc' = [pc EXCEPT ![r] = stage]
      BY DEF RetryOrFinish, Finish
    <2>2. result' = result \/ result' = [result EXCEPT ![r] = how]
      BY DEF RetryOrFinish, Finish
    <2>. QED  BY <2>1, <2>2 DEF LoopInv, Shape, OnlyMoves, Stages
  <1>3. Holds(r)'
    BY DEF Holds
  <1>4. CASE CanRetry(r) /\ pc' = [pc EXCEPT ![r] = "select"] /\ UNCHANGED result
    <2>1. Budget(r)' /\ Ending(r)'
      BY <1>1, <1>4, FailoverAssumption DEF CanRetry, LoopInv, Shape, Budget, Ending
    <2>. QED  BY <1>2, <1>3, <2>1, StayKeeps
  <1>5. CASE Finish(r, how) /\ (CanRetry(r) => how \in {"rejected", "cut"})
    <2>1. pc'[r] = "done" /\ result'[r] = how
      BY <1>5 DEF Finish, LoopInv, Shape
    <2>2. Budget(r)'
      BY <2>1 DEF LoopInv, Budget
    <2>3. Ending(r)'
      BY <1>1, <1>5, <2>1, FailoverAssumption DEF CanRetry, Ending
    <2>. QED  BY <1>2, <1>3, <2>2, <2>3, StayKeeps
  <1>. QED  BY <1>4, <1>5 DEF RetryOrFinish

LEMMA LeaseTimesOutKeeps ==
    ASSUME LoopInv, NEW r \in Requests, LeaseTimesOut(r)
    PROVE  LoopInv'
  <1>1. lease[r] = NoChannel
    BY DEF LeaseTimesOut, LoopInv, Holds
  <1>. QED  BY <1>1, RetryKeeps DEF LeaseTimesOut, Results

\* The first byte, a failure, a success: the attempt goes on or is over.
LEMMA FirstByteKeeps ==
    ASSUME LoopInv, NEW r \in Requests, FirstByte(r)
    PROVE  LoopInv'
  BY DEF FirstByte, LoopInv, Shape, Budget, NoRepeat, Holds, Ending, Current

LEMMA FailsKeeps ==
    ASSUME LoopInv, NEW r \in Requests,
           NEW limit, NEW retryable, NEW fault, Fails(r, limit, retryable, fault)
    PROVE  LoopInv'
  <1>1. pc'[r] = "charge" /\ UNCHANGED <<tried, lease, result>>
    BY DEF Fails, LoopInv, Shape
  <1>2. Shape' /\ OnlyMoves(r)
    BY DEF Fails, LoopInv, Shape, OnlyMoves, Stages
  <1>3. Budget(r)' /\ Holds(r)' /\ Ending(r)'
    BY <1>1 DEF Fails, LoopInv, Budget, Holds, Ending, Current
  <1>. QED  BY <1>1, <1>2, <1>3, StayKeeps

LEMMA SucceedKeeps ==
    ASSUME LoopInv, NEW r \in Requests, Succeed(r)
    PROVE  LoopInv'
  <1>1. /\ pc'[r] = "done" /\ result'[r] = "success" /\ lease'[r] = NoChannel
        /\ UNCHANGED tried
    BY DEF Succeed, Finish, ReleaseLease, LoopInv, Shape
  <1>2. Shape' /\ OnlyMoves(r)
    BY DEF Succeed, Finish, ReleaseLease, LoopInv, Shape, OnlyMoves, Stages, Results
  <1>3. Budget(r)' /\ Holds(r)' /\ Ending(r)'
    BY <1>1 DEF LoopInv, Budget, Holds, Ending
  <1>. QED  BY <1>1, <1>2, <1>3, StayKeeps

LEMMA AnswerKeeps ==
    ASSUME LoopInv, NEW r \in Requests, Answer(r)
    PROVE  LoopInv'
  BY SucceedKeeps, FailsKeeps
     DEF Answer, UpstreamFails, StreamFails, StreamBreaks, CannotWrite

LEMMA ChargeFailureKeeps ==
    ASSUME LoopInv, NEW r \in Requests, ChargeFailure(r)
    PROVE  LoopInv'
  <1>1. lease'[r] = NoChannel
    BY DEF ChargeFailure, ReleaseLease, LoopInv, Shape
  <1>2. {"failed", "rejected", "cut"} \subseteq Results
    BY DEF Results
  <1>. QED  BY <1>1, <1>2, RetryKeeps DEF ChargeFailure, ReleaseLease

\* What happens besides the loops leaves them alone.
LEMMA OutsideKeeps ==
    ASSUME LoopInv, UNCHANGED request
    PROVE  LoopInv'
  BY DEF request, LoopInv, Shape, Budget, NoRepeat, Holds, Ending, Current

LEMMA InitLoop == Init => LoopInv
  <1>. SUFFICES ASSUME Init PROVE LoopInv
    OBVIOUS
  <1>. QED  BY FailoverAssumption
            DEF Init, LoopInv, Shape, Budget, NoRepeat, Holds, Ending, Stages, Results

LEMMA NextLoop == LoopInv /\ [Next]_vars => LoopInv'
  <1>. SUFFICES ASSUME LoopInv, [Next]_vars PROVE LoopInv'
    OBVIOUS
  <1>1. ASSUME NEW r \in Requests, RequestStep(r)
        PROVE  LoopInv'
    BY <1>1, SelectKeeps, AcquireLeaseKeeps, LeaseTimesOutKeeps, AnswerKeeps,
       ChargeFailureKeeps DEF RequestStep, Lease
  <1>2. ASSUME NEW r \in Requests, FirstByte(r)
        PROVE  LoopInv'
    BY <1>2, FirstByteKeeps
  <1>3. ASSUME NEW r \in Requests, SuccessLands(r)
        PROVE  LoopInv'
    BY <1>3, OutsideKeeps DEF SuccessLands
  <1>4. ASSUME NEW s \in Subjects, CooldownEnds(s) \/ AvoidanceEnds(s)
        PROVE  LoopInv'
    BY <1>4, OutsideKeeps DEF CooldownEnds, AvoidanceEnds
  <1>5. ASSUME NEW s \in Sessions, BindingExpires(s)
        PROVE  LoopInv'
    BY <1>5, OutsideKeeps DEF BindingExpires
  <1>6. CASE UNCHANGED vars
    BY <1>6, OutsideKeeps DEF vars, request
  <1>. QED  BY <1>1, <1>2, <1>3, <1>4, <1>5, <1>6 DEF Next

LEMMA LoopInvariant == Spec => []LoopInv
  BY InitLoop, NextLoop, PTL DEF Spec

-----------------------------------------------------------------------------
(* What follows for the requests *)

\* No request goes back to an ordinary channel it has tried, none makes more
\* than proxyMaxChannelAttempts attempts, and a pinned one makes one at most
\* (excludeChannelIds, canRetryChannelSelection).
THEOREM FreshAttempts == Spec => []AttemptsAreFresh
  <1>1. LoopInv => AttemptsAreFresh
    BY DEF LoopInv, Budget, NoRepeat, AttemptsAreFresh
  <1>. QED  BY <1>1, LoopInvariant, PTL

\* A request that reports a retryable failure, or busy channels, has used up
\* its attempts (maybeRetry, canRetryChannelSelection).
THEOREM Perseverance == Spec => []GivesUpOnlyWhenExhausted
  <1>1. LoopInv => GivesUpOnlyWhenExhausted
    <2>. SUFFICES ASSUME LoopInv, NEW r \in Requests,
                         result[r] \in {"failed", "busy"}, ForcedChannel[r] = NoChannel
                  PROVE  Len(tried[r]) = MaxAttempts
      BY DEF GivesUpOnlyWhenExhausted
    <2>1. Len(tried[r]) <= MaxAttempts /\ Len(tried[r]) >= MaxAttempts
      BY DEF LoopInv, Budget, Ending
    <2>2. Len(tried[r]) \in Nat
      BY DEF LoopInv, Shape
    <2>. QED  BY <2>1, <2>2, FailoverAssumption
  <1>. QED  BY <1>1, LoopInvariant, PTL

-----------------------------------------------------------------------------
(* The slots of the guarded channels *)

Holders(c) == {r \in Requests : lease[r] = c}
WithinLimit == \A c \in Channels : Cardinality(Holders(c)) <= Limit

LEMMA HoldersFinite ==
    ASSUME NEW c
    PROVE  IsFiniteSet(Holders(c)) /\ Cardinality(Holders(c)) \in Nat
  <1>1. Holders(c) \in SUBSET Requests /\ IsFiniteSet(Requests)
    BY FailoverAssumption DEF Holders
  <1>. QED  BY <1>1, FS_Subset, FS_CardinalityType

\* Giving slots back leaves every channel within its limit.
LEMMA FewerHolders ==
    ASSUME WithinLimit, NEW c \in Channels, Holders(c)' \subseteq Holders(c)
    PROVE  Cardinality(Holders(c))' <= Limit
  <1>. DEFINE now == Holders(c)
              next == Holders(c)'
  <1>1. IsFiniteSet(now) /\ Cardinality(now) \in Nat
    BY HoldersFinite
  <1>2. next \in SUBSET now
    OBVIOUS
  <1>3. Cardinality(next) <= Cardinality(now) /\ IsFiniteSet(next)
    <2>. HIDE DEF now, next
    <2>. QED  BY <1>1, <1>2, FS_Subset
  <1>4. Cardinality(next) \in Nat
    <2>. HIDE DEF now, next
    <2>. QED  BY <1>3, FS_CardinalityType
  <1>5. Cardinality(now) <= Limit
    BY DEF WithinLimit
  <1>6. Limit \in Nat
    BY FailoverAssumption
  <1>. HIDE DEF now, next
  <1>7. Cardinality(next) <= Limit
    BY <1>1, <1>3, <1>4, <1>5, <1>6
  <1>. QED  BY <1>7 DEF next

\* A slot is taken only where one is free.
LEMMA AcquireLimit ==
    ASSUME LoopInv, WithinLimit, NEW r \in Requests, AcquireLease(r)
    PROVE  WithinLimit'
  <1>. SUFFICES ASSUME NEW c \in Channels PROVE Cardinality(Holders(c))' <= Limit
    BY DEF WithinLimit
  <1>1. lease \in [Requests -> Channels \cup {NoChannel}]
    BY DEF LoopInv, Shape
  <1>2. CASE c = Current(r).channel /\ SlotFree(c)
    <2>1. Cardinality(Holders(c)) < Limit
      BY <1>2 DEF SlotFree, Holders
    <2>2. Holders(c)' \subseteq Holders(c) \cup {r}
      BY <1>1 DEF AcquireLease, Holders
    <2>. DEFINE now == Holders(c)
                next == Holders(c)'
    <2>3. IsFiniteSet(now) /\ Cardinality(now) \in Nat
      BY HoldersFinite
    <2>4. next \in SUBSET (now \cup {r})
      BY <2>2
    <2>5. Limit \in Nat
      BY FailoverAssumption
    <2>6. Cardinality(next) <= Limit
      <3>0. Cardinality(now) < Limit
        BY <2>1
      <3>. HIDE DEF now, next
      <3>1. /\ IsFiniteSet(now \cup {r})
            /\ Cardinality(now \cup {r}) <= Cardinality(now) + 1
            /\ Cardinality(now \cup {r}) \in Nat
        <4>1. /\ IsFiniteSet(now \cup {r})
              /\ Cardinality(now \cup {r}) = IF r \in now THEN Cardinality(now)
                                              ELSE Cardinality(now) + 1
          BY <2>3, FS_AddElement
        <4>. QED  BY <2>3, <4>1
      <3>2. IsFiniteSet(next) /\ Cardinality(next) <= Cardinality(now \cup {r})
        BY <2>4, <3>1, FS_Subset
      <3>3. Cardinality(next) \in Nat
        BY <3>2, FS_CardinalityType
      <3>. QED  BY <2>3, <2>5, <3>0, <3>1, <3>2, <3>3
    <2>. HIDE DEF now
    <2>. QED  BY <2>6
  <1>3. CASE lease' = lease \/ (lease' = [lease EXCEPT ![r] = Current(r).channel]
                                 /\ c # Current(r).channel)
    <2>1. Holders(c)' \subseteq Holders(c)
      BY <1>1, <1>3 DEF Holders
    <2>. QED  BY <2>1, FewerHolders
  <1>. QED  BY <1>2, <1>3 DEF AcquireLease

\* Only AcquireLease takes a slot.
LEMMA NothingElseTakes ==
    ASSUME LoopInv, WithinLimit,
           lease' = lease \/ \E r \in Requests : lease' = [lease EXCEPT ![r] = NoChannel]
    PROVE  WithinLimit'
  <1>. SUFFICES ASSUME NEW c \in Channels PROVE Cardinality(Holders(c))' <= Limit
    BY DEF WithinLimit
  <1>1. lease \in [Requests -> Channels \cup {NoChannel}] /\ c # NoChannel
    BY FailoverAssumption DEF LoopInv, Shape
  <1>2. Holders(c)' \subseteq Holders(c)
    BY <1>1 DEF Holders
  <1>. QED  BY <1>2, FewerHolders

LEMMA InitLimit == Init => WithinLimit
  <1>. SUFFICES ASSUME Init, NEW c \in Channels PROVE Cardinality(Holders(c)) <= Limit
    BY DEF WithinLimit
  <1>1. Holders(c) = {}
    BY FailoverAssumption DEF Init, Holders
  <1>2. Limit \in Nat
    BY FailoverAssumption
  <1>. QED  BY <1>1, <1>2, FS_EmptySet

LEMMA NextLimit == LoopInv /\ WithinLimit /\ [Next]_vars => WithinLimit'
  <1>. SUFFICES ASSUME LoopInv, WithinLimit, [Next]_vars PROVE WithinLimit'
    OBVIOUS
  <1>1. ASSUME NEW r \in Requests, Select(r)
        PROVE  lease' = lease
    BY <1>1 DEF Select, SelectForced, SelectSticky, SelectAny, AfterRefresh
  <1>2. ASSUME NEW r \in Requests, AcquireLease(r)
        PROVE  WithinLimit'
    BY <1>2, AcquireLimit
  <1>3. ASSUME NEW r \in Requests, LeaseTimesOut(r) \/ FirstByte(r) \/ SuccessLands(r)
        PROVE  lease' = lease
    BY <1>3 DEF LeaseTimesOut, FirstByte, SuccessLands, request
  <1>4. ASSUME NEW r \in Requests, Answer(r)
        PROVE  lease' = lease \/ lease' = [lease EXCEPT ![r] = NoChannel]
    BY <1>4 DEF Answer, Succeed, ReleaseLease, UpstreamFails, StreamFails, StreamBreaks,
                CannotWrite, Fails
  <1>5. ASSUME NEW r \in Requests, ChargeFailure(r)
        PROVE  lease' = [lease EXCEPT ![r] = NoChannel]
    BY <1>5 DEF ChargeFailure, ReleaseLease
  <1>6. ASSUME NEW s, CooldownEnds(s) \/ AvoidanceEnds(s) \/ BindingExpires(s)
        PROVE  lease' = lease
    BY <1>6 DEF CooldownEnds, AvoidanceEnds, BindingExpires, request
  <1>7. CASE UNCHANGED vars
    BY <1>7, NothingElseTakes DEF vars
  <1>8. ASSUME NEW r \in Requests, RequestStep(r) \/ FirstByte(r) \/ SuccessLands(r)
        PROVE  WithinLimit'
    BY <1>1, <1>2, <1>3, <1>4, <1>5, <1>8, NothingElseTakes DEF RequestStep, Lease
  <1>. QED  BY <1>6, <1>7, <1>8, NothingElseTakes DEF Next

\* A guarded channel serves at most Limit sessions at a time, and a slot is held
\* only while its channel is being talked to (the `finally` of every attempt).
THEOREM SlotsHeld == Spec => []SlotsHeldWhileServing
  <1>1. Init => LoopInv /\ WithinLimit
    BY InitLoop, InitLimit
  <1>2. LoopInv /\ WithinLimit /\ [Next]_vars => LoopInv' /\ WithinLimit'
    BY NextLoop, NextLimit
  <1>3. LoopInv /\ WithinLimit => SlotsHeldWhileServing
    BY DEF LoopInv, Holds, WithinLimit, Holders, SlotsHeldWhileServing
  <1>. QED  BY <1>1, <1>2, <1>3, PTL DEF Spec

-----------------------------------------------------------------------------
(***************************************************************************)
(* The whole state                                                         *)
(***************************************************************************)

\* What the loop leaves besides pc, tried, lease and result.
Rest ==
    /\ aim \in [Requests -> Channels \cup {NoChannel}]
    /\ due \in [Requests -> Failure]
    /\ sticky \in [Sessions -> Channels \cup {NoChannel}]
    /\ health \in [Subjects -> Health]
    /\ picked \in Seq(Subjects)
    /\ balance \in [Subjects -> Int]
    /\ uncooled \in [Subjects -> Nat]

\* The bytes are those of an attempt that was made; a success that has yet to be
\* written was one.
Wired(r) ==
    /\ wire[r] <= Len(tried[r])
    /\ r \in owed => pc[r] = "done" /\ result[r] = "success" /\ tried[r] # << >>

StateInv ==
    /\ LoopInv /\ Rest
    /\ wire \in [Requests -> Nat] /\ owed \subseteq Requests
    /\ \A r \in Requests : Wired(r)

LEMMA CurrentFacts ==
    ASSUME LoopInv, NEW r \in Requests, tried[r] # << >>
    PROVE  /\ Current(r) \in Attempt /\ BookedOn(r) \in Subjects
           /\ Current(r) = tried[r][Len(tried[r])] /\ Len(tried[r]) \in Nat \ {0}
  <1>1. tried[r] \in Seq(Attempt)
    BY DEF LoopInv, Shape
  <1>2. Len(tried[r]) \in 1..Len(tried[r]) /\ Len(tried[r]) \in Nat \ {0}
    BY <1>1
  <1>3. Current(r) \in Attempt
    BY <1>1, <1>2 DEF Current
  <1>4. BookedOn(r) \in Subjects
    BY <1>3, FailoverAssumption DEF BookedOn, Attempt, Subjects
  <1>. QED  BY <1>2, <1>3, <1>4 DEF Current

LEMMA HealthRecords ==
    /\ Healthy \in Health /\ UsageLimited \in Health /\ NoFailure \in Failure
    /\ \A row \in Health, byThreshold, isMember \in BOOLEAN :
          Charged(row, byThreshold, isMember) \in Health
  <1>1. 0 \in 0..(FailureThreshold - 1) /\ FailureThreshold \in Nat \ {0}
    BY FailoverAssumption
  <1>2. Healthy \in Health /\ UsageLimited \in Health
    BY <1>1 DEF Healthy, UsageLimited, Health
  <1>3. NoFailure \in Failure
    BY <1>2 DEF NoFailure, Failure
  <1>4. ASSUME NEW row \in Health, NEW byThreshold \in BOOLEAN, NEW isMember \in BOOLEAN
        PROVE  Charged(row, byThreshold, isMember) \in Health
    BY <1>1 DEF Charged, Health
  <1>. QED  BY <1>2, <1>3, <1>4

\* A rank is 0 or a place in the order.
LEMMA RankIsPlace ==
    ASSUME picked \in Seq(Subjects), NEW m
    PROVE  LastSelected(m) \in 0..Len(picked)
  BY DEF LastSelected

LEMMA MarkFacts ==
    ASSUME picked \in Seq(Subjects), NEW m \in Subjects, MarkSelected(m)
    PROVE  picked' \in Seq(Subjects)
  <1>. DEFINE at == LastSelected(m)
              others == IF at = 0 THEN picked
                        ELSE SubSeq(picked, 1, at - 1) \o SubSeq(picked, at + 1, Len(picked))
  <1>1. at \in 0..Len(picked) /\ Len(picked) \in Nat
    BY RankIsPlace
  <1>. HIDE DEF at
  <1>2. others \in Seq(Subjects)
    <2>1. CASE at = 0
      BY <2>1
    <2>2. CASE at # 0
      <3>1. /\ 1 \in 1..(Len(picked) + 1) /\ at - 1 \in 0..Len(picked)
            /\ at + 1 \in 1..(Len(picked) + 1)
        BY <1>1, <2>2
      <3>2. SubSeq(picked, 1, at - 1) \in Seq(Subjects)
        BY <1>1, <3>1
      <3>3. SubSeq(picked, at + 1, Len(picked)) \in Seq(Subjects)
        BY <1>1, <3>1
      <3>. QED  BY <2>2, <3>2, <3>3
    <2>. QED  BY <2>1, <2>2
  <1>3. picked' = Append(others, m)
    BY DEF MarkSelected, at
  <1>. HIDE DEF others
  <1>. QED  BY <1>2, <1>3

\* A request picks a channel; a member of a pool may be marked.
LEMMA PickedTyped ==
    ASSUME Rest, NEW r, NEW a \in Attempt, NEW mark, Pick(r, a, mark)
    PROVE  picked' \in Seq(Subjects)
  <1>1. CASE UNCHANGED picked
    BY <1>1 DEF Rest
  <1>2. CASE MarkSelected(a.subject)
    BY <1>2, MarkFacts DEF Rest, Attempt
  <1>. QED  BY <1>1, <1>2 DEF Pick

LEMMA SelectRest ==
    ASSUME StateInv, NEW r \in Requests, Select(r)
    PROVE  Rest'
  <1>. USE FailoverAssumption
  <1>1. /\ UNCHANGED <<due, health, balance, uncooled>>
        /\ aim' \in [Requests -> Channels \cup {NoChannel}]
    <2>1. \A c : StartRefresh(r, c) => aim' = [aim EXCEPT ![r] = c]
      BY DEF StartRefresh
    <2>2. StickyOf(r) \in Channels \cup {NoChannel}
      BY DEF StickyOf, StateInv, Rest
    <2>3. \/ aim' = aim
          \/ \E c \in Channels \cup {NoChannel} : aim' = [aim EXCEPT ![r] = c]
      BY <2>1, <2>2 DEF Select, SelectForced, SelectSticky, SelectAny, AfterRefresh
    <2>4. UNCHANGED <<due, health, balance, uncooled>>
      BY DEF Select, SelectForced, SelectSticky, SelectAny, AfterRefresh
    <2>5. aim \in [Requests -> Channels \cup {NoChannel}]
      BY DEF StateInv, Rest
    <2>6. aim' \in [Requests -> Channels \cup {NoChannel}]
      BY <2>3, <2>5
    <2>. QED  BY <2>4, <2>6
  <1>2. sticky' \in [Sessions -> Channels \cup {NoChannel}]
    <2>1. sticky' = sticky \/ \E s : sticky' = [sticky EXCEPT ![s] = NoChannel]
      BY DEF Select, SelectForced, SelectSticky, SelectAny, AfterRefresh
    <2>. QED  BY <2>1 DEF StateInv, Rest
  <1>3. picked' \in Seq(Subjects)
    <2>1. \A c : Choices(r) \subseteq Attempt /\ PreferredChoices(r, c) \subseteq Attempt
      BY DEF Choices, PreferredChoices
    <2>2. \/ UNCHANGED picked
          \/ \E a \in Attempt : \E mark : Pick(r, a, mark)
      BY <2>1 DEF Select, SelectForced, SelectSticky, SelectAny, AfterRefresh, PickAnyOrRefuse,
                  StartRefresh
    <2>. QED  BY <2>2, PickedTyped DEF StateInv, Rest
  <1>. QED  BY <1>1, <1>2, <1>3 DEF StateInv, Rest

\* The binding that a failure or a busy channel drops.
LEMMA ForgetTyped ==
    ASSUME Rest, NEW r \in Requests, ForgetBinding(r)
    PROVE  sticky' \in [Sessions -> Channels \cup {NoChannel}]
  BY DEF ForgetBinding, Rest

LEMMA LeaseRest ==
    ASSUME StateInv, NEW r \in Requests, Lease(r)
    PROVE  Rest'
  <1>1. UNCHANGED <<aim, due, health, picked, balance, uncooled>>
    BY DEF Lease, AcquireLease, LeaseTimesOut
  <1>2. sticky' \in [Sessions -> Channels \cup {NoChannel}]
    BY ForgetTyped DEF Lease, AcquireLease, LeaseTimesOut, StateInv, Rest
  <1>. QED  BY <1>1, <1>2 DEF StateInv, Rest

\* Writing a success on the row it is booked on.
LEMMA BookSuccessTyped ==
    ASSUME StateInv, NEW r \in Requests, tried[r] # << >>, BookSuccess(r)
    PROVE  /\ health' \in [Subjects -> Health] /\ picked' \in Seq(Subjects)
           /\ uncooled' \in [Subjects -> Nat]
  <1>1. BookedOn(r) \in Subjects /\ Healthy \in Health
    BY CurrentFacts, HealthRecords DEF StateInv
  <1>2. health \in [Subjects -> Health] /\ picked \in Seq(Subjects) /\ uncooled \in [Subjects -> Nat]
    BY DEF StateInv, Rest
  <1>3. health' = [health EXCEPT ![BookedOn(r)] = Healthy]
    BY DEF BookSuccess
  <1>4. picked' = picked \/ picked' = Append(picked, BookedOn(r))
    BY DEF BookSuccess
  <1>5. uncooled' = [uncooled EXCEPT ![BookedOn(r)] = 0]
    BY DEF BookSuccess
  <1>6. picked' \in Seq(Subjects)
    BY <1>1, <1>2, <1>4
  <1>. QED  BY <1>1, <1>2, <1>3, <1>5, <1>6

LEMMA SucceedRest ==
    ASSUME StateInv, NEW r \in Requests, Succeed(r)
    PROVE  Rest'
  <1>. USE FailoverAssumption
  <1>1. tried[r] # << >> /\ UNCHANGED <<aim, due, balance>>
    BY DEF Succeed, StateInv, LoopInv, Budget
  <1>2. Current(r).channel \in Channels
    BY <1>1, CurrentFacts DEF StateInv, Attempt
  <1>3. /\ health' \in [Subjects -> Health] /\ picked' \in Seq(Subjects)
        /\ uncooled' \in [Subjects -> Nat]
    BY <1>1, BookSuccessTyped DEF Succeed, StateInv, Rest
  <1>4. sticky' \in [Sessions -> Channels \cup {NoChannel}]
    BY <1>2 DEF Succeed, StateInv, Rest
  <1>. QED  BY <1>1, <1>3, <1>4 DEF StateInv, Rest

LEMMA FailsRest ==
    ASSUME StateInv, NEW r \in Requests, NEW limit \in BOOLEAN, NEW retryable \in BOOLEAN,
           NEW fault \in BOOLEAN, Fails(r, limit, retryable, fault)
    PROVE  Rest'
  <1>1. tried[r] # << >> /\ UNCHANGED <<aim, health, picked, uncooled>>
    BY DEF Fails, StateInv, LoopInv, Budget
  <1>2. BookedOn(r) \in Subjects /\ Current(r) \in Attempt
    BY <1>1, CurrentFacts DEF StateInv
  <1>3. RowRead(r) \in Health
    BY <1>2, HealthRecords DEF RowRead, StateInv, Rest
  <1>4. due' \in [Requests -> Failure]
    <2>. DEFINE failure == [limit |-> limit, retryable |-> retryable, fault |-> fault,
                            row |-> RowRead(r)]
    <2>1. failure \in Failure
      BY <1>3 DEF Failure
    <2>2. due' = [due EXCEPT ![r] = failure]
      BY DEF Fails
    <2>. HIDE DEF failure
    <2>. QED  BY <2>1, <2>2 DEF StateInv, Rest
  <1>5. balance' \in [Subjects -> Int]
    <2>1. balance \in [Subjects -> Int] /\ Current(r).subject \in Subjects
      BY <1>2 DEF Attempt, StateInv, Rest
    <2>2. CASE fault
      <3>1. balance' = [balance EXCEPT ![Current(r).subject] = balance[Current(r).subject] + 1]
        BY <2>1, <2>2 DEF Fails
      <3>2. balance[Current(r).subject] + 1 \in Int
        BY <2>1
      <3>. QED  BY <2>1, <3>1, <3>2
    <2>3. CASE ~fault
      BY <2>1, <2>3 DEF Fails
    <2>. QED  BY <2>2, <2>3
  <1>6. sticky' \in [Sessions -> Channels \cup {NoChannel}]
    BY ForgetTyped DEF Fails, StateInv
  <1>. QED  BY <1>1, <1>4, <1>5, <1>6 DEF StateInv, Rest

LEMMA AnswerRest ==
    ASSUME StateInv, NEW r \in Requests, Answer(r)
    PROVE  Rest'
  <1>1. TRUE \in BOOLEAN /\ FALSE \in BOOLEAN
    OBVIOUS
  <1>2. \/ Succeed(r)
        \/ \E limit, retryable, fault \in BOOLEAN : Fails(r, limit, retryable, fault)
    BY <1>1 DEF Answer, UpstreamFails, StreamFails, StreamBreaks, CannotWrite
  <1>. QED  BY <1>2, SucceedRest, FailsRest

\* What a failure leaves of the health.
LEMMA HealthAfterTyped ==
    ASSUME StateInv, NEW r \in Requests, tried[r] # << >>
    PROVE  HealthAfter(r) \in [Subjects -> Health]
  <1>1. BookedOn(r) \in Subjects /\ health \in [Subjects -> Health] /\ due[r] \in Failure
    BY CurrentFacts DEF StateInv, Rest
  <1>2. health[BookedOn(r)] \in Health /\ due[r].row \in Health
    BY <1>1 DEF Failure
  <1>. DEFINE row == IF OneStepRecords THEN health[BookedOn(r)] ELSE due[r].row
              member == Current(r).channel \in Units
              byThreshold == IF member THEN ~UnitSticks ELSE Strategy = "round_robin"
  <1>3. row \in Health /\ member \in BOOLEAN /\ byThreshold \in BOOLEAN
    <2>1. row \in Health
      BY <1>2
    <2>2. member \in BOOLEAN
      OBVIOUS
    <2>3. byThreshold \in BOOLEAN
      <3>. HIDE DEF member
      <3>1. CASE member
        BY <3>1
      <3>2. CASE ~member
        BY <3>2
      <3>. QED  BY <3>1, <3>2
    <2>. QED  BY <2>1, <2>2, <2>3
  <1>4. HealthAfter(r) = [x \in Subjects |->
            IF x \notin Affected(r) THEN health[x]
            ELSE IF due[r].limit THEN UsageLimited
            ELSE Charged(row, byThreshold, member)]
    BY DEF HealthAfter
  <1>. HIDE DEF row, member, byThreshold
  <1>5. Charged(row, byThreshold, member) \in Health /\ UsageLimited \in Health
    BY <1>3, HealthRecords
  <1>. QED  BY <1>1, <1>4, <1>5

LEMMA ChargeRest ==
    ASSUME StateInv, NEW r \in Requests, ChargeFailure(r)
    PROVE  Rest'
  <1>1. tried[r] # << >> /\ UNCHANGED <<aim, sticky, picked>>
    BY DEF ChargeFailure, StateInv, LoopInv, Budget
  <1>2. health' \in [Subjects -> Health]
    BY <1>1, HealthAfterTyped DEF ChargeFailure
  <1>3. balance' \in [Subjects -> Int]
    <2>1. balance \in [Subjects -> Int] /\ BookedOn(r) \in Subjects
      BY <1>1, CurrentFacts DEF StateInv, Rest
    <2>2. balance' = [balance EXCEPT ![BookedOn(r)] = balance[BookedOn(r)] - 1]
      BY <2>1 DEF ChargeFailure
    <2>3. balance[BookedOn(r)] - 1 \in Int
      BY <2>1
    <2>. QED  BY <2>1, <2>2, <2>3
  <1>4. uncooled' \in [Subjects -> Nat]
    <2>1. PICK grown, cool : uncooled' = [x \in Subjects |->
             IF x \notin grown THEN uncooled[x] ELSE IF x \in cool THEN 0 ELSE uncooled[x] + 1]
      <3>. DEFINE cool == {x \in Subjects : health'[x].cooling}
      <3>1. uncooled' = [x \in Subjects |->
               IF x \notin Affected(r) THEN uncooled[x] ELSE IF x \in cool THEN 0 ELSE uncooled[x] + 1]
        BY DEF ChargeFailure
      <3>. QED  BY <3>1
    <2>. QED  BY <2>1 DEF StateInv, Rest
  <1>5. due' \in [Requests -> Failure]
    BY HealthRecords DEF ChargeFailure, StateInv, Rest
  <1>. QED  BY <1>1, <1>2, <1>3, <1>4, <1>5 DEF StateInv, Rest

\* What time does to the health, and to the bindings.
LEMMA TimeRest ==
    ASSUME StateInv,
           \/ \E s \in Subjects : CooldownEnds(s) \/ AvoidanceEnds(s)
           \/ \E s \in Sessions : BindingExpires(s)
    PROVE  Rest'
  <1>1. UNCHANGED <<aim, due, picked, balance, uncooled>>
    BY DEF CooldownEnds, AvoidanceEnds, BindingExpires, request
  <1>2. health' \in [Subjects -> Health]
    <2>1. ASSUME NEW s \in Subjects, CooldownEnds(s)
          PROVE  health' \in [Subjects -> Health]
      <3>1. health[s] \in Health /\ health \in [Subjects -> Health]
        BY DEF StateInv, Rest
      <3>2. health' \in [Subjects -> Health]
        BY <2>1, <3>1 DEF CooldownEnds, Health
      <3>. QED  BY <3>2
    <2>2. ASSUME NEW s \in Subjects, AvoidanceEnds(s)
          PROVE  health' \in [Subjects -> Health]
      <3>1. health[s] \in Health /\ health \in [Subjects -> Health]
        BY DEF StateInv, Rest
      <3>. DEFINE row == [health[s] EXCEPT !.recent = FALSE]
      <3>2. row \in Health
        BY <3>1 DEF Health
      <3>3. health' = [health EXCEPT ![s] = row]
        BY <2>2, <3>1 DEF AvoidanceEnds
      <3>. HIDE DEF row
      <3>. QED  BY <3>1, <3>2, <3>3
    <2>3. ASSUME NEW s, BindingExpires(s)
          PROVE  health' \in [Subjects -> Health]
      BY <2>3 DEF BindingExpires, StateInv, Rest
    <2>. QED  BY <2>1, <2>2, <2>3
  <1>3. sticky' \in [Sessions -> Channels \cup {NoChannel}]
    BY DEF CooldownEnds, AvoidanceEnds, BindingExpires, StateInv, Rest
  <1>. QED  BY <1>1, <1>2, <1>3 DEF StateInv, Rest

-----------------------------------------------------------------------------
(* What has been tried grows by what selection offers, and by nothing else *)

Offered(r, a) ==
    a \in Attempt /\ a.channel \in Available(r) /\ a.subject \in SubjectsOf(r, a.channel)

LEMMA SelectTries ==
    ASSUME LoopInv, NEW r \in Requests, Select(r)
    PROVE  /\ UNCHANGED <<wire, owed>> /\ pc[r] \in {"select", "refresh"}
           /\ \A q \in Requests \ {r} : pc'[q] = pc[q] /\ result'[q] = result[q]
           /\ \/ UNCHANGED tried /\ result'[r] \in {result[r], "no_channel"}
              \/ \E a : /\ Offered(r, a) /\ tried' = [tried EXCEPT ![r] = Append(tried[r], a)]
                        /\ pc'[r] = "lease" /\ result' = result
  <1>1. UNCHANGED <<wire, owed>> /\ pc[r] \in {"select", "refresh"}
    BY DEF Select, SelectForced, SelectSticky, SelectAny, AfterRefresh
  <1>2. ASSUME NEW a, NEW mark, Pick(r, a, mark)
        PROVE  /\ tried' = [tried EXCEPT ![r] = Append(tried[r], a)] /\ pc'[r] = "lease"
               /\ result' = result /\ \A q \in Requests \ {r} : pc'[q] = pc[q]
    BY <1>2 DEF Pick, LoopInv, Shape
  <1>3. ASSUME NEW how, Finish(r, how)
        PROVE  /\ result'[r] = how
               /\ \A q \in Requests \ {r} : pc'[q] = pc[q] /\ result'[q] = result[q]
    BY <1>3 DEF Finish, LoopInv, Shape
  <1>4. ASSUME NEW c, StartRefresh(r, c)
        PROVE  UNCHANGED <<tried, result>> /\ \A q \in Requests \ {r} : pc'[q] = pc[q]
    BY <1>4 DEF StartRefresh, LoopInv, Shape
  <1>5. \A c : \A a \in Choices(r) \cup PreferredChoices(r, c) : Offered(r, a)
    BY DEF Choices, PreferredChoices, Offered
  <1>6. \/ \E a, mark : Offered(r, a) /\ Pick(r, a, mark)
        \/ \E c : StartRefresh(r, c)
        \/ Finish(r, "no_channel") /\ UNCHANGED tried
    <2>1. CASE SelectForced(r)
      BY <1>5, <2>1 DEF SelectForced
    <2>2. CASE SelectSticky(r)
      BY <1>5, <2>2 DEF SelectSticky
    <2>3. CASE SelectAny(r)
      BY <1>5, <2>3 DEF SelectAny
    <2>4. CASE AfterRefresh(r)
      BY <1>5, <2>4 DEF AfterRefresh, PickAnyOrRefuse
    <2>. QED  BY <2>1, <2>2, <2>3, <2>4 DEF Select
  <1>7. CASE \E a, mark : Offered(r, a) /\ Pick(r, a, mark)
    BY <1>1, <1>2, <1>7
  <1>8. CASE \E c : StartRefresh(r, c)
    BY <1>1, <1>4, <1>8
  <1>9. CASE Finish(r, "no_channel") /\ UNCHANGED tried
    BY <1>1, <1>3, <1>9
  <1>. QED  BY <1>6, <1>7, <1>8, <1>9

\* A step of one request that is under way and does not select.
GoesOn(r) ==
    /\ UNCHANGED tried /\ tried[r] # << >> /\ r \notin owed /\ pc[r] # "done"
    /\ \A q \in Requests \ {r} : pc'[q] = pc[q] /\ result'[q] = result[q] /\ wire'[q] = wire[q]
    /\ owed' = owed \/ (owed' = owed \cup {r} /\ pc'[r] = "done" /\ result'[r] = "success")

LEMMA MovesGoOn ==
    ASSUME StateInv, NEW r \in Requests,
           Lease(r) \/ Answer(r) \/ ChargeFailure(r) \/ FirstByte(r)
    PROVE  GoesOn(r) /\ (UNCHANGED wire \/ FirstByte(r))
  <1>1. pc[r] \in {"lease", "exchange", "charge"} /\ tried[r] # << >> /\ r \notin owed
    <2>1. pc[r] \in {"lease", "exchange", "charge"}
      BY DEF Lease, AcquireLease, LeaseTimesOut, Answer, Succeed, UpstreamFails, StreamFails,
             StreamBreaks, CannotWrite, Fails, ChargeFailure, FirstByte
    <2>. QED  BY <2>1 DEF StateInv, LoopInv, Budget, Wired
  <1>2. CASE Lease(r)
    BY <1>1, <1>2 DEF Lease, AcquireLease, LeaseTimesOut, RetryOrFinish, Finish, GoesOn,
                      StateInv, LoopInv, Shape
  <1>3. CASE Succeed(r)
    <2>1. /\ UNCHANGED <<tried, wire>> /\ pc'[r] = "done" /\ result'[r] = "success"
          /\ \A q \in Requests \ {r} : pc'[q] = pc[q] /\ result'[q] = result[q]
      BY <1>3 DEF Succeed, Finish, StateInv, LoopInv, Shape
    <2>2. owed' = owed \/ owed' = owed \cup {r}
      BY <1>3 DEF Succeed
    <2>. QED  BY <1>1, <2>1, <2>2 DEF GoesOn
  <1>4. ASSUME NEW limit, NEW retryable, NEW fault, Fails(r, limit, retryable, fault)
        PROVE  GoesOn(r) /\ UNCHANGED wire
    BY <1>1, <1>4 DEF Fails, GoesOn, StateInv, LoopInv, Shape
  <1>5. CASE ChargeFailure(r)
    BY <1>1, <1>5 DEF ChargeFailure, RetryOrFinish, Finish, GoesOn, StateInv, LoopInv, Shape
  <1>6. CASE FirstByte(r)
    BY <1>1, <1>6 DEF FirstByte, GoesOn, StateInv
  <1>. QED  BY <1>2, <1>3, <1>4, <1>5, <1>6
            DEF Answer, UpstreamFails, StreamFails, StreamBreaks, CannotWrite

LEMMA WiredKeeps ==
    ASSUME StateInv, [Next]_vars
    PROVE  /\ wire' \in [Requests -> Nat] /\ owed' \subseteq Requests
           /\ \A q \in Requests : Wired(q)'
  <1>1. ASSUME NEW q \in Requests
        PROVE  Wired(q) /\ tried[q] \in Seq(Attempt) /\ Len(tried[q]) \in Nat /\ wire[q] \in Nat
    BY DEF StateInv, LoopInv, Shape
  <1>2. ASSUME NEW r \in Requests, Select(r)
        PROVE  \A q \in Requests : Wired(q)'
    <2>1. ASSUME NEW q \in Requests PROVE wire'[q] <= Len(tried'[q]) /\ (q \in owed' => tried'[q] # << >>)
      <3>1. CASE tried'[q] = tried[q]
        BY <1>1, <1>2, <3>1, SelectTries DEF StateInv, Wired
      <3>2. CASE \E a \in Attempt : tried'[q] = Append(tried[q], a)
        <4>1. Len(tried'[q]) = Len(tried[q]) + 1
          BY <1>1, <3>2
        <4>2. wire'[q] = wire[q] /\ wire[q] <= Len(tried[q])
          BY <1>1, <1>2, SelectTries DEF StateInv, Wired
        <4>3. tried'[q] # << >>
          BY <1>1, <4>1
        <4>. QED  BY <1>1, <4>1, <4>2, <4>3
      <3>3. tried \in [Requests -> Seq(Attempt)]
        BY DEF StateInv, LoopInv, Shape
      <3>. QED  BY <1>2, <3>1, <3>2, <3>3, SelectTries DEF StateInv, Offered
    <2>2. r \notin owed
      BY <1>1, <1>2, SelectTries DEF StateInv, Wired
    <2>3. ASSUME NEW q \in Requests, q \in owed' PROVE pc'[q] = "done" /\ result'[q] = "success"
      BY <1>1, <1>2, <2>2, <2>3, SelectTries DEF StateInv, Wired
    <2>. QED  BY <2>1, <2>3 DEF Wired
  <1>3. ASSUME NEW r \in Requests, Lease(r) \/ Answer(r) \/ ChargeFailure(r) \/ FirstByte(r)
        PROVE  \A q \in Requests : Wired(q)'
    <2>1. GoesOn(r) /\ (UNCHANGED wire \/ FirstByte(r))
      BY <1>3, MovesGoOn
    <2>2. ASSUME NEW q \in Requests PROVE wire'[q] <= Len(tried'[q])
      <3>1. tried' = tried /\ wire[q] <= Len(tried[q])
        BY <1>1, <2>1 DEF GoesOn, Wired
      <3>2. wire'[q] = wire[q] \/ wire'[q] = Len(tried[q])
        BY <2>1 DEF FirstByte, StateInv, GoesOn
      <3>. QED  BY <1>1, <3>1, <3>2
    <2>3. ASSUME NEW q \in Requests, q \in owed'
          PROVE  pc'[q] = "done" /\ result'[q] = "success" /\ tried'[q] # << >>
      BY <1>1, <2>1, <2>3 DEF GoesOn, Wired
    <2>. QED  BY <2>2, <2>3 DEF Wired
  <1>4. ASSUME NEW r \in Requests, SuccessLands(r)
        PROVE  \A q \in Requests : Wired(q)'
    BY <1>1, <1>4 DEF SuccessLands, request, Wired
  <1>5. ASSUME UNCHANGED <<request, owed>>
        PROVE  \A q \in Requests : Wired(q)'
    BY <1>1, <1>5 DEF request, Wired
  <1>6. \A q \in Requests : Wired(q)'
    BY <1>2, <1>3, <1>4, <1>5
       DEF Next, RequestStep, vars, request, CooldownEnds, AvoidanceEnds, BindingExpires
  <1>7. wire' \in [Requests -> Nat] /\ owed' \subseteq Requests
    <2>1. \/ UNCHANGED <<wire, owed>>
          \/ \E r \in Requests : SuccessLands(r) \/ GoesOn(r)
      BY SelectTries, MovesGoOn
         DEF StateInv, Next, RequestStep, vars, request, CooldownEnds, AvoidanceEnds, BindingExpires
    <2>2. ASSUME NEW r \in Requests, Lease(r) \/ Answer(r) \/ ChargeFailure(r) \/ FirstByte(r)
          PROVE  wire' \in [Requests -> Nat]
      BY <1>1, <2>2, MovesGoOn DEF FirstByte, StateInv
    <2>3. wire' \in [Requests -> Nat]
      BY <2>2, SelectTries
         DEF StateInv, Next, RequestStep, vars, request, SuccessLands, CooldownEnds,
             AvoidanceEnds, BindingExpires
    <2>. QED  BY <2>1, <2>3 DEF StateInv, SuccessLands, GoesOn
  <1>. QED  BY <1>6, <1>7

LEMMA InitState == Init => StateInv
  <1>. SUFFICES ASSUME Init PROVE StateInv
    OBVIOUS
  <1>1. Rest
    BY HealthRecords DEF Init, Rest
  <1>2. \A r \in Requests : Wired(r)
    BY DEF Init, Wired
  <1>. QED  BY <1>1, <1>2, InitLoop DEF Init, StateInv

LEMMA NextState == StateInv /\ [Next]_vars => StateInv'
  <1>. SUFFICES ASSUME StateInv, [Next]_vars PROVE StateInv'
    OBVIOUS
  <1>1. LoopInv'
    BY NextLoop DEF StateInv
  <1>2. Rest'
    <2>1. ASSUME NEW r \in Requests, RequestStep(r)
          PROVE  Rest'
      BY <2>1, SelectRest, LeaseRest, AnswerRest, ChargeRest DEF RequestStep
    <2>2. ASSUME NEW r \in Requests, FirstByte(r)
          PROVE  Rest'
      BY <2>2 DEF FirstByte, StateInv, Rest
    <2>3. ASSUME NEW r \in Requests, SuccessLands(r)
          PROVE  Rest'
      BY <2>3, BookSuccessTyped DEF SuccessLands, request, StateInv, Rest, Wired
    <2>4. CASE UNCHANGED vars
      BY <2>4 DEF vars, StateInv, Rest
    <2>. QED  BY <2>1, <2>2, <2>3, <2>4, TimeRest DEF Next
  <1>. QED  BY <1>1, <1>2, WiredKeeps DEF StateInv

LEMMA StateInvariant == Spec => []StateInv
  BY InitState, NextState, PTL DEF Spec

\* The loop, the bookkeeping and the histories keep their shape: no streak reaches
\* the threshold without its cooldown, and no byte is of an attempt beyond the last.
THEOREM TypeCorrect == Spec => []TypeOK
  <1>1. StateInv => TypeOK
    <2>. SUFFICES ASSUME StateInv PROVE TypeOK
      OBVIOUS
    <2>1. \A r \in Requests : wire[r] \in 0..MaxAttempts
      BY FailoverAssumption DEF StateInv, Wired, LoopInv, Shape, Budget
    <2>2. wire \in [Requests -> 0..MaxAttempts]
      BY <2>1 DEF StateInv
    <2>. QED  BY <2>2 DEF StateInv, LoopInv, Shape, Rest, TypeOK
  <1>. QED  BY <1>1, StateInvariant, PTL

-----------------------------------------------------------------------------
(* The steps a request has left *)

\* A stage counts for the steps that may follow within its attempt.
Weight(stage) ==
    CASE stage = "lease" -> 5
      [] stage = "exchange" -> 4
      [] stage = "charge" -> 3
      [] stage = "select" -> 2
      [] stage = "refresh" -> 1
      [] OTHER -> 0

StepsLeft(r) == 5 * (MaxAttempts - Len(tried[r])) + Weight(pc[r])

StepsBounded == \A r \in Requests : StepsLeft(r) \in 0..(5 * MaxAttempts + 2)

\* Every step of the request itself uses one up, whatever it meets; nobody
\* else's step, no answer that begins and no passing of time adds one.
StepsRunOut ==
    [][\A r \in Requests :
          /\ StepsLeft(r)' <= StepsLeft(r)
          /\ RequestStep(r) => StepsLeft(r)' < StepsLeft(r)]_vars

LEMMA StepsInBounds == LoopInv => StepsBounded
  <1>. SUFFICES ASSUME LoopInv, NEW r \in Requests
                PROVE  StepsLeft(r) \in 0..(5 * MaxAttempts + 2)
    BY DEF StepsBounded
  <1>1. MaxAttempts \in Nat /\ Len(tried[r]) \in Nat /\ Len(tried[r]) <= MaxAttempts
    BY FailoverAssumption DEF LoopInv, Shape, Budget
  <1>2. tried[r] # << >> => Len(tried[r]) >= 1
    <2>1. tried[r] \in Seq(Attempt)
      BY DEF LoopInv, Shape
    <2>. QED  BY <2>1
  <1>3. Weight(pc[r]) \in 0..5 /\ (Weight(pc[r]) > 2 => Len(tried[r]) >= 1)
    BY <1>2 DEF LoopInv, Budget, Weight
  <1>. QED  BY <1>1, <1>3 DEF StepsLeft

\* A selection makes an attempt, refreshes the routes once, or ends the request.
LEMMA SelectionUsesOne ==
    ASSUME LoopInv, NEW r \in Requests, Select(r)
    PROVE  /\ StepsLeft(r)' < StepsLeft(r)
           /\ \A q \in Requests \ {r} : StepsLeft(q)' = StepsLeft(q)
  <1>1. tried[r] \in Seq(Attempt) /\ Len(tried[r]) \in Nat /\ MaxAttempts \in Nat
    BY FailoverAssumption DEF LoopInv, Shape
  <1>2. \A q \in Requests \ {r} : pc'[q] = pc[q] /\ tried'[q] = tried[q]
    BY SelectTries DEF LoopInv, Shape
  <1>3. Weight(pc[r]) >= 1 /\ Weight(pc[r]) \in Nat
    BY SelectTries DEF Weight
  <1>4. CASE \E a : Offered(r, a) /\ tried' = [tried EXCEPT ![r] = Append(tried[r], a)]
                    /\ pc'[r] = "lease"
    <2>1. Len(tried'[r]) = Len(tried[r]) + 1
      BY <1>1, <1>4 DEF Offered, LoopInv, Shape
    <2>2. Weight(pc'[r]) = 5
      BY <1>4 DEF Weight
    <2>3. StepsLeft(r)' = 5 * (MaxAttempts - (Len(tried[r]) + 1)) + 5
      BY <2>1, <2>2 DEF StepsLeft
    <2>4. StepsLeft(r)' < StepsLeft(r)
      BY <1>1, <1>3, <2>3 DEF StepsLeft
    <2>. QED  BY <1>2, <2>4 DEF StepsLeft
  <1>5. CASE UNCHANGED tried
    <2>1. \/ pc[r] = "select" /\ pc'[r] = "refresh"
          \/ pc'[r] = "done"
      <3>1. \A how : Finish(r, how) => pc'[r] = "done"
        BY DEF Finish, LoopInv, Shape
      <3>2. \A c : StartRefresh(r, c) => pc'[r] = "refresh"
        BY DEF StartRefresh, LoopInv, Shape
      <3>3. \A a, mark : ~Pick(r, a, mark)
        <4>. SUFFICES ASSUME NEW a, NEW mark, Pick(r, a, mark) PROVE FALSE
          OBVIOUS
        <4>1. tried[r] = Append(tried[r], a)
          BY <1>5 DEF Pick, LoopInv, Shape
        <4>2. Len(Append(tried[r], a)) = Len(tried[r]) + 1
          BY <1>1
        <4>. QED  BY <1>1, <4>1, <4>2
      <3>. QED  BY <3>1, <3>2, <3>3
                DEF Select, SelectForced, SelectSticky, SelectAny, AfterRefresh, PickAnyOrRefuse
    <2>2. Weight("select") = 2 /\ Weight("refresh") = 1 /\ Weight("done") = 0
      BY DEF Weight
    <2>3. Weight(pc'[r]) < Weight(pc[r]) /\ Weight(pc'[r]) \in Nat
      BY <1>3, <2>1, <2>2
    <2>4. StepsLeft(r)' = 5 * (MaxAttempts - Len(tried[r])) + Weight(pc'[r])
      BY <1>5 DEF StepsLeft
    <2>5. StepsLeft(r)' < StepsLeft(r)
      BY <1>1, <1>3, <2>3, <2>4 DEF StepsLeft
    <2>. QED  BY <1>2, <2>5 DEF StepsLeft
  <1>. QED  BY <1>4, <1>5, SelectTries

\* The other steps of a request go on to a later stage, or back to the selection.
LEMMA MoveUsesOne ==
    ASSUME StateInv, NEW r \in Requests, Lease(r) \/ Answer(r) \/ ChargeFailure(r)
    PROVE  /\ StepsLeft(r)' < StepsLeft(r)
           /\ \A q \in Requests \ {r} : StepsLeft(q)' = StepsLeft(q)
  <1>1. Len(tried[r]) \in Nat /\ MaxAttempts \in Nat
    BY FailoverAssumption DEF StateInv, LoopInv, Shape
  <1>2. UNCHANGED tried /\ \A q \in Requests \ {r} : pc'[q] = pc[q]
    BY MovesGoOn DEF GoesOn
  <1>3. \/ pc[r] = "lease" /\ pc'[r] \in {"exchange", "select", "done"}
        \/ pc[r] = "exchange" /\ pc'[r] \in {"charge", "done"}
        \/ pc[r] = "charge" /\ pc'[r] \in {"select", "done"}
    BY DEF Lease, AcquireLease, LeaseTimesOut, Answer, Succeed, UpstreamFails, StreamFails,
           StreamBreaks, CannotWrite, Fails, ChargeFailure, RetryOrFinish, Finish,
           StateInv, LoopInv, Shape
  <1>4. /\ Weight("lease") = 5 /\ Weight("exchange") = 4 /\ Weight("charge") = 3
        /\ Weight("select") = 2 /\ Weight("done") = 0
    BY DEF Weight
  <1>5. Weight(pc'[r]) < Weight(pc[r]) /\ Weight(pc'[r]) \in Nat /\ Weight(pc[r]) \in Nat
    BY <1>3, <1>4
  <1>6. StepsLeft(r)' = 5 * (MaxAttempts - Len(tried[r])) + Weight(pc'[r])
    BY <1>2 DEF StepsLeft
  <1>7. StepsLeft(r)' < StepsLeft(r)
    BY <1>1, <1>5, <1>6 DEF StepsLeft
  <1>. QED  BY <1>2, <1>7 DEF StepsLeft

\* The retry loop ends: a request makes at most 5 * proxyMaxChannelAttempts + 2 steps,
\* of which each attempt takes at most five, whatever the upstreams answer, however
\* many other requests there are, and whatever they do to channels and bindings
\* (chatSurface's loop over attempts, whose `continue` selects again).
THEOREM LoopIsBounded == Spec => []StepsBounded /\ StepsRunOut
  <1>1. StateInv => StepsBounded
    BY StepsInBounds DEF StateInv
  <1>2. ASSUME StateInv, StepsBounded', [Next]_vars, NEW r \in Requests
        PROVE  StepsLeft(r)' <= StepsLeft(r) /\ (RequestStep(r) => StepsLeft(r)' < StepsLeft(r))
    <2>1. StepsLeft(r) \in Int
      BY <1>2, StepsInBounds DEF StateInv, StepsBounded
    <2>2. ASSUME NEW q \in Requests, RequestStep(q)
          PROVE  StepsLeft(q)' < StepsLeft(q)
                 /\ (q # r => StepsLeft(r)' = StepsLeft(r))
      BY <1>2, <2>2, SelectionUsesOne, MoveUsesOne DEF RequestStep, StateInv
    <2>3. CASE \E q \in Requests : RequestStep(q)
      <3>1. PICK q \in Requests : RequestStep(q)
        BY <2>3
      <3>2. StepsLeft(r)' \in Int
        BY <1>2, FailoverAssumption DEF StepsBounded
      <3>3. StepsLeft(r)' <= StepsLeft(r)
        BY <2>1, <2>2, <3>1, <3>2
      <3>. QED  BY <2>2, <3>3
    <2>4. CASE UNCHANGED <<pc, tried>>
      <3>1. StepsLeft(r)' = StepsLeft(r)
        BY <2>4 DEF StepsLeft
      <3>. QED  BY <2>1, <2>2, <3>1
    <2>. QED  BY <1>2, <2>3, <2>4 DEF Next, vars, request, FirstByte, SuccessLands,
                 CooldownEnds, AvoidanceEnds, BindingExpires
  <1>3. StateInv /\ StepsBounded' /\ [Next]_vars => [\A r \in Requests :
            /\ StepsLeft(r)' <= StepsLeft(r)
            /\ RequestStep(r) => StepsLeft(r)' < StepsLeft(r)]_vars
    BY <1>2
  <1>. QED  BY <1>1, <1>3, InitState, NextState, PTL DEF Spec, StepsRunOut

-----------------------------------------------------------------------------
(***************************************************************************)
(* The failure count, where reading and writing it is one step             *)
(***************************************************************************)

\* The count a row carries is that of the failures charged since it last cooled or
\* succeeded: nobody writes back a count somebody else has raised meanwhile.
CountsAgree ==
    /\ OneStepRecords
    /\ \A s \in Subjects : uncooled[s] = health[s].streak

\* Clearing a row clears both counts.
LEMMA SuccessCounts ==
    ASSUME StateInv, CountsAgree, NEW r \in Requests, tried[r] # << >>, BookSuccess(r)
    PROVE  CountsAgree'
  <1>1. BookedOn(r) \in Subjects
    BY CurrentFacts DEF StateInv
  <1>2. health \in [Subjects -> Health] /\ uncooled \in [Subjects -> Nat]
    BY DEF StateInv, Rest
  <1>3. /\ health' = [health EXCEPT ![BookedOn(r)] = Healthy]
        /\ uncooled' = [uncooled EXCEPT ![BookedOn(r)] = 0]
    BY DEF BookSuccess
  <1>4. Healthy.streak = 0
    BY DEF Healthy
  <1>. QED  BY <1>1, <1>2, <1>3, <1>4 DEF CountsAgree

\* A charged row counts one more, or starts again as it goes to cool.
LEMMA ChargeCounts ==
    ASSUME StateInv, CountsAgree, NEW r \in Requests, ChargeFailure(r)
    PROVE  CountsAgree'
  <1>. SUFFICES ASSUME NEW x \in Subjects
                PROVE  uncooled'[x] = health'[x].streak
    BY DEF CountsAgree
  <1>1. uncooled[x] = health[x].streak /\ uncooled[x] \in Nat
    BY DEF CountsAgree, StateInv, Rest
  <1>2. uncooled'[x] = IF x \notin Affected(r) THEN uncooled[x]
                       ELSE IF health'[x].cooling THEN 0 ELSE uncooled[x] + 1
    BY DEF ChargeFailure
  <1>3. CASE x \notin Affected(r)
    <2>1. health'[x] = health[x]
      BY <1>3 DEF ChargeFailure, HealthAfter
    <2>. QED  BY <1>1, <1>2, <1>3, <2>1
  <1>4. CASE x \in Affected(r) /\ due[r].limit
    <2>1. health'[x] = UsageLimited
      BY <1>4 DEF ChargeFailure, HealthAfter
    <2>. QED  BY <1>2, <1>4, <2>1 DEF UsageLimited
  <1>5. CASE x \in Affected(r) /\ ~due[r].limit
    <2>1. x = BookedOn(r)
      BY <1>5 DEF Affected
    <2>2. PICK byThreshold, member : health'[x] = Charged(health[x], byThreshold, member)
      BY <1>5, <2>1 DEF ChargeFailure, HealthAfter, CountsAgree
    <2>3. \/ health'[x].streak = 0 /\ health'[x].cooling
          \/ health'[x].streak = health[x].streak + 1 /\ ~health'[x].cooling
      BY <2>2 DEF Charged
    <2>. QED  BY <1>1, <1>2, <1>5, <2>3
  <1>. QED  BY <1>3, <1>4, <1>5

\* Time ends a cooldown, and leaves the count.
LEMMA TimeCounts ==
    ASSUME StateInv, CountsAgree, NEW s \in Subjects, CooldownEnds(s) \/ AvoidanceEnds(s)
    PROVE  CountsAgree'
  <1>1. health \in [Subjects -> Health] /\ uncooled' = uncooled
    BY DEF StateInv, Rest, CooldownEnds, AvoidanceEnds
  <1>2. \A x \in Subjects : health'[x].streak = health[x].streak
    <2>1. CASE CooldownEnds(s)
      BY <1>1, <2>1 DEF CooldownEnds, Health
    <2>2. CASE AvoidanceEnds(s)
      BY <1>1, <2>2 DEF AvoidanceEnds, Health
    <2>. QED  BY <2>1, <2>2
  <1>. QED  BY <1>1, <1>2 DEF CountsAgree

LEMMA NextCounts ==
    ASSUME StateInv, CountsAgree, [Next]_vars
    PROVE  CountsAgree'
  <1>1. ASSUME UNCHANGED <<health, uncooled>>
        PROVE  CountsAgree'
    BY <1>1 DEF CountsAgree
  <1>2. ASSUME NEW r \in Requests, Select(r) \/ Lease(r) \/ FirstByte(r)
        PROVE  UNCHANGED <<health, uncooled>>
    BY <1>2 DEF Select, SelectForced, SelectSticky, SelectAny, AfterRefresh, Lease,
                AcquireLease, LeaseTimesOut, FirstByte
  <1>3. ASSUME NEW r \in Requests, Answer(r)
        PROVE  CountsAgree'
    <2>1. CASE Succeed(r)
      <3>1. tried[r] # << >>
        BY <2>1 DEF Succeed, StateInv, LoopInv, Budget
      <3>2. BookSuccess(r)
        BY <2>1 DEF Succeed, CountsAgree
      <3>. QED  BY <3>1, <3>2, SuccessCounts
    <2>2. ASSUME NEW limit, NEW retryable, NEW fault, Fails(r, limit, retryable, fault)
          PROVE  UNCHANGED <<health, uncooled>>
      BY <2>2 DEF Fails
    <2>. QED  BY <1>1, <1>3, <2>1, <2>2
              DEF Answer, UpstreamFails, StreamFails, StreamBreaks, CannotWrite
  <1>4. ASSUME NEW r \in Requests, SuccessLands(r)
        PROVE  CountsAgree'
    BY <1>4, SuccessCounts DEF SuccessLands, StateInv, Wired
  <1>5. ASSUME NEW s \in Sessions, BindingExpires(s)
        PROVE  UNCHANGED <<health, uncooled>>
    BY <1>5 DEF BindingExpires
  <1>. QED  BY <1>1, <1>2, <1>3, <1>4, <1>5, ChargeCounts, TimeCounts
            DEF Next, RequestStep, vars

\* No subject collects ROUND_ROBIN_FAILURE_THRESHOLD failures in a row without being
\* sent to cool down, when recordFailure reads and writes the row without giving
\* way (consecutiveFailCount on sqlite).  Where it does give way, two failures may
\* raise the same count to the same value, and nothing is claimed.
THEOREM CooldownComes == OneStepRecords /\ Spec => []StagedCooldown
  <1>1. OneStepRecords /\ Init => StateInv /\ CountsAgree
    <2>. SUFFICES ASSUME OneStepRecords, Init PROVE StateInv /\ CountsAgree
      OBVIOUS
    <2>. QED  BY InitState DEF Init, CountsAgree, Healthy
  <1>2. StateInv /\ CountsAgree /\ [Next]_vars => StateInv' /\ CountsAgree'
    BY NextState, NextCounts
  <1>3. StateInv /\ CountsAgree => StagedCooldown
    <2>. SUFFICES ASSUME StateInv, CountsAgree, NEW s \in Subjects
                  PROVE  uncooled[s] < FailureThreshold
      BY DEF StagedCooldown
    <2>1. health[s].streak \in 0..(FailureThreshold - 1) /\ uncooled[s] = health[s].streak
      BY DEF StateInv, Rest, Health, CountsAgree
    <2>. QED  BY <2>1, FailoverAssumption
  <1>. QED  BY <1>1, <1>2, <1>3, PTL DEF Spec

-----------------------------------------------------------------------------
(***************************************************************************)
(* A response that has begun, where no connection dies under it            *)
(***************************************************************************)

\* The bytes that were forwarded are those of the current attempt, which is never
\* followed by another.
Committed(r) ==
    wire[r] # 0 =>
        /\ wire[r] = Len(tried[r])
        /\ pc[r] \in {"exchange", "charge", "done"}
        /\ pc[r] = "charge" => ~due[r].retryable

StreamInv == ~StreamsBreak /\ \A r \in Requests : Committed(r)

\* A failure after the first byte is one the stream session reports itself.
LEMMA FailureCommits ==
    ASSUME StateInv, StreamInv, NEW r \in Requests,
           UpstreamFails(r) \/ StreamFails(r) \/ StreamBreaks(r) \/ CannotWrite(r)
    PROVE  Committed(r)' /\ UNCHANGED <<tried, wire>> /\ \A q \in Requests \ {r} : due'[q] = due[q]
  <1>1. wire[r] # 0 => wire[r] = Len(tried[r])
    BY DEF StreamInv, Committed
  <1>2. ~AlreadyAnswering(r) /\ ~StreamsBreak
    BY <1>1 DEF AlreadyAnswering, StreamInv
  <1>3. PICK limit, retryable, fault :
            Fails(r, limit, retryable, fault) /\ (wire[r] # 0 => retryable = FALSE)
    BY <1>1, <1>2 DEF UpstreamFails, StreamFails, StreamBreaks, CannotWrite
  <1>4. pc'[r] = "charge" /\ UNCHANGED <<tried, wire>>
    BY <1>3 DEF Fails, StateInv, LoopInv, Shape
  <1>5. due' = [due EXCEPT ![r] = [limit |-> limit, retryable |-> retryable,
                                   fault |-> fault, row |-> RowRead(r)]]
    BY <1>3 DEF Fails
  <1>6. due'[r].retryable = retryable /\ \A q \in Requests \ {r} : due'[q] = due[q]
    BY <1>5 DEF StateInv, Rest
  <1>. QED  BY <1>1, <1>3, <1>4, <1>6 DEF Committed

LEMMA NextCommits ==
    ASSUME StateInv, StreamInv, [Next]_vars
    PROVE  StreamInv'
  <1>1. \A q \in Requests : Committed(q) /\ wire[q] \in Nat
    BY DEF StreamInv, StateInv
  <1>2. ASSUME NEW r \in Requests, Select(r)
        PROVE  \A q \in Requests : Committed(q)'
    <2>1. wire' = wire /\ due' = due
      BY <1>2 DEF Select, SelectForced, SelectSticky, SelectAny, AfterRefresh
    <2>2. wire'[r] = 0
      BY <1>1, <1>2, <2>1, SelectTries DEF StateInv, Committed
    <2>3. ASSUME NEW q \in Requests, q # r PROVE tried'[q] = tried[q] /\ pc'[q] = pc[q]
      BY <1>2, <2>3, SelectTries DEF StateInv, LoopInv, Shape
    <2>. QED  BY <1>1, <2>1, <2>2, <2>3 DEF Committed
  <1>3. ASSUME NEW r \in Requests, Lease(r) \/ Answer(r) \/ ChargeFailure(r) \/ FirstByte(r)
        PROVE  \A q \in Requests : Committed(q)'
    <2>0. GoesOn(r)
      BY <1>3, MovesGoOn
    <2>1. \A q \in Requests \ {r} : due'[q] = due[q]
      <3>1. CASE Lease(r) \/ FirstByte(r) \/ Succeed(r)
        BY <3>1 DEF Lease, AcquireLease, LeaseTimesOut, FirstByte, Succeed
      <3>2. CASE ChargeFailure(r)
        BY <3>2 DEF ChargeFailure, StateInv, Rest
      <3>. QED  BY <1>3, <3>1, <3>2, FailureCommits DEF Answer
    <2>2. \A q \in Requests \ {r} : Committed(q)'
      BY <1>1, <2>0, <2>1 DEF GoesOn, Committed
    <2>3. Committed(r)'
      <3>1. CASE Lease(r)
        <4>1. wire'[r] = 0
          BY <1>1, <3>1 DEF Lease, AcquireLease, LeaseTimesOut, Committed
        <4>. QED  BY <4>1 DEF Committed
      <3>2. CASE Succeed(r)
        BY <1>1, <3>2 DEF Succeed, Finish, Committed, StateInv, LoopInv, Shape
      <3>3. CASE FirstByte(r)
        BY <1>1, <3>3 DEF FirstByte, Committed, StateInv
      <3>4. CASE ChargeFailure(r)
        <4>1. wire'[r] = wire[r] /\ tried'[r] = tried[r]
          BY <3>4 DEF ChargeFailure
        <4>2. wire[r] # 0 => pc'[r] = "done"
          BY <1>1, <3>4 DEF ChargeFailure, Finish, Committed, StateInv, LoopInv, Shape
        <4>. QED  BY <1>1, <4>1, <4>2 DEF Committed
      <3>. QED  BY <1>3, <3>1, <3>2, <3>3, <3>4, FailureCommits DEF Answer
    <2>. QED  BY <2>2, <2>3
  <1>4. ASSUME UNCHANGED request
        PROVE  \A q \in Requests : Committed(q)'
    BY <1>1, <1>4 DEF request, Committed
  <1>5. \A q \in Requests : Committed(q)'
    BY <1>2, <1>3, <1>4 DEF Next, RequestStep, vars, request, SuccessLands, CooldownEnds,
                            AvoidanceEnds, BindingExpires
  <1>. QED  BY <1>5 DEF StreamInv

LEMMA InitStream == ~StreamsBreak /\ Init => StateInv /\ StreamInv
  <1>. SUFFICES ASSUME ~StreamsBreak, Init PROVE StateInv /\ StreamInv
    OBVIOUS
  <1>. QED  BY InitState DEF Init, StreamInv, Committed

LEMMA NextStream == StateInv /\ StreamInv /\ [Next]_vars => StateInv' /\ StreamInv'
  BY NextState, NextCommits

\* After the first byte of a response the request stays with the channel it came
\* from, as long as an upstream connection dies only before it has sent anything:
\* whatever goes wrong later ends the request (chatSurface.ts:830).
THEOREM StreamStays == ~StreamsBreak /\ Spec => NoSwitchAfterFirstByte
  <1>1. ASSUME StateInv, StreamInv, [Next]_vars, NEW r \in Requests, wire[r] # 0
        PROVE  tried'[r] = tried[r]
    <2>1. ASSUME NEW q \in Requests, Select(q)
          PROVE  tried'[r] = tried[r]
      <3>1. q # r
        BY <1>1, <2>1, SelectTries DEF StateInv, StreamInv, Committed
      <3>. QED  BY <1>1, <2>1, <3>1, SelectTries DEF StateInv, LoopInv, Shape
    <2>2. ASSUME NEW q \in Requests, Lease(q) \/ Answer(q) \/ ChargeFailure(q) \/ FirstByte(q)
          PROVE  tried'[r] = tried[r]
      BY <1>1, <2>2, MovesGoOn DEF GoesOn
    <2>. QED  BY <1>1, <2>1, <2>2 DEF Next, RequestStep, vars, request, SuccessLands,
                 CooldownEnds, AvoidanceEnds, BindingExpires
  <1>2. StateInv /\ StreamInv /\ [Next]_vars =>
            [\A r \in Requests : wire[r] # 0 => tried'[r] = tried[r]]_vars
    BY <1>1
  <1>. QED  BY <1>2, InitStream, NextStream, PTL DEF Spec, NoSwitchAfterFirstByte

-----------------------------------------------------------------------------
(***************************************************************************)
(* The loop implements the contract of RequestContract                     *)
(***************************************************************************)

\* The three things the contract speaks of.
AttemptsOf(r) == [i \in 1..Len(tried[r]) |-> tried[r][i].channel]
Begun(r) == wire[r] # 0
ReplyOf(r) == IF result[r] = "pending" THEN "none"
              ELSE IF result[r] = "success" THEN "answer" ELSE "error"

\* What a step does to the tried channels, the first byte and the result of requests.
Tries(r) ==
    /\ \E a : /\ Offered(r, a)
              /\ tried' = [tried EXCEPT ![r] = Append(tried[r], a)]
    /\ pc[r] \in {"select", "refresh"}
    /\ UNCHANGED <<wire, result>>
Begins(r) ==
    /\ tried[r] # << >> /\ result[r] = "pending"
    /\ wire' = [wire EXCEPT ![r] = Len(tried[r])]
    /\ UNCHANGED <<tried, result>>
Ends(r) ==
    /\ result[r] = "pending"
    /\ result'[r] = "success" => tried[r] # << >>
    /\ \A q \in Requests \ {r} : result'[q] = result[q]
    /\ UNCHANGED <<tried, wire>>

LEMMA StepKinds ==
    ASSUME StateInv, [Next]_vars
    PROVE  \/ \E r \in Requests : Tries(r) \/ Begins(r) \/ Ends(r)
           \/ UNCHANGED <<tried, wire, result>>
  <1>1. \A r \in Requests : pc[r] # "done" => result[r] = "pending"
    BY DEF StateInv, LoopInv, Ending
  <1>2. ASSUME NEW r \in Requests, Select(r)
        PROVE  Tries(r) \/ Ends(r)
    BY <1>1, <1>2, SelectTries DEF StateInv, Tries, Ends
  <1>3. ASSUME NEW r \in Requests, Lease(r) \/ Answer(r) \/ ChargeFailure(r)
        PROVE  Ends(r)
    <2>1. GoesOn(r) /\ UNCHANGED wire
      BY <1>3, MovesGoOn DEF Lease, AcquireLease, LeaseTimesOut, Answer, Succeed, UpstreamFails,
                             StreamFails, StreamBreaks, CannotWrite, Fails, ChargeFailure
    <2>. QED  BY <1>1, <2>1 DEF GoesOn, Ends
  <1>4. ASSUME NEW r \in Requests, FirstByte(r)
        PROVE  Begins(r)
    BY <1>1, <1>4, MovesGoOn DEF FirstByte, Begins, GoesOn
  <1>. QED  BY <1>2, <1>3, <1>4 DEF Next, RequestStep, vars, request, SuccessLands,
               CooldownEnds, AvoidanceEnds, BindingExpires

\* A further attempt is a further channel of the contract.
LEMMA AttemptsGrow ==
    ASSUME LoopInv, NEW r \in Requests, NEW a \in Attempt, tried'[r] = Append(tried[r], a)
    PROVE  AttemptsOf(r)' = Append(AttemptsOf(r), a.channel)
  <1>1. tried[r] \in Seq(Attempt) /\ Len(tried[r]) \in Nat
    BY DEF LoopInv, Shape
  <1>. DEFINE n == Len(tried[r])
  <1>2. /\ Len(tried'[r]) = n + 1 /\ tried'[r][n + 1] = a
        /\ \A i \in 1..n : tried'[r][i] = tried[r][i]
    BY <1>1
  <1>3. AttemptsOf(r)' = [i \in 1..(n + 1) |-> tried'[r][i].channel]
    BY <1>2 DEF AttemptsOf
  <1>4. AttemptsOf(r) \in Seq(Channels) /\ Len(AttemptsOf(r)) = n
    <2>1. \A i \in 1..n : tried[r][i].channel \in Channels
      <3>1. \A i \in 1..n : tried[r][i] \in Attempt
        BY <1>1
      <3>. QED  BY <3>1 DEF Attempt
    <2>2. AttemptsOf(r) \in [1..n -> Channels] /\ n \in Nat
      BY <1>1, <2>1 DEF AttemptsOf
    <2>3. \A S : \A m \in Nat : \A f \in [1..m -> S] : f \in Seq(S) /\ Len(f) = m
      OBVIOUS
    <2>. QED  BY <2>2, <2>3
  <1>5. a.channel \in Channels
    BY DEF Attempt
  <1>6. Append(AttemptsOf(r), a.channel) =
            [i \in 1..(n + 1) |-> IF i = n + 1 THEN a.channel ELSE AttemptsOf(r)[i]]
    BY <1>1, <1>4, <1>5
  <1>7. \A i \in 1..(n + 1) :
            tried'[r][i].channel = IF i = n + 1 THEN a.channel ELSE AttemptsOf(r)[i]
    BY <1>1, <1>2 DEF AttemptsOf
  <1>. QED  BY <1>3, <1>6, <1>7

\* A selection is an attempt of the contract: it is new or a pool, and the request
\* has neither begun to answer nor used up its attempts.
LEMMA TriesAttempts ==
    ASSUME StateInv, StreamInv, NEW r \in Requests, Tries(r)
    PROVE  [Contract!ContractNext]_(Contract!contractVars)
  <1>1. PICK a : Offered(r, a) /\ tried' = [tried EXCEPT ![r] = Append(tried[r], a)]
    BY DEF Tries
  <1>2. a \in Attempt /\ a.channel \in Channels /\ (a.channel \in Units \/ a.channel \notin Tried(r))
    BY <1>1, OfferedIsFresh DEF Offered, Attempt
  <1>3. tried \in [Requests -> Seq(Attempt)]
    BY DEF StateInv, LoopInv, Shape
  <1>4. pc[r] \in {"select", "refresh"} /\ result[r] = "pending" /\ wire[r] = 0
    BY DEF Tries, StateInv, LoopInv, Ending, StreamInv, Committed
  <1>5. Len(tried[r]) < MaxAttempts
    BY <1>3, <1>4, FailoverAssumption DEF StateInv, LoopInv, Budget
  <1>. DEFINE all == [q \in Requests |-> AttemptsOf(q)]
  <1>6. AttemptsOf(r)' = Append(AttemptsOf(r), a.channel)
    BY <1>1, <1>2, <1>3, AttemptsGrow DEF StateInv
  <1>7. ASSUME NEW q \in Requests, q # r PROVE AttemptsOf(q)' = AttemptsOf(q)
    BY <1>1, <1>3, <1>7 DEF AttemptsOf
  <1>8. all' = [all EXCEPT ![r] = Append(AttemptsOf(r), a.channel)]
    <2>1. all' = [q \in Requests |-> AttemptsOf(q)']
      OBVIOUS
    <2>2. [all EXCEPT ![r] = Append(AttemptsOf(r), a.channel)] =
             [q \in Requests |-> IF q = r THEN Append(AttemptsOf(r), a.channel) ELSE AttemptsOf(q)]
      OBVIOUS
    <2>. QED  BY <1>6, <1>7, <2>1, <2>2
  <1>9. Contract!Attempt(r, a.channel)
    <2>1. all[r] = AttemptsOf(r) /\ Len(AttemptsOf(r)) = Len(tried[r])
      BY <1>3 DEF AttemptsOf
    <2>2. a.channel \in Units \/ a.channel \notin {all[r][i] : i \in 1..Len(all[r])}
      BY <1>2, <2>1 DEF AttemptsOf, Tried
    <2>3. UNCHANGED <<wire, result>>
      BY DEF Tries
    <2>4. all' = [all EXCEPT ![r] = Append(all[r], a.channel)]
      BY <1>8, <2>1
    <2>. QED  BY <1>4, <1>5, <2>1, <2>2, <2>3, <2>4
              DEF Contract!Attempt, Contract!Attempted, AttemptsOf
  <1>. QED  BY <1>2, <1>9 DEF Contract!ContractNext

LEMMA BeginsBegins ==
    ASSUME StateInv, NEW r \in Requests, Begins(r)
    PROVE  [Contract!ContractNext]_(Contract!contractVars)
  <1>1. Len(tried[r]) # 0 /\ Len(tried[r]) \in Nat /\ wire \in [Requests -> Nat]
    BY DEF Begins, StateInv, LoopInv, Shape
  <1>2. [q \in Requests |-> wire[q] # 0]' = [[q \in Requests |-> wire[q] # 0] EXCEPT ![r] = TRUE]
    BY <1>1 DEF Begins
  <1>3. [i \in 1..Len(tried[r]) |-> tried[r][i].channel] # << >>
    <2>. DEFINE channels == [i \in 1..Len(tried[r]) |-> tried[r][i].channel]
    <2>1. 1 \in DOMAIN channels
      BY <1>1
    <2>2. DOMAIN << >> = {}
      OBVIOUS
    <2>. HIDE DEF channels
    <2>3. channels # << >>
      BY <2>1, <2>2
    <2>. QED  BY <2>3 DEF channels
  <1>4. Contract!Begin(r)
    BY <1>2, <1>3 DEF Contract!Begin, Begins
  <1>. QED  BY <1>4 DEF Contract!ContractNext

LEMMA EndsReplies ==
    ASSUME StateInv, NEW r \in Requests, Ends(r)
    PROVE  [Contract!ContractNext]_(Contract!contractVars)
  <1>. DEFINE replies == [q \in Requests |-> ReplyOf(q)]
  <1>1. UNCHANGED <<tried, wire>>
    BY DEF Ends
  <1>2. replies' = [replies EXCEPT ![r] = ReplyOf(r)']
    BY DEF Ends, ReplyOf
  <1>3. CASE result'[r] = "pending"
    <2>1. \A q \in Requests : ReplyOf(q)' = ReplyOf(q)
      BY <1>3 DEF Ends, ReplyOf
    <2>2. replies' = replies
      BY <2>1
    <2>. QED  BY <1>1, <2>2 DEF Contract!contractVars, ReplyOf
  <1>4. CASE result'[r] # "pending"
    <2>1. PICK what \in {"answer", "error"} :
              what = ReplyOf(r)' /\ (what = "answer" => tried[r] # << >>)
      BY <1>4 DEF Ends, ReplyOf
    <2>2. tried[r] # << >> => [i \in 1..Len(tried[r]) |-> tried[r][i].channel] # << >>
      BY DEF StateInv, LoopInv, Shape
    <2>3. result[r] = "pending" /\ replies' = [replies EXCEPT ![r] = what]
      BY <1>2, <2>1 DEF Ends
    <2>4. Contract!Reply(r, what)
      BY <1>1, <2>1, <2>2, <2>3 DEF Contract!Reply, ReplyOf
    <2>. QED  BY <2>4 DEF Contract!ContractNext
  <1>. QED  BY <1>3, <1>4

LEMMA InitContract == Init => Contract!ContractInit
  <1>. SUFFICES ASSUME Init PROVE Contract!ContractInit
    OBVIOUS
  <1>1. \A r \in Requests : [i \in 1..Len(tried[r]) |-> tried[r][i].channel] = << >>
    BY DEF Init
  <1>. QED  BY <1>1 DEF Init, Contract!ContractInit

\* As long as no connection dies after bytes were forwarded, whatever the loop does
\* to a request is a step of the contract, or none of its concern: no channel that
\* is not a pool is attempted twice, none beyond proxyMaxChannelAttempts or after
\* the first byte, and one reply is given (chatSurface.ts, sharedSurface.ts).
THEOREM LoopKeepsContract == ~StreamsBreak /\ Spec => KeepsContract
  <1>1. StateInv /\ StreamInv /\ [Next]_vars =>
            [Contract!ContractNext]_(Contract!contractVars)
    <2>1. UNCHANGED <<tried, wire, result>> => UNCHANGED Contract!contractVars
      BY DEF Contract!contractVars
    <2>. QED  BY <2>1, StepKinds, TriesAttempts, BeginsBegins, EndsReplies
  <1>. QED  BY <1>1, InitContract, InitStream, NextStream, PTL
            DEF Spec, KeepsContract, Contract!ContractSpec

-----------------------------------------------------------------------------
(***************************************************************************)
(* Who is charged, where a channel and its account are one                 *)
(***************************************************************************)

\* The surfaces name a channel and not the member that served: what is booked lands
\* on the row's owner.  That is who served it when no pool has another member.
OwnersServe == \A u \in Units : Pool[u] = {Owner[u]}

\* Every attempt was dispatched to whom it is booked on.
ServedByOwner(r) ==
    \A i \in 1..Len(tried[r]) :
        tried[r][i].subject = IF tried[r][i].channel \in Units THEN Owner[tried[r][i].channel]
                              ELSE tried[r][i].channel

ServedInv == OwnersServe /\ \A r \in Requests : ServedByOwner(r)

LEMMA CurrentServed ==
    ASSUME StateInv, ServedInv, NEW r \in Requests, tried[r] # << >>
    PROVE  Current(r).subject = BookedOn(r)
  <1>1. Len(tried[r]) \in 1..Len(tried[r]) /\ Current(r) = tried[r][Len(tried[r])]
    BY CurrentFacts DEF StateInv
  <1>. QED  BY <1>1 DEF ServedInv, ServedByOwner, BookedOn

LEMMA NextServed ==
    ASSUME StateInv, ServedInv, [Next]_vars
    PROVE  ServedInv'
  <1>1. ASSUME UNCHANGED tried
        PROVE  ServedInv'
    BY <1>1 DEF ServedInv, ServedByOwner
  <1>2. ASSUME NEW r \in Requests, Tries(r)
        PROVE  ServedInv'
    <2>1. PICK a : Offered(r, a) /\ tried' = [tried EXCEPT ![r] = Append(tried[r], a)]
      BY <1>2 DEF Tries
    <2>2. tried \in [Requests -> Seq(Attempt)]
      BY DEF StateInv, LoopInv, Shape
    <2>3. a.subject = IF a.channel \in Units THEN Owner[a.channel] ELSE a.channel
      BY <2>1 DEF Offered, SubjectsOf, CandidateMembers, CoolingMembers, ServedInv, OwnersServe
    <2>4. ASSUME NEW q \in Requests
          PROVE  ServedByOwner(q)'
      <3>1. CASE q # r
        <4>1. tried'[q] = tried[q]
          BY <2>1, <2>2, <3>1
        <4>. QED  BY <4>1 DEF ServedInv, ServedByOwner
      <3>2. CASE q = r
        <4>1. /\ tried'[r] = Append(tried[r], a) /\ tried[r] \in Seq(Attempt)
              /\ Len(tried[r]) \in Nat /\ a \in Attempt
          BY <2>1, <2>2 DEF Offered
        <4>2. /\ Len(tried'[r]) = Len(tried[r]) + 1
              /\ \A i \in 1..Len(tried'[r]) :
                    tried'[r][i] = IF i = Len(tried[r]) + 1 THEN a ELSE tried[r][i]
          BY <4>1
        <4>3. \A i \in 1..Len(tried'[r]) : i # Len(tried[r]) + 1 => i \in 1..Len(tried[r])
          BY <4>1, <4>2
        <4>. QED  BY <2>3, <3>2, <4>2, <4>3 DEF ServedInv, ServedByOwner
      <3>. QED  BY <3>1, <3>2
    <2>. QED  BY <2>4 DEF ServedInv, OwnersServe
  <1>. QED  BY <1>1, <1>2, StepKinds DEF Begins, Ends

LEMMA InitServed == OwnersServe /\ Init => ServedInv
  BY DEF Init, ServedInv, ServedByOwner

-----------------------------------------------------------------------------
(* Every failure is charged once, to whom it belongs *)

\* The failures of s that are being booked.
Failing(s) == {r \in Requests : pc[r] = "charge" /\ due[r].fault /\ Current(r).subject = s}

\* Whatever is being booked is the fault of its subject.
BlameInv ==
    /\ \A r \in Requests : pc[r] = "charge" => due[r].fault
    /\ \A s \in Subjects : balance[s] = Cardinality(Failing(s))

LEMMA FailingFinite ==
    ASSUME NEW s
    PROVE  IsFiniteSet(Failing(s)) /\ Cardinality(Failing(s)) \in Nat
  <1>1. Failing(s) \in SUBSET Requests /\ IsFiniteSet(Requests)
    BY FailoverAssumption DEF Failing
  <1>. QED  BY <1>1, FS_Subset, FS_CardinalityType

\* A step that books nothing and does not fail.
LEMMA NoBlame ==
    ASSUME BlameInv, UNCHANGED balance,
           \A q \in Requests :
              \/ pc[q] # "charge" /\ pc'[q] # "charge"
              \/ pc'[q] = pc[q] /\ due'[q] = due[q] /\ tried'[q] = tried[q]
    PROVE  BlameInv'
  <1>1. ASSUME NEW s \in Subjects
        PROVE  Failing(s)' = Failing(s)
    BY DEF Failing, Current
  <1>. QED  BY <1>1 DEF BlameInv

LEMMA FailureBlames ==
    ASSUME StateInv, BlameInv, NEW r \in Requests, NEW limit, NEW retryable,
           Fails(r, limit, retryable, TRUE)
    PROVE  BlameInv'
  <1>1. tried[r] # << >> /\ pc[r] = "exchange" /\ tried' = tried
    BY DEF Fails, StateInv, LoopInv, Budget
  <1>. PICK own \in Subjects : own = Current(r).subject
    BY <1>1, CurrentFacts DEF StateInv, Attempt
  <1>2. balance \in [Subjects -> Int]
    BY DEF StateInv, Rest
  <1>3. pc'[r] = "charge" /\ \A q \in Requests \ {r} : pc'[q] = pc[q]
    BY DEF Fails, StateInv, LoopInv, Shape
  <1>4. due'[r].fault = TRUE /\ \A q \in Requests \ {r} : due'[q] = due[q]
    BY DEF Fails, StateInv, Rest
  <1>5. balance' = [balance EXCEPT ![own] = balance[own] + 1]
    BY <1>2 DEF Fails
  <1>6. Failing(own)' = Failing(own) \cup {r} /\ r \notin Failing(own)
    BY <1>1, <1>3, <1>4 DEF Failing, Current
  <1>7. \A s \in Subjects \ {own} : Failing(s)' = Failing(s)
    BY <1>1, <1>3, <1>4 DEF Failing, Current
  <1>. DEFINE now == Failing(own)
              next == Failing(own)'
  <1>8. Cardinality(next) = Cardinality(now) + 1
    <2>1. IsFiniteSet(now) /\ next = now \cup {r} /\ r \notin now
      BY <1>6, FailingFinite
    <2>. HIDE DEF now, next
    <2>. QED  BY <2>1, FS_AddElement
  <1>9. \A s \in Subjects : balance'[s] = Cardinality(Failing(s)')
    <2>1. balance'[own] = Cardinality(next)
      BY <1>2, <1>5, <1>8 DEF BlameInv
    <2>2. ASSUME NEW s \in Subjects, s # own PROVE balance'[s] = Cardinality(Failing(s)')
      <3>1. balance'[s] = balance[s] /\ Failing(s)' = Failing(s)
        BY <1>2, <1>5, <1>7, <2>2
      <3>. QED  BY <3>1 DEF BlameInv
    <2>. QED  BY <2>1, <2>2
  <1>. QED  BY <1>3, <1>4, <1>9 DEF BlameInv

LEMMA ChargeBlames ==
    ASSUME StateInv, ServedInv, BlameInv, NEW r \in Requests, ChargeFailure(r)
    PROVE  BlameInv'
  <1>1. tried[r] # << >> /\ pc[r] = "charge" /\ tried' = tried
    BY DEF ChargeFailure, StateInv, LoopInv, Budget
  <1>. PICK own \in Subjects : own = BookedOn(r)
    BY <1>1, CurrentFacts DEF StateInv
  <1>2. balance \in [Subjects -> Int] /\ Current(r).subject = own
    BY <1>1, CurrentServed DEF StateInv, Rest
  <1>3. pc'[r] # "charge" /\ \A q \in Requests \ {r} : pc'[q] = pc[q]
    BY DEF ChargeFailure, RetryOrFinish, Finish, StateInv, LoopInv, Shape
  <1>4. \A q \in Requests \ {r} : due'[q] = due[q]
    BY DEF ChargeFailure, StateInv, Rest
  <1>5. balance' = [balance EXCEPT ![own] = balance[own] - 1]
    BY <1>2 DEF ChargeFailure
  <1>6. Failing(own)' = Failing(own) \ {r} /\ r \in Failing(own)
    <2>1. r \in Failing(own)
      BY <1>1, <1>2 DEF Failing, BlameInv
    <2>. QED  BY <1>1, <1>3, <1>4, <2>1 DEF Failing, Current
  <1>7. \A s \in Subjects \ {own} : Failing(s)' = Failing(s)
    BY <1>1, <1>2, <1>3, <1>4 DEF Failing, Current
  <1>. DEFINE now == Failing(own)
              next == Failing(own)'
  <1>8. Cardinality(next) = Cardinality(now) - 1
    <2>1. IsFiniteSet(now) /\ next = now \ {r} /\ r \in now
      BY <1>6, FailingFinite
    <2>. HIDE DEF now, next
    <2>. QED  BY <2>1, FS_RemoveElement
  <1>9. \A s \in Subjects : balance'[s] = Cardinality(Failing(s)')
    <2>1. balance'[own] = Cardinality(next)
      BY <1>2, <1>5, <1>8 DEF BlameInv
    <2>2. ASSUME NEW s \in Subjects, s # own PROVE balance'[s] = Cardinality(Failing(s)')
      <3>1. balance'[s] = balance[s] /\ Failing(s)' = Failing(s)
        BY <1>2, <1>5, <1>7, <2>2
      <3>. QED  BY <3>1 DEF BlameInv
    <2>. QED  BY <2>1, <2>2
  <1>. QED  BY <1>3, <1>4, <1>9 DEF BlameInv

LEMMA NextBlames ==
    ASSUME StateInv, StreamInv, ServedInv, BlameInv, [Next]_vars
    PROVE  BlameInv'
  <1>1. ASSUME NEW r \in Requests, Select(r)
        PROVE  BlameInv'
    <2>1. UNCHANGED <<due, balance>>
      BY <1>1 DEF Select, SelectForced, SelectSticky, SelectAny, AfterRefresh
    <2>2. pc[r] # "charge" /\ pc'[r] # "charge"
      <3>1. \A a, mark : Pick(r, a, mark) => pc'[r] = "lease"
        BY DEF Pick, StateInv, LoopInv, Shape
      <3>2. \A c : StartRefresh(r, c) => pc'[r] = "refresh"
        BY DEF StartRefresh, StateInv, LoopInv, Shape
      <3>3. \A how : Finish(r, how) => pc'[r] = "done"
        BY DEF Finish, StateInv, LoopInv, Shape
      <3>. QED  BY <1>1, <3>1, <3>2, <3>3
                DEF Select, SelectForced, SelectSticky, SelectAny, AfterRefresh, PickAnyOrRefuse
    <2>3. ASSUME NEW q \in Requests, q # r PROVE tried'[q] = tried[q] /\ pc'[q] = pc[q]
      BY <1>1, <2>3, SelectTries DEF StateInv, LoopInv, Shape
    <2>. QED  BY <2>1, <2>2, <2>3, NoBlame
  <1>2. ASSUME NEW r \in Requests, Lease(r) \/ Succeed(r) \/ FirstByte(r)
        PROVE  BlameInv'
    <2>1. UNCHANGED <<due, balance, tried>>
      BY <1>2 DEF Lease, AcquireLease, LeaseTimesOut, Succeed, FirstByte
    <2>2. pc[r] # "charge" /\ pc'[r] # "charge"
      BY <1>2 DEF Lease, AcquireLease, LeaseTimesOut, RetryOrFinish, Succeed, Finish, FirstByte,
                  StateInv, LoopInv, Shape
    <2>3. \A q \in Requests \ {r} : pc'[q] = pc[q]
      BY <1>2, MovesGoOn DEF Answer, GoesOn
    <2>. QED  BY <2>1, <2>2, <2>3, NoBlame
  <1>3. ASSUME NEW r \in Requests,
               UpstreamFails(r) \/ StreamFails(r) \/ StreamBreaks(r) \/ CannotWrite(r)
        PROVE  BlameInv'
    <2>1. ~AlreadyAnswering(r)
      BY DEF StreamInv, Committed, AlreadyAnswering
    <2>2. \E limit, retryable : Fails(r, limit, retryable, TRUE)
      BY <1>3, <2>1 DEF UpstreamFails, StreamFails, StreamBreaks, CannotWrite
    <2>. QED  BY <2>2, FailureBlames
  <1>4. ASSUME UNCHANGED request, UNCHANGED balance
        PROVE  BlameInv'
    BY <1>4, NoBlame DEF request
  <1>. QED  BY <1>1, <1>2, <1>3, <1>4, ChargeBlames
            DEF Next, RequestStep, Answer, vars, request, SuccessLands, CooldownEnds,
                AvoidanceEnds, BindingExpires

LEMMA InitBlames == Init => BlameInv
  <1>. SUFFICES ASSUME Init PROVE BlameInv
    OBVIOUS
  <1>1. \A s \in Subjects : Failing(s) = {} /\ balance[s] = 0
    BY DEF Init, Failing
  <1>2. Cardinality({}) = 0
    BY FS_EmptySet
  <1>. QED  BY <1>1, <1>2 DEF Init, BlameInv

\* Every failed exchange is charged exactly once, to the channel that failed, by
\* whichever exit the loop takes (every call of recordFailure): where each pool has
\* its row's account for only member, and no connection dies after its first byte
\* (then the next attempt is charged for not being able to write).
THEOREM FailuresAreOwn ==
    OwnersServe /\ ~StreamsBreak /\ Spec => []ChargedForOwnFailures
  <1>. DEFINE All == StateInv /\ StreamInv /\ ServedInv /\ BlameInv
  <1>1. OwnersServe /\ ~StreamsBreak /\ Init => All
    BY InitStream, InitServed, InitBlames
  <1>2. All /\ [Next]_vars => All'
    BY NextStream, NextServed, NextBlames
  <1>3. All => ChargedForOwnFailures
    BY DEF BlameInv, Failing, ChargedForOwnFailures
  <1>. QED  BY <1>1, <1>2, <1>3, PTL DEF Spec

-----------------------------------------------------------------------------
(* What ends a cooldown *)

\* One failure is enough to cool: no strategy of the route or of its pools counts
\* to a threshold first, and writes a row without a cooldown on the way.
CoolsAtOnce == Strategy # "round_robin" /\ (Units = {} \/ UnitSticks)

\* A charge leaves its rows cooling.
LEMMA ChargeCools ==
    ASSUME CoolsAtOnce, NEW r \in Requests, ChargeFailure(r), NEW s \in Subjects,
           health[s].cooling
    PROVE  health'[s].cooling
  <1>1. CASE s \notin Affected(r)
    BY <1>1 DEF ChargeFailure, HealthAfter
  <1>2. CASE s \in Affected(r)
    <2>1. \/ health'[s] = UsageLimited
          \/ \E row, isMember : health'[s] = Charged(row, FALSE, isMember)
      BY <1>2 DEF ChargeFailure, HealthAfter, CoolsAtOnce
    <2>2. \A row, isMember : Charged(row, FALSE, isMember).cooling = TRUE
      BY DEF Charged
    <2>3. UsageLimited.cooling = TRUE
      BY DEF UsageLimited
    <2>. QED  BY <2>1, <2>2, <2>3
  <1>. QED  BY <1>1, <1>2

\* A success ends the cooldown of nobody but who served it.
LEMMA SuccessWarms ==
    ASSUME StateInv, ServedInv, NEW r \in Requests, tried[r] # << >>, BookSuccess(r),
           NEW s \in Subjects, health[s].cooling, ~health'[s].cooling
    PROVE  Current(r).subject = s
  <1>1. health' = [health EXCEPT ![BookedOn(r)] = Healthy] /\ health \in [Subjects -> Health]
    BY DEF BookSuccess, StateInv, Rest
  <1>2. s = BookedOn(r)
    BY <1>1
  <1>. QED  BY <1>2, CurrentServed

\* A cooldown lasts until its time is over or its own channel has answered a
\* request: no further failure and no other's success ends it (the writes of
\* recordFailure and recordSuccess), where one failure is enough to start it and
\* each pool has its row's account for only member.
THEOREM CooldownStays == OwnersServe /\ CoolsAtOnce /\ Spec => CooldownLasts
  <1>. DEFINE Ended(s) ==
                \/ request' = request /\ owed' = owed
                \/ \E r \in Requests :
                      /\ tried[r] # << >>
                      /\ Current(r).subject = s
                      /\ result'[r] = "success"
                      /\ result[r] = "pending" \/ r \in owed
              Inv == StateInv /\ ServedInv /\ CoolsAtOnce
  <1>1. ASSUME Inv, [Next]_vars, NEW s \in Subjects, health[s].cooling, ~health'[s].cooling
        PROVE  Ended(s)
    <2>1. ASSUME NEW r \in Requests, Select(r) \/ Lease(r) \/ FirstByte(r)
          PROVE  health' = health
      BY <2>1 DEF Select, SelectForced, SelectSticky, SelectAny, AfterRefresh, Lease,
                  AcquireLease, LeaseTimesOut, FirstByte
    <2>2. ASSUME NEW r \in Requests, Succeed(r), BookSuccess(r)
          PROVE  Ended(s)
      <3>1. tried[r] # << >> /\ result[r] = "pending" /\ result'[r] = "success"
        <4>1. pc[r] = "exchange" /\ result' = [result EXCEPT ![r] = "success"]
          BY <2>2 DEF Succeed, Finish
        <4>. QED  BY <1>1, <4>1 DEF StateInv, LoopInv, Shape, Budget, Ending
      <3>2. Current(r).subject = s
        BY <1>1, <2>2, <3>1, SuccessWarms
      <3>. QED  BY <3>1, <3>2
    <2>3. ASSUME NEW r \in Requests, SuccessLands(r)
          PROVE  Ended(s)
      <3>1. r \in owed /\ tried[r] # << >> /\ result'[r] = "success" /\ BookSuccess(r)
        BY <1>1, <2>3 DEF SuccessLands, request, StateInv, Wired
      <3>2. Current(r).subject = s
        BY <1>1, <3>1, SuccessWarms
      <3>. QED  BY <3>1, <3>2
    <2>4. ASSUME NEW r \in Requests, Answer(r), ~Succeed(r) \/ ~BookSuccess(r)
          PROVE  health' = health
      BY <2>4 DEF Answer, Succeed, UpstreamFails, StreamFails, StreamBreaks, CannotWrite, Fails
    <2>5. ASSUME NEW r \in Requests, Answer(r)
          PROVE  Ended(s)
      BY <1>1, <2>2, <2>4, <2>5
    <2>6. ASSUME NEW r \in Requests, ChargeFailure(r)
          PROVE  FALSE
      BY <1>1, <2>6, ChargeCools
    <2>. QED  BY <1>1, <2>1, <2>3, <2>5, <2>6
              DEF Next, RequestStep, vars, CooldownEnds, AvoidanceEnds, BindingExpires
  <1>2. Inv /\ [Next]_vars => [\A s \in Subjects :
            health[s].cooling /\ ~health'[s].cooling => Ended(s)]_vars
    BY <1>1
  <1>3. OwnersServe /\ CoolsAtOnce /\ Init => Inv
    BY InitState, InitServed
  <1>4. Inv /\ [Next]_vars => Inv'
    BY NextState, NextServed DEF CoolsAtOnce
  <1>. QED  BY <1>2, <1>3, <1>4, PTL DEF Spec, CooldownLasts

-----------------------------------------------------------------------------
(* When nothing is left *)

\* Whatever numbers there are, one of them is the least.
LEMMA OneIsLeast ==
    ASSUME NEW T \in SUBSET Nat, T # {}
    PROVE  \E x \in T : \A y \in T : x <= y
  <1>. DEFINE R == OpToRel(<, Nat)
  <1>1. IsWellFoundedOn(R, Nat)
    BY NatLessThanWellFounded
  <1>2. \A x, y \in Nat : x < y => <<x, y>> \in R
    BY DEF OpToRel
  <1>. HIDE DEF R
  <1>3. PICK x \in T : \A y \in T : ~(<<y, x>> \in R)
    BY <1>1, WFMin
  <1>4. \A y \in T : ~(y < x)
    BY <1>2, <1>3
  <1>. QED  BY <1>4

\* A pool with members to choose from has one whose turn it is.
LEMMA SomeoneIsNext ==
    ASSUME picked \in Seq(Subjects), NEW r, NEW u \in Units, CandidateMembers(r, u) # {}
    PROVE  SubjectsOf(r, u) # {}
  <1>. DEFINE members == CandidateMembers(r, u)
              Last(m) == IF UnitSticks THEN Len(picked) - LastSelected(m) ELSE LastSelected(m)
              lasts == {Last(m) : m \in members}
  <1>1. \A m : LastSelected(m) \in 0..Len(picked) /\ Len(picked) \in Nat
    BY RankIsPlace
  <1>2. \A m : Last(m) \in Nat
    BY <1>1
  <1>3. \A m \in members : Rank(m) \in 1..Len(SortOrder) /\ SortOrder[Rank(m)] = m
    BY OrderAssumption DEF CandidateMembers, Rank
  <1>4. Len(SortOrder) \in Nat
    BY OrderAssumption
  <1>5. PICK first \in lasts : \A y \in lasts : first <= y
    BY <1>2, OneIsLeast
  <1>. DEFINE tied == {m \in members : Last(m) = first}
              ranks == {Rank(m) : m \in tied}
  <1>6. tied # {}
    BY <1>5
  <1>7. ranks \in SUBSET Nat /\ ranks # {}
    BY <1>3, <1>4, <1>6
  <1>8. PICK m \in tied : \A n \in tied : Rank(m) <= Rank(n)
    <2>1. PICK x \in ranks : \A y \in ranks : x <= y
      BY <1>7, OneIsLeast
    <2>. QED  BY <2>1
  <1>9. ASSUME NEW n \in members
        PROVE  Precedes(m, n)
    <2>1. Last(m) <= Last(n)
      BY <1>5, <1>8
    <2>2. CASE Last(m) = Last(n)
      <3>1. Rank(m) <= Rank(n) /\ (Rank(m) = Rank(n) => m = n)
        BY <1>3, <1>8, <2>2
      <3>2. LastSelected(m) = LastSelected(n)
        BY <1>1, <2>2
      <3>. QED  BY <1>3, <1>4, <3>1, <3>2 DEF Precedes
    <2>3. CASE Last(m) # Last(n)
      <3>1. IF UnitSticks THEN LastSelected(m) > LastSelected(n)
                          ELSE LastSelected(m) < LastSelected(n)
        BY <1>1, <2>1, <2>3
      <3>. QED  BY <3>1 DEF Precedes
    <2>. QED  BY <2>2, <2>3
  <1>. QED  BY <1>8, <1>9 DEF SubjectsOf

\* A member that no row of a pool names: failures are never booked on it.
Spare(u, m) == m \in Pool[u] /\ \A v \in Units : Owner[v] # m

\* Pools that hide nothing: whose members rest only as long as they cool, or
\* that have a spare member, or that share no layer with an ordinary channel.
PoolsHideNothing ==
    \A u \in Units :
        \/ UnitSticks
        \/ \E m : Spare(u, m)
        \/ \A c \in Channels \ Units : Layer(c) # Layer(u)

\* Who is avoided after a failure, and who never is.
RestInv ==
    /\ UnitSticks => \A s \in Subjects : health[s].recent => health[s].cooling
    /\ \A u \in Units : \A m : Spare(u, m) => ~health[m].recent /\ ~health[m].cooling

\* What is booked on is a channel or the account of a row.
LEMMA SpareIsSpared ==
    ASSUME StateInv, NEW r \in Requests, tried[r] # << >>, NEW u \in Units, NEW m, Spare(u, m)
    PROVE  m \notin Affected(r) /\ m \in Subjects
  <1>1. m \in Accounts /\ m \in Subjects /\ m \notin Channels
    BY FailoverAssumption DEF Spare, Subjects
  <1>2. Current(r).channel \in Channels
    BY CurrentFacts DEF StateInv, Attempt
  <1>3. BookedOn(r) # m
    BY <1>1, <1>2 DEF BookedOn, Spare
  <1>4. Current(r).channel \notin Units => Siblings[BookedOn(r)] \subseteq Channels
    BY <1>2, FailoverAssumption DEF BookedOn
  <1>. QED  BY <1>1, <1>3, <1>4 DEF Affected

LEMMA InitRest == Init => RestInv
  <1>1. \A u \in Units : \A m : Spare(u, m) => m \in Subjects
    BY DEF Spare, Subjects
  <1>. QED  BY <1>1 DEF Init, Healthy, RestInv

LEMMA SuccessRests ==
    ASSUME StateInv, RestInv, NEW r \in Requests, tried[r] # << >>, BookSuccess(r)
    PROVE  RestInv'
  <1>1. health' = [health EXCEPT ![BookedOn(r)] = Healthy] /\ health \in [Subjects -> Health]
    BY DEF BookSuccess, StateInv, Rest
  <1>2. ASSUME NEW s \in Subjects
        PROVE  health'[s] = health[s] \/ health'[s] = Healthy
    BY <1>1
  <1>3. ~Healthy.recent /\ ~Healthy.cooling
    BY DEF Healthy
  <1>4. \A u \in Units : \A m : Spare(u, m) => m \in Subjects
    BY DEF Spare, Subjects
  <1>5. \A u, m : Spare(u, m)' <=> Spare(u, m)
    BY DEF Spare
  <1>. QED  BY <1>2, <1>3, <1>4, <1>5 DEF RestInv

LEMMA ChargeRests ==
    ASSUME StateInv, RestInv, NEW r \in Requests, ChargeFailure(r)
    PROVE  RestInv'
  <1>1. tried[r] # << >> /\ health' = HealthAfter(r)
    BY DEF ChargeFailure, StateInv, LoopInv, Budget
  <1>2. \A s \in Subjects \ Affected(r) : health'[s] = health[s]
    BY <1>1 DEF HealthAfter
  <1>3. \A u, m : Spare(u, m)' <=> Spare(u, m)
    BY DEF Spare
  <1>4. \A u \in Units : \A m : Spare(u, m) => health'[m] = health[m]
    BY <1>1, <1>2, SpareIsSpared
  <1>5. ASSUME UnitSticks, NEW s \in Subjects, s \in Affected(r), health'[s].recent
        PROVE  health'[s].cooling
    <2>. DEFINE row == IF OneStepRecords THEN health[BookedOn(r)] ELSE due[r].row
                member == Current(r).channel \in Units
                byThreshold == IF member THEN FALSE ELSE Strategy = "round_robin"
    <2>1. health'[s] = UsageLimited \/ health'[s] = Charged(row, byThreshold, member)
      BY <1>1, <1>5 DEF HealthAfter
    <2>2. UsageLimited.cooling
      BY DEF UsageLimited
    <2>3. member => Charged(row, byThreshold, member).cooling
      BY DEF Charged
    <2>4. ~member => ~Charged(row, byThreshold, member).recent
      BY DEF Charged
    <2>. HIDE DEF row, member, byThreshold
    <2>. QED  BY <1>5, <2>1, <2>2, <2>3, <2>4
  <1>. QED  BY <1>2, <1>3, <1>4, <1>5 DEF RestInv

LEMMA NextRest == StateInv /\ RestInv /\ [Next]_vars => RestInv'
  <1>. SUFFICES ASSUME StateInv, RestInv, [Next]_vars
                PROVE  RestInv'
    OBVIOUS
  <1>1. \A u, m : Spare(u, m)' <=> Spare(u, m)
    BY DEF Spare
  <1>2. CASE UNCHANGED health
    BY <1>1, <1>2 DEF RestInv
  <1>3. ASSUME NEW r \in Requests, Succeed(r) \/ SuccessLands(r), health' # health
        PROVE  RestInv'
    <2>1. tried[r] # << >> /\ BookSuccess(r)
      BY <1>3 DEF Succeed, SuccessLands, StateInv, LoopInv, Budget, Wired
    <2>. QED  BY <2>1, SuccessRests
  <1>4. ASSUME NEW s \in Subjects, CooldownEnds(s) \/ AvoidanceEnds(s)
        PROVE  RestInv'
    <2>1. health \in [Subjects -> Health]
      BY DEF StateInv, Rest
    <2>2. \A x \in Subjects \ {s} : health'[x] = health[x]
      BY <1>4, <2>1 DEF CooldownEnds, AvoidanceEnds
    <2>3. /\ health'[s].cooling => health[s].cooling
          /\ health'[s].recent => health[s].recent
      BY <1>4, <2>1 DEF CooldownEnds, AvoidanceEnds, Health
    <2>4. UnitSticks => ~health'[s].recent
      BY <1>4, <2>1 DEF CooldownEnds, AvoidanceEnds, Health
    <2>5. \A u \in Units : \A m : Spare(u, m) => m \in Subjects
      BY DEF Spare, Subjects
    <2>. QED  BY <1>1, <2>2, <2>3, <2>4, <2>5 DEF RestInv
  <1>5. ASSUME NEW r \in Requests, RequestStep(r) \/ FirstByte(r), ~Succeed(r), ~ChargeFailure(r)
        PROVE  UNCHANGED health
    BY <1>5 DEF RequestStep, Select, SelectForced, SelectSticky, SelectAny, AfterRefresh, Lease,
                AcquireLease, LeaseTimesOut, Answer, UpstreamFails, StreamFails, StreamBreaks,
                CannotWrite, Fails, FirstByte
  <1>6. \A s : BindingExpires(s) => UNCHANGED health
    BY DEF BindingExpires
  <1>. QED  BY <1>2, <1>3, <1>4, <1>5, <1>6, ChargeRests DEF Next, vars

\* A pool that may win the draw of a layer with ordinary channels resolves to somebody.
LEMMA PoolsResolve ==
    ASSUME StateInv, RestInv, PoolsHideNothing, NEW r \in Requests,
           NEW u \in Units, u \in Available(r),
           NEW c \in Channels \ Units, Layer(c) = Layer(u)
    PROVE  SubjectsOf(r, u) # {}
  <1>1. CASE UnitSticks
    <2>1. PICK m \in Pool[u] : ~health[m].cooling
      BY FailoverAssumption DEF Available, CoolingMembers
    <2>2. ~health[m].recent
      BY <1>1, <2>1 DEF RestInv, Subjects
    <2>. QED  BY <2>1, <2>2, SomeoneIsNext DEF CandidateMembers, CoolingMembers, StateInv, Rest
  <1>2. ASSUME NEW m, Spare(u, m)
        PROVE  SubjectsOf(r, u) # {}
    <2>1. m \in Pool[u] /\ ~health[m].cooling /\ ~health[m].recent
      BY <1>2 DEF RestInv, Spare
    <2>. QED  BY <2>1, SomeoneIsNext DEF CandidateMembers, CoolingMembers, StateInv, Rest
  <1>. QED  BY <1>1, <1>2 DEF PoolsHideNothing

\* Where pools hide nothing a layer is passed over only when it has no ordinary
\* channel to offer.
LEMMA NothingOffered ==
    ASSUME StateInv, RestInv, PoolsHideNothing, NEW r \in Requests, MayFindNothing(r),
           NEW c \in Channels \ Units
    PROVE  c \in Tried(r) \/ health[c].cooling
  <1>. SUFFICES ASSUME c \in Available(r) PROVE FALSE
    BY DEF Available
  <1>1. PICK d \in Available(r) : Layer(d) = Layer(c) /\ SubjectsOf(r, d) = {}
    BY DEF MayFindNothing, PassedOver
  <1>2. d \in Units
    BY <1>1 DEF SubjectsOf
  <1>. QED  BY <1>1, <1>2, PoolsResolve

\* "No available channels" is said only when each channel was tried by this request
\* or is cooling at that moment (selectNextChannel; a pool that was tried and whose
\* members rest may win a layer, resolve to nobody and hide the rest of the layer).
THEOREM RefusalIsHonest == PoolsHideNothing /\ Spec => RefusedOnlyWhenNothingLeft
  <1>. DEFINE Inv == StateInv /\ RestInv /\ PoolsHideNothing
  <1>1. ASSUME Inv, [Next]_vars, NEW r \in Requests,
               result[r] = "pending", result'[r] = "no_channel", ForcedChannel[r] = NoChannel,
               NEW c \in Channels \ Units
        PROVE  c \in Tried(r) \/ health[c].cooling
    <2>1. MayFindNothing(r)
      <3>1. ASSUME NEW q \in Requests, Select(q)
            PROVE  q = r /\ MayFindNothing(r)
        <4>1. q = r /\ result' # result
          BY <1>1, <3>1, SelectTries DEF StateInv
        <4>2. \A a, mark : ~Pick(r, a, mark)
          BY <4>1 DEF Pick
        <4>3. \A d : ~StartRefresh(r, d)
          BY <4>1 DEF StartRefresh
        <4>. QED  BY <1>1, <3>1, <4>1, <4>2, <4>3
                  DEF Select, SelectForced, SelectSticky, SelectAny, AfterRefresh, PickAnyOrRefuse
      <3>2. ASSUME NEW q \in Requests, Lease(q) \/ Answer(q) \/ ChargeFailure(q) \/ FirstByte(q)
            PROVE  FALSE
        <4>1. q = r
          BY <1>1, <3>2, MovesGoOn DEF GoesOn
        <4>2. result'[q] \in {result[q], "busy", "success", "failed", "rejected", "cut"}
          BY <1>1, <3>2 DEF Lease, AcquireLease, LeaseTimesOut, RetryOrFinish, Finish, Answer, Succeed,
                     UpstreamFails, StreamFails, StreamBreaks, CannotWrite, Fails, ChargeFailure,
                     FirstByte, StateInv, LoopInv, Shape
        <4>. QED  BY <1>1, <4>1, <4>2
      <3>. QED  BY <1>1, <3>1, <3>2 DEF Next, RequestStep, vars, request, SuccessLands,
                   CooldownEnds, AvoidanceEnds, BindingExpires
    <2>. QED  BY <1>1, <2>1, NothingOffered
  <1>2. Inv /\ [Next]_vars => [\A r \in Requests :
            result[r] = "pending" /\ result'[r] = "no_channel" /\ ForcedChannel[r] = NoChannel
                => \A c \in Channels \ Units : c \in Tried(r) \/ health[c].cooling]_vars
    BY <1>1
  <1>3. PoolsHideNothing /\ Init => Inv
    BY InitState, InitRest
  <1>4. Inv /\ [Next]_vars => Inv'
    BY NextState, NextRest DEF PoolsHideNothing, Spare, Layer
  <1>. QED  BY <1>2, <1>3, <1>4, PTL DEF Spec, RefusedOnlyWhenNothingLeft
===============================================================================
