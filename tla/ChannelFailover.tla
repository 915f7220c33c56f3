---------------------------- MODULE ChannelFailover ----------------------------
(***************************************************************************)
(* The retry loop of a proxied request: select a channel, lease it, talk   *)
(* to its upstream, book the outcome, and on a retryable failure select    *)
(* again among what has not been tried                                     *)
(* (src/src/server/proxy-core/surfaces/chatSurface.ts with sharedSurface,  *)
(* channelSelection and the selection and bookkeeping of tokenRouter).     *)
(*                                                                         *)
(* Requests run concurrently; every action below is the code between two   *)
(* awaits whose order matters.  A "subject" is what carries failure        *)
(* counts and cooldowns: an ordinary channel, or one member account of a   *)
(* channel that stands for a pool of OAuth accounts (a route unit).        *)
(*                                                                         *)
(* Time is abstracted: a cooldown or an avoidance window may end at any    *)
(* moment.  Weights, costs and open site breakers only decide which of the *)
(* available channels wins, so any of them may.                            *)
(***************************************************************************)
EXTENDS Integers, FiniteSets, Sequences

CONSTANTS
    Requests, Sessions, Channels, Accounts,
    NoSession, NoChannel,
    SessionOf,         \* the sticky session key of a request, or NoSession
    ForcedChannel,     \* the channel a tester pins a request to, or NoChannel
    Units,             \* the channels that stand for a pool
    Pool,              \* the member accounts of each of them
    Owner,             \* the account of the channel row itself
    SortOrder,         \* the members in their configured order
    UnitSticks,        \* pool strategy: stick_until_unavailable, else round_robin
    Strategy,          \* the route's: weighted (by priority layers), round_robin, stable_first
    Priority,
    Siblings,          \* the channels sharing a channel's credential, itself included
    Guarded, Limit,    \* the session-scoped channels and their concurrency limit
    MaxAttempts,       \* config.proxyMaxChannelAttempts
    FailureThreshold,  \* ROUND_ROBIN_FAILURE_THRESHOLD
    OneStepRecords,    \* bookkeeping awaits are microtasks (sqlite), not round trips
    UsageLimits,       \* upstreams may report that a usage window is used up
    StreamsBreak       \* upstream connections may die after bytes were forwarded

Subjects == (Channels \ Units) \cup UNION {Pool[c] : c \in Units}

ASSUME FailoverAssumption ==
    /\ IsFiniteSet(Requests)
    /\ NoChannel \notin Channels
    /\ NoSession \notin Sessions
    /\ SessionOf \in [Requests -> Sessions \cup {NoSession}]
    /\ ForcedChannel \in [Requests -> Channels \cup {NoChannel}]
    /\ Units \subseteq Channels
    /\ Channels \cap Accounts = {}
    /\ Pool \in [Units -> SUBSET Accounts]
    /\ Owner \in [Units -> Accounts]
    /\ \A u \in Units : Owner[u] \in Pool[u]
    /\ Priority \in [Channels -> Nat]
    /\ Siblings \in [Channels \ Units -> SUBSET (Channels \ Units)]
    /\ Limit \in Nat \ {0}
    /\ MaxAttempts \in Nat \ {0}
    /\ FailureThreshold \in Nat \ {0}
    /\ {UnitSticks, OneStepRecords, UsageLimits, StreamsBreak} \subseteq BOOLEAN
    /\ Strategy \in {"weighted", "round_robin", "stable_first"}

\* Each member has its place in the order of its pool.
ASSUME OrderAssumption ==
    /\ SortOrder \in Seq(Accounts)
    /\ \A u \in Units : \A m \in Pool[u] : \E i \in 1..Len(SortOrder) : SortOrder[i] = m

VARIABLES
    pc,        \* where each request is in its loop
    tried,     \* excludeChannelIds, with the subject each attempt was dispatched to
    aim,       \* the sticky channel a route refresh was started for
    due,       \* the failure being booked
    wire,      \* the attempt whose bytes went to the client, 0 before the first byte
    result,    \* how the request ended
    lease,     \* the channel whose slot the request occupies
    sticky,    \* stickySessionBindings
    health,    \* failure state of every subject
    picked,    \* the members in the order of their lastSelectedAt
    owed,      \* requests whose success write has not reached the database
    balance,   \* failures of a subject minus failures charged to it (history)
    uncooled   \* failures charged to a subject since it last cooled or succeeded (history)

request == <<pc, tried, aim, due, wire, result, lease>>
vars == <<pc, tried, aim, due, wire, result, lease,
          sticky, health, picked, owed, balance, uncooled>>

Stages == {"select", "refresh", "lease", "exchange", "charge", "done"}
Results == {"pending", "success", "failed", "rejected", "cut", "busy", "no_channel"}
Health == [streak : 0..(FailureThreshold - 1), cooling : BOOLEAN, recent : BOOLEAN]
Healthy == [streak |-> 0, cooling |-> FALSE, recent |-> FALSE]
Attempt == [channel : Channels, subject : Subjects]
Failure == [limit : BOOLEAN, retryable : BOOLEAN, fault : BOOLEAN, row : Health]
NoFailure == [limit |-> FALSE, retryable |-> FALSE, fault |-> FALSE, row |-> Healthy]

TypeOK ==
    /\ pc \in [Requests -> Stages]
    /\ tried \in [Requests -> Seq(Attempt)]
    /\ aim \in [Requests -> Channels \cup {NoChannel}]
    /\ due \in [Requests -> Failure]
    /\ wire \in [Requests -> 0..MaxAttempts]
    /\ result \in [Requests -> Results]
    /\ lease \in [Requests -> Channels \cup {NoChannel}]
    /\ sticky \in [Sessions -> Channels \cup {NoChannel}]
    /\ health \in [Subjects -> Health]
    /\ picked \in Seq(Subjects)
    /\ owed \subseteq Requests
    /\ balance \in [Subjects -> Int]
    /\ uncooled \in [Subjects -> Nat]

Init ==
    /\ pc = [r \in Requests |-> "select"]
    /\ tried = [r \in Requests |-> << >>]
    /\ aim = [r \in Requests |-> NoChannel]
    /\ due = [r \in Requests |-> NoFailure]
    /\ wire = [r \in Requests |-> 0]
    /\ result = [r \in Requests |-> "pending"]
    /\ lease = [r \in Requests |-> NoChannel]
    /\ sticky = [s \in Sessions |-> NoChannel]
    /\ health = [s \in Subjects |-> Healthy]
    /\ picked = << >>
    /\ owed = {}
    /\ balance = [s \in Subjects |-> 0]
    /\ uncooled = [s \in Subjects |-> 0]

-----------------------------------------------------------------------------
(* Which channels a request may be given *)

\* Mutant: the channel just tried is pushed only after the next selection.
TriedBeforeLast(r) == {tried[r][i].channel : i \in 1..(Len(tried[r]) - 1)}

Tried(r) == {tried[r][i].channel : i \in 1..Len(tried[r])}
Current(r) == tried[r][Len(tried[r])]

\* retryCount = 0: nothing was selected yet.
FirstAttempt(r) == tried[r] = << >>

CoolingMembers(c) == {m \in Pool[c] : health[m].cooling}

\* selectRouteUnitMember: a pool already tried by this request offers only
\* members that did not fail recently, possibly none.
CandidateMembers(r, c) ==
    LET eligible == Pool[c] \ CoolingMembers(c)
        rested == {m \in eligible : ~health[m].recent}
    IN  IF rested # {} \/ c \in Tried(r) THEN rested ELSE eligible

\* lastSelectedAt || lastUsedAt, as a rank; 0 when it is null.
LastSelected(m) ==
    IF \E i \in 1..Len(picked) : picked[i] = m
    THEN CHOOSE i \in 1..Len(picked) : picked[i] = m
    ELSE 0
Rank(m) == CHOOSE i \in 1..Len(SortOrder) : SortOrder[i] = m

\* m precedes n in the order the pool's strategy sorts its members by.
Precedes(m, n) ==
    \/ m = n
    \/ LastSelected(m) = LastSelected(n) /\ Rank(m) < Rank(n)
    \/ IF UnitSticks THEN LastSelected(m) > LastSelected(n)
                     ELSE LastSelected(m) < LastSelected(n)

\* What a channel resolves to: itself, or the member of the pool in turn.
SubjectsOf(r, c) ==
    IF c \in Units
    THEN {m \in CandidateMembers(r, c) :
            \A n \in CandidateMembers(r, c) : Precedes(m, n)}
    ELSE {c}

\* Mutant: the best priority layer is chosen before cooling channels are dropped.
AvailableInBestLayer(r) ==
    {c \in Channels \ Units :
        /\ c \notin Tried(r)
        /\ ~health[c].cooling
        /\ \A d \in Channels \ Tried(r) : Priority[c] <= Priority[d]}

\* getCandidateEligibilityReasons: what was tried is excluded, pools are not.
Available(r) ==
    {c \in Channels \ Units : c \notin Tried(r) /\ ~health[c].cooling}
      \cup {c \in Units : CoolingMembers(c) # Pool[c]}

Layer(c) == IF Strategy = "weighted" THEN Priority[c] ELSE 0

\* A layer whose winner resolves to nothing is left for the next one.
PassedOver(r, layer) ==
    \E d \in Available(r) : Layer(d) = layer /\ SubjectsOf(r, d) = {}

Choices(r) ==
    {a \in Attempt :
        /\ a.channel \in Available(r)
        /\ a.subject \in SubjectsOf(r, a.channel)
        /\ \A d \in Available(r) :
              Layer(d) < Layer(a.channel) => PassedOver(r, Layer(d))}

MayFindNothing(r) == \A d \in Available(r) : PassedOver(r, Layer(d))

\* selectPreferredFromMatch for one channel.
PreferredChoices(r, c) ==
    {a \in Attempt :
        /\ a.channel = c
        /\ c \in Available(r)
        /\ a.subject \in SubjectsOf(r, c)}

StickyOf(r) == IF SessionOf[r] = NoSession THEN NoChannel ELSE sticky[SessionOf[r]]

-----------------------------------------------------------------------------
(* Selecting a channel *)

\* The member moves from its place, if it has one, to the end.
MarkSelected(m) ==
    LET at == LastSelected(m)
        others == IF at = 0 THEN picked
                  ELSE SubSeq(picked, 1, at - 1) \o SubSeq(picked, at + 1, Len(picked))
    IN  picked' = Append(others, m)

\* Mutant: attempts are counted by the distinct channels tried.
PickOncePerChannel(r, a, mark) ==
    /\ tried' = [tried EXCEPT ![r] =
                    Append(SelectSeq(@, LAMBDA b : b.channel # a.channel), a)]
    /\ pc' = [pc EXCEPT ![r] = "lease"]
    /\ IF mark /\ a.channel \in Units THEN MarkSelected(a.subject)
                                      ELSE UNCHANGED picked
    /\ UNCHANGED result

Pick(r, a, mark) ==
    /\ tried' = [tried EXCEPT ![r] = Append(@, a)]
    /\ pc' = [pc EXCEPT ![r] = "lease"]
    /\ IF mark /\ a.channel \in Units THEN MarkSelected(a.subject)
                                      ELSE UNCHANGED picked
    /\ UNCHANGED result

Finish(r, how) ==
    /\ pc' = [pc EXCEPT ![r] = "done"]
    /\ result' = [result EXCEPT ![r] = how]

PickAnyOrRefuse(r) ==
    \/ \E a \in Choices(r) : Pick(r, a, TRUE)
    \/ /\ MayFindNothing(r)
       /\ Finish(r, "no_channel")
       /\ UNCHANGED <<tried, picked>>

StartRefresh(r, c) ==
    /\ pc' = [pc EXCEPT ![r] = "refresh"]
    /\ aim' = [aim EXCEPT ![r] = c]
    /\ UNCHANGED <<tried, picked, result>>

SelectForced(r) ==
    /\ pc[r] = "select"
    /\ ForcedChannel[r] # NoChannel
    /\ \/ \E a \in PreferredChoices(r, ForcedChannel[r]) : Pick(r, a, Strategy # "weighted")
       \/ /\ PreferredChoices(r, ForcedChannel[r]) = {}
          /\ Finish(r, "no_channel")
          /\ UNCHANGED <<tried, picked>>
    /\ UNCHANGED <<aim, due, wire, lease, sticky, health, owed, balance, uncooled>>

SelectSticky(r) ==
    /\ pc[r] = "select"
    /\ ForcedChannel[r] = NoChannel
    /\ FirstAttempt(r)
    /\ StickyOf(r) # NoChannel
    /\ \/ /\ \E a \in PreferredChoices(r, StickyOf(r)) : Pick(r, a, Strategy # "weighted")
          /\ UNCHANGED aim
       \/ /\ PreferredChoices(r, StickyOf(r)) = {}
          /\ StartRefresh(r, StickyOf(r))
    /\ UNCHANGED <<due, wire, lease, sticky, health, owed, balance, uncooled>>

\* Without a usable binding the router chooses; the first attempt refreshes the
\* routes before it gives up.
SelectAny(r) ==
    /\ pc[r] = "select"
    /\ ForcedChannel[r] = NoChannel
    /\ FirstAttempt(r) => StickyOf(r) = NoChannel
    /\ \/ /\ \E a \in Choices(r) : Pick(r, a, TRUE)
          /\ UNCHANGED aim
       \/ /\ MayFindNothing(r)
          /\ FirstAttempt(r)
          /\ StartRefresh(r, NoChannel)
       \/ /\ MayFindNothing(r)
          /\ ~FirstAttempt(r)
          /\ Finish(r, "no_channel")
          /\ UNCHANGED <<tried, aim, picked>>
    /\ UNCHANGED <<due, wire, lease, sticky, health, owed, balance, uncooled>>

\* refreshModelsAndRebuildRoutes has returned or thrown.  A preferred channel
\* that is still unusable is forgotten, unless the refresh failed.
AfterRefresh(r) ==
    /\ pc[r] = "refresh"
    /\ \/ /\ \E a \in PreferredChoices(r, aim[r]) : Pick(r, a, Strategy # "weighted")
          /\ UNCHANGED sticky
       \/ /\ PreferredChoices(r, aim[r]) = {}
          /\ \/ UNCHANGED sticky
             \/ /\ aim[r] # NoChannel
                /\ StickyOf(r) = aim[r]
                /\ sticky' = [sticky EXCEPT ![SessionOf[r]] = NoChannel]
          /\ PickAnyOrRefuse(r)
    /\ aim' = [aim EXCEPT ![r] = NoChannel]
    /\ UNCHANGED <<due, wire, lease, health, owed, balance, uncooled>>

-----------------------------------------------------------------------------
(* Leasing the channel *)

\* acquireSurfaceChannelLease: only sessions contend for slots.
NeedsSlot(r) == SessionOf[r] # NoSession /\ Current(r).channel \in Guarded

\* Mutant: an off-by-one in the limit.
SlotFreeOnceMore(c) == Cardinality({q \in Requests : lease[q] = c}) <= Limit

SlotFree(c) == Cardinality({q \in Requests : lease[q] = c}) < Limit

\* Mutant: one attempt too few.
CanRetryOnceLess(r) == ForcedChannel[r] = NoChannel /\ Len(tried[r]) + 1 < MaxAttempts

\* canRetryChannelSelection, with retryCount = Len(tried[r]) - 1.
CanRetry(r) == ForcedChannel[r] = NoChannel /\ Len(tried[r]) < MaxAttempts

RetryOrFinish(r, how) ==
    IF CanRetry(r)
    THEN /\ pc' = [pc EXCEPT ![r] = "select"]
         /\ UNCHANGED result
    ELSE Finish(r, how)

\* clearStickyChannel: only the binding to the channel that let r down.
ForgetBinding(r) ==
    IF StickyOf(r) = Current(r).channel
    THEN sticky' = [sticky EXCEPT ![SessionOf[r]] = NoChannel]
    ELSE UNCHANGED sticky

\* Mutant: the slot is kept while the request goes on to its next attempt.
ReleaseOnExitOnly(r) ==
    lease' = IF CanRetry(r) THEN lease ELSE [lease EXCEPT ![r] = NoChannel]

\* The `finally` of the attempt.
ReleaseLease(r) == lease' = [lease EXCEPT ![r] = NoChannel]

AcquireLease(r) ==
    /\ pc[r] = "lease"
    /\ \/ /\ ~NeedsSlot(r)
          /\ UNCHANGED lease
       \/ /\ NeedsSlot(r)
          /\ SlotFree(Current(r).channel)
          /\ lease' = [lease EXCEPT ![r] = Current(r).channel]
    /\ pc' = [pc EXCEPT ![r] = "exchange"]
    /\ UNCHANGED <<tried, aim, due, wire, result, sticky, health, picked, owed, balance, uncooled>>

\* Nobody's failure: the channel was busy, the next one is tried.
LeaseTimesOut(r) ==
    /\ pc[r] = "lease"
    /\ NeedsSlot(r)
    /\ ~SlotFree(Current(r).channel)
    /\ ForgetBinding(r)
    /\ RetryOrFinish(r, "busy")
    /\ UNCHANGED <<tried, aim, due, wire, lease, health, picked, owed, balance, uncooled>>

-----------------------------------------------------------------------------
(* The exchange with the upstream *)

\* Mutant: the channel of the first attempt is booked instead of the current one.
BookedOnFirst(r) == tried[r][1].channel

\* The subject recordSuccess and recordFailure book on: the surfaces name the
\* channel only, and a pool's row carries its owner's account.
BookedOn(r) ==
    LET c == Current(r).channel IN IF c \in Units THEN Owner[c] ELSE c

\* The first bytes of this attempt reach the client (reply.hijack).
FirstByte(r) ==
    /\ pc[r] = "exchange"
    /\ wire[r] = 0
    /\ wire' = [wire EXCEPT ![r] = Len(tried[r])]
    /\ UNCHANGED <<pc, tried, aim, due, result, lease, sticky, health, picked, owed, balance, uncooled>>

\* The response of an earlier attempt is on the wire: nothing can be written.
AlreadyAnswering(r) == wire[r] \notin {0, Len(tried[r])}

\* Mutant: a success clears the cooldown of every channel of the credential.
BookSuccessOnSiblings(r) ==
    /\ health' = [s \in Subjects |->
                    IF s \in Siblings[BookedOn(r)] THEN Healthy ELSE health[s]]
    /\ uncooled' = [uncooled EXCEPT ![BookedOn(r)] = 0]
    /\ UNCHANGED picked

BookSuccess(r) ==
    /\ health' = [health EXCEPT ![BookedOn(r)] = Healthy]
    /\ picked' = IF Current(r).channel \in Units /\ LastSelected(BookedOn(r)) = 0
                 THEN Append(picked, BookedOn(r)) ELSE picked
    /\ uncooled' = [uncooled EXCEPT ![BookedOn(r)] = 0]

\* recordSuccess is called but not awaited; bindStickyChannel; finally release.
Succeed(r) ==
    /\ pc[r] = "exchange"
    /\ ~AlreadyAnswering(r)
    /\ IF OneStepRecords
       THEN BookSuccess(r) /\ UNCHANGED owed
       ELSE owed' = owed \cup {r} /\ UNCHANGED <<health, picked, uncooled>>
    /\ IF NeedsSlot(r)
       THEN sticky' = [sticky EXCEPT ![SessionOf[r]] = Current(r).channel]
       ELSE UNCHANGED sticky
    /\ ReleaseLease(r)
    /\ Finish(r, "success")
    /\ UNCHANGED <<tried, aim, due, wire, balance>>

SuccessLands(r) ==
    /\ r \in owed
    /\ BookSuccess(r)
    /\ owed' = owed \ {r}
    /\ UNCHANGED <<request, sticky, balance>>

\* The row recordFailure starts from; when its awaits are microtasks it is
\* still the current one at the write, so it need not be remembered.
RowRead(r) == IF OneStepRecords THEN Healthy ELSE health[BookedOn(r)]

\* The catch block and the in-band failures: the binding is dropped at once,
\* then recordFailure reads the row it will write back.
Fails(r, limit, retryable, fault) ==
    /\ pc[r] = "exchange"
    /\ due' = [due EXCEPT ![r] = [limit |-> limit, retryable |-> retryable,
                                  fault |-> fault, row |-> RowRead(r)]]
    /\ balance' = IF fault THEN [balance EXCEPT ![Current(r).subject] = @ + 1]
                           ELSE balance
    /\ pc' = [pc EXCEPT ![r] = "charge"]
    /\ ForgetBinding(r)
    /\ UNCHANGED <<tried, aim, wire, result, lease, health, picked, owed, uncooled>>

\* The upstream refuses, is unreachable, or answers with a detected failure:
\* a usage limit is retryable, other errors as shouldRetryProxyRequest says.
UpstreamFails(r) ==
    /\ wire[r] # Len(tried[r])
    /\ \/ UsageLimits /\ Fails(r, TRUE, TRUE, TRUE)
       \/ \E retryable \in BOOLEAN : Fails(r, FALSE, retryable, TRUE)

\* Mutant: a failed stream is retried on another channel.
StreamFailsOver(r) ==
    /\ ~AlreadyAnswering(r)
    /\ Fails(r, FALSE, TRUE, TRUE)

\* streamResult.status = 'failed': handled in band, never retried.
StreamFails(r) ==
    /\ ~AlreadyAnswering(r)
    /\ Fails(r, FALSE, FALSE, TRUE)

\* reader.read() rejects: the error leaves the stream session as an exception
\* and is booked as an execution error, which is retryable.
StreamBreaks(r) ==
    /\ StreamsBreak
    /\ wire[r] = Len(tried[r])
    /\ Fails(r, FALSE, TRUE, TRUE)

\* The upstream answers, but writing its bytes throws (headers already sent).
CannotWrite(r) ==
    /\ AlreadyAnswering(r)
    /\ Fails(r, FALSE, TRUE, FALSE)

-----------------------------------------------------------------------------
(* Booking a failure *)

\* Mutants: the cooldown starts one failure late; the streak outlives it.
ChargedLate(row, byThreshold, isMember) ==
    IF byThreshold /\ row.streak < FailureThreshold
    THEN [streak |-> row.streak + 1, cooling |-> FALSE, recent |-> isMember]
    ELSE [streak |-> 0, cooling |-> TRUE, recent |-> isMember]
ChargedWithoutReset(row, byThreshold, isMember) ==
    [streak |-> row.streak + 1,
     cooling |-> byThreshold => row.streak + 1 >= FailureThreshold,
     recent |-> isMember]

\* Below the threshold a round-robin failure writes cooldownUntil = null.
Charged(row, byThreshold, isMember) ==
    IF byThreshold
    THEN IF row.streak + 1 >= FailureThreshold
         THEN [streak |-> 0, cooling |-> TRUE, recent |-> isMember]
         ELSE [streak |-> row.streak + 1, cooling |-> FALSE, recent |-> isMember]
    ELSE [streak |-> 0, cooling |-> TRUE, recent |-> isMember]

UsageLimited == [streak |-> 0, cooling |-> TRUE, recent |-> FALSE]

\* loadCredentialScopedChannelIds: a usage limit is one of the credential.
Affected(r) ==
    IF due[r].limit /\ Current(r).channel \notin Units
    THEN Siblings[BookedOn(r)] \cup {BookedOn(r)}
    ELSE {BookedOn(r)}

\* The health after r's failure is written.
HealthAfter(r) ==
    LET s == BookedOn(r)
        member == Current(r).channel \in Units
        row == IF OneStepRecords THEN health[s] ELSE due[r].row
        byThreshold == IF member THEN ~UnitSticks ELSE Strategy = "round_robin"
    IN  [x \in Subjects |->
            IF x \notin Affected(r) THEN health[x]
            ELSE IF due[r].limit THEN UsageLimited
            ELSE Charged(row, byThreshold, member)]

ChargeFailure(r) ==
    /\ pc[r] = "charge"
    /\ health' = HealthAfter(r)
    /\ balance' = [balance EXCEPT ![BookedOn(r)] = @ - 1]
    /\ uncooled' = [x \in Subjects |->
                      IF x \notin Affected(r) THEN uncooled[x]
                      ELSE IF health'[x].cooling THEN 0
                      ELSE uncooled[x] + 1]
    /\ due' = [due EXCEPT ![r] = NoFailure]
    /\ ReleaseLease(r)
    /\ IF due[r].retryable
       THEN RetryOrFinish(r, "failed")
       ELSE Finish(r, IF wire[r] = 0 THEN "rejected" ELSE "cut")
    /\ UNCHANGED <<tried, aim, wire, sticky, picked, owed>>

\* cooldownUntil passes.  A weighted channel's avoidance window ends with it.
CooldownEnds(s) ==
    /\ health[s].cooling
    /\ health' = [health EXCEPT ![s].cooling = FALSE,
                                ![s].recent = IF UnitSticks THEN FALSE ELSE @]
    /\ UNCHANGED <<request, sticky, picked, owed, balance, uncooled>>

\* lastFailAt is further back than the failure backoff.
AvoidanceEnds(s) ==
    /\ ~UnitSticks
    /\ health[s].recent
    /\ health' = [health EXCEPT ![s].recent = FALSE]
    /\ UNCHANGED <<request, sticky, picked, owed, balance, uncooled>>

\* The session's binding outlives proxyStickySessionTtlMs.
BindingExpires(s) ==
    /\ sticky[s] # NoChannel
    /\ sticky' = [sticky EXCEPT ![s] = NoChannel]
    /\ UNCHANGED <<request, health, picked, owed, balance, uncooled>>

-----------------------------------------------------------------------------
Select(r) == SelectForced(r) \/ SelectSticky(r) \/ SelectAny(r) \/ AfterRefresh(r)
Lease(r) == AcquireLease(r) \/ LeaseTimesOut(r)
Answer(r) ==
    \/ Succeed(r)
    \/ UpstreamFails(r)
    \/ StreamFails(r)
    \/ StreamBreaks(r)
    \/ CannotWrite(r)

RequestStep(r) == Select(r) \/ Lease(r) \/ Answer(r) \/ ChargeFailure(r)

Next ==
    \/ \E r \in Requests : RequestStep(r) \/ FirstByte(r) \/ SuccessLands(r)
    \/ \E s \in Subjects : CooldownEnds(s) \/ AvoidanceEnds(s)
    \/ \E s \in Sessions : BindingExpires(s)

Spec == Init /\ [][Next]_vars

\* The event loop runs every callback, lease queues have a timer, and the
\* upstream answers or is timed out.
FairSpec == Spec /\ \A r \in Requests : WF_vars(RequestStep(r))

-----------------------------------------------------------------------------
(* Properties *)

\* A request never goes back to an ordinary channel it has tried, makes at most
\* proxyMaxChannelAttempts attempts, and one when a tester pinned its channel
\* (excludeChannelIds, canRetryChannelSelection).
AttemptsAreFresh ==
    \A r \in Requests :
        /\ \A i, j \in 1..Len(tried[r]) :
              i < j /\ tried[r][i].channel = tried[r][j].channel
                => tried[r][i].channel \in Units
        /\ Len(tried[r]) <= MaxAttempts
        /\ ForcedChannel[r] # NoChannel => Len(tried[r]) <= 1

\* A request reports a retryable failure, or that channels were busy, only when
\* its attempts are used up (maybeRetry, canRetryChannelSelection).
GivesUpOnlyWhenExhausted ==
    \A r \in Requests :
        result[r] \in {"failed", "busy"} /\ ForcedChannel[r] = NoChannel
            => Len(tried[r]) = MaxAttempts

\* At any time a subject has been charged for exactly the exchanges that failed
\* on it, those being booked aside: no failure is dropped between the loop's
\* exits, and nobody pays for another's (every call of recordFailure).
ChargedForOwnFailures ==
    \A s \in Subjects :
        balance[s] = Cardinality({r \in Requests :
            pc[r] = "charge" /\ due[r].fault /\ Current(r).subject = s})

\* A guarded channel serves at most Limit sessions at a time, and a request
\* occupies a slot only of the channel it is talking to: the `finally` of every
\* attempt gives the slot back before the next channel is selected.
SlotsHeldWhileServing ==
    /\ \A c \in Channels : Cardinality({r \in Requests : lease[r] = c}) <= Limit
    /\ \A r \in Requests :
          lease[r] # NoChannel =>
              pc[r] \in {"exchange", "charge"} /\ lease[r] = Current(r).channel

\* "No available channels" is said only when every ordinary channel was tried by
\* this very request or is cooling down at that moment.
RefusedOnlyWhenNothingLeft ==
    [][\A r \in Requests :
          result[r] = "pending" /\ result'[r] = "no_channel" /\ ForcedChannel[r] = NoChannel
              => \A c \in Channels \ Units : c \in Tried(r) \/ health[c].cooling]_vars

\* A cooldown lasts until its time is over or the subject itself has answered a
\* request: neither a further failure nor another's success ends it
\* (the writes of recordFailure and recordSuccess).
CooldownLasts ==
    [][\A s \in Subjects :
          health[s].cooling /\ ~health'[s].cooling
              => \/ request' = request /\ owed' = owed
                 \/ \E r \in Requests :
                       /\ tried[r] # << >>
                       /\ Current(r).subject = s
                       /\ result'[r] = "success"
                       /\ result[r] = "pending" \/ r \in owed]_vars

\* No subject collects FailureThreshold charged failures in a row without being
\* sent to cool down (the consecutiveFailCount that recordFailure reads, raises
\* and writes back).
StagedCooldown == \A s \in Subjects : uncooled[s] < FailureThreshold

\* After the first byte of a response the request stays with the channel it
\* came from (chatSurface.ts:830, openAiResponsesSurface.ts:1120).
NoSwitchAfterFirstByte ==
    [][\A r \in Requests : wire[r] # 0 => tried'[r] = tried[r]]_vars

\* Failing over inside a pool switches members: the one that has just failed is
\* not tried again by the same request (selectRouteUnitMember).
PoolFailoverSwitchesMember ==
    \A r \in Requests : \A i \in 1..(Len(tried[r]) - 1) :
        tried[r][i].channel \in Units => tried[r][i + 1].subject # tried[r][i].subject

\* Every request is answered or refused: the retry loop terminates, whatever
\* the upstreams answer and however long the lines at the channels are.
EveryRequestEnds == \A r \in Requests : <>(pc[r] = "done")

-----------------------------------------------------------------------------
(* What the loop implements *)

Contract == INSTANCE RequestContract WITH
    Pools <- Units,
    AttemptLimit <- MaxAttempts,
    attempts <- [r \in Requests |-> [i \in 1..Len(tried[r]) |-> tried[r][i].channel]],
    begun <- [r \in Requests |-> wire[r] # 0],
    reply <- [r \in Requests |-> IF result[r] = "pending" THEN "none"
                                 ELSE IF result[r] = "success" THEN "answer"
                                 ELSE "error"]

\* The retry loop keeps the contract of RequestContract as long as no upstream
\* connection dies after bytes were forwarded (StreamsBreak = FALSE).
KeepsContract == Contract!ContractSpec
=============================================================================
