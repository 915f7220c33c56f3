------------------------------ MODULE ChannelLease ------------------------------
(***************************************************************************)
(* Concurrency leases of session-scoped proxy channels                     *)
(* (src/src/server/services/proxyChannelCoordinator.ts).                   *)
(*                                                                         *)
(* Every proxied request leases the channel it was routed to before it     *)
(* calls upstream and gives the lease back in a `finally`.  A channel that *)
(* is session-scoped ("guarded") admits at most `limit` leases; the next   *)
(* requests queue, each with a timer.  The coordinator runs on one event   *)
(* loop, so each callback below is one atomic step; what interleaves are   *)
(* the requests, the timers and the operator who changes the settings.     *)
(*                                                                         *)
(* channelRuntimeStates maps a channel to a state OBJECT that leases and   *)
(* waiters capture, while the drain looks the object up again by channel:  *)
(* `current` is the map, `captured` the references held by closures, and   *)
(* `active` / `queue` the fields of the objects.  A request holds at most  *)
(* one lease, so its identity stands for the lease id.                     *)
(***************************************************************************)
EXTENDS Integers, FiniteSets, Sequences

CONSTANTS
    Requests,         \* the proxied requests
    Channels,         \* route channels
    Guarded,          \* those whose account is session-scoped (isSessionScopedChannel)
    StateIds,         \* identities of ChannelRuntimeState objects
    NoChannel, NoState,
    Limits,           \* values the operator may give proxySessionChannelConcurrencyLimit
    QueueWaits,       \* values of "proxySessionChannelQueueWaitMs > 0" the operator may choose
    KeepaliveInTime   \* the keepalive interval is shorter than the lease TTL

ASSUME LeaseAssumption ==
    /\ IsFiniteSet(Requests)
    /\ Guarded \subseteq Channels
    /\ NoChannel \notin Channels
    /\ NoState \notin StateIds
    /\ Limits \subseteq Nat
    /\ QueueWaits \subseteq BOOLEAN
    /\ KeepaliveInTime \in BOOLEAN

VARIABLES
    limit,       \* config.proxySessionChannelConcurrencyLimit
    queueing,    \* config.proxySessionChannelQueueWaitMs > 0
    phase,       \* where each request is in its acquire / release cycle
    chan,        \* the channel a request was routed to
    captured,    \* the state object its waiter or lease closure refers to
    current,     \* channelRuntimeStates
    active,      \* activeLeaseIds of every state object
    queue        \* queue of every state object

config == <<limit, queueing>>
vars == <<limit, queueing, phase, chan, captured, current, active, queue>>

Phases == {"idle", "unguarded", "waiting", "holding", "overdue", "refused"}

TypeOK ==
    /\ limit \in Limits
    /\ queueing \in QueueWaits
    /\ phase \in [Requests -> Phases]
    /\ chan \in [Requests -> Channels \cup {NoChannel}]
    /\ captured \in [Requests -> StateIds \cup {NoState}]
    /\ current \in [Channels -> StateIds \cup {NoState}]
    /\ active \in [StateIds -> SUBSET Requests]
    /\ queue \in [StateIds -> Seq(Requests)]

Init ==
    /\ limit \in Limits
    /\ queueing \in QueueWaits
    /\ phase = [r \in Requests |-> "idle"]
    /\ chan = [r \in Requests |-> NoChannel]
    /\ captured = [r \in Requests |-> NoState]
    /\ current = [c \in Channels |-> NoState]
    /\ active = [s \in StateIds |-> {}]
    /\ queue = [s \in StateIds |-> << >>]

-----------------------------------------------------------------------------
(* State objects *)

\* The members of a waiter queue.
Elements(q) == {q[i] : i \in 1..Len(q)}

\* The queue q without its i-th waiter.
Drop(q, i) == [j \in 1..(Len(q) - 1) |-> IF j < i THEN q[j] ELSE q[j + 1]]

\* Objects no map entry and no live closure refers to: a new object is one of these.
FreshStates ==
    {s \in StateIds : /\ \A c \in Channels : current[c] # s
                      /\ \A r \in Requests : captured[r] # s}

\* Mutant: every acquire makes a new object.
StatesForAlwaysNew(c) == FreshStates

\* The object an acquire works on: the channel's own, or a new one.
StatesFor(c) == IF current[c] = NoState THEN FreshStates ELSE {current[c]}

\* Mutants: the map entry goes although requests wait; it never goes; the
\* whole key goes, so that the channel is unknown afterwards.
SettledIgnoringWaiters(c, act, q) ==
    IF current[c] # NoState /\ act[current[c]] = {}
    THEN [current EXCEPT ![c] = NoState]
    ELSE current
SettledNever(c, act, q) == current
SettledForgettingChannel(c, act, q) ==
    IF current[c] # NoState /\ act[current[c]] = {} /\ q[current[c]] = << >>
    THEN [d \in Channels \ {c} |-> current[d]]
    ELSE current

\* maybeDeleteChannelRuntimeState: the map without c's entry when the object
\* it names is empty, given the objects' contents after the step.
Settled(c, act, q) ==
    IF current[c] # NoState /\ act[current[c]] = {} /\ q[current[c]] = << >>
    THEN [current EXCEPT ![c] = NoState]
    ELSE current

-----------------------------------------------------------------------------
(* The operator: routes/api/settings.ts *)

SetLimit(n) ==
    /\ limit' = n
    /\ UNCHANGED <<queueing, phase, chan, captured, current, active, queue>>

SetQueueing(b) ==
    /\ queueing' = b
    /\ UNCHANGED <<limit, phase, chan, captured, current, active, queue>>

-----------------------------------------------------------------------------
(* acquireChannelLease *)

\* No limit applies: the request gets a lease that counts nothing.
AcquireUnguarded(r, c) ==
    /\ phase[r] = "idle"
    /\ c \notin Guarded \/ limit = 0
    /\ phase' = [phase EXCEPT ![r] = "unguarded"]
    /\ chan' = [chan EXCEPT ![r] = c]
    /\ UNCHANGED <<limit, queueing, captured, current, active, queue>>

\* A slot is free: createTrackedLease.
AcquireSlot(r, c, s) ==
    /\ phase[r] = "idle"
    /\ c \in Guarded /\ limit > 0
    /\ s \in StatesFor(c)
    /\ Cardinality(active[s]) < limit
    /\ phase' = [phase EXCEPT ![r] = "holding"]
    /\ chan' = [chan EXCEPT ![r] = c]
    /\ captured' = [captured EXCEPT ![r] = s]
    /\ current' = [current EXCEPT ![c] = s]
    /\ active' = [active EXCEPT ![s] = @ \cup {r}]
    /\ UNCHANGED <<limit, queueing, queue>>

\* Every slot is taken and nobody may queue.
AcquireRefused(r, c, s) ==
    /\ phase[r] = "idle"
    /\ c \in Guarded /\ limit > 0
    /\ s \in StatesFor(c)
    /\ Cardinality(active[s]) >= limit
    /\ ~queueing
    /\ phase' = [phase EXCEPT ![r] = "refused"]
    /\ current' = [current EXCEPT ![c] = s]
    /\ UNCHANGED <<limit, queueing, chan, captured, active, queue>>

\* Every slot is taken: the request joins the queue with a timer.
AcquireQueued(r, c, s) ==
    /\ phase[r] = "idle"
    /\ c \in Guarded /\ limit > 0
    /\ s \in StatesFor(c)
    /\ Cardinality(active[s]) >= limit
    /\ queueing
    /\ phase' = [phase EXCEPT ![r] = "waiting"]
    /\ chan' = [chan EXCEPT ![r] = c]
    /\ captured' = [captured EXCEPT ![r] = s]
    /\ current' = [current EXCEPT ![c] = s]
    /\ queue' = [queue EXCEPT ![s] = Append(@, r)]
    /\ UNCHANGED <<limit, queueing, active>>

\* Mutant: a timer that comes due is ignored when queueing was switched off.
WaitDueWhileQueueing(r) == phase[r] = "waiting" /\ queueing

\* The waiter's timer is armed exactly as long as its promise is unresolved.
WaitDue(r) == phase[r] = "waiting"

\* The waiter's timer: it is cancelled, pruned from the object it captured,
\* the map entry is dropped if that leaves it empty, and the caller is told.
WaitTimeout(r) ==
    /\ WaitDue(r)
    /\ \E i \in 1..Len(queue[captured[r]]) :
          /\ queue[captured[r]][i] = r
          /\ queue' = [queue EXCEPT ![captured[r]] = Drop(@, i)]
    /\ current' = Settled(chan[r], active, queue')
    /\ phase' = [phase EXCEPT ![r] = "refused"]
    /\ chan' = [chan EXCEPT ![r] = NoChannel]
    /\ captured' = [captured EXCEPT ![r] = NoState]
    /\ UNCHANGED <<limit, queueing, active>>

-----------------------------------------------------------------------------
(* release *)

\* Mutants: the leases are counted before the released one is gone; one waiter
\* too many is admitted; the limit is not looked at.
AdmissibleStaleCount(s, act) ==
    LET free == limit - Cardinality(active[s])
    IN  IF free <= 0 THEN 0
        ELSE IF free < Len(queue[s]) THEN free ELSE Len(queue[s])
AdmissibleOneTooMany(s, act) ==
    LET free == limit - Cardinality(act[s])
    IN  IF free < 0 THEN 0
        ELSE IF free < Len(queue[s]) THEN free + 1 ELSE Len(queue[s])
AdmissibleUnlimited(s, act) == Len(queue[s])

\* How many waiters of object s the drain may admit, its leases being act[s].
Admissible(s, act) ==
    LET free == limit - Cardinality(act[s])
    IN  IF free <= 0 THEN 0
        ELSE IF free < Len(queue[s]) THEN free ELSE Len(queue[s])

\* Mutant: waiters are taken from the wrong end of the queue.
WokenLast(c, act) ==
    IF current[c] = NoState THEN {}
    ELSE {queue[current[c]][Len(queue[current[c]]) + 1 - i] :
             i \in 1..Admissible(current[c], act)}

\* The waiters drainQueue admits for channel c: the head of the queue of the
\* object the map names now.
Woken(c, act) ==
    IF current[c] = NoState THEN {}
    ELSE {queue[current[c]][i] : i \in 1..Admissible(current[c], act)}

\* The queues after the drain.
Drained(c, act) ==
    IF current[c] = NoState THEN queue
    ELSE [queue EXCEPT ![current[c]] =
             SubSeq(@, Admissible(current[c], act) + 1, Len(@))]

\* The effective call of release(): the lease leaves the object it captured,
\* the channel's queue is drained, and the map entry goes if nothing is left.
EndLease(r) ==
    LET c == chan[r]
        left == [active EXCEPT ![captured[r]] = @ \ {r}]
    IN  /\ active' = IF current[c] = NoState THEN left
                     ELSE [left EXCEPT ![current[c]] = @ \cup Woken(c, left)]
        /\ queue' = Drained(c, left)
        /\ captured' = [p \in Requests |->
                           IF p = r THEN NoState
                           ELSE IF p \in Woken(c, left) THEN current[c] ELSE captured[p]]
        /\ current' = Settled(c, active', queue')

\* The phases once r's lease has ended and r goes on in phase `next`.
Resumed(r, next) ==
    LET left == [active EXCEPT ![captured[r]] = @ \ {r}]
    IN  [p \in Requests |->
           IF p = r THEN next
           ELSE IF p \in Woken(chan[r], left) THEN "holding" ELSE phase[p]]

\* The surface's `finally` gives a live lease back.
Release(r) ==
    /\ phase[r] = "holding"
    /\ EndLease(r)
    /\ phase' = Resumed(r, "idle")
    /\ chan' = [chan EXCEPT ![r] = NoChannel]
    /\ UNCHANGED config

\* The expiry timer ends a lease whose request is still running.  touch()
\* rearms it at every keepalive, so it can only fire when the keepalive
\* interval is not shorter than the TTL.
Expire(r) ==
    /\ ~KeepaliveInTime
    /\ phase[r] = "holding"
    /\ EndLease(r)
    /\ phase' = Resumed(r, "overdue")
    /\ UNCHANGED <<limit, queueing, chan>>

\* A release that changes nothing: the lease was never counted, has expired
\* already, or was never granted (the surface goes on to its next attempt).
Finish(r) ==
    /\ phase[r] \in {"unguarded", "overdue", "refused"}
    /\ phase' = [phase EXCEPT ![r] = "idle"]
    /\ chan' = [chan EXCEPT ![r] = NoChannel]
    /\ UNCHANGED <<limit, queueing, captured, current, active, queue>>

-----------------------------------------------------------------------------
Acquire(r, c) ==
    \/ AcquireUnguarded(r, c)
    \/ \E s \in StateIds :
          AcquireSlot(r, c, s) \/ AcquireRefused(r, c, s) \/ AcquireQueued(r, c, s)

Next ==
    \/ \E n \in Limits : SetLimit(n)
    \/ \E b \in QueueWaits : SetQueueing(b)
    \/ \E r \in Requests, c \in Channels : Acquire(r, c)
    \/ \E r \in Requests : WaitTimeout(r) \/ Release(r) \/ Expire(r) \/ Finish(r)

Spec == Init /\ [][Next]_vars

\* A surface releases in a `finally`: a request that got a lease gives it back.
ReleaseFairness == \A r \in Requests : WF_vars(Release(r)) /\ WF_vars(Finish(r))

\* Node runs a timer that is due.
TimerFairness == \A r \in Requests : WF_vars(WaitTimeout(r))

\* Queue timers may be arbitrarily long: only releases are fair.
PatientSpec == Spec /\ ReleaseFairness

\* Requests may hold their lease forever: only queue timers are fair.
ImpatientSpec == Spec /\ TimerFairness

-----------------------------------------------------------------------------
(* Properties *)

\* The leases and the waiters of channel c, as getChannelLoadSnapshot reads them.
Leases(c) == IF current[c] = NoState THEN {} ELSE active[current[c]]
Waiters(c) == IF current[c] = NoState THEN << >> ELSE queue[current[c]]

\* Every live closure refers to the object the map names for its channel, and
\* that object lists it: a release or a timer never works on an orphan that
\* the drain can no longer reach (state captured in createTrackedLease and in
\* the timer, looked up again in drainQueue).  No two channels share an object.
ClosuresReachable ==
    /\ \A c, d \in Channels : current[c] = current[d] /\ current[c] # NoState => c = d
    /\ \A r \in Requests :
          /\ phase[r] \in {"holding", "waiting"} =>
                /\ chan[r] \in Channels
                /\ captured[r] \in StateIds
                /\ current[chan[r]] = captured[r]
          /\ phase[r] = "waiting" => r \in Elements(queue[captured[r]])
          /\ phase[r] \notin {"holding", "waiting"} => captured[r] = NoState

\* Nobody else is counted: an object lists exactly the requests that hold or
\* wait, each once, and an entry without lease and waiter does not stay in
\* the map (the map would grow with every channel ever used).
NothingLeaks ==
    /\ \A s \in StateIds :
          /\ active[s] = {r \in Requests : phase[r] = "holding" /\ captured[r] = s}
          /\ \A i, j \in 1..Len(queue[s]) :
                /\ phase[queue[s][i]] = "waiting" /\ captured[queue[s][i]] = s
                /\ queue[s][i] = queue[s][j] => i = j
    /\ \A c \in Channels :
          current[c] # NoState => Leases(c) # {} \/ Waiters(c) # << >>

\* While a request waits, no slot of its channel is free: neither is a newcomer
\* let in before it, nor does a release leave it to its timer.
NoWaiterBesideFreeSlot ==
    \A c \in Guarded : Waiters(c) # << >> => Cardinality(Leases(c)) >= limit

\* A step that adds a lease to a channel leaves it within the limit in force,
\* even after the operator lowered it below the leases already out.
GrantsWithinLimit ==
    [][\A c \in Channels :
          ~(Leases(c)' \subseteq Leases(c)) => Cardinality(Leases(c)') <= limit]_vars

\* No waiter is admitted before one that queued earlier on the same channel.
FirstComeFirstServed ==
    [][\A s \in StateIds : \A i, j \in 1..Len(queue[s]) :
          (i < j /\ phase'[queue[s][j]] = "holding") => phase'[queue[s][i]] # "waiting"]_vars

\* Every request that queues is admitted or refused, whatever lease holders do.
WaitEnds == \A r \in Requests : phase[r] = "waiting" ~> phase[r] # "waiting"

=============================================================================
