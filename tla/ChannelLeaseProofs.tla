--------------------------- MODULE ChannelLeaseProofs ---------------------------
(***************************************************************************)
(* Proofs about ChannelLease and its refinement of SessionSlots, for any   *)
(* number of requests and channels and any sequence of setting changes.    *)
(***************************************************************************)
EXTENDS MCChannelLease, FiniteSetTheorems, TLAPS

\* The inductive invariant: none of the three parts is inductive without the
\* others, because release() looks its object up by channel.
IInv == TypeOK /\ ClosuresReachable /\ NothingLeaks

(***************************************************************************)
(* Helpers                                                                 *)
(***************************************************************************)

\* A set of leases is finite, so its size is a natural number.
LEMMA LeaseCount ==
    ASSUME NEW S \in SUBSET Requests
    PROVE  IsFiniteSet(S) /\ Cardinality(S) \in Nat
  BY LeaseAssumption, FS_Subset, FS_CardinalityType

\* The drain admits at most the waiters there are, only into free slots, and
\* stops early only when the slots are full.
LEMMA AdmissibleBound ==
    ASSUME TypeOK, NEW s \in StateIds, NEW act \in [StateIds -> SUBSET Requests]
    PROVE  /\ Admissible(s, act) \in 0..Len(queue[s])
           /\ Admissible(s, act) > 0 => Cardinality(act[s]) + Admissible(s, act) <= limit
           /\ Admissible(s, act) < Len(queue[s]) => Cardinality(act[s]) + Admissible(s, act) >= limit
  <1>1. Cardinality(act[s]) \in Nat
    BY LeaseCount
  <1>2. limit \in Nat /\ Len(queue[s]) \in Nat
    BY LeaseAssumption DEF TypeOK
  <1>3. QED
    BY <1>1, <1>2 DEF Admissible

\* The first n waiters of the object s.
Heads(s, n) == {queue[s][i] : i \in 1..n}

\* The lease of r, counted by s, ends and the first n waiters of s take over.
HandsOver(r, s, n) ==
    /\ s = captured[r] /\ s = current[chan[r]] /\ chan[r] \in Channels
    /\ n <= Len(queue[s])
    /\ n > 0 => Cardinality(active[s] \ {r}) + n <= limit
    /\ n < Len(queue[s]) => Cardinality(active[s] \ {r}) + n >= limit
    /\ \A p \in Heads(s, n) : p \in Requests /\ phase[p] = "waiting" /\ captured[p] = s
    /\ active' = [active EXCEPT ![s] = (@ \ {r}) \cup Heads(s, n)]
    /\ queue' = [queue EXCEPT ![s] = SubSeq(@, n + 1, Len(@))]
    /\ captured' = [captured EXCEPT ![r] = NoState]
    /\ current' = Settled(chan[r], active', queue')
    /\ \A next : Resumed(r, next) =
           [p \in Requests |-> IF p = r THEN next
                               ELSE IF p \in Heads(s, n) THEN "holding" ELSE phase[p]]

\* What ends with a live lease r: its object is the one the map names, and the
\* waiters at its head, none of which is r, take over the slots that are free.
LEMMA ReleaseStep ==
    ASSUME IInv, NEW r \in Requests, phase[r] = "holding", EndLease(r)
    PROVE  \E s \in StateIds, n \in Nat : HandsOver(r, s, n)
  <1> DEFINE s == captured[r]
             left == [active EXCEPT ![s] = @ \ {r}]
             n == Admissible(s, left)
             W == {queue[s][i] : i \in 1..n}
  <1>1. chan[r] \in Channels /\ current[chan[r]] = s
    BY DEF IInv, ClosuresReachable
  <1>2. s \in StateIds /\ s # NoState
    BY LeaseAssumption DEF IInv, ClosuresReachable
  <1>3. left \in [StateIds -> SUBSET Requests] /\ left[s] = active[s] \ {r}
    BY <1>2 DEF IInv, TypeOK
  <1>4. /\ n \in 0..Len(queue[s])
        /\ n > 0 => Cardinality(left[s]) + n <= limit
        /\ n < Len(queue[s]) => Cardinality(left[s]) + n >= limit
    BY <1>2, <1>3, AdmissibleBound DEF IInv
  <1>5. \A p \in W : p \in Requests /\ phase[p] = "waiting" /\ captured[p] = s
    <2>1. SUFFICES ASSUME NEW i \in 1..n
                   PROVE  /\ queue[s][i] \in Requests
                          /\ phase[queue[s][i]] = "waiting" /\ captured[queue[s][i]] = s
      OBVIOUS
    <2>2. queue[s] \in Seq(Requests)
      BY <1>2 DEF IInv, TypeOK
    <2>3. i \in 1..Len(queue[s])
      BY <1>4, <2>2
    <2>4. QED
      BY <1>2, <2>2, <2>3 DEF IInv, NothingLeaks
  <1>6. Woken(chan[r], left) = W
    BY <1>1, <1>2 DEF Woken
  <1>7. active' = [active EXCEPT ![s] = (@ \ {r}) \cup W]
    BY <1>1, <1>2, <1>3, <1>6 DEF EndLease, IInv, TypeOK
  <1>8. queue' = [queue EXCEPT ![s] = SubSeq(@, n + 1, Len(@))]
    BY <1>1, <1>2 DEF EndLease, Drained
  <1>9. captured' = [captured EXCEPT ![r] = NoState]
    BY <1>1, <1>2, <1>5, <1>6 DEF EndLease, IInv, TypeOK
  <1>10. current' = Settled(chan[r], active', queue')
    BY DEF EndLease
  <1>11. ASSUME NEW next
         PROVE  Resumed(r, next) =
                  [p \in Requests |-> IF p = r THEN next
                                      ELSE IF p \in W THEN "holding" ELSE phase[p]]
    BY <1>6 DEF Resumed
  <1>12. n \in Nat /\ n <= Len(queue[s])
    BY <1>2, <1>4 DEF IInv, TypeOK
  <1> HIDE DEF s, n, W
  <1>13. QED
    BY <1>1, <1>2, <1>3, <1>4, <1>5, <1>7, <1>8, <1>9, <1>10, <1>11, <1>12 DEF W, s, HandsOver, Heads

-----------------------------------------------------------------------------
(***************************************************************************)
(* The inductive invariant is preserved by every operation                 *)
(***************************************************************************)

LEMMA InitInv == Init => IInv
  BY LeaseAssumption DEF Init, IInv, TypeOK, Phases, ClosuresReachable, NothingLeaks, Leases, Waiters

\* Steps that touch neither requests nor state objects.
LEMMA SettingInv ==
    ASSUME IInv, UNCHANGED <<phase, chan, captured, current, active, queue>>,
           limit' \in Limits, queueing' \in QueueWaits
    PROVE  IInv'
  BY DEF IInv, TypeOK, ClosuresReachable, NothingLeaks, Leases, Waiters

\* Steps of a request that no object lists, before and after.
LEMMA UnlistedInv ==
    ASSUME IInv, NEW r \in Requests,
           phase[r] \notin {"holding", "waiting"},
           NEW next \in Phases \ {"holding", "waiting"},
           NEW c \in Channels \cup {NoChannel},
           phase' = [phase EXCEPT ![r] = next],
           chan' = [chan EXCEPT ![r] = c],
           UNCHANGED <<limit, queueing, captured, current, active, queue>>
    PROVE  IInv'
  <1>1. TypeOK'
    BY DEF IInv, TypeOK
  <1>2. ClosuresReachable'
    BY DEF IInv, TypeOK, ClosuresReachable
  <1>3. NothingLeaks'
    <2>1. ASSUME NEW s \in StateIds
          PROVE  active'[s] = {p \in Requests : phase'[p] = "holding" /\ captured'[p] = s}
      BY DEF IInv, TypeOK, NothingLeaks
    <2>2. ASSUME NEW s \in StateIds, NEW i \in 1..Len(queue[s]), NEW j \in 1..Len(queue[s])
          PROVE  /\ phase'[queue[s][i]] = "waiting" /\ captured'[queue[s][i]] = s
                 /\ queue[s][i] = queue[s][j] => i = j
      BY DEF IInv, TypeOK, NothingLeaks
    <2>3. \A d \in Channels : current'[d] # NoState => Leases(d)' # {} \/ Waiters(d)' # << >>
      BY DEF IInv, NothingLeaks, Leases, Waiters
    <2>4. QED
      BY <2>1, <2>2, <2>3 DEF NothingLeaks
  <1>4. QED
    BY <1>1, <1>2, <1>3 DEF IInv

\* The object an acquire works on: nobody else's, and the channel's own when
\* it lists anything.
LEMMA StateForChannel ==
    ASSUME IInv, NEW c \in Channels, NEW s \in StatesFor(c)
    PROVE  /\ s \in StateIds
           /\ \A d \in Channels : current[d] = s => d = c
           /\ current[c] # s =>
                 /\ current[c] = NoState
                 /\ \A r \in Requests : captured[r] # s
                 /\ active[s] = {} /\ queue[s] = << >>
  <1>1. CASE current[c] = NoState
    <2>1. s \in StateIds /\ (\A d \in Channels : current[d] # s)
             /\ (\A r \in Requests : captured[r] # s)
      BY <1>1 DEF StatesFor, FreshStates
    <2>2. active[s] = {}
      BY <2>1 DEF IInv, NothingLeaks
    <2>3. queue[s] = << >>
      <3>1. queue[s] \in Seq(Requests)
        BY <2>1 DEF IInv, TypeOK
      <3>2. ASSUME Len(queue[s]) > 0 PROVE FALSE
        <4>1. 1 \in 1..Len(queue[s]) /\ queue[s][1] \in Requests
          BY <3>1, <3>2
        <4>2. QED
          BY <2>1, <4>1 DEF IInv, NothingLeaks
      <3>3. QED
        BY <3>1, <3>2
    <2>4. QED
      BY <1>1, <2>1, <2>2, <2>3
  <1>2. CASE current[c] # NoState
    BY <1>2 DEF StatesFor, IInv, TypeOK, ClosuresReachable
  <1>3. QED
    BY <1>1, <1>2

LEMMA AcquireSlotInv ==
    ASSUME IInv, NEW r \in Requests, NEW c \in Channels, NEW s \in StateIds, AcquireSlot(r, c, s)
    PROVE  IInv'
  <1>1. s \in StatesFor(c)
    BY DEF AcquireSlot
  <1>2. TypeOK'
    BY DEF AcquireSlot, IInv, TypeOK, Phases
  <1>3. captured[r] = NoState /\ NoState \notin StateIds
    BY LeaseAssumption DEF AcquireSlot, IInv, ClosuresReachable
  <1>4. ClosuresReachable'
    <2>1. \A d, e \in Channels : current'[d] = current'[e] /\ current'[d] # NoState => d = e
      BY <1>1, <1>3, StateForChannel DEF AcquireSlot, IInv, TypeOK, ClosuresReachable
    <2>2. ASSUME NEW p \in Requests, p # r
          PROVE  /\ phase'[p] \in {"holding", "waiting"} =>
                       /\ chan'[p] \in Channels /\ captured'[p] \in StateIds
                       /\ current'[chan'[p]] = captured'[p]
                 /\ phase'[p] = "waiting" => p \in Elements(queue'[captured'[p]])
                 /\ phase'[p] \notin {"holding", "waiting"} => captured'[p] = NoState
      BY <1>1, <1>3, <2>2, StateForChannel DEF AcquireSlot, IInv, TypeOK, ClosuresReachable
    <2>3. /\ phase'[r] = "holding" /\ chan'[r] = c /\ captured'[r] = s
          /\ current'[c] = s
      BY DEF AcquireSlot, IInv, TypeOK
    <2>4. QED
      BY <2>1, <2>2, <2>3 DEF ClosuresReachable, Elements
  <1>5. NothingLeaks'
    <2>1. ASSUME NEW t \in StateIds
          PROVE  active'[t] = {p \in Requests : phase'[p] = "holding" /\ captured'[p] = t}
      BY <1>3 DEF AcquireSlot, IInv, TypeOK, NothingLeaks
    <2>2. ASSUME NEW t \in StateIds, NEW i \in 1..Len(queue'[t]), NEW j \in 1..Len(queue'[t])
          PROVE  /\ phase'[queue'[t][i]] = "waiting" /\ captured'[queue'[t][i]] = t
                 /\ queue'[t][i] = queue'[t][j] => i = j
      BY DEF AcquireSlot, IInv, TypeOK, NothingLeaks
    <2>3. ASSUME NEW d \in Channels, current'[d] # NoState
          PROVE  Leases(d)' # {} \/ Waiters(d)' # << >>
      <3>1. CASE d = c
        BY <3>1, <1>3 DEF AcquireSlot, IInv, TypeOK, Leases
      <3>2. CASE d # c
        BY <3>2, <2>3, <1>1, StateForChannel
           DEF AcquireSlot, IInv, TypeOK, NothingLeaks, Leases, Waiters
      <3>3. QED
        BY <3>1, <3>2
    <2>4. QED
      BY <2>1, <2>2, <2>3 DEF NothingLeaks
  <1>6. QED
    BY <1>2, <1>4, <1>5 DEF IInv

LEMMA AcquireRefusedInv ==
    ASSUME IInv, NEW r \in Requests, NEW c \in Channels, NEW s \in StateIds, AcquireRefused(r, c, s)
    PROVE  IInv'
  <1>1. s \in StatesFor(c) /\ limit > 0 /\ limit \in Nat
    BY LeaseAssumption DEF AcquireRefused, IInv, TypeOK
  <1>2. active[s] # {}
    BY <1>1, FS_EmptySet DEF AcquireRefused
  <1>3. current[c] = s
    BY <1>1, <1>2, StateForChannel
  <1>4. current' = current
    BY <1>3 DEF AcquireRefused, IInv, TypeOK
  <1>5. r \in Requests /\ chan[r] \in Channels \cup {NoChannel} /\ chan' = [chan EXCEPT ![r] = chan[r]]
    BY DEF AcquireRefused, IInv, TypeOK
  <1>6. QED
    BY <1>4, <1>5, UnlistedInv DEF AcquireRefused, Phases

LEMMA AcquireQueuedInv ==
    ASSUME IInv, NEW r \in Requests, NEW c \in Channels, NEW s \in StateIds, AcquireQueued(r, c, s)
    PROVE  IInv'
  <1>1. s \in StatesFor(c)
    BY DEF AcquireQueued
  <1>2. queue[s] \in Seq(Requests) /\ queue'[s] = Append(queue[s], r)
           /\ \A t \in StateIds : t # s => queue'[t] = queue[t]
    BY DEF AcquireQueued, IInv, TypeOK
  <1>3. TypeOK'
    <2>1. queue' \in [StateIds -> Seq(Requests)]
      <3>1. Append(queue[s], r) \in Seq(Requests)
        BY <1>2
      <3>2. QED
        BY <3>1 DEF AcquireQueued, IInv, TypeOK
    <2>2. QED
      BY <2>1 DEF AcquireQueued, IInv, TypeOK, Phases
  <1>4. captured[r] = NoState /\ NoState \notin StateIds
    BY LeaseAssumption DEF AcquireQueued, IInv, ClosuresReachable
  <1>5. /\ phase'[r] = "waiting" /\ chan'[r] = c /\ captured'[r] = s /\ current'[c] = s
        /\ \A p \in Requests : p # r =>
              phase'[p] = phase[p] /\ chan'[p] = chan[p] /\ captured'[p] = captured[p]
        /\ \A d \in Channels : d # c => current'[d] = current[d]
    BY DEF AcquireQueued, IInv, TypeOK
  <1>6. ClosuresReachable'
    <2>1. \A d, e \in Channels : current'[d] = current'[e] /\ current'[d] # NoState => d = e
      BY <1>1, <1>4, <1>5, StateForChannel DEF IInv, ClosuresReachable
    <2>2. ASSUME NEW p \in Requests, p # r
          PROVE  /\ phase'[p] \in {"holding", "waiting"} =>
                       /\ chan'[p] \in Channels /\ captured'[p] \in StateIds
                       /\ current'[chan'[p]] = captured'[p]
                 /\ phase'[p] \notin {"holding", "waiting"} => captured'[p] = NoState
      BY <1>1, <1>4, <1>5, <2>2, StateForChannel DEF IInv, ClosuresReachable
    <2>3. ASSUME NEW p \in Requests, p # r, phase'[p] = "waiting"
          PROVE  p \in Elements(queue'[captured'[p]])
      <3>1. captured[p] \in StateIds /\ p \in Elements(queue[captured[p]])
        BY <1>5, <2>3 DEF IInv, ClosuresReachable
      <3>2. PICK i \in 1..Len(queue[captured[p]]) : queue[captured[p]][i] = p
        BY <3>1 DEF Elements
      <3>3. i \in 1..Len(queue'[captured[p]]) /\ queue'[captured[p]][i] = p
        BY <1>2, <3>1, <3>2
      <3>4. QED
        BY <1>5, <2>3, <3>3 DEF Elements
    <2>4. r \in Elements(queue'[s])
      <3>1. Len(queue[s]) + 1 \in 1..Len(queue'[s]) /\ queue'[s][Len(queue[s]) + 1] = r
        BY <1>2
      <3>2. QED
        BY <3>1 DEF Elements
    <2>5. QED
      BY <1>5, <2>1, <2>2, <2>3, <2>4 DEF ClosuresReachable
  <1>7. NothingLeaks'
    <2>1. ASSUME NEW t \in StateIds
          PROVE  active'[t] = {p \in Requests : phase'[p] = "holding" /\ captured'[p] = t}
      BY DEF AcquireQueued, IInv, TypeOK, NothingLeaks
    <2>2. ASSUME NEW t \in StateIds, NEW i \in 1..Len(queue'[t]), NEW j \in 1..Len(queue'[t])
          PROVE  /\ phase'[queue'[t][i]] = "waiting" /\ captured'[queue'[t][i]] = t
                 /\ queue'[t][i] = queue'[t][j] => i = j
      <3>1. ASSUME NEW u \in StateIds, NEW k \in 1..Len(queue[u])
            PROVE  queue[u][k] \in Requests /\ queue[u][k] # r
        <4>1. queue[u] \in Seq(Requests)
          BY DEF IInv, TypeOK
        <4>2. phase[queue[u][k]] = "waiting"
          BY DEF IInv, NothingLeaks
        <4>3. QED
          BY <4>1, <4>2 DEF AcquireQueued
      <3>2. CASE t # s
        <4>1. queue'[t] = queue[t]
          BY <1>2, <3>2
        <4>2. i \in 1..Len(queue[t]) /\ j \in 1..Len(queue[t])
          BY <4>1
        <4>3. QED
          BY <1>5, <3>1, <4>1, <4>2 DEF IInv, NothingLeaks
      <3>3. CASE t = s
        <4>1. Len(queue'[s]) = Len(queue[s]) + 1 /\ Len(queue[s]) \in Nat
          BY <1>2
        <4>2. \A k \in 1..Len(queue[s]) : queue'[s][k] = queue[s][k]
          BY <1>2
        <4>3. queue'[s][Len(queue[s]) + 1] = r
          BY <1>2
        <4>4. \A k, l \in 1..Len(queue[s]) :
                 /\ phase[queue[s][k]] = "waiting" /\ captured[queue[s][k]] = s
                 /\ queue[s][k] = queue[s][l] => k = l
          BY DEF IInv, NothingLeaks
        <4>5. /\ i \in 1..Len(queue[s]) \/ i = Len(queue[s]) + 1
              /\ j \in 1..Len(queue[s]) \/ j = Len(queue[s]) + 1
          BY <3>3, <4>1
        <4>6. phase'[queue'[s][i]] = "waiting" /\ captured'[queue'[s][i]] = s
          BY <1>5, <3>1, <4>2, <4>3, <4>4, <4>5
        <4>7. queue'[s][i] = queue'[s][j] => i = j
          BY <3>1, <4>2, <4>3, <4>4, <4>5
        <4>8. QED
          BY <3>3, <4>6, <4>7
      <3>4. QED
        BY <3>2, <3>3
    <2>3. ASSUME NEW d \in Channels, current'[d] # NoState
          PROVE  Leases(d)' # {} \/ Waiters(d)' # << >>
      <3>1. CASE d = c
        BY <1>2, <1>4, <1>5, <3>1 DEF Waiters
      <3>2. CASE d # c
        <4>1. current[d] # s /\ current[d] = current'[d]
          BY <1>1, <1>5, <3>2, StateForChannel
        <4>2. current[d] \in StateIds /\ queue'[current[d]] = queue[current[d]]
          BY <1>2, <2>3, <4>1 DEF IInv, TypeOK
        <4>3. active' = active
          BY DEF AcquireQueued
        <4>4. QED
          BY <2>3, <4>1, <4>2, <4>3 DEF IInv, NothingLeaks, Leases, Waiters
      <3>3. QED
        BY <3>1, <3>2
    <2>4. QED
      BY <2>1, <2>2, <2>3 DEF NothingLeaks
  <1>8. QED
    BY <1>3, <1>6, <1>7 DEF IInv

\* Dropping the i-th waiter keeps the others, in their order.
LEMMA DropOne ==
    ASSUME NEW q \in Seq(Requests), NEW i \in 1..Len(q)
    PROVE  /\ Drop(q, i) \in Seq(Requests)
           /\ Len(Drop(q, i)) = Len(q) - 1
           /\ \A j \in 1..(Len(q) - 1) : Drop(q, i)[j] = IF j < i THEN q[j] ELSE q[j + 1]
  <1>1. Len(q) \in Nat /\ Len(q) - 1 \in Nat /\ \A j \in 1..Len(q) : q[j] \in Requests
    OBVIOUS
  <1>2. Drop(q, i) \in [1..(Len(q) - 1) -> Requests]
    BY <1>1 DEF Drop
  <1>3. Drop(q, i) \in Seq(Requests)
    BY <1>1, <1>2
  <1>4. Len(Drop(q, i)) = Len(q) - 1
    BY <1>1, <1>2
  <1>5. QED
    BY <1>3, <1>4 DEF Drop

LEMMA WaitTimeoutInv ==
    ASSUME IInv, NEW r \in Requests, WaitTimeout(r)
    PROVE  IInv'
  <1> DEFINE s == captured[r]
             c == chan[r]
  <1>1. c \in Channels /\ s \in StateIds /\ s # NoState /\ current[c] = s
    BY LeaseAssumption DEF WaitTimeout, WaitDue, IInv, ClosuresReachable
  <1>2. PICK i \in 1..Len(queue[s]) :
           queue[s][i] = r /\ queue' = [queue EXCEPT ![s] = Drop(@, i)]
    BY DEF WaitTimeout
  <1>3. queue[s] \in Seq(Requests)
    BY <1>1 DEF IInv, TypeOK
  <1>4. /\ queue'[s] = Drop(queue[s], i)
        /\ \A t \in StateIds : t # s => queue'[t] = queue[t]
    BY <1>1, <1>2 DEF IInv, TypeOK
  <1>5. /\ queue'[s] \in Seq(Requests)
        /\ Len(queue'[s]) = Len(queue[s]) - 1
        /\ \A j \in 1..Len(queue'[s]) : queue'[s][j] = queue[s][IF j < i THEN j ELSE j + 1]
    <2>1. /\ Drop(queue[s], i) \in Seq(Requests)
          /\ Len(Drop(queue[s], i)) = Len(queue[s]) - 1
          /\ \A j \in 1..(Len(queue[s]) - 1) :
                Drop(queue[s], i)[j] = IF j < i THEN queue[s][j] ELSE queue[s][j + 1]
      BY <1>3, DropOne
    <2>2. QED
      BY <1>4, <2>1
  <1>6. /\ phase'[r] = "refused" /\ captured'[r] = NoState /\ chan'[r] = NoChannel
        /\ \A p \in Requests : p # r =>
              phase'[p] = phase[p] /\ chan'[p] = chan[p] /\ captured'[p] = captured[p]
        /\ active' = active
    BY DEF WaitTimeout, IInv, TypeOK
  <1>7. /\ \A d \in Channels : d # c => current'[d] = current[d]
        /\ current'[c] \in {s, NoState}
        /\ current'[c] = NoState => active[s] = {} /\ queue'[s] = << >>
        /\ current'[c] = s => active[s] # {} \/ queue'[s] # << >>
        /\ current' \in [Channels -> StateIds \cup {NoState}]
    BY <1>1 DEF WaitTimeout, Settled, IInv, TypeOK
  <1>8. TypeOK'
    <2>1. queue' \in [StateIds -> Seq(Requests)]
      BY <1>2, <1>4, <1>5 DEF IInv, TypeOK
    <2>2. QED
      BY <1>7, <2>1 DEF WaitTimeout, IInv, TypeOK, Phases
  <1>9. \A k, l \in 1..Len(queue[s]) :
           /\ phase[queue[s][k]] = "waiting" /\ captured[queue[s][k]] = s
           /\ queue[s][k] = queue[s][l] => k = l
    BY <1>1 DEF IInv, NothingLeaks
  <1>10. ASSUME NEW p \in Requests, p # r, phase[p] = "waiting", captured[p] = s
         PROVE  p \in Elements(queue'[s])
    <2>1. PICK k \in 1..Len(queue[s]) : queue[s][k] = p
      BY <1>10 DEF IInv, ClosuresReachable, Elements
    <2>2. k # i
      BY <1>2, <1>10, <2>1
    <2>3. CASE k < i
      BY <1>5, <1>3, <2>1, <2>3 DEF Elements
    <2>4. CASE k > i
      <3>1. k - 1 \in 1..Len(queue'[s]) /\ ~(k - 1 < i) /\ (k - 1) + 1 = k
        BY <1>3, <1>5, <2>4
      <3>2. queue'[s][k - 1] = p
        BY <1>5, <2>1, <3>1
      <3>3. QED
        BY <3>1, <3>2 DEF Elements
    <2>5. QED
      BY <1>3, <2>2, <2>3, <2>4
  <1>11. ClosuresReachable'
    <2>1. \A d, e \in Channels : current'[d] = current'[e] /\ current'[d] # NoState => d = e
      BY <1>1, <1>7 DEF IInv, ClosuresReachable
    <2>2. ASSUME NEW p \in Requests, p # r, phase[p] \in {"holding", "waiting"}
          PROVE  /\ chan[p] \in Channels /\ captured[p] \in StateIds
                 /\ current'[chan[p]] = captured[p]
                 /\ phase[p] = "waiting" => p \in Elements(queue'[captured[p]])
      <3>1. /\ chan[p] \in Channels /\ captured[p] \in StateIds
            /\ current[chan[p]] = captured[p]
            /\ phase[p] = "waiting" => p \in Elements(queue[captured[p]])
        BY <2>2 DEF IInv, ClosuresReachable
      <3>2. CASE captured[p] # s
        BY <1>1, <1>4, <1>7, <3>1, <3>2
      <3>3. CASE captured[p] = s
        <4>1. chan[p] = c
          BY <1>1, <3>1, <3>3 DEF IInv, ClosuresReachable
        <4>2. phase[p] = "waiting" => p \in Elements(queue'[s])
          BY <1>10, <2>2, <3>3
        <4>3. phase[p] = "holding" => p \in active[s]
          BY <1>1, <3>3 DEF IInv, NothingLeaks
        <4>4. current'[c] = s
          BY <1>5, <1>7, <2>2, <4>2, <4>3 DEF Elements
        <4>5. QED
          BY <3>1, <3>3, <4>1, <4>2, <4>4
      <3>4. QED
        BY <3>2, <3>3
    <2>3. QED
      BY <1>6, <2>1, <2>2 DEF IInv, ClosuresReachable
  <1>12. NothingLeaks'
    <2>1. ASSUME NEW t \in StateIds
          PROVE  active'[t] = {p \in Requests : phase'[p] = "holding" /\ captured'[p] = t}
      BY DEF WaitTimeout, IInv, TypeOK, NothingLeaks
    <2>2. ASSUME NEW t \in StateIds, NEW j \in 1..Len(queue'[t]), NEW l \in 1..Len(queue'[t])
          PROVE  /\ phase'[queue'[t][j]] = "waiting" /\ captured'[queue'[t][j]] = t
                 /\ queue'[t][j] = queue'[t][l] => j = l
      <3>1. CASE t # s
        <4>1. queue'[t] = queue[t] /\ queue[t] \in Seq(Requests)
          BY <1>4, <3>1 DEF IInv, TypeOK
        <4>2. j \in 1..Len(queue[t]) /\ l \in 1..Len(queue[t]) /\ queue[t][j] \in Requests
          BY <4>1
        <4>3. /\ phase[queue[t][j]] = "waiting" /\ captured[queue[t][j]] = t
              /\ queue[t][j] = queue[t][l] => j = l
          BY <4>2 DEF IInv, NothingLeaks
        <4>4. QED
          BY <1>6, <3>1, <4>1, <4>2, <4>3
      <3>2. CASE t = s
        <4> DEFINE J == IF j < i THEN j ELSE j + 1
                   L == IF l < i THEN l ELSE l + 1
        <4>1. /\ J \in 1..Len(queue[s]) /\ L \in 1..Len(queue[s])
              /\ J # i /\ (J = L => j = l)
          BY <1>3, <1>5, <3>2
        <4>2. queue'[t][j] = queue[s][J] /\ queue'[t][l] = queue[s][L]
          BY <1>5, <3>2
        <4>3. queue[s][J] \in Requests /\ queue[s][J] # r
          BY <1>2, <1>3, <1>9, <4>1
        <4>4. phase[queue[s][J]] = "waiting" /\ captured[queue[s][J]] = s
          BY <1>9, <4>1
        <4>5. queue[s][J] = queue[s][L] => J = L
          BY <1>9, <4>1
        <4> HIDE DEF J, L
        <4>6. QED
          BY <1>6, <3>2, <4>1, <4>2, <4>3, <4>4, <4>5
      <3>3. QED
        BY <3>1, <3>2
    <2>3. ASSUME NEW d \in Channels, current'[d] # NoState
          PROVE  Leases(d)' # {} \/ Waiters(d)' # << >>
      <3>1. CASE d = c
        BY <1>6, <1>7, <2>3, <3>1 DEF Leases, Waiters
      <3>2. CASE d # c
        <4>1. current'[d] = current[d] /\ current[d] # s
          BY <1>1, <1>7, <3>2 DEF IInv, ClosuresReachable
        <4>2. current[d] \in StateIds /\ queue'[current[d]] = queue[current[d]]
          BY <1>4, <2>3, <4>1 DEF IInv, TypeOK
        <4>3. QED
          BY <1>6, <2>3, <4>1, <4>2 DEF IInv, NothingLeaks, Leases, Waiters
      <3>3. QED
        BY <3>1, <3>2
    <2>4. QED
      BY <2>1, <2>2, <2>3 DEF NothingLeaks
  <1>13. QED
    BY <1>8, <1>11, <1>12 DEF IInv

\* The line behind the first n waiters.
LEMMA RestOfLine ==
    ASSUME NEW q \in Seq(Requests), NEW n \in 0..Len(q)
    PROVE  /\ SubSeq(q, n + 1, Len(q)) \in Seq(Requests)
           /\ Len(SubSeq(q, n + 1, Len(q))) = Len(q) - n
           /\ \A j \in 1..(Len(q) - n) : SubSeq(q, n + 1, Len(q))[j] = q[n + j]
  OBVIOUS

\* A lease that ends, by release or by expiry.
LEMMA EndLeaseInv ==
    ASSUME IInv, NEW r \in Requests, phase[r] = "holding", EndLease(r),
           NEW next \in Phases \ {"holding", "waiting"},
           NEW x \in Channels \cup {NoChannel},
           phase' = Resumed(r, next), chan' = [chan EXCEPT ![r] = x],
           UNCHANGED config
    PROVE  IInv'
  <1>0. PICK s \in StateIds, n \in Nat : HandsOver(r, s, n)
    BY ReleaseStep
  <1> DEFINE W == {queue[s][i] : i \in 1..n}
             c == chan[r]
  <1>1. /\ s = captured[r] /\ s = current[chan[r]] /\ chan[r] \in Channels
        /\ n <= Len(queue[s])
        /\ \A p \in W : p \in Requests /\ phase[p] = "waiting" /\ captured[p] = s
        /\ active' = [active EXCEPT ![s] = (@ \ {r}) \cup W]
        /\ queue' = [queue EXCEPT ![s] = SubSeq(@, n + 1, Len(@))]
        /\ captured' = [captured EXCEPT ![r] = NoState]
        /\ current' = Settled(chan[r], active', queue')
        /\ phase' = [p \in Requests |-> IF p = r THEN next
                                         ELSE IF p \in W THEN "holding" ELSE phase[p]]
    BY <1>0 DEF HandsOver, Heads
  <1>2. c \in Channels /\ s # NoState /\ current[c] = s /\ captured[r] = s
    BY <1>1, LeaseAssumption
  <1>3. \A p \in W : p \in Requests /\ p # r /\ phase[p] = "waiting" /\ captured[p] = s
    BY <1>1
  <1>4. queue[s] \in Seq(Requests) /\ n \in 0..Len(queue[s])
    BY <1>1 DEF IInv, TypeOK
  <1>5. /\ queue'[s] = SubSeq(queue[s], n + 1, Len(queue[s]))
        /\ \A t \in StateIds : t # s => queue'[t] = queue[t]
    BY <1>1 DEF IInv, TypeOK
  <1>6. /\ queue'[s] \in Seq(Requests)
        /\ Len(queue'[s]) = Len(queue[s]) - n
        /\ \A j \in 1..Len(queue'[s]) : queue'[s][j] = queue[s][n + j]
    <2>1. /\ SubSeq(queue[s], n + 1, Len(queue[s])) \in Seq(Requests)
          /\ Len(SubSeq(queue[s], n + 1, Len(queue[s]))) = Len(queue[s]) - n
          /\ \A j \in 1..(Len(queue[s]) - n) :
                SubSeq(queue[s], n + 1, Len(queue[s]))[j] = queue[s][n + j]
      BY <1>4, RestOfLine
    <2>2. QED
      BY <1>5, <2>1
  <1>7. /\ active'[s] = (active[s] \ {r}) \cup W
        /\ \A t \in StateIds : t # s => active'[t] = active[t]
    BY <1>1 DEF IInv, TypeOK
  <1>8. /\ phase'[r] = next /\ captured'[r] = NoState /\ chan'[r] = x
        /\ \A p \in W : phase'[p] = "holding"
        /\ \A p \in Requests : p # r /\ p \notin W => phase'[p] = phase[p]
        /\ \A p \in Requests : p # r => chan'[p] = chan[p] /\ captured'[p] = captured[p]
    BY <1>1, <1>3 DEF IInv, TypeOK
  <1>9. /\ \A d \in Channels : d # c => current'[d] = current[d]
        /\ current'[c] \in {s, NoState}
        /\ current'[c] = NoState => active'[s] = {} /\ queue'[s] = << >>
        /\ current'[c] = s => active'[s] # {} \/ queue'[s] # << >>
        /\ current' \in [Channels -> StateIds \cup {NoState}]
    BY <1>1, <1>2 DEF Settled, IInv, TypeOK
  <1>10. \A k, l \in 1..Len(queue[s]) :
            /\ phase[queue[s][k]] = "waiting" /\ captured[queue[s][k]] = s
            /\ queue[s][k] = queue[s][l] => k = l
    BY DEF IInv, NothingLeaks
  <1>11. \A k \in 1..Len(queue[s]) : queue[s][k] \in W <=> k <= n
    BY <1>4, <1>10
  <1>12. TypeOK'
    <2>1. queue' \in [StateIds -> Seq(Requests)]
      BY <1>1, <1>5, <1>6 DEF IInv, TypeOK
    <2>2. active' \in [StateIds -> SUBSET Requests]
      BY <1>1, <1>3, <1>7 DEF IInv, TypeOK
    <2>3. phase' \in [Requests -> Phases]
      BY <1>1 DEF IInv, TypeOK, Phases
    <2>4. captured' \in [Requests -> StateIds \cup {NoState}]
      BY <1>1 DEF IInv, TypeOK
    <2>5. QED
      BY <1>9, <2>1, <2>2, <2>3, <2>4 DEF IInv, TypeOK, config
  <1> HIDE DEF W
  <1>13. ASSUME NEW p \in Requests, phase[p] = "waiting", captured[p] = s, p \notin W
         PROVE  p \in Elements(queue'[s])
    <2>1. PICK k \in 1..Len(queue[s]) : queue[s][k] = p
      BY <1>13 DEF IInv, ClosuresReachable, Elements
    <2>2. k > n
      BY <1>4, <1>11, <1>13, <2>1
    <2>3. k - n \in 1..Len(queue'[s]) /\ n + (k - n) = k
      BY <1>4, <1>6, <2>2
    <2>4. queue'[s][k - n] = p
      BY <1>6, <2>1, <2>3
    <2>5. QED
      BY <2>3, <2>4 DEF Elements
  <1>14. ClosuresReachable'
    <2>1. \A d, e \in Channels : current'[d] = current'[e] /\ current'[d] # NoState => d = e
      BY <1>2, <1>9 DEF IInv, ClosuresReachable
    <2>2. ASSUME NEW p \in Requests, p # r, phase[p] \in {"holding", "waiting"}
          PROVE  /\ chan[p] \in Channels /\ captured[p] \in StateIds
                 /\ current'[chan[p]] = captured[p]
                 /\ phase'[p] = "waiting" => p \in Elements(queue'[captured[p]])
      <3>1. /\ chan[p] \in Channels /\ captured[p] \in StateIds
            /\ current[chan[p]] = captured[p]
            /\ phase[p] = "waiting" => p \in Elements(queue[captured[p]])
        BY <2>2 DEF IInv, ClosuresReachable
      <3>2. CASE captured[p] # s
        BY <1>2, <1>3, <1>5, <1>8, <1>9, <2>2, <3>1, <3>2
      <3>3. CASE captured[p] = s
        <4>1. chan[p] = c
          BY <1>2, <3>1, <3>3 DEF IInv, ClosuresReachable
        <4>2. phase'[p] = "waiting" => p \in Elements(queue'[s])
          BY <1>8, <1>13, <2>2, <3>3
        <4>3. phase'[p] = "holding" => p \in active'[s]
          BY <1>7, <1>8, <2>2, <3>3 DEF IInv, NothingLeaks
        <4>4. phase'[p] \in {"holding", "waiting"}
          BY <1>8, <2>2
        <4>5. current'[c] = s
          BY <1>6, <1>9, <4>2, <4>3, <4>4 DEF Elements
        <4>6. QED
          BY <3>1, <3>3, <4>1, <4>2, <4>5
      <3>4. QED
        BY <3>2, <3>3
    <2>3. ASSUME NEW p \in Requests, p # r, phase'[p] \in {"holding", "waiting"}
          PROVE  phase[p] \in {"holding", "waiting"}
      BY <1>3, <1>8, <2>3
    <2>4. ASSUME NEW p \in Requests, p # r, phase'[p] \notin {"holding", "waiting"}
          PROVE  captured'[p] = NoState
      BY <1>8, <2>4 DEF IInv, ClosuresReachable
    <2>5. QED
      BY <1>8, <2>1, <2>2, <2>3, <2>4 DEF ClosuresReachable
  <1>15. NothingLeaks'
    <2>1. ASSUME NEW t \in StateIds
          PROVE  active'[t] = {p \in Requests : phase'[p] = "holding" /\ captured'[p] = t}
      <3>1. active[t] = {p \in Requests : phase[p] = "holding" /\ captured[p] = t}
        BY DEF IInv, NothingLeaks
      <3>2. CASE t # s
        BY <1>2, <1>3, <1>7, <1>8, <3>1, <3>2, LeaseAssumption
      <3>3. CASE t = s
        BY <1>2, <1>3, <1>7, <1>8, <3>1, <3>3
      <3>4. QED
        BY <3>2, <3>3
    <2>2. ASSUME NEW t \in StateIds, NEW j \in 1..Len(queue'[t]), NEW l \in 1..Len(queue'[t])
          PROVE  /\ phase'[queue'[t][j]] = "waiting" /\ captured'[queue'[t][j]] = t
                 /\ queue'[t][j] = queue'[t][l] => j = l
      <3>1. CASE t # s
        <4>1. queue'[t] = queue[t] /\ queue[t] \in Seq(Requests)
          BY <1>5, <3>1 DEF IInv, TypeOK
        <4>2. j \in 1..Len(queue[t]) /\ l \in 1..Len(queue[t]) /\ queue[t][j] \in Requests
          BY <4>1
        <4>3. /\ phase[queue[t][j]] = "waiting" /\ captured[queue[t][j]] = t
              /\ queue[t][j] = queue[t][l] => j = l
          BY <4>2 DEF IInv, NothingLeaks
        <4>4. queue[t][j] # r /\ queue[t][j] \notin W
          BY <1>3, <3>1, <4>3
        <4>5. QED
          BY <1>8, <4>1, <4>2, <4>3, <4>4
      <3>2. CASE t = s
        <4>1. n + j \in 1..Len(queue[s]) /\ n + l \in 1..Len(queue[s]) /\ ~(n + j <= n)
          BY <1>4, <1>6, <3>2
        <4>2. queue'[t][j] = queue[s][n + j] /\ queue'[t][l] = queue[s][n + l]
          BY <1>6, <3>2
        <4>3. queue[s][n + j] \in Requests /\ queue[s][n + j] # r /\ queue[s][n + j] \notin W
          BY <1>4, <1>10, <1>11, <4>1
        <4>4. phase[queue[s][n + j]] = "waiting" /\ captured[queue[s][n + j]] = s
          BY <1>10, <4>1
        <4>5. queue[s][n + j] = queue[s][n + l] => n + j = n + l
          BY <1>10, <4>1
        <4>6. n + j = n + l => j = l
          BY <1>4, <1>6, <3>2
        <4>7. QED
          BY <1>8, <3>2, <4>2, <4>3, <4>4, <4>5, <4>6
      <3>3. QED
        BY <3>1, <3>2
    <2>3. ASSUME NEW d \in Channels, current'[d] # NoState
          PROVE  Leases(d)' # {} \/ Waiters(d)' # << >>
      <3>1. CASE d = c
        BY <1>9, <2>3, <3>1 DEF Leases, Waiters
      <3>2. CASE d # c
        <4>1. current'[d] = current[d] /\ current[d] # s
          BY <1>2, <1>9, <3>2 DEF IInv, ClosuresReachable
        <4>2. /\ current[d] \in StateIds
              /\ queue'[current[d]] = queue[current[d]] /\ active'[current[d]] = active[current[d]]
          BY <1>5, <1>7, <2>3, <4>1 DEF IInv, TypeOK
        <4>3. QED
          BY <2>3, <4>1, <4>2 DEF IInv, NothingLeaks, Leases, Waiters
      <3>3. QED
        BY <3>1, <3>2
    <2>4. QED
      BY <2>1, <2>2, <2>3 DEF NothingLeaks
  <1>16. QED
    BY <1>12, <1>14, <1>15 DEF IInv

LEMMA NextInv == IInv /\ [Next]_vars => IInv'
  <1> SUFFICES ASSUME IInv, [Next]_vars PROVE IInv'
    OBVIOUS
  <1>1. ASSUME NEW n \in Limits, SetLimit(n) PROVE IInv'
    BY <1>1, SettingInv DEF SetLimit, IInv, TypeOK
  <1>2. ASSUME NEW b \in QueueWaits, SetQueueing(b) PROVE IInv'
    BY <1>2, SettingInv DEF SetQueueing, IInv, TypeOK
  <1>3. ASSUME NEW r \in Requests, NEW c \in Channels, Acquire(r, c) PROVE IInv'
    <2>1. CASE AcquireUnguarded(r, c)
      BY <2>1, UnlistedInv DEF AcquireUnguarded, Phases
    <2>2. ASSUME NEW s \in StateIds, AcquireSlot(r, c, s) PROVE IInv'
      BY <2>2, AcquireSlotInv
    <2>3. ASSUME NEW s \in StateIds, AcquireRefused(r, c, s) PROVE IInv'
      BY <2>3, AcquireRefusedInv
    <2>4. ASSUME NEW s \in StateIds, AcquireQueued(r, c, s) PROVE IInv'
      BY <2>4, AcquireQueuedInv
    <2>5. QED
      BY <1>3, <2>1, <2>2, <2>3, <2>4 DEF Acquire
  <1>4. ASSUME NEW r \in Requests, WaitTimeout(r) PROVE IInv'
    BY <1>4, WaitTimeoutInv
  <1>5. ASSUME NEW r \in Requests, Release(r) PROVE IInv'
    BY <1>5, EndLeaseInv DEF Release, Phases
  <1>6. ASSUME NEW r \in Requests, Expire(r) PROVE IInv'
    <2>1. chan[r] \in Channels \cup {NoChannel} /\ chan' = [chan EXCEPT ![r] = chan[r]]
      BY <1>6 DEF Expire, IInv, TypeOK
    <2>2. QED
      BY <1>6, <2>1, EndLeaseInv DEF Expire, Phases, config
  <1>7. ASSUME NEW r \in Requests, Finish(r) PROVE IInv'
    BY <1>7, UnlistedInv DEF Finish, Phases
  <1>8. CASE UNCHANGED vars
    BY <1>8 DEF vars, IInv, TypeOK, ClosuresReachable, NothingLeaks, Leases, Waiters
  <1>9. QED
    BY <1>1, <1>2, <1>3, <1>4, <1>5, <1>6, <1>7, <1>8 DEF Next

-----------------------------------------------------------------------------
(***************************************************************************)
(* Theorems                                                                *)
(***************************************************************************)

\* The coordinator's bookkeeping keeps its shape.
THEOREM TypeCorrect == Spec => []TypeOK
  <1>1. IInv => TypeOK
    BY DEF IInv
  <1>2. QED
    BY InitInv, NextInv, <1>1, PTL DEF Spec

\* Whatever the operator sets and however requests, timers and releases
\* interleave, no lease or waiter ever refers to a state object the map has
\* dropped or replaced, and no two channels share one.
THEOREM ClosuresStayReachable == Spec => []ClosuresReachable
  <1>1. IInv => ClosuresReachable
    BY DEF IInv
  <1>2. QED
    BY InitInv, NextInv, <1>1, PTL DEF Spec

\* The objects list exactly the live leases and waiters, and the map holds no
\* entry for a channel nobody uses.
THEOREM NothingEverLeaks == Spec => []NothingLeaks
  <1>1. IInv => NothingLeaks
    BY DEF IInv
  <1>2. QED
    BY InitInv, NextInv, <1>1, PTL DEF Spec

-----------------------------------------------------------------------------
(***************************************************************************)
(* Grants stay within the limit in force                                   *)
(***************************************************************************)

\* Admitting the first n waiters of a line adds at most n leases.
LEMMA AdmittedCount ==
    ASSUME NEW S \in SUBSET Requests, NEW q \in Seq(Requests), NEW n \in 0..Len(q)
    PROVE  Cardinality(S \cup {q[i] : i \in 1..n}) <= Cardinality(S) + n
  <1> DEFINE W == {q[i] : i \in 1..n}
             f == [i \in 1..n |-> q[i]]
  <1>1. W \in SUBSET Requests /\ n \in Nat
    OBVIOUS
  <1>2. f \in Surjection(1..n, W)
    BY DEF Surjection
  <1>3. Cardinality(W) <= n
    BY <1>1, <1>2, FS_SurjCardinalityBound DEF ExistsSurjection
  <1>4. /\ IsFiniteSet(S) /\ IsFiniteSet(W) /\ IsFiniteSet(S \cap W)
        /\ Cardinality(S) \in Nat /\ Cardinality(W) \in Nat /\ Cardinality(S \cap W) \in Nat
    BY <1>1, LeaseCount
  <1>5. Cardinality(S \cup W) = Cardinality(S) + Cardinality(W) - Cardinality(S \cap W)
    BY <1>4, FS_Union
  <1>6. QED
    BY <1>1, <1>3, <1>4, <1>5

LEMMA EndLeaseGrants ==
    ASSUME IInv, NEW r \in Requests, phase[r] = "holding", EndLease(r), NEW c \in Channels,
           ~(Leases(c)' \subseteq Leases(c))
    PROVE  Cardinality(Leases(c)') <= limit
  <1>1. PICK s \in StateIds, n \in Nat : HandsOver(r, s, n)
    BY ReleaseStep
  <1> DEFINE W == {queue[s][i] : i \in 1..n}
  <1>2. s # NoState /\ current[chan[r]] = s
    BY <1>1, LeaseAssumption DEF HandsOver
  <1>3. /\ active'[s] = (active[s] \ {r}) \cup W
        /\ \A t \in StateIds : t # s => active'[t] = active[t]
    BY <1>1 DEF HandsOver, Heads, IInv, TypeOK
  <1>4. \A d \in Channels : current'[d] = current[d] \/ current'[d] = NoState
    BY <1>1 DEF HandsOver, Settled, IInv, TypeOK
  <1>5. current'[c] # NoState /\ current'[c] = current[c]
    BY <1>4 DEF Leases
  <1>6. current[c] = s
    <2>1. current[c] \in StateIds
      BY <1>5 DEF IInv, TypeOK
    <2>2. CASE current[c] # s
      BY <1>3, <1>5, <2>1, <2>2 DEF Leases
    <2>3. QED
      BY <2>2
  <1>7. Leases(c)' = (active[s] \ {r}) \cup W /\ Leases(c) = active[s]
    BY <1>2, <1>3, <1>5, <1>6 DEF Leases
  <1>8. n > 0
    BY <1>7
  <1>9. queue[s] \in Seq(Requests) /\ n \in 0..Len(queue[s]) /\ active[s] \ {r} \in SUBSET Requests
    BY <1>1 DEF HandsOver, IInv, TypeOK
  <1>10. Cardinality(Leases(c)') <= Cardinality(active[s] \ {r}) + n
    BY <1>7, <1>9, AdmittedCount
  <1>11. /\ Cardinality(active[s] \ {r}) \in Nat /\ limit \in Nat
         /\ Cardinality(Leases(c)') \in Nat
    <2>1. Leases(c)' \in SUBSET Requests
      BY <1>7, <1>9
    <2>2. QED
      BY <1>9, <2>1, LeaseCount, LeaseAssumption DEF IInv, TypeOK
  <1>12. QED
    BY <1>1, <1>8, <1>10, <1>11 DEF HandsOver

LEMMA NextGrants ==
    ASSUME IInv, [Next]_vars, NEW c \in Channels, ~(Leases(c)' \subseteq Leases(c))
    PROVE  Cardinality(Leases(c)') <= limit
  <1>1. ASSUME UNCHANGED <<current, active>> PROVE FALSE
    BY <1>1 DEF Leases
  <1>2. ASSUME NEW r \in Requests, NEW d \in Channels, NEW s \in StateIds, AcquireSlot(r, d, s)
        PROVE  Cardinality(Leases(c)') <= limit
    <2>1. s \in StatesFor(d) /\ s # NoState
      BY <1>2, LeaseAssumption DEF AcquireSlot
    <2>2. CASE c # d
      BY <1>2, <2>1, <2>2, StateForChannel DEF AcquireSlot, IInv, TypeOK, Leases
    <2>3. CASE c = d
      <3>1. Leases(c)' = active[s] \cup {r}
        BY <1>2, <2>1, <2>3 DEF AcquireSlot, IInv, TypeOK, Leases
      <3>2. active[s] \in SUBSET Requests /\ limit \in Nat
        BY LeaseAssumption DEF IInv, TypeOK
      <3>3. IsFiniteSet(active[s]) /\ Cardinality(active[s]) \in Nat
        BY <3>2, LeaseCount
      <3>4. Cardinality(active[s] \cup {r}) <= Cardinality(active[s]) + 1
        <4>1. Cardinality(active[s] \cup {r}) =
                 IF r \in active[s] THEN Cardinality(active[s]) ELSE Cardinality(active[s]) + 1
          BY <3>3, FS_AddElement
        <4>2. QED
          BY <3>3, <4>1
      <3>5. Cardinality(active[s]) < limit
        BY <1>2 DEF AcquireSlot
      <3>6. Cardinality(active[s] \cup {r}) \in Nat
        BY <3>3, FS_AddElement, FS_CardinalityType
      <3>7. QED
        BY <3>1, <3>2, <3>3, <3>4, <3>5, <3>6
    <2>4. QED
      BY <2>2, <2>3
  <1>3. ASSUME NEW r \in Requests, NEW d \in Channels, NEW s \in StateIds, s \in StatesFor(d),
               current' = [current EXCEPT ![d] = s], active' = active
        PROVE  FALSE
    BY <1>3, StateForChannel DEF IInv, TypeOK, Leases
  <1>4. ASSUME NEW r \in Requests, WaitTimeout(r) PROVE FALSE
    <2>1. /\ active' = active
          /\ \A d \in Channels : current'[d] = current[d] \/ current'[d] = NoState
      BY <1>4 DEF WaitTimeout, Settled, IInv, TypeOK
    <2>2. QED
      BY <2>1 DEF Leases
  <1>5. QED
    BY <1>1, <1>2, <1>3, <1>4, EndLeaseGrants
       DEF Next, Acquire, SetLimit, SetQueueing, AcquireUnguarded, AcquireRefused, AcquireQueued,
           Release, Expire, Finish, vars

\* Whoever is granted a lease, at once or out of the queue, on whatever limit
\* the operator chose last, the channel is within that limit afterwards.
THEOREM GrantsStayWithinLimit == Spec => GrantsWithinLimit
  <1>1. IInv /\ [Next]_vars =>
          [\A c \in Channels :
             ~(Leases(c)' \subseteq Leases(c)) => Cardinality(Leases(c)') <= limit]_vars
    BY NextGrants
  <1>2. QED
    BY InitInv, NextInv, <1>1, PTL DEF Spec, GrantsWithinLimit

-----------------------------------------------------------------------------
(***************************************************************************)
(* The line of a channel moves from its head                               *)
(***************************************************************************)

LEMMA NextInLine ==
    ASSUME IInv, [Next]_vars, NEW s \in StateIds,
           NEW i \in 1..Len(queue[s]), NEW j \in 1..Len(queue[s]),
           i < j, phase'[queue[s][j]] = "holding"
    PROVE  phase'[queue[s][i]] # "waiting"
  <1> DEFINE p == queue[s][i]
             q == queue[s][j]
  <1>1. queue[s] \in Seq(Requests)
    BY DEF IInv, TypeOK
  <1>2. p \in Requests /\ q \in Requests
    BY <1>1
  <1>3. /\ phase[q] = "waiting" /\ captured[q] = s
        /\ \A k, l \in 1..Len(queue[s]) : queue[s][k] = queue[s][l] => k = l
    BY DEF IInv, NothingLeaks
  <1> HIDE DEF p, q
  <1>4. ASSUME NEW r \in Requests, phase[r] # "waiting", NEW next, phase' = [phase EXCEPT ![r] = next]
        PROVE  FALSE
    <2>1. q # r
      BY <1>3, <1>4
    <2>2. phase'[q] = phase[q]
      BY <1>2, <1>4, <2>1 DEF IInv, TypeOK
    <2>3. QED
      BY <1>3, <2>2 DEF q
  <1>5. ASSUME NEW r \in Requests, phase[r] = "holding", EndLease(r), NEW next,
               phase' = Resumed(r, next)
        PROVE  phase'[p] # "waiting"
    <2>1. PICK t \in StateIds, n \in Nat : HandsOver(r, t, n)
      BY <1>5, ReleaseStep
    <2> DEFINE W == {queue[t][k] : k \in 1..n}
    <2>2. phase' = [x \in Requests |-> IF x = r THEN next
                                       ELSE IF x \in W THEN "holding" ELSE phase[x]]
      BY <1>5, <2>1 DEF HandsOver, Heads
    <2>3. q # r
      BY <1>3, <1>5
    <2>4. phase'[q] = "holding"
      BY DEF q
    <2>5. q \in W
      BY <1>2, <1>3, <2>2, <2>3, <2>4
    <2>6. t = s
      BY <1>3, <2>1, <2>5 DEF HandsOver, Heads
    <2>7. PICK k \in 1..n : queue[s][k] = q
      BY <2>5, <2>6
    <2>8. k = j
      BY <1>1, <1>3, <2>1, <2>6, <2>7 DEF q, HandsOver
    <2>9. i \in 1..n
      BY <1>1, <2>7, <2>8
    <2>10. p \in W
      BY <2>6, <2>9 DEF p
    <2>11. p # r
      BY <1>5, <2>1, <2>10 DEF HandsOver, Heads
    <2>12. QED
      BY <1>2, <2>2, <2>10, <2>11
  <1>6. ASSUME NEW r \in Requests, WaitTimeout(r) PROVE FALSE
    <2>1. phase' = [phase EXCEPT ![r] = "refused"]
      BY <1>6 DEF WaitTimeout
    <2>2. phase'[q] # "holding"
      BY <1>2, <1>3, <2>1 DEF IInv, TypeOK
    <2>3. QED
      BY <2>2 DEF q
  <1>7. ASSUME phase' = phase PROVE FALSE
    BY <1>3, <1>7 DEF q
  <1>8. ASSUME NEW r \in Requests, NEW c \in Channels, Acquire(r, c) PROVE FALSE
    BY <1>4, <1>8 DEF Acquire, AcquireUnguarded, AcquireSlot, AcquireRefused, AcquireQueued
  <1>9. ASSUME NEW r \in Requests, Finish(r) PROVE FALSE
    BY <1>4, <1>9 DEF Finish
  <1>10. QED
    BY <1>5, <1>6, <1>7, <1>8, <1>9
       DEF Next, SetLimit, SetQueueing, Release, Expire, vars, p

\* Whoever is admitted out of the queue, nobody who lined up earlier on the
\* same channel is left waiting.
THEOREM LineIsFair == Spec => FirstComeFirstServed
  <1>1. IInv /\ [Next]_vars =>
          [\A s \in StateIds : \A i, j \in 1..Len(queue[s]) :
             (i < j /\ phase'[queue[s][j]] = "holding") => phase'[queue[s][i]] # "waiting"]_vars
    BY NextInLine
  <1>2. QED
    BY InitInv, NextInv, <1>1, PTL DEF Spec, FirstComeFirstServed

-----------------------------------------------------------------------------
(***************************************************************************)
(* What each operation means for the leases and waiters of every channel   *)
(***************************************************************************)

\* Channels other than c keep their leases and waiters.
OthersKept(c) ==
    \A d \in Channels : d # c => Leases(d)' = Leases(d) /\ Waiters(d)' = Waiters(d)

\* Admitting the first n waiters of a line adds n leases when the waiters are
\* distinct and none is counted yet.
LEMMA AdmittedExactly ==
    ASSUME NEW S \in SUBSET Requests, NEW q \in Seq(Requests), NEW n \in 0..Len(q),
           \A i, j \in 1..n : q[i] = q[j] => i = j,
           \A i \in 1..n : q[i] \notin S
    PROVE  Cardinality(S \cup {q[i] : i \in 1..n}) = Cardinality(S) + n
  <1> DEFINE W == {q[i] : i \in 1..n}
             f == [i \in 1..n |-> q[i]]
  <1>1. W \in SUBSET Requests /\ n \in Nat /\ S \cap W = {}
    OBVIOUS
  <1>2. f \in Bijection(1..n, W)
    BY DEF Bijection, Injection, IsInjective, Surjection
  <1>3. Cardinality(W) = n
    BY <1>1, <1>2, FS_CountingElements DEF ExistsBijection
  <1>4. IsFiniteSet(S) /\ IsFiniteSet(W) /\ Cardinality(S) \in Nat
    BY <1>1, LeaseCount
  <1>5. Cardinality(S \cup W) = Cardinality(S) + Cardinality(W) - Cardinality(S \cap W)
    BY <1>4, FS_Union
  <1>6. Cardinality(S \cap W) = 0
    BY <1>1, FS_EmptySet
  <1> HIDE DEF W
  <1>7. Cardinality(S \cup W) = Cardinality(S) + n
    BY <1>1, <1>3, <1>4, <1>5, <1>6
  <1>8. QED
    BY <1>7 DEF W

LEMMA SlotEffect ==
    ASSUME IInv, NEW r \in Requests, NEW c \in Channels, NEW s \in StateIds, AcquireSlot(r, c, s)
    PROVE  /\ Cardinality(Leases(c)) < limit
           /\ Leases(c)' = Leases(c) \cup {r}
           /\ Waiters(c)' = Waiters(c)
           /\ OthersKept(c)
  <1>1. s \in StatesFor(c) /\ s # NoState
    BY LeaseAssumption DEF AcquireSlot
  <1>2. /\ current'[c] = s /\ active'[s] = active[s] \cup {r} /\ queue' = queue
        /\ \A d \in Channels : d # c => current'[d] = current[d]
        /\ \A t \in StateIds : t # s => active'[t] = active[t]
    BY DEF AcquireSlot, IInv, TypeOK
  <1>3. Leases(c) = active[s] /\ Waiters(c) = queue[s]
    BY <1>1, StateForChannel DEF Leases, Waiters
  <1>4. OthersKept(c)
    BY <1>1, <1>2, StateForChannel DEF OthersKept, Leases, Waiters, IInv, TypeOK
  <1>5. QED
    BY <1>1, <1>2, <1>3, <1>4 DEF AcquireSlot, Leases, Waiters

LEMMA RefusedEffect ==
    ASSUME IInv, NEW r \in Requests, NEW c \in Channels, NEW s \in StateIds, AcquireRefused(r, c, s)
    PROVE  UNCHANGED <<limit, current, active, queue>>
  <1>1. s \in StatesFor(c) /\ limit > 0 /\ limit \in Nat
    BY LeaseAssumption DEF AcquireRefused, IInv, TypeOK
  <1>2. active[s] # {}
    BY <1>1, FS_EmptySet DEF AcquireRefused
  <1>3. current[c] = s
    BY <1>1, <1>2, StateForChannel
  <1>4. QED
    BY <1>3 DEF AcquireRefused, IInv, TypeOK

LEMMA QueuedEffect ==
    ASSUME IInv, NEW r \in Requests, NEW c \in Channels, NEW s \in StateIds, AcquireQueued(r, c, s)
    PROVE  /\ Cardinality(Leases(c)) >= limit
           /\ Leases(c)' = Leases(c)
           /\ Waiters(c)' = Append(Waiters(c), r)
           /\ OthersKept(c)
  <1>1. s \in StatesFor(c) /\ s # NoState
    BY LeaseAssumption DEF AcquireQueued
  <1>2. /\ current'[c] = s /\ queue'[s] = Append(queue[s], r) /\ active' = active
        /\ \A d \in Channels : d # c => current'[d] = current[d]
        /\ \A t \in StateIds : t # s => queue'[t] = queue[t]
    BY DEF AcquireQueued, IInv, TypeOK
  <1>3. Leases(c) = active[s] /\ Waiters(c) = queue[s]
    BY <1>1, StateForChannel DEF Leases, Waiters
  <1>4. OthersKept(c)
    BY <1>1, <1>2, StateForChannel DEF OthersKept, Leases, Waiters, IInv, TypeOK
  <1>5. QED
    BY <1>1, <1>2, <1>3, <1>4 DEF AcquireQueued, Leases, Waiters

LEMMA TimeoutEffect ==
    ASSUME IInv, NEW r \in Requests, WaitTimeout(r), NEW c, c = chan[r]
    PROVE  /\ c \in Channels
           /\ \E i \in 1..Len(Waiters(c)) : Waiters(c)' = Drop(Waiters(c), i)
           /\ Leases(c)' = Leases(c)
           /\ OthersKept(c)
  <1> DEFINE s == captured[r]
  <1>1. c \in Channels /\ s \in StateIds /\ s # NoState /\ current[c] = s
    BY LeaseAssumption DEF WaitTimeout, WaitDue, IInv, ClosuresReachable
  <1>2. PICK i \in 1..Len(queue[s]) :
           queue[s][i] = r /\ queue' = [queue EXCEPT ![s] = Drop(@, i)]
    BY DEF WaitTimeout
  <1>3. /\ queue'[s] = Drop(queue[s], i) /\ active' = active
        /\ \A t \in StateIds : t # s => queue'[t] = queue[t]
    BY <1>1, <1>2 DEF WaitTimeout, IInv, TypeOK
  <1>4. /\ \A d \in Channels : d # c => current'[d] = current[d]
        /\ current'[c] \in {s, NoState}
        /\ current'[c] = NoState => active[s] = {} /\ queue'[s] = << >>
    BY <1>1 DEF WaitTimeout, Settled, IInv, TypeOK
  <1>5. \A d \in Channels : d # c => current[d] # s
    BY <1>1 DEF IInv, ClosuresReachable
  <1> HIDE DEF s
  <1>6. Leases(c) = active[s] /\ Waiters(c) = queue[s]
    BY <1>1 DEF Leases, Waiters
  <1>7. Leases(c)' = active[s] /\ Waiters(c)' = Drop(queue[s], i)
    BY <1>3, <1>4 DEF Leases, Waiters
  <1>8. OthersKept(c)
    BY <1>3, <1>4, <1>5 DEF OthersKept, Leases, Waiters, IInv, TypeOK
  <1>9. QED
    BY <1>1, <1>6, <1>7, <1>8

\* r's lease on c ends and the first n waiters of c get one; then the line is
\* empty or the slots are full.
HeadTakesOver(c, r, n) ==
    /\ Leases(c)' = (Leases(c) \ {r}) \cup {Waiters(c)[i] : i \in 1..n}
    /\ Waiters(c)' = SubSeq(Waiters(c), n + 1, Len(Waiters(c)))
    /\ n > 0 => Cardinality(Leases(c)') <= limit
    /\ Cardinality(Leases(c)') >= limit \/ Waiters(c)' = << >>

LEMMA EndLeaseEffect ==
    ASSUME IInv, NEW r \in Requests, phase[r] = "holding", EndLease(r), NEW c, c = chan[r]
    PROVE  /\ c \in Channels
           /\ r \in Leases(c)
           /\ \E n \in 0..Len(Waiters(c)) : HeadTakesOver(c, r, n)
           /\ OthersKept(c)
  <1>1. PICK s \in StateIds, n \in Nat : HandsOver(r, s, n)
    BY ReleaseStep
  <1> DEFINE rest == SubSeq(queue[s], n + 1, Len(queue[s]))
             left == (active[s] \ {r}) \cup {queue[s][i] : i \in 1..n}
  <1>2. c \in Channels /\ s # NoState /\ current[c] = s /\ captured[r] = s
    BY <1>1, LeaseAssumption DEF HandsOver
  <1>3. queue[s] \in Seq(Requests) /\ n \in 0..Len(queue[s]) /\ active[s] \ {r} \in SUBSET Requests
    BY <1>1 DEF HandsOver, IInv, TypeOK
  <1>4. /\ active'[s] = left /\ \A t \in StateIds : t # s => active'[t] = active[t]
        /\ queue'[s] = rest /\ \A t \in StateIds : t # s => queue'[t] = queue[t]
    BY <1>1 DEF HandsOver, Heads, IInv, TypeOK
  <1>5. /\ \A d \in Channels : d # c => current'[d] = current[d]
        /\ current'[c] \in {s, NoState}
        /\ current'[c] = NoState => active'[s] = {} /\ queue'[s] = << >>
    BY <1>1, <1>2 DEF HandsOver, Settled, IInv, TypeOK
  <1>6. \A d \in Channels : d # c => current[d] # s
    BY <1>2 DEF IInv, ClosuresReachable
  <1>7. Cardinality(left) = Cardinality(active[s] \ {r}) + n
    <2>1. \A i, j \in 1..Len(queue[s]) :
             phase[queue[s][i]] = "waiting" /\ (queue[s][i] = queue[s][j] => i = j)
      BY DEF IInv, NothingLeaks
    <2>2. \A i, j \in 1..n : queue[s][i] = queue[s][j] => i = j
      BY <1>3, <2>1
    <2>3. \A i \in 1..n : queue[s][i] \notin active[s] \ {r}
      BY <1>3, <2>1 DEF IInv, NothingLeaks
    <2>4. QED
      BY <1>3, <2>2, <2>3, AdmittedExactly
  <1>8. /\ limit \in Nat /\ Cardinality(active[s] \ {r}) \in Nat
        /\ n > 0 => Cardinality(active[s] \ {r}) + n <= limit
        /\ n < Len(queue[s]) => Cardinality(active[s] \ {r}) + n >= limit
    BY <1>1, <1>3, LeaseCount, LeaseAssumption DEF HandsOver, IInv, TypeOK
  <1>9. /\ n = Len(queue[s]) => rest = << >>
        /\ n < Len(queue[s]) \/ n = Len(queue[s])
    BY <1>3, RestOfLine
  <1>10. r \in active[s]
    BY <1>2 DEF IInv, NothingLeaks
  <1> HIDE DEF left, rest
  <1>11. Leases(c) = active[s] /\ Waiters(c) = queue[s]
    BY <1>2 DEF Leases, Waiters
  <1>12. Leases(c)' = left /\ Waiters(c)' = rest
    BY <1>4, <1>5 DEF Leases, Waiters
  <1>13. /\ n > 0 => Cardinality(left) <= limit
         /\ Cardinality(left) >= limit \/ rest = << >>
    BY <1>7, <1>8, <1>9
  <1>14. OthersKept(c)
    BY <1>4, <1>5, <1>6 DEF OthersKept, Leases, Waiters, IInv, TypeOK
  <1>15. QED
    BY <1>2, <1>3, <1>10, <1>11, <1>12, <1>13, <1>14 DEF HeadTakesOver, left, rest

\* Operations that leave every channel's leases and waiters as they are.
LEMMA NoEffect ==
    ASSUME UNCHANGED <<current, active, queue>>, NEW c \in Channels
    PROVE  Leases(c)' = Leases(c) /\ Waiters(c)' = Waiters(c)
  BY DEF Leases, Waiters

-----------------------------------------------------------------------------
(***************************************************************************)
(* No waiter beside a free slot                                            *)
(***************************************************************************)

LEMMA NextFullWhileWaiting ==
    ASSUME IInv, NoWaiterBesideFreeSlot, [Next]_vars, limit' <= limit, NEW c \in Guarded,
           Waiters(c)' # << >>
    PROVE  Cardinality(Leases(c)') >= limit'
  <1>1. c \in Channels /\ limit \in Nat /\ limit' \in Nat
    <2>1. limit' \in Limits
      BY NextInv DEF IInv, TypeOK
    <2>2. QED
      BY <2>1, LeaseAssumption DEF IInv, TypeOK
  <1>2. Leases(c) \in SUBSET Requests /\ Leases(c)' \in SUBSET Requests
    <2>1. IInv'
      BY NextInv
    <2>2. QED
      BY <1>1, <2>1 DEF IInv, TypeOK, Leases
  <1>3. Cardinality(Leases(c)) \in Nat /\ Cardinality(Leases(c)') \in Nat
    BY <1>2, LeaseCount
  <1>4. ASSUME Leases(c)' = Leases(c), Waiters(c) # << >>
        PROVE  Cardinality(Leases(c)') >= limit'
    BY <1>1, <1>3, <1>4 DEF NoWaiterBesideFreeSlot
  <1>5. ASSUME UNCHANGED <<current, active, queue>>
        PROVE  Cardinality(Leases(c)') >= limit'
    BY <1>1, <1>4, <1>5, NoEffect
  <1>6. ASSUME NEW d \in Channels, d # c, OthersKept(d)
        PROVE  Cardinality(Leases(c)') >= limit'
    BY <1>1, <1>4, <1>6 DEF OthersKept
  <1>7. ASSUME NEW r \in Requests, NEW d \in Channels, NEW s \in StateIds, AcquireSlot(r, d, s)
        PROVE  Cardinality(Leases(c)') >= limit'
    <2>1. CASE c = d
      <3>1. Cardinality(Leases(c)) < limit /\ Waiters(c)' = Waiters(c)
        BY <1>7, <2>1, SlotEffect
      <3>2. QED
        BY <1>1, <1>3, <3>1 DEF NoWaiterBesideFreeSlot
    <2>2. CASE c # d
      BY <1>6, <1>7, <2>2, SlotEffect
    <2>3. QED
      BY <2>1, <2>2
  <1>8. ASSUME NEW r \in Requests, NEW d \in Channels, NEW s \in StateIds, AcquireQueued(r, d, s)
        PROVE  Cardinality(Leases(c)') >= limit'
    <2>1. CASE c = d
      <3>1. Cardinality(Leases(c)) >= limit /\ Leases(c)' = Leases(c)
        BY <1>8, <2>1, QueuedEffect
      <3>2. QED
        BY <1>1, <1>3, <3>1
    <2>2. CASE c # d
      BY <1>6, <1>8, <2>2, QueuedEffect
    <2>3. QED
      BY <2>1, <2>2
  <1>9. ASSUME NEW r \in Requests, WaitTimeout(r)
        PROVE  Cardinality(Leases(c)') >= limit'
    <2>1. CASE c = chan[r]
      <3>1. \E i \in 1..Len(Waiters(c)) : Waiters(c)' = Drop(Waiters(c), i)
        BY <1>9, <2>1, TimeoutEffect
      <3>2. Leases(c)' = Leases(c)
        BY <1>9, <2>1, TimeoutEffect
      <3>3. Waiters(c) # << >>
        BY <3>1
      <3>4. QED
        BY <1>4, <3>2, <3>3
    <2>2. CASE c # chan[r]
      <3>1. chan[r] \in Channels /\ OthersKept(chan[r])
        BY <1>9, TimeoutEffect
      <3>2. QED
        BY <1>6, <2>2, <3>1
    <2>3. QED
      BY <2>1, <2>2
  <1>10. ASSUME NEW r \in Requests, phase[r] = "holding", EndLease(r), limit' = limit
         PROVE  Cardinality(Leases(c)') >= limit'
    <2>1. CASE c = chan[r]
      BY <1>10, <2>1, EndLeaseEffect DEF HeadTakesOver
    <2>2. CASE c # chan[r]
      <3>1. chan[r] \in Channels /\ OthersKept(chan[r])
        BY <1>10, EndLeaseEffect
      <3>2. QED
        BY <1>6, <2>2, <3>1
    <2>3. QED
      BY <2>1, <2>2
  <1>11. QED
    BY <1>5, <1>7, <1>8, <1>9, <1>10, RefusedEffect
       DEF Next, Acquire, SetLimit, SetQueueing, AcquireUnguarded, Release, Expire, Finish, vars, config

\* Unless the operator raises the limit, which admits nobody by itself, no
\* request waits for its timer while a slot of its channel is free.  In
\* particular so under a limit that is never changed.
THEOREM NobodyWaitsBesideFreeSlot ==
    Spec /\ [][limit' <= limit]_vars => []NoWaiterBesideFreeSlot
  <1>1. Init => NoWaiterBesideFreeSlot
    BY LeaseAssumption DEF Init, NoWaiterBesideFreeSlot, Waiters
  <1>2. ASSUME IInv, NoWaiterBesideFreeSlot, [Next]_vars, [limit' <= limit]_vars
        PROVE  NoWaiterBesideFreeSlot'
    <2>1. limit' <= limit
      BY <1>2, LeaseAssumption DEF vars, IInv, TypeOK
    <2>2. \A c \in Guarded : Waiters(c)' # << >> => Cardinality(Leases(c)') >= limit'
      BY <1>2, <2>1, NextFullWhileWaiting
    <2>3. QED
      BY <2>2 DEF NoWaiterBesideFreeSlot
  <1>3. QED
    BY InitInv, NextInv, <1>1, <1>2, PTL DEF Spec

-----------------------------------------------------------------------------
(***************************************************************************)
(* The coordinator implements SessionSlots                                 *)
(***************************************************************************)

\* The abstract specification counts as this one does.
LEMMA SameCount == \A S : Slots!Cardinality(S) = Cardinality(S)
  BY DEF Slots!Cardinality, Cardinality

LEMMA InitSlots == Init => Slots!SlotsInit
  BY LeaseAssumption DEF Init, Slots!SlotsInit, Leases, Waiters

\* A step that concerns channel c alone, as the abstract state sees it.
LEMMA OneChannel ==
    ASSUME NEW c \in Channels, OthersKept(c)
    PROVE  /\ [d \in Channels |-> Leases(d)]' = [[d \in Channels |-> Leases(d)] EXCEPT ![c] = Leases(c)']
           /\ [d \in Channels |-> Waiters(d)]' = [[d \in Channels |-> Waiters(d)] EXCEPT ![c] = Waiters(c)']
  BY DEF OthersKept

LEMMA NextSlots == IInv /\ [Next]_vars => [Slots!SlotsNext]_(Slots!slotVars)
  <1> SUFFICES ASSUME IInv, [Next]_vars PROVE [Slots!SlotsNext]_(Slots!slotVars)
    OBVIOUS
  <1>1. ASSUME UNCHANGED <<limit, current, active, queue>> PROVE UNCHANGED Slots!slotVars
    BY <1>1 DEF Slots!slotVars, Leases, Waiters
  <1>2. ASSUME NEW n \in Limits, SetLimit(n) PROVE Slots!Resize(n)
    BY <1>2 DEF SetLimit, Slots!Resize, Leases, Waiters
  <1>3. ASSUME NEW r \in Requests, NEW c \in Channels, NEW s \in StateIds, AcquireSlot(r, c, s)
        PROVE  Slots!Enter(r, c)
    <2>1. /\ Cardinality(Leases(c)) < limit /\ Leases(c)' = Leases(c) \cup {r}
          /\ Waiters(c)' = Waiters(c) /\ OthersKept(c)
      BY <1>3, SlotEffect
    <2>2. QED
      BY <1>3, <2>1, OneChannel, SameCount DEF Slots!Enter, AcquireSlot, OthersKept
  <1>4. ASSUME NEW r \in Requests, NEW c \in Channels, NEW s \in StateIds, AcquireQueued(r, c, s)
        PROVE  Slots!LineUp(r, c)
    <2>1. /\ Cardinality(Leases(c)) >= limit /\ Leases(c)' = Leases(c)
          /\ Waiters(c)' = Append(Waiters(c), r) /\ OthersKept(c)
      BY <1>4, QueuedEffect
    <2>2. QED
      BY <1>4, <2>1, OneChannel, SameCount DEF Slots!LineUp, AcquireQueued, OthersKept
  <1>5. ASSUME NEW r \in Requests, WaitTimeout(r)
        PROVE  \E c \in Channels : \E i \in 1..Len(Waiters(c)) : Slots!GiveUp(c, i)
    <2>1. PICK c \in Channels : c = chan[r]
      BY <1>5, TimeoutEffect
    <2>2. PICK i \in 1..Len(Waiters(c)) : Waiters(c)' = Drop(Waiters(c), i)
      BY <1>5, <2>1, TimeoutEffect
    <2>3. Leases(c)' = Leases(c) /\ OthersKept(c) /\ limit' = limit
      BY <1>5, <2>1, TimeoutEffect DEF WaitTimeout
    <2>4. Slots!GiveUp(c, i)
      <3>1. [d \in Channels |-> Leases(d)]' = [d \in Channels |-> Leases(d)]
        BY <2>3 DEF OthersKept
      <3>2. [d \in Channels |-> Waiters(d)]' =
               [[d \in Channels |-> Waiters(d)] EXCEPT ![c] = Drop(Waiters(c), i)]
        BY <2>2, <2>3, OneChannel
      <3>3. [d \in Channels |-> Waiters(d)][c] = Waiters(c)
        OBVIOUS
      <3>4. QED
        BY <2>3, <3>1, <3>2, <3>3 DEF Slots!GiveUp, Drop
    <2>5. QED
      BY <2>4
  <1>6. ASSUME NEW r \in Requests, phase[r] = "holding", EndLease(r), limit' = limit
        PROVE  \E c \in Channels : \E n \in 0..Len(Waiters(c)) : Slots!Leave(r, c, n)
    <2>1. PICK c \in Channels : c = chan[r]
      BY <1>6, EndLeaseEffect
    <2>2. PICK n \in 0..Len(Waiters(c)) : HeadTakesOver(c, r, n)
      BY <1>6, <2>1, EndLeaseEffect
    <2>3. r \in Leases(c) /\ OthersKept(c)
      BY <1>6, <2>1, EndLeaseEffect
    <2>4. Slots!Leave(r, c, n)
      <3>1. [d \in Channels |-> Leases(d)]' =
               [[d \in Channels |-> Leases(d)] EXCEPT ![c] =
                   (Leases(c) \ {r}) \cup {Waiters(c)[i] : i \in 1..n}]
        BY <2>2, <2>3, OneChannel DEF HeadTakesOver
      <3>2. [d \in Channels |-> Waiters(d)]' =
               [[d \in Channels |-> Waiters(d)] EXCEPT ![c] =
                   SubSeq(Waiters(c), n + 1, Len(Waiters(c)))]
        BY <2>2, <2>3, OneChannel DEF HeadTakesOver
      <3>3. /\ [d \in Channels |-> Waiters(d)][c] = Waiters(c)
            /\ [d \in Channels |-> Leases(d)][c] = Leases(c)
            /\ ([d \in Channels |-> Waiters(d)]')[c] = Waiters(c)'
            /\ ([d \in Channels |-> Leases(d)]')[c] = Leases(c)'
        OBVIOUS
      <3>4. /\ n > 0 => Slots!Cardinality(([d \in Channels |-> Leases(d)]')[c]) <= limit
            /\ \/ Slots!Cardinality(([d \in Channels |-> Leases(d)]')[c]) >= limit
               \/ ([d \in Channels |-> Waiters(d)]')[c] = << >>
        BY <2>2, <3>3, SameCount DEF HeadTakesOver
      <3>5. QED
        BY <1>6, <2>3, <3>1, <3>2, <3>3, <3>4 DEF Slots!Leave
    <2>5. QED
      BY <2>4
  <1>7. ASSUME NEW r \in Requests, NEW c \in Channels, Acquire(r, c)
        PROVE  [Slots!SlotsNext]_(Slots!slotVars)
    BY <1>1, <1>3, <1>4, <1>7, RefusedEffect DEF Acquire, AcquireUnguarded, Slots!SlotsNext
  <1>8. QED
    BY <1>1, <1>2, <1>5, <1>6, <1>7
       DEF Next, SetQueueing, Release, Expire, Finish, vars, config, Slots!SlotsNext

\* Whatever state objects come and go behind it, a channel is a number of
\* slots and a line: requests enter while a slot is free, line up otherwise,
\* and whoever leaves hands the free slots to the head of the line.
THEOREM CoordinatorImplementsSlots == Spec => ImplementsSlots
  BY InitInv, NextInv, InitSlots, NextSlots, PTL DEF Spec, ImplementsSlots, Slots!SlotsSpec
=============================================================================
