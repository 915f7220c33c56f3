----------------------- MODULE SiteRuntimeHealthProofs -----------------------
(***************************************************************************)
(* For any number of sites, models and requests: breakers are earned by    *)
(* failures, and the runtime health implements the book of HealthBook.     *)
(***************************************************************************)
EXTENDS MCSiteRuntimeHealth, TLAPS

-----------------------------------------------------------------------------
(* One entry and one book: the functions of RuntimeHealth                   *)

Books == [Keys -> Entry \cup {NoEntry}]

\* A level costs Threshold failures, and the running streak comes on top.
Earned(e) == e.level * Threshold + e.streak <= e.misses

EarnedBook(book) == \A k \in Keys : book[k] # NoEntry => Earned(book[k])

LEMMA FreshEntry == Fresh \in Entry /\ Earned(Fresh)
  BY HealthAssumption DEF Fresh, Entry, Earned

LEMMA OneLevelUp ==
    ASSUME NEW level \in Nat
    PROVE  /\ level * Threshold \in Nat
           /\ (level + 1) * Threshold = level * Threshold + Threshold
  BY HealthAssumption

\* A transient failure keeps the account: the streak it resets pays the level.
LEMMA TransientEarned ==
    ASSUME NEW e \in Entry, Earned(e), NEW time \in Nat
    PROVE  AfterTransient(e, time) \in Entry /\ Earned(AfterTransient(e, time))
  <1>. USE HealthAssumption
  <1>. DEFINE n == IF e.since # 0 /\ time - e.since <= StreakWindow THEN e.streak + 1 ELSE 1
              seen == [e EXCEPT !.streak = n, !.since = time, !.misses = @ + 1]
              up == NextLevel(e)
              opened == [seen EXCEPT !.streak = 0, !.level = up, !.until = time + BreakerLength[up]]
  <1>1. /\ e.streak \in Nat /\ e.since \in Nat /\ e.level \in 0..MaxLevel
        /\ e.until \in Nat /\ e.misses \in Nat
    BY DEF Entry
  <1>2. n \in Nat /\ n >= 1 /\ n <= e.streak + 1
    BY <1>1
  <1>3. up \in 1..MaxLevel /\ up <= e.level + 1
    BY <1>1 DEF NextLevel
  <1>4. time + BreakerLength[up] \in Nat
    BY <1>3
  <1>5. AfterTransient(e, time) = IF n < Threshold THEN seen ELSE opened
    BY DEF AfterTransient
  <1>. HIDE DEF n, up
  <1>6. /\ seen.streak = n /\ seen.level = e.level /\ seen.misses = e.misses + 1
        /\ seen \in Entry
    <2>1. e.misses + 1 \in Nat
      BY <1>1
    <2>. QED  BY <1>2, <2>1 DEF Entry
  <1>. HIDE DEF seen
  <1>7. /\ opened.streak = 0 /\ opened.level = up /\ opened.misses = e.misses + 1
        /\ opened \in Entry
    <2>1. up \in 0..MaxLevel
      BY <1>3
    <2>. QED  BY <1>4, <1>6, <2>1 DEF Entry
  <1>. HIDE DEF opened
  <1>8. e.level * Threshold \in Nat /\ up * Threshold <= e.level * Threshold + Threshold
    <2>1. e.level \in Nat /\ (up = e.level + 1 \/ up <= e.level)
      BY <1>1, <1>3
    <2>2. e.level * Threshold \in Nat /\ (e.level + 1) * Threshold = e.level * Threshold + Threshold
      BY <2>1, OneLevelUp
    <2>3. up <= e.level => up = e.level
      BY <1>1, <1>3 DEF up, NextLevel
    <2>. QED  BY <2>1, <2>2, <2>3
  <1>9. e.level * Threshold + e.streak <= e.misses
    BY DEF Earned
  <1>10. CASE n < Threshold
    <2>1. e.level * Threshold + n <= e.misses + 1
      <3>. DEFINE paid == e.level * Threshold
      <3>1. paid \in Nat /\ paid + e.streak <= e.misses
        BY <1>8, <1>9
      <3>. HIDE DEF paid
      <3>2. paid + n <= e.misses + 1
        BY <1>1, <1>2, <3>1
      <3>. QED  BY <3>2 DEF paid
    <2>. QED  BY <1>5, <1>6, <1>10, <2>1 DEF Earned
  <1>11. CASE ~(n < Threshold)
    <2>1. up * Threshold \in Nat
      BY <1>3, OneLevelUp
    <2>2. up * Threshold <= e.misses + 1
      <3>. DEFINE paid == e.level * Threshold
                  due == up * Threshold
      <3>1. /\ paid \in Nat /\ due \in Nat /\ paid + e.streak <= e.misses
            /\ due <= paid + Threshold
        BY <1>8, <1>9, <2>1
      <3>. HIDE DEF paid, due
      <3>2. due <= e.misses + 1
        BY <1>1, <1>2, <1>11, <3>1
      <3>. QED  BY <3>2 DEF due
    <2>. QED  BY <1>5, <1>7, <1>11, <2>1, <2>2 DEF Earned
  <1>. QED  BY <1>10, <1>11

LEMMA AfterEarned ==
    ASSUME NEW kind \in Kinds, NEW e \in Entry, Earned(e), NEW time \in Nat
    PROVE  After(kind, e, time) \in Entry /\ Earned(After(kind, e, time))
  <1>1. CASE kind = "transient"
    BY <1>1, TransientEarned DEF After
  <1>2. CASE kind = "other"
    <2>. DEFINE rec == [e EXCEPT !.streak = 0, !.since = 0]
    <2>1. rec \in Entry /\ rec.level = e.level /\ rec.misses = e.misses /\ rec.streak = 0
      BY DEF Entry
    <2>2. e.level \in Nat /\ e.level * Threshold \in Nat /\ e.streak \in Nat /\ e.misses \in Nat
      BY HealthAssumption, OneLevelUp DEF Entry
    <2>3. Earned(rec)
      BY <2>1, <2>2 DEF Earned
    <2>. QED  BY <1>2, <2>1, <2>3 DEF After
  <1>3. CASE kind = "success"
    BY <1>3, FreshEntry DEF After
  <1>. QED  BY <1>1, <1>2, <1>3 DEF Kinds

LEMMA BookedEarned ==
    ASSUME NEW book \in Books, EarnedBook(book), NEW site \in Sites,
           NEW model \in Models \cup {NoModel}, NEW kind \in Kinds, NEW time \in Nat
    PROVE  Booked(book, site, model, kind, time) \in Books
           /\ EarnedBook(Booked(book, site, model, kind, time))
  <1>1. ASSUME NEW k \in Keys
        PROVE  LET e == IF book[k] = NoEntry THEN Fresh ELSE book[k]
               IN  After(kind, e, time) \in Entry /\ Earned(After(kind, e, time))
    <2>1. CASE book[k] = NoEntry
      BY <2>1, FreshEntry, AfterEarned
    <2>2. CASE book[k] # NoEntry
      <3>1. book[k] \in Entry /\ Earned(book[k])
        BY <2>2 DEF Books, EarnedBook
      <3>. QED  BY <2>2, <3>1, AfterEarned
    <2>. QED  BY <2>1, <2>2
  <1>. QED  BY <1>1 DEF Booked, Books, EarnedBook

LEMMA ErasedEarned ==
    ASSUME NEW book \in Books, EarnedBook(book), NEW keys
    PROVE  Erased(book, keys) \in Books /\ EarnedBook(Erased(book, keys))
  BY DEF Erased, Books, EarnedBook

LEMMA EmptyEarned == EmptyBook \in Books /\ EarnedBook(EmptyBook)
  BY DEF EmptyBook, Books, EarnedBook

-----------------------------------------------------------------------------
(* Types and earned breakers                                                *)

\* All three books are earned: a write saves its draft, a load its row.
HealthInv ==
    /\ HealthTypeOK
    /\ EarnedBook(health) /\ EarnedBook(saved) /\ EarnedBook(draft)

LEMMA InitInv == HealthInit => HealthInv
  <1>. SUFFICES ASSUME HealthInit PROVE HealthInv
    OBVIOUS
  <1>. USE BoundsAssumption DEF HealthInit
  <1>1. EmptyBook \in [Keys -> Entry \cup {NoEntry}]
    BY EmptyEarned DEF Books
  <1>2. clear \in [stage : ClearStages, keys : SUBSET Keys, at : SUBSET Keys]
    BY DEF NoClear, ClearStages
  <1>3. left \in [outcomes : 0..MaxOutcomes, clears : 0..MaxClears,
                  crashes : 0..MaxCrashes, faults : 0..MaxFaults]
    OBVIOUS
  <1>4. now \in 1..MaxTime /\ pc \in [Requests -> {"idle", "waiting", "past"}]
    OBVIOUS
  <1>5. /\ health \in [Keys -> Entry \cup {NoEntry}] /\ saved = health /\ draft = health
        /\ cleared = {} /\ degraded = FALSE /\ timer = FALSE
        /\ load = "none" /\ slot = "empty"
    BY <1>1
  <1>6. HealthTypeOK
    BY ONLY <1>2, <1>3, <1>4, <1>5 DEF HealthTypeOK
  <1>. QED  BY <1>6, EmptyEarned DEF HealthInv

LEMMA TouchedKeys ==
    ASSUME NEW site \in Sites, NEW model \in Models \cup {NoModel}
    PROVE  Touched(site, model) \subseteq Keys
  BY DEF Touched, Keys

\* A counter of what may still happen goes down.
LEMMA LeftTypes ==
    ASSUME HealthTypeOK
    PROVE  /\ left.outcomes > 0 => [left EXCEPT !.outcomes = @ - 1] \in
                [outcomes : 0..MaxOutcomes, clears : 0..MaxClears,
                 crashes : 0..MaxCrashes, faults : 0..MaxFaults]
           /\ left.clears > 0 => [left EXCEPT !.clears = @ - 1] \in
                [outcomes : 0..MaxOutcomes, clears : 0..MaxClears,
                 crashes : 0..MaxCrashes, faults : 0..MaxFaults]
           /\ left.crashes > 0 => [left EXCEPT !.crashes = @ - 1] \in
                [outcomes : 0..MaxOutcomes, clears : 0..MaxClears,
                 crashes : 0..MaxCrashes, faults : 0..MaxFaults]
           /\ left.faults > 0 => [left EXCEPT !.faults = @ - 1] \in
                [outcomes : 0..MaxOutcomes, clears : 0..MaxClears,
                 crashes : 0..MaxCrashes, faults : 0..MaxFaults]
  <1>1. /\ left.outcomes > 0 => left.outcomes - 1 \in 0..MaxOutcomes
        /\ left.clears > 0 => left.clears - 1 \in 0..MaxClears
        /\ left.crashes > 0 => left.crashes - 1 \in 0..MaxCrashes
        /\ left.faults > 0 => left.faults - 1 \in 0..MaxFaults
    BY BoundsAssumption DEF HealthTypeOK
  <1>. QED  BY <1>1 DEF HealthTypeOK

LEMMA AwaitLoadInv ==
    ASSUME HealthInv, NEW reached, AwaitLoad(reached)
    PROVE  /\ health' \in Books /\ EarnedBook(health')
           /\ load' \in {"none", "reading", "done"}
           /\ reached \in {"waiting", "past"}
  BY EmptyEarned DEF HealthInv, HealthTypeOK, AwaitLoad, Books

LEMMA WakeAllTypes ==
    ASSUME HealthTypeOK, WakeAll
    PROVE  /\ pc' \in [Requests -> {"idle", "waiting", "past"}]
           /\ clear' \in [stage : ClearStages, keys : SUBSET Keys, at : SUBSET Keys]
  <1>1. \A r \in Requests : Woken(pc[r]) \in {"idle", "waiting", "past"}
    BY DEF HealthTypeOK, Woken
  <1>2. Woken(clear.stage) \in ClearStages
    BY DEF HealthTypeOK, Woken, ClearStages
  <1>. QED  BY <1>1, <1>2 DEF HealthTypeOK, WakeAll

LEMMA ArriveInv ==
    ASSUME HealthInv, NEW r \in Requests, Arrive(r)
    PROVE  HealthInv'
  <1>1. PICK reached \in {"waiting", "past"} :
             AwaitLoad(reached) /\ pc' = [pc EXCEPT ![r] = reached]
    BY DEF Arrive
  <1>2. health' \in Books /\ EarnedBook(health') /\ load' \in {"none", "reading", "done"}
    BY <1>1, AwaitLoadInv
  <1>3. pc' \in [Requests -> {"idle", "waiting", "past"}]
    BY <1>1 DEF HealthInv, HealthTypeOK
  <1>4. left' \in [outcomes : 0..MaxOutcomes, clears : 0..MaxClears,
                   crashes : 0..MaxCrashes, faults : 0..MaxFaults]
    BY LeftTypes DEF Arrive, HealthInv
  <1>. QED  BY <1>2, <1>3, <1>4 DEF Arrive, HealthInv, HealthTypeOK, Books

LEMMA RecordInv ==
    ASSUME HealthInv, NEW r \in Requests, Record(r)
    PROVE  HealthInv'
  <1>1. PICK site \in Sites, model \in Models \cup {NoModel}, kind \in Kinds :
             /\ health' = Booked(health, site, model, kind, now)
             /\ cleared' = IF kind = "success" THEN cleared ELSE cleared \ Touched(site, model)
             /\ clear' = IF kind = "success" THEN clear
                         ELSE [clear EXCEPT !.at = @ \ Touched(site, model)]
    BY DEF Record
  <1>2. now \in Nat /\ health \in Books
    BY BoundsAssumption DEF HealthInv, HealthTypeOK, Books
  <1>3. health' \in Books /\ EarnedBook(health')
    BY <1>1, <1>2, BookedEarned DEF HealthInv
  <1>4. pc' \in [Requests -> {"idle", "waiting", "past"}] /\ timer' \in BOOLEAN
    BY DEF Record, HealthInv, HealthTypeOK
  <1>5. /\ cleared' \in SUBSET Keys
        /\ clear' \in [stage : ClearStages, keys : SUBSET Keys, at : SUBSET Keys]
    BY <1>1 DEF HealthInv, HealthTypeOK
  <1>. QED  BY <1>3, <1>4, <1>5 DEF Record, HealthInv, HealthTypeOK, Books

LEMMA LoadInv ==
    ASSUME HealthInv, LoadEnds \/ LoadFails
    PROVE  HealthInv'
  <1>1. /\ pc' \in [Requests -> {"idle", "waiting", "past"}]
        /\ clear' \in [stage : ClearStages, keys : SUBSET Keys, at : SUBSET Keys]
    BY WakeAllTypes DEF LoadEnds, LoadFails, HealthInv
  <1>2. health' \in Books /\ EarnedBook(health')
    BY DEF LoadEnds, LoadFails, HealthInv, HealthTypeOK, Books, EarnedBook
  <1>3. left' \in [outcomes : 0..MaxOutcomes, clears : 0..MaxClears,
                   crashes : 0..MaxCrashes, faults : 0..MaxFaults]
    BY LeftTypes DEF LoadEnds, LoadFails, HealthInv, HealthTypeOK
  <1>. QED  BY <1>1, <1>2, <1>3 DEF LoadEnds, LoadFails, HealthInv, HealthTypeOK, Books

LEMMA WriteInv ==
    ASSUME HealthInv, TimerFires \/ WriteEnds \/ WriteFails
    PROVE  HealthInv'
  <1>1. left' \in [outcomes : 0..MaxOutcomes, clears : 0..MaxClears,
                   crashes : 0..MaxCrashes, faults : 0..MaxFaults]
    BY LeftTypes DEF TimerFires, WriteEnds, WriteFails, HealthInv, HealthTypeOK
  <1>2. CASE TimerFires
    BY <1>1, <1>2 DEF TimerFires, Persist, HealthInv, HealthTypeOK
  <1>3. CASE WriteEnds \/ WriteFails
    BY <1>1, <1>3 DEF WriteEnds, WriteFails, HealthInv, HealthTypeOK
  <1>. QED  BY <1>2, <1>3

LEMMA ClearInv ==
    ASSUME HealthInv, ClearArrives \/ ClearRows \/ ClearHealth \/ ClearEnds
    PROVE  HealthInv'
  <1>1. left' \in [outcomes : 0..MaxOutcomes, clears : 0..MaxClears,
                   crashes : 0..MaxCrashes, faults : 0..MaxFaults]
    BY LeftTypes
       DEF ClearArrives, ClearRows, ClearHealth, ClearEnds, HealthInv, HealthTypeOK
  <1>2. CASE ClearArrives
    <2>1. PICK reached \in {"waiting", "past"}, site \in Sites, model \in Models \cup {NoModel} :
               /\ AwaitLoad(reached)
               /\ clear' = [stage |-> reached, keys |-> Touched(site, model), at |-> {}]
      BY <1>2 DEF ClearArrives
    <2>2. health' \in Books /\ EarnedBook(health') /\ load' \in {"none", "reading", "done"}
      BY <2>1, AwaitLoadInv
    <2>3. clear' \in [stage : ClearStages, keys : SUBSET Keys, at : SUBSET Keys]
      BY <2>1, TouchedKeys DEF ClearStages
    <2>. QED  BY <1>1, <1>2, <2>2, <2>3 DEF ClearArrives, HealthInv, HealthTypeOK, Books
  <1>3. CASE ClearRows
    <2>1. clear' \in [stage : ClearStages, keys : SUBSET Keys, at : SUBSET Keys]
      BY <1>3 DEF ClearRows, NoClear, ClearStages, HealthInv, HealthTypeOK
    <2>. QED  BY <1>1, <1>3, <2>1 DEF ClearRows, HealthInv, HealthTypeOK
  <1>4. CASE ClearHealth
    <2>1. health' \in Books /\ EarnedBook(health')
      BY <1>4, ErasedEarned DEF ClearHealth, HealthInv, HealthTypeOK, Books
    <2>2. clear' \in [stage : ClearStages, keys : SUBSET Keys, at : SUBSET Keys]
      <3>1. CASE health' = health
        BY <1>4, <3>1 DEF ClearHealth, NoClear, ClearStages
      <3>2. CASE health' # health
        <4>1. clear' = [clear EXCEPT !.stage = "saving", !.at = clear.keys]
          BY <1>4, <3>2 DEF ClearHealth
        <4>. QED  BY <4>1 DEF ClearStages, HealthInv, HealthTypeOK
      <3>. QED  BY <3>1, <3>2
    <2>3. cleared' \in SUBSET Keys
      BY <1>4 DEF ClearHealth, HealthInv, HealthTypeOK
    <2>4. draft' \in {draft, health'} /\ slot' \in {slot, "writing"}
      BY <1>4 DEF ClearHealth, Persist
    <2>. QED  BY <1>1, <1>4, <2>1, <2>2, <2>3, <2>4
              DEF ClearHealth, HealthInv, HealthTypeOK, Books
  <1>5. CASE ClearEnds
    <2>1. clear' \in [stage : ClearStages, keys : SUBSET Keys, at : SUBSET Keys]
      BY <1>5 DEF ClearEnds, NoClear, ClearStages
    <2>2. cleared' \in SUBSET Keys
      BY <1>5 DEF ClearEnds, HealthInv, HealthTypeOK
    <2>. QED  BY <1>5, <2>1, <2>2 DEF ClearEnds, HealthInv, HealthTypeOK
  <1>. QED  BY <1>2, <1>3, <1>4, <1>5

LEMMA TickInv ==
    ASSUME HealthInv, Tick
    PROVE  HealthInv'
  <1>1. now' \in 1..MaxTime
    BY BoundsAssumption DEF Tick, HealthInv, HealthTypeOK
  <1>. QED  BY <1>1 DEF Tick, HealthInv, HealthTypeOK

LEMMA CrashInv ==
    ASSUME HealthInv, Crash
    PROVE  HealthInv'
  <1>1. left' \in [outcomes : 0..MaxOutcomes, clears : 0..MaxClears,
                   crashes : 0..MaxCrashes, faults : 0..MaxFaults]
    BY LeftTypes DEF Crash, HealthInv
  <1>2. health' \in Books /\ EarnedBook(health')
    BY EmptyEarned DEF Crash
  <1>3. saved' \in {saved, draft}
    BY DEF Crash
  <1>. QED  BY <1>1, <1>2, <1>3 DEF Crash, NoClear, ClearStages, HealthInv, HealthTypeOK, Books

LEMMA StepInv == HealthInv /\ [HealthNext]_healthVars => HealthInv'
  <1>. SUFFICES ASSUME HealthInv, [HealthNext]_healthVars PROVE HealthInv'
    OBVIOUS
  <1>1. CASE UNCHANGED healthVars
    BY <1>1 DEF healthVars, HealthInv, HealthTypeOK
  <1>2. ASSUME NEW r \in Requests, Arrive(r) \/ Record(r)
        PROVE  HealthInv'
    BY <1>2, ArriveInv, RecordInv
  <1>3. CASE LoadEnds \/ LoadFails
    BY <1>3, LoadInv
  <1>4. CASE TimerFires \/ WriteEnds \/ WriteFails
    BY <1>4, WriteInv
  <1>5. CASE ClearArrives \/ ClearRows \/ ClearHealth \/ ClearEnds
    BY <1>5, ClearInv
  <1>6. CASE Tick \/ Crash
    BY <1>6, TickInv, CrashInv
  <1>. QED  BY <1>1, <1>2, <1>3, <1>4, <1>5, <1>6 DEF HealthNext

\* Every variable stays in its range: the entries in memory, in the row and in
\* a write under way, and the stages of requests and of the clear.
THEOREM HealthTypeCorrect == HealthSpec => []HealthTypeOK
  <1>1. HealthInv => HealthTypeOK
    BY DEF HealthInv
  <1>. QED  BY InitInv, StepInv, <1>1, PTL DEF HealthSpec

\* Each level of each breaker, in memory and in the row, was paid for by
\* Threshold transient failures, for every threshold, window and ladder of levels.
THEOREM BreakersAreEarned == HealthSpec => []EscalationIsEarned
  <1>1. HealthInv => EscalationIsEarned
    BY DEF HealthInv, EarnedBook, Earned, EscalationIsEarned
  <1>. QED  BY InitInv, StepInv, <1>1, PTL DEF HealthSpec

-----------------------------------------------------------------------------
(* The refinement of HealthBook                                             *)

\* Until the row is read nothing is in memory, nobody is past the load and
\* nothing is persisted; and the clear is about one channel.
Unread ==
    /\ health = EmptyBook /\ ~timer /\ slot = "empty"
    /\ \A r \in Requests : pc[r] # "past"
    /\ clear.stage \in {"idle", "waiting"}

BookInv ==
    /\ pc \in [Requests -> {"idle", "waiting", "past"}]
    /\ clear.stage # "idle" =>
          \E site \in Sites, model \in Models \cup {NoModel} : clear.keys = Touched(site, model)
    /\ ~degraded /\ load # "done" => Unread
    /\ saved \in Books

\* The book the router keeps.
Kept == IF load = "done" \/ degraded THEN health ELSE saved

LEMMA BookInit == HealthInit => BookInv
  BY EmptyEarned DEF HealthInit, BookInv, Unread, NoClear

LEMMA BookStep ==
    ASSUME HealthTypeOK, HealthTypeOK', BookInv, [HealthNext]_healthVars
    PROVE  BookInv'
  <1>. USE DEF HealthTypeOK, BookInv, Unread, Books
  <1>1. CASE UNCHANGED healthVars
    BY <1>1 DEF healthVars
  <1>2. ASSUME NEW r \in Requests, Arrive(r)
        PROVE  BookInv'
    BY <1>2 DEF Arrive, AwaitLoad
  <1>3. ASSUME NEW r \in Requests, Record(r)
        PROVE  BookInv'
    BY <1>3 DEF Record
  <1>4. CASE LoadEnds
    BY <1>4 DEF LoadEnds, WakeAll, Woken
  <1>5. CASE LoadFails
    BY <1>5 DEF LoadFails, WakeAll, Woken
  <1>6. CASE TimerFires
    BY <1>6 DEF TimerFires
  <1>7. CASE WriteEnds \/ WriteFails
    BY <1>7 DEF WriteEnds, WriteFails
  <1>8. CASE ClearArrives
    BY <1>8 DEF ClearArrives, AwaitLoad
  <1>9. CASE ClearRows
    BY <1>9 DEF ClearRows, NoClear
  <1>10. CASE ClearHealth
    <2>1. clear'.stage # "idle" => clear'.keys = clear.keys
      <3>1. CASE clear' = NoClear
        BY <3>1 DEF NoClear
      <3>2. CASE clear' = [clear EXCEPT !.stage = "saving", !.at = clear.keys]
        BY <3>2
      <3>. QED  BY <1>10, <3>1, <3>2 DEF ClearHealth
    <2>2. degraded' \/ load' = "done"
      BY <1>10 DEF ClearHealth
    <2>. QED  BY <1>10, <2>1, <2>2 DEF ClearHealth
  <1>11. CASE ClearEnds
    BY <1>11 DEF ClearEnds, NoClear
  <1>12. CASE Tick
    BY <1>12 DEF Tick
  <1>13. CASE Crash
    BY <1>13 DEF Crash, NoClear
  <1>. QED  BY <1>1, <1>2, <1>3, <1>4, <1>5, <1>6, <1>7, <1>8, <1>9, <1>10, <1>11, <1>12, <1>13
            DEF HealthNext

LEMMA BookInitMaps == HealthInit => Book!Init
  BY BoundsAssumption DEF HealthInit, Book!Init, Book!EmptyBook, EmptyBook, Book!Keys, Keys

\* The book's operators are those of the router.
LEMMA BookOperators ==
    /\ Book!Keys = Keys /\ Book!Kinds = Kinds /\ Book!EmptyBook = EmptyBook
    /\ \A site, model : Book!Touched(site, model) = Touched(site, model)
    /\ \A e, t : Book!AfterTransient(e, t) = AfterTransient(e, t)
    /\ \A kind, e, t : Book!After(kind, e, t) = After(kind, e, t)
    /\ \A b, site, model, kind, t :
          Book!Booked(b, site, model, kind, t) = Booked(b, site, model, kind, t)
    /\ \A b, keys : Book!Erased(b, keys) = Erased(b, keys)
  <1>1. Book!Keys = Keys /\ Book!Kinds = Kinds /\ Book!Fresh = Fresh
    BY DEF Book!Keys, Keys, Book!Kinds, Kinds, Book!Fresh, Fresh
  <1>2. \A site, model : Book!Touched(site, model) = Touched(site, model)
    BY DEF Book!Touched, Touched
  <1>3. \A e : Book!NextLevel(e) = NextLevel(e)
    BY DEF Book!NextLevel, NextLevel
  <1>4. \A e, t : Book!AfterTransient(e, t) = AfterTransient(e, t)
    BY <1>3 DEF Book!AfterTransient, AfterTransient
  <1>5. \A kind, e, t : Book!After(kind, e, t) = After(kind, e, t)
    BY <1>1, <1>4 DEF Book!After, After
  <1>6. \A b, site, model, kind, t :
           Book!Booked(b, site, model, kind, t) = Booked(b, site, model, kind, t)
    BY <1>1, <1>2, <1>5 DEF Book!Booked, Booked
  <1>. QED  BY <1>1, <1>2, <1>4, <1>5, <1>6
            DEF Book!EmptyBook, EmptyBook, Book!Erased, Erased

LEMMA BookStepMaps ==
    ASSUME HealthTypeOK, BookInv, BookInv', [HealthNext]_healthVars
    PROVE  [Book!Next]_(Book!bookVars)
  <1>. USE DEF Book!Next, Book!bookVars
  \* After a failed load nothing is promised until the next restart.
  <1>1. ASSUME degraded', UNCHANGED left.crashes, saved' \in {saved, draft}
        PROVE  [Book!Next]_(Book!bookVars)
    BY <1>1 DEF Book!Degraded
  \* A step that neither the book nor what is saved of it can tell.
  <1>2. ASSUME ~degraded', UNCHANGED <<Kept, draft, saved, degraded, now, left.crashes>>
        PROVE  [Book!Next]_(Book!bookVars)
    BY <1>2 DEF Kept
  <1>3. CASE UNCHANGED healthVars
    BY <1>3 DEF healthVars
  <1>4. ASSUME AwaitLoad("waiting") \/ AwaitLoad("past"),
               UNCHANGED <<saved, draft, now, degraded, left.crashes>>
        PROVE  [Book!Next]_(Book!bookVars)
    <2>1. CASE degraded'
      BY <1>1, <1>4, <2>1
    <2>2. CASE ~degraded'
      <3>1. UNCHANGED Kept
        BY <1>4, <2>2 DEF AwaitLoad, Kept
      <3>. QED  BY <1>2, <1>4, <2>2, <3>1
    <2>. QED  BY <2>1, <2>2
  <1>5. ASSUME NEW r \in Requests, Arrive(r)
        PROVE  [Book!Next]_(Book!bookVars)
    BY <1>4, <1>5 DEF Arrive, HealthTypeOK
  <1>6. ASSUME NEW r \in Requests, Record(r)
        PROVE  [Book!Next]_(Book!bookVars)
    <2>1. CASE degraded'
      BY <1>1, <1>6, <2>1 DEF Record
    <2>2. CASE ~degraded'
      <3>1. load = "done" /\ load' = "done"
        BY <1>6, <2>2 DEF Record, BookInv, Unread
      <3>2. \E site \in Sites, model \in Models \cup {NoModel}, kind \in Kinds :
               health' = Booked(health, site, model, kind, now)
        BY <1>6 DEF Record
      <3>3. Book!Outcome
        <4>1. Book!Kinds = Kinds /\
              \A site, model, kind :
                 Book!Booked(health, site, model, kind, now) = Booked(health, site, model, kind, now)
          BY BookOperators
        <4>. QED  BY <1>6, <3>1, <3>2, <4>1 DEF Record, Book!Outcome
      <3>. QED  BY <3>3
    <2>. QED  BY <2>1, <2>2
  <1>7. CASE LoadEnds
    <2>1. CASE degraded'
      BY <1>1, <1>7, <2>1 DEF LoadEnds
    <2>2. CASE ~degraded'
      <3>1. health = EmptyBook /\ saved \in Books
        BY <1>7, <2>2 DEF LoadEnds, BookInv, Unread
      <3>2. health' = saved
        BY <1>7, <3>1 DEF LoadEnds, EmptyBook, Books
      <3>3. UNCHANGED Kept
        BY <1>7, <2>2, <3>2 DEF LoadEnds, Kept
      <3>. QED  BY <1>2, <1>7, <2>2, <3>3 DEF LoadEnds
    <2>. QED  BY <2>1, <2>2
  <1>8. CASE LoadFails
    BY <1>1, <1>8 DEF LoadFails, HealthTypeOK
  <1>9. CASE TimerFires
    <2>1. CASE degraded'
      BY <1>1, <1>9, <2>1 DEF TimerFires
    <2>2. CASE ~degraded' /\ draft' = draft
      BY <1>2, <1>9, <2>2 DEF TimerFires, Kept
    <2>3. CASE ~degraded' /\ draft' # draft
      <3>1. load = "done" /\ draft' = health
        BY <1>9, <2>3 DEF TimerFires, Persist, BookInv, Unread
      <3>2. Book!Snapshot
        BY <1>9, <3>1 DEF TimerFires, Book!Snapshot
      <3>. QED  BY <3>2
    <2>. QED  BY <2>1, <2>2, <2>3
  <1>10. CASE WriteEnds
    <2>1. CASE degraded'
      BY <1>1, <1>10, <2>1 DEF WriteEnds
    <2>2. CASE ~degraded'
      <3>1. load = "done"
        BY <1>10, <2>2 DEF WriteEnds, BookInv, Unread
      <3>2. Book!Save
        BY <1>10, <3>1 DEF WriteEnds, Book!Save
      <3>. QED  BY <3>2
    <2>. QED  BY <2>1, <2>2
  <1>11. CASE WriteFails
    <2>1. UNCHANGED left.crashes
      BY <1>11 DEF WriteFails, HealthTypeOK
    <2>. QED  BY <1>1, <1>2, <1>11, <2>1 DEF WriteFails, Kept
  <1>12. CASE ClearArrives
    BY <1>4, <1>12 DEF ClearArrives, HealthTypeOK
  <1>13. CASE ClearRows
    <2>1. UNCHANGED left.crashes
      BY <1>13 DEF ClearRows, HealthTypeOK
    <2>. QED  BY <1>1, <1>2, <1>13, <2>1 DEF ClearRows, Kept
  <1>14. CASE ClearHealth
    <2>1. CASE degraded'
      BY <1>1, <1>14, <2>1 DEF ClearHealth
    <2>2. CASE ~degraded'
      <3>1. load = "done"
        BY <1>14, <2>2 DEF ClearHealth, BookInv, Unread
      <3>2. PICK site \in Sites, model \in Models \cup {NoModel} :
                 clear.keys = Touched(site, model)
        BY <1>14 DEF ClearHealth, BookInv
      <3>3. health' = Erased(health, Touched(site, model)) /\ draft' \in {draft, health'}
        BY <1>14, <3>2 DEF ClearHealth, Persist
      <3>4. Book!Erase
        BY <1>14, <3>1, <3>3, BookOperators DEF ClearHealth, Book!Erase
      <3>. QED  BY <3>4
    <2>. QED  BY <2>1, <2>2
  <1>15. CASE ClearEnds
    BY <1>1, <1>2, <1>15 DEF ClearEnds, Kept
  <1>16. CASE Tick
    <2>1. now' > now
      BY <1>16, BoundsAssumption DEF Tick, HealthTypeOK
    <2>2. Book!Later
      BY <1>16, <2>1 DEF Tick, Book!Later
    <2>. QED  BY <2>2
  <1>17. CASE Crash
    <2>1. left.crashes' # left.crashes
      BY <1>17 DEF Crash, HealthTypeOK
    <2>2. /\ saved' \in {saved, draft} /\ load' = "none" /\ ~degraded' /\ degraded' = FALSE
          /\ UNCHANGED <<draft, now>>
      BY <1>17 DEF Crash
    <2>3. Book!Restart
      BY <2>1, <2>2 DEF Book!Restart
    <2>. QED  BY <2>3
  <1>. QED  BY <1>3, <1>5, <1>6, <1>7, <1>8, <1>9, <1>10, <1>11, <1>12, <1>13, <1>14, <1>15,
               <1>16, <1>17 DEF HealthNext

\* The runtime health implements its abstract book, whatever is lost, joined,
\* debounced or restarted: initial states map to initial states, and every step
\* to a step or a stutter.
THEOREM HealthIsABook == HealthSpec => ImplementsBook
  <1>1. HealthInv /\ BookInv /\ [HealthNext]_healthVars => (HealthInv /\ BookInv)'
    BY StepInv, BookStep DEF HealthInv
  <1>2. HealthInv /\ BookInv /\ (HealthInv /\ BookInv)' /\ [HealthNext]_healthVars
          => [Book!Next]_(Book!bookVars)
    BY BookStepMaps DEF HealthInv
  <1>. QED  BY InitInv, BookInit, BookInitMaps, <1>1, <1>2, PTL
            DEF HealthSpec, ImplementsBook, Book!Spec
=============================================================================
