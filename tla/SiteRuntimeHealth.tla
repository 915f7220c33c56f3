------------------------- MODULE SiteRuntimeHealth -------------------------
(***************************************************************************)
(* Runtime health of sites in the token router: the maps in memory, their  *)
(* first load from the settings row, the debounced persist, the operator's *)
(* clear, and restarts of the gateway. One action is the code between two  *)
(* awaits.                                                                 *)
(***************************************************************************)
EXTENDS RuntimeHealth

CONSTANTS
    Requests,       \* requests that have an outcome to record
    MaxTime, MaxOutcomes, MaxClears, MaxCrashes, MaxFaults

ASSUME BoundsAssumption ==
    /\ MaxTime \in Nat \ {0}
    /\ MaxOutcomes \in Nat /\ MaxClears \in Nat /\ MaxCrashes \in Nat /\ MaxFaults \in Nat

VARIABLES
    health,     \* siteRuntimeHealthStates and siteModelRuntimeHealthStates
    saved,      \* the settings row; EmptyBook also stands for no row
    load,       \* "none", "reading", "done": the load promise and the loaded flag
    timer,      \* is siteRuntimeHealthSaveTimer armed
    slot,       \* siteRuntimeHealthPersistInFlight: "empty", "writing", "settled", "rejected"
    draft,      \* the payload of the last write
    pc,         \* where each request is: "idle", "waiting" for the load, "past" it
    clear,      \* the operator's call: stage, and the entries it is about
    now,
    left,       \* how much may still happen: bounds
    degraded,   \* history: a load of this process has failed
    cleared     \* history: entries cleared, answered so, and without a failure since

healthVars == <<health, saved, load, timer, slot, draft, pc, clear, now, left, degraded, cleared>>

ClearStages == {"idle", "waiting", "past", "rows", "saving"}

HealthTypeOK ==
    /\ health \in [Keys -> Entry \cup {NoEntry}]
    /\ saved \in [Keys -> Entry \cup {NoEntry}]
    /\ draft \in [Keys -> Entry \cup {NoEntry}]
    /\ load \in {"none", "reading", "done"}
    /\ timer \in BOOLEAN /\ degraded \in BOOLEAN
    /\ slot \in {"empty", "writing", "settled", "rejected"}
    /\ pc \in [Requests -> {"idle", "waiting", "past"}]
    /\ clear \in [stage : ClearStages, keys : SUBSET Keys, at : SUBSET Keys]
    /\ now \in 1..MaxTime
    /\ left \in [outcomes : 0..MaxOutcomes, clears : 0..MaxClears,
                 crashes : 0..MaxCrashes, faults : 0..MaxFaults]
    /\ cleared \in SUBSET Keys

NoClear == [stage |-> "idle", keys |-> {}, at |-> {}]

HealthInit ==
    /\ health = EmptyBook /\ saved = EmptyBook /\ draft = EmptyBook
    /\ load = "none" /\ timer = FALSE /\ slot = "empty"
    /\ pc = [r \in Requests |-> "idle"]
    /\ clear = NoClear
    /\ now = 1
    /\ left = [outcomes |-> MaxOutcomes, clears |-> MaxClears,
               crashes |-> MaxCrashes, faults |-> MaxFaults]
    /\ degraded = FALSE /\ cleared = {}

-----------------------------------------------------------------------------
(* ensureSiteRuntimeHealthStateLoaded *)

\* Mutant: the loaded flag is not looked at.
AwaitLoadAgain(reached) ==
    \/ load = "reading" /\ reached = "waiting" /\ UNCHANGED <<load, health>>
    \/ load # "reading" /\ reached = "waiting" /\ load' = "reading" /\ health' = EmptyBook

\* The first caller clears the maps and starts to read; the others join it.
AwaitLoad(reached) ==
    \/ load = "done" /\ reached = "past" /\ UNCHANGED <<load, health>>
    \/ load = "reading" /\ reached = "waiting" /\ UNCHANGED <<load, health>>
    \/ load = "none" /\ reached = "waiting" /\ load' = "reading" /\ health' = EmptyBook

Woken(stage) == IF stage = "waiting" THEN "past" ELSE stage

\* Mutant: a load that fails leaves its callers waiting.
WakeNobodyOnFailure ==
    IF load' = "done"
    THEN /\ pc' = [r \in Requests |-> Woken(pc[r])]
         /\ clear' = [clear EXCEPT !.stage = Woken(@)]
    ELSE UNCHANGED <<pc, clear>>

WakeAll ==
    /\ pc' = [r \in Requests |-> Woken(pc[r])]
    /\ clear' = [clear EXCEPT !.stage = Woken(@)]

\* What the row holds replaces what was recorded while it was being read.
LoadEnds ==
    /\ load = "reading"
    /\ load' = "done"
    /\ health' = [k \in Keys |-> IF saved[k] # NoEntry THEN saved[k] ELSE health[k]]
    /\ WakeAll
    /\ UNCHANGED <<saved, timer, slot, draft, now, left, degraded, cleared>>

\* The error is logged, and the callers go on with maps that were not restored.
LoadFails ==
    /\ load = "reading" /\ left.faults > 0
    /\ load' = "none"
    /\ degraded' = TRUE
    /\ left' = [left EXCEPT !.faults = @ - 1]
    /\ WakeAll
    /\ UNCHANGED <<health, saved, timer, slot, draft, now, cleared>>

-----------------------------------------------------------------------------
(* recordSuccess, recordFailure and recordProbeSuccess, as far as they      *)
(* touch runtime health: await the load, read and write rows, record.       *)

Arrive(r) ==
    /\ pc[r] = "idle" /\ left.outcomes > 0
    /\ left' = [left EXCEPT !.outcomes = @ - 1]
    /\ \E reached \in {"waiting", "past"} :
            AwaitLoad(reached) /\ pc' = [pc EXCEPT ![r] = reached]
    /\ UNCHANGED <<saved, timer, slot, draft, clear, now, degraded, cleared>>

\* The site and its model are booked together, and a persist is scheduled.
Record(r) ==
    /\ pc[r] = "past"
    /\ \E site \in Sites, model \in Models \cup {NoModel}, kind \in Kinds :
            /\ health' = Booked(health, site, model, kind, now)
            /\ cleared' = IF kind = "success" THEN cleared ELSE cleared \ Touched(site, model)
            /\ clear' = IF kind = "success" THEN clear
                        ELSE [clear EXCEPT !.at = @ \ Touched(site, model)]
    /\ pc' = [pc EXCEPT ![r] = "idle"]
    /\ timer' = TRUE
    /\ UNCHANGED <<saved, load, slot, draft, now, left, degraded>>

-----------------------------------------------------------------------------
(* persistSiteRuntimeHealthState. The slot holds the promise that finally() *)
(* returns but is compared with the one it was called on: it is never       *)
(* emptied. A persist that finds it taken waits for that promise and writes *)
(* nothing.                                                                 *)

Persist(book) ==
    IF slot = "empty" THEN slot' = "writing" /\ draft' = book
    ELSE UNCHANGED <<slot, draft>>

TimerFires ==
    /\ timer
    /\ timer' = FALSE
    /\ Persist(health)
    /\ UNCHANGED <<health, saved, load, pc, clear, now, left, degraded, cleared>>

WriteEnds ==
    /\ slot = "writing"
    /\ slot' = "settled"
    /\ saved' = draft
    /\ UNCHANGED <<health, load, timer, draft, pc, clear, now, left, degraded, cleared>>

WriteFails ==
    /\ slot = "writing" /\ left.faults > 0
    /\ slot' = "rejected"
    /\ left' = [left EXCEPT !.faults = @ - 1]
    /\ UNCHANGED <<health, saved, load, timer, draft, pc, clear, now, degraded, cleared>>

-----------------------------------------------------------------------------
(* clearChannelFailureState, for one channel *)

ClearArrives ==
    /\ clear.stage = "idle" /\ left.clears > 0
    /\ left' = [left EXCEPT !.clears = @ - 1]
    /\ \E reached \in {"waiting", "past"}, site \in Sites, model \in Models \cup {NoModel} :
            /\ AwaitLoad(reached)
            /\ clear' = [stage |-> reached, keys |-> Touched(site, model), at |-> {}]
    /\ UNCHANGED <<saved, timer, slot, draft, pc, now, degraded, cleared>>

\* The channel's row is read and its counters are reset in the database.
ClearRows ==
    /\ clear.stage = "past"
    /\ \/ clear' = [clear EXCEPT !.stage = "rows"] /\ UNCHANGED left
       \/ /\ left.faults > 0
          /\ left' = [left EXCEPT !.faults = @ - 1]
          /\ clear' = NoClear
    /\ UNCHANGED <<health, saved, load, timer, slot, draft, pc, now, degraded, cleared>>

\* The entries go, and a persist is awaited if there were any.
ClearHealth ==
    /\ clear.stage = "rows"
    /\ health' = Erased(health, clear.keys)
    /\ IF health' = health
       THEN /\ clear' = NoClear
            /\ cleared' = cleared \cup clear.keys
            /\ UNCHANGED <<slot, draft>>
       ELSE /\ clear' = [clear EXCEPT !.stage = "saving", !.at = clear.keys]
            /\ Persist(health')
            /\ UNCHANGED cleared
    /\ UNCHANGED <<saved, load, timer, pc, now, left, degraded>>

\* The awaited persist settles; if it was rejected the operator gets an error.
ClearEnds ==
    /\ clear.stage = "saving" /\ slot \in {"settled", "rejected"}
    /\ cleared' = IF slot = "settled" THEN cleared \cup clear.at ELSE cleared
    /\ clear' = NoClear
    /\ UNCHANGED <<health, saved, load, timer, slot, draft, pc, now, left, degraded>>

-----------------------------------------------------------------------------
Tick ==
    /\ now < MaxTime
    /\ now' = now + 1
    /\ UNCHANGED <<health, saved, load, timer, slot, draft, pc, clear, left, degraded, cleared>>

\* The process ends and is started again. A write under way lands or does not.
Crash ==
    /\ left.crashes > 0
    /\ left' = [left EXCEPT !.crashes = @ - 1]
    /\ saved' \in IF slot = "writing" THEN {saved, draft} ELSE {saved}
    /\ health' = EmptyBook
    /\ load' = "none" /\ timer' = FALSE /\ slot' = "empty"
    /\ pc' = [r \in Requests |-> "idle"]
    /\ clear' = NoClear
    /\ degraded' = FALSE
    /\ UNCHANGED <<draft, now, cleared>>

HealthNext ==
    \/ \E r \in Requests : Arrive(r) \/ Record(r)
    \/ LoadEnds \/ LoadFails
    \/ TimerFires \/ WriteEnds \/ WriteFails
    \/ ClearArrives \/ ClearRows \/ ClearHealth \/ ClearEnds
    \/ Tick \/ Crash

HealthFairness ==
    /\ WF_healthVars(LoadEnds) /\ WF_healthVars(WriteEnds)
    /\ WF_healthVars(ClearRows) /\ WF_healthVars(ClearHealth) /\ WF_healthVars(ClearEnds)

HealthSpec == HealthInit /\ [][HealthNext]_healthVars /\ HealthFairness

-----------------------------------------------------------------------------
\* Properties

\* A breaker only climbs on runs of transient failures that no success, no
\* clear and no other outcome of the key interrupted: a level costs Threshold
\* failures (applyRuntimeHealthFailure, applyRuntimeHealthSuccess), whatever
\* was lost, restored or erased in between.
EscalationIsEarned ==
    \A book \in {health, saved} : \A k \in Keys :
        book[k] # NoEntry =>
            book[k].level * Threshold + book[k].streak <= book[k].misses

\* The operator's call always returns, with an answer or an error: neither a
\* load that fails nor the persist slot, which never empties, strands it.
ClearAnswered == clear.stage # "idle" ~> clear.stage = "idle"

\* An entry the operator cleared and was told so does not come back as an open
\* breaker without a new failure, restarts included.
ClearSurvivesRestart ==
    \A k \in cleared : load = "done" => ~Open(health[k], now)
=============================================================================
