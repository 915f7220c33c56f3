---------------------------- MODULE RecoveryProbe ----------------------------
(***************************************************************************)
(* The sweep that sends a request of its own to channels in cooldown and   *)
(* to channels in use. A timer starts sweeps, one runs at a time; it takes *)
(* a few of the channels that are due, probes them one after another, and  *)
(* a success ends the cooldown of every channel with the same credential.  *)
(* Requests lease channels and book outcomes on the same rows meanwhile.   *)
(***************************************************************************)
EXTENDS Naturals, FiniteSets

CONSTANTS
    ProbeChannels,      \* their ids
    Pooled,             \* channels that stand for a pool of OAuth accounts
    CredentialOf,       \* the token or account a channel sends with
    MaxBatch,           \* CHANNEL_RECOVERY_MAX_BATCH
    CoolingRecheck,     \* CHANNEL_RECOVERY_COOLDOWN_RECHECK_MS
    ActiveRecheck,      \* CHANNEL_RECOVERY_ACTIVE_RECHECK_MS
    CooldownSpan,
    MaxTime, MaxEvents, MaxRestarts     \* bounds

ASSUME RecoveryProbeAssumption ==
    /\ ProbeChannels \subseteq Nat \ {0} /\ IsFiniteSet(ProbeChannels)
    /\ Pooled \subseteq ProbeChannels
    /\ CredentialOf \in [ProbeChannels -> ProbeChannels]
    /\ MaxBatch \in Nat \ {0} /\ CooldownSpan \in Nat \ {0}
    /\ CoolingRecheck \in Nat \ {0} /\ ActiveRecheck \in Nat \ {0}
    /\ MaxTime \in Nat \ {0} /\ MaxEvents \in Nat /\ MaxRestarts \in Nat

VARIABLES
    chan,           \* cooldownUntil (0 is null), lastFailAt set or not, failCount > 0 or not
    leased,         \* getActiveChannelIds()
    lastStartedAt,  \* recoveryProbeLastStartedAtByKey; 0 stands for no entry
    sweep,          \* recoveryProbeSweepInFlight: what it has read and has yet to do
    time, events, restarts,     \* the clock and two bounds
    passedBy        \* history: taken by sweeps that left this one out though it was due

probeVars == <<chan, leased, lastStartedAt, sweep, time, events, restarts, passedBy>>

Well == [until |-> 0, failed |-> FALSE, counted |-> FALSE]
NoSweep == [pc |-> "none", at |-> 0, active |-> {}, batch |-> {}, waiting |-> {},
            probed |-> {}, resetting |-> {}]

ProbeTypeOK ==
    /\ chan \in [ProbeChannels -> [until : 0..MaxTime + CooldownSpan,
                                   failed : BOOLEAN, counted : BOOLEAN]]
    /\ leased \subseteq ProbeChannels
    /\ lastStartedAt \in [ProbeChannels -> 0..time]
    /\ sweep.pc \in {"none", "loading", "probing", "asking", "booking", "siblings", "clearing"}
    /\ sweep.pc = "none" <=> sweep = NoSweep
    /\ Cardinality(sweep.batch \cup sweep.probed) <= MaxBatch
    /\ sweep.batch \cap sweep.waiting = {}
    /\ sweep.probed = {} <=> sweep.pc \in {"none", "loading", "probing"}
    /\ sweep.resetting \subseteq ProbeChannels
    /\ time \in 1..MaxTime /\ events \in 0..MaxEvents /\ restarts \in 0..MaxRestarts
    /\ passedBy \in [ProbeChannels -> SUBSET ProbeChannels]

\* The process has started: cooldowns outlive it, the rest does not.
ProbeInit ==
    /\ \E cooling \in SUBSET ProbeChannels :
          chan = [c \in ProbeChannels |->
                     IF c \in cooling
                     THEN [until |-> MaxTime + 1, failed |-> TRUE, counted |-> TRUE] ELSE Well]
    /\ leased = {} /\ lastStartedAt = [c \in ProbeChannels |-> 0] /\ sweep = NoSweep
    /\ time = 1 /\ events = 0 /\ restarts = 0
    /\ passedBy = [c \in ProbeChannels |-> {}]

-----------------------------------------------------------------------------
(* Requests and time                                                        *)

Event == events < MaxEvents /\ events' = events + 1

\* loadCredentialScopedChannelIds
SameCredential(c) == {d \in ProbeChannels : CredentialOf[d] = CredentialOf[c]}

Recovered(row) == [row EXCEPT !.until = 0, !.failed = FALSE]

\* A request gets a slot of a channel, or gives up the last one.
LeaseChanges(c) ==
    /\ Event
    /\ leased' = (leased \ {c}) \cup ({c} \ leased)
    /\ UNCHANGED <<chan, lastStartedAt, sweep, time, restarts, passedBy>>

\* recordFailure: under round robin the first failures start no cooldown, and a pool
\* has its own row booked only when the account is no member of it any more.
RecordFailure(c) ==
    /\ Event
    /\ \E until \in {0, time + CooldownSpan} :
          chan' = [chan EXCEPT ![c] = [until |-> until, failed |-> TRUE, counted |-> TRUE]]
    /\ UNCHANGED <<leased, lastStartedAt, sweep, time, restarts, passedBy>>

\* recordFailure with the reset time of a quota: on every channel of the credential
RecordQuota(c) ==
    /\ Event
    /\ chan' = [d \in ProbeChannels |->
                   IF d \in SameCredential(c)
                   THEN [until |-> time + CooldownSpan, failed |-> TRUE, counted |-> FALSE]
                   ELSE chan[d]]
    /\ UNCHANGED <<leased, lastStartedAt, sweep, time, restarts, passedBy>>

\* recordSuccess
RecordSuccess(c) ==
    /\ Event
    /\ chan' = [chan EXCEPT ![c] = Recovered(@)]
    /\ UNCHANGED <<leased, lastStartedAt, sweep, time, restarts, passedBy>>

Tick ==
    /\ time < MaxTime /\ time' = time + 1
    /\ UNCHANGED <<chan, leased, lastStartedAt, sweep, events, restarts, passedBy>>

\* What the process remembers is gone; the rows stay.
ProcessRestart ==
    /\ restarts < MaxRestarts /\ restarts' = restarts + 1
    /\ leased' = {} /\ sweep' = NoSweep
    /\ lastStartedAt' = [c \in ProbeChannels |-> 0]
    /\ passedBy' = [c \in ProbeChannels |-> {}]
    /\ UNCHANGED <<chan, time, events>>

-----------------------------------------------------------------------------
(* The sweep                                                                *)

\* runChannelRecoveryProbeSweep; a sweep under way is joined instead.
StartSweep ==
    /\ sweep.pc = "none"
    /\ sweep' = [NoSweep EXCEPT !.pc = "loading", !.at = time, !.active = leased]
    /\ UNCHANGED <<chan, leased, lastStartedAt, time, events, restarts, passedBy>>

\* loadCoolingProbeCandidates: a cooldown that the provider has set is left alone.
Cooling ==
    {c \in ProbeChannels : chan[c].until > sweep.at /\ chan[c].counted}

\* mergeRecoveryProbeCandidates, shouldProbeCandidate
Due ==
    {c \in Cooling \cup sweep.active :
        LET window == IF c \in Cooling THEN CoolingRecheck ELSE ActiveRecheck
        IN  lastStartedAt[c] = 0 \/ sweep.at >= lastStartedAt[c] + window}

\* Mutant: by id alone.
PrecedesById(c, d) == c < d

\* compareRecoveryProbeCandidatePriority; a channel never probed comes first.
Precedes(c, d) ==
    \/ lastStartedAt[c] < lastStartedAt[d]
    \/ lastStartedAt[c] = lastStartedAt[d] /\ c < d

Taken == {c \in Due : Cardinality({d \in Due : Precedes(d, c)}) < MaxBatch}

\* Nothing awaits between the rows that are read and the batch that is made of them.
LoadCandidates ==
    /\ sweep.pc = "loading"
    /\ sweep' = IF Due = {} THEN NoSweep
                ELSE [sweep EXCEPT !.pc = "probing", !.batch = Taken, !.waiting = Due \ Taken]
    /\ UNCHANGED <<chan, leased, lastStartedAt, time, events, restarts, passedBy>>

\* runRecoveryProbeCandidate, in the order of the batch
StartProbing(c) ==
    /\ sweep.pc = "probing" /\ c \in sweep.batch
    /\ \A d \in sweep.batch \ {c} : Precedes(c, d)
    /\ lastStartedAt' = [lastStartedAt EXCEPT ![c] = sweep.at]
    /\ sweep' = [sweep EXCEPT !.pc = "asking", !.batch = @ \ {c}, !.probed = {c}]
    /\ passedBy' = [d \in ProbeChannels |->
                       CASE d = c -> {}
                         [] d \in sweep.waiting -> passedBy[d] \cup {c}
                         [] OTHER -> passedBy[d]]
    /\ UNCHANGED <<chan, leased, time, events, restarts>>

Then(pc) == sweep' = [sweep EXCEPT !.pc = pc]

\* The next one, or the end of the sweep.
Proceed == sweep' = IF sweep.batch = {} THEN NoSweep
                     ELSE [sweep EXCEPT !.pc = "probing", !.probed = {}, !.resetting = {}]

\* Not supported, inconclusive, timed out or thrown: nothing is booked.
ProbeAnswers(supported) ==
    /\ sweep.pc = "asking"
    /\ IF supported THEN Then("booking") ELSE Proceed
    /\ UNCHANGED <<chan, leased, lastStartedAt, time, events, restarts, passedBy>>

\* recordProbeSuccess reads the row: a pool is always reset, another channel if it has
\* failed, then with all of its credential; if it has not, the others are looked at.
ReadProbed ==
    /\ sweep.pc = "booking"
    /\ \E c \in sweep.probed :
        sweep' = CASE c \in Pooled ->
                        [sweep EXCEPT !.pc = "clearing", !.resetting = {c}]
                   [] c \notin Pooled /\ chan[c].failed ->
                        [sweep EXCEPT !.pc = "clearing", !.resetting = SameCredential(c)]
                   [] OTHER -> [sweep EXCEPT !.pc = "siblings"]
    /\ UNCHANGED <<chan, leased, lastStartedAt, time, events, restarts, passedBy>>

ReadSiblings ==
    /\ sweep.pc = "siblings"
    /\ \E c \in sweep.probed :
        sweep' = [sweep EXCEPT !.pc = "clearing",
                               !.resetting = {d \in SameCredential(c) \ {c} : chan[d].failed}]
    /\ UNCHANGED <<chan, leased, lastStartedAt, time, events, restarts, passedBy>>

ClearProbed ==
    /\ sweep.pc = "clearing"
    /\ chan' = [c \in ProbeChannels |->
                   IF c \in sweep.resetting THEN Recovered(chan[c]) ELSE chan[c]]
    /\ Proceed
    /\ UNCHANGED <<leased, lastStartedAt, time, events, restarts, passedBy>>

RecoveryNext ==
    \/ \E c \in ProbeChannels :
        \/ LeaseChanges(c) \/ RecordFailure(c) \/ RecordQuota(c) \/ RecordSuccess(c)
        \/ StartProbing(c)
    \/ StartSweep \/ LoadCandidates
    \/ \E supported \in BOOLEAN : ProbeAnswers(supported)
    \/ ReadProbed \/ ReadSiblings \/ ClearProbed
    \/ Tick \/ ProcessRestart

RecoverySpec == ProbeInit /\ [][RecoveryNext]_probeVars

-----------------------------------------------------------------------------
\* Properties

\* A channel that was due and left out of a batch is probed before any channel taken
\* in its place is taken again, however short the window of the others is, and
\* whatever becomes of its cooldown and its leases meanwhile: so with n channels it
\* is left out of at most (n - 1) / MaxBatch sweeps.
NoChannelStarves ==
    \A c \in sweep.waiting : passedBy[c] \cap sweep.batch = {}
=============================================================================
