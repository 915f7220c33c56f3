--------------------------- MODULE RuntimeHealth ---------------------------
(***************************************************************************)
(* What the gateway remembers of a site, and of a model on a site, after   *)
(* an outcome: the run of transient failures, the level of the breaker and *)
(* until when it is open. Functions of one entry, without state. Penalty,  *)
(* latency and the recent success rate are left out: they only weigh the   *)
(* choice between channels.                                                *)
(***************************************************************************)
EXTENDS Naturals, FiniteSets

CONSTANTS
    Sites, Models,
    NoModel,        \* a request whose model name normalises to nothing
    NoEntry,        \* the map has no entry under the key
    Threshold,      \* SITE_RUNTIME_BREAKER_STREAK_THRESHOLD
    StreakWindow,   \* SITE_TRANSIENT_STREAK_WINDOW_MS
    MaxLevel,       \* the highest level of SITE_RUNTIME_BREAKER_LEVELS_MS
    BreakerLength   \* how long a breaker of each level stays open

ASSUME HealthAssumption ==
    /\ Threshold \in Nat \ {0} /\ StreakWindow \in Nat /\ MaxLevel \in Nat \ {0}
    /\ BreakerLength \in [1..MaxLevel -> Nat \ {0}]
    /\ NoModel \notin Models

\* Both maps in one: an entry per site, and one per site and model.
Keys == Sites \cup (Sites \X Models)

Kinds == {"transient", "other", "success"}

\* Times are ticks from 1 on; 0 stands for null. misses is a history field:
\* the transient failures since the last success, which the code does not keep.
Entry == [streak : Nat, since : Nat, level : 0..MaxLevel, until : Nat, misses : Nat]

Fresh == [streak |-> 0, since |-> 0, level |-> 0, until |-> 0, misses |-> 0]

Open(e, time) == e # NoEntry /\ e.until > time

NextLevel(e) == IF e.level < MaxLevel THEN e.level + 1 ELSE MaxLevel

\* Mutant: an opening breaker leaves the run of failures as it is.
AfterTransientKeepingStreak(e, time) ==
    LET n == IF e.since # 0 /\ time - e.since <= StreakWindow THEN e.streak + 1 ELSE 1
        seen == [e EXCEPT !.streak = n, !.since = time, !.misses = @ + 1]
    IN  IF n < Threshold THEN seen
        ELSE [seen EXCEPT !.level = NextLevel(e), !.until = time + BreakerLength[NextLevel(e)]]

AfterTransient(e, time) ==
    LET n == IF e.since # 0 /\ time - e.since <= StreakWindow THEN e.streak + 1 ELSE 1
        seen == [e EXCEPT !.streak = n, !.since = time, !.misses = @ + 1]
    IN  IF n < Threshold THEN seen
        ELSE [seen EXCEPT !.streak = 0, !.level = NextLevel(e),
                          !.until = time + BreakerLength[NextLevel(e)]]

After(kind, e, time) ==
    CASE kind = "transient" -> AfterTransient(e, time)
      [] kind = "other"     -> [e EXCEPT !.streak = 0, !.since = 0]
      [] kind = "success"   -> Fresh

\* The entries one outcome, or one channel that is cleared, is about.
Touched(site, model) == {site} \cup (IF model = NoModel THEN {} ELSE {<<site, model>>})

Booked(book, site, model, kind, time) ==
    [k \in Keys |-> IF k \notin Touched(site, model) THEN book[k]
                    ELSE After(kind, IF book[k] = NoEntry THEN Fresh ELSE book[k], time)]

Erased(book, keys) == [k \in Keys |-> IF k \in keys THEN NoEntry ELSE book[k]]

EmptyBook == [k \in Keys |-> NoEntry]
=============================================================================
