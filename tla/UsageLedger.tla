------------------------------ MODULE UsageLedger ------------------------------
(***************************************************************************)
(* What the usage tables promise their readers: a ledger in which every    *)
(* log that exists is posted once, in order and together with all that     *)
(* precede it, and from which entries disappear only as whole days, the    *)
(* latest ones, to be posted again.  Nothing is said of watermarks,        *)
(* leases, processes or passes.                                            *)
(***************************************************************************)
EXTENDS Integers

CONSTANTS LogIds, DayOf

VARIABLES
    existing,   \* logs that can be read
    posted      \* how often each log is in the ledger

ledgerVars == <<existing, posted>>

LedgerInit ==
    /\ existing = {}
    /\ posted = [i \in LogIds |-> 0]

Arrive(i) ==
    /\ existing' = existing \cup {i}
    /\ UNCHANGED posted

\* Removed logs stay in the ledger.
Remove(ids) ==
    /\ existing' = existing \ ids
    /\ UNCHANGED posted

\* A run of logs that continues the ledger is added to it.
Post(ids) ==
    /\ \A i \in ids : posted[i] = 0
    /\ \A i \in ids : \A j \in existing : j < i => j \in ids \/ posted[j] = 1
    /\ posted' = [i \in LogIds |-> IF i \in ids THEN 1 ELSE posted[i]]
    /\ UNCHANGED existing

Retract(day) ==
    /\ posted' = [i \in LogIds |-> IF DayOf[i] >= day THEN 0 ELSE posted[i]]
    /\ UNCHANGED existing

LedgerNext ==
    \/ \E i \in LogIds : Arrive(i) \/ Retract(DayOf[i])
    \/ \E ids \in SUBSET LogIds : Remove(ids) \/ Post(ids)

LedgerSpec == LedgerInit /\ [][LedgerNext]_ledgerVars
=============================================================================
