----------------------------- MODULE HealthBook -----------------------------
(***************************************************************************)
(* What the runtime health promises: one book that outcomes extend and the *)
(* operator erases from, of which snapshots are saved, and which a restart *)
(* takes back to the last one saved. That the book is read back late, on   *)
(* first use, does not show - unless reading it fails: then nothing is     *)
(* promised until the process restarts.                                    *)
(***************************************************************************)
EXTENDS RuntimeHealth

VARIABLES book, draft, saved, degraded, time,
    life        \* which process it is

bookVars == <<book, draft, saved, degraded, time, life>>

Init ==
    /\ book = EmptyBook /\ draft = EmptyBook /\ saved = EmptyBook
    /\ degraded = FALSE /\ time = 1 /\ life \in Nat

Outcome ==
    /\ \E site \in Sites, model \in Models \cup {NoModel}, kind \in Kinds :
            book' = Booked(book, site, model, kind, time)
    /\ UNCHANGED <<draft, saved, degraded, time, life>>

\* An erasure that changed something may be followed by a snapshot at once.
Erase ==
    /\ \E site \in Sites, model \in Models \cup {NoModel} :
            book' = Erased(book, Touched(site, model))
    /\ draft' \in {draft, book'}
    /\ UNCHANGED <<saved, degraded, time, life>>

Snapshot == draft' = book /\ UNCHANGED <<book, saved, degraded, time, life>>

Save == saved' = draft /\ UNCHANGED <<book, draft, degraded, time, life>>

\* A save under way at the crash lands or is lost.
Restart ==
    /\ life' # life
    /\ saved' \in {saved, draft} /\ book' = saved' /\ degraded' = FALSE
    /\ UNCHANGED <<draft, time>>

Later == time' > time /\ UNCHANGED <<book, draft, saved, degraded, life>>

Degraded == degraded' /\ saved' \in {saved, draft} /\ UNCHANGED life

Next == Outcome \/ Erase \/ Snapshot \/ Save \/ Restart \/ Later \/ Degraded

Spec == Init /\ [][Next]_bookVars
=============================================================================
