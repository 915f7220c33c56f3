--------------------------- MODULE MCUsageProjection ---------------------------
(***************************************************************************)
(* UsageProjection for TLC: logs, two per day, and its refinement of       *)
(* UsageLedger.                                                            *)
(***************************************************************************)
EXTENDS UsageProjection

\* Every insert draws its id in the order of the requests.
InIdOrder == [i \in LogIds |-> i]

\* The logs of a day lie next to each other: 1, 2 on the first day, 3, 4 on the
\* second, 5 on the third.
TwoPerDay == [i \in LogIds |-> (i + 1) \div 2]

\* The projection keeps the promise of UsageLedger: the logs that exist are
\* the rows of proxy_logs and the ledger is the usage tables.
Ledger == INSTANCE UsageLedger WITH existing <- Retained, posted <- counted

ImplementsLedger == Ledger!LedgerSpec
=============================================================================
