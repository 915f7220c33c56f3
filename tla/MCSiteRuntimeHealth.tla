------------------------ MODULE MCSiteRuntimeHealth ------------------------
EXTENDS SiteRuntimeHealth

\* Each level lasts longer than the one before it.
MCBreakerLength == [level \in 1..MaxLevel |-> level]

\* Until it is read the book is what the row holds.
Book == INSTANCE HealthBook WITH
    book <- IF load = "done" \/ degraded THEN health ELSE saved,
    time <- now, life <- left.crashes

\* Loading on first use, debounced saving and the shared persist are invisible:
\* the runtime health behaves as a book with snapshots.
ImplementsBook == Book!Spec
=============================================================================
