---------------------------- MODULE SnapshotCache ----------------------------
(***************************************************************************)
(* The snapshot caches of the admin API: entries that are served while     *)
(* fresh, served once more while stale with a load behind, loaded by one   *)
(* reader for all otherwise; a bound with eviction of the entry used least *)
(* recently; a copy in the database; clearing by namespace. A load is a    *)
(* promise: what marks an entry is a load, not an entry of a load.         *)
(***************************************************************************)
EXTENDS Naturals, FiniteSets

CONSTANTS
    SnapKeys, SnapReaders,
    Loads,          \* loads, each used once: a bound
    NoLoad,
    MaxEntries,     \* SNAPSHOT_CACHE_MAX_ENTRIES
    TtlMs, StaleMs, \* how long a snapshot is fresh, and how long it may be served
    Persisted,      \* is there a copy in the database
    MaxMs, MaxClears

ASSUME SnapshotAssumption ==
    /\ NoLoad \notin Loads /\ Persisted \in BOOLEAN
    /\ MaxEntries \in Nat \ {0} /\ TtlMs \in Nat \ {0} /\ StaleMs \in Nat /\ StaleMs >= TtlMs
    /\ MaxMs \in Nat \ {0} /\ MaxClears \in Nat

VARIABLES
    entry,      \* snapshotCache: when the payload was stored (0: none), and the mark
    order,      \* the keys of the map by their last use: pairs, the one used less recently first
    loads,      \* what each load is doing, and for which key
    copy,       \* when the persisted copy of each key was generated; 0: none
    asking,     \* what each reader is doing
    ms,
    clears      \* bound

snapVars == <<entry, order, loads, copy, asking, ms, clears>>

Unmarked(generated) == [generated |-> generated, inFlight |-> NoLoad]
Nothing == Unmarked(0)
NotAsking == [pc |-> "idle", key |-> CHOOSE k \in SnapKeys : TRUE, forced |-> FALSE,
              at |-> 0, load |-> NoLoad]
Unused == [pc |-> "unused", key |-> CHOOSE k \in SnapKeys : TRUE, generated |-> 0]

\* A key stands beside itself, too.
Cached(k) == <<k, k>> \in order
CachedKeys == {k \in SnapKeys : Cached(k)}

SnapTypeOK ==
    /\ entry \in [SnapKeys -> [generated : 0..MaxMs, inFlight : Loads \cup {NoLoad}]]
    /\ Cardinality(CachedKeys) <= MaxEntries
    /\ order \subseteq CachedKeys \X CachedKeys
    /\ \A j, k \in CachedKeys : <<j, k>> \in order /\ <<k, j>> \in order <=> j = k
    /\ \A j, k \in CachedKeys : <<j, k>> \in order \/ <<k, j>> \in order
    /\ \A i, j, k \in CachedKeys : <<i, j>> \in order /\ <<j, k>> \in order => <<i, k>> \in order
    /\ \A k \in SnapKeys : ~Cached(k) => entry[k] = Nothing
    /\ \A l \in Loads : loads[l].pc \in {"unused", "loading", "writing", "over"}
    /\ copy \in [SnapKeys -> 0..MaxMs]
    /\ \A r \in SnapReaders : asking[r].pc \in {"idle", "row", "joined"}
    /\ ms \in 1..MaxMs /\ clears \in 0..MaxClears

SnapInit ==
    /\ entry = [k \in SnapKeys |-> Nothing] /\ order = {}
    /\ loads = [l \in Loads |-> Unused]
    /\ copy = [k \in SnapKeys |-> 0]
    /\ asking = [r \in SnapReaders |-> NotAsking]
    /\ ms = 1 /\ clears = 0

-----------------------------------------------------------------------------
\* getSnapshotCacheEntry and setSnapshotCacheEntry: the key becomes the one used
\* last; putting in one too many drops the one used least recently, with its mark.
Used(k) == {pair \in order : k \notin {pair[1], pair[2]}} \cup ((CachedKeys \cup {k}) \X {k})

\* Mutant: nothing is ever dropped.
PutWithoutEviction(k, e) ==
    /\ order' = Used(k)
    /\ entry' = [entry EXCEPT ![k] = e]

Put(k, e) ==
    LET keys == CachedKeys \cup {k}
        oldest == {x \in keys : \A y \in keys : <<x, y>> \in Used(k)}
        kept == IF Cardinality(keys) > MaxEntries THEN keys \ oldest ELSE keys
    IN  /\ order' = Used(k) \cap (kept \X kept)
        /\ entry' = [x \in SnapKeys |-> IF x \notin kept THEN Nothing
                                         ELSE IF x = k THEN e ELSE entry[x]]

StartLoad(k, l) ==
    /\ loads[l].pc = "unused"
    /\ l = CHOOSE x \in Loads : loads[x].pc = "unused"
    /\ loads' = [loads EXCEPT ![l] = [pc |-> "loading", key |-> k, generated |-> 0]]

-----------------------------------------------------------------------------
(* readSnapshotCache, from the entry on: the time is that of the request    *)

Fresh(e, time) == e.generated # 0 /\ time < e.generated + TtlMs
Stale(e, time) == e.generated # 0 /\ ~Fresh(e, time) /\ time < e.generated + StaleMs

Ended(r) == asking' = [asking EXCEPT ![r] = NotAsking]
Joined(r, k, forced, time, l) ==
    asking' = [asking EXCEPT ![r] =
                  [pc |-> "joined", key |-> k, forced |-> forced, at |-> time, load |-> l]]

ServeFresh(r, k, forced, time, e) ==
    /\ ~forced /\ Fresh(e, time)
    /\ Ended(r)
    /\ Put(k, e)
    /\ UNCHANGED loads

ServeStale(r, k, forced, time, e) ==
    /\ ~forced /\ Stale(e, time)
    /\ Ended(r)
    /\ \/ e.inFlight # NoLoad /\ Put(k, e) /\ UNCHANGED loads
       \/ /\ e.inFlight = NoLoad
          /\ \E l \in Loads : StartLoad(k, l) /\ Put(k, [e EXCEPT !.inFlight = l])

JoinOrLoad(r, k, forced, time, e) ==
    /\ forced \/ ~(Fresh(e, time) \/ Stale(e, time))
    /\ \/ /\ e.inFlight # NoLoad
          /\ Joined(r, k, forced, time, e.inFlight)
          /\ Put(k, e) /\ UNCHANGED loads
       \/ /\ e.inFlight = NoLoad
          /\ \E l \in Loads :
                /\ StartLoad(k, l)
                /\ Put(k, [e EXCEPT !.inFlight = l])
                /\ Joined(r, k, forced, time, l)

Decide(r, k, forced, time, e) ==
    \/ ServeFresh(r, k, forced, time, e)
    \/ ServeStale(r, k, forced, time, e)
    \/ JoinOrLoad(r, k, forced, time, e)

Ask(r, k, forced) ==
    /\ asking[r].pc = "idle"
    /\ \/ /\ ~Cached(k) /\ ~forced /\ Persisted
          /\ asking' = [asking EXCEPT ![r] = [pc |-> "row", key |-> k, forced |-> FALSE,
                                              at |-> ms, load |-> NoLoad]]
          /\ UNCHANGED <<entry, order, loads>>
       \/ /\ Cached(k) \/ forced \/ ~Persisted
          /\ Decide(r, k, forced, ms, entry[k])
    /\ UNCHANGED <<copy, ms, clears>>

\* The copy was read, or could not be. What came into the cache meanwhile wins.
ReadCopy(r) ==
    /\ asking[r].pc = "row"
    /\ LET k == asking[r].key
       IN  \E found \in {copy[k], 0} :
                Decide(r, k, FALSE, asking[r].at, IF Cached(k) THEN entry[k] ELSE Unmarked(found))
    /\ UNCHANGED <<copy, ms, clears>>

-----------------------------------------------------------------------------
(* loadAndStoreSnapshot, and the finally its callers put on it              *)

\* Whoever awaits the load goes on, with its payload or its error.
Release(l) ==
    asking' = [r \in SnapReaders |->
                  IF asking[r].pc = "joined" /\ asking[r].load = l THEN NotAsking ELSE asking[r]]

\* Mutant: the mark goes only when the load succeeded.
UnmarkOnSuccess(l) ==
    entry' = IF loads[l].pc = "loading" THEN entry ELSE [entry EXCEPT ![loads[l].key].inFlight = NoLoad]

\* The entry that is under the key by now loses its mark, whoever set it.
Unmark(l) == entry' = [entry EXCEPT ![loads[l].key].inFlight = NoLoad]

\* The payload is put in as a new entry, without a mark, before it is persisted.
LoaderReturns(l) ==
    /\ loads[l].pc = "loading"
    /\ Put(loads[l].key, Unmarked(ms))
    /\ loads' = [loads EXCEPT ![l].pc = IF Persisted THEN "writing" ELSE "over",
                              ![l].generated = IF Persisted THEN ms ELSE 0]
    /\ IF Persisted THEN UNCHANGED asking ELSE Release(l)
    /\ UNCHANGED <<copy, ms, clears>>

CopyWritten(l) ==
    /\ loads[l].pc = "writing"
    /\ copy' \in {copy, [copy EXCEPT ![loads[l].key] = loads[l].generated]}
    /\ loads' = [loads EXCEPT ![l] = [Unused EXCEPT !.pc = "over"]]
    /\ Unmark(l) /\ Release(l)
    /\ UNCHANGED <<order, ms, clears>>

LoaderThrows(l) ==
    /\ loads[l].pc = "loading"
    /\ loads' = [loads EXCEPT ![l] = [Unused EXCEPT !.pc = "over"]]
    /\ Unmark(l) /\ Release(l)
    /\ UNCHANGED <<order, copy, ms, clears>>

\* clearSnapshotCache: the loads under way go on and will store what they read.
ClearSnapshotCache ==
    /\ clears < MaxClears
    /\ clears' = clears + 1
    /\ \E ks \in SUBSET SnapKeys \ {{}} :
            /\ order' = {pair \in order : pair[1] \notin ks /\ pair[2] \notin ks}
            /\ entry' = [k \in SnapKeys |-> IF k \in ks THEN Nothing ELSE entry[k]]
    /\ UNCHANGED <<loads, copy, asking, ms>>

SnapTick ==
    /\ ms < MaxMs /\ ms' = ms + 1
    /\ UNCHANGED <<entry, order, loads, copy, asking, clears>>

SnapNext ==
    \/ \E r \in SnapReaders : ReadCopy(r) \/ \E k \in SnapKeys, forced \in BOOLEAN : Ask(r, k, forced)
    \/ \E l \in Loads : LoaderReturns(l) \/ CopyWritten(l) \/ LoaderThrows(l)
    \/ ClearSnapshotCache \/ SnapTick

SnapSpec == SnapInit /\ [][SnapNext]_snapVars

-----------------------------------------------------------------------------
\* Properties

Running(l) == loads[l].pc \in {"loading", "writing"}

\* Nobody is made to join a load that is over, nor one of another key: a load
\* that failed is not handed to later readers, however entries were cleared,
\* evicted, overwritten and marked again while loads overlapped.
JoinsRunningLoads ==
    /\ \A k \in SnapKeys : entry[k].inFlight # NoLoad =>
            Running(entry[k].inFlight) /\ loads[entry[k].inFlight].key = k
    /\ \A r \in SnapReaders : asking[r].pc = "joined" =>
            Running(asking[r].load) /\ loads[asking[r].load].key = asking[r].key
=============================================================================
