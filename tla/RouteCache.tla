----------------------------- MODULE RouteCache -----------------------------
(***************************************************************************)
(* The two caches of the token router: the enabled routes with the sources *)
(* of their groups, and the match (the channels) of each route. A reader   *)
(* is a request that looks for the channels of a route; it awaits the      *)
(* database between its steps. Bookkeeping patches one cached match, the   *)
(* operator's writes are followed by an invalidation.                      *)
(***************************************************************************)
EXTENDS Naturals, FiniteSets

CONSTANTS
    Readers,
    Patterns,       \* routes with a model pattern and channels of their own
    Groups,         \* explicit groups: routes made of other routes
    Channels,
    RouteOf,        \* the pattern route a channel belongs to
    Units,          \* channels that stand for a pool of OAuth accounts
    Ttl,            \* tokenRouterCacheTtlMs
    LoadLimit,      \* the ticks a reader may take: how slow the database is
    MaxNow, MaxWrites, MaxBookings

ASSUME RouteCacheAssumption ==
    /\ RouteOf \in [Channels -> Patterns] /\ Units \subseteq Channels
    /\ Patterns \cap Groups = {}
    /\ Ttl \in Nat \ {0} /\ LoadLimit \in Nat /\ MaxNow \in Nat \ {0}
    /\ MaxWrites \in Nat /\ MaxBookings \in Nat

Routes == Patterns \cup Groups

VARIABLES
    db,         \* the rows: routes on, sources of groups, channels here, channels cooling
    routeCache, \* routeCacheSnapshot; at = 0 is the empty one
    matches,    \* routeMatchCache; at = 0 stands for no entry
    reader,     \* what each request is doing, and what it has read
    owed,       \* the operator wrote and has not invalidated yet
    clock,
    done,       \* writes and bookings so far: bounds
    lastTrue,   \* history: when each fact of the database last held
    clean       \* history: invalidated with no load under way, and not written since

cacheVars == <<db, routeCache, matches, reader, owed, clock, done, lastTrue, clean>>

Facts == ({"on"} \X Routes) \cup ({"source"} \X Groups \X Patterns)
         \cup ({"here", "ready"} \X Channels)

Holds(rows, fact) ==
    CASE fact[1] = "on"     -> fact[2] \in rows.on
      [] fact[1] = "source" -> fact[3] \in rows.sources[fact[2]]
      [] fact[1] = "here"   -> fact[2] \in rows.here
      [] fact[1] = "ready"  -> fact[2] \notin rows.cooling

NoMatch == [at |-> 0, chans |-> {}, cooling |-> {}]
NoRoutes == [at |-> 0, on |-> {}, sources |-> [g \in Groups |-> {}]]
Idle == [pc |-> "idle", for |-> "find", route |-> CHOOSE r \in Routes : TRUE, start |-> 0,
         at |-> 0, via |-> {}, on |-> {}, chans |-> {}, cooling |-> {}]

CacheTypeOK ==
    /\ db \in [on : SUBSET Routes, sources : [Groups -> SUBSET Patterns],
               here : SUBSET Channels, cooling : SUBSET Channels]
    /\ routeCache \in [at : 0..MaxNow, on : SUBSET Routes, sources : [Groups -> SUBSET Patterns]]
    /\ matches \in [Routes -> [at : 0..MaxNow, chans : SUBSET Channels, cooling : SUBSET Channels]]
    /\ \A x \in Readers :
        /\ reader[x].pc \in {"idle", "routes", "sources", "found", "channels", "store", "served"}
        /\ reader[x].for \in {"find", "match"}
        /\ reader[x].pc # "idle" => reader[x].route \in Routes
        /\ reader[x].start <= clock /\ reader[x].at <= clock
    /\ owed \in BOOLEAN /\ clean \in BOOLEAN /\ clock \in 1..MaxNow
    /\ lastTrue \in [Facts -> 0..clock]

CacheInit ==
    /\ db = [on |-> Routes, sources |-> [g \in Groups |-> Patterns],
             here |-> Channels, cooling |-> {}]
    /\ routeCache = NoRoutes
    /\ matches = [r \in Routes |-> NoMatch]
    /\ reader = [x \in Readers |-> Idle]
    /\ owed = FALSE /\ clean = FALSE /\ clock = 1
    /\ done = [writes |-> 0, bookings |-> 0]
    /\ lastTrue = [f \in Facts |-> 1]

\* What becomes true is noted; what becomes false held until now.
Note(rows) == [f \in Facts |-> IF Holds(rows, f) THEN clock ELSE lastTrue[f]]

\* Mutant: an entry is used once more when its time is over.
IsCacheFreshInclusive(at) == at # 0 /\ clock - at <= Ttl

IsCacheFresh(at) == at # 0 /\ clock - at < Ttl

-----------------------------------------------------------------------------
(* loadEnabledRoutes: the time is taken first, then routes and sources are  *)
(* read by two statements, then the snapshot replaces the cached one.       *)

ReadRoutes(x) ==
    /\ reader[x].pc = "routes"
    /\ reader' = [reader EXCEPT ![x].pc = "sources", ![x].on = db.on]
    /\ UNCHANGED <<db, routeCache, matches, owed, clock, done, lastTrue, clean>>

SourcesIn(snapshot, route) == IF route \in Groups THEN snapshot.sources[route] ELSE {route}

ReadSources(x) ==
    /\ reader[x].pc = "sources"
    /\ LET snapshot == [at |-> reader[x].at, on |-> reader[x].on,
                        sources |-> [g \in Groups |-> IF g \in reader[x].on THEN db.sources[g] ELSE {}]]
       IN  /\ routeCache' = snapshot
           /\ reader' = [reader EXCEPT ![x] =
                CASE @.for = "match"       -> [@ EXCEPT !.pc = "channels"]
                  [] @.for = "find" /\ @.route \in snapshot.on ->
                        [@ EXCEPT !.pc = "found", !.via = SourcesIn(snapshot, reader[x].route)]
                  [] OTHER                 -> Idle]
    /\ UNCHANGED <<db, matches, owed, clock, done, lastTrue, clean>>

-----------------------------------------------------------------------------
(* findRoute and findRouteById: the matched route, with the sources the     *)
(* snapshot gives it, is handed to loadRouteMatch.                          *)

Find(x, route) ==
    /\ reader[x].pc = "idle"
    /\ \/ /\ IsCacheFresh(routeCache.at) /\ route \in routeCache.on
          /\ reader' = [reader EXCEPT ![x] = [Idle EXCEPT
                !.pc = "found", !.route = route, !.start = clock,
                !.via = SourcesIn(routeCache, route)]]
       \/ /\ ~IsCacheFresh(routeCache.at)
          /\ reader' = [reader EXCEPT ![x] = [Idle EXCEPT
                !.pc = "routes", !.route = route, !.start = clock, !.at = clock]]
    /\ UNCHANGED <<db, routeCache, matches, owed, clock, done, lastTrue, clean>>

(* loadRouteMatch *)

Served(x, match) ==
    [Idle EXCEPT !.pc = "served", !.route = reader[x].route, !.at = clock,
                 !.chans = match.chans, !.cooling = match.cooling]

LookUp(x) ==
    /\ reader[x].pc = "found"
    /\ LET cached == matches[reader[x].route]
       IN  \/ /\ IsCacheFresh(cached.at)
              /\ reader' = [reader EXCEPT ![x] = Served(x, cached)]
           \/ /\ ~IsCacheFresh(cached.at) /\ IsCacheFresh(routeCache.at)
              /\ reader' = [reader EXCEPT ![x].pc = "channels", ![x].at = clock,
                                          ![x].on = routeCache.on]
           \/ /\ ~IsCacheFresh(cached.at) /\ ~IsCacheFresh(routeCache.at)
              /\ reader' = [reader EXCEPT ![x].pc = "routes", ![x].at = clock, ![x].for = "match"]
    /\ UNCHANGED <<db, routeCache, matches, owed, clock, done, lastTrue, clean>>

ChannelsOf(sources, on, here) == {c \in here : RouteOf[c] \in sources \cap on}

ReadChannels(x) ==
    /\ reader[x].pc = "channels"
    /\ reader' = [reader EXCEPT ![x].pc = "store", ![x].via = {}, ![x].on = {},
                    ![x].chans = ChannelsOf(reader[x].via, reader[x].on, db.here),
                    ![x].cooling = db.cooling]
    /\ UNCHANGED <<db, routeCache, matches, owed, clock, done, lastTrue, clean>>

\* The pools of the channels have been read; the match is stamped with the
\* time its load began.
StoreMatch(x) ==
    /\ reader[x].pc = "store"
    /\ matches' = [matches EXCEPT ![reader[x].route] =
            [at |-> reader[x].at, chans |-> reader[x].chans, cooling |-> reader[x].cooling]]
    /\ reader' = [reader EXCEPT ![x] = Served(x, reader[x])]
    /\ UNCHANGED <<db, routeCache, owed, clock, done, lastTrue, clean>>

\* The router has chosen among the channels that are not cooling.
Return(x) ==
    /\ reader[x].pc = "served"
    /\ reader' = [reader EXCEPT ![x] = Idle]
    /\ UNCHANGED <<db, routeCache, matches, owed, clock, done, lastTrue, clean>>

-----------------------------------------------------------------------------
(* Bookkeeping: recordFailure sets a cooldown, a success ends it. The row   *)
(* is written and one cached match is patched, the first that holds the     *)
(* channel (here: any one). For a pool the match of its own route is        *)
(* dropped instead, by invalidateRouteScopedCache.                          *)

PatchCachedChannel(c, cooling) ==
    LET having == {r \in Routes : matches[r].at # 0 /\ c \in matches[r].chans}
    IN  IF having = {} THEN UNCHANGED matches
        ELSE \E r \in having : matches' = [matches EXCEPT
                ![r].cooling = IF cooling THEN @ \cup {c} ELSE @ \ {c}]

InvalidateRouteScopedCache(r) == matches' = [matches EXCEPT ![r] = NoMatch]

Book(c, cooling) ==
    /\ done.bookings < MaxBookings
    /\ done' = [done EXCEPT !.bookings = @ + 1]
    /\ db' = [db EXCEPT !.cooling = IF cooling THEN @ \cup {c} ELSE @ \ {c}]
    /\ IF c \in Units THEN InvalidateRouteScopedCache(RouteOf[c]) ELSE PatchCachedChannel(c, cooling)
    /\ lastTrue' = Note(db')
    /\ UNCHANGED <<routeCache, reader, owed, clock, clean>>

-----------------------------------------------------------------------------
(* The routes API and the rebuild of routes: rows are written, and once all *)
(* of them are the caches are invalidated.                                  *)

WriteRows(rows) ==
    /\ done.writes < MaxWrites
    /\ done' = [done EXCEPT !.writes = @ + 1]
    /\ db' = rows
    /\ owed' = TRUE /\ clean' = FALSE
    /\ lastTrue' = Note(rows)
    /\ UNCHANGED <<routeCache, matches, reader, clock>>

Toggled(x, set) == IF x \in set THEN set \ {x} ELSE set \cup {x}

WriteRoute == \E r \in Routes : WriteRows([db EXCEPT !.on = Toggled(r, @)])
WriteSource == \E g \in Groups, r \in Patterns : WriteRows([db EXCEPT !.sources[g] = Toggled(r, @)])
WriteChannel == \E c \in Channels : WriteRows([db EXCEPT !.here = Toggled(c, @)])

Loading(x) == reader[x].pc \notin {"idle", "served"}

\* Mutant: the enabled routes are forgotten by the invalidation.
InvalidateMatchesOnly ==
    /\ owed
    /\ matches' = [r \in Routes |-> NoMatch]
    /\ owed' = FALSE
    /\ clean' = \A x \in Readers : ~Loading(x)
    /\ UNCHANGED <<db, routeCache, reader, clock, done, lastTrue>>

\* A load under way is not stopped and stores what it read.
InvalidateTokenRouterCache ==
    /\ owed
    /\ routeCache' = NoRoutes
    /\ matches' = [r \in Routes |-> NoMatch]
    /\ owed' = FALSE
    /\ clean' = \A x \in Readers : ~Loading(x)
    /\ UNCHANGED <<db, reader, clock, done, lastTrue>>

Advance ==
    /\ clock < MaxNow
    /\ \A x \in Readers : Loading(x) => clock + 1 - reader[x].start <= LoadLimit
    /\ clock' = clock + 1
    /\ lastTrue' = [f \in Facts |-> IF Holds(db, f) THEN clock' ELSE lastTrue[f]]
    /\ UNCHANGED <<db, routeCache, matches, reader, owed, done, clean>>

\* Only promise callbacks run between the routes and the look-up of the match,
\* and between the match and the choice from it.
Settled == \A x \in Readers : reader[x].pc \notin {"found", "served"}

CacheNext ==
    \/ \E x \in Readers : LookUp(x) \/ Return(x)
    \/ /\ Settled
       /\ \/ \E x \in Readers :
                \/ \E r \in Routes : Find(x, r)
                \/ ReadRoutes(x) \/ ReadSources(x) \/ ReadChannels(x) \/ StoreMatch(x)
          \/ \E c \in Channels : Book(c, TRUE) \/ Book(c, FALSE)
          \/ WriteRoute \/ WriteSource \/ WriteChannel
          \/ InvalidateTokenRouterCache \/ Advance

CacheSpec == CacheInit /\ [][CacheNext]_cacheVars

-----------------------------------------------------------------------------
\* Properties

Later(a, b) == IF a < b THEN b ELSE a

\* How long ago a fact that is used may have ceased to hold.
ChannelAge == Later(Ttl - 1, LoadLimit)
RouteAge == 2 * (Ttl - 1) + LoadLimit

\* The channels a request is offered were there and not cooling within one
\* lifetime of the cache, and their routes on, and sources of the group, within
\* two (a match is loaded from cached routes), whatever loads, patches and
\* invalidations overlapped: a load that stores after an invalidation is stamped
\* with its beginning (loadEnabledRoutes, loadRouteMatch, patchCachedChannel).
StaleWithinLifetime ==
    \A x \in Readers : reader[x].pc = "served" =>
        \A c \in reader[x].chans \ reader[x].cooling :
            /\ lastTrue[<<"here", c>>] + ChannelAge >= reader[x].at
            /\ lastTrue[<<"ready", c>>] + ChannelAge >= reader[x].at
            /\ lastTrue[<<"on", RouteOf[c]>>] + RouteAge >= reader[x].at
            /\ reader[x].route \in Groups =>
                lastTrue[<<"source", reader[x].route, RouteOf[c]>>] + RouteAge >= reader[x].at

\* When the operator's invalidation met no load under way, every match cached
\* since is that of the rows, until they change again: invalidateTokenRouterCache
\* must empty both caches, as a match is built from cached routes.
InvalidationTakes ==
    clean => \A r \in Routes : matches[r].at # 0 =>
        matches[r].chans = ChannelsOf(SourcesIn(db, r), db.on, db.here)
=============================================================================
