----------------------------- MODULE RouteProofs ------------------------------
(*****************************************************************************)
(* For any routes, groups, channels, lifetimes and load times: what a request*)
(* is offered from the caches of the router was true a bounded time ago, and *)
(* an invalidation that meets no load takes.  For any accounts, models,      *)
(* passes and faults: the routes are those of what the accounts offer, as    *)
(* soon as the last rebuild had the tables for itself.                       *)
(*****************************************************************************)
EXTENDS RouteCache, ModelRoutes, Integers, WellFoundedInduction, TLAPS

(***************************************************************************)
(* The caches of the router                                                *)
(***************************************************************************)

RowsOfRoutes == [on : SUBSET Routes, sources : [Groups -> SUBSET Patterns],
                 here : SUBSET Channels, cooling : SUBSET Channels]
RoutesRow == [at : Nat, on : SUBSET Routes, sources : [Groups -> SUBSET Patterns]]
MatchRow == [at : Nat, chans : SUBSET Channels, cooling : SUBSET Channels]
ReaderStages == {"idle", "routes", "sources", "found", "channels", "store", "served"}
ReaderRow == [pc : ReaderStages, for : {"find", "match"}, route : Routes \cup {Idle.route},
              start : Nat, at : Nat, via : SUBSET Patterns, on : SUBSET Routes,
              chans : SUBSET Channels, cooling : SUBSET Channels]

CacheTyped ==
    /\ db \in RowsOfRoutes /\ routeCache \in RoutesRow /\ matches \in [Routes -> MatchRow]
    /\ reader \in [Readers -> ReaderRow]
    /\ clock \in Nat \ {0} /\ clean \in BOOLEAN /\ lastTrue \in [Facts -> Nat]

\* What has been read says of the rows (seen: when each fact last held; sure: whether
\* nothing was written since an invalidation that met no load).
Recent(seen, now, state) ==
    \A f \in Facts : seen[f] <= now /\ (Holds(state, f) => seen[f] = now)

RoutesTell(snapshot, seen, now, sure, state) ==
    /\ snapshot.at <= now
    /\ \A r \in snapshot.on : seen[<<"on", r>>] >= snapshot.at
    /\ \A g \in Groups : \A s \in snapshot.sources[g] : seen[<<"source", g, s>>] >= snapshot.at
    /\ sure /\ snapshot.at # 0 =>
          /\ snapshot.on = state.on
          /\ \A g \in Groups \cap state.on : snapshot.sources[g] = state.sources[g]

\* The sources a reader has found, no more than a lifetime before it began.
ViaTells(rec, seen, sure, state) ==
    /\ rec.route \in Groups => \A s \in rec.via : seen[<<"source", rec.route, s>>] + (Ttl - 1) >= rec.start
    /\ sure => rec.via = SourcesIn(state, rec.route)

\* Channels that were read from at on; their sources as of a lifetime before start.
ChannelsTell(route, chans, cooling, at, start, seen, sure, state) ==
    /\ \A c \in chans :
          /\ seen[<<"here", c>>] >= at
          /\ c \notin cooling => seen[<<"ready", c>>] >= at
          /\ seen[<<"on", RouteOf[c]>>] + (Ttl - 1) >= at
          /\ route \in Groups => seen[<<"source", route, RouteOf[c]>>] + (Ttl - 1) >= start
    /\ sure => chans = ChannelsOf(SourcesIn(state, route), state.on, state.here)

MatchTells(route, match, seen, now, sure, state) ==
    /\ match.at <= now
    /\ match.at # 0 =>
          \E start \in Nat : /\ match.at <= start + LoadLimit
                             /\ ChannelsTell(route, match.chans, match.cooling, match.at, start,
                                             seen, sure, state)

ServedTells(rec, seen) ==
    \A c \in rec.chans \ rec.cooling :
        /\ seen[<<"here", c>>] + ChannelAge >= rec.at
        /\ seen[<<"ready", c>>] + ChannelAge >= rec.at
        /\ seen[<<"on", RouteOf[c]>>] + RouteAge >= rec.at
        /\ rec.route \in Groups => seen[<<"source", rec.route, RouteOf[c]>>] + RouteAge >= rec.at

ReaderTells(rec, seen, now, sure, state) ==
    /\ rec.pc \notin {"idle", "served"} =>
          rec.route \in Routes /\ rec.start <= now /\ now <= rec.start + LoadLimit
    /\ rec.pc \in {"routes", "sources", "channels", "store"} => rec.start <= rec.at /\ rec.at <= now
    /\ rec.pc = "sources" =>
          (\A r \in rec.on : seen[<<"on", r>>] >= rec.at) /\ (sure => rec.on = state.on)
    /\ rec.pc \in {"found", "channels"} \/ (rec.pc \in {"routes", "sources"} /\ rec.for = "match") =>
          ViaTells(rec, seen, sure, state)
    /\ rec.pc = "channels" =>
          (\A r \in rec.on : seen[<<"on", r>>] + (Ttl - 1) >= rec.at) /\ (sure => rec.on = state.on)
    /\ rec.pc = "store" =>
          ChannelsTell(rec.route, rec.chans, rec.cooling, rec.at, rec.start, seen, sure, state)
    /\ rec.pc = "served" => ServedTells(rec, seen)

CacheInv ==
    /\ CacheTyped
    /\ Recent(lastTrue, clock, db)
    /\ RoutesTell(routeCache, lastTrue, clock, clean, db)
    /\ \A r \in Routes : MatchTells(r, matches[r], lastTrue, clock, clean, db)
    /\ \A x \in Readers : ReaderTells(reader[x], lastTrue, clock, clean, db)

-----------------------------------------------------------------------------
(* What is told stays true *)

LEMMA HoldsFacts ==
    /\ \A r \in Routes : <<"on", r>> \in Facts
    /\ \A g \in Groups, s \in Patterns : <<"source", g, s>> \in Facts
    /\ \A c \in Channels : <<"here", c>> \in Facts /\ <<"ready", c>> \in Facts
    /\ \A state :
          /\ \A r \in Routes : Holds(state, <<"on", r>>) <=> r \in state.on
          /\ \A g \in Groups, s \in Patterns : Holds(state, <<"source", g, s>>) <=> s \in state.sources[g]
          /\ \A c \in Channels : /\ Holds(state, <<"here", c>>) <=> c \in state.here
                                 /\ Holds(state, <<"ready", c>>) <=> c \notin state.cooling
  BY DEF Facts, Holds

\* A later state: facts held later still, and rows one is sure of are the same.
Steady(seen, seen2, sure, sure2, state, state2) ==
    /\ seen \in [Facts -> Nat] /\ seen2 \in [Facts -> Nat] /\ \A f \in Facts : seen2[f] >= seen[f]
    /\ sure2 => sure /\ state2.on = state.on /\ state2.sources = state.sources /\ state2.here = state.here

LEMMA ChannelsStay ==
    ASSUME NEW seen, NEW seen2, NEW sure, NEW sure2, NEW state, NEW state2,
           Steady(seen, seen2, sure, sure2, state, state2),
           NEW route \in Routes, NEW chans \in SUBSET Channels, NEW cooling, NEW at \in Nat,
           NEW start \in Nat, ChannelsTell(route, chans, cooling, at, start, seen, sure, state)
    PROVE  ChannelsTell(route, chans, cooling, at, start, seen2, sure2, state2)
  <1>1. ASSUME NEW c \in chans
        PROVE  /\ seen2[<<"here", c>>] >= at
               /\ c \notin cooling => seen2[<<"ready", c>>] >= at
               /\ seen2[<<"on", RouteOf[c]>>] + (Ttl - 1) >= at
               /\ route \in Groups => seen2[<<"source", route, RouteOf[c]>>] + (Ttl - 1) >= start
    <2>1. c \in Channels /\ RouteOf[c] \in Patterns /\ RouteOf[c] \in Routes
      BY RouteCacheAssumption DEF Routes
    <2>. DEFINE h == <<"here", c>>
                y == <<"ready", c>>
                o == <<"on", RouteOf[c]>>
                g == <<"source", route, RouteOf[c]>>
    <2>2. h \in Facts /\ y \in Facts /\ o \in Facts /\ (route \in Groups => g \in Facts)
      BY <2>1, HoldsFacts
    <2>3. /\ seen[h] >= at /\ (c \notin cooling => seen[y] >= at) /\ seen[o] + (Ttl - 1) >= at
          /\ route \in Groups => seen[g] + (Ttl - 1) >= start
      BY DEF ChannelsTell
    <2>. HIDE DEF h, y, o, g
    <2>4. /\ seen[h] \in Nat /\ seen2[h] \in Nat /\ seen2[h] >= seen[h]
          /\ seen[y] \in Nat /\ seen2[y] \in Nat /\ seen2[y] >= seen[y]
          /\ seen[o] \in Nat /\ seen2[o] \in Nat /\ seen2[o] >= seen[o]
          /\ route \in Groups => seen[g] \in Nat /\ seen2[g] \in Nat /\ seen2[g] >= seen[g]
      BY <2>2 DEF Steady
    <2>. QED  BY <2>3, <2>4, RouteCacheAssumption DEF h, y, o, g
  <1>2. sure2 => chans = ChannelsOf(SourcesIn(state2, route), state2.on, state2.here)
    BY DEF Steady, ChannelsTell, SourcesIn
  <1>. QED  BY <1>1, <1>2 DEF ChannelsTell

LEMMA MatchStays ==
    ASSUME NEW seen, NEW seen2, NEW sure, NEW sure2, NEW state, NEW state2,
           Steady(seen, seen2, sure, sure2, state, state2),
           NEW now \in Nat, NEW now2 \in Nat, now2 >= now,
           NEW route \in Routes, NEW match \in MatchRow,
           MatchTells(route, match, seen, now, sure, state)
    PROVE  MatchTells(route, match, seen2, now2, sure2, state2)
  <1>1. match.at \in Nat /\ match.chans \in SUBSET Channels
    BY DEF MatchRow
  <1>. QED  BY <1>1, ChannelsStay DEF MatchTells

LEMMA RoutesStay ==
    ASSUME NEW seen, NEW seen2, NEW sure, NEW sure2, NEW state, NEW state2,
           Steady(seen, seen2, sure, sure2, state, state2),
           NEW now \in Nat, NEW now2 \in Nat, now2 >= now, NEW snapshot \in RoutesRow,
           RoutesTell(snapshot, seen, now, sure, state)
    PROVE  RoutesTell(snapshot, seen2, now2, sure2, state2)
  <1>1. /\ snapshot.at \in Nat /\ snapshot.on \subseteq Routes
        /\ \A g \in Groups : snapshot.sources[g] \subseteq Patterns
    BY DEF RoutesRow
  <1>2. ASSUME NEW r \in snapshot.on PROVE seen2[<<"on", r>>] >= snapshot.at
    <2>1. <<"on", r>> \in Facts /\ seen[<<"on", r>>] >= snapshot.at
      BY <1>1, HoldsFacts DEF RoutesTell
    <2>. QED  BY <1>1, <2>1 DEF Steady
  <1>3. ASSUME NEW g \in Groups, NEW s \in snapshot.sources[g]
        PROVE  seen2[<<"source", g, s>>] >= snapshot.at
    <2>1. <<"source", g, s>> \in Facts /\ seen[<<"source", g, s>>] >= snapshot.at
      BY <1>1, HoldsFacts DEF RoutesTell
    <2>. QED  BY <1>1, <2>1 DEF Steady
  <1>4. sure2 /\ snapshot.at # 0 =>
          /\ snapshot.on = state2.on
          /\ \A g \in Groups \cap state2.on : snapshot.sources[g] = state2.sources[g]
    BY DEF RoutesTell, Steady
  <1>. QED  BY <1>1, <1>2, <1>3, <1>4 DEF RoutesTell

LEMMA ReaderStays ==
    ASSUME NEW seen, NEW seen2, NEW sure, NEW sure2, NEW state, NEW state2,
           Steady(seen, seen2, sure, sure2, state, state2),
           NEW now \in Nat, NEW now2 \in Nat, now2 >= now, NEW rec \in ReaderRow,
           ReaderTells(rec, seen, now, sure, state),
           rec.pc \notin {"idle", "served"} => now2 <= rec.start + LoadLimit
    PROVE  ReaderTells(rec, seen2, now2, sure2, state2)
  <1>1. /\ rec.start \in Nat /\ rec.at \in Nat /\ rec.via \subseteq Patterns /\ rec.on \subseteq Routes
        /\ rec.chans \in SUBSET Channels /\ Ttl \in Nat /\ LoadLimit \in Nat
    BY RouteCacheAssumption DEF ReaderRow
  <1>2. rec.pc \notin {"idle", "served"} => rec.route \in Routes
    BY DEF ReaderTells
  <1>3. ASSUME NEW k \in Int, NEW at \in Nat, NEW f \in Facts, seen[f] + k >= at
        PROVE  seen2[f] + k >= at
    BY <1>3 DEF Steady
  <1>4. Ttl - 1 \in Int /\ ChannelAge \in Int /\ RouteAge \in Int
    BY <1>1 DEF ChannelAge, RouteAge, Later
  <1>5. \A r \in rec.on : (seen[<<"on", r>>] >= rec.at => seen2[<<"on", r>>] >= rec.at)
    <2>1. \A r \in rec.on : <<"on", r>> \in Facts
      BY <1>1, HoldsFacts
    <2>. QED  BY <1>1, <2>1 DEF Steady
  <1>6. \A r \in rec.on : (seen[<<"on", r>>] + (Ttl - 1) >= rec.at => seen2[<<"on", r>>] + (Ttl - 1) >= rec.at)
    BY <1>1, <1>3, <1>4, HoldsFacts
  <1>7. rec.route \in Routes /\ ViaTells(rec, seen, sure, state) => ViaTells(rec, seen2, sure2, state2)
    <2>. SUFFICES ASSUME rec.route \in Routes, ViaTells(rec, seen, sure, state)
                  PROVE  ViaTells(rec, seen2, sure2, state2)
      OBVIOUS
    <2>1. ASSUME rec.route \in Groups, NEW s \in rec.via
          PROVE  seen2[<<"source", rec.route, s>>] + (Ttl - 1) >= rec.start
      BY <1>1, <1>3, <1>4, <2>1, HoldsFacts DEF ViaTells
    <2>2. sure2 => rec.via = SourcesIn(state2, rec.route)
      BY DEF ViaTells, Steady, SourcesIn
    <2>. QED  BY <2>1, <2>2 DEF ViaTells
  <1>8. ServedTells(rec, seen) => ServedTells(rec, seen2)
    <2>. SUFFICES ASSUME ServedTells(rec, seen), NEW c \in rec.chans \ rec.cooling
                  PROVE  /\ seen2[<<"here", c>>] + ChannelAge >= rec.at
                         /\ seen2[<<"ready", c>>] + ChannelAge >= rec.at
                         /\ seen2[<<"on", RouteOf[c]>>] + RouteAge >= rec.at
                         /\ rec.route \in Groups =>
                               seen2[<<"source", rec.route, RouteOf[c]>>] + RouteAge >= rec.at
      BY DEF ServedTells
    <2>1. c \in Channels /\ RouteOf[c] \in Patterns /\ RouteOf[c] \in Routes
      BY <1>1, RouteCacheAssumption DEF Routes
    <2>2. /\ <<"here", c>> \in Facts /\ <<"ready", c>> \in Facts /\ <<"on", RouteOf[c]>> \in Facts
          /\ rec.route \in Groups => <<"source", rec.route, RouteOf[c]>> \in Facts
      BY <2>1, HoldsFacts
    <2>. QED  BY <1>1, <1>3, <1>4, <2>2 DEF ServedTells
  <1>9. rec.pc = "store" =>
          ChannelsTell(rec.route, rec.chans, rec.cooling, rec.at, rec.start, seen2, sure2, state2)
    BY <1>1, <1>2, ChannelsStay DEF ReaderTells
  <1>10. sure2 => sure /\ state2.on = state.on
    BY DEF Steady
  <1>. QED  BY <1>1, <1>2, <1>5, <1>6, <1>7, <1>8, <1>9, <1>10 DEF ReaderTells

-----------------------------------------------------------------------------
(* The steps of a reader *)

LEMMA CacheFacts ==
    ASSUME CacheInv
    PROVE  /\ CacheTyped /\ clock \in Nat /\ lastTrue \in [Facts -> Nat] /\ clean \in BOOLEAN
           /\ routeCache \in RoutesRow /\ routeCache.at \in Nat
           /\ \A r \in Routes : matches[r] \in MatchRow
           /\ \A x \in Readers : reader[x] \in ReaderRow
           /\ db.on \subseteq Routes /\ db.here \subseteq Channels
           /\ \A g \in Groups : db.sources[g] \subseteq Patterns
           /\ \A r \in Routes : r \in db.on => lastTrue[<<"on", r>>] = clock
           /\ \A g \in Groups : \A s \in db.sources[g] : lastTrue[<<"source", g, s>>] = clock
           /\ \A c \in Channels :
                 /\ c \in db.here => lastTrue[<<"here", c>>] = clock
                 /\ c \notin db.cooling => lastTrue[<<"ready", c>>] = clock
  <1>1. CacheTyped
    BY DEF CacheInv
  <1>2. /\ db.on \subseteq Routes /\ db.here \subseteq Channels
        /\ \A g \in Groups : db.sources[g] \subseteq Patterns
    BY <1>1 DEF CacheTyped, RowsOfRoutes
  <1>3. /\ clock \in Nat /\ lastTrue \in [Facts -> Nat] /\ clean \in BOOLEAN
        /\ routeCache \in RoutesRow /\ routeCache.at \in Nat
        /\ \A r \in Routes : matches[r] \in MatchRow
        /\ \A x \in Readers : reader[x] \in ReaderRow
    BY <1>1 DEF CacheTyped, RoutesRow
  <1>4. \A f \in Facts : Holds(db, f) => lastTrue[f] = clock
    BY DEF CacheInv, Recent
  <1>. QED  BY <1>1, <1>2, <1>3, <1>4, HoldsFacts

\* Other readers go on as they are; what is cached is told again.
LEMMA ReaderStep ==
    ASSUME CacheInv, NEW x \in Readers, NEW rec \in ReaderRow, reader' = [reader EXCEPT ![x] = rec],
           UNCHANGED <<db, clock, lastTrue, clean>>,
           ReaderTells(rec, lastTrue, clock, clean, db),
           routeCache' \in RoutesRow, RoutesTell(routeCache', lastTrue, clock, clean, db),
           matches' \in [Routes -> MatchRow],
           \A r \in Routes : MatchTells(r, matches'[r], lastTrue, clock, clean, db)
    PROVE  CacheInv'
  <1>1. reader' \in [Readers -> ReaderRow] /\ reader'[x] = rec
        /\ \A q \in Readers : q # x => reader'[q] = reader[q]
    BY DEF CacheInv, CacheTyped
  <1>2. CacheTyped'
    BY <1>1 DEF CacheInv, CacheTyped
  <1>3. \A q \in Readers : ReaderTells(reader'[q], lastTrue, clock, clean, db)
    BY <1>1 DEF CacheInv
  <1>. QED  BY <1>2, <1>3 DEF CacheInv

LEMMA IdleRow ==
    /\ Idle \in ReaderRow /\ Idle.pc = "idle" /\ Idle.start = 0 /\ Idle.for = "find"
    /\ \A seen, now, sure, state : ReaderTells(Idle, seen, now, sure, state)
  <1>1. Idle = [pc |-> "idle", for |-> "find", route |-> Idle.route, start |-> 0,
                at |-> 0, via |-> {}, on |-> {}, chans |-> {}, cooling |-> {}]
    BY DEF Idle
  <1>2. Idle \in ReaderRow
    BY <1>1 DEF ReaderRow, ReaderStages
  <1>3. Idle.pc = "idle" /\ Idle.start = 0 /\ Idle.for = "find"
    BY <1>1
  <1>. QED  BY <1>2, <1>3 DEF ReaderTells

LEMMA ReaderExcept ==
    ASSUME NEW x \in Readers, NEW rec, reader \in [Readers -> ReaderRow]
    PROVE  /\ \A on : [reader EXCEPT ![x].pc = "sources", ![x].on = on] =
                         [reader EXCEPT ![x] = [reader[x] EXCEPT !.pc = "sources", !.on = on]]
           /\ \A t, on : [reader EXCEPT ![x].pc = "channels", ![x].at = t, ![x].on = on] =
                         [reader EXCEPT ![x] = [reader[x] EXCEPT !.pc = "channels", !.at = t, !.on = on]]
           /\ \A t : [reader EXCEPT ![x].pc = "routes", ![x].at = t, ![x].for = "match"] =
                         [reader EXCEPT ![x] = [reader[x] EXCEPT !.pc = "routes", !.at = t, !.for = "match"]]
           /\ \A chans, cooling :
                [reader EXCEPT ![x].pc = "store", ![x].via = {}, ![x].on = {},
                               ![x].chans = chans, ![x].cooling = cooling] =
                [reader EXCEPT ![x] = [reader[x] EXCEPT !.pc = "store", !.via = {}, !.on = {},
                                                        !.chans = chans, !.cooling = cooling]]
  OBVIOUS

LEMMA AgesInt ==
    /\ Ttl \in Nat \ {0} /\ LoadLimit \in Nat /\ Ttl - 1 \in Nat
    /\ ChannelAge >= Ttl - 1 /\ ChannelAge >= LoadLimit /\ ChannelAge <= (Ttl - 1) + LoadLimit
    /\ ChannelAge \in Nat /\ RouteAge = 2 * (Ttl - 1) + LoadLimit
  BY RouteCacheAssumption DEF ChannelAge, RouteAge, Later

\* Channels that are handed to a request at now.
LEMMA ServedAge ==
    ASSUME NEW seen \in [Facts -> Nat], NEW sure, NEW state, NEW now \in Nat, NEW rec \in ReaderRow,
           rec.at = now, rec.route \in Routes, NEW at \in Nat, NEW start \in Nat,
           ChannelsTell(rec.route, rec.chans, rec.cooling, at, start, seen, sure, state),
           now <= at + ChannelAge, now <= start + (Ttl - 1) + LoadLimit
    PROVE  ServedTells(rec, seen)
  <1>. SUFFICES ASSUME NEW c \in rec.chans \ rec.cooling
                PROVE  /\ seen[<<"here", c>>] + ChannelAge >= rec.at
                       /\ seen[<<"ready", c>>] + ChannelAge >= rec.at
                       /\ seen[<<"on", RouteOf[c]>>] + RouteAge >= rec.at
                       /\ rec.route \in Groups =>
                             seen[<<"source", rec.route, RouteOf[c]>>] + RouteAge >= rec.at
    BY DEF ServedTells
  <1>1. c \in Channels /\ RouteOf[c] \in Patterns /\ RouteOf[c] \in Routes
    BY RouteCacheAssumption DEF Routes, ReaderRow
  <1>. DEFINE h == seen[<<"here", c>>]
              y == seen[<<"ready", c>>]
              o == seen[<<"on", RouteOf[c]>>]
              g == seen[<<"source", rec.route, RouteOf[c]>>]
  <1>2. h \in Nat /\ y \in Nat /\ o \in Nat /\ (rec.route \in Groups => g \in Nat)
    BY <1>1, HoldsFacts
  <1>3. h >= at /\ y >= at /\ o + (Ttl - 1) >= at /\ (rec.route \in Groups => g + (Ttl - 1) >= start)
    BY DEF ChannelsTell
  <1>. HIDE DEF h, y, o, g
  <1>4. h + ChannelAge >= now /\ y + ChannelAge >= now /\ o + RouteAge >= now
        /\ (rec.route \in Groups => g + RouteAge >= now)
    BY <1>2, <1>3, AgesInt
  <1>. QED  BY <1>4 DEF h, y, o, g

LEMMA ReadRoutesKeeps ==
    ASSUME CacheInv, NEW x \in Readers, ReadRoutes(x)
    PROVE  CacheInv'
  <1>. DEFINE rec == [reader[x] EXCEPT !.pc = "sources", !.on = db.on]
  <1>1. /\ reader[x].pc = "routes" /\ reader' = [reader EXCEPT ![x] = rec]
        /\ UNCHANGED <<db, routeCache, matches, clock, lastTrue, clean>>
    BY ReaderExcept DEF ReadRoutes, CacheInv, CacheTyped
  <1>2. /\ rec \in ReaderRow /\ rec.pc = "sources" /\ rec.on = db.on /\ rec.for = reader[x].for
        /\ rec.route = reader[x].route /\ rec.start = reader[x].start /\ rec.at = reader[x].at
        /\ rec.via = reader[x].via
    BY CacheFacts DEF ReaderRow, ReaderStages
  <1>3. ReaderTells(reader[x], lastTrue, clock, clean, db) /\ reader[x].at \in Nat
    BY CacheFacts DEF CacheInv, ReaderRow
  <1>. HIDE DEF rec
  <1>4. \A r \in rec.on : lastTrue[<<"on", r>>] >= rec.at
    BY <1>1, <1>2, <1>3, CacheFacts DEF ReaderTells
  <1>5. ReaderTells(rec, lastTrue, clock, clean, db)
    BY <1>1, <1>2, <1>3, <1>4 DEF ReaderTells, ViaTells
  <1>. QED  BY <1>1, <1>2, <1>5, ReaderStep DEF CacheInv, CacheTyped

LEMMA ReadSourcesKeeps ==
    ASSUME CacheInv, NEW x \in Readers, ReadSources(x)
    PROVE  CacheInv'
  <1>. DEFINE old == reader[x]
              snapshot == [at |-> old.at, on |-> old.on,
                           sources |-> [g \in Groups |-> IF g \in old.on THEN db.sources[g] ELSE {}]]
              via == SourcesIn(snapshot, old.route)
              rec == CASE old.for = "match" -> [old EXCEPT !.pc = "channels"]
                       [] old.for = "find" /\ old.route \in snapshot.on ->
                            [old EXCEPT !.pc = "found", !.via = via]
                       [] OTHER -> Idle
  <1>1. old.pc = "sources" /\ routeCache' = snapshot /\ UNCHANGED <<db, matches, clock, lastTrue, clean>>
    BY DEF ReadSources
  <1>2. reader' = [reader EXCEPT ![x] = rec]
    BY DEF ReadSources
  <1>3. /\ old \in ReaderRow /\ old.at \in Nat /\ old.start \in Nat /\ old.on \subseteq Routes
        /\ old.via \subseteq Patterns /\ old.for \in {"find", "match"}
        /\ ReaderTells(old, lastTrue, clock, clean, db)
        /\ \A g \in Groups : db.sources[g] \subseteq Patterns
    BY CacheFacts DEF CacheInv, ReaderRow
  <1>4. /\ old.route \in Routes /\ old.start <= clock /\ clock <= old.start + LoadLimit
        /\ old.start <= old.at /\ old.at <= clock
        /\ \A r \in old.on : lastTrue[<<"on", r>>] >= old.at
        /\ clean => old.on = db.on
        /\ old.for = "match" => ViaTells(old, lastTrue, clean, db)
    BY <1>1, <1>3 DEF ReaderTells
  <1>5. snapshot \in RoutesRow /\ snapshot.at = old.at /\ snapshot.on = old.on
        /\ \A g \in Groups : snapshot.sources[g] = IF g \in old.on THEN db.sources[g] ELSE {}
    BY <1>3 DEF RoutesRow
  <1>. HIDE DEF snapshot
  <1>6. RoutesTell(snapshot, lastTrue, clock, clean, db)
    <2>1. ASSUME NEW g \in Groups, NEW s \in snapshot.sources[g]
          PROVE  lastTrue[<<"source", g, s>>] >= snapshot.at
      <3>1. s \in db.sources[g]
        BY <1>5, <2>1
      <3>. QED  BY <1>3, <1>4, <1>5, <3>1, CacheFacts
    <2>. QED  BY <1>4, <1>5, <2>1 DEF RoutesTell
  <1>7. rec \in ReaderRow /\ ReaderTells(rec, lastTrue, clock, clean, db)
    <2>1. CASE old.for = "match"
      <3>. DEFINE new == [old EXCEPT !.pc = "channels"]
      <3>1. /\ new \in ReaderRow /\ new.pc = "channels" /\ new.on = old.on
            /\ new.route = old.route /\ new.start = old.start /\ new.at = old.at /\ new.via = old.via
        BY <1>3 DEF ReaderRow, ReaderStages
      <3>2. rec = new
        BY <2>1
      <3>. HIDE DEF new, rec, old
      <3>3. \A r \in new.on : lastTrue[<<"on", r>>] + (Ttl - 1) >= new.at
        <4>1. ASSUME NEW n \in Nat, n >= old.at PROVE n + (Ttl - 1) >= old.at
          BY <1>3, <4>1, AgesInt
        <4>2. \A r \in new.on : lastTrue[<<"on", r>>] \in Nat /\ lastTrue[<<"on", r>>] >= old.at
          BY <1>3, <1>4, <3>1, CacheFacts, HoldsFacts
        <4>. QED  BY <3>1, <4>1, <4>2
      <3>4. ViaTells(new, lastTrue, clean, db)
        BY <1>4, <2>1, <3>1 DEF ViaTells
      <3>. QED  BY <1>4, <3>1, <3>2, <3>3, <3>4 DEF ReaderTells
    <2>2. CASE old.for = "find" /\ old.route \in snapshot.on
      <3>. DEFINE new == [old EXCEPT !.pc = "found", !.via = via]
      <3>1. via = IF old.route \in Groups THEN db.sources[old.route] ELSE {old.route}
        BY <1>5, <2>2 DEF SourcesIn
      <3>2. via \subseteq Patterns
        BY <1>3, <1>4, <3>1 DEF Routes
      <3>3. /\ new \in ReaderRow /\ new.pc = "found" /\ new.via = via
            /\ new.route = old.route /\ new.start = old.start
        <4>. HIDE DEF via
        <4>. QED  BY <1>3, <3>2 DEF ReaderRow, ReaderStages
      <3>4. rec = new
        BY <2>2
      <3>. HIDE DEF new, rec, old, via
      <3>5. ViaTells(new, lastTrue, clean, db)
        <4>1. ASSUME new.route \in Groups, NEW s \in new.via
              PROVE  lastTrue[<<"source", new.route, s>>] + (Ttl - 1) >= new.start
          BY <1>3, <1>4, <3>1, <3>3, <4>1, CacheFacts, AgesInt
        <4>. QED  BY <3>1, <3>3, <4>1 DEF ViaTells, SourcesIn
      <3>. QED  BY <1>4, <3>3, <3>4, <3>5 DEF ReaderTells
    <2>3. CASE old.for = "find" /\ old.route \notin snapshot.on
      BY <2>3, IdleRow
    <2>. QED  BY <1>3, <2>1, <2>2, <2>3
  <1>. HIDE DEF rec
  <1>. QED  BY <1>1, <1>2, <1>5, <1>6, <1>7, ReaderStep DEF CacheInv, CacheTyped

LEMMA FindKeeps ==
    ASSUME CacheInv, NEW x \in Readers, NEW route \in Routes, Find(x, route)
    PROVE  CacheInv'
  <1>1. UNCHANGED <<db, routeCache, matches, clock, lastTrue, clean>>
    BY DEF Find
  <1>2. ASSUME IsCacheFresh(routeCache.at), route \in routeCache.on,
               reader' = [reader EXCEPT ![x] = [Idle EXCEPT
                !.pc = "found", !.route = route, !.start = clock, !.via = SourcesIn(routeCache, route)]]
        PROVE  CacheInv'
    <2>. DEFINE via == SourcesIn(routeCache, route)
                rec == [Idle EXCEPT !.pc = "found", !.route = route, !.start = clock, !.via = via]
    <2>1. via = (IF route \in Groups THEN routeCache.sources[route] ELSE {route}) /\ via \subseteq Patterns
      BY CacheFacts DEF SourcesIn, Routes, RoutesRow
    <2>2. RoutesTell(routeCache, lastTrue, clock, clean, db) /\ clock \in Nat /\ routeCache.at \in Nat
          /\ routeCache.at # 0 /\ clock - routeCache.at < Ttl
      BY <1>2, CacheFacts DEF CacheInv, IsCacheFresh
    <2>3. /\ rec \in ReaderRow /\ rec.pc = "found" /\ rec.via = via /\ rec.route = route
          /\ rec.start = clock
      <3>. HIDE DEF via
      <3>. QED  BY <2>1, <2>2, IdleRow DEF ReaderRow, ReaderStages
    <2>4. reader' = [reader EXCEPT ![x] = rec]
      BY <1>2
    <2>. HIDE DEF via, rec
    <2>5. ViaTells(rec, lastTrue, clean, db)
      <3>1. ASSUME route \in Groups, NEW s \in via
            PROVE  lastTrue[<<"source", route, s>>] + (Ttl - 1) >= clock
        <4>1. lastTrue[<<"source", route, s>>] >= routeCache.at /\ lastTrue[<<"source", route, s>>] \in Nat
          BY <2>1, <2>2, <3>1, CacheFacts, HoldsFacts DEF RoutesTell
        <4>. QED  BY <2>2, <4>1, AgesInt
      <3>2. clean => via = SourcesIn(db, route)
        BY <1>2, <2>1, <2>2 DEF RoutesTell, SourcesIn
      <3>. QED  BY <2>3, <3>1, <3>2 DEF ViaTells
    <2>6. ReaderTells(rec, lastTrue, clock, clean, db)
      BY <2>2, <2>3, <2>5, AgesInt DEF ReaderTells
    <2>. QED  BY <1>1, <2>3, <2>4, <2>6, ReaderStep DEF CacheInv, CacheTyped
  <1>3. ASSUME reader' = [reader EXCEPT ![x] = [Idle EXCEPT
                !.pc = "routes", !.route = route, !.start = clock, !.at = clock]]
        PROVE  CacheInv'
    <2>. DEFINE rec == [Idle EXCEPT !.pc = "routes", !.route = route, !.start = clock, !.at = clock]
    <2>1. clock \in Nat
      BY CacheFacts
    <2>2. /\ rec \in ReaderRow /\ rec.pc = "routes" /\ rec.for = "find" /\ rec.route = route
          /\ rec.start = clock /\ rec.at = clock
      BY <2>1, IdleRow DEF ReaderRow, ReaderStages
    <2>3. reader' = [reader EXCEPT ![x] = rec]
      BY <1>3
    <2>. HIDE DEF rec
    <2>4. ReaderTells(rec, lastTrue, clock, clean, db)
      BY <2>1, <2>2, AgesInt DEF ReaderTells
    <2>. QED  BY <1>1, <2>2, <2>3, <2>4, ReaderStep DEF CacheInv, CacheTyped
  <1>. QED  BY <1>2, <1>3 DEF Find

LEMMA ServedRow ==
    ASSUME CacheInv, NEW x \in Readers, NEW match, reader[x].route \in Routes,
           match.chans \subseteq Channels, match.cooling \subseteq Channels
    PROVE  /\ Served(x, match) \in ReaderRow /\ Served(x, match).pc = "served"
           /\ Served(x, match).route = reader[x].route /\ Served(x, match).at = clock
           /\ Served(x, match).chans = match.chans /\ Served(x, match).cooling = match.cooling
  BY CacheFacts, IdleRow DEF Served, ReaderRow, ReaderStages

LEMMA LookUpKeeps ==
    ASSUME CacheInv, NEW x \in Readers, LookUp(x)
    PROVE  CacheInv'
  <1>. DEFINE old == reader[x]
              cached == matches[old.route]
  <1>1. old.pc = "found" /\ UNCHANGED <<db, routeCache, matches, clock, lastTrue, clean>>
    BY DEF LookUp
  <1>2. /\ old \in ReaderRow /\ ReaderTells(old, lastTrue, clock, clean, db) /\ clock \in Nat
        /\ old.start \in Nat
    BY CacheFacts DEF CacheInv, ReaderRow
  <1>3. /\ old.route \in Routes /\ old.start <= clock /\ clock <= old.start + LoadLimit
        /\ ViaTells(old, lastTrue, clean, db)
    BY <1>1, <1>2 DEF ReaderTells
  <1>4. ASSUME IsCacheFresh(cached.at), reader' = [reader EXCEPT ![x] = Served(x, cached)]
        PROVE  CacheInv'
    <2>1. cached \in MatchRow /\ MatchTells(old.route, cached, lastTrue, clock, clean, db)
      BY <1>3, CacheFacts DEF CacheInv
    <2>2. cached.at \in Nat /\ cached.chans \subseteq Channels /\ cached.cooling \subseteq Channels
      BY <2>1 DEF MatchRow
    <2>3. PICK start \in Nat : /\ cached.at <= start + LoadLimit
                               /\ ChannelsTell(old.route, cached.chans, cached.cooling, cached.at, start,
                                               lastTrue, clean, db)
      BY <1>4, <2>1 DEF MatchTells, IsCacheFresh
    <2>. DEFINE rec == Served(x, cached)
    <2>4. /\ rec \in ReaderRow /\ rec.pc = "served" /\ rec.route = old.route /\ rec.at = clock
          /\ rec.chans = cached.chans /\ rec.cooling = cached.cooling
      BY <1>3, <2>2, ServedRow
    <2>5. clock <= cached.at + ChannelAge /\ clock <= start + (Ttl - 1) + LoadLimit
      BY <1>2, <1>4, <2>2, <2>3, AgesInt DEF IsCacheFresh
    <2>6. reader' = [reader EXCEPT ![x] = rec]
      BY <1>4
    <2>. HIDE DEF rec, cached
    <2>7. ServedTells(rec, lastTrue)
      BY <1>2, <1>3, <2>2, <2>3, <2>4, <2>5, CacheFacts, ServedAge
    <2>8. ReaderTells(rec, lastTrue, clock, clean, db)
      BY <2>4, <2>7 DEF ReaderTells
    <2>. QED  BY <1>1, <2>4, <2>6, <2>8, ReaderStep DEF CacheInv, CacheTyped
  <1>5. ASSUME IsCacheFresh(routeCache.at),
               reader' = [reader EXCEPT ![x].pc = "channels", ![x].at = clock, ![x].on = routeCache.on]
        PROVE  CacheInv'
    <2>. DEFINE rec == [old EXCEPT !.pc = "channels", !.at = clock, !.on = routeCache.on]
    <2>1. /\ RoutesTell(routeCache, lastTrue, clock, clean, db) /\ routeCache.at \in Nat
          /\ routeCache.at # 0 /\ clock - routeCache.at < Ttl /\ routeCache.on \subseteq Routes
      BY <1>5, CacheFacts DEF CacheInv, IsCacheFresh, RoutesRow
    <2>2. /\ rec \in ReaderRow /\ rec.pc = "channels" /\ rec.on = routeCache.on
          /\ rec.route = old.route /\ rec.start = old.start /\ rec.at = clock /\ rec.via = old.via
      BY <1>2, <2>1 DEF ReaderRow, ReaderStages
    <2>3. reader' = [reader EXCEPT ![x] = rec]
      BY <1>5, ReaderExcept DEF CacheInv, CacheTyped
    <2>. HIDE DEF rec, old
    <2>4. \A r \in rec.on : lastTrue[<<"on", r>>] + (Ttl - 1) >= rec.at
      <3>1. ASSUME NEW n \in Nat, n >= routeCache.at PROVE n + (Ttl - 1) >= clock
        BY <1>2, <2>1, <3>1, AgesInt
      <3>2. \A r \in rec.on : lastTrue[<<"on", r>>] \in Nat /\ lastTrue[<<"on", r>>] >= routeCache.at
        BY <2>1, <2>2, CacheFacts, HoldsFacts DEF RoutesTell
      <3>. QED  BY <2>2, <3>1, <3>2
    <2>5. clean => rec.on = db.on
      BY <2>1, <2>2 DEF RoutesTell
    <2>6. ReaderTells(rec, lastTrue, clock, clean, db)
      BY <1>2, <1>3, <2>2, <2>4, <2>5 DEF ReaderTells, ViaTells
    <2>. QED  BY <1>1, <2>2, <2>3, <2>6, ReaderStep DEF CacheInv, CacheTyped
  <1>6. ASSUME reader' = [reader EXCEPT ![x].pc = "routes", ![x].at = clock, ![x].for = "match"]
        PROVE  CacheInv'
    <2>. DEFINE rec == [old EXCEPT !.pc = "routes", !.at = clock, !.for = "match"]
    <2>1. /\ rec \in ReaderRow /\ rec.pc = "routes" /\ rec.for = "match"
          /\ rec.route = old.route /\ rec.start = old.start /\ rec.at = clock /\ rec.via = old.via
      BY <1>2 DEF ReaderRow, ReaderStages
    <2>2. reader' = [reader EXCEPT ![x] = rec]
      BY <1>6, ReaderExcept DEF CacheInv, CacheTyped
    <2>. HIDE DEF rec, old
    <2>3. ReaderTells(rec, lastTrue, clock, clean, db)
      BY <1>2, <1>3, <2>1 DEF ReaderTells, ViaTells
    <2>. QED  BY <1>1, <2>1, <2>2, <2>3, ReaderStep DEF CacheInv, CacheTyped
  <1>. QED  BY <1>4, <1>5, <1>6 DEF LookUp

LEMMA ReadChannelsKeeps ==
    ASSUME CacheInv, NEW x \in Readers, ReadChannels(x)
    PROVE  CacheInv'
  <1>. DEFINE old == reader[x]
              chans == ChannelsOf(old.via, old.on, db.here)
              rec == [old EXCEPT !.pc = "store", !.via = {}, !.on = {}, !.chans = chans,
                                 !.cooling = db.cooling]
  <1>1. old.pc = "channels" /\ UNCHANGED <<db, routeCache, matches, clock, lastTrue, clean>>
    BY DEF ReadChannels
  <1>2. reader' = [reader EXCEPT ![x] = rec]
    <2>1. reader' = [reader EXCEPT ![x].pc = "store", ![x].via = {}, ![x].on = {},
                                   ![x].chans = chans, ![x].cooling = db.cooling]
      BY DEF ReadChannels
    <2>. HIDE DEF chans
    <2>. QED  BY <2>1, ReaderExcept DEF CacheInv, CacheTyped
  <1>3. /\ old \in ReaderRow /\ ReaderTells(old, lastTrue, clock, clean, db) /\ clock \in Nat
        /\ old.start \in Nat /\ old.at \in Nat
    BY CacheFacts DEF CacheInv, ReaderRow
  <1>4. /\ old.route \in Routes /\ old.start <= clock /\ clock <= old.start + LoadLimit
        /\ old.start <= old.at /\ old.at <= clock /\ ViaTells(old, lastTrue, clean, db)
        /\ \A r \in old.on : lastTrue[<<"on", r>>] + (Ttl - 1) >= old.at
        /\ clean => old.on = db.on
    BY <1>1, <1>3 DEF ReaderTells
  <1>5. chans \subseteq Channels /\ db.cooling \subseteq Channels
        /\ \A c \in chans : c \in db.here /\ RouteOf[c] \in old.via /\ RouteOf[c] \in old.on
    BY DEF ChannelsOf, CacheInv, CacheTyped, RowsOfRoutes
  <1>6. chans = ChannelsOf(old.via, old.on, db.here)
    OBVIOUS
  <1>. HIDE DEF chans
  <1>7. /\ rec \in ReaderRow /\ rec.pc = "store" /\ rec.chans = chans /\ rec.cooling = db.cooling
        /\ rec.route = old.route /\ rec.start = old.start /\ rec.at = old.at
    BY <1>3, <1>5 DEF ReaderRow, ReaderStages
  <1>. HIDE DEF rec, old
  <1>8. ChannelsTell(old.route, chans, db.cooling, old.at, old.start, lastTrue, clean, db)
    <2>1. ASSUME NEW c \in chans
          PROVE  /\ lastTrue[<<"here", c>>] >= old.at
                 /\ c \notin db.cooling => lastTrue[<<"ready", c>>] >= old.at
                 /\ lastTrue[<<"on", RouteOf[c]>>] + (Ttl - 1) >= old.at
                 /\ old.route \in Groups =>
                       lastTrue[<<"source", old.route, RouteOf[c]>>] + (Ttl - 1) >= old.start
      <3>1. c \in Channels
        BY <1>5
      <3>. QED  BY <1>4, <1>5, <3>1, CacheFacts DEF ViaTells
    <2>2. clean => chans = ChannelsOf(SourcesIn(db, old.route), db.on, db.here)
      BY <1>4, <1>6 DEF ViaTells
    <2>. QED  BY <2>1, <2>2 DEF ChannelsTell
  <1>9. ReaderTells(rec, lastTrue, clock, clean, db)
    BY <1>4, <1>7, <1>8 DEF ReaderTells
  <1>. QED  BY <1>1, <1>2, <1>7, <1>9, ReaderStep DEF CacheInv, CacheTyped

LEMMA StoreMatchKeeps ==
    ASSUME CacheInv, NEW x \in Readers, StoreMatch(x)
    PROVE  CacheInv'
  <1>. DEFINE old == reader[x]
              match == [at |-> old.at, chans |-> old.chans, cooling |-> old.cooling]
              rec == Served(x, old)
  <1>1. /\ old.pc = "store" /\ UNCHANGED <<db, routeCache, clock, lastTrue, clean>>
        /\ reader' = [reader EXCEPT ![x] = rec] /\ matches' = [matches EXCEPT ![old.route] = match]
    BY DEF StoreMatch
  <1>2. /\ old \in ReaderRow /\ ReaderTells(old, lastTrue, clock, clean, db) /\ clock \in Nat
        /\ old.start \in Nat /\ old.at \in Nat /\ old.chans \subseteq Channels
        /\ old.cooling \subseteq Channels
    BY CacheFacts DEF CacheInv, ReaderRow
  <1>3. /\ old.route \in Routes /\ old.start <= clock /\ clock <= old.start + LoadLimit
        /\ old.start <= old.at /\ old.at <= clock
        /\ ChannelsTell(old.route, old.chans, old.cooling, old.at, old.start, lastTrue, clean, db)
    BY <1>1, <1>2 DEF ReaderTells
  <1>4. match \in MatchRow /\ match.at = old.at /\ match.chans = old.chans
        /\ match.cooling = old.cooling
    BY <1>2 DEF MatchRow
  <1>5. /\ rec \in ReaderRow /\ rec.pc = "served" /\ rec.route = old.route /\ rec.at = clock
        /\ rec.chans = old.chans /\ rec.cooling = old.cooling
    BY <1>2, <1>3, ServedRow
  <1>. HIDE DEF match, rec, old
  <1>6. MatchTells(old.route, match, lastTrue, clock, clean, db)
    <2>1. old.at <= old.start + LoadLimit
      BY <1>2, <1>3, AgesInt
    <2>. QED  BY <1>2, <1>3, <1>4, <2>1 DEF MatchTells
  <1>7. ServedTells(rec, lastTrue)
    <2>1. clock <= old.at + ChannelAge /\ clock <= old.start + (Ttl - 1) + LoadLimit
      BY <1>2, <1>3, AgesInt
    <2>. QED  BY <1>2, <1>3, <1>5, <2>1, CacheFacts, ServedAge
  <1>8. ReaderTells(rec, lastTrue, clock, clean, db)
    BY <1>5, <1>7 DEF ReaderTells
  <1>9. /\ matches' \in [Routes -> MatchRow]
        /\ \A r \in Routes : MatchTells(r, matches'[r], lastTrue, clock, clean, db)
    BY <1>1, <1>3, <1>4, <1>6 DEF CacheInv, CacheTyped
  <1>. QED  BY <1>1, <1>5, <1>8, <1>9, ReaderStep DEF CacheInv, CacheTyped

LEMMA ReturnKeeps ==
    ASSUME CacheInv, NEW x \in Readers, Return(x)
    PROVE  CacheInv'
  BY IdleRow, ReaderStep DEF Return, CacheInv, CacheTyped

-----------------------------------------------------------------------------
(* The steps that change state, and time *)

LEMMA NoteFacts ==
    ASSUME CacheInv, NEW state, lastTrue' = Note(state)
    PROVE  /\ lastTrue' \in [Facts -> Nat] /\ \A f \in Facts : lastTrue'[f] >= lastTrue[f]
           /\ Recent(lastTrue', clock, state)
  <1>1. clock \in Nat /\ lastTrue \in [Facts -> Nat] /\ \A f \in Facts : lastTrue[f] <= clock
    BY CacheFacts DEF CacheInv, Recent
  <1>2. lastTrue' \in [Facts -> Nat]
        /\ \A f \in Facts : lastTrue'[f] = IF Holds(state, f) THEN clock ELSE lastTrue[f]
    BY <1>1 DEF Note
  <1>3. \A f \in Facts : lastTrue'[f] >= lastTrue[f]
    BY <1>1, <1>2
  <1>4. \A f \in Facts : lastTrue'[f] <= clock /\ (Holds(state, f) => lastTrue'[f] = clock)
    BY <1>1, <1>2
  <1>. QED  BY <1>2, <1>3, <1>4 DEF Recent

\* A step that takes away no certainty it has no reason to give.
LEMMA LaterKeeps ==
    ASSUME CacheInv, db' \in RowsOfRoutes, clock' \in Nat, clock' >= clock, clean' \in BOOLEAN,
           Steady(lastTrue, lastTrue', clean, clean', db, db'), Recent(lastTrue', clock', db'),
           UNCHANGED <<reader, routeCache>>,
           \A x \in Readers : Loading(x) => clock' <= reader[x].start + LoadLimit,
           matches' \in [Routes -> MatchRow],
           \A r \in Routes : MatchTells(r, matches'[r], lastTrue', clock', clean', db')
    PROVE  CacheInv'
  <1>1. clock \in Nat \ {0} /\ clock' \in Nat \ {0}
    BY DEF CacheInv, CacheTyped
  <1>2. CacheTyped'
    BY <1>1 DEF CacheInv, CacheTyped, Steady
  <1>3. RoutesTell(routeCache, lastTrue', clock', clean', db')
    BY <1>1, CacheFacts, RoutesStay DEF CacheInv
  <1>4. ASSUME NEW x \in Readers PROVE ReaderTells(reader[x], lastTrue', clock', clean', db')
    <2>1. reader[x] \in ReaderRow /\ ReaderTells(reader[x], lastTrue, clock, clean, db)
      BY CacheFacts DEF CacheInv
    <2>2. reader[x].pc \notin {"idle", "served"} => clock' <= reader[x].start + LoadLimit
      BY DEF Loading
    <2>. QED  BY <1>1, <2>1, <2>2, ReaderStays
  <1>. QED  BY <1>2, <1>3, <1>4 DEF CacheInv

LEMMA LoadingIsTimely ==
    ASSUME CacheInv
    PROVE  \A x \in Readers : Loading(x) => clock <= reader[x].start + LoadLimit
  BY DEF CacheInv, ReaderTells, Loading

LEMMA AllMatchesStay ==
    ASSUME CacheInv, clock' \in Nat, clock' >= clock,
           Steady(lastTrue, lastTrue', clean, clean', db, db')
    PROVE  \A r \in Routes : MatchTells(r, matches[r], lastTrue', clock', clean', db')
  BY CacheFacts, MatchStays DEF CacheInv

LEMMA WriteRowsKeeps ==
    ASSUME CacheInv, NEW state \in RowsOfRoutes, WriteRows(state)
    PROVE  CacheInv'
  <1>1. db' = state /\ clean' = FALSE /\ lastTrue' = Note(state) /\ UNCHANGED <<routeCache, matches, reader, clock>>
    BY DEF WriteRows
  <1>2. Steady(lastTrue, lastTrue', clean, clean', db, db') /\ Recent(lastTrue', clock', db')
    BY <1>1, NoteFacts, CacheFacts DEF Steady
  <1>3. clock \in Nat /\ clock' \in Nat /\ clock' >= clock
    BY <1>1, CacheFacts
  <1>4. \A r \in Routes : MatchTells(r, matches'[r], lastTrue', clock', clean', db')
    BY <1>1, <1>2, <1>3, AllMatchesStay
  <1>. QED  BY <1>1, <1>2, <1>3, <1>4, LaterKeeps, LoadingIsTimely DEF CacheInv, CacheTyped

LEMMA WritesKeep ==
    ASSUME CacheInv
    PROVE  WriteRoute \/ WriteSource \/ WriteChannel => CacheInv'
  <1>1. db \in RowsOfRoutes
    BY DEF CacheInv, CacheTyped
  <1>2. ASSUME NEW r \in Routes PROVE [db EXCEPT !.on = Toggled(r, @)] \in RowsOfRoutes
    BY <1>1 DEF RowsOfRoutes, Toggled
  <1>3. ASSUME NEW g \in Groups, NEW r \in Patterns
        PROVE  [db EXCEPT !.sources[g] = Toggled(r, @)] \in RowsOfRoutes
    BY <1>1 DEF RowsOfRoutes, Toggled
  <1>4. ASSUME NEW c \in Channels PROVE [db EXCEPT !.here = Toggled(c, @)] \in RowsOfRoutes
    BY <1>1 DEF RowsOfRoutes, Toggled
  <1>. QED  BY <1>2, <1>3, <1>4, WriteRowsKeeps DEF WriteRoute, WriteSource, WriteChannel

LEMMA EmptyTells ==
    ASSUME NEW seen, NEW now \in Nat, NEW sure, NEW state
    PROVE  /\ NoMatch \in MatchRow /\ \A r \in Routes : MatchTells(r, NoMatch, seen, now, sure, state)
           /\ NoRoutes \in RoutesRow /\ RoutesTell(NoRoutes, seen, now, sure, state)
  <1>1. NoMatch \in MatchRow /\ NoMatch.at = 0
    BY DEF NoMatch, MatchRow
  <1>2. NoRoutes \in RoutesRow /\ NoRoutes.at = 0 /\ NoRoutes.on = {}
        /\ \A g \in Groups : NoRoutes.sources[g] = {}
    BY DEF NoRoutes, RoutesRow
  <1>. QED  BY <1>1, <1>2 DEF MatchTells, RoutesTell

\* A booking patches one match: who is off its cooling list is ready now.
LEMMA BookKeeps ==
    ASSUME CacheInv, NEW c \in Channels, NEW cooling \in BOOLEAN, Book(c, cooling)
    PROVE  CacheInv'
  <1>1. /\ db' = [db EXCEPT !.cooling = IF cooling THEN @ \cup {c} ELSE @ \ {c}]
        /\ lastTrue' = Note(db') /\ UNCHANGED <<routeCache, reader, clock, clean>>
    BY DEF Book
  <1>2. /\ db' \in RowsOfRoutes /\ db'.on = db.on /\ db'.sources = db.sources /\ db'.here = db.here
        /\ db'.cooling = IF cooling THEN db.cooling \cup {c} ELSE db.cooling \ {c}
    BY <1>1 DEF CacheInv, CacheTyped, RowsOfRoutes
  <1>3. /\ Steady(lastTrue, lastTrue', clean, clean', db, db') /\ Recent(lastTrue', clock', db')
        /\ clock \in Nat /\ clock' \in Nat /\ clock' >= clock
    <2>1. PICK state : state = db'
      OBVIOUS
    <2>2. lastTrue' = Note(state)
      BY <1>1, <2>1
    <2>3. /\ lastTrue' \in [Facts -> Nat] /\ \A f \in Facts : lastTrue'[f] >= lastTrue[f]
          /\ Recent(lastTrue', clock, state)
      BY <2>2, NoteFacts
    <2>4. lastTrue \in [Facts -> Nat] /\ clock \in Nat /\ clock' = clock
      BY <1>1, CacheFacts
    <2>5. Steady(lastTrue, lastTrue', clean, clean', db, db')
      BY <1>1, <1>2, <2>3, <2>4 DEF Steady
    <2>6. Recent(lastTrue', clock', db')
      BY <2>1, <2>3, <2>4
    <2>7. clock' \in Nat /\ clock' >= clock
      BY <2>4
    <2>. QED  BY <2>4, <2>5, <2>6, <2>7
  <1>4. ASSUME NEW r \in Routes
        PROVE  MatchTells(r, matches[r], lastTrue', clock', clean', db') /\ matches[r] \in MatchRow
    BY <1>3, AllMatchesStay, CacheFacts
  <1>5. CASE c \in Units
    <2>1. matches' = [matches EXCEPT ![RouteOf[c]] = NoMatch]
      BY <1>5 DEF Book, InvalidateRouteScopedCache
    <2>2. /\ matches' \in [Routes -> MatchRow]
          /\ \A r \in Routes : MatchTells(r, matches'[r], lastTrue', clock', clean', db')
      BY <1>3, <1>4, <2>1, EmptyTells DEF CacheInv, CacheTyped
    <2>. QED  BY <1>1, <1>2, <1>3, <2>2, LaterKeeps, LoadingIsTimely DEF CacheInv, CacheTyped
  <1>6. CASE c \notin Units
    <2>1. CASE UNCHANGED matches
      BY <1>1, <1>2, <1>3, <1>4, <2>1, LaterKeeps, LoadingIsTimely DEF CacheInv, CacheTyped
    <2>2. ASSUME NEW r \in Routes,
                 matches' = [matches EXCEPT ![r].cooling = IF cooling THEN @ \cup {c} ELSE @ \ {c}]
          PROVE  CacheInv'
      <3>. DEFINE list == IF cooling THEN matches[r].cooling \cup {c} ELSE matches[r].cooling \ {c}
                  match == [matches[r] EXCEPT !.cooling = list]
      <3>1. matches[r].cooling \subseteq Channels /\ list \subseteq Channels
            /\ \A k \in Channels : k \notin list => k \notin matches[r].cooling \/ (k = c /\ ~cooling)
        BY <1>4 DEF MatchRow
      <3>2. /\ match \in MatchRow /\ match.at = matches[r].at /\ match.chans = matches[r].chans
            /\ match.cooling = list /\ match.at \in Nat /\ match.chans \subseteq Channels
        <4>. HIDE DEF list
        <4>. QED  BY <1>4, <3>1 DEF MatchRow
      <3>3. matches' = [matches EXCEPT ![r] = match]
        BY <2>2
      <3>. HIDE DEF match, list
      <3>4. ~cooling => lastTrue'[<<"ready", c>>] = clock'
        BY <1>2, <1>3, HoldsFacts DEF Recent
      <3>5. MatchTells(r, match, lastTrue', clock', clean', db')
        <4>. SUFFICES ASSUME match.at # 0
                      PROVE  \E start \in Nat :
                                /\ match.at <= start + LoadLimit
                                /\ ChannelsTell(r, match.chans, match.cooling, match.at, start,
                                                lastTrue', clean', db')
          BY <1>4, <3>2 DEF MatchTells
        <4>1. PICK start \in Nat :
                 /\ match.at <= start + LoadLimit
                 /\ ChannelsTell(r, match.chans, matches[r].cooling, match.at, start,
                                 lastTrue', clean', db')
          BY <1>4, <3>2 DEF MatchTells
        <4>2. match.at <= clock'
          BY <1>4, <3>2 DEF MatchTells
        <4>3. ChannelsTell(r, match.chans, match.cooling, match.at, start, lastTrue', clean', db')
          BY <1>3, <3>1, <3>2, <3>4, <4>1, <4>2 DEF ChannelsTell
        <4>. QED  BY <4>1, <4>3
      <3>6. /\ matches' \in [Routes -> MatchRow]
            /\ \A q \in Routes : MatchTells(q, matches'[q], lastTrue', clock', clean', db')
        BY <1>4, <3>2, <3>3, <3>5 DEF CacheInv, CacheTyped
      <3>. QED  BY <1>1, <1>2, <1>3, <3>6, LaterKeeps, LoadingIsTimely DEF CacheInv, CacheTyped
    <2>. QED  BY <1>6, <2>1, <2>2 DEF Book, PatchCachedChannel
  <1>. QED  BY <1>5, <1>6

LEMMA AdvanceKeeps ==
    ASSUME CacheInv, Advance
    PROVE  CacheInv'
  <1>1. /\ clock' = clock + 1 /\ UNCHANGED <<db, routeCache, matches, reader, clean>>
        /\ lastTrue' = [f \in Facts |-> IF Holds(db, f) THEN clock' ELSE lastTrue[f]]
        /\ \A x \in Readers : Loading(x) => clock + 1 - reader[x].start <= LoadLimit
    BY DEF Advance
  <1>2. clock \in Nat /\ clock' \in Nat /\ clock' >= clock
    BY <1>1, CacheFacts
  <1>3. lastTrue \in [Facts -> Nat] /\ \A f \in Facts : lastTrue[f] <= clock
    BY CacheFacts DEF CacheInv, Recent
  <1>4. lastTrue' \in [Facts -> Nat] /\ (\A f \in Facts : lastTrue'[f] >= lastTrue[f])
        /\ \A f \in Facts : lastTrue'[f] <= clock' /\ (Holds(db, f) => lastTrue'[f] = clock')
    BY <1>1, <1>2, <1>3
  <1>5. Steady(lastTrue, lastTrue', clean, clean', db, db') /\ Recent(lastTrue', clock', db')
    BY <1>1, <1>3, <1>4 DEF Steady, Recent
  <1>6. \A x \in Readers : Loading(x) => clock' <= reader[x].start + LoadLimit
    <2>1. \A x \in Readers : reader[x].start \in Nat
      BY CacheFacts DEF ReaderRow
    <2>. QED  BY <1>1, <1>2, <2>1, AgesInt
  <1>7. \A r \in Routes : MatchTells(r, matches'[r], lastTrue', clock', clean', db')
    BY <1>1, <1>2, <1>5, AllMatchesStay
  <1>. QED  BY <1>1, <1>2, <1>5, <1>6, <1>7, LaterKeeps DEF CacheInv, CacheTyped

\* Empty caches and no load under way: nothing can be wrong.
LEMMA InvalidateKeeps ==
    ASSUME CacheInv, InvalidateTokenRouterCache
    PROVE  CacheInv'
  <1>1. /\ routeCache' = NoRoutes /\ matches' = [r \in Routes |-> NoMatch]
        /\ clean' = (\A x \in Readers : ~Loading(x)) /\ UNCHANGED <<db, reader, clock, lastTrue>>
    BY DEF InvalidateTokenRouterCache
  <1>2. clock \in Nat
    BY CacheFacts
  <1>3. CacheTyped'
    BY <1>1, <1>2, EmptyTells DEF CacheInv, CacheTyped
  <1>4. /\ RoutesTell(routeCache', lastTrue, clock, clean', db)
        /\ \A r \in Routes : MatchTells(r, matches'[r], lastTrue, clock, clean', db)
    BY <1>1, <1>2, EmptyTells
  <1>5. ASSUME NEW x \in Readers PROVE ReaderTells(reader[x], lastTrue, clock, clean', db)
    <2>1. reader[x] \in ReaderRow /\ ReaderTells(reader[x], lastTrue, clock, clean, db)
      BY CacheFacts DEF CacheInv
    <2>2. CASE clean'
      <3>1. reader[x].pc \in {"idle", "served"}
        BY <1>1, <2>2 DEF Loading
      <3>. QED  BY <2>1, <3>1 DEF ReaderTells
    <2>3. CASE ~clean'
      <3>1. Steady(lastTrue, lastTrue, clean, clean', db, db)
        BY <2>3, CacheFacts DEF Steady
      <3>2. reader[x].pc \notin {"idle", "served"} => clock <= reader[x].start + LoadLimit
        BY LoadingIsTimely DEF Loading
      <3>. QED  BY <1>2, <2>1, <3>1, <3>2, ReaderStays
    <2>. QED  BY <2>2, <2>3
  <1>. QED  BY <1>1, <1>3, <1>4, <1>5 DEF CacheInv

LEMMA CacheInitInv == CacheInit => CacheInv
  <1>. SUFFICES ASSUME CacheInit PROVE CacheInv
    OBVIOUS
  <1>1. CacheTyped
    <2>1. db \in RowsOfRoutes
      BY DEF CacheInit, RowsOfRoutes, Routes
    <2>2. routeCache \in RoutesRow /\ matches \in [Routes -> MatchRow]
      <3>1. 1 \in Nat
        OBVIOUS
      <3>. QED  BY <3>1, EmptyTells DEF CacheInit
    <2>3. reader \in [Readers -> ReaderRow]
      BY IdleRow DEF CacheInit
    <2>4. clock \in Nat \ {0} /\ clean \in BOOLEAN /\ lastTrue \in [Facts -> Nat]
      <3>1. clock = 1 /\ clean = FALSE /\ lastTrue = [f \in Facts |-> 1]
        BY DEF CacheInit
      <3>2. clean \in BOOLEAN
        BY <3>1, Zenon
      <3>3. clock \in Nat \ {0} /\ lastTrue \in [Facts -> Nat]
        BY <3>1, SMT
      <3>. QED  BY <3>2, <3>3
    <2>. QED  BY <2>1, <2>2, <2>3, <2>4 DEF CacheTyped
  <1>2. Recent(lastTrue, clock, db)
    BY DEF CacheInit, Recent
  <1>3. /\ RoutesTell(routeCache, lastTrue, clock, clean, db)
        /\ \A r \in Routes : MatchTells(r, matches[r], lastTrue, clock, clean, db)
    BY <1>1, EmptyTells DEF CacheInit, CacheTyped
  <1>4. \A x \in Readers : ReaderTells(reader[x], lastTrue, clock, clean, db)
    BY IdleRow DEF CacheInit
  <1>. QED  BY <1>1, <1>2, <1>3, <1>4 DEF CacheInv

LEMMA CacheNextInv == CacheInv /\ [CacheNext]_cacheVars => CacheInv'
  <1>. SUFFICES ASSUME CacheInv, [CacheNext]_cacheVars PROVE CacheInv'
    OBVIOUS
  <1>1. ASSUME NEW x \in Readers,
               \/ LookUp(x) \/ Return(x) \/ ReadRoutes(x) \/ ReadSources(x) \/ ReadChannels(x)
               \/ StoreMatch(x)
        PROVE  CacheInv'
    BY <1>1, LookUpKeeps, ReturnKeeps, ReadRoutesKeeps, ReadSourcesKeeps, ReadChannelsKeeps,
       StoreMatchKeeps
  <1>2. ASSUME NEW x \in Readers, NEW r \in Routes, Find(x, r) PROVE CacheInv'
    BY <1>2, FindKeeps
  <1>3. ASSUME NEW c \in Channels, Book(c, TRUE) \/ Book(c, FALSE) PROVE CacheInv'
    BY <1>3, BookKeeps
  <1>4. CASE WriteRoute \/ WriteSource \/ WriteChannel
    BY <1>4, WritesKeep
  <1>5. CASE InvalidateTokenRouterCache \/ Advance
    BY <1>5, InvalidateKeeps, AdvanceKeeps
  <1>6. CASE UNCHANGED cacheVars
    BY <1>6 DEF cacheVars, CacheInv, CacheTyped
  <1>. QED  BY <1>1, <1>2, <1>3, <1>4, <1>5, <1>6 DEF CacheNext

LEMMA CacheInvHolds == CacheSpec => []CacheInv
  BY CacheInitInv, CacheNextInv, PTL DEF CacheSpec

\* What a request is offered was true within one lifetime of the cache, or the time a
\* load takes; of routes and groups within two: for every lifetime and load time.
THEOREM StaleNoLonger == CacheSpec => []StaleWithinLifetime
  <1>1. CacheInv => StaleWithinLifetime
    BY DEF CacheInv, ReaderTells, ServedTells, StaleWithinLifetime
  <1>. QED  BY <1>1, CacheInvHolds, PTL

\* After an invalidation that met no load, what is cached is what the rows say.
THEOREM InvalidationHolds == CacheSpec => []InvalidationTakes
  <1>1. CacheInv => InvalidationTakes
    BY CacheFacts DEF CacheInv, MatchTells, ChannelsTell, InvalidationTakes
  <1>. QED  BY <1>1, CacheInvHolds, PTL

-----------------------------------------------------------------------------
(* The ranges of the type invariant *)

\* What a reader remembers of the time is past, and it has a route unless it is idle.
InTime(rec, now) ==
    rec.start <= now /\ rec.at <= now /\ (rec.pc # "idle" => rec.route \in Routes)

\* What CacheInv does not say: the bound of the clock, the readers in time.
CacheRanges ==
    /\ owed \in BOOLEAN /\ clock <= MaxNow
    /\ \A x \in Readers : InTime(reader[x], clock)

\* One reader moves on.
LEMMA ReaderInTime ==
    ASSUME CacheInv, CacheRanges, NEW x \in Readers, NEW rec, InTime(rec, clock),
           reader' = [reader EXCEPT ![x] = rec], UNCHANGED <<owed, clock>>
    PROVE  CacheRanges'
  BY CacheFacts DEF CacheRanges, InTime

\* A request begins: it has its route, and no time but now.
LEMMA FindRanges ==
    ASSUME CacheInv, CacheRanges, NEW x \in Readers, NEW route \in Routes, Find(x, route)
    PROVE  CacheRanges'
  <1>1. clock \in Nat /\ UNCHANGED <<owed, clock>>
    BY CacheFacts DEF Find
  <1>2. ASSUME NEW via,
               reader' = [reader EXCEPT ![x] = [Idle EXCEPT
                    !.pc = "found", !.route = route, !.start = clock, !.via = via]]
        PROVE  CacheRanges'
    <2>. DEFINE rec == [Idle EXCEPT !.pc = "found", !.route = route, !.start = clock, !.via = via]
    <2>1. InTime(rec, clock)
      BY <1>1 DEF Idle, InTime
    <2>. HIDE DEF rec
    <2>. QED  BY <1>1, <1>2, <2>1, ReaderInTime DEF rec
  <1>3. ASSUME reader' = [reader EXCEPT ![x] = [Idle EXCEPT
                    !.pc = "routes", !.route = route, !.start = clock, !.at = clock]]
        PROVE  CacheRanges'
    <2>. DEFINE rec == [Idle EXCEPT !.pc = "routes", !.route = route, !.start = clock, !.at = clock]
    <2>1. InTime(rec, clock)
      BY <1>1 DEF Idle, InTime
    <2>. HIDE DEF rec
    <2>. QED  BY <1>1, <1>3, <2>1, ReaderInTime DEF rec
  <1>. QED  BY <1>2, <1>3 DEF Find

\* The steps of a reader that keep its route: the time it notes is now.
LEMMA StepsInTime ==
    ASSUME CacheInv, CacheRanges, NEW x \in Readers,
           ReadRoutes(x) \/ ReadSources(x) \/ LookUp(x) \/ ReadChannels(x) \/ StoreMatch(x) \/ Return(x)
    PROVE  CacheRanges'
  <1>1. /\ clock \in Nat /\ reader \in [Readers -> ReaderRow] /\ reader[x] \in ReaderRow
        /\ InTime(reader[x], clock) /\ UNCHANGED <<owed, clock>>
    <2>1. clock \in Nat /\ reader \in [Readers -> ReaderRow] /\ InTime(reader[x], clock)
      BY CacheFacts DEF CacheTyped, CacheRanges
    <2>2. UNCHANGED <<owed, clock>>
      BY DEF ReadRoutes, ReadSources, LookUp, ReadChannels, StoreMatch, Return
    <2>. QED  BY <2>1, <2>2
  <1>2. InTime(Idle, clock)
    BY <1>1 DEF Idle, InTime
  <1>3. ASSUME NEW match, reader[x].pc # "idle" PROVE InTime(Served(x, match), clock)
    BY <1>1, <1>3 DEF Served, Idle, InTime
  <1>4. ASSUME NEW y \in Readers PROVE InTime(reader'[y], clock)
    <2>1. CASE y # x
      BY <1>1, <2>1 DEF ReadRoutes, ReadSources, LookUp, ReadChannels, StoreMatch, Return, CacheRanges
    <2>2. CASE y = x /\ ReadRoutes(x)
      BY <1>1, <2>2 DEF ReadRoutes, InTime, ReaderRow
    <2>3. CASE y = x /\ ReadSources(x)
      BY <1>1, <1>2, <2>3 DEF ReadSources, InTime, ReaderRow
    <2>4. CASE y = x /\ LookUp(x)
      BY <1>1, <1>3, <2>4 DEF LookUp, InTime, ReaderRow
    <2>5. CASE y = x /\ ReadChannels(x)
      BY <1>1, <2>5 DEF ReadChannels, InTime, ReaderRow
    <2>6. CASE y = x /\ StoreMatch(x)
      BY <1>1, <1>3, <2>6 DEF StoreMatch
    <2>7. CASE y = x /\ Return(x)
      BY <1>1, <1>2, <2>7 DEF Return
    <2>. QED  BY <2>1, <2>2, <2>3, <2>4, <2>5, <2>6, <2>7
  <1>. QED  BY <1>1, <1>4 DEF CacheRanges

\* Every step keeps the ranges.
LEMMA NextRanges == CacheInv /\ CacheRanges /\ [CacheNext]_cacheVars => CacheRanges'
  <1>. SUFFICES ASSUME CacheInv, CacheRanges, [CacheNext]_cacheVars PROVE CacheRanges'
    OBVIOUS
  <1>1. clock \in Nat /\ MaxNow \in Nat /\ reader \in [Readers -> ReaderRow]
    BY CacheFacts, RouteCacheAssumption DEF CacheTyped
  <1>2. ASSUME NEW x \in Readers,
               \/ LookUp(x) \/ Return(x) \/ ReadRoutes(x) \/ ReadSources(x) \/ ReadChannels(x)
               \/ StoreMatch(x)
        PROVE  CacheRanges'
    BY <1>2, StepsInTime
  <1>3. ASSUME NEW x \in Readers, NEW r \in Routes, Find(x, r) PROVE CacheRanges'
    BY <1>3, FindRanges
  <1>4. CASE UNCHANGED <<reader, owed, clock>>
    BY <1>4 DEF CacheRanges
  <1>5. CASE WriteRoute \/ WriteSource \/ WriteChannel \/ InvalidateTokenRouterCache
    <2>1. owed' \in BOOLEAN /\ UNCHANGED <<reader, clock>>
      BY <1>5 DEF WriteRoute, WriteSource, WriteChannel, WriteRows, InvalidateTokenRouterCache
    <2>. QED  BY <2>1 DEF CacheRanges
  <1>6. CASE Advance
    <2>1. clock < MaxNow /\ clock' = clock + 1 /\ UNCHANGED <<reader, owed>>
      BY <1>6 DEF Advance
    <2>2. \A x \in Readers : reader[x].start \in Nat /\ reader[x].at \in Nat
      BY <1>1 DEF ReaderRow
    <2>. QED  BY <1>1, <2>1, <2>2 DEF CacheRanges, InTime
  <1>7. ASSUME NEW c \in Channels, Book(c, TRUE) \/ Book(c, FALSE)
        PROVE  UNCHANGED <<reader, owed, clock>>
    BY <1>7 DEF Book
  <1>. QED  BY <1>2, <1>3, <1>4, <1>5, <1>6, <1>7 DEF CacheNext, cacheVars

\* The caches of the router keep their shape (loadEnabledRoutes, loadRouteMatch): no
\* snapshot, match or reader is ahead of the clock, and who is at work has a route.
THEOREM CacheTypeCorrect == CacheSpec => []CacheTypeOK
  <1>1. CacheInit => CacheRanges
    <2>. SUFFICES ASSUME CacheInit PROVE CacheRanges
      OBVIOUS
    <2>1. owed = FALSE /\ clock = 1 /\ \A x \in Readers : reader[x] = Idle
      BY DEF CacheInit
    <2>2. owed \in BOOLEAN
      BY <2>1, Zenon
    <2>3. InTime(Idle, 1)
      BY DEF InTime, Idle
    <2>. QED  BY <2>1, <2>2, <2>3, RouteCacheAssumption DEF CacheRanges
  <1>2. CacheInv /\ CacheRanges => CacheTypeOK
    <2>. SUFFICES ASSUME CacheInv, CacheRanges PROVE CacheTypeOK
      OBVIOUS
    <2>1. /\ clock \in 1..MaxNow /\ MaxNow \in Nat
          /\ \A n \in Nat : n <= clock => n \in 0..MaxNow /\ n \in 0..clock
      BY CacheFacts, RouteCacheAssumption DEF CacheRanges, CacheInv, CacheTyped
    <2>2. db \in RowsOfRoutes /\ owed \in BOOLEAN /\ clean \in BOOLEAN
      BY DEF CacheRanges, CacheInv, CacheTyped
    <2>3. routeCache \in [at : 0..MaxNow, on : SUBSET Routes, sources : [Groups -> SUBSET Patterns]]
      <3>1. routeCache \in RoutesRow /\ routeCache.at <= clock
        BY DEF CacheInv, CacheTyped, RoutesTell
      <3>. QED  BY <2>1, <3>1 DEF RoutesRow
    <2>4. matches \in [Routes -> [at : 0..MaxNow, chans : SUBSET Channels, cooling : SUBSET Channels]]
      <3>1. matches \in [Routes -> MatchRow] /\ \A r \in Routes : matches[r].at <= clock
        BY DEF CacheInv, CacheTyped, MatchTells
      <3>. QED  BY <2>1, <3>1 DEF MatchRow
    <2>5. lastTrue \in [Facts -> 0..clock]
      BY <2>1 DEF CacheInv, CacheTyped, Recent
    <2>6. \A x \in Readers :
            /\ reader[x].pc \in {"idle", "routes", "sources", "found", "channels", "store", "served"}
            /\ reader[x].for \in {"find", "match"}
            /\ reader[x].pc # "idle" => reader[x].route \in Routes
            /\ reader[x].start <= clock /\ reader[x].at <= clock
      BY CacheFacts DEF CacheRanges, InTime, ReaderRow, ReaderStages
    <2>. QED  BY <2>1, <2>2, <2>3, <2>4, <2>5, <2>6 DEF CacheTypeOK, RowsOfRoutes
  <1>. QED  BY CacheInitInv, CacheNextInv, NextRanges, <1>1, <1>2, PTL DEF CacheSpec

-----------------------------------------------------------------------------
(***************************************************************************)
(* Models and their routes                                                 *)
(***************************************************************************)

ModelAccountRows == [gen : Nat, up : SUBSET ModelNames, down : SUBSET ModelNames]
RouteRecs == [model : ModelNames, id : Nat \ {0}]
RouteChannelRecs == [route : RouteRecs, account : ModelAccounts, id : Nat \ {0}]
ProbeTargets == [model : ModelNames, up : BOOLEAN, gen : Nat]

PassPcs == {"idle", "accounts", "probing", "discovering", "rebuild"} \cup Rebuilding
DiscoverySteps == {"before", "clear", "ask", "restore", "reinsert", "done"}
PassRecs ==
    [kind : {"none", "probe", "refresh", "check", "update"}, pc : PassPcs,
     todo : SUBSET ModelAccounts, at : SUBSET ModelAccounts, targets : SUBSET ProbeTargets,
     changed : BOOLEAN, discovery : [ModelAccounts -> DiscoverySteps], restore : BOOLEAN,
     before : ModelAccountRows, rejected : BOOLEAN, want : SUBSET (ModelNames \X ModelAccounts),
     seenRoutes : SUBSET RouteRecs, seenChannels : SUBSET RouteChannelRecs]

Disjoint(row) == row.up \cap row.down = {}

\* A pass that is not idle is one of a kind; a refresh is discovering or rebuilding.
Kinds(rec) ==
    /\ Disjoint(rec.before)
    /\ rec.pc = "idle" <=> rec = NoPass
    /\ rec.kind = "refresh" => rec.pc \in {"discovering", "rebuild"} \cup Rebuilding

RoutesTyped ==
    /\ rows \in [ModelAccounts -> ModelAccountRows] /\ \A a \in ModelAccounts : Disjoint(rows[a])
    /\ active \in SUBSET ModelAccounts /\ blocked \in SUBSET ModelNames
    /\ probeAccountLeases \in SUBSET ModelAccounts
    /\ tokenRoutes \in SUBSET RouteRecs /\ routeChannels \in SUBSET RouteChannelRecs
    /\ \A ch \in routeChannels : ch.route \in tokenRoutes
    /\ pass \in [Passes -> PassRecs]
    /\ \A p \in Passes : Kinds(pass[p])
    /\ runs \in 0..MaxRuns /\ faults \in 0..MaxFaults
    /\ raced \in BOOLEAN /\ unserved \in BOOLEAN

\* Ids stay below some number, so that there is a next one.
IdsBelow(n) ==
    /\ \A r \in tokenRoutes : r.id <= n
    /\ \A ch \in routeChannels : ch.id <= n
    /\ \A p \in Passes : /\ \A r \in pass[p].seenRoutes : r.id <= n
                         /\ \A ch \in pass[p].seenChannels : ch.id <= n
IdsBounded == \E n \in Nat : IdsBelow(n)

\* What a probe has read of its account is still so, or the rows it read are gone.
TargetKnows(t, row) ==
    /\ t.gen <= row.gen
    /\ t.gen = row.gen => t.model \in (IF t.up THEN row.up ELSE row.down)
ProbeKnows(rec, data) ==
    /\ rec.pc = "probing" => \E a \in ModelAccounts : rec.at = {a}
    /\ rec.pc # "probing" => rec.at = {}
    /\ \A a \in rec.at, t \in rec.targets : TargetKnows(t, data[a])
    /\ \A t, u \in rec.targets : t.model = u.model => t = u
ProbesKnow ==
    /\ \A p \in Passes : ProbeKnows(pass[p], rows) /\ pass[p].at \subseteq probeAccountLeases
    /\ \A p, q \in Passes : p # q => pass[p].at \cap pass[q].at = {}

\* A rebuild that has the tables for itself knows what is in them.
Building(rec) == rec.pc \in Rebuilding
SoloKnows(rec, routes, channels) ==
    /\ rec.pc \in {"channels", "writing"} => rec.seenRoutes = routes
    /\ rec.pc = "writing" =>
        /\ channels \subseteq rec.seenChannels
        /\ \A ch \in rec.seenChannels :
             (\E w \in rec.want : w[1] = ch.route.model) => ch \in channels
Solo == ~raced =>
    /\ \A p, q \in Passes : Building(pass[p]) /\ Building(pass[q]) => p = q
    /\ \A p \in Passes : SoloKnows(pass[p], tokenRoutes, routeChannels)

\* A pass that has changed what is available, or may yet, and has its rebuild to come.
Dirty(rec) == \/ rec.pc \in {"discovering", "rebuild"}
              \/ rec.pc \in {"accounts", "probing"} /\ rec.changed

WantedOf(want, m) == {a \in ModelAccounts : <<m, a>> \in want}
Follow(want, routes, channels) ==
    \A m \in ModelNames :
        /\ WantedOf(want, m) = {} <=> Of(routes, m) = {}
        /\ WantedOf(want, m) # {} =>
            {ch.account : ch \in {k \in channels : k.route = ExactRoute(routes, m)}}
                = WantedOf(want, m)

RoutesServed ==
    ~raced /\ ~unserved /\ (\A p \in Passes : ~Dirty(pass[p])) =>
        /\ \A p \in Passes : Building(pass[p]) => pass[p].want = Wanted
        /\ (\A p \in Passes : ~Building(pass[p])) => Follow(Wanted, tokenRoutes, routeChannels)

RebuildInv == RoutesTyped /\ IdsBounded /\ ProbesKnow /\ Solo /\ RoutesServed

-----------------------------------------------------------------------------
(* Numbers and ids                                                          *)

LEMMA LeastNatural ==
    ASSUME NEW T \in SUBSET Nat, T # {}
    PROVE  \E x \in T : \A y \in T : x <= y
  <1> DEFINE R == OpToRel(<, Nat)
  <1>1. IsWellFoundedOn(R, Nat)
    BY NatLessThanWellFounded
  <1>2. \A x, y \in Nat : x < y => <<x, y>> \in R
    BY DEF OpToRel
  <1> HIDE DEF R
  <1>3. PICK x \in T : \A y \in T : ~(<<y, x>> \in R)
    BY <1>1, WFMin
  <1>4. \A y \in T : ~(y < x)
    BY <1>2, <1>3
  <1>5. \A y \in T : x <= y
    BY <1>4
  <1>. QED  BY <1>5

LEMMA MaxOfBounded ==
    ASSUME NEW S \in SUBSET Nat, S # {}, NEW n \in Nat, \A x \in S : x <= n
    PROVE  Max(S) \in S
  <1> DEFINE Bounds == {b \in Nat : \A x \in S : x <= b}
  <1>1. n \in Bounds /\ Bounds \in SUBSET Nat
    OBVIOUS
  <1> HIDE DEF Bounds
  <1>2. PICK b \in Bounds : \A c \in Bounds : b <= c
    BY <1>1, LeastNatural
  <1>3. b \in S
    <2> SUFFICES ASSUME b \notin S  PROVE FALSE
      OBVIOUS
    <2>1. PICK s \in S : TRUE
      OBVIOUS
    <2>2. b \in Nat /\ \A x \in S : x \in Nat /\ x < b
      BY DEF Bounds
    <2>3. b - 1 \in Bounds
      BY <2>1, <2>2 DEF Bounds
    <2>. QED  BY <2>2, <2>3, <1>2
  <1>4. \A y \in S : b >= y
    BY DEF Bounds
  <1>. QED  BY <1>3, <1>4 DEF Max

\* The next id is a natural number, one above some id at most.
LEMMA FreshId ==
    ASSUME NEW S \in SUBSET Nat, NEW n \in Nat, \A x \in S : x <= n
    PROVE  1 + Max({0} \cup S) \in Nat \ {0} /\ 1 + Max({0} \cup S) <= n + 1
  <1>1. {0} \cup S \in SUBSET Nat /\ \A x \in {0} \cup S : x <= n
    OBVIOUS
  <1>2. Max({0} \cup S) \in {0} \cup S
    BY <1>1, MaxOfBounded
  <1>3. \A x \in {0} \cup S : 1 + x \in Nat \ {0} /\ 1 + x <= n + 1
    BY <1>1
  <1>. QED  BY <1>2, <1>3

LEMMA NewRouteIs ==
    ASSUME RoutesTyped, NEW n \in Nat, IdsBelow(n), NEW m \in ModelNames
    PROVE  /\ NewRoute(m) \in RouteRecs
           /\ NewRoute(m).model = m /\ NewRoute(m).id <= n + 1
  <1> DEFINE known == tokenRoutes \cup UNION {pass[q].seenRoutes : q \in Passes}
             Ids == {r.id : r \in Of(known, m)}
  <1>1. \A q \in Passes : pass[q].seenRoutes \in SUBSET RouteRecs
    BY DEF RoutesTyped, PassRecs
  <1>2. \A r \in known : r.id \in Nat /\ r.id <= n
    BY <1>1 DEF RoutesTyped, RouteRecs, IdsBelow
  <1>3. Ids \in SUBSET Nat /\ \A x \in Ids : x <= n
    BY <1>2 DEF Of
  <1>4. NewRoute(m) = [model |-> m, id |-> 1 + Max({0} \cup Ids)]
    BY DEF NewRoute
  <1> HIDE DEF Ids
  <1>5. 1 + Max({0} \cup Ids) \in Nat \ {0} /\ 1 + Max({0} \cup Ids) <= n + 1
    BY <1>3, FreshId
  <1>. QED  BY <1>4, <1>5 DEF RouteRecs

LEMMA NewChannelIs ==
    ASSUME RoutesTyped, NEW n \in Nat, IdsBelow(n), NEW r \in RouteRecs, NEW a \in ModelAccounts
    PROVE  /\ NewChannel(r, a) \in RouteChannelRecs
           /\ NewChannel(r, a).route = r /\ NewChannel(r, a).account = a
           /\ NewChannel(r, a).id <= n + 1
  <1> DEFINE known == routeChannels \cup UNION {pass[q].seenChannels : q \in Passes}
             Ids == {ch.id : ch \in {k \in known : k.route = r /\ k.account = a}}
  <1>1. \A q \in Passes : pass[q].seenChannels \in SUBSET RouteChannelRecs
    BY DEF RoutesTyped, PassRecs
  <1>2. \A k \in known : k.id \in Nat /\ k.id <= n
    BY <1>1 DEF RoutesTyped, RouteChannelRecs, IdsBelow
  <1>3. Ids \in SUBSET Nat /\ \A x \in Ids : x <= n
    BY <1>2
  <1>4. NewChannel(r, a) = [route |-> r, account |-> a, id |-> 1 + Max({0} \cup Ids)]
    BY DEF NewChannel
  <1> HIDE DEF Ids
  <1>5. 1 + Max({0} \cup Ids) \in Nat \ {0} /\ 1 + Max({0} \cup Ids) <= n + 1
    BY <1>3, FreshId
  <1>. QED  BY <1>4, <1>5 DEF RouteChannelRecs

\* Requests for a model that has routes get one of them.
LEMMA ExactRouteIs ==
    ASSUME NEW routes \in SUBSET RouteRecs, NEW m, Of(routes, m) # {}
    PROVE  ExactRoute(routes, m) \in routes /\ ExactRoute(routes, m).model = m
  <1> DEFINE Ids == {r.id : r \in Of(routes, m)}
  <1>1. Ids \in SUBSET Nat /\ Ids # {}
    BY DEF Of, RouteRecs
  <1>2. PICK i \in Ids : \A j \in Ids : i <= j
    <2> HIDE DEF Ids
    <2>. QED  BY <1>1, LeastNatural
  <1>3. PICK r \in Of(routes, m) : r.id = i
    OBVIOUS
  <1>4. \A s \in Of(routes, m) : r.id <= s.id
    BY <1>2, <1>3
  <1>. QED  BY <1>3, <1>4 DEF ExactRoute, Of

-----------------------------------------------------------------------------
(* What does not end the invariant                                          *)

LEMMA IdlePass ==
    /\ NoRows \in ModelAccountRows /\ NoPass \in PassRecs /\ Kinds(NoPass)
    /\ \A data : ProbeKnows(NoPass, data)
    /\ \A routes, channels : SoloKnows(NoPass, routes, channels)
    /\ NoPass.at = {} /\ NoPass.targets = {} /\ NoPass.seenRoutes = {} /\ NoPass.seenChannels = {}
    /\ NoPass.pc = "idle" /\ ~Building(NoPass) /\ ~Dirty(NoPass)
  <1>1. NoRows \in ModelAccountRows
    BY DEF NoRows, ModelAccountRows
  <1>2. NoPass \in PassRecs
    BY <1>1 DEF NoPass, PassRecs, PassPcs, DiscoverySteps
  <1>. QED
    BY <1>1, <1>2 DEF NoPass, NoRows, Kinds, Disjoint, ProbeKnows, SoloKnows, Building, Rebuilding,
                      Dirty

\* Only one pass moves, the tables stay: the shape, and the ids.
LEMMA MoveTyped ==
    ASSUME RoutesTyped, IdsBounded, NEW p \in Passes, NEW rec \in PassRecs, Kinds(rec),
           Become(p, rec), UNCHANGED builtVars,
           rows' \in [ModelAccounts -> ModelAccountRows], \A a \in ModelAccounts : Disjoint(rows'[a]),
           active' \in SUBSET ModelAccounts, blocked' \in SUBSET ModelNames,
           probeAccountLeases' \in SUBSET ModelAccounts,
           runs' \in 0..MaxRuns, faults' \in 0..MaxFaults, raced' \in BOOLEAN,
           unserved' \in BOOLEAN,
           rec.seenRoutes \subseteq pass[p].seenRoutes \cup tokenRoutes,
           rec.seenChannels \subseteq pass[p].seenChannels \cup routeChannels
    PROVE  RoutesTyped' /\ IdsBounded'
  <1>1. pass' = [pass EXCEPT ![p] = rec] /\ pass \in [Passes -> PassRecs]
    BY DEF Become, RoutesTyped
  <1>2. pass' \in [Passes -> PassRecs] /\ pass'[p] = rec
        /\ \A q \in Passes \ {p} : pass'[q] = pass[q]
    BY <1>1
  <1>3. RoutesTyped'
    <2>1. \A q \in Passes : Kinds(pass'[q])
      BY <1>2 DEF RoutesTyped
    <2>2. /\ tokenRoutes' \in SUBSET RouteRecs /\ routeChannels' \in SUBSET RouteChannelRecs
          /\ \A ch \in routeChannels' : ch.route \in tokenRoutes'
      BY DEF RoutesTyped, builtVars
    <2>. QED  BY <1>2, <2>1, <2>2 DEF RoutesTyped
  <1>4. PICK n \in Nat : IdsBelow(n)
    BY DEF IdsBounded
  <1>5. IdsBelow(n)'
    <2>1. tokenRoutes' = tokenRoutes /\ routeChannels' = routeChannels
      BY DEF builtVars
    <2>2. \A r \in rec.seenRoutes : r.id <= n
      BY <1>4 DEF IdsBelow
    <2>3. \A ch \in rec.seenChannels : ch.id <= n
      BY <1>4 DEF IdsBelow
    <2>4. \A q \in Passes : /\ \A r \in pass'[q].seenRoutes : r.id <= n
                            /\ \A ch \in pass'[q].seenChannels : ch.id <= n
      BY <1>2, <1>4, <2>2, <2>3 DEF IdsBelow
    <2>. QED  BY <1>4, <2>1, <2>4 DEF IdsBelow
  <1>. QED  BY <1>3, <1>5 DEF IdsBounded

\* ... what probes know,
LEMMA MoveProbes ==
    ASSUME RoutesTyped, ProbesKnow, NEW p \in Passes, NEW rec, Become(p, rec),
           ProbeKnows(rec, rows'), \A q \in Passes \ {p} : ProbeKnows(pass[q], rows'),
           rec.at \subseteq probeAccountLeases',
           \A q \in Passes \ {p} : pass[q].at \subseteq probeAccountLeases'
                                    /\ rec.at \cap pass[q].at = {}
    PROVE  ProbesKnow'
  <1>1. pass' = [pass EXCEPT ![p] = rec] /\ pass \in [Passes -> PassRecs]
    BY DEF Become, RoutesTyped
  <1>2. pass'[p] = rec /\ \A q \in Passes \ {p} : pass'[q] = pass[q]
    BY <1>1
  <1>. QED  BY <1>2 DEF ProbesKnow

\* ... and what the rebuild knows.
LEMMA MoveSolo ==
    ASSUME RoutesTyped, Solo, NEW p \in Passes, NEW rec, Become(p, rec), UNCHANGED builtVars,
           raced' = raced, Building(rec) => Building(pass[p]),
           SoloKnows(pass[p], tokenRoutes, routeChannels)
               => SoloKnows(rec, tokenRoutes, routeChannels)
    PROVE  Solo'
  <1>1. pass' = [pass EXCEPT ![p] = rec] /\ pass \in [Passes -> PassRecs]
    BY DEF Become, RoutesTyped
  <1>2. pass'[p] = rec /\ \A q \in Passes \ {p} : pass'[q] = pass[q]
    BY <1>1
  <1>3. tokenRoutes' = tokenRoutes /\ routeChannels' = routeChannels
    BY DEF builtVars
  <1>. QED  BY <1>2, <1>3 DEF Solo

\* A rebuild is still to come, or nothing is promised.
LEMMA MoveOwes ==
    ASSUME RoutesTyped, NEW p \in Passes, NEW rec, Become(p, rec),
           Dirty(rec) \/ unserved'
    PROVE  RoutesServed'
  <1>1. pass' = [pass EXCEPT ![p] = rec] /\ pass \in [Passes -> PassRecs]
    BY DEF Become, RoutesTyped
  <1>2. pass'[p] = rec
    BY <1>1
  <1>. QED  BY <1>2 DEF RoutesServed

\* Nothing that concerns the routes has changed.
LEMMA MoveServed ==
    ASSUME RoutesTyped, RoutesServed, NEW p \in Passes, NEW rec, Become(p, rec), UNCHANGED builtVars,
           raced' = raced, unserved' = unserved, Wanted' = Wanted, Dirty(pass[p]) => Dirty(rec),
           Building(rec) <=> Building(pass[p]), Building(rec) => rec.want = pass[p].want
    PROVE  RoutesServed'
  <1>1. pass' = [pass EXCEPT ![p] = rec] /\ pass \in [Passes -> PassRecs]
    BY DEF Become, RoutesTyped
  <1>2. pass'[p] = rec /\ \A q \in Passes \ {p} : pass'[q] = pass[q]
    BY <1>1
  <1>3. tokenRoutes' = tokenRoutes /\ routeChannels' = routeChannels
    BY DEF builtVars
  <1>4. Follow(Wanted, tokenRoutes, routeChannels)
            => Follow(Wanted', tokenRoutes', routeChannels')
    BY <1>3
  <1>. QED  BY <1>2, <1>4 DEF RoutesServed

-----------------------------------------------------------------------------
(* Discovery, and what the operator does                                    *)

\* Rows are replaced, or some are added.
RowsLater(row, new) ==
    \/ row.gen < new.gen
    \/ row.gen = new.gen /\ row.up \subseteq new.up /\ row.down \subseteq new.down

LEMMA KnowsLater ==
    ASSUME NEW rec \in PassRecs, NEW old \in [ModelAccounts -> ModelAccountRows],
           NEW new \in [ModelAccounts -> ModelAccountRows],
           \A a \in ModelAccounts : RowsLater(old[a], new[a]), ProbeKnows(rec, old)
    PROVE  ProbeKnows(rec, new)
  <1>1. SUFFICES ASSUME NEW a \in rec.at, NEW t \in rec.targets
                 PROVE  TargetKnows(t, new[a])
    BY DEF ProbeKnows
  <1>2. TargetKnows(t, old[a]) /\ a \in ModelAccounts /\ t.gen \in Nat
    BY <1>1 DEF ProbeKnows, PassRecs, ProbeTargets
  <1>3. old[a].gen \in Nat /\ new[a].gen \in Nat /\ RowsLater(old[a], new[a])
    BY <1>2 DEF ModelAccountRows
  <1>. QED  BY <1>2, <1>3 DEF TargetKnows, RowsLater

\* The new rows of one account, and those of the others as they were.
LEMMA OneAccount ==
    ASSUME RoutesTyped, NEW a \in ModelAccounts, NEW new \in ModelAccountRows, Disjoint(new),
           RowsLater(rows[a], new), rows' = [rows EXCEPT ![a] = new]
    PROVE  /\ rows' \in [ModelAccounts -> ModelAccountRows]
           /\ \A b \in ModelAccounts : Disjoint(rows'[b]) /\ RowsLater(rows[b], rows'[b])
  BY DEF RoutesTyped, RowsLater

LEMMA ClearedRows ==
    ASSUME RoutesTyped, NEW a \in ModelAccounts, rows' = Cleared(a)
    PROVE  /\ rows' \in [ModelAccounts -> ModelAccountRows]
           /\ \A b \in ModelAccounts : Disjoint(rows'[b]) /\ RowsLater(rows[b], rows'[b])
  <1> DEFINE new == [NoRows EXCEPT !.gen = rows[a].gen + 1]
  <1>1. rows[a].gen \in Nat
    BY DEF RoutesTyped, ModelAccountRows
  <1>2. new = [gen |-> rows[a].gen + 1, up |-> {}, down |-> {}]
    BY DEF NoRows
  <1>3. new \in ModelAccountRows /\ Disjoint(new) /\ RowsLater(rows[a], new)
    BY <1>1, <1>2 DEF ModelAccountRows, Disjoint, RowsLater
  <1>4. rows' = [rows EXCEPT ![a] = new]
    BY DEF Cleared
  <1> HIDE DEF new
  <1>. QED  BY <1>3, <1>4, OneAccount

LEMMA RowWith ==
    ASSUME NEW row \in ModelAccountRows, NEW u, NEW d
    PROVE  [row EXCEPT !.up = @ \cup u, !.down = @ \cup d]
             = [gen |-> row.gen, up |-> row.up \cup u, down |-> row.down \cup d]
  <1> DEFINE more == row.up \cup u
             less == row.down \cup d
             mid == [row EXCEPT !.up = more]
  <1>1. mid = [gen |-> row.gen, up |-> more, down |-> row.down]
    <2> HIDE DEF more
    <2>. QED  BY DEF ModelAccountRows
  <1>2. [mid EXCEPT !.down = less] = [gen |-> row.gen, up |-> more, down |-> less]
    <2> HIDE DEF mid, more, less
    <2>. QED  BY <1>1
  <1>. QED  BY <1>2

LEMMA AddedRows ==
    ASSUME RoutesTyped, NEW a \in ModelAccounts, NEW up \in SUBSET ModelNames,
           NEW down \in SUBSET ModelNames, up \cap down = {}, (up \cup down) \cap HasRows(a) = {},
           rows' = [rows EXCEPT ![a].up = @ \cup up, ![a].down = @ \cup down]
    PROVE  /\ rows' \in [ModelAccounts -> ModelAccountRows]
           /\ \A b \in ModelAccounts : Disjoint(rows'[b]) /\ RowsLater(rows[b], rows'[b])
  <1> DEFINE new == [gen |-> rows[a].gen, up |-> rows[a].up \cup up,
                     down |-> rows[a].down \cup down]
  <1>1. rows[a] \in ModelAccountRows /\ Disjoint(rows[a]) /\ rows \in [ModelAccounts -> ModelAccountRows]
    BY DEF RoutesTyped
  <1>2. new \in ModelAccountRows /\ Disjoint(new) /\ RowsLater(rows[a], new)
    BY <1>1 DEF ModelAccountRows, Disjoint, RowsLater, HasRows
  <1>3. rows' = [rows EXCEPT ![a] = new]
    <2>1. [rows[a] EXCEPT !.up = @ \cup up, !.down = @ \cup down] = new
      BY <1>1, RowWith
    <2>2. rows' = [rows EXCEPT ![a] = [rows[a] EXCEPT !.up = @ \cup up, !.down = @ \cup down]]
      BY <1>1
    <2> HIDE DEF new
    <2>. QED  BY <2>1, <2>2
  <1> HIDE DEF new
  <1>. QED  BY <1>2, <1>3, OneAccount

\* A step after which a rebuild is owed: by the pass that took it, or by whoever
\* comes next.
LEMMA OwingStep ==
    ASSUME RebuildInv, NEW p \in Passes, NEW rec \in PassRecs, Become(p, rec), Kinds(rec),
           UNCHANGED <<probeAccountLeases, builtVars, raced>>,
           rec.pc \in {"discovering", "rebuild"} \/ (rec = NoPass /\ unserved'),
           rec.at = {}, rec.targets = {} \/ rec.targets = pass[p].targets,
           rec.seenRoutes = {} \/ rec.seenRoutes = pass[p].seenRoutes,
           rec.seenChannels = {} \/ rec.seenChannels = pass[p].seenChannels,
           rows' \in [ModelAccounts -> ModelAccountRows],
           \A a \in ModelAccounts : Disjoint(rows'[a]) /\ RowsLater(rows[a], rows'[a]),
           active' \in SUBSET ModelAccounts, blocked' \in SUBSET ModelNames,
           runs' \in 0..MaxRuns, faults' \in 0..MaxFaults, unserved' \in BOOLEAN
    PROVE  RebuildInv'
  <1>1. rec.pc \in {"discovering", "rebuild", "idle"}
    BY IdlePass
  <1>2. RoutesTyped /\ IdsBounded /\ ProbesKnow /\ Solo
    BY DEF RebuildInv
  <1>3. RoutesTyped' /\ IdsBounded'
    <2>1. probeAccountLeases' \in SUBSET ModelAccounts /\ raced' \in BOOLEAN
      BY <1>2 DEF RoutesTyped
    <2>2. UNCHANGED builtVars
      OBVIOUS
    <2>3. /\ rec.seenRoutes \subseteq pass[p].seenRoutes \cup tokenRoutes
          /\ rec.seenChannels \subseteq pass[p].seenChannels \cup routeChannels
      OBVIOUS
    <2>4. \A a \in ModelAccounts : Disjoint(rows'[a])
      OBVIOUS
    <2>. QED  BY <1>2, <2>1, <2>2, <2>3, <2>4, MoveTyped
  <1>4. ProbesKnow'
    <2>1. \A q \in Passes : ProbeKnows(pass[q], rows) /\ pass[q] \in PassRecs
      BY <1>2 DEF ProbesKnow, RoutesTyped
    <2>2. \A q \in Passes : ProbeKnows(pass[q], rows')
      <3>1. rows \in [ModelAccounts -> ModelAccountRows]
        BY <1>2 DEF RoutesTyped
      <3>. QED  BY <2>1, <3>1, KnowsLater
    <2>3. ProbeKnows(rec, rows')
      BY <1>1, <2>1 DEF ProbeKnows
    <2>4. rec.at \subseteq probeAccountLeases'
          /\ \A q \in Passes \ {p} : pass[q].at \subseteq probeAccountLeases'
                                      /\ rec.at \cap pass[q].at = {}
      BY <1>2 DEF ProbesKnow
    <2>. QED  BY <1>2, <2>2, <2>3, <2>4, MoveProbes
  <1>5. Solo'
    <2>1. ~Building(rec) /\ SoloKnows(rec, tokenRoutes, routeChannels)
      BY <1>1 DEF Building, Rebuilding, SoloKnows
    <2>2. UNCHANGED builtVars /\ raced' = raced
      OBVIOUS
    <2>. QED  BY <1>2, <2>1, <2>2, MoveSolo
  <1>6. RoutesServed'
    <2>1. Dirty(rec) \/ unserved'
      BY DEF Dirty
    <2>. QED  BY <1>2, <2>1, MoveOwes
  <1>. QED  BY <1>3, <1>4, <1>5, <1>6 DEF RebuildInv

\* A pass that begins, and the one it becomes when it has read what it needs.
Begun(rec) ==
    /\ rec \in PassRecs /\ Kinds(rec) /\ rec.at = {} /\ rec.targets = {}
    /\ rec.seenRoutes = {} /\ rec.seenChannels = {}

LEMMA BegunPass ==
    ASSUME NEW rec \in PassRecs, rec.pc # "idle",
           rec.kind = "refresh" => rec.pc \in {"discovering", "rebuild"},
           rec.at = {}, rec.targets = {}, rec.seenRoutes = {}, rec.seenChannels = {},
           rec.before = NoRows
    PROVE  Begun(rec)
  BY DEF Begun, Kinds, NoPass, NoRows, Disjoint

LEMMA BegunRefresh ==
    ASSUME RoutesTyped
    PROVE  Begun(NewRefresh) /\ NewRefresh.pc = "discovering"
  <1> DEFINE steps == [a \in ModelAccounts |-> IF a \in active THEN "clear" ELSE "done"]
  <1>1. steps \in [ModelAccounts -> DiscoverySteps]
    BY DEF DiscoverySteps
  <1>2. NewRefresh = [NoPass EXCEPT !.kind = "refresh", !.pc = "discovering", !.discovery = steps]
    BY DEF NewRefresh
  <1> HIDE DEF steps
  <1>3. /\ NewRefresh \in PassRecs /\ NewRefresh.pc = "discovering"
        /\ NewRefresh.at = {} /\ NewRefresh.targets = {}
        /\ NewRefresh.seenRoutes = {} /\ NewRefresh.seenChannels = {}
        /\ NewRefresh.before = NoRows
    BY <1>1, <1>2, IdlePass DEF NoPass, PassRecs, PassPcs
  <1>. QED  BY <1>3, BegunPass

LEMMA BegunCheck ==
    ASSUME NEW a \in ModelAccounts, NEW restore \in BOOLEAN, NEW step \in DiscoverySteps, NEW rec,
           rec = [NoPass EXCEPT !.kind = "check", !.pc = "discovering", !.restore = restore,
                                !.discovery[a] = step]
    PROVE  Begun(rec) /\ rec.pc = "discovering"
  <1>1. rec \in PassRecs /\ rec.pc = "discovering" /\ rec.kind = "check"
        /\ rec.at = {} /\ rec.targets = {} /\ rec.seenRoutes = {} /\ rec.seenChannels = {}
        /\ rec.before = NoRows
    BY IdlePass DEF NoPass, PassRecs, PassPcs, DiscoverySteps
  <1>. QED  BY <1>1, BegunPass

LEMMA BegunRebuild ==
    ASSUME NEW kind \in {"none", "probe", "refresh", "check", "update"}, NEW rec,
           rec = [NoPass EXCEPT !.kind = kind, !.pc = "rebuild"]
    PROVE  Begun(rec) /\ rec.pc = "rebuild"
  <1>1. rec \in PassRecs /\ rec.pc = "rebuild"
        /\ rec.at = {} /\ rec.targets = {} /\ rec.seenRoutes = {} /\ rec.seenChannels = {}
        /\ rec.before = NoRows
    BY IdlePass DEF NoPass, PassRecs, PassPcs
  <1>. QED  BY <1>1, BegunPass

LEMMA BegunProbe ==
    ASSUME NEW todo \in SUBSET ModelAccounts, NEW rec,
           rec = [NoPass EXCEPT !.kind = "probe", !.pc = "accounts", !.todo = todo]
    PROVE  Begun(rec) /\ rec.pc = "accounts" /\ rec.changed = FALSE
  <1>1. rec \in PassRecs /\ rec.pc = "accounts" /\ rec.changed = FALSE /\ rec.kind = "probe"
        /\ rec.at = {} /\ rec.targets = {} /\ rec.seenRoutes = {} /\ rec.seenChannels = {}
        /\ rec.before = NoRows
    BY IdlePass DEF NoPass, PassRecs, PassPcs
  <1>. QED  BY <1>1, BegunPass

\* A pass goes on discovering.
GoesOn(p, rec) ==
    /\ rec \in PassRecs /\ Kinds(rec) /\ Become(p, rec) /\ rec.pc = "discovering"
    /\ rec.at = {} /\ rec.targets = pass[p].targets
    /\ rec.seenRoutes = pass[p].seenRoutes /\ rec.seenChannels = pass[p].seenChannels

LEMMA GoingOn ==
    ASSUME RoutesTyped, ProbesKnow, NEW p \in Passes, pass[p].pc = "discovering",
           NEW a \in ModelAccounts, NEW step \in DiscoverySteps, NEW rec,
           NEW rejected \in BOOLEAN, NEW before \in ModelAccountRows, Disjoint(before),
           rec = [pass[p] EXCEPT !.discovery = [pass[p].discovery EXCEPT ![a] = step],
                                 !.rejected = rejected, !.before = before],
           pass' = [pass EXCEPT ![p] = rec]
    PROVE  GoesOn(p, rec)
  <1>1. pass[p] \in PassRecs /\ pass[p].at = {}
    BY DEF RoutesTyped, ProbesKnow, ProbeKnows
  <1>2. /\ rec \in PassRecs /\ rec.pc = "discovering" /\ rec.at = pass[p].at
        /\ rec.targets = pass[p].targets /\ rec.before = before
        /\ rec.seenRoutes = pass[p].seenRoutes /\ rec.seenChannels = pass[p].seenChannels
    BY <1>1 DEF PassRecs
  <1>3. Kinds(rec)
    BY <1>2 DEF Kinds, NoPass
  <1>. QED  BY <1>1, <1>2, <1>3 DEF GoesOn, Become

LEMMA Goes ==
    ASSUME RoutesTyped, ProbesKnow, NEW p \in Passes, pass[p].pc = "discovering",
           NEW a \in ModelAccounts, NEW step \in DiscoverySteps, Go(p, a, step)
    PROVE  \E rec : GoesOn(p, rec)
  <1> DEFINE rec == [pass[p] EXCEPT !.discovery = [pass[p].discovery EXCEPT ![a] = step],
                          !.rejected = pass[p].rejected, !.before = pass[p].before]
  <1>1. pass[p] \in PassRecs
    BY DEF RoutesTyped
  <1>2. pass' = [pass EXCEPT ![p] = rec]
    BY <1>1 DEF Go, RoutesTyped, PassRecs
  <1>3. pass[p].rejected \in BOOLEAN /\ pass[p].before \in ModelAccountRows /\ Disjoint(pass[p].before)
    BY <1>1 DEF PassRecs, RoutesTyped, Kinds
  <1> HIDE DEF rec
  <1>. QED  BY <1>2, <1>3, GoingOn DEF rec

LEMMA Rejects ==
    ASSUME RoutesTyped, ProbesKnow, NEW p \in Passes, pass[p].pc = "discovering",
           NEW a \in ModelAccounts, Reject(p, a)
    PROVE  \E rec : GoesOn(p, rec)
  <1> DEFINE rec == [pass[p] EXCEPT !.discovery = [pass[p].discovery EXCEPT ![a] = "done"],
                          !.rejected = TRUE, !.before = pass[p].before]
  <1>1. pass[p] \in PassRecs
    BY DEF RoutesTyped
  <1>2. pass' = [pass EXCEPT ![p] = rec]
    BY <1>1 DEF Reject, RoutesTyped, PassRecs
  <1>3. "done" \in DiscoverySteps /\ pass[p].before \in ModelAccountRows /\ Disjoint(pass[p].before)
    BY <1>1 DEF PassRecs, DiscoverySteps, RoutesTyped, Kinds
  <1> HIDE DEF rec
  <1>. QED  BY <1>2, <1>3, GoingOn DEF rec

\* Nothing has happened to the rows.
LEMMA SameRows ==
    ASSUME RoutesTyped, rows' = rows
    PROVE  /\ rows' \in [ModelAccounts -> ModelAccountRows]
           /\ \A b \in ModelAccounts : Disjoint(rows'[b]) /\ RowsLater(rows[b], rows'[b])
  BY DEF RoutesTyped, RowsLater

LEMMA BeginsOwing ==
    ASSUME RebuildInv, NEW p \in Passes, NEW rec, Begun(rec), rec.pc \in {"discovering", "rebuild"},
           Become(p, rec), UNCHANGED <<rows, probeAccountLeases, builtVars, faults, raced>>,
           active' \in SUBSET ModelAccounts, blocked' \in SUBSET ModelNames,
           runs' \in 0..MaxRuns, unserved' \in BOOLEAN
    PROVE  RebuildInv'
  <1>1. RoutesTyped
    BY DEF RebuildInv
  <1>2. /\ rows' \in [ModelAccounts -> ModelAccountRows]
        /\ \A b \in ModelAccounts : Disjoint(rows'[b]) /\ RowsLater(rows[b], rows'[b])
    BY <1>1, SameRows
  <1>3. faults' \in 0..MaxFaults
    BY <1>1 DEF RoutesTyped
  <1>. QED  BY <1>2, <1>3, OwingStep DEF Begun

LEMMA CountedRuns ==
    ASSUME RoutesTyped, Counted
    PROVE  runs' \in 0..MaxRuns
  BY ModelRoutesAssumption DEF RoutesTyped, Counted

LEMMA StartRefreshKeeps ==
    ASSUME RebuildInv, NEW p \in Passes, StartRefresh(p)
    PROVE  RebuildInv'
  <1>1. RoutesTyped
    BY DEF RebuildInv
  <1>2. runs' \in 0..MaxRuns
    BY <1>1, CountedRuns DEF StartRefresh
  <1>3. /\ Become(p, NewRefresh) /\ UNCHANGED <<rows, probeAccountLeases, builtVars, faults, raced>>
        /\ active' \in SUBSET ModelAccounts /\ blocked' \in SUBSET ModelNames
        /\ unserved' \in BOOLEAN
    BY <1>1 DEF StartRefresh, availVars, RoutesTyped
  <1>. QED  BY <1>1, <1>2, <1>3, BegunRefresh, BeginsOwing

LEMMA StartCheckKeeps ==
    ASSUME RebuildInv, NEW p \in Passes, NEW a \in ModelAccounts, StartCheck(p, a)
    PROVE  RebuildInv'
  <1>1. RoutesTyped
    BY DEF RebuildInv
  <1>2. runs' \in 0..MaxRuns
    BY <1>1, CountedRuns DEF StartCheck
  <1>3. /\ UNCHANGED <<rows, probeAccountLeases, builtVars, faults, raced>>
        /\ active' \in SUBSET ModelAccounts /\ blocked' \in SUBSET ModelNames
        /\ unserved' \in BOOLEAN
    BY <1>1 DEF StartCheck, availVars, RoutesTyped
  <1>4. PICK restore \in BOOLEAN :
          Become(p, [NoPass EXCEPT !.kind = "check", !.pc = "discovering", !.restore = restore,
                                   !.discovery[a] = IF restore THEN "before" ELSE "clear"])
    BY DEF StartCheck
  <1> DEFINE step == IF restore THEN "before" ELSE "clear"
             rec == [NoPass EXCEPT !.kind = "check", !.pc = "discovering", !.restore = restore,
                                   !.discovery[a] = step]
  <1>5. Become(p, rec) /\ step \in DiscoverySteps
    BY <1>4 DEF DiscoverySteps
  <1> HIDE DEF step
  <1>6. Begun(rec) /\ rec.pc = "discovering"
    BY <1>5, BegunCheck
  <1> HIDE DEF rec
  <1>. QED  BY <1>2, <1>3, <1>5, <1>6, BeginsOwing

LEMMA StartUpdateKeeps ==
    ASSUME RebuildInv, NEW p \in Passes, NEW a \in ModelAccounts, StartUpdate(p, a)
    PROVE  RebuildInv'
  <1> DEFINE rec == [NoPass EXCEPT !.kind = "update", !.pc = "rebuild"]
  <1>1. RoutesTyped
    BY DEF RebuildInv
  <1>2. runs' \in 0..MaxRuns
    BY <1>1, CountedRuns DEF StartUpdate
  <1>3. /\ Become(p, rec)
        /\ UNCHANGED <<rows, probeAccountLeases, builtVars, faults, raced>>
        /\ active' \in SUBSET ModelAccounts /\ blocked' \in SUBSET ModelNames
        /\ unserved' \in BOOLEAN
    BY <1>1 DEF StartUpdate, RoutesTyped
  <1>4. Begun(rec) /\ rec.pc = "rebuild"
    BY BegunRebuild
  <1> HIDE DEF rec
  <1>. QED  BY <1>2, <1>3, <1>4, BeginsOwing

\* A refresh that is joined reads the filter when it rebuilds, unless it is at that.
LEMMA SaveFilterKeeps ==
    ASSUME RebuildInv, NEW m \in ModelNames, SaveFilter(m)
    PROVE  RebuildInv'
  <1>1. RoutesTyped
    BY DEF RebuildInv
  <1>2. runs' \in 0..MaxRuns
    BY <1>1, CountedRuns DEF SaveFilter
  <1>3. /\ UNCHANGED <<rows, active, probeAccountLeases, builtVars, faults, raced>>
        /\ active' \in SUBSET ModelAccounts /\ blocked' \in SUBSET ModelNames
    BY <1>1 DEF SaveFilter, RoutesTyped
  <1>4. CASE \E q \in Passes : InFlight(q)
    <2>1. pass' = pass /\ unserved' = (unserved \/
                    \E q \in Passes : InFlight(q) /\ pass[q].pc \in Rebuilding)
      BY <1>4 DEF SaveFilter
    <2>2. unserved' \in BOOLEAN
      BY <1>1, <2>1 DEF RoutesTyped
    <2>3. RoutesTyped'
      BY <1>1, <1>2, <1>3, <2>1, <2>2 DEF RoutesTyped, builtVars
    <2>4. IdsBounded' /\ ProbesKnow' /\ Solo'
      <3>1. /\ rows' = rows /\ probeAccountLeases' = probeAccountLeases /\ raced' = raced
            /\ tokenRoutes' = tokenRoutes /\ routeChannels' = routeChannels
        BY <1>3 DEF builtVars
      <3>. QED
        BY <2>1, <3>1 DEF RebuildInv, IdsBounded, IdsBelow, ProbesKnow, Solo
    <2>5. RoutesServed'
      <3>1. PICK q \in Passes : InFlight(q)
        BY <1>4
      <3>2. pass[q].pc \in {"discovering", "rebuild"} \cup Rebuilding
        BY <1>1, <3>1 DEF InFlight, RoutesTyped, Kinds
      <3>3. Dirty(pass'[q]) \/ unserved'
        BY <2>1, <3>1, <3>2 DEF Dirty
      <3>. QED  BY <3>3 DEF RoutesServed
    <2>. QED  BY <2>3, <2>4, <2>5 DEF RebuildInv
  <1>5. CASE ~\E q \in Passes : InFlight(q)
    <2>1. PICK p \in Passes : Become(p, NewRefresh)
      BY <1>5 DEF SaveFilter
    <2>2. unserved' \in BOOLEAN
      BY <1>1, <1>5 DEF SaveFilter, RoutesTyped
    <2>. QED  BY <1>1, <1>2, <1>3, <2>1, <2>2, BegunRefresh, BeginsOwing
  <1>. QED  BY <1>4, <1>5

LEMMA DiscoveryGoesOn ==
    ASSUME RebuildInv, NEW p \in Passes, \E rec : GoesOn(p, rec),
           UNCHANGED <<active, blocked, probeAccountLeases, builtVars, runs, raced, unserved>>,
           faults' \in 0..MaxFaults,
           rows' \in [ModelAccounts -> ModelAccountRows],
           \A b \in ModelAccounts : Disjoint(rows'[b]) /\ RowsLater(rows[b], rows'[b])
    PROVE  RebuildInv'
  <1>1. PICK rec : GoesOn(p, rec)
    OBVIOUS
  <1>2. /\ rec \in PassRecs /\ Kinds(rec) /\ Become(p, rec) /\ rec.pc = "discovering"
        /\ rec.at = {} /\ rec.targets = pass[p].targets
        /\ rec.seenRoutes = pass[p].seenRoutes /\ rec.seenChannels = pass[p].seenChannels
    BY <1>1 DEF GoesOn
  <1>3. active' \in SUBSET ModelAccounts /\ blocked' \in SUBSET ModelNames
        /\ runs' \in 0..MaxRuns /\ unserved' \in BOOLEAN
    BY DEF RebuildInv, RoutesTyped
  <1>4. UNCHANGED <<probeAccountLeases, builtVars, raced>>
    OBVIOUS
  <1>. QED  BY <1>2, <1>3, <1>4, OwingStep

LEMMA DiscoveryKeeps ==
    ASSUME RebuildInv, NEW p \in Passes, NEW a \in ModelAccounts,
           ReadBefore(p, a) \/ ClearExisting(p, a) \/ NothingFound(p, a) \/ ModelsFound(p, a)
               \/ ClearToRestore(p, a) \/ Reinsert(p, a)
    PROVE  RebuildInv'
  <1>1. RoutesTyped /\ ProbesKnow
    BY DEF RebuildInv
  <1>2. /\ pass[p].pc = "discovering"
        /\ UNCHANGED <<active, blocked, probeAccountLeases, builtVars, runs, raced, unserved>>
        /\ faults' \in 0..MaxFaults
    BY <1>1 DEF ReadBefore, ClearExisting, NothingFound, ModelsFound, ClearToRestore, Reinsert, At,
                availVars, RoutesTyped
  <1> DEFINE Typed2 == /\ rows' \in [ModelAccounts -> ModelAccountRows]
                       /\ \A b \in ModelAccounts : Disjoint(rows'[b]) /\ RowsLater(rows[b], rows'[b])
             Moved == \E rec : GoesOn(p, rec)
  <1>3. \A step \in DiscoverySteps : Go(p, a, step) => Moved
    BY <1>1, <1>2, Goes
  <1>4. Reject(p, a) => Moved
    BY <1>1, <1>2, Rejects
  <1>5. rows' = rows => Typed2
    BY <1>1, SameRows
  <1> HIDE DEF Typed2, Moved
  <1>6. CASE ReadBefore(p, a)
    <2> DEFINE rec == [pass[p] EXCEPT !.discovery = [pass[p].discovery EXCEPT ![a] = "clear"],
                          !.rejected = pass[p].rejected, !.before = rows[a]]
    <2>1. pass[p] \in PassRecs
      BY <1>1 DEF RoutesTyped
    <2>2. pass' = [pass EXCEPT ![p] = rec]
      BY <1>1, <1>6, <2>1 DEF ReadBefore, RoutesTyped, PassRecs
    <2>3. pass[p].rejected \in BOOLEAN /\ rows[a] \in ModelAccountRows /\ Disjoint(rows[a])
          /\ "clear" \in DiscoverySteps
      BY <1>1, <2>1 DEF PassRecs, RoutesTyped, DiscoverySteps
    <2>4. GoesOn(p, rec)
      <3> HIDE DEF rec
      <3>. QED  BY <1>1, <1>2, <2>2, <2>3, GoingOn DEF rec
    <2>5. Moved
      BY <2>4 DEF Moved
    <2>6. Typed2
      BY <1>5, <1>6 DEF ReadBefore, availVars
    <2>. QED  BY <1>2, <2>5, <2>6, DiscoveryGoesOn DEF Moved, Typed2
  <1>7. CASE ClearExisting(p, a)
    <2>1. Moved
      BY <1>3, <1>7 DEF ClearExisting, DiscoverySteps
    <2>2. Typed2
      BY <1>1, <1>7, ClearedRows DEF ClearExisting, Typed2
    <2>. QED  BY <1>2, <2>1, <2>2, DiscoveryGoesOn DEF Moved, Typed2
  <1>8. CASE NothingFound(p, a)
    <2>1. Moved
      BY <1>3, <1>8 DEF NothingFound, DiscoverySteps
    <2>2. Typed2
      BY <1>5, <1>8 DEF NothingFound, availVars
    <2>. QED  BY <1>2, <2>1, <2>2, DiscoveryGoesOn DEF Moved, Typed2
  <1>9. CASE ModelsFound(p, a)
    <2>1. PICK found \in SUBSET ModelNames \ {{}} :
            IF found \cap HasRows(a) = {}
            THEN rows' = [rows EXCEPT ![a].up = @ \cup found] /\ Go(p, a, "done")
            ELSE Reject(p, a) /\ UNCHANGED rows
      BY <1>9 DEF ModelsFound
    <2>2. Moved
      BY <1>3, <1>4, <2>1 DEF DiscoverySteps
    <2>3. Typed2
      <3>1. CASE found \cap HasRows(a) = {}
        <4> DEFINE new == [gen |-> rows[a].gen, up |-> rows[a].up \cup found,
                           down |-> rows[a].down]
        <4>1. rows[a] \in ModelAccountRows /\ Disjoint(rows[a])
              /\ rows \in [ModelAccounts -> ModelAccountRows]
          BY <1>1 DEF RoutesTyped
        <4>2. new \in ModelAccountRows /\ Disjoint(new) /\ RowsLater(rows[a], new)
          BY <3>1, <4>1 DEF ModelAccountRows, Disjoint, RowsLater, HasRows
        <4>3. [rows[a] EXCEPT !.up = @ \cup found] = new
          <5> DEFINE more == rows[a].up \cup found
          <5> HIDE DEF more
          <5>1. [rows[a] EXCEPT !.up = more] = [gen |-> rows[a].gen, up |-> more,
                                                down |-> rows[a].down]
            BY <4>1 DEF ModelAccountRows
          <5>. QED  BY <5>1 DEF more
        <4>4. rows' = [rows EXCEPT ![a] = new]
          <5>1. rows' = [rows EXCEPT ![a] = [rows[a] EXCEPT !.up = @ \cup found]]
            BY <2>1, <3>1, <4>1
          <5> HIDE DEF new
          <5>. QED  BY <4>3, <5>1
        <4> HIDE DEF new
        <4>. QED  BY <1>1, <4>2, <4>4, OneAccount DEF Typed2
      <3>2. CASE found \cap HasRows(a) # {}
        BY <1>5, <2>1, <3>2
      <3>. QED  BY <3>1, <3>2
    <2>. QED  BY <1>2, <2>2, <2>3, DiscoveryGoesOn DEF Moved, Typed2
  <1>10. CASE ClearToRestore(p, a)
    <2>1. Moved
      BY <1>3, <1>10 DEF ClearToRestore, DiscoverySteps
    <2>2. Typed2
      BY <1>1, <1>10, ClearedRows DEF ClearToRestore, Typed2
    <2>. QED  BY <1>2, <2>1, <2>2, DiscoveryGoesOn DEF Moved, Typed2
  <1>11. CASE Reinsert(p, a)
    <2> DEFINE old == pass[p].before
    <2>1. IF (old.up \cup old.down) \cap HasRows(a) = {}
          THEN /\ rows' = [rows EXCEPT ![a].up = @ \cup old.up, ![a].down = @ \cup old.down]
               /\ Go(p, a, "done")
          ELSE Reject(p, a) /\ UNCHANGED rows
      BY <1>11 DEF Reinsert
    <2>2. Moved
      BY <1>3, <1>4, <2>1 DEF DiscoverySteps
    <2>3. old \in ModelAccountRows /\ Disjoint(old)
      BY <1>1 DEF RoutesTyped, PassRecs, Kinds
    <2>4. Typed2
      <3>1. CASE (old.up \cup old.down) \cap HasRows(a) = {}
        <4>1. old.up \in SUBSET ModelNames /\ old.down \in SUBSET ModelNames
              /\ old.up \cap old.down = {}
          BY <2>3 DEF ModelAccountRows, Disjoint
        <4>2. rows' = [rows EXCEPT ![a].up = @ \cup old.up, ![a].down = @ \cup old.down]
          BY <2>1, <3>1
        <4> HIDE DEF old
        <4>. QED  BY <1>1, <3>1, <4>1, <4>2, AddedRows DEF Typed2
      <3>2. CASE (old.up \cup old.down) \cap HasRows(a) # {}
        BY <1>5, <2>1, <3>2
      <3>. QED  BY <3>1, <3>2
    <2>. QED  BY <1>2, <2>2, <2>4, DiscoveryGoesOn DEF Moved, Typed2
  <1>. QED  BY <1>6, <1>7, <1>8, <1>9, <1>10, <1>11

-----------------------------------------------------------------------------
(* Probes                                                                   *)

\* A step of a probe: what it changes, if anything, it will rebuild for.
LEMMA ProbeStep ==
    ASSUME RebuildInv, NEW p \in Passes, NEW rec \in PassRecs, Become(p, rec), Kinds(rec),
           ~Building(rec), ~Building(pass[p]), ProbesKnow',
           UNCHANGED <<active, blocked, builtVars, faults, raced, unserved>>,
           rec.seenRoutes \subseteq pass[p].seenRoutes,
           rec.seenChannels \subseteq pass[p].seenChannels,
           rows' \in [ModelAccounts -> ModelAccountRows], \A a \in ModelAccounts : Disjoint(rows'[a]),
           probeAccountLeases' \in SUBSET ModelAccounts, runs' \in 0..MaxRuns,
           Dirty(rec) \/ (rows' = rows /\ ~Dirty(pass[p]))
    PROVE  RebuildInv'
  <1>1. RoutesTyped /\ IdsBounded /\ ProbesKnow /\ Solo /\ RoutesServed
    BY DEF RebuildInv
  <1>2. UNCHANGED builtVars /\ raced' = raced /\ unserved' = unserved
    OBVIOUS
  <1>3. RoutesTyped' /\ IdsBounded'
    <2>1. /\ active' \in SUBSET ModelAccounts /\ blocked' \in SUBSET ModelNames
          /\ faults' \in 0..MaxFaults /\ raced' \in BOOLEAN /\ unserved' \in BOOLEAN
      BY <1>1 DEF RoutesTyped
    <2>2. /\ rec.seenRoutes \subseteq pass[p].seenRoutes \cup tokenRoutes
          /\ rec.seenChannels \subseteq pass[p].seenChannels \cup routeChannels
      OBVIOUS
    <2>. QED  BY <1>1, <1>2, <2>1, <2>2, MoveTyped
  <1>4. Solo'
    <2>1. SoloKnows(rec, tokenRoutes, routeChannels)
      BY DEF SoloKnows, Building, Rebuilding
    <2>. QED  BY <1>1, <1>2, <2>1, MoveSolo
  <1>5. RoutesServed'
    <2>1. CASE Dirty(rec)
      BY <1>1, <2>1, MoveOwes
    <2>2. CASE rows' = rows /\ ~Dirty(pass[p])
      <3>1. Wanted' = Wanted
        BY <2>2 DEF Wanted, Offering
      <3>. QED  BY <1>1, <1>2, <2>2, <3>1, MoveServed
    <2>. QED  BY <2>1, <2>2
  <1>. QED  BY <1>1, <1>3, <1>4, <1>5 DEF RebuildInv

LEMMA IdleIsNoPass ==
    ASSUME RoutesTyped, NEW p \in Passes, pass[p].pc = "idle"
    PROVE  pass[p] = NoPass
  BY DEF RoutesTyped, Kinds

LEMMA StartProbeKeeps ==
    ASSUME RebuildInv, NEW p \in Passes, StartProbe(p)
    PROVE  RebuildInv'
  <1>1. RoutesTyped /\ ProbesKnow
    BY DEF RebuildInv
  <1>2. pass[p] = NoPass
    BY <1>1, IdleIsNoPass DEF StartProbe, AtRest
  <1>3. runs' \in 0..MaxRuns
    BY <1>1, CountedRuns DEF StartProbe
  <1>4. PICK todo \in {active} \cup {{a} : a \in ModelAccounts} :
          Become(p, [NoPass EXCEPT !.kind = "probe", !.pc = "accounts", !.todo = todo])
    BY DEF StartProbe
  <1> DEFINE rec == [NoPass EXCEPT !.kind = "probe", !.pc = "accounts", !.todo = todo]
  <1>5. Become(p, rec) /\ todo \in SUBSET ModelAccounts
    BY <1>1, <1>4 DEF RoutesTyped
  <1>6. Begun(rec) /\ rec.pc = "accounts" /\ rec.changed = FALSE
    BY <1>5, BegunProbe
  <1> HIDE DEF rec
  <1>7. /\ UNCHANGED <<active, blocked, builtVars, faults, raced, unserved>>
        /\ rows' = rows /\ probeAccountLeases' = probeAccountLeases
    BY DEF StartProbe, availVars
  <1>8. ~Building(rec) /\ ~Dirty(rec) /\ ~Building(pass[p]) /\ ~Dirty(pass[p])
    BY <1>2, <1>6, IdlePass DEF Building, Rebuilding, Dirty
  <1>9. ProbesKnow'
    <2>1. ProbeKnows(rec, rows')
      BY <1>6 DEF Begun, ProbeKnows
    <2>2. /\ \A q \in Passes \ {p} : ProbeKnows(pass[q], rows')
          /\ rec.at \subseteq probeAccountLeases'
          /\ \A q \in Passes \ {p} : pass[q].at \subseteq probeAccountLeases'
                                      /\ rec.at \cap pass[q].at = {}
      BY <1>1, <1>6, <1>7 DEF ProbesKnow, Begun
    <2>. QED  BY <1>1, <1>5, <2>1, <2>2, MoveProbes
  <1>10. /\ rows' \in [ModelAccounts -> ModelAccountRows] /\ \A a \in ModelAccounts : Disjoint(rows'[a])
    BY <1>1, <1>7 DEF RoutesTyped
  <1>11. probeAccountLeases' \in SUBSET ModelAccounts
    BY <1>1, <1>7 DEF RoutesTyped
  <1>12. /\ rec.seenRoutes \subseteq pass[p].seenRoutes
         /\ rec.seenChannels \subseteq pass[p].seenChannels
    BY <1>6 DEF Begun
  <1>13. rec \in PassRecs /\ Kinds(rec)
    BY <1>6 DEF Begun
  <1>. QED  BY <1>3, <1>5, <1>7, <1>8, <1>9, <1>10, <1>11, <1>12, <1>13, ProbeStep

\* What a probe goes on with.
Probes(p, rec) ==
    /\ rec \in PassRecs /\ Become(p, rec) /\ rec.pc \in {"accounts", "probing"}
    /\ rec.kind = pass[p].kind /\ rec.before = pass[p].before
    /\ rec.seenRoutes = pass[p].seenRoutes /\ rec.seenChannels = pass[p].seenChannels

LEMMA ProbesOn ==
    ASSUME RebuildInv, NEW p \in Passes, NEW rec, Probes(p, rec),
           pass[p].pc \in {"accounts", "probing"}, ProbesKnow',
           UNCHANGED <<active, blocked, builtVars, runs, faults, raced, unserved>>,
           rows' \in [ModelAccounts -> ModelAccountRows], \A a \in ModelAccounts : Disjoint(rows'[a]),
           probeAccountLeases' \in SUBSET ModelAccounts,
           rec.changed \/ (rows' = rows /\ ~pass[p].changed)
    PROVE  RebuildInv'
  <1>1. RoutesTyped
    BY DEF RebuildInv
  <1>2. /\ rec \in PassRecs /\ Become(p, rec) /\ rec.pc \in {"accounts", "probing"}
        /\ rec.kind = pass[p].kind /\ rec.before = pass[p].before
        /\ rec.seenRoutes = pass[p].seenRoutes /\ rec.seenChannels = pass[p].seenChannels
    BY DEF Probes
  <1>3. Kinds(rec)
    <2>1. Kinds(pass[p]) /\ pass[p].kind # "refresh"
      BY <1>1 DEF RoutesTyped, Kinds, Rebuilding
    <2>2. rec # NoPass
      BY <1>2, IdlePass
    <2>. QED  BY <1>2, <2>1, <2>2 DEF Kinds
  <1>4. ~Building(rec) /\ ~Building(pass[p])
    BY <1>2 DEF Building, Rebuilding
  <1>5. Dirty(rec) \/ (rows' = rows /\ ~Dirty(pass[p]))
    BY <1>2 DEF Dirty
  <1>6. runs' \in 0..MaxRuns
    BY <1>1 DEF RoutesTyped
  <1>7. UNCHANGED <<active, blocked, builtVars, faults, raced, unserved>>
    OBVIOUS
  <1>. QED  BY <1>2, <1>3, <1>4, <1>5, <1>6, <1>7, ProbeStep

LEMMA Membership ==
    \A m, S : (m \in S) \in BOOLEAN
  BY SMT

LEMMA TakeAccountKeeps ==
    ASSUME RebuildInv, NEW p \in Passes, NEW a \in ModelAccounts, TakeAccount(p, a)
    PROVE  RebuildInv'
  <1> DEFINE found == {[model |-> m, up |-> m \in rows[a].up, gen |-> rows[a].gen] :
                          m \in HasRows(a)}
             left == pass[p].todo \ {a}
             rest == [pass EXCEPT ![p].todo = @ \ {a}]
  <1>1. RoutesTyped /\ ProbesKnow /\ pass[p] \in PassRecs /\ pass \in [Passes -> PassRecs]
    BY DEF RebuildInv, RoutesTyped
  <1>2. /\ pass[p].pc = "accounts" /\ rows' = rows
        /\ UNCHANGED <<active, blocked, builtVars, runs, faults, raced, unserved>>
    BY DEF TakeAccount
  <1>3. /\ rows' \in [ModelAccounts -> ModelAccountRows] /\ \A b \in ModelAccounts : Disjoint(rows'[b])
    BY <1>1, <1>2 DEF RoutesTyped
  <1>4. pass[p].at = {} /\ left \in SUBSET ModelAccounts
    BY <1>1, <1>2 DEF ProbesKnow, ProbeKnows, PassRecs
  <1> DEFINE Passed == pass' = rest /\ probeAccountLeases' = probeAccountLeases
             Taken == /\ a \notin probeAccountLeases
                      /\ probeAccountLeases' = probeAccountLeases \cup {a}
                      /\ pass' = [rest EXCEPT ![p].pc = "probing", ![p].at = {a},
                                              ![p].targets = found]
  <1>5. Passed \/ Taken
    BY DEF TakeAccount, ProbeRunning
  <1>6. CASE Passed
    <2> DEFINE rec == [pass[p] EXCEPT !.todo = left]
    <2>1. Become(p, rec)
      BY <1>1, <1>6 DEF Become
    <2> HIDE DEF left
    <2>2. /\ rec \in PassRecs /\ rec.pc = "accounts" /\ rec.at = {} /\ rec.targets = pass[p].targets
          /\ rec.changed = pass[p].changed /\ rec.kind = pass[p].kind /\ rec.before = pass[p].before
          /\ rec.seenRoutes = pass[p].seenRoutes /\ rec.seenChannels = pass[p].seenChannels
      BY <1>1, <1>2, <1>4 DEF PassRecs
    <2> HIDE DEF rec
    <2>3. Probes(p, rec)
      BY <2>1, <2>2 DEF Probes
    <2>4. ProbesKnow'
      <3>1. ProbeKnows(rec, rows')
        BY <1>1, <2>2 DEF ProbesKnow, ProbeKnows
      <3>2. /\ \A q \in Passes \ {p} : ProbeKnows(pass[q], rows')
            /\ rec.at \subseteq probeAccountLeases'
            /\ \A q \in Passes \ {p} : pass[q].at \subseteq probeAccountLeases'
                                        /\ rec.at \cap pass[q].at = {}
        BY <1>1, <1>2, <1>6, <2>2 DEF ProbesKnow
      <3>. QED  BY <1>1, <2>1, <3>1, <3>2, MoveProbes
    <2>5. probeAccountLeases' \in SUBSET ModelAccounts
      BY <1>1, <1>6 DEF RoutesTyped
    <2>6. rec.changed \/ (rows' = rows /\ ~pass[p].changed)
      BY <1>1, <1>2, <2>2 DEF PassRecs
    <2>. QED  BY <1>2, <1>3, <2>3, <2>4, <2>5, <2>6, ProbesOn
  <1>7. CASE Taken
    <2> DEFINE rec == [[pass[p] EXCEPT !.todo = left]
                          EXCEPT !.pc = "probing", !.at = {a}, !.targets = found]
    <2>1. Become(p, rec)
      <3> DEFINE first == [pass[p] EXCEPT !.todo = left]
      <3>1. rest = [pass EXCEPT ![p] = first] /\ rest \in [Passes -> PassRecs]
        BY <1>1, <1>4 DEF PassRecs
      <3>2. pass' = [rest EXCEPT ![p] = [rest[p] EXCEPT !.pc = "probing", !.at = {a},
                                                        !.targets = found]]
        BY <1>7, <3>1
      <3>3. rest[p] = first
        BY <1>1, <3>1
      <3> HIDE DEF rest, first, found
      <3>4. pass' = [rest EXCEPT ![p] = rec]
        BY <3>2, <3>3 DEF first
      <3> HIDE DEF rec
      <3>5. pass' = [pass EXCEPT ![p] = rec]
        BY <1>1, <3>1, <3>4
      <3>. QED  BY <3>5 DEF Become
    <2>2. \A m \in HasRows(a) : m \in ModelNames /\ rows[a].gen \in Nat
      BY <1>1 DEF RoutesTyped, ModelAccountRows, HasRows
    <2> DEFINE IsUp(m) == m \in rows[a].up
               target(m) == [model |-> m, up |-> IsUp(m), gen |-> rows[a].gen]
    <2>10. \A m : IsUp(m) \in BOOLEAN
      BY Membership
    <2>11. found = {target(m) : m \in HasRows(a)}
      OBVIOUS
    <2>12. \A m \in HasRows(a) : m \in (IF IsUp(m) THEN rows[a].up ELSE rows[a].down)
      BY DEF HasRows
    <2> HIDE DEF IsUp
    <2>13. \A m \in HasRows(a) : target(m) \in ProbeTargets
      BY <2>2, <2>10 DEF ProbeTargets
    <2>14. \A m \in HasRows(a) : TargetKnows(target(m), rows[a])
      BY <2>2, <2>10, <2>12 DEF TargetKnows
    <2>15. \A m \in HasRows(a) : target(m).model = m
      OBVIOUS
    <2> HIDE DEF target, found
    <2>3. found \in SUBSET ProbeTargets
      BY <2>11, <2>13
    <2>4. /\ \A t \in found : TargetKnows(t, rows[a])
          /\ \A t, u \in found : t.model = u.model => t = u
      BY <2>11, <2>14, <2>15
    <2> HIDE DEF left, found
    <2>5. /\ rec \in PassRecs /\ rec.pc = "probing" /\ rec.at = {a} /\ rec.targets = found
          /\ rec.changed = pass[p].changed /\ rec.kind = pass[p].kind /\ rec.before = pass[p].before
          /\ rec.seenRoutes = pass[p].seenRoutes /\ rec.seenChannels = pass[p].seenChannels
      BY <1>1, <1>4, <2>3 DEF PassRecs, PassPcs
    <2> HIDE DEF rec
    <2>6. Probes(p, rec)
      BY <2>1, <2>5 DEF Probes
    <2>7. ProbesKnow'
      <3>1. ProbeKnows(rec, rows')
        BY <1>2, <2>4, <2>5 DEF ProbeKnows
      <3>2. /\ \A q \in Passes \ {p} : ProbeKnows(pass[q], rows')
            /\ rec.at \subseteq probeAccountLeases'
            /\ \A q \in Passes \ {p} : pass[q].at \subseteq probeAccountLeases'
                                        /\ rec.at \cap pass[q].at = {}
        BY <1>1, <1>2, <1>7, <2>5 DEF ProbesKnow
      <3>. QED  BY <1>1, <2>1, <3>1, <3>2, MoveProbes
    <2>8. probeAccountLeases' \in SUBSET ModelAccounts
      BY <1>1, <1>7 DEF RoutesTyped
    <2>9. rec.changed \/ (rows' = rows /\ ~pass[p].changed)
      BY <1>1, <1>2, <2>5 DEF PassRecs
    <2>. QED  BY <1>2, <1>3, <2>6, <2>7, <2>8, <2>9, ProbesOn
  <1>. QED  BY <1>5, <1>6, <1>7

\* The row of one account after a probe has found a model up or down.
Probed(row, t, up) ==
    IF row.gen # t.gen THEN row
    ELSE [gen |-> row.gen, up |-> IF up THEN row.up \cup {t.model} ELSE row.up \ {t.model},
          down |-> IF up THEN row.down \ {t.model} ELSE row.down \cup {t.model}]

LEMMA ProbedRow ==
    ASSUME NEW row \in ModelAccountRows, Disjoint(row), NEW t \in ProbeTargets, NEW up \in BOOLEAN
    PROVE  /\ Probed(row, t, up) \in ModelAccountRows /\ Disjoint(Probed(row, t, up))
           /\ \A u \in ProbeTargets : u.model # t.model /\ TargetKnows(u, row)
                                        => TargetKnows(u, Probed(row, t, up))
           /\ TargetKnows(t, row) /\ ~Flipped(t, up) => Probed(row, t, up) = row
  <1> DEFINE new == Probed(row, t, up)
  <1>1. /\ row.gen \in Nat /\ row.up \in SUBSET ModelNames /\ row.down \in SUBSET ModelNames
        /\ t.model \in ModelNames /\ t.gen \in Nat /\ t.up \in BOOLEAN
        /\ row = [gen |-> row.gen, up |-> row.up, down |-> row.down]
    BY DEF ModelAccountRows, ProbeTargets
  <1>2. CASE row.gen # t.gen
    BY <1>2 DEF Probed
  <1>3. CASE row.gen = t.gen
    <2>1. new = [gen |-> row.gen, up |-> new.up, down |-> new.down]
      BY <1>3 DEF Probed
    <2>2. /\ new.up = IF up THEN row.up \cup {t.model} ELSE row.up \ {t.model}
          /\ new.down = IF up THEN row.down \ {t.model} ELSE row.down \cup {t.model}
          /\ new.gen = row.gen
      BY <1>3 DEF Probed
    <2> HIDE DEF new
    <2>3. new.up \in SUBSET ModelNames /\ new.down \in SUBSET ModelNames
      BY <1>1, <2>2
    <2>4. new \in ModelAccountRows
      BY <1>1, <2>1, <2>3 DEF ModelAccountRows
    <2>5. Disjoint(new)
      BY <2>2 DEF Disjoint
    <2>6. ASSUME NEW u \in ProbeTargets, u.model # t.model, TargetKnows(u, row)
          PROVE  TargetKnows(u, new)
      <3>1. u.up \in BOOLEAN
        BY DEF ProbeTargets
      <3>2. u.model \in row.up => u.model \in new.up
        BY <2>2, <2>6
      <3>3. u.model \in row.down => u.model \in new.down
        BY <2>2, <2>6
      <3>. QED  BY <2>2, <2>6, <3>1, <3>2, <3>3 DEF TargetKnows
    <2>7. ASSUME TargetKnows(t, row), ~Flipped(t, up)
          PROVE  new = row
      <3>1. t.up = up
        BY <2>7 DEF Flipped
      <3>2. new.up = row.up /\ new.down = row.down
        BY <1>3, <2>2, <2>7, <3>1 DEF TargetKnows, Disjoint
      <3>. QED  BY <1>1, <2>1, <3>2
    <2>. QED  BY <2>4, <2>5, <2>6, <2>7 DEF new
  <1>. QED  BY <1>2, <1>3

\* The rows after a probe are those before it, with this row.
RowsProbed(a, t, up) ==
    IF rows[a].gen # t.gen THEN rows
    ELSE [rows EXCEPT ![a].up = IF up THEN @ \cup {t.model} ELSE @ \ {t.model},
                      ![a].down = IF up THEN @ \ {t.model} ELSE @ \cup {t.model}]

LEMMA ProbedRows ==
    ASSUME RoutesTyped, NEW a \in ModelAccounts, NEW t \in ProbeTargets, NEW up \in BOOLEAN
    PROVE  RowsProbed(a, t, up) = [rows EXCEPT ![a] = Probed(rows[a], t, up)]
  <1> DEFINE new == RowsProbed(a, t, up)
  <1>1. rows[a] \in ModelAccountRows /\ rows \in [ModelAccounts -> ModelAccountRows]
    BY DEF RoutesTyped
  <1>2. CASE rows[a].gen # t.gen
    BY <1>1, <1>2 DEF Probed, RowsProbed
  <1>3. CASE rows[a].gen = t.gen
    <2> DEFINE more == IF up THEN rows[a].up \cup {t.model} ELSE rows[a].up \ {t.model}
               less == IF up THEN rows[a].down \ {t.model} ELSE rows[a].down \cup {t.model}
               mid == [rows[a] EXCEPT !.up = more]
    <2>1. new = [rows EXCEPT ![a].up = more, ![a].down = less]
      BY <1>3 DEF RowsProbed
    <2>2. Probed(rows[a], t, up) = [gen |-> rows[a].gen, up |-> more, down |-> less]
      BY <1>3 DEF Probed
    <2> HIDE DEF more, less, new
    <2>3. mid = [gen |-> rows[a].gen, up |-> more, down |-> rows[a].down]
      BY <1>1 DEF ModelAccountRows
    <2>4. [mid EXCEPT !.down = less] = [gen |-> rows[a].gen, up |-> more, down |-> less]
      <3> HIDE DEF mid
      <3>. QED  BY <2>3
    <2>5. [rows[a] EXCEPT !.up = more, !.down = less] = [mid EXCEPT !.down = less]
      OBVIOUS
    <2>6. new = [rows EXCEPT ![a] = [rows[a] EXCEPT !.up = more, !.down = less]]
      BY <1>1, <2>1
    <2> HIDE DEF mid
    <2>. QED  BY <2>2, <2>4, <2>5, <2>6 DEF new
  <1>. QED  BY <1>2, <1>3

LEMMA ProbeModelKeeps ==
    ASSUME RebuildInv, NEW p \in Passes, NEW t \in pass[p].targets, ProbeModel(p, t)
    PROVE  RebuildInv'
  <1>1. RoutesTyped /\ ProbesKnow /\ pass[p] \in PassRecs /\ pass \in [Passes -> PassRecs]
    BY DEF RebuildInv, RoutesTyped
  <1>2. /\ pass[p].pc = "probing" /\ probeAccountLeases' = probeAccountLeases
        /\ UNCHANGED <<active, blocked, builtVars, runs, faults, raced, unserved>>
    BY DEF ProbeModel
  <1>3. t \in ProbeTargets /\ pass[p].targets \in SUBSET ProbeTargets
    BY <1>1 DEF PassRecs
  <1> DEFINE left == pass[p].targets \ {t}
  <1>4. probeAccountLeases' \in SUBSET ModelAccounts
    BY <1>1, <1>2 DEF RoutesTyped
  <1>5. PICK a \in ModelAccounts : pass[p].at = {a}
    BY <1>1, <1>2 DEF ProbesKnow, ProbeKnows
  <1>6. /\ \A u \in pass[p].targets : TargetKnows(u, rows[a])
        /\ \A u, v \in pass[p].targets : u.model = v.model => u = v
    BY <1>1, <1>5 DEF ProbesKnow, ProbeKnows
  <1>7. rows[a] \in ModelAccountRows /\ Disjoint(rows[a]) /\ rows \in [ModelAccounts -> ModelAccountRows]
        /\ \A b \in ModelAccounts : Disjoint(rows[b])
    BY <1>1 DEF RoutesTyped
  <1> DEFINE Passed == rows' = rows /\ pass' = [pass EXCEPT ![p].targets = @ \ {t}]
             Found(up) == /\ pass' = [pass EXCEPT ![p].targets = @ \ {t},
                                                  ![p].changed = @ \/ Flipped(t, up)]
                          /\ rows' = [rows EXCEPT ![a] = Probed(rows[a], t, up)]
  <1>8. Passed \/ \E up \in BOOLEAN : Found(up)
    <2>1. CASE /\ pass' = [pass EXCEPT ![p].targets = @ \ {t}]
               /\ UNCHANGED rows
      BY <2>1
    <2>2. CASE \E up \in BOOLEAN, b \in pass[p].at :
            LET m == t.model IN
            /\ pass' = [pass EXCEPT ![p].targets = @ \ {t},
                                    ![p].changed = @ \/ Flipped(t, up)]
            /\ rows' = IF rows[b].gen # t.gen THEN rows
                       ELSE [rows EXCEPT ![b].up = IF up THEN @ \cup {m} ELSE @ \ {m},
                                         ![b].down = IF up THEN @ \ {m} ELSE @ \cup {m}]
      <3>1. PICK up \in BOOLEAN :
            /\ pass' = [pass EXCEPT ![p].targets = @ \ {t},
                                    ![p].changed = @ \/ Flipped(t, up)]
            /\ rows' = IF rows[a].gen # t.gen THEN rows
                       ELSE [rows EXCEPT ![a].up = IF up THEN @ \cup {t.model} ELSE @ \ {t.model},
                                         ![a].down = IF up THEN @ \ {t.model} ELSE @ \cup {t.model}]
        BY <1>5, <2>2
      <3>3. rows' = RowsProbed(a, t, up)
        BY <3>1 DEF RowsProbed
      <3>2. rows' = [rows EXCEPT ![a] = Probed(rows[a], t, up)]
        BY <1>1, <1>3, <3>3, ProbedRows
      <3>. QED  BY <3>1, <3>2
    <2>. QED  BY <2>1, <2>2 DEF ProbeModel
  <1> DEFINE Goes2(rec) ==
        /\ rec \in PassRecs /\ Become(p, rec) /\ rec.pc = "probing" /\ rec.at = {a}
        /\ rec.targets = left /\ rec.kind = pass[p].kind /\ rec.before = pass[p].before
        /\ rec.seenRoutes = pass[p].seenRoutes /\ rec.seenChannels = pass[p].seenChannels
  <1>9. ASSUME NEW rec, Goes2(rec),
               rows' \in [ModelAccounts -> ModelAccountRows],
               \A b \in ModelAccounts : Disjoint(rows'[b]),
               \A b \in ModelAccounts \ {a} : rows'[b] = rows[b],
               \A u \in left : TargetKnows(u, rows'[a]),
               rec.changed \/ (rows' = rows /\ ~pass[p].changed)
        PROVE  RebuildInv'
    <2>1. Probes(p, rec) /\ Become(p, rec)
      BY <1>9 DEF Probes
    <2>2. ProbesKnow'
      <3>1. ProbeKnows(rec, rows')
        BY <1>5, <1>6, <1>9 DEF ProbeKnows
      <3>2. \A q \in Passes \ {p} : a \notin pass[q].at
        BY <1>1, <1>5 DEF ProbesKnow
      <3>3. \A q \in Passes \ {p} : ProbeKnows(pass[q], rows')
        <4>1. ASSUME NEW q \in Passes \ {p}
              PROVE  \A b \in pass[q].at : rows'[b] = rows[b]
          BY <1>1, <1>9, <3>2, <4>1 DEF RoutesTyped, PassRecs
        <4>. QED  BY <1>1, <4>1 DEF ProbesKnow, ProbeKnows
      <3>4. /\ rec.at \subseteq probeAccountLeases'
            /\ \A q \in Passes \ {p} : pass[q].at \subseteq probeAccountLeases'
                                        /\ rec.at \cap pass[q].at = {}
        BY <1>1, <1>2, <1>5, <1>9 DEF ProbesKnow
      <3>. QED  BY <1>1, <2>1, <3>1, <3>3, <3>4, MoveProbes
    <2>3. pass[p].pc \in {"accounts", "probing"}
          /\ UNCHANGED <<active, blocked, builtVars, runs, faults, raced, unserved>>
      BY <1>2
    <2>. QED  BY <1>4, <1>9, <2>1, <2>2, <2>3, ProbesOn
  <1>10. left \in SUBSET ProbeTargets
    BY <1>3
  <1>11. CASE Passed
    <2> DEFINE rec == [pass[p] EXCEPT !.targets = left]
    <2>1. Become(p, rec)
      BY <1>1, <1>11 DEF Become
    <2>2. rec.changed = pass[p].changed /\ Goes2(rec)
      <3>1. Become(p, rec)
        BY <2>1
      <3> HIDE DEF left
      <3>. QED  BY <1>1, <1>2, <1>5, <1>10, <3>1 DEF PassRecs
    <2>3. rec.changed \/ (rows' = rows /\ ~pass[p].changed)
      BY <1>1, <1>11, <2>2 DEF PassRecs
    <2>4. \A u \in left : TargetKnows(u, rows'[a])
      BY <1>6, <1>11
    <2>5. /\ rows' \in [ModelAccounts -> ModelAccountRows]
          /\ \A b \in ModelAccounts : Disjoint(rows'[b])
          /\ \A b \in ModelAccounts \ {a} : rows'[b] = rows[b]
      BY <1>7, <1>11
    <2> HIDE DEF rec, Goes2, left
    <2>. QED  BY <1>9, <2>2, <2>3, <2>4, <2>5
  <1>12. ASSUME NEW up \in BOOLEAN, Found(up)
         PROVE  RebuildInv'
    <2> DEFINE flips == pass[p].changed \/ Flipped(t, up)
               rec == [pass[p] EXCEPT !.targets = left, !.changed = flips]
    <2>1. Become(p, rec)
      BY <1>1, <1>12 DEF Become
    <2>2. flips \in BOOLEAN /\ pass[p].changed \in BOOLEAN
      BY <1>1 DEF PassRecs, Flipped
    <2>3. rec.changed = flips /\ Goes2(rec)
      <3>1. Become(p, rec)
        BY <2>1
      <3> HIDE DEF left, flips
      <3>. QED  BY <1>1, <1>2, <1>5, <1>10, <2>2, <3>1 DEF PassRecs
    <2> DEFINE new == Probed(rows[a], t, up)
    <2>4. new \in ModelAccountRows /\ Disjoint(new) /\ (~Flipped(t, up) => new = rows[a])
          /\ \A u \in ProbeTargets : u.model # t.model /\ TargetKnows(u, rows[a])
                                        => TargetKnows(u, new)
      BY <1>3, <1>6, <1>7, ProbedRow
    <2>5. rows' = [rows EXCEPT ![a] = new]
      BY <1>12
    <2> HIDE DEF new, rec, Goes2, Found, Passed
    <2>6. rec.changed \/ (rows' = rows /\ ~pass[p].changed)
      <3>1. CASE Flipped(t, up) \/ pass[p].changed
        BY <2>3, <3>1
      <3>2. CASE ~Flipped(t, up) /\ ~pass[p].changed
        <4>1. rows' = [rows EXCEPT ![a] = rows[a]]
          BY <2>4, <2>5, <3>2
        <4>2. rows' = rows
          BY <1>7, <4>1
        <4>. QED  BY <3>2, <4>2
      <3>. QED  BY <3>1, <3>2
    <2>7. /\ rows' \in [ModelAccounts -> ModelAccountRows] /\ rows'[a] = new
          /\ \A b \in ModelAccounts : Disjoint(rows'[b])
          /\ \A b \in ModelAccounts \ {a} : rows'[b] = rows[b]
      BY <1>7, <2>4, <2>5
    <2>8. \A u \in left : TargetKnows(u, rows'[a])
      <3>1. \A u \in left : u \in ProbeTargets /\ u.model # t.model /\ TargetKnows(u, rows[a])
        BY <1>3, <1>6
      <3>. QED  BY <2>4, <2>7, <3>1
    <2> HIDE DEF left
    <2>. QED  BY <1>9, <2>3, <2>6, <2>7, <2>8
  <1>. QED  BY <1>8, <1>11, <1>12

LEMMA LeaveAccountKeeps ==
    ASSUME RebuildInv, NEW p \in Passes, LeaveAccount(p)
    PROVE  RebuildInv'
  <1> DEFINE rec == [pass[p] EXCEPT !.pc = "accounts", !.at = {}]
  <1>1. RoutesTyped /\ ProbesKnow /\ pass[p] \in PassRecs /\ pass \in [Passes -> PassRecs]
    BY DEF RebuildInv, RoutesTyped
  <1>2. /\ pass[p].pc = "probing" /\ probeAccountLeases' = probeAccountLeases \ pass[p].at
        /\ rows' = rows
        /\ UNCHANGED <<active, blocked, builtVars, runs, faults, raced, unserved>>
    BY DEF LeaveAccount
  <1>3. Become(p, rec)
    BY <1>1 DEF LeaveAccount, Become
  <1>4. /\ rec \in PassRecs /\ rec.pc = "accounts" /\ rec.at = {} /\ rec.targets = pass[p].targets
        /\ rec.changed = pass[p].changed /\ rec.kind = pass[p].kind /\ rec.before = pass[p].before
        /\ rec.seenRoutes = pass[p].seenRoutes /\ rec.seenChannels = pass[p].seenChannels
    BY <1>1 DEF PassRecs, PassPcs
  <1> HIDE DEF rec
  <1>5. Probes(p, rec)
    BY <1>3, <1>4 DEF Probes
  <1>6. ProbesKnow'
    <2>1. ProbeKnows(rec, rows')
      BY <1>1, <1>4 DEF ProbesKnow, ProbeKnows
    <2>2. /\ \A q \in Passes \ {p} : ProbeKnows(pass[q], rows')
          /\ rec.at \subseteq probeAccountLeases'
          /\ \A q \in Passes \ {p} : pass[q].at \subseteq probeAccountLeases'
                                      /\ rec.at \cap pass[q].at = {}
      BY <1>1, <1>2, <1>4 DEF ProbesKnow
    <2>. QED  BY <1>1, <1>3, <2>1, <2>2, MoveProbes
  <1>7. probeAccountLeases' \in SUBSET ModelAccounts
    BY <1>1, <1>2 DEF RoutesTyped
  <1>8. rec.changed \/ (rows' = rows /\ ~pass[p].changed)
    BY <1>1, <1>2, <1>4 DEF PassRecs
  <1>9. rows' \in [ModelAccounts -> ModelAccountRows] /\ \A b \in ModelAccounts : Disjoint(rows'[b])
    BY <1>1, <1>2 DEF RoutesTyped
  <1>. QED  BY <1>2, <1>5, <1>6, <1>7, <1>8, <1>9, ProbesOn

-----------------------------------------------------------------------------
(* Passes that end, or go on to rebuild                                     *)

LEMMA BrokenOff ==
    ASSUME RebuildInv, NEW p \in Passes, BreakOff(p),
           UNCHANGED <<availVars, builtVars, runs, raced>>, faults' \in 0..MaxFaults
    PROVE  RebuildInv'
  <1>1. RoutesTyped
    BY DEF RebuildInv
  <1>2. Become(p, NoPass) /\ unserved' = TRUE
    BY DEF BreakOff
  <1>3. rows' = rows /\ active' = active /\ blocked' = blocked
        /\ UNCHANGED <<probeAccountLeases, builtVars, raced>>
    BY DEF availVars
  <1>4. /\ rows' \in [ModelAccounts -> ModelAccountRows]
        /\ \A b \in ModelAccounts : Disjoint(rows'[b]) /\ RowsLater(rows[b], rows'[b])
    BY <1>1, <1>3, SameRows
  <1>5. /\ active' \in SUBSET ModelAccounts /\ blocked' \in SUBSET ModelNames
        /\ runs' \in 0..MaxRuns /\ unserved' \in BOOLEAN
    BY <1>1, <1>2, <1>3 DEF RoutesTyped
  <1>. QED  BY <1>2, <1>3, <1>4, <1>5, IdlePass, OwingStep

LEMMA StatementFailsKeeps ==
    ASSUME RebuildInv, NEW p \in Passes, StatementFails(p)
    PROVE  RebuildInv'
  <1>1. RoutesTyped /\ ProbesKnow
    BY DEF RebuildInv
  <1>2. /\ faults' \in 0..MaxFaults /\ UNCHANGED <<availVars, builtVars, runs, raced>>
    BY <1>1, ModelRoutesAssumption DEF StatementFails, RoutesTyped
  <1>3. CASE BreakOff(p)
    BY <1>2, <1>3, BrokenOff
  <1>4. CASE ~BreakOff(p)
    <2>1. PICK a \in ModelAccounts : pass[p].pc = "discovering" /\ Reject(p, a)
      BY <1>4 DEF StatementFails
    <2>2. unserved' = unserved
      BY <1>4 DEF StatementFails
    <2>3. \E rec : GoesOn(p, rec)
      BY <1>1, <2>1, Rejects
    <2>4. rows' = rows
          /\ UNCHANGED <<active, blocked, probeAccountLeases, builtVars, runs, raced, unserved>>
      BY <1>2, <2>2 DEF availVars
    <2>5. /\ rows' \in [ModelAccounts -> ModelAccountRows]
          /\ \A b \in ModelAccounts : Disjoint(rows'[b]) /\ RowsLater(rows[b], rows'[b])
      BY <1>1, <2>4, SameRows
    <2>. QED  BY <1>2, <2>3, <2>4, <2>5, DiscoveryGoesOn
  <1>. QED  BY <1>3, <1>4

LEMMA EndDiscoveryKeeps ==
    ASSUME RebuildInv, NEW p \in Passes, EndDiscovery(p)
    PROVE  RebuildInv'
  <1> DEFINE rec == [NoPass EXCEPT !.kind = pass[p].kind, !.pc = "rebuild"]
  <1>1. RoutesTyped
    BY DEF RebuildInv
  <1>2. UNCHANGED <<availVars, builtVars, runs, raced>> /\ faults' \in 0..MaxFaults
    BY <1>1 DEF EndDiscovery, RoutesTyped
  <1>3. CASE BreakOff(p)
    BY <1>2, <1>3, BrokenOff
  <1>4. CASE ~BreakOff(p)
    <2>1. Become(p, rec) /\ unserved' = unserved /\ pass[p].pc = "discovering" /\ faults' = faults
      BY <1>4 DEF EndDiscovery
    <2>2. pass[p].kind \in {"none", "probe", "refresh", "check", "update"}
      BY <1>1 DEF RoutesTyped, PassRecs
    <2>3. Begun(rec) /\ rec.pc = "rebuild"
      BY <2>2, BegunRebuild
    <2>4. /\ active' \in SUBSET ModelAccounts /\ blocked' \in SUBSET ModelNames
          /\ runs' \in 0..MaxRuns /\ unserved' \in BOOLEAN
          /\ UNCHANGED <<rows, probeAccountLeases, builtVars, faults, raced>>
      BY <1>1, <1>2, <2>1 DEF RoutesTyped, availVars
    <2> HIDE DEF rec
    <2>. QED  BY <2>1, <2>3, <2>4, BeginsOwing
  <1>. QED  BY <1>3, <1>4

LEMMA EndProbeKeeps ==
    ASSUME RebuildInv, NEW p \in Passes, EndProbe(p)
    PROVE  RebuildInv'
  <1> DEFINE rec == [NoPass EXCEPT !.kind = "probe", !.pc = "rebuild"]
  <1>1. RoutesTyped /\ ProbesKnow
    BY DEF RebuildInv
  <1>2. /\ pass[p].pc = "accounts" /\ UNCHANGED <<builtVars, runs, faults, raced, unserved>>
        /\ rows' = rows /\ active' = active /\ blocked' = blocked
        /\ probeAccountLeases' = probeAccountLeases
    BY DEF EndProbe, availVars
  <1>3. /\ active' \in SUBSET ModelAccounts /\ blocked' \in SUBSET ModelNames
        /\ runs' \in 0..MaxRuns /\ unserved' \in BOOLEAN
        /\ probeAccountLeases' \in SUBSET ModelAccounts
        /\ rows' \in [ModelAccounts -> ModelAccountRows] /\ \A b \in ModelAccounts : Disjoint(rows'[b])
    BY <1>1, <1>2 DEF RoutesTyped
  <1>4. CASE pass[p].changed
    <2>1. Become(p, rec)
      BY <1>4 DEF EndProbe
    <2>2. Begun(rec) /\ rec.pc = "rebuild"
      BY BegunRebuild
    <2>3. UNCHANGED <<rows, probeAccountLeases, builtVars, faults, raced>>
      BY <1>2
    <2> HIDE DEF rec
    <2>. QED  BY <1>3, <2>1, <2>2, <2>3, BeginsOwing
  <1>5. CASE ~pass[p].changed
    <2>1. Become(p, NoPass)
      BY <1>5 DEF EndProbe
    <2>2. ~Dirty(pass[p]) /\ ~Building(pass[p]) /\ ~Building(NoPass)
      BY <1>2, <1>5, IdlePass DEF Dirty, Building, Rebuilding
    <2>3. ProbesKnow'
      <3>1. /\ \A q \in Passes \ {p} : ProbeKnows(pass[q], rows')
            /\ NoPass.at \subseteq probeAccountLeases'
            /\ \A q \in Passes \ {p} : pass[q].at \subseteq probeAccountLeases'
                                        /\ NoPass.at \cap pass[q].at = {}
        BY <1>1, <1>2, IdlePass DEF ProbesKnow
      <3>. QED  BY <1>1, <2>1, <3>1, IdlePass, MoveProbes
    <2>4. NoPass.seenRoutes \subseteq pass[p].seenRoutes
          /\ NoPass.seenChannels \subseteq pass[p].seenChannels
      BY IdlePass
    <2>5. UNCHANGED <<active, blocked, builtVars, faults, raced, unserved>>
      BY <1>2
    <2>. QED  BY <1>2, <1>3, <2>1, <2>2, <2>3, <2>4, <2>5, IdlePass, ProbeStep
  <1>. QED  BY <1>4, <1>5

-----------------------------------------------------------------------------
(* The rebuild                                                              *)

\* A rebuild goes on, and keeps to itself.
Rebuilds(p, rec) ==
    /\ rec \in PassRecs /\ Become(p, rec) /\ Building(rec)
    /\ rec.kind = pass[p].kind /\ rec.before = pass[p].before
    /\ rec.at = pass[p].at /\ rec.targets = pass[p].targets

LEMMA RebuildProbes ==
    ASSUME RoutesTyped, ProbesKnow, NEW p \in Passes, NEW rec, Rebuilds(p, rec),
           pass[p].pc # "probing", rows' = rows, probeAccountLeases' = probeAccountLeases
    PROVE  ProbesKnow' /\ Kinds(rec)
  <1>1. Become(p, rec) /\ rec.pc \in Rebuilding /\ rec.at = {} /\ rec.targets = pass[p].targets
    BY DEF Rebuilds, ProbesKnow, ProbeKnows, Building
  <1>2. ProbeKnows(rec, rows')
    BY <1>1 DEF ProbesKnow, ProbeKnows, Rebuilding
  <1>3. /\ \A q \in Passes \ {p} : ProbeKnows(pass[q], rows')
        /\ rec.at \subseteq probeAccountLeases'
        /\ \A q \in Passes \ {p} : pass[q].at \subseteq probeAccountLeases'
                                    /\ rec.at \cap pass[q].at = {}
    BY <1>1 DEF ProbesKnow
  <1>4. Kinds(rec)
    <2>1. rec.pc # "idle" /\ rec # NoPass
      BY <1>1, IdlePass DEF Rebuilding
    <2>. QED  BY <1>1, <2>1 DEF Kinds, Rebuilds, RoutesTyped
  <1>. QED  BY <1>1, <1>2, <1>3, <1>4, MoveProbes

LEMMA SeeAvailabilityKeeps ==
    ASSUME RebuildInv, NEW p \in Passes, SeeAvailability(p)
    PROVE  RebuildInv'
  <1> DEFINE rec == [pass[p] EXCEPT !.pc = "routes", !.want = Wanted]
             alone == \A q \in Passes \ {p} : pass[q].pc \notin Rebuilding
  <1>1. RoutesTyped /\ ProbesKnow /\ IdsBounded
        /\ pass[p] \in PassRecs /\ pass \in [Passes -> PassRecs]
    BY DEF RebuildInv, RoutesTyped
  <1>2. /\ pass[p].pc = "rebuild" /\ UNCHANGED builtVars /\ runs' = runs /\ faults' = faults
        /\ rows' = rows /\ active' = active /\ blocked' = blocked
        /\ probeAccountLeases' = probeAccountLeases
        /\ raced' = ~alone /\ unserved' = (unserved /\ ~alone)
    BY DEF SeeAvailability, availVars
  <1>3. Wanted \in SUBSET (ModelNames \X ModelAccounts) /\ Wanted' = Wanted
    BY <1>2 DEF Wanted, Offering
  <1>4. Become(p, rec)
    BY <1>1 DEF SeeAvailability, Become
  <1>5. /\ rec \in PassRecs /\ rec.pc = "routes" /\ rec.want = Wanted
        /\ rec.kind = pass[p].kind /\ rec.before = pass[p].before
        /\ rec.at = pass[p].at /\ rec.targets = pass[p].targets
        /\ rec.seenRoutes = pass[p].seenRoutes /\ rec.seenChannels = pass[p].seenChannels
    BY <1>1, <1>3 DEF PassRecs, PassPcs, Rebuilding
  <1> HIDE DEF rec
  <1>6. Rebuilds(p, rec)
    BY <1>4, <1>5 DEF Rebuilds, Building, Rebuilding
  <1>7. ProbesKnow' /\ Kinds(rec)
    BY <1>1, <1>2, <1>6, RebuildProbes
  <1>8. raced' \in BOOLEAN /\ unserved' \in BOOLEAN
    <2>1. alone \in BOOLEAN
      OBVIOUS
    <2> HIDE DEF alone
    <2>2. unserved \in BOOLEAN
      BY <1>1 DEF RoutesTyped
    <2>. QED  BY <1>2, <2>1, <2>2
  <1>9. RoutesTyped' /\ IdsBounded'
    <2>1. /\ rows' \in [ModelAccounts -> ModelAccountRows] /\ \A a \in ModelAccounts : Disjoint(rows'[a])
          /\ active' \in SUBSET ModelAccounts /\ blocked' \in SUBSET ModelNames
          /\ probeAccountLeases' \in SUBSET ModelAccounts
          /\ runs' \in 0..MaxRuns /\ faults' \in 0..MaxFaults
      BY <1>1, <1>2 DEF RoutesTyped
    <2>2. /\ rec.seenRoutes \subseteq pass[p].seenRoutes \cup tokenRoutes
          /\ rec.seenChannels \subseteq pass[p].seenChannels \cup routeChannels
      BY <1>5
    <2> HIDE DEF alone
    <2>. QED  BY <1>1, <1>2, <1>4, <1>5, <1>7, <1>8, <2>1, <2>2, MoveTyped
  <1>10. pass'[p] = rec /\ \A q \in Passes \ {p} : pass'[q] = pass[q]
    BY <1>1, <1>4 DEF Become
  <1>11. ~raced' => \A q \in Passes \ {p} : ~Building(pass'[q])
    BY <1>2, <1>10 DEF Building
  <1>12. Solo'
    <2>1. SoloKnows(rec, tokenRoutes', routeChannels')
      BY <1>5 DEF SoloKnows
    <2>2. \A q \in Passes : ~Building(pass'[q]) => SoloKnows(pass'[q], tokenRoutes', routeChannels')
      BY DEF Building, Rebuilding, SoloKnows
    <2>. QED  BY <1>10, <1>11, <2>1, <2>2 DEF Solo
  <1>13. RoutesServed'
    <2>1. Building(rec)
      BY <1>6 DEF Rebuilds
    <2>. QED  BY <1>3, <1>5, <1>10, <1>11, <2>1 DEF RoutesServed
  <1>. QED  BY <1>7, <1>9, <1>12, <1>13 DEF RebuildInv

\* A rebuild reads the tables.
LEMMA Reads ==
    ASSUME RebuildInv, NEW p \in Passes, NEW rec, Rebuilds(p, rec), Building(pass[p]),
           UNCHANGED <<availVars, builtVars, runs, faults, raced, unserved>>,
           rec.want = pass[p].want,
           rec.seenRoutes \subseteq pass[p].seenRoutes \cup tokenRoutes,
           rec.seenChannels \subseteq pass[p].seenChannels \cup routeChannels,
           SoloKnows(pass[p], tokenRoutes, routeChannels)
               => SoloKnows(rec, tokenRoutes, routeChannels)
    PROVE  RebuildInv'
  <1>1. RoutesTyped /\ ProbesKnow /\ IdsBounded /\ Solo /\ RoutesServed
    BY DEF RebuildInv
  <1>2. /\ UNCHANGED builtVars /\ runs' = runs /\ faults' = faults /\ raced' = raced
        /\ rows' = rows /\ active' = active /\ blocked' = blocked
        /\ probeAccountLeases' = probeAccountLeases /\ unserved' = unserved
    BY DEF availVars
  <1>3. rec \in PassRecs /\ Become(p, rec) /\ Building(rec)
    BY DEF Rebuilds
  <1>4. ProbesKnow' /\ Kinds(rec)
    BY <1>1, <1>2, RebuildProbes DEF Building, Rebuilding
  <1>5. RoutesTyped' /\ IdsBounded'
    <2>1. /\ rows' \in [ModelAccounts -> ModelAccountRows] /\ \A a \in ModelAccounts : Disjoint(rows'[a])
          /\ active' \in SUBSET ModelAccounts /\ blocked' \in SUBSET ModelNames
          /\ probeAccountLeases' \in SUBSET ModelAccounts
          /\ runs' \in 0..MaxRuns /\ faults' \in 0..MaxFaults
          /\ raced' \in BOOLEAN /\ unserved' \in BOOLEAN
      BY <1>1, <1>2 DEF RoutesTyped
    <2>. QED  BY <1>1, <1>2, <1>3, <1>4, <2>1, MoveTyped
  <1>6. Solo'
    BY <1>1, <1>2, <1>3, MoveSolo
  <1>7. RoutesServed'
    <2>1. Wanted' = Wanted
      BY <1>2 DEF Wanted, Offering
    <2>2. ~Dirty(pass[p])
      BY DEF Dirty, Building, Rebuilding
    <2>. QED  BY <1>1, <1>2, <1>3, <2>1, <2>2, MoveServed
  <1>. QED  BY <1>4, <1>5, <1>6, <1>7 DEF RebuildInv

LEMMA SeeRoutesKeeps ==
    ASSUME RebuildInv, NEW p \in Passes, SeeRoutes(p)
    PROVE  RebuildInv'
  <1> DEFINE rec == [pass[p] EXCEPT !.pc = "channels", !.seenRoutes = tokenRoutes]
  <1>1. RoutesTyped /\ pass[p] \in PassRecs /\ pass \in [Passes -> PassRecs]
    BY DEF RebuildInv, RoutesTyped
  <1>2. pass[p].pc = "routes" /\ UNCHANGED <<availVars, builtVars, runs, faults, raced, unserved>>
    BY DEF SeeRoutes
  <1>3. Become(p, rec)
    BY <1>1 DEF SeeRoutes, Become
  <1>4. tokenRoutes \in SUBSET RouteRecs
    BY <1>1 DEF RoutesTyped
  <1>5. /\ rec \in PassRecs /\ rec.pc = "channels" /\ rec.want = pass[p].want
        /\ rec.kind = pass[p].kind /\ rec.before = pass[p].before
        /\ rec.at = pass[p].at /\ rec.targets = pass[p].targets
        /\ rec.seenRoutes = tokenRoutes /\ rec.seenChannels = pass[p].seenChannels
    BY <1>1, <1>4 DEF PassRecs, PassPcs, Rebuilding
  <1> HIDE DEF rec
  <1>6. Rebuilds(p, rec) /\ Building(pass[p])
    BY <1>2, <1>3, <1>5 DEF Rebuilds, Building, Rebuilding
  <1>7. SoloKnows(rec, tokenRoutes, routeChannels)
    BY <1>5 DEF SoloKnows
  <1>8. /\ rec.seenRoutes \subseteq pass[p].seenRoutes \cup tokenRoutes
        /\ rec.seenChannels \subseteq pass[p].seenChannels \cup routeChannels
    BY <1>5
  <1>. QED  BY <1>2, <1>5, <1>6, <1>7, <1>8, Reads

LEMMA SeeChannelsKeeps ==
    ASSUME RebuildInv, NEW p \in Passes, SeeChannels(p)
    PROVE  RebuildInv'
  <1> DEFINE rec == [pass[p] EXCEPT !.pc = "writing", !.seenChannels = routeChannels]
  <1>1. RoutesTyped /\ pass[p] \in PassRecs /\ pass \in [Passes -> PassRecs]
    BY DEF RebuildInv, RoutesTyped
  <1>2. pass[p].pc = "channels" /\ UNCHANGED <<availVars, builtVars, runs, faults, raced, unserved>>
    BY DEF SeeChannels
  <1>3. Become(p, rec)
    BY <1>1 DEF SeeChannels, Become
  <1>4. routeChannels \in SUBSET RouteChannelRecs
    BY <1>1 DEF RoutesTyped
  <1>5. /\ rec \in PassRecs /\ rec.pc = "writing" /\ rec.want = pass[p].want
        /\ rec.kind = pass[p].kind /\ rec.before = pass[p].before
        /\ rec.at = pass[p].at /\ rec.targets = pass[p].targets
        /\ rec.seenRoutes = pass[p].seenRoutes /\ rec.seenChannels = routeChannels
    BY <1>1, <1>4 DEF PassRecs, PassPcs, Rebuilding
  <1> HIDE DEF rec
  <1>6. Rebuilds(p, rec) /\ Building(pass[p])
    BY <1>2, <1>3, <1>5 DEF Rebuilds, Building, Rebuilding
  <1>7. SoloKnows(pass[p], tokenRoutes, routeChannels)
            => SoloKnows(rec, tokenRoutes, routeChannels)
    BY <1>2, <1>5 DEF SoloKnows
  <1>8. /\ rec.seenRoutes \subseteq pass[p].seenRoutes \cup tokenRoutes
        /\ rec.seenChannels \subseteq pass[p].seenChannels \cup routeChannels
    BY <1>5
  <1>. QED  BY <1>2, <1>5, <1>6, <1>7, <1>8, Reads

\* A rebuild writes a row, and remembers that it did.
AboutToWrite(p, rec) ==
    /\ Rebuilds(p, rec) /\ rec.pc = "writing" /\ rec.want = pass[p].want

LEMMA TableWritesKeep ==
    ASSUME RebuildInv, NEW p \in Passes, NEW rec, AboutToWrite(p, rec), pass[p].pc = "writing",
           UNCHANGED <<availVars, runs, faults, raced, unserved>>,
           tokenRoutes' \in SUBSET RouteRecs, routeChannels' \in SUBSET RouteChannelRecs,
           \A ch \in routeChannels' : ch.route \in tokenRoutes',
           NEW n \in Nat, IdsBelow(n),
           \A r \in tokenRoutes' \cup rec.seenRoutes : r.id <= n + 1,
           \A ch \in routeChannels' \cup rec.seenChannels : ch.id <= n + 1,
           SoloKnows(pass[p], tokenRoutes, routeChannels)
               => SoloKnows(rec, tokenRoutes', routeChannels')
    PROVE  RebuildInv'
  <1>1. RoutesTyped /\ ProbesKnow /\ Solo /\ RoutesServed /\ pass \in [Passes -> PassRecs]
    BY DEF RebuildInv, RoutesTyped
  <1>2. /\ runs' = runs /\ faults' = faults /\ raced' = raced /\ unserved' = unserved
        /\ rows' = rows /\ active' = active /\ blocked' = blocked
        /\ probeAccountLeases' = probeAccountLeases
    BY DEF availVars
  <1>3. /\ rec \in PassRecs /\ Become(p, rec) /\ Building(rec) /\ Rebuilds(p, rec)
        /\ rec.pc = "writing" /\ rec.want = pass[p].want
    BY DEF AboutToWrite, Rebuilds
  <1>4. ProbesKnow' /\ Kinds(rec)
    BY <1>1, <1>2, <1>3, RebuildProbes
  <1>5. /\ pass' \in [Passes -> PassRecs] /\ pass'[p] = rec
        /\ \A q \in Passes \ {p} : pass'[q] = pass[q]
    BY <1>1, <1>3 DEF Become
  <1>6. RoutesTyped'
    <2>1. \A q \in Passes : Kinds(pass'[q])
      BY <1>1, <1>4, <1>5 DEF RoutesTyped
    <2>. QED  BY <1>1, <1>2, <1>5, <2>1 DEF RoutesTyped
  <1>7. IdsBounded'
    <2>1. n + 1 \in Nat /\ \A i \in Nat : i <= n => i <= n + 1
      OBVIOUS
    <2>2. \A q \in Passes \ {p} : /\ \A r \in pass[q].seenRoutes : r.id \in Nat /\ r.id <= n
                                  /\ \A ch \in pass[q].seenChannels : ch.id \in Nat /\ ch.id <= n
      BY <1>1 DEF IdsBelow, PassRecs, RouteRecs, RouteChannelRecs
    <2>3. \A q \in Passes : /\ \A r \in pass'[q].seenRoutes : r.id <= n + 1
                            /\ \A ch \in pass'[q].seenChannels : ch.id <= n + 1
      BY <1>5, <2>1, <2>2
    <2>4. IdsBelow(n + 1)'
      BY <2>3 DEF IdsBelow
    <2>. QED  BY <2>1, <2>4 DEF IdsBounded
  <1>8. Solo'
    <2> SUFFICES ASSUME ~raced'
                 PROVE  /\ \A q, s \in Passes : Building(pass'[q]) /\ Building(pass'[s]) => q = s
                        /\ \A q \in Passes : SoloKnows(pass'[q], tokenRoutes', routeChannels')
      BY DEF Solo
    <2>1. Building(pass[p]) /\ ~raced
      BY <1>2 DEF Building, Rebuilding
    <2>2. \A q \in Passes \ {p} : ~Building(pass'[q])
      BY <1>1, <1>5, <2>1 DEF Solo
    <2>3. \A q \in Passes : ~Building(pass'[q]) => SoloKnows(pass'[q], tokenRoutes', routeChannels')
      BY DEF Building, Rebuilding, SoloKnows
    <2>4. SoloKnows(rec, tokenRoutes', routeChannels')
      BY <1>1, <2>1 DEF Solo
    <2>. QED  BY <1>5, <2>2, <2>3, <2>4
  <1>9. RoutesServed'
    <2>1. Wanted' = Wanted
      BY <1>2 DEF Wanted, Offering
    <2>2. ~Dirty(pass[p]) /\ ~Dirty(rec) /\ Building(pass[p])
      BY <1>3 DEF Dirty, Building, Rebuilding
    <2>. QED  BY <1>1, <1>2, <1>3, <1>5, <2>1, <2>2 DEF RoutesServed
  <1>. QED  BY <1>4, <1>6, <1>7, <1>8, <1>9 DEF RebuildInv

LEMMA KnownIds ==
    ASSUME RoutesTyped, NEW n \in Nat, IdsBelow(n), NEW p \in Passes
    PROVE  /\ \A r \in tokenRoutes \cup pass[p].seenRoutes : r.id \in Nat /\ r.id <= n + 1
           /\ \A ch \in routeChannels \cup pass[p].seenChannels : ch.id \in Nat /\ ch.id <= n + 1
  <1>1. /\ \A r \in tokenRoutes \cup pass[p].seenRoutes : r.id \in Nat /\ r.id <= n
        /\ \A ch \in routeChannels \cup pass[p].seenChannels : ch.id \in Nat /\ ch.id <= n
    BY DEF IdsBelow, RoutesTyped, PassRecs, RouteRecs, RouteChannelRecs
  <1>. QED  BY <1>1

LEMMA InsertRouteKeeps ==
    ASSUME RebuildInv, NEW p \in Passes, NEW m \in ModelNames, InsertRoute(p, m)
    PROVE  RebuildInv'
  <1>1. RoutesTyped /\ pass[p] \in PassRecs /\ pass \in [Passes -> PassRecs]
    BY DEF RebuildInv, RoutesTyped
  <1>2. PICK n \in Nat : IdsBelow(n)
    BY DEF RebuildInv, IdsBounded
  <1> DEFINE new == NewRoute(m)
             seen == pass[p].seenRoutes \cup {new}
             rec == [pass[p] EXCEPT !.seenRoutes = seen]
  <1>3. new \in RouteRecs /\ new.id <= n + 1
    BY <1>1, <1>2, NewRouteIs
  <1>4. /\ pass[p].pc = "writing" /\ tokenRoutes' = tokenRoutes \cup {new}
        /\ routeChannels' = routeChannels
        /\ UNCHANGED <<availVars, runs, faults, raced, unserved>>
    BY DEF InsertRoute
  <1>5. Become(p, rec)
    BY <1>1 DEF InsertRoute, Become
  <1> HIDE DEF new
  <1>6. seen \in SUBSET RouteRecs
    BY <1>1, <1>3 DEF PassRecs
  <1> HIDE DEF seen
  <1>7. /\ rec \in PassRecs /\ rec.pc = "writing" /\ rec.want = pass[p].want
        /\ rec.kind = pass[p].kind /\ rec.before = pass[p].before
        /\ rec.at = pass[p].at /\ rec.targets = pass[p].targets
        /\ rec.seenRoutes = seen /\ rec.seenChannels = pass[p].seenChannels
    BY <1>1, <1>4, <1>6 DEF PassRecs
  <1> HIDE DEF rec
  <1>8. AboutToWrite(p, rec)
    BY <1>5, <1>7 DEF AboutToWrite, Rebuilds, Building, Rebuilding
  <1>9. /\ tokenRoutes' \in SUBSET RouteRecs /\ routeChannels' \in SUBSET RouteChannelRecs
        /\ \A ch \in routeChannels' : ch.route \in tokenRoutes'
    BY <1>1, <1>3, <1>4 DEF RoutesTyped
  <1>10. /\ \A r \in tokenRoutes' \cup rec.seenRoutes : r.id <= n + 1
         /\ \A ch \in routeChannels' \cup rec.seenChannels : ch.id <= n + 1
    BY <1>1, <1>2, <1>3, <1>4, <1>7, KnownIds DEF seen
  <1>11. SoloKnows(pass[p], tokenRoutes, routeChannels)
            => SoloKnows(rec, tokenRoutes', routeChannels')
    BY <1>4, <1>7 DEF SoloKnows, seen
  <1>. QED  BY <1>2, <1>4, <1>8, <1>9, <1>10, <1>11, TableWritesKeep

LEMMA InsertChannelKeeps ==
    ASSUME RebuildInv, NEW p \in Passes, NEW w \in pass[p].want, InsertChannel(p, w)
    PROVE  RebuildInv'
  <1>1. RoutesTyped /\ pass[p] \in PassRecs /\ pass \in [Passes -> PassRecs]
    BY DEF RebuildInv, RoutesTyped
  <1>2. PICK n \in Nat : IdsBelow(n)
    BY DEF RebuildInv, IdsBounded
  <1> DEFINE route == ExactRoute(pass[p].seenRoutes, w[1])
             new == NewChannel(route, w[2])
             seen == pass[p].seenChannels \cup {new}
             rec == [pass[p] EXCEPT !.seenChannels = seen]
  <1>3. pass[p].seenRoutes \in SUBSET RouteRecs /\ w[1] \in ModelNames /\ w[2] \in ModelAccounts
    BY <1>1 DEF PassRecs
  <1>4. /\ pass[p].pc = "writing" /\ w \in MissingChannels(p)
        /\ UNCHANGED <<availVars, tokenRoutes, runs, faults, raced>>
    BY DEF InsertChannel
  <1>5. Of(pass[p].seenRoutes, w[1]) # {}
    BY <1>4 DEF MissingChannels, MissingRoutes, WantedModels
  <1>6. route \in RouteRecs
    BY <1>3, <1>5, ExactRouteIs
  <1>7. CASE route \in tokenRoutes
    <2>1. /\ routeChannels' = routeChannels \cup {new} /\ tokenRoutes' = tokenRoutes
          /\ pass' = [pass EXCEPT ![p].seenChannels = @ \cup {new}]
          /\ UNCHANGED <<availVars, runs, faults, raced, unserved>>
      BY <1>4, <1>7 DEF InsertChannel
    <2>2. Become(p, rec)
      BY <1>1, <2>1 DEF Become
    <2> HIDE DEF route
    <2>3. new \in RouteChannelRecs /\ new.route = route /\ new.id <= n + 1
      BY <1>1, <1>2, <1>3, <1>6, NewChannelIs
    <2> HIDE DEF new
    <2>4. seen \in SUBSET RouteChannelRecs
      BY <1>1, <2>3 DEF PassRecs
    <2> HIDE DEF seen
    <2>5. /\ rec \in PassRecs /\ rec.pc = "writing" /\ rec.want = pass[p].want
          /\ rec.kind = pass[p].kind /\ rec.before = pass[p].before
          /\ rec.at = pass[p].at /\ rec.targets = pass[p].targets
          /\ rec.seenRoutes = pass[p].seenRoutes /\ rec.seenChannels = seen
      BY <1>1, <1>4, <2>4 DEF PassRecs
    <2> HIDE DEF rec
    <2>6. AboutToWrite(p, rec)
      BY <2>2, <2>5 DEF AboutToWrite, Rebuilds, Building, Rebuilding
    <2>7. /\ tokenRoutes' \in SUBSET RouteRecs /\ routeChannels' \in SUBSET RouteChannelRecs
          /\ \A ch \in routeChannels' : ch.route \in tokenRoutes'
      BY <1>1, <1>7, <2>1, <2>3 DEF RoutesTyped
    <2>8. /\ \A r \in tokenRoutes' \cup rec.seenRoutes : r.id <= n + 1
          /\ \A ch \in routeChannels' \cup rec.seenChannels : ch.id <= n + 1
      BY <1>1, <1>2, <2>1, <2>3, <2>5, KnownIds DEF seen
    <2>9. SoloKnows(pass[p], tokenRoutes, routeChannels)
              => SoloKnows(rec, tokenRoutes', routeChannels')
      BY <1>4, <2>1, <2>5 DEF SoloKnows, seen
    <2>. QED  BY <1>2, <1>4, <2>1, <2>6, <2>7, <2>8, <2>9, TableWritesKeep
  <1>8. CASE route \notin tokenRoutes
    <2>1. BreakOff(p) /\ UNCHANGED <<availVars, builtVars, runs, raced>> /\ faults' = faults
      BY <1>4, <1>8 DEF InsertChannel, builtVars
    <2>2. faults' \in 0..MaxFaults
      BY <1>1, <2>1 DEF RoutesTyped
    <2>. QED  BY <2>1, <2>2, BrokenOff
  <1>. QED  BY <1>7, <1>8

LEMMA DeleteChannelKeeps ==
    ASSUME RebuildInv, NEW p \in Passes, NEW ch \in pass[p].seenChannels, DeleteChannel(p, ch)
    PROVE  RebuildInv'
  <1>1. RoutesTyped /\ pass[p] \in PassRecs /\ pass \in [Passes -> PassRecs]
    BY DEF RebuildInv, RoutesTyped
  <1>2. PICK n \in Nat : IdsBelow(n)
    BY DEF RebuildInv, IdsBounded
  <1> DEFINE seen == pass[p].seenChannels \ {ch}
             rec == [pass[p] EXCEPT !.seenChannels = seen]
  <1>4. /\ pass[p].pc = "writing" /\ tokenRoutes' = tokenRoutes
        /\ routeChannels' = routeChannels \ {ch}
        /\ UNCHANGED <<availVars, runs, faults, raced, unserved>>
    BY DEF DeleteChannel
  <1>5. Become(p, rec)
    BY <1>1 DEF DeleteChannel, Become
  <1>6. seen \in SUBSET RouteChannelRecs
    BY <1>1 DEF PassRecs
  <1> HIDE DEF seen
  <1>7. /\ rec \in PassRecs /\ rec.pc = "writing" /\ rec.want = pass[p].want
        /\ rec.kind = pass[p].kind /\ rec.before = pass[p].before
        /\ rec.at = pass[p].at /\ rec.targets = pass[p].targets
        /\ rec.seenRoutes = pass[p].seenRoutes /\ rec.seenChannels = seen
    BY <1>1, <1>4, <1>6 DEF PassRecs
  <1> HIDE DEF rec
  <1>8. AboutToWrite(p, rec)
    BY <1>5, <1>7 DEF AboutToWrite, Rebuilds, Building, Rebuilding
  <1>9. /\ tokenRoutes' \in SUBSET RouteRecs /\ routeChannels' \in SUBSET RouteChannelRecs
        /\ \A k \in routeChannels' : k.route \in tokenRoutes'
    BY <1>1, <1>4 DEF RoutesTyped
  <1>10. /\ \A r \in tokenRoutes' \cup rec.seenRoutes : r.id <= n + 1
         /\ \A k \in routeChannels' \cup rec.seenChannels : k.id <= n + 1
    BY <1>1, <1>2, <1>4, <1>7, KnownIds DEF seen
  <1>11. SoloKnows(pass[p], tokenRoutes, routeChannels)
            => SoloKnows(rec, tokenRoutes', routeChannels')
    BY <1>4, <1>7 DEF SoloKnows, seen
  <1>. QED  BY <1>2, <1>4, <1>8, <1>9, <1>10, <1>11, TableWritesKeep

LEMMA DeleteRouteKeeps ==
    ASSUME RebuildInv, NEW p \in Passes, NEW r \in pass[p].seenRoutes, DeleteRoute(p, r)
    PROVE  RebuildInv'
  <1>1. RoutesTyped /\ pass[p] \in PassRecs /\ pass \in [Passes -> PassRecs]
    BY DEF RebuildInv, RoutesTyped
  <1>2. PICK n \in Nat : IdsBelow(n)
    BY DEF RebuildInv, IdsBounded
  <1> DEFINE seen == pass[p].seenRoutes \ {r}
             rec == [pass[p] EXCEPT !.seenRoutes = seen]
  <1>4. /\ pass[p].pc = "writing" /\ tokenRoutes' = tokenRoutes \ {r}
        /\ routeChannels' = {ch \in routeChannels : ch.route # r}
        /\ UNCHANGED <<availVars, runs, faults, raced, unserved>>
    BY DEF DeleteRoute
  <1>5. Become(p, rec)
    BY <1>1 DEF DeleteRoute, Become
  <1>6. seen \in SUBSET RouteRecs
    BY <1>1 DEF PassRecs
  <1> HIDE DEF seen
  <1>7. /\ rec \in PassRecs /\ rec.pc = "writing" /\ rec.want = pass[p].want
        /\ rec.kind = pass[p].kind /\ rec.before = pass[p].before
        /\ rec.at = pass[p].at /\ rec.targets = pass[p].targets
        /\ rec.seenRoutes = seen /\ rec.seenChannels = pass[p].seenChannels
    BY <1>1, <1>4, <1>6 DEF PassRecs
  <1> HIDE DEF rec
  <1>8. AboutToWrite(p, rec)
    BY <1>5, <1>7 DEF AboutToWrite, Rebuilds, Building, Rebuilding
  <1>9. /\ tokenRoutes' \in SUBSET RouteRecs /\ routeChannels' \in SUBSET RouteChannelRecs
        /\ \A k \in routeChannels' : k.route \in tokenRoutes'
    BY <1>1, <1>4 DEF RoutesTyped
  <1>10. /\ \A k \in tokenRoutes' \cup rec.seenRoutes : k.id <= n + 1
         /\ \A k \in routeChannels' \cup rec.seenChannels : k.id <= n + 1
    BY <1>1, <1>2, <1>4, <1>7, KnownIds DEF seen
  <1>11. \A w \in pass[p].want : w[1] # r.model
    BY DEF DeleteRoute, StaleRoutes, WantedModels
  <1>12. SoloKnows(pass[p], tokenRoutes, routeChannels)
            => SoloKnows(rec, tokenRoutes', routeChannels')
    BY <1>4, <1>7, <1>11 DEF SoloKnows, seen
  <1>. QED  BY <1>2, <1>4, <1>8, <1>9, <1>10, <1>12, TableWritesKeep

\* A rebuild that finds nothing left to write has made the tables follow.
LEMMA DoneFollows ==
    ASSUME RoutesTyped, NEW p \in Passes, pass[p].pc = "writing",
           SoloKnows(pass[p], tokenRoutes, routeChannels),
           ChannelsDone(p), StaleRoutes(p) = {}
    PROVE  Follow(pass[p].want, tokenRoutes, routeChannels)
  <1> DEFINE want == pass[p].want
  <1>1. pass[p] \in PassRecs /\ tokenRoutes \in SUBSET RouteRecs
        /\ routeChannels \in SUBSET RouteChannelRecs
    BY DEF RoutesTyped
  <1>2. want \in SUBSET (ModelNames \X ModelAccounts)
    BY <1>1 DEF PassRecs
  <1>3. /\ pass[p].seenRoutes = tokenRoutes /\ routeChannels \subseteq pass[p].seenChannels
        /\ \A ch \in pass[p].seenChannels :
             (\E w \in want : w[1] = ch.route.model) => ch \in routeChannels
    BY DEF SoloKnows
  <1>4. MissingRoutes(p) = {} /\ MissingChannels(p) = {} /\ StaleChannels(p) = {}
    BY DEF ChannelsDone
  <1> SUFFICES ASSUME NEW m \in ModelNames
               PROVE  /\ WantedOf(want, m) = {} <=> Of(tokenRoutes, m) = {}
                      /\ WantedOf(want, m) # {} =>
                          {ch.account : ch \in {k \in routeChannels :
                                                  k.route = ExactRoute(tokenRoutes, m)}}
                            = WantedOf(want, m)
    BY DEF Follow
  <1>5. WantedOf(want, m) # {} <=> m \in WantedModels(p)
    <2>1. ASSUME NEW a \in WantedOf(want, m)  PROVE m \in WantedModels(p)
      <3>1. <<m, a>> \in want
        BY DEF WantedOf
      <3>. QED  BY <3>1 DEF WantedModels
    <2>2. ASSUME m \in WantedModels(p)  PROVE WantedOf(want, m) # {}
      <3>1. PICK w \in want : w[1] = m
        BY <2>2 DEF WantedModels
      <3>2. w = <<m, w[2]>> /\ w[2] \in ModelAccounts
        BY <1>2, <3>1
      <3>. QED  BY <3>1, <3>2 DEF WantedOf
    <2>. QED  BY <2>1, <2>2
  <1>6. m \in WantedModels(p) => Of(tokenRoutes, m) # {}
    BY <1>3, <1>4 DEF MissingRoutes
  <1>7. m \notin WantedModels(p) => Of(tokenRoutes, m) = {}
    BY <1>3 DEF StaleRoutes, Of
  <1>8. ASSUME m \in WantedModels(p)
        PROVE  {ch.account : ch \in {k \in routeChannels : k.route = ExactRoute(tokenRoutes, m)}}
                  = WantedOf(want, m)
    <2> DEFINE route == ExactRoute(tokenRoutes, m)
    <2>1. route \in tokenRoutes /\ route.model = m
      BY <1>1, <1>6, <1>8, ExactRouteIs
    <2>2. route = ExactRoute(pass[p].seenRoutes, m)
      BY <1>3
    <2> HIDE DEF route
    <2>3. ASSUME NEW ch \in routeChannels, ch.route = route
          PROVE  ch.account \in WantedOf(want, m)
      <3>1. ch \in pass[p].seenChannels /\ ch.account \in ModelAccounts
        BY <1>1, <1>3 DEF RouteChannelRecs
      <3>2. <<m, ch.account>> \in want
        BY <1>4, <1>8, <2>2, <2>3, <3>1 DEF StaleChannels
      <3>. QED  BY <3>1, <3>2 DEF WantedOf
    <2>4. ASSUME NEW a \in WantedOf(want, m)
          PROVE  \E ch \in routeChannels : ch.route = route /\ ch.account = a
      <3> DEFINE w == <<m, a>>
      <3>1. w \in want /\ w[1] = m /\ w[2] = a
        BY DEF WantedOf
      <3> HIDE DEF w
      <3>2. PICK ch \in pass[p].seenChannels : ch.route = route /\ ch.account = a
        BY <1>4, <2>2, <3>1 DEF MissingChannels
      <3>3. ch \in routeChannels
        BY <1>3, <2>1, <3>1, <3>2
      <3>. QED  BY <3>2, <3>3
    <2>. QED  BY <2>3, <2>4 DEF route
  <1>. QED  BY <1>5, <1>6, <1>7, <1>8

LEMMA EndRebuildKeeps ==
    ASSUME RebuildInv, NEW p \in Passes, EndRebuild(p)
    PROVE  RebuildInv'
  <1>1. RoutesTyped /\ ProbesKnow /\ IdsBounded /\ Solo /\ RoutesServed
        /\ pass \in [Passes -> PassRecs]
    BY DEF RebuildInv, RoutesTyped
  <1>2. /\ pass[p].pc = "writing" /\ ChannelsDone(p) /\ StaleRoutes(p) = {} /\ Become(p, NoPass)
        /\ UNCHANGED builtVars /\ runs' = runs /\ faults' = faults /\ raced' = raced
        /\ rows' = rows /\ active' = active /\ blocked' = blocked
        /\ probeAccountLeases' = probeAccountLeases /\ unserved' = unserved
    BY DEF EndRebuild, availVars
  <1>3. RoutesTyped' /\ IdsBounded'
    <2>1. /\ rows' \in [ModelAccounts -> ModelAccountRows] /\ \A a \in ModelAccounts : Disjoint(rows'[a])
          /\ active' \in SUBSET ModelAccounts /\ blocked' \in SUBSET ModelNames
          /\ probeAccountLeases' \in SUBSET ModelAccounts
          /\ runs' \in 0..MaxRuns /\ faults' \in 0..MaxFaults
          /\ raced' \in BOOLEAN /\ unserved' \in BOOLEAN
      BY <1>1, <1>2 DEF RoutesTyped
    <2>2. /\ NoPass.seenRoutes \subseteq pass[p].seenRoutes \cup tokenRoutes
          /\ NoPass.seenChannels \subseteq pass[p].seenChannels \cup routeChannels
      BY IdlePass
    <2>. QED  BY <1>1, <1>2, <2>1, <2>2, IdlePass, MoveTyped
  <1>4. ProbesKnow'
    <2>1. /\ \A q \in Passes \ {p} : ProbeKnows(pass[q], rows')
          /\ NoPass.at \subseteq probeAccountLeases'
          /\ \A q \in Passes \ {p} : pass[q].at \subseteq probeAccountLeases'
                                      /\ NoPass.at \cap pass[q].at = {}
      BY <1>1, <1>2, IdlePass DEF ProbesKnow
    <2>. QED  BY <1>1, <1>2, <2>1, IdlePass, MoveProbes
  <1>5. Solo'
    BY <1>1, <1>2, IdlePass, MoveSolo
  <1>6. RoutesServed'
    <2>1. pass'[p] = NoPass /\ \A q \in Passes \ {p} : pass'[q] = pass[q]
      BY <1>1, <1>2 DEF Become
    <2>2. tokenRoutes' = tokenRoutes /\ routeChannels' = routeChannels /\ Wanted' = Wanted
      BY <1>2 DEF builtVars, Wanted, Offering
    <2>3. Building(pass[p]) /\ ~Dirty(pass[p])
      BY <1>2 DEF Building, Rebuilding, Dirty
    <2> SUFFICES ASSUME ~raced, ~unserved, \A q \in Passes : ~Dirty(pass'[q])
                 PROVE  /\ \A q \in Passes : ~Building(pass'[q])
                        /\ Follow(Wanted', tokenRoutes', routeChannels')
      BY <1>2 DEF RoutesServed
    <2>4. \A q \in Passes : ~Building(pass'[q])
      BY <1>1, <2>1, <2>3, IdlePass DEF Solo
    <2>5. pass[p].want = Wanted
      BY <1>1, <2>1, <2>3 DEF RoutesServed
    <2>6. SoloKnows(pass[p], tokenRoutes, routeChannels)
      BY <1>1 DEF Solo
    <2>7. Follow(Wanted, tokenRoutes, routeChannels)
      BY <1>1, <1>2, <2>5, <2>6, DoneFollows
    <2>. QED  BY <2>2, <2>4, <2>7
  <1>. QED  BY <1>3, <1>4, <1>5, <1>6 DEF RebuildInv

-----------------------------------------------------------------------------
(* The theorems                                                             *)

LEMMA RebuildInitInv == ModelRoutesInit => RebuildInv
  <1> SUFFICES ASSUME ModelRoutesInit  PROVE RebuildInv
    OBVIOUS
  <1> DEFINE First(m) == [model |-> m, id |-> 1]
  <1>1. /\ rows \in [ModelAccounts -> {[NoRows EXCEPT !.up = up] : up \in SUBSET ModelNames}]
        /\ active = ModelAccounts /\ blocked = {} /\ probeAccountLeases = {}
        /\ tokenRoutes = {First(w[1]) : w \in Wanted}
        /\ routeChannels = {[route |-> First(w[1]), account |-> w[2], id |-> 1] : w \in Wanted}
        /\ pass = [p \in Passes |-> NoPass]
        /\ runs = 0 /\ faults = 0 /\ raced = FALSE /\ unserved = FALSE
    BY DEF ModelRoutesInit
  <1>2. \A w \in Wanted : w[1] \in ModelNames /\ w[2] \in ModelAccounts
    BY DEF Wanted
  <1>3. \A p \in Passes : pass[p] = NoPass
    BY <1>1
  <1>4. RoutesTyped
    <2>1. \A up \in SUBSET ModelNames : [NoRows EXCEPT !.up = up] \in ModelAccountRows
                                         /\ Disjoint([NoRows EXCEPT !.up = up])
      BY DEF NoRows, ModelAccountRows, Disjoint
    <2>2. rows \in [ModelAccounts -> ModelAccountRows] /\ \A a \in ModelAccounts : Disjoint(rows[a])
      <3>. DEFINE FirstRows == {[NoRows EXCEPT !.up = up] : up \in SUBSET ModelNames}
      <3>1. \A x \in FirstRows : x \in ModelAccountRows /\ Disjoint(x)
        BY <2>1
      <3>2. rows \in [ModelAccounts -> FirstRows]
        BY <1>1
      <3>. HIDE DEF FirstRows
      <3>. QED  BY <3>1, <3>2
    <2>3. /\ tokenRoutes \in SUBSET RouteRecs /\ routeChannels \in SUBSET RouteChannelRecs
          /\ \A ch \in routeChannels : ch.route \in tokenRoutes
      BY <1>1, <1>2 DEF RouteRecs, RouteChannelRecs
    <2>4. pass \in [Passes -> PassRecs] /\ \A p \in Passes : Kinds(pass[p])
      BY <1>1, <1>3, IdlePass
    <2>5. 0 \in 0..MaxRuns /\ 0 \in 0..MaxFaults
      BY ModelRoutesAssumption
    <2>6. /\ active \in SUBSET ModelAccounts /\ blocked \in SUBSET ModelNames
          /\ probeAccountLeases \in SUBSET ModelAccounts
          /\ raced \in BOOLEAN /\ unserved \in BOOLEAN
          /\ runs \in 0..MaxRuns /\ faults \in 0..MaxFaults
      BY <1>1, <2>5
    <2>. QED  BY <2>2, <2>3, <2>4, <2>6 DEF RoutesTyped
  <1>5. IdsBounded
    <2>1. IdsBelow(1)
      BY <1>1, <1>3, IdlePass DEF IdsBelow
    <2>. QED  BY <2>1 DEF IdsBounded
  <1>6. ProbesKnow
    BY <1>3, IdlePass DEF ProbesKnow
  <1>7. Solo
    BY <1>3, IdlePass DEF Solo
  <1>8. Follow(Wanted, tokenRoutes, routeChannels)
    <2> SUFFICES ASSUME NEW m \in ModelNames
                 PROVE  /\ WantedOf(Wanted, m) = {} <=> Of(tokenRoutes, m) = {}
                        /\ WantedOf(Wanted, m) # {} =>
                            {ch.account : ch \in {k \in routeChannels :
                                                    k.route = ExactRoute(tokenRoutes, m)}}
                              = WantedOf(Wanted, m)
      BY DEF Follow
    <2>1. \A r \in Of(tokenRoutes, m) : r = First(m)
      BY <1>1 DEF Of
    <2>2. \A a \in WantedOf(Wanted, m) : <<m, a>> \in Wanted
      BY DEF WantedOf
    <2>3. \A a \in WantedOf(Wanted, m) : First(m) \in tokenRoutes
      <3>1. ASSUME NEW a \in WantedOf(Wanted, m)  PROVE First(m) \in tokenRoutes
        <4>1. <<m, a>> \in Wanted /\ <<m, a>>[1] = m
          BY <2>2
        <4>. QED  BY <1>1, <4>1
      <3>. QED  BY <3>1
    <2>4. WantedOf(Wanted, m) # {} => Of(tokenRoutes, m) # {}
      BY <2>3 DEF Of
    <2>5. Of(tokenRoutes, m) # {} => WantedOf(Wanted, m) # {}
      <3> SUFFICES ASSUME NEW r \in tokenRoutes, r.model = m  PROVE WantedOf(Wanted, m) # {}
        BY DEF Of
      <3>1. PICK w \in Wanted : r = First(w[1])
        BY <1>1
      <3>2. w[1] = m
        BY <3>1
      <3>3. w = <<m, w[2]>> /\ w[2] \in ModelAccounts
        BY <3>2 DEF Wanted
      <3>. QED  BY <3>1, <3>3 DEF WantedOf
    <2>6. ASSUME WantedOf(Wanted, m) # {}
          PROVE  {ch.account : ch \in {k \in routeChannels : k.route = ExactRoute(tokenRoutes, m)}}
                    = WantedOf(Wanted, m)
      <3>1. ExactRoute(tokenRoutes, m) = First(m)
        <4>1. ExactRoute(tokenRoutes, m) \in Of(tokenRoutes, m)
          BY <1>4, <2>4, <2>6, ExactRouteIs DEF Of, RoutesTyped
        <4>. QED  BY <2>1, <4>1
      <3>2. ASSUME NEW k \in routeChannels, k.route = First(m)
            PROVE  k.account \in WantedOf(Wanted, m)
        <4>1. PICK w \in Wanted : k = [route |-> First(w[1]), account |-> w[2], id |-> 1]
          BY <1>1
        <4>2. w[1] = m /\ k.account = w[2]
          BY <3>2, <4>1
        <4>3. w = <<m, w[2]>> /\ w[2] \in ModelAccounts
          BY <4>2 DEF Wanted
        <4>. QED  BY <4>1, <4>2, <4>3 DEF WantedOf
      <3>3. ASSUME NEW a \in WantedOf(Wanted, m)
            PROVE  \E k \in routeChannels : k.route = First(m) /\ k.account = a
        <4> DEFINE w == <<m, a>>
        <4>1. w \in Wanted /\ w[1] = m /\ w[2] = a
          BY <2>2
        <4> HIDE DEF w
        <4>2. [route |-> First(w[1]), account |-> w[2], id |-> 1] \in routeChannels
          BY <1>1, <4>1
        <4>. QED  BY <4>1, <4>2
      <3>. QED  BY <3>1, <3>2, <3>3
    <2>. QED  BY <2>4, <2>5, <2>6
  <1>9. RoutesServed
    BY <1>3, <1>8, IdlePass DEF RoutesServed
  <1>. QED  BY <1>4, <1>5, <1>6, <1>7, <1>9 DEF RebuildInv

LEMMA RebuildNextInv == RebuildInv /\ [ModelRoutesNext]_modelRouteVars => RebuildInv'
  <1> SUFFICES ASSUME RebuildInv, [ModelRoutesNext]_modelRouteVars  PROVE RebuildInv'
    OBVIOUS
  <1>1. CASE UNCHANGED modelRouteVars
    <2>1. /\ rows' = rows /\ active' = active /\ blocked' = blocked
          /\ probeAccountLeases' = probeAccountLeases
          /\ tokenRoutes' = tokenRoutes /\ routeChannels' = routeChannels /\ pass' = pass
          /\ runs' = runs /\ faults' = faults /\ raced' = raced /\ unserved' = unserved
      BY <1>1 DEF modelRouteVars, availVars, builtVars
    <2>2. Wanted' = Wanted
      BY <2>1 DEF Wanted, Offering
    <2>3. RoutesTyped' /\ IdsBounded' /\ ProbesKnow'
      BY <2>1 DEF RebuildInv, RoutesTyped, IdsBounded, IdsBelow, ProbesKnow
    <2>4. Solo' /\ RoutesServed'
      BY <2>1, <2>2 DEF RebuildInv, Solo, RoutesServed
    <2>. QED  BY <2>3, <2>4 DEF RebuildInv
  <1>2. ASSUME NEW p \in Passes,
               StartProbe(p) \/ StartRefresh(p) \/ EndDiscovery(p) \/ LeaveAccount(p)
               \/ EndProbe(p) \/ SeeAvailability(p) \/ SeeRoutes(p) \/ SeeChannels(p)
               \/ EndRebuild(p) \/ StatementFails(p)
        PROVE  RebuildInv'
    BY <1>2, StartProbeKeeps, StartRefreshKeeps, EndDiscoveryKeeps, LeaveAccountKeeps,
       EndProbeKeeps, SeeAvailabilityKeeps, SeeRoutesKeeps, SeeChannelsKeeps, EndRebuildKeeps,
       StatementFailsKeeps
  <1>3. ASSUME NEW p \in Passes, NEW a \in ModelAccounts,
               StartCheck(p, a) \/ StartUpdate(p, a) \/ ReadBefore(p, a) \/ ClearExisting(p, a)
               \/ NothingFound(p, a) \/ ModelsFound(p, a) \/ ClearToRestore(p, a)
               \/ Reinsert(p, a) \/ TakeAccount(p, a)
        PROVE  RebuildInv'
    BY <1>3, StartCheckKeeps, StartUpdateKeeps, DiscoveryKeeps, TakeAccountKeeps
  <1>4. ASSUME NEW p \in Passes, NEW t \in pass[p].targets, ProbeModel(p, t)
        PROVE  RebuildInv'
    BY <1>4, ProbeModelKeeps
  <1>5. ASSUME NEW p \in Passes, NEW w \in pass[p].want, InsertChannel(p, w)
        PROVE  RebuildInv'
    BY <1>5, InsertChannelKeeps
  <1>6. ASSUME NEW p \in Passes, NEW ch \in pass[p].seenChannels, DeleteChannel(p, ch)
        PROVE  RebuildInv'
    BY <1>6, DeleteChannelKeeps
  <1>7. ASSUME NEW p \in Passes, NEW r \in pass[p].seenRoutes, DeleteRoute(p, r)
        PROVE  RebuildInv'
    BY <1>7, DeleteRouteKeeps
  <1>8. ASSUME NEW m \in ModelNames, SaveFilter(m) \/ \E p \in Passes : InsertRoute(p, m)
        PROVE  RebuildInv'
    BY <1>8, SaveFilterKeeps, InsertRouteKeeps
  <1>. QED  BY <1>1, <1>2, <1>3, <1>4, <1>5, <1>6, <1>7, <1>8 DEF ModelRoutesNext

LEMMA RebuildInvHolds == ModelRoutesSpec => []RebuildInv
  BY RebuildInitInv, RebuildNextInv, PTL DEF ModelRoutesSpec

\* The rows, the tables and what passes remember of them keep their shape.
THEOREM RoutesTypeCorrect == ModelRoutesSpec => []ModelRoutesTypeOK
  <1>1. RebuildInv => ModelRoutesTypeOK
    <2> SUFFICES ASSUME RoutesTyped  PROVE ModelRoutesTypeOK
      BY DEF RebuildInv
    <2>1. \A a \in ModelAccounts :
            /\ rows[a].gen \in Nat /\ rows[a].up \cup rows[a].down \subseteq ModelNames
            /\ rows[a].up \cap rows[a].down = {}
      BY DEF RoutesTyped, ModelAccountRows, Disjoint
    <2>2. /\ tokenRoutes \subseteq [model : ModelNames, id : Nat \ {0}]
          /\ routeChannels \subseteq [route : tokenRoutes, account : ModelAccounts, id : Nat \ {0}]
      BY DEF RoutesTyped, RouteRecs, RouteChannelRecs
    <2>3. \A p \in Passes :
            /\ pass[p].kind \in {"none", "probe", "refresh", "check", "update"}
            /\ pass[p].pc \in {"idle", "accounts", "probing", "discovering", "rebuild"}
                                \cup Rebuilding
            /\ pass[p].pc = "idle" <=> pass[p] = NoPass
            /\ pass[p].want \subseteq ModelNames \X ModelAccounts
      <3> SUFFICES ASSUME NEW rec \in PassRecs, Kinds(rec)
                   PROVE  /\ rec.kind \in {"none", "probe", "refresh", "check", "update"}
                          /\ rec.pc \in {"idle", "accounts", "probing", "discovering", "rebuild"}
                                              \cup Rebuilding
                          /\ rec.pc = "idle" <=> rec = NoPass
                          /\ rec.want \subseteq ModelNames \X ModelAccounts
        BY DEF RoutesTyped
      <3>. QED  BY DEF PassRecs, PassPcs, Kinds
    <2>. QED  BY <2>1, <2>2, <2>3 DEF ModelRoutesTypeOK, RoutesTyped
  <1>. QED  BY <1>1, RebuildInvHolds, PTL

\* When all work is done, and the last rebuild had the tables for itself, a model has a
\* route if and only if an active account offers it, and the route that requests get
\* has a channel for those accounts and no other: for any accounts, models and
\* passes, whatever has overlapped before (rebuildTokenRoutesFromAvailability).
THEOREM RoutesFollow == ModelRoutesSpec => []RoutesFollowAvailability
  <1>1. RebuildInv => RoutesFollowAvailability
    <2> SUFFICES ASSUME RebuildInv, \A p \in Passes : AtRest(p), ~raced, ~unserved,
                        NEW m \in ModelNames
                 PROVE  /\ Offering(m) = {} <=> Of(tokenRoutes, m) = {}
                        /\ Offering(m) # {} =>
                            {ch.account : ch \in {k \in routeChannels :
                                                    k.route = ExactRoute(tokenRoutes, m)}}
                              = Offering(m)
      BY DEF RoutesFollowAvailability
    <2>1. \A p \in Passes : ~Dirty(pass[p]) /\ ~Building(pass[p])
      BY DEF AtRest, Dirty, Building, Rebuilding
    <2>2. Follow(Wanted, tokenRoutes, routeChannels)
      BY <2>1 DEF RebuildInv, RoutesServed
    <2>3. WantedOf(Wanted, m) = Offering(m)
      <3>1. Offering(m) \subseteq ModelAccounts
        BY DEF RebuildInv, RoutesTyped, Offering
      <3>2. \A a \in ModelAccounts : <<m, a>> \in Wanted <=> a \in Offering(m)
        BY DEF Wanted
      <3>. QED  BY <3>1, <3>2 DEF WantedOf
    <2>. QED  BY <2>2, <2>3 DEF Follow
  <1>. QED  BY <1>1, RebuildInvHolds, PTL
===============================================================================
