------------------------------ MODULE ModelRoutes ------------------------------
(***************************************************************************)
(* Which models the accounts offer, and the routes built from that.        *)
(* Discovery replaces the availability rows of an account, probes flip     *)
(* them, the operator edits accounts and the model filter; each of them    *)
(* then rebuilds routes and channels. A pass is one such piece of work     *)
(* from its start to the end of its rebuild. Passes overlap.               *)
(***************************************************************************)
EXTENDS Naturals, FiniteSets, FiniteSetsExt

CONSTANTS
    ModelAccounts, ModelNames,
    Passes,         \* bound: passes at a time
    MaxRuns,        \* bound: passes and filter changes altogether
    MaxFaults       \* bound: statements that fail

ASSUME ModelRoutesAssumption == MaxRuns \in Nat /\ MaxFaults \in Nat

VARIABLES
    rows,           \* model_availability: a generation, models up and models down
    active,         \* accounts whose status is active
    blocked,        \* models that the whitelist and the blocked brands keep out
    probeAccountLeases,
    tokenRoutes, routeChannels,
    pass,           \* what each pass has read and has yet to do
    runs, faults,   \* bounds
    raced,          \* history: the rebuild that started last found another at work
    unserved        \* history: a pass broke off, or a filter came too late for its rebuild

availVars == <<rows, active, blocked, probeAccountLeases>>
builtVars == <<tokenRoutes, routeChannels>>
modelRouteVars == <<availVars, builtVars, pass, runs, faults, raced, unserved>>

NoRows == [gen |-> 0, up |-> {}, down |-> {}]
NoPass == [kind |-> "none", pc |-> "idle", todo |-> {}, at |-> {}, targets |-> {},
           changed |-> FALSE, discovery |-> [a \in ModelAccounts |-> "done"],
           restore |-> FALSE, before |-> NoRows, rejected |-> FALSE,
           want |-> {}, seenRoutes |-> {}, seenChannels |-> {}]

Rebuilding == {"routes", "channels", "writing"}

ModelRoutesTypeOK ==
    /\ \A a \in ModelAccounts :
        /\ rows[a].gen \in Nat /\ rows[a].up \cup rows[a].down \subseteq ModelNames
        /\ rows[a].up \cap rows[a].down = {}
    /\ active \subseteq ModelAccounts /\ blocked \subseteq ModelNames
    /\ probeAccountLeases \subseteq ModelAccounts
    /\ tokenRoutes \subseteq [model : ModelNames, id : Nat \ {0}]
    /\ routeChannels \subseteq [route : tokenRoutes, account : ModelAccounts, id : Nat \ {0}]
    /\ \A p \in Passes :
        /\ pass[p].kind \in {"none", "probe", "refresh", "check", "update"}
        /\ pass[p].pc \in {"idle", "accounts", "probing", "discovering", "rebuild"}
                            \cup Rebuilding
        /\ pass[p].pc = "idle" <=> pass[p] = NoPass
        /\ pass[p].want \subseteq ModelNames \X ModelAccounts
    /\ runs \in 0..MaxRuns /\ faults \in 0..MaxFaults
    /\ raced \in BOOLEAN /\ unserved \in BOOLEAN

\* What the routes are to be built from.
Offering(m) == {a \in active : m \in rows[a].up \ blocked}
Wanted == {w \in ModelNames \X ModelAccounts : w[2] \in Offering(w[1])}

\* The server has started and built its routes.
ModelRoutesInit ==
    /\ rows \in [ModelAccounts -> {[NoRows EXCEPT !.up = up] : up \in SUBSET ModelNames}]
    /\ active = ModelAccounts /\ blocked = {} /\ probeAccountLeases = {}
    /\ tokenRoutes = {[model |-> w[1], id |-> 1] : w \in Wanted}
    /\ routeChannels =
        {[route |-> [model |-> w[1], id |-> 1], account |-> w[2], id |-> 1] : w \in Wanted}
    /\ pass = [p \in Passes |-> NoPass]
    /\ runs = 0 /\ faults = 0 /\ raced = FALSE /\ unserved = FALSE

-----------------------------------------------------------------------------
(* Passes begin                                                             *)

Counted == runs < MaxRuns /\ runs' = runs + 1
AtRest(p) == pass[p].pc = "idle"
Become(p, new) == pass' = [pass EXCEPT ![p] = new]

\* inFlightRefreshModelsAndRebuildRoutes
InFlight(p) == pass[p].kind = "refresh" /\ ~pass[p].rejected

NewRefresh == [NoPass EXCEPT !.kind = "refresh", !.pc = "discovering",
    !.discovery = [a \in ModelAccounts |-> IF a \in active THEN "clear" ELSE "done"]]

\* executeModelAvailabilityProbe, of every active account or of one
StartProbe(p) ==
    /\ AtRest(p) /\ Counted
    /\ \E todo \in {active} \cup {{a} : a \in ModelAccounts} :
          Become(p, [NoPass EXCEPT !.kind = "probe", !.pc = "accounts", !.todo = todo])
    /\ UNCHANGED <<availVars, builtVars, faults, raced, unserved>>

\* refreshModelsAndRebuildRoutes; whoever calls it meanwhile shares the promise.
StartRefresh(p) ==
    /\ AtRest(p) /\ Counted
    /\ \A q \in Passes : ~InFlight(q)
    /\ Become(p, NewRefresh)
    /\ UNCHANGED <<availVars, builtVars, faults, raced, unserved>>

\* refreshModelsForAccount and the rebuild after it, for the operator. An account
\* that is being edited gets its rows back if nothing is found.
StartCheck(p, a) ==
    /\ AtRest(p) /\ Counted
    /\ \E restore \in BOOLEAN :
          Become(p, [NoPass EXCEPT !.kind = "check", !.pc = "discovering", !.restore = restore,
                                   !.discovery[a] = IF restore THEN "before" ELSE "clear"])
    /\ UNCHANGED <<availVars, builtVars, faults, raced, unserved>>

\* applyAccountUpdateWorkflow with nothing to discover
StartUpdate(p, a) ==
    /\ AtRest(p) /\ Counted
    /\ active' = (active \ {a}) \cup ({a} \ active)
    /\ Become(p, [NoPass EXCEPT !.kind = "update", !.pc = "rebuild"])
    /\ UNCHANGED <<rows, blocked, probeAccountLeases, builtVars, faults, raced, unserved>>

\* The settings page: the filter is changed, and a refresh started or joined.
SaveFilter(m) ==
    /\ Counted
    /\ blocked' = (blocked \ {m}) \cup ({m} \ blocked)
    /\ IF \E q \in Passes : InFlight(q)
       THEN /\ unserved' = (unserved \/
                    \E q \in Passes : InFlight(q) /\ pass[q].pc \in Rebuilding)
            /\ UNCHANGED pass
       ELSE /\ \E p \in Passes : AtRest(p) /\ Become(p, NewRefresh)
            /\ UNCHANGED unserved
    /\ UNCHANGED <<rows, active, probeAccountLeases, builtVars, faults, raced>>

BreakOff(p) == Become(p, NoPass) /\ unserved' = TRUE

-----------------------------------------------------------------------------
(* Discovery: refreshModelsForAccount                                       *)

At(p, a, step) == pass[p].pc = "discovering" /\ pass[p].discovery[a] = step
Go(p, a, step) == pass' = [pass EXCEPT ![p].discovery[a] = step]
Reject(p, a) == pass' = [pass EXCEPT ![p].discovery[a] = "done", ![p].rejected = TRUE]

Cleared(a) == [rows EXCEPT ![a] = [NoRows EXCEPT !.gen = rows[a].gen + 1]]
HasRows(a) == rows[a].up \cup rows[a].down

ReadBefore(p, a) ==
    /\ At(p, a, "before")
    /\ pass' = [pass EXCEPT ![p].before = rows[a], ![p].discovery[a] = "clear"]
    /\ UNCHANGED <<availVars, builtVars, runs, faults, raced, unserved>>

\* clearExistingAvailability, also for an account that is then skipped
ClearExisting(p, a) ==
    /\ At(p, a, "clear")
    /\ rows' = Cleared(a)
    /\ Go(p, a, IF a \in active \/ pass[p].restore THEN "ask" ELSE "done")
    /\ UNCHANGED <<active, blocked, probeAccountLeases, builtVars, runs, faults, raced, unserved>>

NothingFound(p, a) ==
    /\ At(p, a, "ask")
    /\ Go(p, a, IF pass[p].restore THEN "restore" ELSE "done")
    /\ UNCHANGED <<availVars, builtVars, runs, faults, raced, unserved>>

\* The index on account and model lets nobody insert beside another discovery: some
\* platforms take that for a failed discovery, for the others it is thrown.
ModelsFound(p, a) ==
    /\ At(p, a, "ask")
    /\ \E found \in SUBSET ModelNames \ {{}} :
        IF found \cap HasRows(a) = {}
        THEN rows' = [rows EXCEPT ![a].up = @ \cup found] /\ Go(p, a, "done")
        ELSE Reject(p, a) /\ UNCHANGED rows
    /\ UNCHANGED <<active, blocked, probeAccountLeases, builtVars, runs, faults, raced, unserved>>

\* restorePreviousAvailability: the rows go, and those read before come back.
ClearToRestore(p, a) ==
    /\ At(p, a, "restore")
    /\ rows' = Cleared(a) /\ Go(p, a, "reinsert")
    /\ UNCHANGED <<active, blocked, probeAccountLeases, builtVars, runs, faults, raced, unserved>>

Reinsert(p, a) ==
    LET old == pass[p].before IN
    /\ At(p, a, "reinsert")
    /\ IF (old.up \cup old.down) \cap HasRows(a) = {}
       THEN /\ rows' = [rows EXCEPT ![a].up = @ \cup old.up, ![a].down = @ \cup old.down]
            /\ Go(p, a, "done")
       ELSE Reject(p, a) /\ UNCHANGED rows
    /\ UNCHANGED <<active, blocked, probeAccountLeases, builtVars, runs, faults, raced, unserved>>

\* A full refresh is rejected with any of its accounts; a check may go on.
EndDiscovery(p) ==
    /\ pass[p].pc = "discovering" /\ \A a \in ModelAccounts : pass[p].discovery[a] = "done"
    /\ \/ /\ ~pass[p].rejected \/ pass[p].kind = "check"
          /\ Become(p, [NoPass EXCEPT !.kind = pass[p].kind, !.pc = "rebuild"])
          /\ UNCHANGED unserved
       \/ pass[p].rejected /\ BreakOff(p)
    /\ UNCHANGED <<availVars, builtVars, runs, faults, raced>>

-----------------------------------------------------------------------------
(* Probes: executeModelAvailabilityProbe                                    *)

ProbeRunning(a) == a \in probeAccountLeases

\* The account is passed over, or leased and its targets loaded.
TakeAccount(p, a) ==
    LET rest == [pass EXCEPT ![p].todo = @ \ {a}] IN
    /\ pass[p].pc = "accounts" /\ a \in pass[p].todo
    /\ IF a \notin active \/ ProbeRunning(a) \/ HasRows(a) = {}
       THEN pass' = rest /\ UNCHANGED probeAccountLeases
       ELSE /\ probeAccountLeases' = probeAccountLeases \cup {a}
            /\ pass' = [rest EXCEPT ![p].pc = "probing", ![p].at = {a}, ![p].targets =
                    {[model |-> m, up |-> m \in rows[a].up, gen |-> rows[a].gen] :
                        m \in HasRows(a)}]
    /\ UNCHANGED <<rows, active, blocked, builtVars, runs, faults, raced, unserved>>

\* Mutant: what is compared is whether the model was found up.
FlippedUp(target, up) == up /\ ~target.up

Flipped(target, up) == target.up # up

\* probeSingleTarget and updateProbeRow, by the id of the row read before
ProbeModel(p, target) ==
    /\ pass[p].pc = "probing" /\ target \in pass[p].targets
    /\ \/ /\ pass' = [pass EXCEPT ![p].targets = @ \ {target}]     \* inconclusive
          /\ UNCHANGED rows
       \/ \E up \in BOOLEAN, a \in pass[p].at :
            LET m == target.model IN
            /\ pass' = [pass EXCEPT ![p].targets = @ \ {target},
                                    ![p].changed = @ \/ Flipped(target, up)]
            /\ rows' = IF rows[a].gen # target.gen THEN rows
                       ELSE [rows EXCEPT ![a].up = IF up THEN @ \cup {m} ELSE @ \ {m},
                                         ![a].down = IF up THEN @ \ {m} ELSE @ \cup {m}]
    /\ UNCHANGED <<active, blocked, probeAccountLeases, builtVars, runs, faults, raced, unserved>>

LeaveAccount(p) ==
    /\ pass[p].pc = "probing" /\ pass[p].targets = {}
    /\ probeAccountLeases' = probeAccountLeases \ pass[p].at
    /\ pass' = [pass EXCEPT ![p].pc = "accounts", ![p].at = {}]
    /\ UNCHANGED <<rows, active, blocked, builtVars, runs, faults, raced, unserved>>

\* Routes are rebuilt when all accounts are done, if some row has flipped.
EndProbe(p) ==
    /\ pass[p].pc = "accounts" /\ pass[p].todo = {}
    /\ Become(p, IF pass[p].changed THEN [NoPass EXCEPT !.kind = "probe", !.pc = "rebuild"]
                 ELSE NoPass)
    /\ UNCHANGED <<availVars, builtVars, runs, faults, raced, unserved>>

-----------------------------------------------------------------------------
(* The rebuild: rebuildTokenRoutesFromAvailability, one action per statement *)

SeeAvailability(p) ==
    LET alone == \A q \in Passes \ {p} : pass[q].pc \notin Rebuilding IN
    /\ pass[p].pc = "rebuild"
    /\ pass' = [pass EXCEPT ![p].pc = "routes", ![p].want = Wanted]
    /\ raced' = ~alone
    /\ unserved' = (unserved /\ ~alone)
    /\ UNCHANGED <<availVars, builtVars, runs, faults>>

SeeRoutes(p) ==
    /\ pass[p].pc = "routes"
    /\ pass' = [pass EXCEPT ![p].pc = "channels", ![p].seenRoutes = tokenRoutes]
    /\ UNCHANGED <<availVars, builtVars, runs, faults, raced, unserved>>

SeeChannels(p) ==
    /\ pass[p].pc = "channels"
    /\ pass' = [pass EXCEPT ![p].pc = "writing", ![p].seenChannels = routeChannels]
    /\ UNCHANGED <<availVars, builtVars, runs, faults, raced, unserved>>

Of(routes, m) == {r \in routes : r.model = m}
ExactRoute(routes, m) == CHOOSE r \in Of(routes, m) : \A s \in Of(routes, m) : r.id <= s.id

\* Ids grow; those that nobody remembers are as good as new.
NewRoute(m) ==
    LET known == tokenRoutes \cup UNION {pass[q].seenRoutes : q \in Passes}
    IN  [model |-> m, id |-> 1 + Max({0} \cup {r.id : r \in Of(known, m)})]
NewChannel(r, a) ==
    LET known == routeChannels \cup UNION {pass[q].seenChannels : q \in Passes}
    IN  [route |-> r, account |-> a,
         id |-> 1 + Max({0} \cup {ch.id : ch \in {k \in known : k.route = r /\ k.account = a}})]

WantedModels(p) == {w[1] : w \in pass[p].want}

\* What a pass has yet to write, from what it has read and written so far.
MissingRoutes(p) == {m \in WantedModels(p) : Of(pass[p].seenRoutes, m) = {}}
MissingChannels(p) ==
    {w \in pass[p].want : /\ w[1] \notin MissingRoutes(p)
                          /\ \A ch \in pass[p].seenChannels :
                              ch.route = ExactRoute(pass[p].seenRoutes, w[1])
                                => ch.account # w[2]}
StaleChannels(p) ==
    {ch \in pass[p].seenChannels : \E m \in WantedModels(p) \ MissingRoutes(p) :
        ch.route = ExactRoute(pass[p].seenRoutes, m) /\ <<m, ch.account>> \notin pass[p].want}
StaleRoutes(p) == {r \in pass[p].seenRoutes : r.model \notin WantedModels(p)}

InsertRoute(p, m) ==
    /\ pass[p].pc = "writing" /\ m \in MissingRoutes(p)
    /\ tokenRoutes' = tokenRoutes \cup {NewRoute(m)}
    /\ pass' = [pass EXCEPT ![p].seenRoutes = @ \cup {NewRoute(m)}]
    /\ UNCHANGED <<availVars, routeChannels, runs, faults, raced, unserved>>

\* A channel of a route that is gone breaks a foreign key.
InsertChannel(p, w) ==
    LET r == ExactRoute(pass[p].seenRoutes, w[1])
        ch == NewChannel(r, w[2])
    IN
    /\ pass[p].pc = "writing" /\ w \in MissingChannels(p)
    /\ IF r \in tokenRoutes
       THEN /\ routeChannels' = routeChannels \cup {ch}
            /\ pass' = [pass EXCEPT ![p].seenChannels = @ \cup {ch}]
            /\ UNCHANGED unserved
       ELSE BreakOff(p) /\ UNCHANGED routeChannels
    /\ UNCHANGED <<availVars, tokenRoutes, runs, faults, raced>>

DeleteChannel(p, ch) ==
    /\ pass[p].pc = "writing" /\ ch \in StaleChannels(p)
    /\ \A w \in MissingChannels(p) : w[1] # ch.route.model
    /\ routeChannels' = routeChannels \ {ch}
    /\ pass' = [pass EXCEPT ![p].seenChannels = @ \ {ch}]
    /\ UNCHANGED <<availVars, tokenRoutes, runs, faults, raced, unserved>>

ChannelsDone(p) == MissingRoutes(p) = {} /\ MissingChannels(p) = {} /\ StaleChannels(p) = {}

\* Its channels go with it.
DeleteRoute(p, r) ==
    /\ pass[p].pc = "writing" /\ ChannelsDone(p) /\ r \in StaleRoutes(p)
    /\ tokenRoutes' = tokenRoutes \ {r}
    /\ routeChannels' = {ch \in routeChannels : ch.route # r}
    /\ pass' = [pass EXCEPT ![p].seenRoutes = @ \ {r}]
    /\ UNCHANGED <<availVars, runs, faults, raced, unserved>>

EndRebuild(p) ==
    /\ pass[p].pc = "writing" /\ ChannelsDone(p) /\ StaleRoutes(p) = {}
    /\ Become(p, NoPass)
    /\ UNCHANGED <<availVars, builtVars, runs, faults, raced, unserved>>

-----------------------------------------------------------------------------
\* A statement of the database throws.
StatementFails(p) ==
    /\ faults < MaxFaults /\ faults' = faults + 1
    /\ \/ /\ pass[p].pc \in {"accounts", "rebuild"} \cup Rebuilding
          /\ BreakOff(p)
       \/ /\ \E a \in ModelAccounts : pass[p].pc = "discovering"
                                        /\ pass[p].discovery[a] # "done" /\ Reject(p, a)
          /\ UNCHANGED unserved
    /\ UNCHANGED <<availVars, builtVars, runs, raced>>

ModelRoutesNext ==
    \/ \E p \in Passes :
        \/ StartProbe(p) \/ StartRefresh(p) \/ EndDiscovery(p) \/ LeaveAccount(p)
        \/ EndProbe(p) \/ SeeAvailability(p) \/ SeeRoutes(p) \/ SeeChannels(p)
        \/ EndRebuild(p) \/ StatementFails(p)
        \/ \E a \in ModelAccounts :
            \/ StartCheck(p, a) \/ StartUpdate(p, a) \/ ReadBefore(p, a) \/ ClearExisting(p, a)
            \/ NothingFound(p, a) \/ ModelsFound(p, a) \/ ClearToRestore(p, a)
            \/ Reinsert(p, a) \/ TakeAccount(p, a)
        \/ \E target \in pass[p].targets : ProbeModel(p, target)
        \/ \E w \in pass[p].want : InsertChannel(p, w)
        \/ \E ch \in pass[p].seenChannels : DeleteChannel(p, ch)
        \/ \E r \in pass[p].seenRoutes : DeleteRoute(p, r)
        \/ \E m \in ModelNames : InsertRoute(p, m)
    \/ \E m \in ModelNames : SaveFilter(m)

ModelRoutesSpec == ModelRoutesInit /\ [][ModelRoutesNext]_modelRouteVars

-----------------------------------------------------------------------------
\* Properties

\* When all work is done, what is routed is what is available: a model has a route if
\* and only if an active account offers it, and the route that requests get has
\* a channel for those accounts and no other. Whatever passes overlapped before,
\* one rebuild that has the tables for itself puts this right.
RoutesFollowAvailability ==
    (\A p \in Passes : AtRest(p)) /\ ~raced /\ ~unserved =>
        \A m \in ModelNames :
            /\ Offering(m) = {} <=> Of(tokenRoutes, m) = {}
            /\ Offering(m) # {} =>
                {ch.account : ch \in {k \in routeChannels : k.route = ExactRoute(tokenRoutes, m)}}
                    = Offering(m)
=============================================================================
