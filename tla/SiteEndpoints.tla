---------------------------- MODULE SiteEndpoints ----------------------------
(***************************************************************************)
(* The API endpoints of a site: rows that requests choose from, put on     *)
(* cooldown when they fail and clear when they answer. Requests run side   *)
(* by side and share nothing but the rows; an edit of the site replaces    *)
(* all of them. A site without endpoints is reached at its own address.    *)
(***************************************************************************)
EXTENDS Naturals, FiniteSets

CONSTANTS
    Callers,        \* requests under runWithSiteApiEndpointPool
    Endpoints,      \* ids; an edit gives out new ones, in ascending order
    Initially,      \* the endpoints there are at first
    NoEndpoint,
    Cooldown,       \* SITE_API_ENDPOINT_COOLDOWN_MS
    MaxTick, MaxCalls

ASSUME EndpointAssumption ==
    /\ Endpoints \subseteq Nat \ {0} /\ Initially \subseteq Endpoints /\ NoEndpoint \notin Endpoints
    /\ Cooldown \in Nat \ {0} /\ MaxTick \in Nat \ {0} /\ MaxCalls \in Nat \ {0}

VARIABLES
    endpoint,   \* siteApiEndpoints: the rows; times are 0 where the column is null
    caller,     \* what each request is doing, attemptedEndpointIds, and its site
    tick,
    called,     \* history: the endpoints each request has called, and if one twice
    ready,      \* history: endpoints that could be chosen ever since the request began
    revived,    \* history: an endpoint the request had tried could be chosen again
    calls       \* bound

endpointVars == <<endpoint, caller, tick, called, ready, revived, calls>>

Gone == [there |-> FALSE, enabled |-> FALSE, order |-> 0, cooldownUntil |-> 0, lastSelectedAt |-> 0]
Row(order) == [there |-> TRUE, enabled |-> TRUE, order |-> order,
               cooldownUntil |-> 0, lastSelectedAt |-> 0]
Resting == [pc |-> "idle", target |-> NoEndpoint, attempted |-> {}]

EndpointTypeOK ==
    /\ endpoint \in [Endpoints -> [there : BOOLEAN, enabled : BOOLEAN, order : {0, 1},
                        cooldownUntil : 0..(MaxTick + Cooldown), lastSelectedAt : 0..MaxTick]]
    /\ caller \in [Callers -> [pc : {"idle", "select", "calling", "exhausted"},
                               target : Endpoints \cup {NoEndpoint}, attempted : SUBSET Endpoints]]
    /\ tick \in 1..MaxTick /\ calls \in 0..MaxCalls
    /\ called \in [Callers -> [ids : SUBSET Endpoints, again : BOOLEAN]]
    /\ ready \in [Callers -> SUBSET Endpoints] /\ revived \in [Callers -> BOOLEAN]

EndpointInit ==
    /\ endpoint \in [Endpoints -> {Gone, Row(0), Row(1), [Row(0) EXCEPT !.enabled = FALSE]}]
    /\ \A e \in Endpoints : endpoint[e].there <=> e \in Initially
    /\ caller = [q \in Callers |-> Resting]
    /\ tick = 1 /\ calls = 0
    /\ called = [q \in Callers |-> [ids |-> {}, again |-> FALSE]]
    /\ ready = [q \in Callers |-> {}] /\ revived = [q \in Callers |-> FALSE]

-----------------------------------------------------------------------------
(* selectSiteApiEndpointTarget                                              *)

Eligible(rows, time) ==
    {e \in Endpoints : rows[e].there /\ rows[e].enabled /\ rows[e].cooldownUntil <= time}

\* sortOrder first, then the one selected longest ago (never is longest), then id.
Before(a, b) ==
    LET x == endpoint[a]
        y == endpoint[b]
    IN  \/ x.order < y.order
        \/ x.order = y.order /\ x.lastSelectedAt < y.lastSelectedAt
        \/ x.order = y.order /\ x.lastSelectedAt = y.lastSelectedAt /\ a < b

First(set) == {e \in set : \A other \in set \ {e} : Before(e, other)}

Configured == {e \in Endpoints : endpoint[e].there}

\* The histories after a step that leaves the rows and the time as given, seen by
\* those who did not take it.
Observe(rows, time, others) ==
    /\ ready' = [q \in Callers |-> ready[q] \cap Eligible(rows, time)]
    /\ revived' = [q \in Callers |->
                      revived[q] \/ (q \in others /\ caller[q].attempted \cap Eligible(rows, time) # {})]

Begin(q) ==
    /\ caller[q].pc = "idle" /\ calls < MaxCalls
    /\ calls' = calls + 1
    /\ caller' = [caller EXCEPT ![q].pc = "select"]
    /\ called' = [called EXCEPT ![q].ids = {}]
    /\ ready' = [ready EXCEPT ![q] = Eligible(endpoint, tick)]
    /\ revived' = [revived EXCEPT ![q] = FALSE]
    /\ UNCHANGED <<endpoint, tick>>

Call(q, e) ==
    /\ caller' = [caller EXCEPT ![q].pc = "calling", ![q].target = e]
    /\ called' = [called EXCEPT ![q] = [ids |-> @.ids \cup ({e} \ {NoEndpoint}),
                                        again |-> @.again \/ e \in @.ids]]

\* The way of the request from here: it is exhausted when nothing is eligible,
\* and also when what comes first is an endpoint it has tried already.
Select(q) ==
    /\ caller[q].pc = "select"
    /\ LET next == First(Eligible(endpoint, tick)) \ caller[q].attempted
       IN  \/ Configured = {} /\ Call(q, NoEndpoint)
           \/ \E e \in next : Call(q, e)
           \/ /\ Configured # {} /\ next = {}
              /\ caller' = [caller EXCEPT ![q].pc = "exhausted"]
              /\ UNCHANGED called
    /\ UNCHANGED <<endpoint, tick, ready, revived, calls>>

-----------------------------------------------------------------------------
(* recordSiteApiEndpointSuccess and recordSiteApiEndpointFailure: an update *)
(* of the row, if it is still there                                         *)

Updated(e, row) ==
    [endpoint EXCEPT ![e] = IF endpoint[e].there THEN row ELSE @]

SuccessBooked(e) ==
    Updated(e, [endpoint[e] EXCEPT !.cooldownUntil = 0, !.lastSelectedAt = tick])

\* A failure that is not retryable ends a cooldown another request has set.
FailureBooked(e, retryable) ==
    Updated(e, [endpoint[e] EXCEPT !.cooldownUntil = IF retryable THEN tick + Cooldown ELSE 0])

Finished(q) == caller' = [caller EXCEPT ![q] = Resting]

\* A success that cannot be booked is served all the same.
Succeeds(q) ==
    /\ caller[q].pc = "calling"
    /\ Finished(q)
    /\ endpoint' \in IF caller[q].target = NoEndpoint THEN {endpoint}
                     ELSE {endpoint, SuccessBooked(caller[q].target)}
    /\ Observe(endpoint', tick, Callers \ {q})
    /\ UNCHANGED <<tick, called, calls>>

\* At the site's own address, with an error that another endpoint would give
\* too, or when the failure cannot be booked, the request ends.
FailsForGood(q) ==
    /\ caller[q].pc = "calling"
    /\ Finished(q)
    /\ endpoint' \in IF caller[q].target = NoEndpoint THEN {endpoint}
                     ELSE {endpoint, FailureBooked(caller[q].target, FALSE)}
    /\ Observe(endpoint', tick, Callers \ {q})
    /\ UNCHANGED <<tick, called, calls>>

\* Mutant: what was attempted is forgotten.
RotateForgetting(q) ==
    /\ caller[q].pc = "calling" /\ caller[q].target # NoEndpoint
    /\ endpoint' = FailureBooked(caller[q].target, TRUE)
    /\ caller' = [caller EXCEPT ![q].pc = "select", ![q].target = NoEndpoint]
    /\ Observe(endpoint', tick, Callers \ {q})
    /\ UNCHANGED <<tick, called, calls>>

Rotate(q) ==
    /\ caller[q].pc = "calling" /\ caller[q].target # NoEndpoint
    /\ endpoint' = FailureBooked(caller[q].target, TRUE)
    /\ caller' = [caller EXCEPT ![q].pc = "select", ![q].target = NoEndpoint,
                                ![q].attempted = @ \cup {caller[q].target}]
    /\ Observe(endpoint', tick, Callers \ {q})
    /\ UNCHANGED <<tick, called, calls>>

\* The error reaches the caller.
Throw(q) ==
    /\ caller[q].pc = "exhausted"
    /\ Finished(q)
    /\ UNCHANGED <<endpoint, tick, called, ready, revived, calls>>

-----------------------------------------------------------------------------
\* PUT /api/sites/:id deletes the endpoints and inserts those of the form, as
\* new rows: here the ids not given out so far, all of them or none.
Unissued == {e \in Endpoints : \A x \in Configured : x < e}

EditSite ==
    /\ \E new \in {{}, Unissued}, order \in {0, 1} :
        /\ Configured # {} /\ (new = {} => order = 0)
        /\ endpoint' = [e \in Endpoints |-> IF e \in new THEN Row(order) ELSE Gone]
    /\ UNCHANGED <<caller, tick, called, calls>>
    /\ Observe(endpoint', tick, Callers)

ElapseTick ==
    /\ tick < MaxTick
    /\ tick' = tick + 1
    /\ UNCHANGED <<endpoint, caller, called, calls>>
    /\ Observe(endpoint, tick', Callers)

EndpointNext ==
    \/ \E q \in Callers :
        Begin(q) \/ Select(q) \/ Succeeds(q) \/ FailsForGood(q) \/ Rotate(q) \/ Throw(q)
    \/ EditSite \/ ElapseTick

EndpointSpec == EndpointInit /\ [][EndpointNext]_endpointVars

-----------------------------------------------------------------------------
\* Properties

\* However requests clear, set and replace each other's rows, none calls an
\* endpoint twice, and one that gives up leaves no endpoint untried that was
\* ready from its start to its end - unless another request or the time has made
\* an endpoint it had tried come first again (runWithSiteApiEndpointPool).
EachReadyEndpointOnce ==
    \A q \in Callers :
        /\ ~called[q].again
        /\ caller[q].pc = "exhausted" /\ ~revived[q] => ready[q] = {}
=============================================================================
