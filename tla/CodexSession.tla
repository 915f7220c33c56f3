----------------------------- MODULE CodexSession -----------------------------
(***************************************************************************)
(* One downstream session of the responses websocket that is served by     *)
(* Codex over an upstream websocket. Client connections that name the      *)
(* same session share, per scope (site, account, channel), a session       *)
(* object: a promise chain of turns and an upstream socket. Closing a      *)
(* connection closes the objects of its scopes. Beside it, the response    *)
(* store remembers the last response id of the session, under the scope    *)
(* that got it and under the bare session.                                 *)
(***************************************************************************)
EXTENDS Naturals, Sequences

CONSTANTS
    Conns,          \* client connections that send this session's id
    Scopes, Bare,   \* keys of the response store; scopes are runtime session keys too
    MaxSessions,    \* bound: session objects alive at a time
    MaxSockets,     \* bound: upstream sockets alive at a time
    MaxInputs       \* bound: messages, failures of dials and sockets, error events, evictions

ASSUME CodexAssumption ==
    /\ Bare \notin Scopes /\ 0 \notin Scopes
    /\ MaxSessions \in Nat /\ MaxSockets \in Nat /\ MaxInputs \in Nat

Sessions == 1..MaxSessions
Sockets == 1..MaxSockets
StoreKeys == Scopes \cup {Bare}

VARIABLES
    online,       \* connections whose client has not gone
    inbox,        \* messageQueue: messages behind the one being handled
    turn,         \* where the message being handled is
    keys,         \* runtimeSessionKeys
    sessions,     \* sessionStore
    queue,        \* session.queue
    socket,       \* session.socket
    upstream,     \* every upstream socket, and the session whose handlers it has
    closer,       \* the closeSession calls of each connection
    responseIds,  \* codexSessionResponseIds: the entries of this session
    idOrder,      \* the order they have in the map: pairs of keys, the older one first
    inputs,       \* bound: how many there were
    lastScope,    \* history: where the last answer came from; 0 when cleared or evicted
    late,         \* history: scopes asked for by a connection that was gone
    muddled       \* history: turns overlapped, or a close cleared a newer scope's id

clientVars == <<online, inbox, keys>>
storeVars == <<sessions, closer, late>>
wireVars == <<queue, socket, upstream>>
mapVars == <<responseIds, idOrder>>
idVars == <<mapVars, lastScope, muddled>>
codexVars == <<clientVars, storeVars, wireVars, idVars, turn, inputs>>

NoTurn == [pc |-> "idle", scope |-> 0, obj |-> 0, sock |-> 0, recovering |-> FALSE]
NoCloser == [pc |-> "none", obj |-> 0]
NoSocket == [state |-> "none", owner |-> 0]
InSession == {"queued", "replacing", "dialing", "asking"}
Underway == {"replacing", "dialing", "asking"}

CodexTypeOK ==
    /\ online \subseteq Conns
    /\ inbox \in [Conns -> 0..MaxInputs]
    /\ turn \in [Conns -> [pc : {"idle", "chosen"} \cup InSession,
                           scope : Scopes \cup {0}, obj : Sessions \cup {0},
                           sock : Sockets \cup {0}, recovering : BOOLEAN]]
    /\ keys \in [Conns -> SUBSET Scopes]
    /\ sessions \in [Scopes -> Sessions \cup {0}]
    /\ queue \in [Sessions -> Seq(Conns)]
    /\ socket \in [Sessions -> Sockets \cup {0}]
    /\ upstream \in [Sockets -> [state : {"none", "connecting", "open", "closing"},
                                 owner : Sessions \cup {0}]]
    /\ closer \in [Conns -> [Scopes -> [pc : {"none", "waiting", "closing"},
                                        obj : Sessions \cup {0}]]]
    /\ responseIds \in [StoreKeys -> {"none", "last", "older"}]
    /\ idOrder \subseteq StoreKeys \X StoreKeys
    /\ lastScope \in Scopes \cup {0}
    /\ inputs \in 0..MaxInputs
    /\ late \subseteq Scopes /\ muddled \in BOOLEAN

CodexInit ==
    /\ online = Conns /\ inbox = [c \in Conns |-> 0]
    /\ turn = [c \in Conns |-> NoTurn] /\ keys = [c \in Conns |-> {}]
    /\ sessions = [k \in Scopes |-> 0]
    /\ queue = [o \in Sessions |-> <<>>] /\ socket = [o \in Sessions |-> 0]
    /\ upstream = [s \in Sockets |-> NoSocket]
    /\ closer = [c \in Conns |-> [k \in Scopes |-> NoCloser]]
    /\ responseIds = [k \in StoreKeys |-> "none"] /\ idOrder = {} /\ lastScope = 0
    /\ inputs = 0 /\ late = {} /\ muddled = FALSE

Input == inputs < MaxInputs /\ inputs' = inputs + 1

-----------------------------------------------------------------------------
(* The store of response ids. Of two ids the properties tell apart only     *)
(* whether one is that of the last answer.                                  *)

Stored == {k \in StoreKeys : responseIds[k] # "none"}

\* getCodexSessionResponseId: what it returns
GetResponseId(k) == IF k \in Stored THEN responseIds[k] ELSE responseIds[Bare]

Delete(gone) ==
    /\ responseIds' = [k \in StoreKeys |-> IF k \in gone THEN "none" ELSE responseIds[k]]
    /\ idOrder' = {pair \in idOrder : pair[1] \notin gone /\ pair[2] \notin gone}

\* Mutant: falling back on the bare id leaves the ids of other scopes in the store.
GetWithoutReconcile(k) == UNCHANGED mapVars

\* getCodexSessionResponseId: what it does to the store
Get(k) ==
    IF k \notin Stored /\ Bare \in Stored
    THEN Delete(Scopes)                     \* reconcileScopedSessionFallback
    ELSE UNCHANGED mapVars

\* setCodexSessionResponseId: both keys are written anew, behind all others
SetResponseId(k) ==
    LET kept == Stored \ {k, Bare} IN
    /\ responseIds' = [j \in StoreKeys |-> IF j \in {k, Bare} THEN "last"
                                           ELSE IF j \in kept THEN "older" ELSE "none"]
    /\ idOrder' = (idOrder \cap (kept \X kept)) \cup (kept \X {k, Bare}) \cup {<<k, Bare>>}
    /\ lastScope' = k

\* clearCodexSessionResponseId
ClearResponseId(k) ==
    /\ Delete({k, Bare})
    /\ lastScope' = 0

\* Other sessions fill the store: the oldest entry goes.
Evict ==
    /\ Input
    /\ \E k \in Stored :
          /\ \A j \in Stored : <<j, k>> \notin idOrder
          /\ Delete({k})
          /\ lastScope' = IF k = Bare THEN 0 ELSE lastScope
    /\ UNCHANGED <<clientVars, storeVars, wireVars, turn, muddled>>

-----------------------------------------------------------------------------
(* The connection: handleResponsesWebsocketConnection                       *)

Message(c) ==
    /\ c \in online /\ Input
    /\ inbox' = [inbox EXCEPT ![c] = @ + 1]
    /\ UNCHANGED <<online, keys, storeVars, wireVars, idVars, turn>>

\* Messages are handled one after the other, those of a client that has gone too:
\* the channel is chosen, or kept from the message before. Messages that never
\* get to a Codex channel are left out.
HandleNext(c, k) ==
    /\ turn[c].pc = "idle" /\ inbox[c] > 0
    /\ inbox' = [inbox EXCEPT ![c] = @ - 1]
    /\ turn' = [turn EXCEPT ![c].pc = "chosen", ![c].scope = k]
    /\ keys' = [keys EXCEPT ![c] = @ \cup {k}]
    /\ UNCHANGED <<online, storeVars, wireVars, idVars, inputs>>

\* No endpoint of the site is left, or the reply comes over HTTP.
HandledElsewhere(c) ==
    /\ turn[c].pc = "chosen"
    /\ turn' = [turn EXCEPT ![c] = NoTurn]
    /\ UNCHANGED <<clientVars, storeVars, wireVars, idVars, inputs>>

\* The client is gone: the sessions of every scope it used are taken at once.
Disconnect(c) ==
    /\ c \in online
    /\ online' = online \ {c}
    /\ closer' = [closer EXCEPT ![c] = [k \in Scopes |->
            IF k \in keys[c] /\ sessions[k] # 0
            THEN [pc |-> "waiting", obj |-> sessions[k]] ELSE NoCloser]]
    /\ sessions' = [k \in Scopes |-> IF k \in keys[c] THEN 0 ELSE sessions[k]]
    /\ late' = late \ keys[c]
    /\ UNCHANGED <<inbox, keys, wireVars, idVars, turn, inputs>>

-----------------------------------------------------------------------------
(* The turns of a session: sendRequest                                      *)

UnusedSession(o) ==
    /\ \A k \in Scopes : sessions[k] # o
    /\ \A c \in Conns : turn[c].obj # o /\ \A k \in Scopes : closer[c][k].obj # o
    /\ \A s \in Sockets : upstream[s].owner # o

UnusedSocket(s) == upstream[s].state = "none" /\ \A c \in Conns : turn[c].sock # s

Least(Unused(_), S) == {x \in S : Unused(x) /\ \A y \in S : Unused(y) => x <= y}

SendRequest(c) ==
    /\ turn[c].pc = "chosen"
    /\ LET k == turn[c].scope IN
       \E o \in IF sessions[k] # 0 THEN {sessions[k]}
                ELSE Least(UnusedSession, Sessions) :
          /\ sessions' = [sessions EXCEPT ![k] = o]
          /\ queue' = [queue EXCEPT ![o] = Append(@, c)]
          /\ turn' = [turn EXCEPT ![c].pc = "queued", ![c].obj = o]
          /\ late' = IF c \in online THEN late ELSE late \cup {k}
    /\ UNCHANGED <<clientVars, closer, socket, upstream, idVars, inputs>>

\* new WebSocket, when the sockets so far are `up`
Dial(c, up) ==
    \E s \in Least(UnusedSocket, Sockets) :
        /\ upstream' = [up EXCEPT ![s].state = "connecting", ![s].owner = turn[c].obj]
        /\ turn' = [turn EXCEPT ![c].pc = "dialing", ![c].sock = s]

Overlaps(c) == \E d \in Conns \ {c} : turn[d].pc \in Underway

\* The turns before have settled. ensureSessionSocket: the socket of the session
\* is used again if it is open and leads to the same address.
Start(c) ==
    LET o == turn[c].obj  s == socket[o] IN
    /\ turn[c].pc = "queued" /\ Head(queue[o]) = c
    /\ Get(turn[c].scope)
    /\ muddled' = (muddled \/ Overlaps(c))
    /\ \/ /\ s # 0 /\ upstream[s].state = "open"
          /\ turn' = [turn EXCEPT ![c].pc = "asking", ![c].sock = s]
          /\ UNCHANGED upstream
       \/ /\ s # 0
          /\ upstream' = [upstream EXCEPT ![s].state = "closing"]
          /\ turn' = [turn EXCEPT ![c].pc = "replacing", ![c].sock = s]
       \/ s = 0 /\ Dial(c, upstream)
    /\ UNCHANGED <<clientVars, storeVars, queue, socket, lastScope, inputs>>

\* Mutant: whatever socket the session has by now is forgotten.
ClearAnySocket(o, s) == socket' = [socket EXCEPT ![o] = 0]

ClearSessionSocket(o, s) == socket' = [socket EXCEPT ![o] = IF @ = s THEN 0 ELSE @]

\* closeSocket returns: the old one has closed, or 200 ms are over.
Replaced(c) ==
    /\ turn[c].pc = "replacing"
    /\ ClearSessionSocket(turn[c].obj, turn[c].sock)
    /\ Dial(c, upstream)
    /\ UNCHANGED <<clientVars, storeVars, queue, idVars, inputs>>

DialOpens(c) ==
    LET t == turn[c] IN
    /\ t.pc = "dialing"
    /\ upstream' = [upstream EXCEPT ![t.sock].state = "open"]
    /\ socket' = [socket EXCEPT ![t.obj] = t.sock]
    /\ turn' = [turn EXCEPT ![c].pc = "asking"]
    /\ UNCHANGED <<clientVars, storeVars, queue, idVars, inputs>>

\* The next turn may start; the endpoint pool may try another address.
Settle(c, next) ==
    /\ queue' = [queue EXCEPT ![turn[c].obj] = Tail(@)]
    /\ turn' = [turn EXCEPT ![c] = next]

Retried(c) == [NoTurn EXCEPT !.pc = "chosen", !.scope = turn[c].scope]

Fail(c) == Settle(c, NoTurn) \/ Settle(c, Retried(c))

DialFails(c) ==
    /\ turn[c].pc = "dialing" /\ Input
    /\ upstream' = [upstream EXCEPT ![turn[c].sock] = NoSocket]
    /\ Fail(c)
    /\ UNCHANGED <<clientVars, storeVars, socket, idVars>>

\* A terminal event other than an error, with a response id or without.
Answer(c) ==
    LET t == turn[c] IN
    /\ t.pc = "asking" /\ upstream[t.sock].state = "open"
    /\ SetResponseId(t.scope) \/ UNCHANGED <<mapVars, lastScope>>
    /\ Settle(c, NoTurn)
    /\ UNCHANGED <<clientVars, storeVars, socket, upstream, muddled, inputs>>

\* An error event ends the socket. If the upstream does not know the previous
\* response, the turn is tried once more without it.
ErrorEvent(c) ==
    LET t == turn[c]
        up == [upstream EXCEPT ![t.sock].state = "closing"]
    IN
    /\ t.pc = "asking" /\ upstream[t.sock].state = "open" /\ Input
    /\ ClearSessionSocket(t.obj, t.sock)
    /\ \/ /\ upstream' = up /\ Fail(c)
          /\ UNCHANGED <<mapVars, lastScope>>
       \/ /\ ~t.recovering
          /\ ClearResponseId(t.scope)
          /\ \E s \in Least(UnusedSocket, Sockets) :
                /\ upstream' = [up EXCEPT ![s].state = "connecting", ![s].owner = t.obj]
                /\ turn' = [turn EXCEPT ![c].pc = "dialing", ![c].sock = s,
                                        ![c].recovering = TRUE]
          /\ UNCHANGED queue
    /\ UNCHANGED <<clientVars, storeVars, muddled>>

-----------------------------------------------------------------------------
(* The sockets                                                              *)

\* The closing handshake begins; nobody has been told yet.
UpstreamCloses(s) ==
    /\ upstream[s].state = "open" /\ Input
    /\ upstream' = [upstream EXCEPT ![s].state = "closing"]
    /\ UNCHANGED <<clientVars, storeVars, queue, socket, idVars, turn>>

AskingOn(s) == {c \in Conns : turn[c].pc = "asking" /\ turn[c].sock = s}

\* The error or the close event.
SocketLost(s) ==
    /\ \/ /\ upstream[s].state = "open" /\ Input
          /\ upstream' \in {[upstream EXCEPT ![s].state = "closing"],
                           [upstream EXCEPT ![s] = NoSocket]}
       \/ /\ upstream[s].state = "closing" /\ UNCHANGED inputs
          /\ upstream' = [upstream EXCEPT ![s] = NoSocket]
    /\ ClearSessionSocket(upstream[s].owner, s)
    /\ IF AskingOn(s) = {} THEN UNCHANGED <<turn, queue>>
       ELSE \E c \in AskingOn(s) : Fail(c)
    /\ UNCHANGED <<clientVars, storeVars, idVars>>

-----------------------------------------------------------------------------
(* closeSession, after the session was taken from the store                 *)

\* Mutant: a close does not wait for the turns of the session.
TurnsSettledUnchecked(o) == TRUE

TurnsSettled(o) == queue[o] = <<>>

CloseProceeds(c, k) ==
    LET o == closer[c][k].obj  s == socket[o] IN
    /\ closer[c][k].pc = "waiting" /\ TurnsSettled(o)
    /\ closer' = [closer EXCEPT ![c][k].pc = "closing"]
    /\ upstream' = IF s = 0 THEN upstream ELSE [upstream EXCEPT ![s].state = "closing"]
    /\ UNCHANGED <<clientVars, sessions, late, queue, socket, idVars, turn, inputs>>

\* The socket has closed, or 200 ms are over.
CloseEnds(c, k) ==
    LET o == closer[c][k].obj IN
    /\ closer[c][k].pc = "closing"
    /\ closer' = [closer EXCEPT ![c][k] = NoCloser]
    /\ socket' = [socket EXCEPT ![o] = 0]
    /\ ClearResponseId(k)
    /\ muddled' = (muddled \/ lastScope \notin {0, k})
    /\ UNCHANGED <<clientVars, sessions, late, queue, upstream, turn, inputs>>

CodexNext ==
    \/ \E c \in Conns :
        \/ Message(c) \/ HandledElsewhere(c) \/ Disconnect(c)
        \/ SendRequest(c) \/ Start(c) \/ Replaced(c) \/ DialOpens(c) \/ DialFails(c)
        \/ Answer(c) \/ ErrorEvent(c)
        \/ \E k \in Scopes : HandleNext(c, k) \/ CloseProceeds(c, k) \/ CloseEnds(c, k)
    \/ \E s \in Sockets : UpstreamCloses(s) \/ SocketLost(s)
    \/ Evict

CodexSpec == CodexInit /\ [][CodexNext]_codexVars

-----------------------------------------------------------------------------
\* Properties

\* No upstream socket is left open behind the program's back, whatever errors,
\* closes and turns of other connections come between: it is the socket of a
\* session that is being closed, or that a client still connected will have
\* closed - or that was asked for after its client had left.
SocketsHaveOwners ==
    \A s \in Sockets : upstream[s].state = "open" =>
        LET o == upstream[s].owner IN
        /\ socket[o] = s
        /\ \/ \E c \in Conns, k \in Scopes : closer[c][k] = [pc |-> "waiting", obj |-> o]
           \/ \E k \in Scopes :
                /\ sessions[k] = o
                /\ k \in late \/ \E c \in online : k \in keys[c]

\* The next turn continues from the last answer whichever scope it is routed to,
\* or from nothing when that was cleared or evicted; never from an older one. Not
\* so after turns of two connections overlapped, or when a connection that closes
\* clears the id a newer scope has stored.
ContinuesFromLastAnswer ==
    ~muddled => \A k \in Scopes :
        GetResponseId(k) = IF lastScope = 0 THEN "none" ELSE "last"
=============================================================================
