-------------------------- MODULE CodexSessionProofs --------------------------
(***************************************************************************)
(* Proofs about CodexSession, for any number of connections and scopes and *)
(* any bounds: no upstream socket is left open that nobody will close, and *)
(* each turn continues from the last answer.                               *)
(***************************************************************************)
EXTENDS CodexSession, SequenceTheorems, TLAPS

-----------------------------------------------------------------------------
(***************************************************************************)
(* The inductive invariant. What a turn knows (its place in the chain of   *)
(* its session, the socket it dials or asks on), what a session knows (its *)
(* socket, who still wants it) and what a socket knows (its owner) agree.  *)
(***************************************************************************)

TurnPcs == {"idle", "chosen"} \cup InSession
TurnScopes == Scopes \cup {0}
TurnSessions == Sessions \cup {0}
TurnSockets == Sockets \cup {0}
Turns == [pc : TurnPcs, scope : TurnScopes, obj : TurnSessions, sock : TurnSockets,
          recovering : BOOLEAN]

\* The shape of the variables a socket's fate depends on.
WireTypeOK ==
    /\ online \subseteq Conns
    /\ turn \in [Conns -> Turns]
    /\ keys \in [Conns -> SUBSET Scopes]
    /\ sessions \in [Scopes -> Sessions \cup {0}]
    /\ queue \in [Sessions -> Seq(Conns)]
    /\ socket \in [Sessions -> Sockets \cup {0}]
    /\ upstream \in [Sockets -> [state : {"none", "connecting", "open", "closing"},
                                 owner : Sessions \cup {0}]]
    /\ closer \in [Conns -> [Scopes -> [pc : {"none", "waiting", "closing"},
                                        obj : Sessions \cup {0}]]]
    /\ late \subseteq Scopes

Elements(q) == {q[i] : i \in 1..Len(q)}

\* A turn that is in a session is in its chain, and one that is under way at its head.
TurnPlaced(c) ==
    LET t == turn[c] IN
    /\ t.pc # "idle" => t.scope \in Scopes /\ t.scope \in keys[c]
    /\ t.pc \in InSession => t.obj \in Sessions /\ c \in Elements(queue[t.obj])
    /\ t.pc \notin InSession => t.obj = 0
    /\ t.pc \in Underway => t.sock \in Sockets /\ Head(queue[t.obj]) = c
    /\ t.pc \notin Underway => t.sock = 0

\* A chain holds turns of its own session, each once.
ChainOrderly(o) ==
    \A i, j \in 1..Len(queue[o]) :
        /\ turn[queue[o][i]].pc \in InSession
        /\ turn[queue[o][i]].obj = o
        /\ queue[o][i] = queue[o][j] => i = j

TurnsLineUp == (\A c \in Conns : TurnPlaced(c)) /\ (\A o \in Sessions : ChainOrderly(o))

\* What the turn at the head of a chain knows of the session's socket.
TurnWired(c) ==
    LET t == turn[c] IN
    /\ t.pc = "dialing" =>
          /\ socket[t.obj] = 0
          /\ upstream[t.sock].state = "connecting" /\ upstream[t.sock].owner = t.obj
    /\ t.pc = "asking" => socket[t.obj] = t.sock
    /\ t.pc = "replacing" =>
          /\ socket[t.obj] \in {0, t.sock}
          /\ \/ upstream[t.sock] = NoSocket
             \/ upstream[t.sock].state = "closing" /\ upstream[t.sock].owner = t.obj

SocketWired(s) ==
    /\ upstream[s].state = "none" <=> upstream[s].owner = 0
    /\ upstream[s].state = "open" => socket[upstream[s].owner] = s

SessionWired(o) ==
    socket[o] # 0 =>
        /\ upstream[socket[o]].owner = o
        /\ upstream[socket[o]].state \in {"open", "closing"}

SocketsInPlace ==
    /\ \A c \in Conns : TurnWired(c)
    /\ \A s \in Sockets : SocketWired(s)
    /\ \A o \in Sessions : SessionWired(o)

\* The session o is in the store, or a close that waits for its turns has it.
StillHeld(o) ==
    \/ \E c \in Conns, k \in Scopes : closer[c][k].pc = "waiting" /\ closer[c][k].obj = o
    \/ \E k \in Scopes : sessions[k] = o

CloserFits(c, k) ==
    LET w == closer[c][k] IN
    /\ c \in online => w = NoCloser
    /\ w.pc = "none" <=> w.obj = 0
    /\ w.obj # 0 => \A l \in Scopes : sessions[l] # w.obj
    /\ w.pc = "closing" =>
          /\ queue[w.obj] = << >>
          /\ socket[w.obj] # 0 => upstream[socket[w.obj]].state = "closing"

SessionsHeld ==
    /\ \A k \in Scopes : sessions[k] # 0 => k \in late \/ \E c \in online : k \in keys[c]
    /\ \A k, l \in Scopes : sessions[k] # 0 /\ sessions[k] = sessions[l] => k = l
    /\ \A o \in Sessions : queue[o] # << >> => StillHeld(o)
    /\ \A s \in Sockets : upstream[s].state = "open" => StillHeld(upstream[s].owner)
    /\ \A c \in Conns, k \in Scopes : CloserFits(c, k)

CodexIInv == WireTypeOK /\ TurnsLineUp /\ SocketsInPlace /\ SessionsHeld

-----------------------------------------------------------------------------
(***************************************************************************)
(* Helpers                                                                 *)
(***************************************************************************)

LEMMA Places ==
    /\ "idle" \in TurnPcs /\ "chosen" \in TurnPcs
    /\ InSession \subseteq TurnPcs /\ Underway \subseteq InSession
    /\ "queued" \in InSession /\ "queued" \notin Underway
    /\ "idle" \notin InSession /\ "chosen" \notin InSession
    /\ "replacing" \in Underway /\ "dialing" \in Underway /\ "asking" \in Underway
    /\ 0 \in TurnScopes /\ 0 \in TurnSessions /\ 0 \in TurnSockets
    /\ Scopes \subseteq TurnScopes /\ Sessions \subseteq TurnSessions /\ Sockets \subseteq TurnSockets
  BY DEF TurnPcs, InSession, Underway, TurnScopes, TurnSessions, TurnSockets

\* A turn that steps keeps its shape.
LEMMA TurnKeepsShape ==
    ASSUME turn \in [Conns -> Turns], NEW c \in Conns, NEW p \in TurnPcs, NEW k \in TurnScopes,
           NEW o \in TurnSessions, NEW s \in TurnSockets
    PROVE  /\ [turn EXCEPT ![c].pc = p, ![c].scope = k] \in [Conns -> Turns]
           /\ [turn EXCEPT ![c].pc = p, ![c].obj = o] \in [Conns -> Turns]
           /\ [turn EXCEPT ![c].pc = p, ![c].sock = s] \in [Conns -> Turns]
           /\ [turn EXCEPT ![c].pc = p, ![c].sock = s, ![c].recovering = TRUE] \in [Conns -> Turns]
           /\ [turn EXCEPT ![c].pc = p] \in [Conns -> Turns]
  BY DEF Turns

LEMMA ZeroIsNobody == 0 \notin Sessions /\ 0 \notin Sockets /\ 0 \notin Scopes
  BY CodexAssumption DEF Sessions, Sockets

\* A chain somebody is in has a head, and its tail is the rest.
LEMMA TailElements ==
    ASSUME NEW q \in Seq(Conns), q # << >>,
           \A i, j \in 1..Len(q) : q[i] = q[j] => i = j
    PROVE  /\ Head(q) \in Conns /\ Tail(q) \in Seq(Conns)
           /\ Elements(Tail(q)) = Elements(q) \ {Head(q)}
           /\ \A i \in 1..Len(Tail(q)) : i + 1 \in 1..Len(q) /\ Tail(q)[i] = q[i + 1]
  <1>1. /\ Len(q) \in Nat /\ Len(q) > 0 /\ Head(q) = q[1] /\ Head(q) \in Conns
        /\ Tail(q) \in Seq(Conns) /\ Len(Tail(q)) = Len(q) - 1
        /\ \A i \in 1..Len(Tail(q)) : Tail(q)[i] = q[i + 1]
    BY HeadTailProperties
  <1>2. \A i \in 1..Len(Tail(q)) : i + 1 \in 1..Len(q) /\ i + 1 # 1
    BY <1>1
  <1>3. ASSUME NEW e \in Elements(Tail(q)) PROVE e \in Elements(q) \ {Head(q)}
    <2>1. PICK i \in 1..Len(Tail(q)) : Tail(q)[i] = e
      BY DEF Elements
    <2>2. e = q[i + 1] /\ i + 1 \in 1..Len(q) /\ i + 1 # 1 /\ 1 \in 1..Len(q)
      BY <1>1, <1>2, <2>1
    <2>3. e # q[1]
      BY <2>2
    <2>4. QED
      BY <1>1, <2>2, <2>3 DEF Elements
  <1>4. ASSUME NEW e \in Elements(q) \ {Head(q)} PROVE e \in Elements(Tail(q))
    <2>1. PICK i \in 1..Len(q) : q[i] = e
      BY DEF Elements
    <2>2. i - 1 \in 1..Len(Tail(q)) /\ (i - 1) + 1 = i
      BY <1>1, <2>1
    <2>3. Tail(q)[i - 1] = e
      BY <1>1, <2>1, <2>2
    <2>4. QED
      BY <2>2, <2>3 DEF Elements
  <1>5. QED
    BY <1>1, <1>2, <1>3, <1>4

LEMMA AppendElements ==
    ASSUME NEW q \in Seq(Conns), NEW c \in Conns
    PROVE  /\ Append(q, c) \in Seq(Conns) /\ Append(q, c) # << >>
           /\ Elements(Append(q, c)) = Elements(q) \cup {c}
           /\ q # << >> => Head(Append(q, c)) = Head(q)
           /\ \A i \in 1..Len(Append(q, c)) :
                 \/ i \in 1..Len(q) /\ Append(q, c)[i] = q[i]
                 \/ i = Len(q) + 1 /\ Append(q, c)[i] = c
  <1>1. /\ Len(q) \in Nat /\ Append(q, c) \in Seq(Conns) /\ Len(Append(q, c)) = Len(q) + 1
        /\ \A i \in 1..Len(q) : Append(q, c)[i] = q[i]
        /\ Append(q, c)[Len(q) + 1] = c
    BY AppendProperties
  <1>2. \A i \in 1..Len(Append(q, c)) : i \in 1..Len(q) \/ i = Len(q) + 1
    BY <1>1
  <1>3. q # << >> => Head(Append(q, c)) = Head(q)
    OBVIOUS
  <1>4. Len(q) + 1 \in 1..Len(Append(q, c)) /\ \A i \in 1..Len(q) : i \in 1..Len(Append(q, c))
    BY <1>1
  <1>5. Elements(Append(q, c)) = Elements(q) \cup {c}
    BY <1>1, <1>2, <1>4 DEF Elements
  <1>6. Append(q, c) # << >>
    BY <1>1
  <1>7. QED
    BY <1>1, <1>2, <1>3, <1>5, <1>6

\* Two turns under way are of two sessions, and work on two sockets.
LEMMA UnderwayAlone ==
    ASSUME CodexIInv, NEW c \in Conns, turn[c].pc \in Underway,
           NEW d \in Conns, turn[d].pc \in Underway, c # d
    PROVE  turn[c].obj # turn[d].obj
  BY DEF CodexIInv, TurnsLineUp, TurnPlaced

-----------------------------------------------------------------------------
(***************************************************************************)
(* Turns line up                                                           *)
(***************************************************************************)

\* A chain is orderly if it now is q, and q lists turns of its session, each once.
LEMMA OrderlyChain ==
    ASSUME NEW o \in Sessions, NEW q, queue'[o] = q,
           \A i \in 1..Len(q) : turn'[q[i]].pc \in InSession /\ turn'[q[i]].obj = o,
           \A i, j \in 1..Len(q) : q[i] = q[j] => i = j
    PROVE  ChainOrderly(o)'
  BY DEF ChainOrderly

LEMMA LinesKept ==
    ASSUME TurnsLineUp, UNCHANGED <<turn, keys, queue>>
    PROVE  TurnsLineUp'
  BY DEF TurnsLineUp, TurnPlaced, ChainOrderly

\* A step of a turn that is in no session, before and after.
LEMMA OutsideLinesUp ==
    ASSUME WireTypeOK, TurnsLineUp, NEW c \in Conns, turn[c].pc \notin InSession,
           turn'[c].pc \notin InSession, turn'[c].obj = 0, turn'[c].sock = 0,
           turn'[c].pc # "idle" => turn'[c].scope \in Scopes /\ turn'[c].scope \in keys'[c],
           \A d \in Conns \ {c} : turn'[d] = turn[d] /\ keys'[d] = keys[d],
           queue' = queue
    PROVE  TurnsLineUp'
  <1>1. ASSUME NEW d \in Conns PROVE TurnPlaced(d)'
    BY DEF TurnsLineUp, TurnPlaced, InSession, Underway
  <1>2. ASSUME NEW o \in Sessions PROVE ChainOrderly(o)'
    <2>1. SUFFICES ASSUME NEW i \in 1..Len(queue[o]), NEW j \in 1..Len(queue[o])
                   PROVE  /\ turn'[queue[o][i]].pc \in InSession
                          /\ turn'[queue[o][i]].obj = o
                          /\ queue[o][i] = queue[o][j] => i = j
      BY DEF ChainOrderly
    <2>2. /\ turn[queue[o][i]].pc \in InSession /\ turn[queue[o][i]].obj = o
          /\ queue[o][i] = queue[o][j] => i = j
      BY DEF TurnsLineUp, ChainOrderly
    <2>3. queue[o][i] \in Conns \ {c}
      BY <2>2 DEF WireTypeOK
    <2>4. QED
      BY <2>2, <2>3
  <1>3. QED
    BY <1>1, <1>2 DEF TurnsLineUp

\* A step of a turn that stays in its session: it gets or stays under way.
LEMMA InsideLinesUp ==
    ASSUME WireTypeOK, TurnsLineUp, NEW c \in Conns, turn[c].pc \in InSession,
           Head(queue[turn[c].obj]) = c,
           turn'[c].pc \in Underway, turn'[c].obj = turn[c].obj, turn'[c].scope = turn[c].scope,
           turn'[c].sock \in Sockets,
           \A d \in Conns \ {c} : turn'[d] = turn[d],
           UNCHANGED <<queue, keys>>
    PROVE  TurnsLineUp'
  <1>1. ASSUME NEW d \in Conns PROVE TurnPlaced(d)'
    BY DEF TurnsLineUp, TurnPlaced, InSession, Underway
  <1>2. ASSUME NEW o \in Sessions PROVE ChainOrderly(o)'
    <2>1. SUFFICES ASSUME NEW i \in 1..Len(queue[o]), NEW j \in 1..Len(queue[o])
                   PROVE  /\ turn'[queue[o][i]].pc \in InSession
                          /\ turn'[queue[o][i]].obj = o
                          /\ queue[o][i] = queue[o][j] => i = j
      BY DEF ChainOrderly
    <2>2. /\ turn[queue[o][i]].pc \in InSession /\ turn[queue[o][i]].obj = o
          /\ queue[o][i] = queue[o][j] => i = j
      BY DEF TurnsLineUp, ChainOrderly
    <2>3. queue[o][i] \in Conns
      BY DEF WireTypeOK
    <2>4. QED
      BY <2>2, <2>3 DEF Underway, InSession
  <1>3. QED
    BY <1>1, <1>2 DEF TurnsLineUp

\* The turn at the head of a chain settles.
LEMMA SettleLinesUp ==
    ASSUME WireTypeOK, TurnsLineUp, NEW c \in Conns, turn[c].pc \in Underway,
           NEW next \in {NoTurn, Retried(c)}, Settle(c, next), keys' = keys
    PROVE  /\ TurnsLineUp'
           /\ turn[c].obj \in Sessions
           /\ queue[turn[c].obj] # << >>
           /\ turn'[c] = next /\ \A d \in Conns \ {c} : turn'[d] = turn[d]
           /\ \A o \in Sessions \ {turn[c].obj} : queue'[o] = queue[o]
           /\ queue' \in [Sessions -> Seq(Conns)]
  <1> DEFINE o == turn[c].obj
             q == queue[o]
  <1>1. /\ o \in Sessions /\ c \in Elements(q) /\ Head(q) = c
        /\ turn[c].scope \in Scopes /\ turn[c].scope \in keys[c]
    BY DEF TurnsLineUp, TurnPlaced, Underway, InSession
  <1>2. q \in Seq(Conns) /\ q # << >>
    BY <1>1 DEF WireTypeOK, Elements
  <1>3. \A i, j \in 1..Len(q) : q[i] = q[j] => i = j
    BY <1>1 DEF TurnsLineUp, ChainOrderly
  <1>4. /\ Tail(q) \in Seq(Conns)
        /\ Elements(Tail(q)) = Elements(q) \ {c}
        /\ \A i \in 1..Len(Tail(q)) : i + 1 \in 1..Len(q) /\ Tail(q)[i] = q[i + 1]
    BY <1>1, <1>2, <1>3, TailElements
  <1>5. /\ queue'[o] = Tail(q) /\ \A p \in Sessions : p # o => queue'[p] = queue[p]
        /\ queue' \in [Sessions -> Seq(Conns)]
    BY <1>1, <1>4 DEF Settle, WireTypeOK
  <1>6. turn'[c] = next /\ \A d \in Conns \ {c} : turn'[d] = turn[d]
    BY DEF Settle, WireTypeOK
  <1>7. /\ next.pc \in {"idle", "chosen"} /\ next.obj = 0 /\ next.sock = 0
        /\ next.pc # "idle" => next.scope = turn[c].scope
    <2>1. CASE next = NoTurn
      BY <2>1 DEF NoTurn
    <2>2. CASE next = Retried(c)
      BY <2>2 DEF NoTurn, Retried
    <2>3. QED
      BY <2>1, <2>2
  <1> HIDE DEF o, q
  <1>8. ASSUME NEW d \in Conns PROVE TurnPlaced(d)'
    <2>1. CASE d = c
      BY <1>1, <1>6, <1>7, <2>1 DEF TurnPlaced, InSession, Underway
    <2>2. CASE d # c
      <3>1. TurnPlaced(d) /\ turn'[d] = turn[d]
        BY <1>6, <2>2 DEF TurnsLineUp
      <3>2. CASE turn[d].pc \in InSession /\ turn[d].obj = o
        <4>1. d \in Elements(queue'[o])
          BY <1>4, <1>5, <2>2, <3>1, <3>2 DEF TurnPlaced, q
        <4>2. turn[d].pc \notin Underway
          BY <1>1, <2>2, <3>1, <3>2 DEF TurnPlaced, q
        <4>3. QED
          BY <3>1, <3>2, <4>1, <4>2 DEF TurnPlaced
      <3>3. CASE ~(turn[d].pc \in InSession /\ turn[d].obj = o)
        BY <1>5, <3>1, <3>3 DEF TurnPlaced, Underway, InSession
      <3>4. QED
        BY <3>2, <3>3
    <2>3. QED
      BY <2>1, <2>2
  <1>9. ASSUME NEW p \in Sessions PROVE ChainOrderly(p)'
    <2>1. ASSUME NEW i \in 1..Len(queue[p])
          PROVE  queue[p][i] \in Conns /\ turn[queue[p][i]].pc \in InSession
                    /\ turn[queue[p][i]].obj = p
      BY DEF TurnsLineUp, ChainOrderly, WireTypeOK
    <2>2. CASE p # o
      <3>1. queue'[p] = queue[p]
        BY <1>5, <2>2
      <3>2. \A i \in 1..Len(queue[p]) : queue[p][i] # c
        BY <2>1, <2>2 DEF o
      <3>3. \A i, j \in 1..Len(queue[p]) : queue[p][i] = queue[p][j] => i = j
        BY DEF TurnsLineUp, ChainOrderly
      <3>4. \A i \in 1..Len(queue[p]) : turn'[queue[p][i]] = turn[queue[p][i]]
        BY <1>6, <2>1, <3>2
      <3>5. QED
        <4>1. \A i \in 1..Len(queue[p]) :
                 turn'[queue[p][i]].pc \in InSession /\ turn'[queue[p][i]].obj = p
          BY <2>1, <3>4
        <4>2. QED
          BY <3>1, <3>3, <4>1, OrderlyChain
    <2>3. CASE p = o
      <3>1. ASSUME NEW i \in 1..Len(Tail(q))
            PROVE  turn'[Tail(q)[i]].pc \in InSession /\ turn'[Tail(q)[i]].obj = o
        <4>1. i + 1 \in 1..Len(q) /\ Tail(q)[i] = q[i + 1]
          BY <1>4
        <4>2. Tail(q)[i] \in Elements(Tail(q))
          BY DEF Elements
        <4>3. q[i + 1] # c
          BY <1>4, <4>1, <4>2
        <4>4. /\ q[i + 1] \in Conns /\ turn[q[i + 1]].pc \in InSession
              /\ turn[q[i + 1]].obj = o
          BY <1>1, <2>1, <2>3, <4>1 DEF q
        <4>5. QED
          BY <1>6, <4>1, <4>3, <4>4
      <3>2. ASSUME NEW i \in 1..Len(Tail(q)), NEW j \in 1..Len(Tail(q)), Tail(q)[i] = Tail(q)[j]
            PROVE  i = j
        BY <1>3, <1>4, <3>2
      <3>3. QED
        BY <1>5, <2>3, <3>1, <3>2, OrderlyChain
    <2>4. QED
      BY <2>2, <2>3
  <1>10. TurnsLineUp'
    BY <1>8, <1>9 DEF TurnsLineUp
  <1>11. QED
    BY <1>1, <1>2, <1>5, <1>6, <1>10 DEF o, q

LEMMA SendRequestLinesUp ==
    ASSUME WireTypeOK, TurnsLineUp, NEW c \in Conns, turn[c].pc = "chosen",
           NEW o \in Sessions,
           queue' = [queue EXCEPT ![o] = Append(@, c)],
           turn'[c].pc = "queued", turn'[c].obj = o, turn'[c].scope = turn[c].scope,
           turn'[c].sock = turn[c].sock,
           \A d \in Conns \ {c} : turn'[d] = turn[d],
           keys' = keys
    PROVE  /\ TurnsLineUp'
           /\ queue'[o] # << >> /\ \A p \in Sessions \ {o} : queue'[p] = queue[p]
           /\ queue' \in [Sessions -> Seq(Conns)]
  <1> DEFINE q == queue[o]
             r == Append(q, c)
  <1>1. q \in Seq(Conns)
    BY DEF WireTypeOK
  <1>2. /\ r \in Seq(Conns) /\ r # << >>
        /\ Elements(r) = Elements(q) \cup {c}
        /\ q # << >> => Head(r) = Head(q)
        /\ \A i \in 1..Len(r) :
              \/ i \in 1..Len(q) /\ r[i] = q[i]
              \/ i = Len(q) + 1 /\ r[i] = c
    BY <1>1, AppendElements
  <1>3. /\ queue'[o] = r /\ \A p \in Sessions \ {o} : queue'[p] = queue[p]
        /\ queue' \in [Sessions -> Seq(Conns)]
    BY <1>2 DEF WireTypeOK
  <1>4. /\ turn'[c].pc = "queued" /\ turn'[c].obj = o /\ turn'[c].scope = turn[c].scope
        /\ turn'[c].sock = turn[c].sock
        /\ \A d \in Conns \ {c} : turn'[d] = turn[d]
    OBVIOUS
  <1> HIDE DEF q, r
  <1>5. ASSUME NEW d \in Conns PROVE TurnPlaced(d)'
    <2>1. TurnPlaced(d)
      BY DEF TurnsLineUp
    <2>2. CASE d = c
      BY <1>2, <1>3, <1>4, <2>1, <2>2 DEF TurnPlaced, InSession, Underway
    <2>3. CASE d # c
      <3>1. CASE turn[d].pc \in InSession /\ turn[d].obj = o
        <4>1. q # << >>
          BY <2>1, <3>1 DEF TurnPlaced, Elements, q
        <4>2. d \in Elements(queue'[o]) /\ Head(queue'[o]) = Head(queue[o])
          BY <1>2, <1>3, <2>1, <3>1, <4>1 DEF TurnPlaced, q
        <4>3. QED
          BY <1>4, <2>1, <2>3, <3>1, <4>2 DEF TurnPlaced
      <3>2. CASE ~(turn[d].pc \in InSession /\ turn[d].obj = o)
        BY <1>3, <1>4, <2>1, <2>3, <3>2 DEF TurnPlaced, Underway, InSession
      <3>3. QED
        BY <3>1, <3>2
    <2>4. QED
      BY <2>2, <2>3
  <1>6. ASSUME NEW p \in Sessions PROVE ChainOrderly(p)'
    <2>1. ASSUME NEW u \in Sessions, NEW i \in 1..Len(queue[u])
          PROVE  /\ queue[u][i] \in Conns \ {c} /\ turn[queue[u][i]].pc \in InSession
                 /\ turn[queue[u][i]].obj = u
      BY DEF TurnsLineUp, ChainOrderly, WireTypeOK, InSession
    <2>2. CASE p # o
      <3>1. queue'[p] = queue[p]
        BY <1>3, <2>2
      <3>2. \A i, j \in 1..Len(queue[p]) : queue[p][i] = queue[p][j] => i = j
        BY DEF TurnsLineUp, ChainOrderly
      <3>3. \A i \in 1..Len(queue[p]) : turn'[queue[p][i]] = turn[queue[p][i]]
        BY <1>4, <2>1
      <3>4. QED
        <4>1. \A i \in 1..Len(queue[p]) :
                 turn'[queue[p][i]].pc \in InSession /\ turn'[queue[p][i]].obj = p
          BY <2>1, <3>3
        <4>2. QED
          BY <3>1, <3>2, <4>1, OrderlyChain
    <2>3. CASE p = o
      <3>1. \A k, l \in 1..Len(q) : q[k] = q[l] => k = l
        BY DEF TurnsLineUp, ChainOrderly, q
      <3>2. \A k \in 1..Len(q) : /\ q[k] \in Conns \ {c} /\ turn[q[k]].pc \in InSession
                                 /\ turn[q[k]].obj = o
        BY <2>1 DEF q
      <3>3. ASSUME NEW i \in 1..Len(r)
            PROVE  turn'[r[i]].pc \in InSession /\ turn'[r[i]].obj = o
        <4>1. \/ i \in 1..Len(q) /\ r[i] = q[i]
              \/ i = Len(q) + 1 /\ r[i] = c
          BY <1>2
        <4>2. CASE r[i] = c
          BY <1>4, <4>2 DEF InSession
        <4>3. CASE i \in 1..Len(q) /\ r[i] = q[i]
          BY <1>4, <3>2, <4>3
        <4>4. QED
          BY <4>1, <4>2, <4>3
      <3>4. ASSUME NEW i \in 1..Len(r), NEW j \in 1..Len(r), r[i] = r[j]
            PROVE  i = j
        <4>1. /\ (i \in 1..Len(q) /\ r[i] = q[i]) \/ (i = Len(q) + 1 /\ r[i] = c)
              /\ (j \in 1..Len(q) /\ r[j] = q[j]) \/ (j = Len(q) + 1 /\ r[j] = c)
          BY <1>2
        <4>2. CASE i \in 1..Len(q) /\ j \in 1..Len(q) /\ r[i] = q[i] /\ r[j] = q[j]
          BY <3>1, <3>4, <4>2
        <4>3. CASE r[i] = c \/ r[j] = c
          BY <3>2, <3>4, <4>1, <4>3
        <4>4. QED
          BY <4>1, <4>2, <4>3
      <3>5. queue'[p] = r
        BY <1>3, <2>3
      <3>6. /\ \A i \in 1..Len(r) : turn'[r[i]].pc \in InSession /\ turn'[r[i]].obj = p
            /\ \A i, j \in 1..Len(r) : r[i] = r[j] => i = j
        BY <2>3, <3>3, <3>4
      <3>7. QED
        BY <3>5, <3>6, OrderlyChain
    <2>4. QED
      BY <2>2, <2>3
  <1>7. QED
    BY <1>2, <1>3, <1>5, <1>6 DEF TurnsLineUp

-----------------------------------------------------------------------------
(***************************************************************************)
(* Steps that leave the session store as it is                             *)
(***************************************************************************)

\* Nobody's claim to a session is touched: chains do not begin, no socket opens
\* but one whose session is held, and an empty chain's socket stays as it is,
\* goes, or goes on closing.
LEMMA StoreKept ==
    ASSUME CodexIInv, UNCHANGED <<online, sessions, closer, late>>,
           \A c \in Conns : keys[c] \subseteq keys'[c],
           \A o \in Sessions : queue'[o] # << >> => queue[o] # << >>,
           \A s \in Sockets : upstream'[s].state = "open" =>
               \/ upstream[s].state = "open" /\ upstream'[s].owner = upstream[s].owner
               \/ upstream'[s].owner \in Sessions /\ queue[upstream'[s].owner] # << >>,
           \A o \in Sessions : queue[o] = << >> =>
               \/ socket'[o] = 0
               \/ /\ socket'[o] = socket[o]
                  /\ upstream[socket[o]].state = "closing" => upstream'[socket[o]].state = "closing"
    PROVE  SessionsHeld'
  <1>1. \A o : StillHeld(o) <=> StillHeld(o)'
    BY DEF StillHeld
  <1>2. \A k \in Scopes : sessions'[k] # 0 => k \in late' \/ \E c \in online' : k \in keys'[c]
    BY DEF CodexIInv, SessionsHeld, WireTypeOK
  <1>3. \A k, l \in Scopes : sessions'[k] # 0 /\ sessions'[k] = sessions'[l] => k = l
    BY DEF CodexIInv, SessionsHeld
  <1>4. \A o \in Sessions : queue'[o] # << >> => StillHeld(o)'
    BY <1>1 DEF CodexIInv, SessionsHeld
  <1>5. ASSUME NEW s \in Sockets, upstream'[s].state = "open"
        PROVE  StillHeld(upstream[s].owner)'
    <2>1. StillHeld(upstream'[s].owner)
      BY <1>5 DEF CodexIInv, SessionsHeld
    <2>2. QED
      BY <2>1 DEF StillHeld
  <1>6. ASSUME NEW c \in Conns, NEW k \in Scopes PROVE CloserFits(c, k)'
    <2>1. CloserFits(c, k) /\ closer'[c][k] = closer[c][k] /\ closer[c][k].obj \in Sessions \cup {0}
      BY DEF CodexIInv, SessionsHeld, WireTypeOK
    <2>2. CASE closer[c][k].pc # "closing"
      BY <2>1, <2>2 DEF CloserFits
    <2>3. CASE closer[c][k].pc = "closing"
      <3>1. closer[c][k].obj \in Sessions
        BY <2>1, <2>3 DEF CloserFits
      <3>2. queue[closer[c][k].obj] = << >>
        BY <2>1, <2>3 DEF CloserFits
      <3>3. QED
        BY <2>1, <2>3, <3>1, <3>2 DEF CloserFits
    <2>4. QED
      BY <2>2, <2>3
  <1>7. QED
    BY <1>2, <1>3, <1>4, <1>5, <1>6 DEF SessionsHeld

-----------------------------------------------------------------------------
(***************************************************************************)
(* Every step preserves the invariant                                      *)
(***************************************************************************)

LEMMA CodexInitInv == CodexInit => CodexIInv
  <1> SUFFICES ASSUME CodexInit PROVE CodexIInv
    OBVIOUS
  <1>1. WireTypeOK
    BY Places DEF CodexInit, WireTypeOK, Turns, NoTurn, NoCloser, NoSocket
  <1>2. TurnsLineUp
    BY DEF CodexInit, TurnsLineUp, TurnPlaced, ChainOrderly, NoTurn, InSession, Underway
  <1>3. SocketsInPlace
    BY DEF CodexInit, SocketsInPlace, TurnWired, SocketWired, SessionWired, NoTurn, NoSocket
  <1>4. SessionsHeld
    BY DEF CodexInit, SessionsHeld, CloserFits, NoSocket, NoCloser
  <1>5. QED
    BY <1>1, <1>2, <1>3, <1>4 DEF CodexIInv

\* What the invariant says of one turn, one socket, one session.
LEMMA Agreement ==
    ASSUME CodexIInv
    PROVE  /\ \A c \in Conns : TurnPlaced(c) /\ TurnWired(c)
           /\ \A s \in Sockets : SocketWired(s)
           /\ \A o \in Sessions : SessionWired(o)
           /\ \A c \in Conns : turn[c].pc \in InSession => queue[turn[c].obj] # << >>
  BY DEF CodexIInv, TurnsLineUp, SocketsInPlace, TurnPlaced, Elements

\* A turn steps outside of sessions.
LEMMA CodexOutsideInv ==
    ASSUME CodexIInv, NEW c \in Conns, turn[c].pc \notin InSession,
           turn' \in [Conns -> Turns], keys' \in [Conns -> SUBSET Scopes],
           turn'[c].pc \in {"idle", "chosen"}, turn'[c].obj = 0, turn'[c].sock = 0,
           turn'[c].pc # "idle" => turn'[c].scope \in keys'[c],
           keys[c] \subseteq keys'[c],
           \A d \in Conns \ {c} : turn'[d] = turn[d] /\ keys'[d] = keys[d],
           UNCHANGED <<online, storeVars, wireVars>>
    PROVE  CodexIInv'
  <1>1. WireTypeOK'
    BY DEF CodexIInv, WireTypeOK, storeVars, wireVars, Turns
  <1>2. WireTypeOK /\ TurnsLineUp /\ queue' = queue
    BY DEF CodexIInv, wireVars
  <1>3. turn'[c].pc \notin InSession /\ (turn'[c].pc # "idle" => turn'[c].scope \in Scopes)
    BY DEF InSession
  <1>4. TurnsLineUp'
    BY <1>2, <1>3, OutsideLinesUp
  <1>5. SocketsInPlace'
    BY DEF CodexIInv, SocketsInPlace, TurnWired, SocketWired, SessionWired, wireVars
  <1>6. SessionsHeld'
    BY StoreKept DEF storeVars, wireVars
  <1>7. QED
    BY <1>1, <1>4, <1>5, <1>6 DEF CodexIInv

LEMMA HandleNextInv ==
    ASSUME CodexIInv, NEW c \in Conns, NEW k \in Scopes, HandleNext(c, k)
    PROVE  CodexIInv'
  <1>1. turn[c].pc = "idle" /\ turn[c].pc \notin InSession
    BY DEF HandleNext, InSession
  <1>2. turn[c].obj = 0 /\ turn[c].sock = 0
    BY <1>1, Agreement DEF TurnPlaced, InSession, Underway
  <1>3. /\ turn'[c].pc = "chosen" /\ turn'[c].scope = k
        /\ turn'[c].obj = 0 /\ turn'[c].sock = 0
        /\ keys'[c] = keys[c] \cup {k}
        /\ \A d \in Conns \ {c} : turn'[d] = turn[d] /\ keys'[d] = keys[d]
        /\ keys' \in [Conns -> SUBSET Scopes]
    BY <1>2 DEF HandleNext, CodexIInv, WireTypeOK, Turns
  <1>4. turn' \in [Conns -> Turns]
    BY Places, TurnKeepsShape DEF HandleNext, CodexIInv, WireTypeOK
  <1>5. UNCHANGED <<online, storeVars, wireVars>>
    BY DEF HandleNext
  <1>6. QED
    BY <1>1, <1>3, <1>4, <1>5, CodexOutsideInv

LEMMA HandledElsewhereInv ==
    ASSUME CodexIInv, NEW c \in Conns, HandledElsewhere(c)
    PROVE  CodexIInv'
  <1>1. turn[c].pc \notin InSession
    BY DEF HandledElsewhere, InSession
  <1>2. /\ turn'[c].pc = "idle" /\ turn'[c].obj = 0 /\ turn'[c].sock = 0
        /\ \A d \in Conns \ {c} : turn'[d] = turn[d]
        /\ turn' \in [Conns -> Turns]
    BY Places DEF HandledElsewhere, NoTurn, CodexIInv, WireTypeOK, Turns
  <1>3. keys' = keys /\ keys \in [Conns -> SUBSET Scopes] /\ UNCHANGED <<online, storeVars, wireVars>>
    BY DEF HandledElsewhere, clientVars, CodexIInv, WireTypeOK
  <1>4. QED
    BY <1>1, <1>2, <1>3, CodexOutsideInv

LEMMA SendRequestInv ==
    ASSUME CodexIInv, NEW c \in Conns, SendRequest(c)
    PROVE  CodexIInv'
  <1> DEFINE k == turn[c].scope
  <1>1. PICK o \in IF sessions[k] # 0 THEN {sessions[k]} ELSE Least(UnusedSession, Sessions) :
          /\ sessions' = [sessions EXCEPT ![k] = o]
          /\ queue' = [queue EXCEPT ![o] = Append(@, c)]
          /\ turn' = [turn EXCEPT ![c].pc = "queued", ![c].obj = o]
          /\ late' = IF c \in online THEN late ELSE late \cup {k}
    BY DEF SendRequest
  <1>2. turn[c].pc = "chosen" /\ UNCHANGED <<online, keys, closer, socket, upstream>>
    BY DEF SendRequest, clientVars
  <1>3. k \in Scopes /\ k \in keys[c] /\ turn[c].obj = 0 /\ turn[c].sock = 0
    BY <1>2, Agreement DEF TurnPlaced, InSession, Underway
  <1>4. /\ o \in Sessions
        /\ sessions[k] = o \/ (sessions[k] = 0 /\ UnusedSession(o))
    BY <1>1, <1>3 DEF Least, CodexIInv, WireTypeOK
  <1>5. /\ \A l \in Scopes : sessions[l] = o => l = k
        /\ \A d \in Conns, l \in Scopes : closer[d][l].obj # o
    <2>1. CASE sessions[k] = o
      BY <1>3, <1>4, <2>1, ZeroIsNobody DEF CodexIInv, SessionsHeld, CloserFits
    <2>2. CASE UnusedSession(o)
      BY <2>2 DEF UnusedSession
    <2>3. QED
      BY <1>4, <2>1, <2>2
  <1>6. /\ turn'[c].pc = "queued" /\ turn'[c].obj = o /\ turn'[c].scope = k /\ turn'[c].sock = 0
        /\ \A d \in Conns \ {c} : turn'[d] = turn[d]
    BY <1>1, <1>3 DEF CodexIInv, WireTypeOK, Turns
  <1>7. /\ sessions'[k] = o /\ \A l \in Scopes \ {k} : sessions'[l] = sessions[l]
    BY <1>1, <1>3 DEF CodexIInv, WireTypeOK
  <1>8. /\ TurnsLineUp'
        /\ queue'[o] # << >> /\ \A p \in Sessions \ {o} : queue'[p] = queue[p]
        /\ queue' \in [Sessions -> Seq(Conns)]
    BY <1>1, <1>2, <1>3, <1>4, <1>6, SendRequestLinesUp DEF CodexIInv
  <1>9. /\ late \subseteq late' /\ late' \subseteq Scopes
        /\ k \in late' \/ c \in online'
    BY <1>1, <1>2, <1>3 DEF CodexIInv, WireTypeOK
  <1>10. WireTypeOK'
    <2>1. turn' \in [Conns -> Turns]
      BY <1>1, <1>4, Places, TurnKeepsShape DEF CodexIInv, WireTypeOK
    <2>2. QED
      BY <1>1, <1>2, <1>4, <1>8, <1>9, <2>1 DEF CodexIInv, WireTypeOK, Turns
  <1>11. SocketsInPlace'
    BY <1>2, <1>6 DEF CodexIInv, SocketsInPlace, TurnWired, SocketWired, SessionWired
  <1> HIDE DEF k
  <1>12. \A p \in Sessions : StillHeld(p) => StillHeld(p)'
    BY <1>2, <1>4, <1>7, ZeroIsNobody DEF StillHeld
  <1>13. SessionsHeld'
    <2>1. \A l \in Scopes : sessions'[l] # 0 => l \in late' \/ \E d \in online' : l \in keys'[d]
      BY <1>2, <1>3, <1>7, <1>9 DEF CodexIInv, SessionsHeld
    <2>2. \A l, m \in Scopes : sessions'[l] # 0 /\ sessions'[l] = sessions'[m] => l = m
      BY <1>5, <1>7 DEF CodexIInv, SessionsHeld
    <2>3. \A p \in Sessions : queue'[p] # << >> => StillHeld(p)'
      <3>1. StillHeld(o)'
        BY <1>3, <1>7 DEF StillHeld
      <3>2. QED
        BY <1>8, <1>12, <3>1 DEF CodexIInv, SessionsHeld
    <2>4. \A s \in Sockets : upstream'[s].state = "open" => StillHeld(upstream[s].owner)'
      <3>1. SUFFICES ASSUME NEW s \in Sockets, upstream[s].state = "open"
                     PROVE  StillHeld(upstream[s].owner)'
        BY <1>2
      <3>2. PICK p \in Sessions : p = upstream[s].owner /\ p = upstream'[s].owner
        BY <1>2, <3>1, Agreement DEF CodexIInv, WireTypeOK, SocketWired
      <3>3. StillHeld(p)'
        BY <1>12, <3>1, <3>2 DEF CodexIInv, SessionsHeld
      <3>4. QED
        BY <3>2, <3>3 DEF StillHeld
    <2>5. ASSUME NEW d \in Conns, NEW l \in Scopes PROVE CloserFits(d, l)'
      <3>1. CloserFits(d, l) /\ closer[d][l].obj \in Sessions \cup {0} /\ closer[d][l].obj # o
        BY <1>5 DEF CodexIInv, SessionsHeld, WireTypeOK
      <3>2. closer[d][l].pc = "closing" => closer[d][l].obj \in Sessions \ {o}
        BY <3>1 DEF CloserFits
      <3>3. QED
        BY <1>2, <1>7, <1>8, <3>1, <3>2 DEF CloserFits
    <2>6. QED
      BY <2>1, <2>2, <2>3, <2>4, <2>5 DEF SessionsHeld
  <1>14. QED
    BY <1>8, <1>10, <1>11, <1>13 DEF CodexIInv

\* Nothing a socket's fate depends on changes.
LEMMA QuietInv ==
    ASSUME CodexIInv, UNCHANGED <<online, keys, storeVars, wireVars, turn>>
    PROVE  CodexIInv'
  <1>1. WireTypeOK'
    BY DEF CodexIInv, WireTypeOK, storeVars, wireVars
  <1>2. TurnsLineUp'
    BY DEF CodexIInv, TurnsLineUp, TurnPlaced, ChainOrderly, wireVars
  <1>3. SocketsInPlace'
    BY DEF CodexIInv, SocketsInPlace, TurnWired, SocketWired, SessionWired, wireVars
  <1>4. SessionsHeld'
    BY StoreKept DEF storeVars, wireVars, CodexIInv, WireTypeOK
  <1>5. QED
    BY <1>1, <1>2, <1>3, <1>4 DEF CodexIInv

\* A turn dials: its session has no socket that is open, and the new one is nobody's.
LEMMA DialInv ==
    ASSUME CodexIInv, NEW c \in Conns, turn[c].pc \in InSession, Head(queue[turn[c].obj]) = c,
           NEW s \in Sockets, UnusedSocket(s),
           turn' \in [Conns -> Turns], turn'[c].pc = "dialing", turn'[c].sock = s,
           turn'[c].obj = turn[c].obj, turn'[c].scope = turn[c].scope,
           \A d \in Conns \ {c} : turn'[d] = turn[d],
           upstream'[s].state = "connecting", upstream'[s].owner = turn[c].obj,
           \A r \in Sockets \ {s} :
               \/ upstream'[r] = upstream[r]
               \/ /\ upstream[r].state = "open" /\ upstream[r].owner = turn[c].obj
                  /\ upstream'[r].state = "closing" /\ upstream'[r].owner = turn[c].obj,
           upstream' \in [Sockets -> [state : {"none", "connecting", "open", "closing"},
                                      owner : Sessions \cup {0}]],
           socket[turn[c].obj] # 0 => upstream'[socket[turn[c].obj]].state # "open",
           socket' = [socket EXCEPT ![turn[c].obj] = 0],
           UNCHANGED <<online, keys, storeVars, queue>>
    PROVE  CodexIInv'
  <1> DEFINE o == turn[c].obj
  <1>1. o \in Sessions /\ queue[o] # << >> /\ upstream[s].state = "none"
    BY Agreement DEF TurnPlaced, UnusedSocket
  <1>2. socket'[o] = 0 /\ \A p \in Sessions \ {o} : socket'[p] = socket[p]
    BY <1>1 DEF CodexIInv, WireTypeOK
  <1>3. WireTypeOK'
    BY <1>1 DEF CodexIInv, WireTypeOK, storeVars
  <1>4. TurnsLineUp'
    <2>1. WireTypeOK /\ TurnsLineUp /\ turn'[c].pc \in Underway /\ turn'[c].sock \in Sockets
          /\ UNCHANGED <<queue, keys>>
      BY DEF CodexIInv, Underway
    <2>2. QED
      BY <2>1, InsideLinesUp
  <1>5. SocketsInPlace'
    <2>1. ASSUME NEW d \in Conns PROVE TurnWired(d)'
      <3>1. CASE d = c
        BY <1>2, <3>1 DEF TurnWired
      <3>2. CASE d # c
        <4>1. TurnPlaced(d) /\ TurnWired(d) /\ turn'[d] = turn[d] /\ turn[d].sock # s
          BY <3>2, Agreement DEF UnusedSocket
        <4>2. CASE turn[d].pc \in Underway
          <5>1. turn[d].obj \in Sessions \ {o} /\ turn[d].sock \in Sockets \ {s}
            BY <3>2, <4>1, <4>2 DEF TurnPlaced, Underway, InSession
          <5>2. upstream[turn[d].sock].owner # o => upstream'[turn[d].sock] = upstream[turn[d].sock]
            BY <5>1
          <5>3. socket'[turn[d].obj] = socket[turn[d].obj]
            BY <1>2, <5>1
          <5>4. upstream[turn[d].sock] = NoSocket => upstream[turn[d].sock].owner # o
            BY <1>1, ZeroIsNobody DEF NoSocket
          <5>5. QED
            BY <4>1, <5>1, <5>2, <5>3, <5>4 DEF TurnWired
        <4>3. CASE turn[d].pc \notin Underway
          BY <4>1, <4>3 DEF TurnWired, Underway
        <4>4. QED
          BY <4>2, <4>3
      <3>3. QED
        BY <3>1, <3>2
    <2>2. ASSUME NEW r \in Sockets PROVE SocketWired(r)'
      <3>1. CASE r = s
        BY <1>1, <3>1, ZeroIsNobody DEF SocketWired
      <3>2. CASE r # s
        <4>1. SocketWired(r) /\ upstream[r].owner \in Sessions \cup {0}
          BY Agreement DEF CodexIInv, WireTypeOK
        <4>2. CASE upstream'[r] = upstream[r]
          <5>1. upstream[r].state = "open" => upstream[r].owner # o
            BY <4>1, <4>2, ZeroIsNobody DEF SocketWired
          <5>2. QED
            BY <1>2, <4>1, <4>2, <5>1 DEF SocketWired
        <4>3. CASE upstream'[r].state = "closing" /\ upstream'[r].owner = o
          BY <1>1, <4>3, ZeroIsNobody DEF SocketWired
        <4>4. QED
          BY <3>2, <4>2, <4>3
      <3>3. QED
        BY <3>1, <3>2
    <2>3. ASSUME NEW p \in Sessions PROVE SessionWired(p)'
      <3>1. CASE p = o
        BY <1>2, <3>1 DEF SessionWired
      <3>2. CASE p # o /\ socket[p] # 0
        <4>1. socket[p] \in Sockets /\ SessionWired(p)
          BY <3>2, Agreement DEF CodexIInv, WireTypeOK
        <4>2. socket[p] # s /\ upstream[socket[p]].owner = p
          BY <1>1, <3>2, <4>1 DEF SessionWired
        <4>3. upstream'[socket[p]] = upstream[socket[p]]
          BY <3>2, <4>1, <4>2
        <4>4. QED
          BY <1>2, <3>2, <4>1, <4>3 DEF SessionWired
      <3>3. CASE p # o /\ socket[p] = 0
        BY <1>2, <3>3 DEF SessionWired
      <3>4. QED
        BY <3>1, <3>2, <3>3
    <2>4. QED
      BY <2>1, <2>2, <2>3 DEF SocketsInPlace
  <1>6. SessionsHeld'
    <2>1. ASSUME NEW r \in Sockets, upstream'[r].state = "open"
          PROVE  upstream[r].state = "open" /\ upstream'[r].owner = upstream[r].owner
      BY <2>1
    <2>2. ASSUME NEW p \in Sessions, queue[p] = << >>
          PROVE  /\ socket'[p] = socket[p]
                 /\ upstream[socket[p]].state = "closing" => socket[p] \notin Sockets
                        \/ upstream'[socket[p]].state = "closing"
      BY <1>1, <1>2, <2>2
    <2>3. \A p \in Sessions : socket[p] = 0 \/ socket[p] \in Sockets
      BY DEF CodexIInv, WireTypeOK
    <2>4. \A d \in Conns : keys[d] \subseteq keys'[d]
      OBVIOUS
    <2>5. \A p \in Sessions : queue'[p] # << >> => queue[p] # << >>
      OBVIOUS
    <2>6. UNCHANGED <<online, sessions, closer, late>>
      BY DEF storeVars
    <2>7. \A p \in Sessions : queue[p] = << >> =>
             \/ socket'[p] = 0
             \/ /\ socket'[p] = socket[p]
                /\ upstream[socket[p]].state = "closing" => upstream'[socket[p]].state = "closing"
      BY <2>2, <2>3
    <2>8. QED
      BY <2>1, <2>4, <2>5, <2>6, <2>7, StoreKept
  <1>7. QED
    BY <1>3, <1>4, <1>5, <1>6 DEF CodexIInv

\* A turn stays in its session and works on the socket the session has: it asks
\* on it, or has it closed.
LEMMA OnSocketInv ==
    ASSUME CodexIInv, NEW c \in Conns, turn[c].pc = "queued", Head(queue[turn[c].obj]) = c,
           NEW s \in Sockets, s = socket[turn[c].obj],
           turn' \in [Conns -> Turns], turn'[c].sock = s,
           turn'[c].obj = turn[c].obj, turn'[c].scope = turn[c].scope,
           \A d \in Conns \ {c} : turn'[d] = turn[d],
           \/ turn'[c].pc = "asking" /\ upstream' = upstream
           \/ turn'[c].pc = "replacing" /\ upstream' = [upstream EXCEPT ![s].state = "closing"],
           UNCHANGED <<online, keys, storeVars, queue, socket>>
    PROVE  CodexIInv'
  <1> DEFINE o == turn[c].obj
  <1>1. o \in Sessions /\ queue[o] # << >> /\ upstream[s].owner = o
        /\ upstream[s].state \in {"open", "closing"} /\ s # 0
    BY Agreement, ZeroIsNobody DEF TurnPlaced, SessionWired, InSession
  <1>2. /\ \A r \in Sockets \ {s} : upstream'[r] = upstream[r]
        /\ upstream'[s].owner = o /\ upstream'[s].state \in {"open", "closing"}
        /\ upstream'[s].state = "open" => upstream[s].state = "open"
        /\ upstream[s].state = "closing" => upstream'[s].state = "closing"
        /\ turn'[c].pc = "replacing" => upstream'[s].state = "closing"
        /\ upstream' \in [Sockets -> [state : {"none", "connecting", "open", "closing"},
                                      owner : Sessions \cup {0}]]
    <2>1. CASE turn'[c].pc = "asking" /\ upstream' = upstream
      BY <1>1, <2>1 DEF CodexIInv, WireTypeOK
    <2>2. CASE turn'[c].pc = "replacing" /\ upstream' = [upstream EXCEPT ![s].state = "closing"]
      <3>1. /\ \A r \in Sockets \ {s} : upstream'[r] = upstream[r]
            /\ upstream'[s].owner = o /\ upstream'[s].state = "closing"
            /\ upstream' \in [Sockets -> [state : {"none", "connecting", "open", "closing"},
                                          owner : Sessions \cup {0}]]
        BY <1>1, <2>2 DEF CodexIInv, WireTypeOK
      <3>2. QED
        BY <3>1
    <2>3. QED
      BY <2>1, <2>2
  <1>3. WireTypeOK'
    BY <1>2 DEF CodexIInv, WireTypeOK, storeVars
  <1>4. TurnsLineUp'
    <2>1. /\ WireTypeOK /\ TurnsLineUp /\ turn[c].pc \in InSession /\ turn'[c].pc \in Underway
          /\ turn'[c].sock \in Sockets /\ UNCHANGED <<queue, keys>>
      BY DEF CodexIInv, InSession, Underway
    <2>2. QED
      BY <2>1, InsideLinesUp
  <1>5. SocketsInPlace'
    <2>1. ASSUME NEW d \in Conns PROVE TurnWired(d)'
      <3>1. CASE d = c
        BY <1>2, <3>1 DEF TurnWired
      <3>2. CASE d # c /\ turn[d].pc \in Underway
        <4>1. TurnPlaced(d) /\ TurnWired(d) /\ turn'[d] = turn[d]
          BY <3>2, Agreement
        <4>2. turn[d].obj # o /\ turn[d].sock \in Sockets
          BY <3>2, <4>1 DEF TurnPlaced, Underway, InSession
        <4>3. turn[d].sock # s => upstream'[turn[d].sock] = upstream[turn[d].sock]
          BY <1>2, <4>2
        <4>4. turn[d].pc \in {"dialing", "replacing"} => turn[d].sock # s
          BY <1>1, <4>1, <4>2 DEF TurnWired, NoSocket
        <4>5. QED
          BY <4>1, <4>3, <4>4 DEF TurnWired
      <3>3. CASE d # c /\ turn[d].pc \notin Underway
        BY <3>3 DEF TurnWired, Underway
      <3>4. QED
        BY <3>1, <3>2, <3>3
    <2>2. ASSUME NEW r \in Sockets PROVE SocketWired(r)'
      BY <1>1, <1>2, Agreement, ZeroIsNobody DEF SocketWired
    <2>3. ASSUME NEW p \in Sessions PROVE SessionWired(p)'
      BY <1>1, <1>2, Agreement DEF SessionWired, CodexIInv, WireTypeOK
    <2>4. QED
      BY <2>1, <2>2, <2>3 DEF SocketsInPlace
  <1>6. SessionsHeld'
    <2>1. \A r \in Sockets : upstream'[r].state = "open" =>
             upstream[r].state = "open" /\ upstream'[r].owner = upstream[r].owner
      BY <1>1, <1>2
    <2>2. \A p \in Sessions : queue[p] = << >> =>
             \/ socket'[p] = 0
             \/ /\ socket'[p] = socket[p]
                /\ upstream[socket[p]].state = "closing" => upstream'[socket[p]].state = "closing"
      BY <1>2 DEF CodexIInv, WireTypeOK
    <2>3. /\ \A d \in Conns : keys[d] \subseteq keys'[d]
          /\ \A p \in Sessions : queue'[p] # << >> => queue[p] # << >>
          /\ UNCHANGED <<online, sessions, closer, late>>
      BY DEF storeVars
    <2>4. QED
      BY <2>1, <2>2, <2>3, StoreKept
  <1>7. QED
    BY <1>3, <1>4, <1>5, <1>6 DEF CodexIInv

LEMMA CodexStartInv ==
    ASSUME CodexIInv, NEW c \in Conns, Start(c)
    PROVE  CodexIInv'
  <1> DEFINE o == turn[c].obj
             s == socket[o]
  <1>1. /\ turn[c].pc = "queued" /\ turn[c].pc \in InSession /\ Head(queue[o]) = c
        /\ UNCHANGED <<online, keys, storeVars, queue, socket>>
    BY DEF Start, InSession, clientVars
  <1>2. o \in Sessions /\ s \in TurnSockets
    BY <1>1, Agreement DEF TurnPlaced, CodexIInv, WireTypeOK, TurnSockets
  <1>3. CASE s # 0 /\ UNCHANGED upstream /\ turn' = [turn EXCEPT ![c].pc = "asking", ![c].sock = s]
    <2>1. /\ turn'[c].pc = "asking" /\ turn'[c].sock = s /\ turn'[c].obj = o
          /\ turn'[c].scope = turn[c].scope /\ \A d \in Conns \ {c} : turn'[d] = turn[d]
      BY <1>3 DEF CodexIInv, WireTypeOK, Turns
    <2>2. turn' \in [Conns -> Turns]
      BY <1>2, <1>3, Places, TurnKeepsShape DEF CodexIInv, WireTypeOK
    <2>3. s \in Sockets
      BY <1>2, <1>3 DEF TurnSockets
    <2>4. QED
      BY <1>1, <1>3, <2>1, <2>2, <2>3, OnSocketInv
  <1>4. CASE /\ s # 0 /\ upstream' = [upstream EXCEPT ![s].state = "closing"]
             /\ turn' = [turn EXCEPT ![c].pc = "replacing", ![c].sock = s]
    <2>1. /\ turn'[c].pc = "replacing" /\ turn'[c].sock = s /\ turn'[c].obj = o
          /\ turn'[c].scope = turn[c].scope /\ \A d \in Conns \ {c} : turn'[d] = turn[d]
      BY <1>4 DEF CodexIInv, WireTypeOK, Turns
    <2>2. turn' \in [Conns -> Turns]
      BY <1>2, <1>4, Places, TurnKeepsShape DEF CodexIInv, WireTypeOK
    <2>3. s \in Sockets
      BY <1>2, <1>4 DEF TurnSockets
    <2>4. QED
      BY <1>1, <1>4, <2>1, <2>2, <2>3, OnSocketInv
  <1>5. CASE s = 0 /\ Dial(c, upstream)
    <2>1. PICK n \in Least(UnusedSocket, Sockets) :
             /\ upstream' = [upstream EXCEPT ![n].state = "connecting", ![n].owner = turn[c].obj]
             /\ turn' = [turn EXCEPT ![c].pc = "dialing", ![c].sock = n]
      BY <1>5 DEF Dial
    <2>2. n \in Sockets /\ UnusedSocket(n)
      BY DEF Least
    <2>3. /\ turn'[c].pc = "dialing" /\ turn'[c].sock = n /\ turn'[c].obj = turn[c].obj
          /\ turn'[c].scope = turn[c].scope /\ \A d \in Conns \ {c} : turn'[d] = turn[d]
      BY <2>1 DEF CodexIInv, WireTypeOK, Turns
    <2>4. turn' \in [Conns -> Turns]
      BY <2>1, <2>2, Places, TurnKeepsShape DEF CodexIInv, WireTypeOK
    <2>5. /\ upstream'[n].state = "connecting" /\ upstream'[n].owner = turn[c].obj
          /\ \A r \in Sockets \ {n} : upstream'[r] = upstream[r]
          /\ upstream' \in [Sockets -> [state : {"none", "connecting", "open", "closing"},
                                        owner : Sessions \cup {0}]]
      BY <1>2, <2>1, <2>2 DEF CodexIInv, WireTypeOK
    <2>6. socket' = [socket EXCEPT ![turn[c].obj] = 0] /\ socket[turn[c].obj] = 0
      BY <1>1, <1>2, <1>5 DEF CodexIInv, WireTypeOK
    <2>7. QED
      BY <1>1, <2>2, <2>3, <2>4, <2>5, <2>6, DialInv
  <1>6. QED
    BY <1>3, <1>4, <1>5 DEF Start

LEMMA ReplacedInv ==
    ASSUME CodexIInv, NEW c \in Conns, Replaced(c)
    PROVE  CodexIInv'
  <1> DEFINE o == turn[c].obj
  <1>1. /\ turn[c].pc = "replacing" /\ turn[c].pc \in InSession
        /\ UNCHANGED <<online, keys, storeVars, queue>>
    BY DEF Replaced, InSession, clientVars
  <1>2. o \in Sessions /\ Head(queue[o]) = c /\ socket[o] \in {0, turn[c].sock}
        /\ upstream[turn[c].sock].state # "open"
    BY <1>1, Agreement DEF TurnPlaced, TurnWired, Underway, NoSocket
  <1>3. socket' = [socket EXCEPT ![o] = 0]
    BY <1>2 DEF Replaced, ClearSessionSocket, CodexIInv, WireTypeOK
  <1>4. PICK n \in Least(UnusedSocket, Sockets) :
           /\ upstream' = [upstream EXCEPT ![n].state = "connecting", ![n].owner = turn[c].obj]
           /\ turn' = [turn EXCEPT ![c].pc = "dialing", ![c].sock = n]
    BY DEF Replaced, Dial
  <1>5. n \in Sockets /\ UnusedSocket(n)
    BY DEF Least
  <1>6. /\ turn'[c].pc = "dialing" /\ turn'[c].sock = n /\ turn'[c].obj = turn[c].obj
        /\ turn'[c].scope = turn[c].scope /\ \A d \in Conns \ {c} : turn'[d] = turn[d]
    BY <1>4 DEF CodexIInv, WireTypeOK, Turns
  <1>7. turn' \in [Conns -> Turns]
    BY <1>4, <1>5, Places, TurnKeepsShape DEF CodexIInv, WireTypeOK
  <1>8. /\ upstream'[n].state = "connecting" /\ upstream'[n].owner = turn[c].obj
        /\ \A r \in Sockets \ {n} : upstream'[r] = upstream[r]
        /\ upstream' \in [Sockets -> [state : {"none", "connecting", "open", "closing"},
                                      owner : Sessions \cup {0}]]
    BY <1>2, <1>4, <1>5 DEF CodexIInv, WireTypeOK
  <1>9. socket[o] # 0 => upstream'[socket[o]].state # "open"
    BY <1>2, <1>8 DEF CodexIInv, WireTypeOK
  <1>10. QED
    BY <1>1, <1>2, <1>3, <1>5, <1>6, <1>7, <1>8, <1>9, DialInv

LEMMA DialOpensInv ==
    ASSUME CodexIInv, NEW c \in Conns, DialOpens(c)
    PROVE  CodexIInv'
  <1> DEFINE o == turn[c].obj
             s == turn[c].sock
  <1>1. /\ turn[c].pc = "dialing" /\ turn[c].pc \in InSession /\ turn[c].pc \in Underway
        /\ UNCHANGED <<online, keys, storeVars, queue>>
    BY DEF DialOpens, InSession, Underway, clientVars
  <1>2. /\ o \in Sessions /\ s \in Sockets /\ Head(queue[o]) = c /\ queue[o] # << >>
        /\ socket[o] = 0 /\ upstream[s].state = "connecting" /\ upstream[s].owner = o
    BY <1>1, Agreement DEF TurnPlaced, TurnWired
  <1>3. /\ upstream'[s].state = "open" /\ upstream'[s].owner = o
        /\ \A r \in Sockets \ {s} : upstream'[r] = upstream[r]
        /\ upstream' \in [Sockets -> [state : {"none", "connecting", "open", "closing"},
                                      owner : Sessions \cup {0}]]
    <2>1. upstream' = [upstream EXCEPT ![s].state = "open"]
      BY DEF DialOpens
    <2>2. upstream \in [Sockets -> [state : {"none", "connecting", "open", "closing"},
                                   owner : Sessions \cup {0}]]
      BY DEF CodexIInv, WireTypeOK
    <2>3. QED
      BY <1>2, <2>1, <2>2
  <1>4. /\ socket'[o] = s /\ \A p \in Sessions \ {o} : socket'[p] = socket[p]
        /\ socket' \in [Sessions -> Sockets \cup {0}]
    BY <1>2 DEF DialOpens, CodexIInv, WireTypeOK
  <1>5. /\ turn'[c].pc = "asking" /\ turn'[c].sock = s /\ turn'[c].obj = o
        /\ turn'[c].scope = turn[c].scope /\ \A d \in Conns \ {c} : turn'[d] = turn[d]
    BY DEF DialOpens, CodexIInv, WireTypeOK, Turns
  <1>6. turn' \in [Conns -> Turns]
    <2>1. turn' = [turn EXCEPT ![c].pc = "asking"] /\ "asking" \in TurnPcs
      BY Places DEF DialOpens
    <2>2. turn \in [Conns -> Turns]
      BY DEF CodexIInv, WireTypeOK
    <2>3. QED
      BY <2>1, <2>2 DEF Turns
  <1>7. WireTypeOK'
    BY <1>1, <1>3, <1>4, <1>6 DEF CodexIInv, WireTypeOK, storeVars
  <1>8. TurnsLineUp'
    <2>1. /\ WireTypeOK /\ TurnsLineUp /\ turn'[c].pc \in Underway
          /\ turn'[c].sock \in Sockets /\ UNCHANGED <<queue, keys>>
      BY <1>1, <1>2, <1>5 DEF CodexIInv, Underway
    <2>2. QED
      BY <1>1, <1>2, <1>5, <2>1, InsideLinesUp
  <1> HIDE DEF o, s
  <1>9. SocketsInPlace'
    <2>1. ASSUME NEW d \in Conns PROVE TurnWired(d)'
      <3>1. CASE d = c
        BY <1>4, <1>5, <3>1 DEF TurnWired
      <3>2. CASE d # c /\ turn[d].pc \in Underway
        <4>1. TurnPlaced(d) /\ TurnWired(d) /\ turn'[d] = turn[d]
          BY <1>5, <3>2, Agreement
        <4>2. turn[d].obj \in Sessions \ {o} /\ turn[d].sock \in Sockets
          BY <1>1, <1>2, <3>2, <4>1 DEF TurnPlaced, Underway, InSession, o
        <4>3. turn[d].pc \in {"dialing", "replacing"} => turn[d].sock # s
          BY <1>2, <4>1, <4>2 DEF TurnWired, NoSocket
        <4>4. /\ socket'[turn[d].obj] = socket[turn[d].obj]
              /\ turn[d].sock # s => upstream'[turn[d].sock] = upstream[turn[d].sock]
          BY <1>3, <1>4, <4>2
        <4>5. QED
          BY <4>1, <4>3, <4>4 DEF TurnWired
      <3>3. CASE d # c /\ turn[d].pc \notin Underway
        BY <1>5, <3>3 DEF TurnWired, Underway
      <3>4. QED
        BY <3>1, <3>2, <3>3
    <2>2. ASSUME NEW r \in Sockets PROVE SocketWired(r)'
      <3>1. SocketWired(r) /\ upstream[r].owner \in Sessions \cup {0}
        BY Agreement DEF CodexIInv, WireTypeOK
      <3>2. upstream[r].state = "open" => upstream[r].owner \in Sessions \ {o}
        BY <1>2, <3>1, ZeroIsNobody DEF SocketWired
      <3>3. QED
        BY <1>2, <1>3, <1>4, <3>1, <3>2, ZeroIsNobody DEF SocketWired
    <2>3. ASSUME NEW p \in Sessions PROVE SessionWired(p)'
      <3>1. SessionWired(p) /\ socket[p] \in Sockets \cup {0}
        BY Agreement DEF CodexIInv, WireTypeOK
      <3>2. CASE p = o
        BY <1>3, <1>4, <3>2 DEF SessionWired
      <3>3. CASE p # o
        <4>1. socket'[p] = socket[p] /\ (socket[p] # 0 => socket[p] \in Sockets \ {s})
          BY <1>2, <1>4, <3>1, <3>3 DEF SessionWired
        <4>2. QED
          BY <1>3, <3>1, <4>1 DEF SessionWired
      <3>4. QED
        BY <3>2, <3>3
    <2>4. QED
      BY <2>1, <2>2, <2>3 DEF SocketsInPlace
  <1>10. SessionsHeld'
    <2>1. /\ UNCHANGED <<online, sessions, closer, late>>
          /\ \A d \in Conns : keys[d] \subseteq keys'[d]
          /\ \A p \in Sessions : queue'[p] # << >> => queue[p] # << >>
      BY <1>1 DEF storeVars
    <2>2. \A r \in Sockets : upstream'[r].state = "open" =>
             \/ upstream[r].state = "open" /\ upstream'[r].owner = upstream[r].owner
             \/ upstream'[r].owner \in Sessions /\ queue[upstream'[r].owner] # << >>
      BY <1>2, <1>3
    <2>3. ASSUME NEW p \in Sessions, queue[p] = << >>
          PROVE  /\ socket'[p] = socket[p]
                 /\ upstream[socket[p]].state = "closing" => upstream'[socket[p]].state = "closing"
                        \/ socket[p] = 0
      BY <1>2, <1>3, <1>4, <2>3 DEF CodexIInv, WireTypeOK
    <2>4. \A p \in Sessions : queue[p] = << >> =>
             \/ socket'[p] = 0
             \/ /\ socket'[p] = socket[p]
                /\ upstream[socket[p]].state = "closing" => upstream'[socket[p]].state = "closing"
      BY <2>3
    <2>5. QED
      BY <2>1, <2>2, <2>4, StoreKept
  <1>11. QED
    BY <1>7, <1>8, <1>9, <1>10 DEF CodexIInv

-----------------------------------------------------------------------------
(***************************************************************************)
(* Steps that end a turn or a socket                                       *)
(***************************************************************************)

\* The socket s of the session o goes or begins to close, and o may forget it.
\* It forgets it if the socket is gone, or a turn asks on it.
SocketGives(s, o) ==
    /\ upstream[s].owner = o /\ upstream[s].state \in {"connecting", "open", "closing"}
    /\ upstream' \in {upstream, [upstream EXCEPT ![s].state = "closing"],
                      [upstream EXCEPT ![s] = NoSocket]}
    /\ upstream' = [upstream EXCEPT ![s].state = "closing"] => upstream[s].state # "connecting"
    /\ socket' \in {socket, [socket EXCEPT ![o] = IF @ = s THEN 0 ELSE @]}
    /\ upstream' = [upstream EXCEPT ![s] = NoSocket] => socket'[o] # s
    /\ socket[o] = s /\ socket'[o] # s => upstream'[s].state # "open"

LEMMA SocketGivesFacts ==
    ASSUME CodexIInv, NEW s \in Sockets, NEW o \in Sessions, SocketGives(s, o)
    PROVE  /\ \A r \in Sockets \ {s} : upstream'[r] = upstream[r]
           /\ \/ upstream'[s] = upstream[s]
              \/ upstream'[s].state = "closing" /\ upstream'[s].owner = o
                    /\ upstream[s].state # "connecting"
              \/ upstream'[s] = NoSocket /\ socket'[o] # s
           /\ upstream' \in [Sockets -> [state : {"none", "connecting", "open", "closing"},
                                         owner : Sessions \cup {0}]]
           /\ socket' \in [Sessions -> Sockets \cup {0}]
           /\ \A p \in Sessions \ {o} : socket'[p] = socket[p]
           /\ \/ socket'[o] = socket[o]
              \/ socket'[o] = 0 /\ socket[o] = s /\ upstream'[s].state # "open"
  <1>1. upstream \in [Sockets -> [state : {"none", "connecting", "open", "closing"},
                                  owner : Sessions \cup {0}]]
        /\ socket \in [Sessions -> Sockets \cup {0}]
    BY DEF CodexIInv, WireTypeOK
  <1>2. /\ \A r \in Sockets \ {s} : upstream'[r] = upstream[r]
        /\ \/ upstream'[s] = upstream[s]
           \/ upstream'[s].state = "closing" /\ upstream'[s].owner = o
                 /\ upstream[s].state # "connecting"
           \/ upstream'[s] = NoSocket /\ socket'[o] # s
        /\ upstream' \in [Sockets -> [state : {"none", "connecting", "open", "closing"},
                                      owner : Sessions \cup {0}]]
    <2>1. CASE upstream' = upstream
      BY <1>1, <2>1
    <2>2. CASE upstream' = [upstream EXCEPT ![s].state = "closing"]
      BY <1>1, <2>2 DEF SocketGives
    <2>3. CASE upstream' = [upstream EXCEPT ![s] = NoSocket]
      BY <1>1, <2>3 DEF SocketGives, NoSocket
    <2>4. QED
      BY <2>1, <2>2, <2>3 DEF SocketGives
  <1>3. /\ socket' \in [Sessions -> Sockets \cup {0}]
        /\ \A p \in Sessions \ {o} : socket'[p] = socket[p]
        /\ \/ socket'[o] = socket[o]
           \/ socket'[o] = 0 /\ socket[o] = s /\ upstream'[s].state # "open"
    <2>1. CASE socket' = socket
      BY <1>1, <2>1
    <2>2. CASE socket' = [socket EXCEPT ![o] = IF @ = s THEN 0 ELSE @]
      BY <1>1, <2>2, ZeroIsNobody DEF SocketGives
    <2>3. QED
      BY <2>1, <2>2 DEF SocketGives
  <1>4. QED
    BY <1>2, <1>3

\* The turns under way are those that were, and do not notice.
LEMMA SocketGivesWired ==
    ASSUME CodexIInv, NEW s \in Sockets, NEW o \in Sessions, SocketGives(s, o),
           \A d \in Conns :
               \/ turn'[d].pc \notin Underway
               \/ /\ turn'[d] = turn[d]
                  /\ turn[d].pc = "dialing" /\ turn[d].sock = s => upstream'[s] = upstream[s]
                  /\ turn[d].pc = "asking" /\ turn[d].sock = s => socket'[o] = socket[o]
    PROVE  SocketsInPlace'
  <1>1. /\ \A r \in Sockets \ {s} : upstream'[r] = upstream[r]
        /\ \/ upstream'[s] = upstream[s]
           \/ upstream'[s].state = "closing" /\ upstream'[s].owner = o
                 /\ upstream[s].state # "connecting"
           \/ upstream'[s] = NoSocket /\ socket'[o] # s
        /\ \A p \in Sessions \ {o} : socket'[p] = socket[p]
        /\ \/ socket'[o] = socket[o]
           \/ socket'[o] = 0 /\ socket[o] = s /\ upstream'[s].state # "open"
    BY SocketGivesFacts
  <1>2. /\ upstream[s].owner = o /\ upstream[s].state \in {"connecting", "open", "closing"}
        /\ SocketWired(s) /\ o # 0 /\ s # 0
    BY Agreement, ZeroIsNobody DEF SocketGives
  <1>3. ASSUME NEW d \in Conns PROVE TurnWired(d)'
    <2>1. CASE turn'[d].pc \notin Underway
      BY <2>1 DEF TurnWired, Underway
    <2>2. CASE turn'[d].pc \in Underway
      <3>1. /\ TurnPlaced(d) /\ TurnWired(d) /\ turn'[d] = turn[d]
            /\ turn[d].pc = "dialing" /\ turn[d].sock = s => upstream'[s] = upstream[s]
            /\ turn[d].pc = "asking" /\ turn[d].sock = s => socket'[o] = socket[o]
        BY <2>2, Agreement
      <3>2. turn[d].obj \in Sessions /\ turn[d].sock \in Sockets
        BY <2>2, <3>1 DEF TurnPlaced, Underway, InSession
      <3>3. CASE turn[d].pc = "dialing"
        <4>1. socket[turn[d].obj] = 0 /\ upstream[turn[d].sock].state = "connecting"
              /\ upstream[turn[d].sock].owner = turn[d].obj
          BY <3>1, <3>3 DEF TurnWired
        <4>2. upstream'[turn[d].sock] = upstream[turn[d].sock]
          BY <1>1, <3>1, <3>2, <3>3
        <4>3. socket'[turn[d].obj] = 0
          BY <1>1, <3>2, <4>1
        <4>4. QED
          BY <3>1, <3>3, <4>1, <4>2, <4>3 DEF TurnWired
      <3>4. CASE turn[d].pc = "asking"
        <4>1. socket[turn[d].obj] = turn[d].sock
          BY <3>1, <3>4 DEF TurnWired
        <4>2. socket'[turn[d].obj] = socket[turn[d].obj]
          BY <1>1, <3>1, <3>2, <3>4, <4>1
        <4>3. QED
          BY <3>1, <3>4, <4>1, <4>2 DEF TurnWired
      <3>5. CASE turn[d].pc = "replacing"
        <4>1. /\ socket[turn[d].obj] \in {0, turn[d].sock}
              /\ \/ upstream[turn[d].sock] = NoSocket
                 \/ upstream[turn[d].sock].state = "closing"
                       /\ upstream[turn[d].sock].owner = turn[d].obj
          BY <3>1, <3>5 DEF TurnWired
        <4>2. socket'[turn[d].obj] \in {0, turn[d].sock}
          BY <1>1, <3>2, <4>1
        <4>3. \/ upstream'[turn[d].sock] = NoSocket
              \/ upstream'[turn[d].sock].state = "closing"
                    /\ upstream'[turn[d].sock].owner = turn[d].obj
          <5>1. CASE turn[d].sock # s
            BY <1>1, <3>2, <4>1, <5>1
          <5>2. CASE turn[d].sock = s
            <6>1. upstream[s].state = "closing" /\ turn[d].obj = o
              BY <1>2, <4>1, <5>2 DEF NoSocket
            <6>2. QED
              BY <1>1, <1>2, <5>2, <6>1
          <5>3. QED
            BY <5>1, <5>2
        <4>4. QED
          BY <3>1, <3>5, <4>2, <4>3 DEF TurnWired
      <3>6. QED
        BY <2>2, <3>1, <3>3, <3>4, <3>5 DEF Underway
    <2>3. QED
      BY <2>1, <2>2
  <1>4. ASSUME NEW r \in Sockets PROVE SocketWired(r)'
    <2>1. SocketWired(r) /\ upstream[r].owner \in Sessions \cup {0}
      BY Agreement DEF CodexIInv, WireTypeOK
    <2>2. CASE r # s
      <3>1. upstream'[r] = upstream[r]
        BY <1>1, <2>2
      <3>2. upstream[r].state = "open" => upstream[r].owner \in Sessions
        BY <2>1 DEF SocketWired
      <3>3. upstream[r].state = "open" => socket'[upstream[r].owner] = r
        BY <1>1, <2>1, <2>2, <3>2 DEF SocketWired
      <3>4. QED
        BY <2>1, <3>1, <3>3 DEF SocketWired
    <2>3. CASE r = s
      BY <1>1, <1>2, <2>3 DEF SocketWired, NoSocket
    <2>4. QED
      BY <2>2, <2>3
  <1>5. ASSUME NEW p \in Sessions PROVE SessionWired(p)'
    <2>1. SessionWired(p) /\ socket[p] \in Sockets \cup {0}
      BY Agreement DEF CodexIInv, WireTypeOK
    <2>2. CASE socket'[p] # 0
      <3>1. socket'[p] = socket[p] /\ socket[p] \in Sockets
        BY <1>1, <2>1, <2>2
      <3>2. CASE socket[p] = s
        <4>1. p = o /\ upstream[s].state \in {"open", "closing"} /\ socket'[p] = s
          BY <1>2, <2>1, <2>2, <3>1, <3>2 DEF SessionWired
        <4>2. upstream'[s].owner = o /\ upstream'[s].state \in {"open", "closing"}
          BY <1>1, <1>2, <4>1
        <4>3. QED
          BY <4>1, <4>2 DEF SessionWired
      <3>3. CASE socket[p] # s
        BY <1>1, <2>1, <3>1, <3>3 DEF SessionWired
      <3>4. QED
        BY <3>2, <3>3
    <2>3. QED
      BY <2>2 DEF SessionWired
  <1>6. QED
    BY <1>3, <1>4, <1>5 DEF SocketsInPlace

LEMMA SocketGivesHeld ==
    ASSUME CodexIInv, NEW s \in Sockets, NEW o \in Sessions, SocketGives(s, o),
           UNCHANGED <<online, keys, storeVars>>,
           \A p \in Sessions : queue'[p] # << >> => queue[p] # << >>
    PROVE  SessionsHeld'
  <1>1. /\ \A r \in Sockets \ {s} : upstream'[r] = upstream[r]
        /\ \/ upstream'[s] = upstream[s]
           \/ upstream'[s].state = "closing" /\ upstream'[s].owner = o
                 /\ upstream[s].state # "connecting"
           \/ upstream'[s] = NoSocket /\ socket'[o] # s
        /\ \A p \in Sessions \ {o} : socket'[p] = socket[p]
        /\ \/ socket'[o] = socket[o]
           \/ socket'[o] = 0 /\ socket[o] = s /\ upstream'[s].state # "open"
    BY SocketGivesFacts
  <1>2. \A r \in Sockets : upstream'[r].state = "open" =>
           upstream[r].state = "open" /\ upstream'[r].owner = upstream[r].owner
    BY <1>1 DEF NoSocket
  <1>3. ASSUME NEW p \in Sessions, socket'[p] # 0
        PROVE  /\ socket'[p] = socket[p]
               /\ upstream[socket[p]].state = "closing" => upstream'[socket[p]].state = "closing"
    <2>1. socket'[p] = socket[p] /\ socket[p] \in Sockets
      BY <1>1, <1>3 DEF CodexIInv, WireTypeOK
    <2>2. CASE socket[p] # s
      BY <1>1, <2>1, <2>2
    <2>3. CASE socket[p] = s
      <3>1. p = o
        BY <1>3, <2>1, <2>3, Agreement DEF SessionWired, SocketGives
      <3>2. QED
        BY <1>1, <2>1, <2>3, <3>1
    <2>4. QED
      BY <2>2, <2>3
  <1>4. /\ \A c \in Conns : keys[c] \subseteq keys'[c]
        /\ UNCHANGED <<online, sessions, closer, late>>
    BY DEF storeVars
  <1>5. \A p \in Sessions : queue[p] = << >> =>
           \/ socket'[p] = 0
           \/ /\ socket'[p] = socket[p]
              /\ upstream[socket[p]].state = "closing" => upstream'[socket[p]].state = "closing"
    BY <1>3
  <1>6. QED
    BY <1>2, <1>4, <1>5, StoreKept

\* A turn settles, and the socket of its session may end with it.
LEMMA SettleInv ==
    ASSUME CodexIInv, NEW c \in Conns, turn[c].pc \in Underway,
           NEW next \in {NoTurn, Retried(c)}, Settle(c, next),
           NEW s \in Sockets, SocketGives(s, turn[c].obj),
           UNCHANGED <<online, keys, storeVars>>
    PROVE  CodexIInv'
  <1> DEFINE o == turn[c].obj
  <1>1. /\ TurnsLineUp' /\ o \in Sessions /\ queue[o] # << >>
        /\ turn'[c] = next /\ \A d \in Conns \ {c} : turn'[d] = turn[d]
        /\ \A p \in Sessions \ {o} : queue'[p] = queue[p]
        /\ queue' \in [Sessions -> Seq(Conns)]
    <2>1. WireTypeOK /\ TurnsLineUp /\ keys' = keys
      BY DEF CodexIInv
    <2>2. QED
      BY <2>1, SettleLinesUp
  <1>2. turn[c].scope \in TurnScopes
    BY DEF CodexIInv, WireTypeOK, Turns
  <1>3. next \in Turns /\ next.pc \notin Underway
    <2>1. CASE next = NoTurn
      BY <2>1, Places DEF NoTurn, Turns, Underway
    <2>2. CASE next = Retried(c)
      BY <1>2, <2>2, Places DEF Retried, NoTurn, Turns, Underway
    <2>3. QED
      BY <2>1, <2>2
  <1>4. turn' \in [Conns -> Turns]
    BY <1>3 DEF Settle, CodexIInv, WireTypeOK
  <1>5. /\ upstream' \in [Sockets -> [state : {"none", "connecting", "open", "closing"},
                                      owner : Sessions \cup {0}]]
        /\ socket' \in [Sessions -> Sockets \cup {0}]
    BY <1>1, SocketGivesFacts
  <1>6. WireTypeOK'
    BY <1>1, <1>4, <1>5 DEF CodexIInv, WireTypeOK, storeVars
  <1>7. SocketsInPlace'
    <2>1. ASSUME NEW d \in Conns \ {c}, turn[d].pc \in {"dialing", "asking"}
          PROVE  turn[d].sock # s
      <3>1. turn[d].pc \in Underway /\ TurnPlaced(d) /\ TurnWired(d)
        BY <2>1, Agreement DEF Underway
      <3>2. turn[d].obj # o /\ turn[d].obj \in Sessions /\ turn[d].sock \in Sockets
        BY <1>1, <3>1, UnderwayAlone DEF TurnPlaced, Underway, InSession
      <3>3. SessionWired(turn[d].obj)
        BY <3>2, Agreement
      <3>4. upstream[turn[d].sock].owner = turn[d].obj
        BY <2>1, <3>1, <3>2, <3>3, ZeroIsNobody DEF TurnWired, SessionWired
      <3>5. QED
        BY <3>2, <3>4 DEF SocketGives
    <2>2. turn'[c].pc \notin Underway /\ \A d \in Conns \ {c} : turn'[d] = turn[d]
      BY <1>1, <1>3
    <2>3. \A d \in Conns :
             \/ turn'[d].pc \notin Underway
             \/ /\ turn'[d] = turn[d]
                /\ turn[d].pc = "dialing" /\ turn[d].sock = s => upstream'[s] = upstream[s]
                /\ turn[d].pc = "asking" /\ turn[d].sock = s => socket'[o] = socket[o]
      BY <2>1, <2>2
    <2>4. QED
      BY <1>1, <2>3, SocketGivesWired
  <1>8. SessionsHeld'
    <2>1. \A p \in Sessions : queue'[p] # << >> => queue[p] # << >>
      BY <1>1
    <2>2. QED
      BY <1>1, <2>1, SocketGivesHeld
  <1>9. QED
    BY <1>1, <1>6, <1>7, <1>8 DEF CodexIInv

\* A socket ends, or begins to, while no turn asks on it or without telling anybody.
LEMMA SocketOnlyInv ==
    ASSUME CodexIInv, NEW s \in Sockets, NEW o \in Sessions, SocketGives(s, o),
           upstream[s].state # "connecting", AskingOn(s) = {} \/ socket' = socket,
           UNCHANGED <<online, keys, storeVars, turn, queue>>
    PROVE  CodexIInv'
  <1>1. /\ upstream' \in [Sockets -> [state : {"none", "connecting", "open", "closing"},
                                      owner : Sessions \cup {0}]]
        /\ socket' \in [Sessions -> Sockets \cup {0}]
    BY SocketGivesFacts
  <1>2. WireTypeOK'
    BY <1>1 DEF CodexIInv, WireTypeOK, storeVars
  <1>3. TurnsLineUp'
    BY DEF CodexIInv, TurnsLineUp, TurnPlaced, ChainOrderly
  <1>4. SocketsInPlace'
    <2>1. \A d \in Conns :
             /\ turn'[d] = turn[d]
             /\ turn[d].pc = "dialing" /\ turn[d].sock = s => upstream'[s] = upstream[s]
             /\ turn[d].pc = "asking" /\ turn[d].sock = s => socket'[o] = socket[o]
      BY Agreement DEF TurnWired, AskingOn
    <2>2. QED
      BY <2>1, SocketGivesWired
  <1>5. SessionsHeld'
    BY SocketGivesHeld
  <1>6. QED
    BY <1>2, <1>3, <1>4, <1>5 DEF CodexIInv

LEMMA DialFailsInv ==
    ASSUME CodexIInv, NEW c \in Conns, DialFails(c)
    PROVE  CodexIInv'
  <1> DEFINE o == turn[c].obj
             s == turn[c].sock
  <1>1. /\ turn[c].pc = "dialing" /\ turn[c].pc \in Underway
        /\ UNCHANGED <<online, keys, storeVars>> /\ socket' = socket
        /\ upstream' = [upstream EXCEPT ![s] = NoSocket]
    BY DEF DialFails, Underway, clientVars
  <1>2. /\ o \in Sessions /\ s \in Sockets
        /\ socket[o] = 0 /\ upstream[s].state = "connecting" /\ upstream[s].owner = o
    BY <1>1, Agreement DEF TurnPlaced, TurnWired, Underway, InSession
  <1>3. upstream'[s] = NoSocket /\ upstream' # [upstream EXCEPT ![s].state = "closing"]
    BY <1>1, <1>2 DEF NoSocket, CodexIInv, WireTypeOK
  <1>4. SocketGives(s, o)
    BY <1>1, <1>2, <1>3, ZeroIsNobody DEF SocketGives
  <1>5. PICK next \in {NoTurn, Retried(c)} : Settle(c, next)
    BY DEF DialFails, Fail
  <1>6. QED
    BY <1>1, <1>2, <1>4, <1>5, SettleInv

\* What an asking turn knows.
LEMMA AskingFacts ==
    ASSUME CodexIInv, NEW c \in Conns, turn[c].pc = "asking"
    PROVE  /\ turn[c].pc \in InSession /\ turn[c].pc \in Underway
           /\ turn[c].obj \in Sessions /\ turn[c].sock \in Sockets
           /\ Head(queue[turn[c].obj]) = c
           /\ socket[turn[c].obj] = turn[c].sock /\ upstream[turn[c].sock].owner = turn[c].obj
           /\ upstream[turn[c].sock].state \in {"open", "closing"}
  <1>1. turn[c].pc \in InSession /\ turn[c].pc \in Underway
    BY DEF InSession, Underway
  <1>2. /\ turn[c].obj \in Sessions /\ turn[c].sock \in Sockets
        /\ Head(queue[turn[c].obj]) = c /\ socket[turn[c].obj] = turn[c].sock
    BY <1>1, Agreement DEF TurnPlaced, TurnWired
  <1>3. QED
    BY <1>1, <1>2, Agreement, ZeroIsNobody DEF SessionWired

LEMMA AnswerInv ==
    ASSUME CodexIInv, NEW c \in Conns, Answer(c)
    PROVE  CodexIInv'
  <1> DEFINE o == turn[c].obj
             s == turn[c].sock
  <1>1. /\ turn[c].pc = "asking" /\ upstream[s].state = "open"
        /\ UNCHANGED <<online, keys, storeVars, socket, upstream>>
        /\ Settle(c, NoTurn)
    BY DEF Answer, clientVars
  <1>2. /\ turn[c].pc \in Underway /\ o \in Sessions /\ s \in Sockets
        /\ socket[o] = s /\ upstream[s].owner = o
    BY <1>1, AskingFacts
  <1>3. upstream # [upstream EXCEPT ![s] = NoSocket]
    BY <1>1, <1>2 DEF NoSocket, CodexIInv, WireTypeOK
  <1>4. SocketGives(s, o)
    BY <1>1, <1>2, <1>3 DEF SocketGives
  <1>5. QED
    BY <1>1, <1>2, <1>4, SettleInv

LEMMA ErrorEventInv ==
    ASSUME CodexIInv, NEW c \in Conns, ErrorEvent(c)
    PROVE  CodexIInv'
  <1> DEFINE o == turn[c].obj
             s == turn[c].sock
             up == [upstream EXCEPT ![s].state = "closing"]
  <1>1. /\ turn[c].pc = "asking" /\ upstream[s].state = "open"
        /\ UNCHANGED <<online, keys, storeVars>>
        /\ socket' = [socket EXCEPT ![o] = IF @ = s THEN 0 ELSE @]
    BY DEF ErrorEvent, clientVars, ClearSessionSocket
  <1>2. /\ turn[c].pc \in Underway /\ turn[c].pc \in InSession /\ o \in Sessions /\ s \in Sockets
        /\ Head(queue[o]) = c /\ socket[o] = s /\ upstream[s].owner = o
    BY <1>1, AskingFacts
  <1>3. /\ up \in [Sockets -> [state : {"none", "connecting", "open", "closing"},
                               owner : Sessions \cup {0}]]
        /\ up[s].state = "closing" /\ up[s].owner = o
        /\ \A r \in Sockets \ {s} : up[r] = upstream[r]
    BY <1>2 DEF CodexIInv, WireTypeOK
  <1>4. socket'[o] = 0 /\ socket' = [socket EXCEPT ![o] = 0]
    BY <1>1, <1>2 DEF CodexIInv, WireTypeOK
  <1>5. CASE upstream' = up /\ Fail(c)
    <2>1. up # [upstream EXCEPT ![s] = NoSocket]
      BY <1>2, <1>3 DEF NoSocket, CodexIInv, WireTypeOK
    <2>2. upstream'[s].state = "closing"
      BY <1>3, <1>5
    <2>3. SocketGives(s, o)
      BY <1>1, <1>2, <1>5, <2>1, <2>2 DEF SocketGives
    <2>4. PICK next \in {NoTurn, Retried(c)} : Settle(c, next)
      BY <1>5 DEF Fail
    <2>5. QED
      BY <1>1, <1>2, <2>3, <2>4, SettleInv
  <1>6. CASE /\ \E n \in Least(UnusedSocket, Sockets) :
                  /\ upstream' = [up EXCEPT ![n].state = "connecting", ![n].owner = o]
                  /\ turn' = [turn EXCEPT ![c].pc = "dialing", ![c].sock = n,
                                          ![c].recovering = TRUE]
             /\ UNCHANGED queue
    <2>1. PICK n \in Least(UnusedSocket, Sockets) :
             /\ upstream' = [up EXCEPT ![n].state = "connecting", ![n].owner = o]
             /\ turn' = [turn EXCEPT ![c].pc = "dialing", ![c].sock = n, ![c].recovering = TRUE]
      BY <1>6
    <2>2. n \in Sockets /\ UnusedSocket(n)
      BY DEF Least
    <2>3. n # s
      BY <1>1, <2>2 DEF UnusedSocket
    <2>4. /\ turn'[c].pc = "dialing" /\ turn'[c].sock = n /\ turn'[c].obj = turn[c].obj
          /\ turn'[c].scope = turn[c].scope /\ \A d \in Conns \ {c} : turn'[d] = turn[d]
      BY <2>1 DEF CodexIInv, WireTypeOK, Turns
    <2>5. turn' \in [Conns -> Turns]
      BY <1>2, <2>1, <2>2, Places, TurnKeepsShape DEF CodexIInv, WireTypeOK
    <2> HIDE DEF up
    <2>6. /\ upstream'[n].state = "connecting" /\ upstream'[n].owner = o
          /\ \A r \in Sockets \ {n} : upstream'[r] = up[r]
          /\ upstream' \in [Sockets -> [state : {"none", "connecting", "open", "closing"},
                                        owner : Sessions \cup {0}]]
      BY <1>2, <1>3, <2>1, <2>2
    <2>7. \A r \in Sockets \ {n} :
             \/ upstream'[r] = upstream[r]
             \/ /\ upstream[r].state = "open" /\ upstream[r].owner = o
                /\ upstream'[r].state = "closing" /\ upstream'[r].owner = o
      BY <1>1, <1>2, <1>3, <2>6
    <2>8. upstream'[socket[o]].state # "open"
      BY <1>2, <1>3, <2>3, <2>6
    <2>9. UNCHANGED <<online, keys, storeVars, queue>>
      BY <1>1, <1>6
    <2>10. QED
      BY <1>2, <1>4, <2>2, <2>4, <2>5, <2>6, <2>7, <2>8, <2>9, DialInv
  <1>7. QED
    BY <1>5, <1>6 DEF ErrorEvent

LEMMA UpstreamClosesInv ==
    ASSUME CodexIInv, NEW s \in Sockets, UpstreamCloses(s)
    PROVE  CodexIInv'
  <1> DEFINE o == upstream[s].owner
  <1>1. /\ upstream[s].state = "open" /\ upstream' = [upstream EXCEPT ![s].state = "closing"]
        /\ UNCHANGED <<online, keys, storeVars, queue, socket, turn>>
    BY DEF UpstreamCloses, clientVars
  <1>2. o \in Sessions
    BY <1>1, Agreement DEF SocketWired, CodexIInv, WireTypeOK
  <1>3. upstream'[s].state = "closing" /\ upstream' # [upstream EXCEPT ![s] = NoSocket]
    BY <1>1 DEF NoSocket, CodexIInv, WireTypeOK
  <1>4. SocketGives(s, o)
    BY <1>1, <1>3 DEF SocketGives
  <1>5. QED
    BY <1>1, <1>2, <1>4, SocketOnlyInv

LEMMA SocketLostInv ==
    ASSUME CodexIInv, NEW s \in Sockets, SocketLost(s)
    PROVE  CodexIInv'
  <1> DEFINE o == upstream[s].owner
  <1>1. /\ upstream[s].state \in {"open", "closing"}
        /\ upstream' \in {[upstream EXCEPT ![s].state = "closing"], [upstream EXCEPT ![s] = NoSocket]}
        /\ UNCHANGED <<online, keys, storeVars>>
        /\ socket' = [socket EXCEPT ![o] = IF @ = s THEN 0 ELSE @]
    BY DEF SocketLost, clientVars, ClearSessionSocket
  <1>2. o \in Sessions
    BY <1>1, Agreement DEF SocketWired, CodexIInv, WireTypeOK
  <1>3. socket'[o] # s
    BY <1>1, <1>2, ZeroIsNobody DEF CodexIInv, WireTypeOK
  <1>4. upstream'[s].state # "open"
    <2>1. CASE upstream' = [upstream EXCEPT ![s].state = "closing"]
      BY <2>1 DEF CodexIInv, WireTypeOK
    <2>2. CASE upstream' = [upstream EXCEPT ![s] = NoSocket]
      BY <2>2 DEF CodexIInv, WireTypeOK, NoSocket
    <2>3. QED
      BY <1>1, <2>1, <2>2
  <1>5. SocketGives(s, o)
    BY <1>1, <1>3, <1>4 DEF SocketGives
  <1>6. CASE AskingOn(s) = {}
    <2>1. UNCHANGED <<turn, queue>>
      BY <1>6 DEF SocketLost
    <2>2. QED
      BY <1>1, <1>2, <1>5, <1>6, <2>1, SocketOnlyInv
  <1>7. CASE AskingOn(s) # {}
    <2>1. PICK c \in AskingOn(s) : Fail(c)
      BY <1>7 DEF SocketLost
    <2>2. c \in Conns /\ turn[c].pc = "asking" /\ turn[c].sock = s
      BY DEF AskingOn
    <2>3. turn[c].obj = o /\ turn[c].pc \in Underway
      BY <2>2, AskingFacts
    <2>4. PICK next \in {NoTurn, Retried(c)} : Settle(c, next)
      BY <2>1 DEF Fail
    <2>5. QED
      BY <1>1, <1>5, <2>2, <2>3, <2>4, SettleInv
  <1>8. QED
    BY <1>6, <1>7

-----------------------------------------------------------------------------
(***************************************************************************)
(* Steps that close sessions                                               *)
(***************************************************************************)

LEMMA DisconnectInv ==
    ASSUME CodexIInv, NEW c \in Conns, Disconnect(c)
    PROVE  CodexIInv'
  <1>1. /\ c \in online /\ online' = online \ {c} /\ late' = late \ keys[c]
        /\ UNCHANGED <<keys, queue, socket, upstream, turn>>
    BY DEF Disconnect, wireVars
  <1>2. \A k \in Scopes : /\ k \in keys[c] => sessions'[k] = 0
                          /\ k \notin keys[c] => sessions'[k] = sessions[k]
    BY DEF Disconnect
  <1>3. /\ sessions' \in [Scopes -> Sessions \cup {0}]
        /\ sessions \in [Scopes -> Sessions \cup {0}]
    BY DEF Disconnect, CodexIInv, WireTypeOK
  <1>4. /\ \A d \in Conns \ {c} : closer'[d] = closer[d]
        /\ \A k \in Scopes :
              /\ k \in keys[c] /\ sessions[k] # 0 =>
                    closer'[c][k].pc = "waiting" /\ closer'[c][k].obj = sessions[k]
              /\ ~(k \in keys[c] /\ sessions[k] # 0) => closer'[c][k] = NoCloser
    BY DEF Disconnect, CodexIInv, WireTypeOK
  <1>5. closer' \in [Conns -> [Scopes -> [pc : {"none", "waiting", "closing"},
                                          obj : Sessions \cup {0}]]]
    <2>1. [k \in Scopes |-> IF k \in keys[c] /\ sessions[k] # 0
                            THEN [pc |-> "waiting", obj |-> sessions[k]] ELSE NoCloser]
             \in [Scopes -> [pc : {"none", "waiting", "closing"}, obj : Sessions \cup {0}]]
      BY <1>3 DEF NoCloser
    <2>2. QED
      BY <2>1 DEF Disconnect, CodexIInv, WireTypeOK
  <1>6. WireTypeOK'
    BY <1>1, <1>3, <1>5 DEF CodexIInv, WireTypeOK
  <1>7. TurnsLineUp'
    BY <1>1 DEF CodexIInv, TurnsLineUp, TurnPlaced, ChainOrderly
  <1>8. SocketsInPlace'
    BY <1>1 DEF CodexIInv, SocketsInPlace, TurnWired, SocketWired, SessionWired
  <1>9. ASSUME NEW o \in Sessions, StillHeld(o) PROVE StillHeld(o)'
    <2>1. CASE \E d \in Conns, k \in Scopes : closer[d][k].pc = "waiting" /\ closer[d][k].obj = o
      <3>1. PICK d \in Conns, k \in Scopes : closer[d][k].pc = "waiting" /\ closer[d][k].obj = o
        BY <2>1
      <3>2. d # c
        BY <1>1, <3>1 DEF CodexIInv, SessionsHeld, CloserFits, NoCloser
      <3>3. QED
        BY <1>4, <3>1, <3>2 DEF StillHeld
    <2>2. CASE \E k \in Scopes : sessions[k] = o
      <3>1. PICK k \in Scopes : sessions[k] = o
        BY <2>2
      <3>2. CASE k \in keys[c]
        BY <1>4, <3>1, <3>2, ZeroIsNobody DEF StillHeld
      <3>3. CASE k \notin keys[c]
        BY <1>2, <3>1, <3>3 DEF StillHeld
      <3>4. QED
        BY <3>2, <3>3
    <2>3. QED
      BY <1>9, <2>1, <2>2 DEF StillHeld
  <1>10. SessionsHeld'
    <2>1. ASSUME NEW k \in Scopes, sessions'[k] # 0
          PROVE  k \in late' \/ \E d \in online' : k \in keys'[d]
      <3>1. k \notin keys[c] /\ sessions[k] # 0
        BY <1>2, <2>1
      <3>2. k \in late \/ \E d \in online : k \in keys[d]
        BY <3>1 DEF CodexIInv, SessionsHeld
      <3>3. QED
        BY <1>1, <3>1, <3>2
    <2>2. \A k, l \in Scopes : sessions'[k] # 0 /\ sessions'[k] = sessions'[l] => k = l
      BY <1>2 DEF CodexIInv, SessionsHeld
    <2>3. \A o \in Sessions : queue'[o] # << >> => StillHeld(o)'
      BY <1>1, <1>9 DEF CodexIInv, SessionsHeld
    <2>4. \A s \in Sockets : upstream'[s].state = "open" => StillHeld(upstream[s].owner)'
      <3>1. SUFFICES ASSUME NEW s \in Sockets, upstream[s].state = "open"
                     PROVE  StillHeld(upstream[s].owner)'
        BY <1>1
      <3>2. PICK o \in Sessions : o = upstream[s].owner /\ o = upstream'[s].owner
        BY <1>1, <3>1, Agreement DEF CodexIInv, WireTypeOK, SocketWired
      <3>3. StillHeld(o)'
        BY <1>9, <3>1, <3>2 DEF CodexIInv, SessionsHeld
      <3>4. QED
        BY <3>2, <3>3 DEF StillHeld
    <2>5. ASSUME NEW d \in Conns, NEW k \in Scopes PROVE CloserFits(d, k)'
      <3>1. CASE d # c
        <4>1. CloserFits(d, k) /\ closer'[d][k] = closer[d][k]
          BY <1>4, <3>1 DEF CodexIInv, SessionsHeld
        <4>2. closer[d][k].obj # 0 => \A l \in Scopes : sessions'[l] # closer[d][k].obj
          BY <1>2, <4>1 DEF CloserFits
        <4>3. d \in online' => d \in online
          BY <1>1
        <4>4. QED
          BY <1>1, <4>1, <4>2, <4>3 DEF CloserFits
      <3>2. CASE d = c /\ k \in keys[c] /\ sessions[k] # 0
        <4>1. closer'[c][k].pc = "waiting" /\ closer'[c][k].obj = sessions[k] /\ c \notin online'
          BY <1>1, <1>4, <3>2
        <4>2. ASSUME NEW l \in Scopes PROVE sessions'[l] # sessions[k]
          BY <1>2, <3>2 DEF CodexIInv, SessionsHeld
        <4>3. QED
          BY <3>2, <4>1, <4>2 DEF CloserFits
      <3>3. CASE d = c /\ ~(k \in keys[c] /\ sessions[k] # 0)
        BY <1>4, <3>3 DEF CloserFits, NoCloser
      <3>4. QED
        BY <3>1, <3>2, <3>3
    <2>6. QED
      BY <2>1, <2>2, <2>3, <2>4, <2>5 DEF SessionsHeld
  <1>11. QED
    BY <1>6, <1>7, <1>8, <1>10 DEF CodexIInv

\* The closes other than that of c for k, and what they know, stay.
LEMMA CloseStepInv ==
    ASSUME CodexIInv, NEW c \in Conns, NEW k \in Scopes, NEW o \in Sessions,
           closer[c][k].pc # "none", closer[c][k].obj = o, queue[o] = << >>,
           closer' \in [Conns -> [Scopes -> [pc : {"none", "waiting", "closing"},
                                             obj : Sessions \cup {0}]]],
           \A d \in Conns, l \in Scopes : (d # c \/ l # k) => closer'[d][l] = closer[d][l],
           \/ closer'[c][k].pc = "closing" /\ closer'[c][k].obj = o
           \/ closer'[c][k] = NoCloser,
           socket' \in [Sessions -> Sockets \cup {0}],
           socket'[o] \in {0, socket[o]},
           \A p \in Sessions \ {o} : socket'[p] = socket[p],
           upstream' \in [Sockets -> [state : {"none", "connecting", "open", "closing"},
                                      owner : Sessions \cup {0}]],
           \A r \in Sockets :
               \/ upstream'[r] = upstream[r]
               \/ r = socket[o] /\ upstream'[r].state = "closing" /\ upstream'[r].owner = o,
           socket[o] # 0 => upstream'[socket[o]].state = "closing",
           UNCHANGED <<online, keys, sessions, late, queue, turn>>
    PROVE  CodexIInv'
  <1>1. socket[o] \in Sockets \cup {0} /\ SessionWired(o)
    BY Agreement DEF CodexIInv, WireTypeOK
  <1>2. /\ \A d \in Conns, l \in Scopes : (d # c \/ l # k) => closer'[d][l] = closer[d][l]
        /\ \/ closer'[c][k].pc = "closing" /\ closer'[c][k].obj = o
           \/ closer'[c][k] = NoCloser
    OBVIOUS
  <1>3. /\ \A p \in Sessions \ {o} : socket'[p] = socket[p]
        /\ socket'[o] \in {0, socket[o]}
    OBVIOUS
  <1>4. /\ \A r \in Sockets : upstream[r].owner # o => upstream'[r] = upstream[r]
        /\ \A r \in Sockets : upstream'[r].owner = upstream[r].owner
        /\ \A r \in Sockets :
              \/ upstream'[r] = upstream[r]
              \/ upstream'[r].state = "closing" /\ upstream[r].owner = o
        /\ socket[o] # 0 => upstream'[socket[o]].state = "closing"
    <2>1. ASSUME NEW r \in Sockets, r = socket[o] PROVE upstream[r].owner = o
      BY <1>1, <2>1, ZeroIsNobody DEF SessionWired
    <2>2. QED
      BY <2>1
  <1>5. ASSUME NEW r \in Sockets, upstream'[r].state = "open"
        PROVE  upstream[r] = upstream'[r] /\ upstream[r].owner \in Sessions \ {o}
    <2>1. upstream'[r] = upstream[r] /\ SocketWired(r) /\ upstream[r].owner \in Sessions
      BY <1>4, <1>5, Agreement DEF SocketWired, CodexIInv, WireTypeOK
    <2>2. CASE upstream[r].owner = o
      <3>1. socket[o] = r
        BY <1>5, <2>1, <2>2 DEF SocketWired
      <3>2. QED
        BY <1>4, <1>5, <3>1, ZeroIsNobody
    <2>3. QED
      BY <2>1, <2>2
  <1>6. WireTypeOK'
    BY DEF CodexIInv, WireTypeOK
  <1>7. TurnsLineUp'
    BY LinesKept DEF CodexIInv
  <1>8. SocketsInPlace'
    <2>1. ASSUME NEW d \in Conns PROVE TurnWired(d)'
      <3>1. CASE turn[d].pc \in Underway
        <4>1. TurnPlaced(d) /\ TurnWired(d) /\ turn[d].pc \in InSession
          BY <3>1, Agreement DEF Underway, InSession
        <4>2. turn[d].obj \in Sessions \ {o} /\ turn[d].sock \in Sockets
          BY <3>1, <4>1, Agreement DEF TurnPlaced
        <4>3. socket'[turn[d].obj] = socket[turn[d].obj]
          BY <1>3, <4>2
        <4>4. \/ upstream'[turn[d].sock] = upstream[turn[d].sock]
              \/ upstream[turn[d].sock].owner = o
          BY <1>4, <4>2
        <4>5. turn[d].pc \in {"dialing", "replacing"} =>
                 upstream'[turn[d].sock] = upstream[turn[d].sock]
          BY <4>1, <4>2, <4>4, ZeroIsNobody DEF TurnWired, NoSocket
        <4>6. QED
          BY <4>1, <4>3, <4>5 DEF TurnWired
      <3>2. CASE turn[d].pc \notin Underway
        BY <3>2 DEF TurnWired, Underway
      <3>3. QED
        BY <3>1, <3>2
    <2>2. ASSUME NEW r \in Sockets PROVE SocketWired(r)'
      <3>1. SocketWired(r)
        BY Agreement
      <3>2. upstream'[r].state = "none" <=> upstream'[r].owner = 0
        BY <1>4, <3>1, ZeroIsNobody DEF SocketWired
      <3>3. upstream'[r].state = "open" => socket'[upstream'[r].owner] = r
        BY <1>3, <1>5, <3>1 DEF SocketWired
      <3>4. QED
        BY <3>2, <3>3 DEF SocketWired
    <2>3. ASSUME NEW p \in Sessions PROVE SessionWired(p)'
      <3>1. SessionWired(p) /\ socket[p] \in Sockets \cup {0}
        BY Agreement DEF CodexIInv, WireTypeOK
      <3>2. socket'[p] # 0 => socket'[p] = socket[p] /\ socket[p] \in Sockets
        BY <1>3, <3>1
      <3>3. QED
        BY <1>4, <3>1, <3>2 DEF SessionWired
    <2>4. QED
      BY <2>1, <2>2, <2>3 DEF SocketsInPlace
  <1>9. ASSUME NEW p \in Sessions \ {o}, StillHeld(p) PROVE StillHeld(p)'
    <2>1. CASE \E d \in Conns, l \in Scopes : closer[d][l].pc = "waiting" /\ closer[d][l].obj = p
      <3>1. PICK d \in Conns, l \in Scopes : closer[d][l].pc = "waiting" /\ closer[d][l].obj = p
        BY <2>1
      <3>2. closer'[d][l] = closer[d][l]
        BY <1>2, <3>1
      <3>3. QED
        BY <3>1, <3>2 DEF StillHeld
    <2>2. CASE \E l \in Scopes : sessions[l] = p
      BY <2>2 DEF StillHeld
    <2>3. QED
      BY <1>9, <2>1, <2>2 DEF StillHeld
  <1>10. SessionsHeld'
    <2>1. /\ \A l \in Scopes : sessions'[l] # 0 => l \in late' \/ \E d \in online' : l \in keys'[d]
          /\ \A l, m \in Scopes : sessions'[l] # 0 /\ sessions'[l] = sessions'[m] => l = m
      BY DEF CodexIInv, SessionsHeld
    <2>2. \A p \in Sessions : queue'[p] # << >> => StillHeld(p)'
      BY <1>9 DEF CodexIInv, SessionsHeld
    <2>3. ASSUME NEW s \in Sockets, upstream'[s].state = "open" PROVE StillHeld(upstream[s].owner)'
      <3>1. PICK p \in Sessions \ {o} : p = upstream[s].owner /\ p = upstream'[s].owner
        BY <1>5, <2>3
      <3>2. StillHeld(p)'
        BY <1>5, <1>9, <2>3, <3>1 DEF CodexIInv, SessionsHeld
      <3>3. QED
        BY <3>1, <3>2 DEF StillHeld
    <2>4. ASSUME NEW d \in Conns, NEW l \in Scopes PROVE CloserFits(d, l)'
      <3>1. CloserFits(d, l) /\ CloserFits(c, k) /\ closer[d][l].obj \in Sessions \cup {0}
        BY DEF CodexIInv, SessionsHeld, WireTypeOK
      <3>2. CASE d = c /\ l = k /\ closer'[c][k] = NoCloser
        BY <3>2 DEF CloserFits, NoCloser
      <3>3. CASE d = c /\ l = k /\ closer'[c][k].pc = "closing" /\ closer'[c][k].obj = o
        <4>1. c \notin online /\ \A m \in Scopes : sessions[m] # o
          BY <3>1, ZeroIsNobody DEF CloserFits, NoCloser
        <4>2. socket'[o] # 0 => upstream'[socket'[o]].state = "closing"
          BY <1>3, <1>4
        <4>3. QED
          BY <3>3, <4>1, <4>2, ZeroIsNobody DEF CloserFits
      <3>4. CASE d # c \/ l # k
        <4>1. closer'[d][l] = closer[d][l]
          BY <1>2, <3>4
        <4>2. CASE closer[d][l].pc = "closing"
          <5>1. closer[d][l].obj \in Sessions
            BY <3>1, <4>2 DEF CloserFits
          <5>2. socket'[closer[d][l].obj] \in {0, socket[closer[d][l].obj]}
                /\ socket[closer[d][l].obj] \in Sockets \cup {0}
            BY <1>3, <5>1 DEF CodexIInv, WireTypeOK
          <5>3. socket'[closer[d][l].obj] # 0 =>
                   upstream'[socket'[closer[d][l].obj]].state = "closing"
            BY <1>4, <3>1, <4>2, <5>2 DEF CloserFits
          <5>4. QED
            BY <3>1, <4>1, <4>2, <5>3 DEF CloserFits
        <4>3. CASE closer[d][l].pc # "closing"
          BY <3>1, <4>1, <4>3 DEF CloserFits
        <4>4. QED
          BY <4>2, <4>3
      <3>5. QED
        BY <1>2, <3>2, <3>3, <3>4
    <2>5. QED
      BY <2>1, <2>2, <2>3, <2>4 DEF SessionsHeld
  <1>11. QED
    BY <1>6, <1>7, <1>8, <1>10 DEF CodexIInv

LEMMA CloseProceedsInv ==
    ASSUME CodexIInv, NEW c \in Conns, NEW k \in Scopes, CloseProceeds(c, k)
    PROVE  CodexIInv'
  <1> DEFINE o == closer[c][k].obj
  <1>1. /\ closer[c][k].pc = "waiting" /\ queue[o] = << >>
        /\ closer' = [closer EXCEPT ![c][k].pc = "closing"]
        /\ upstream' = IF socket[o] = 0 THEN upstream
                       ELSE [upstream EXCEPT ![socket[o]].state = "closing"]
        /\ UNCHANGED <<online, keys, sessions, late, queue, socket, turn>>
    BY DEF CloseProceeds, TurnsSettled, clientVars
  <1>2. o \in Sessions
    BY <1>1 DEF CodexIInv, WireTypeOK, SessionsHeld, CloserFits
  <1>3. /\ closer \in [Conns -> [Scopes -> [pc : {"none", "waiting", "closing"},
                                           obj : Sessions \cup {0}]]]
        /\ upstream \in [Sockets -> [state : {"none", "connecting", "open", "closing"},
                                     owner : Sessions \cup {0}]]
        /\ socket \in [Sessions -> Sockets \cup {0}] /\ SessionWired(o)
    BY <1>2, Agreement DEF CodexIInv, WireTypeOK
  <1>4. /\ closer' \in [Conns -> [Scopes -> [pc : {"none", "waiting", "closing"},
                                            obj : Sessions \cup {0}]]]
        /\ \A d \in Conns, l \in Scopes : (d # c \/ l # k) => closer'[d][l] = closer[d][l]
        /\ closer'[c][k].pc = "closing" /\ closer'[c][k].obj = o
    BY <1>1, <1>3
  <1> HIDE DEF o
  <1>5. /\ upstream' \in [Sockets -> [state : {"none", "connecting", "open", "closing"},
                                      owner : Sessions \cup {0}]]
        /\ \A r \in Sockets :
              \/ upstream'[r] = upstream[r]
              \/ r = socket[o] /\ upstream'[r].state = "closing" /\ upstream'[r].owner = o
        /\ socket[o] # 0 => upstream'[socket[o]].state = "closing"
    <2>1. CASE socket[o] = 0
      BY <1>1, <1>3, <2>1
    <2>2. CASE socket[o] # 0
      <3>1. upstream' = [upstream EXCEPT ![socket[o]].state = "closing"] /\ socket[o] \in Sockets
            /\ upstream[socket[o]].owner = o
        BY <1>1, <1>2, <1>3, <2>2 DEF SessionWired
      <3>2. QED
        BY <1>3, <3>1
    <2>3. QED
      BY <2>1, <2>2
  <1>6. socket' \in [Sessions -> Sockets \cup {0}] /\ socket'[o] \in {0, socket[o]}
        /\ \A p \in Sessions \ {o} : socket'[p] = socket[p]
    BY <1>1, <1>3
  <1>7. closer[c][k].pc # "none" /\ closer[c][k].obj = o /\ queue[o] = << >>
        /\ UNCHANGED <<online, keys, sessions, late, queue, turn>>
    BY <1>1 DEF o
  <1>8. QED
    BY <1>2, <1>4, <1>5, <1>6, <1>7, CloseStepInv

LEMMA CloseEndsInv ==
    ASSUME CodexIInv, NEW c \in Conns, NEW k \in Scopes, CloseEnds(c, k)
    PROVE  CodexIInv'
  <1> DEFINE o == closer[c][k].obj
  <1>1. /\ closer[c][k].pc = "closing"
        /\ closer' = [closer EXCEPT ![c][k] = NoCloser]
        /\ socket' = [socket EXCEPT ![o] = 0]
        /\ UNCHANGED <<online, keys, sessions, late, queue, upstream, turn>>
    BY DEF CloseEnds, clientVars
  <1>2. o \in Sessions /\ queue[o] = << >>
        /\ (socket[o] # 0 => upstream[socket[o]].state = "closing")
    BY <1>1 DEF CodexIInv, WireTypeOK, SessionsHeld, CloserFits
  <1>3. /\ closer' \in [Conns -> [Scopes -> [pc : {"none", "waiting", "closing"},
                                            obj : Sessions \cup {0}]]]
        /\ \A d \in Conns, l \in Scopes : (d # c \/ l # k) => closer'[d][l] = closer[d][l]
        /\ closer'[c][k] = NoCloser
    BY <1>1 DEF NoCloser, CodexIInv, WireTypeOK
  <1> HIDE DEF o
  <1>4. /\ socket' \in [Sessions -> Sockets \cup {0}] /\ socket'[o] \in {0, socket[o]}
        /\ \A p \in Sessions \ {o} : socket'[p] = socket[p]
    BY <1>1, <1>2 DEF CodexIInv, WireTypeOK
  <1>5. /\ upstream' \in [Sockets -> [state : {"none", "connecting", "open", "closing"},
                                      owner : Sessions \cup {0}]]
        /\ \A r \in Sockets : upstream'[r] = upstream[r]
        /\ socket[o] # 0 => upstream'[socket[o]].state = "closing"
        /\ UNCHANGED <<online, keys, sessions, late, queue, turn>>
    BY <1>1, <1>2 DEF CodexIInv, WireTypeOK
  <1>6. closer[c][k].pc # "none" /\ closer[c][k].obj = o
    BY <1>1 DEF o
  <1>7. QED
    BY <1>2, <1>3, <1>4, <1>5, <1>6, CloseStepInv

-----------------------------------------------------------------------------
(***************************************************************************)
(* The theorem                                                             *)
(***************************************************************************)

LEMMA NextInv == CodexIInv /\ [CodexNext]_codexVars => CodexIInv'
  <1> SUFFICES ASSUME CodexIInv, [CodexNext]_codexVars PROVE CodexIInv'
    OBVIOUS
  <1>1. CASE UNCHANGED codexVars
    BY <1>1, QuietInv DEF codexVars, clientVars
  <1>2. CASE Evict
    BY <1>2, QuietInv DEF Evict, clientVars
  <1>3. ASSUME NEW s \in Sockets, UpstreamCloses(s) \/ SocketLost(s) PROVE CodexIInv'
    BY <1>3, UpstreamClosesInv, SocketLostInv
  <1>4. ASSUME NEW c \in Conns, Message(c) PROVE CodexIInv'
    BY <1>4, QuietInv DEF Message
  <1>5. ASSUME NEW c \in Conns,
               \/ HandledElsewhere(c) \/ Disconnect(c) \/ SendRequest(c) \/ Start(c)
               \/ Replaced(c) \/ DialOpens(c) \/ DialFails(c) \/ Answer(c) \/ ErrorEvent(c)
        PROVE  CodexIInv'
    BY <1>5, HandledElsewhereInv, DisconnectInv, SendRequestInv, CodexStartInv, ReplacedInv,
       DialOpensInv, DialFailsInv, AnswerInv, ErrorEventInv
  <1>6. ASSUME NEW c \in Conns, NEW k \in Scopes,
               HandleNext(c, k) \/ CloseProceeds(c, k) \/ CloseEnds(c, k)
        PROVE  CodexIInv'
    BY <1>6, HandleNextInv, CloseProceedsInv, CloseEndsInv
  <1>7. QED
    BY <1>1, <1>2, <1>3, <1>4, <1>5, <1>6 DEF CodexNext

LEMMA OwnersOfOpenSockets == CodexIInv => SocketsHaveOwners
  <1> SUFFICES ASSUME CodexIInv, NEW s \in Sockets, upstream[s].state = "open"
               PROVE  LET o == upstream[s].owner IN
                      /\ socket[o] = s
                      /\ \/ \E c \in Conns, k \in Scopes :
                               closer[c][k] = [pc |-> "waiting", obj |-> o]
                         \/ \E k \in Scopes :
                               /\ sessions[k] = o
                               /\ k \in late \/ \E c \in online : k \in keys[c]
    BY DEF SocketsHaveOwners
  <1> DEFINE o == upstream[s].owner
  <1>1. socket[o] = s /\ o # 0
    BY Agreement DEF SocketWired
  <1>2. CASE \E c \in Conns, k \in Scopes : closer[c][k].pc = "waiting" /\ closer[c][k].obj = o
    <2>1. PICK c \in Conns, k \in Scopes : closer[c][k].pc = "waiting" /\ closer[c][k].obj = o
      BY <1>2
    <2>2. closer[c][k] = [pc |-> "waiting", obj |-> o]
      BY <2>1 DEF CodexIInv, WireTypeOK
    <2>3. QED
      BY <1>1, <2>2
  <1>3. CASE \E k \in Scopes : sessions[k] = o
    BY <1>1, <1>3 DEF CodexIInv, SessionsHeld
  <1>4. QED
    BY <1>2, <1>3 DEF CodexIInv, SessionsHeld, StillHeld

\* Whatever connections, turns, errors and closes come between, an open upstream
\* socket is the socket of its session, and somebody will close it: a close that
\* waits for the turns of the session, or a client still connected that used the
\* session's scope - unless a client that had gone asked for it.
THEOREM SocketsKeepOwners == CodexSpec => []SocketsHaveOwners
  <1>1. CodexSpec => []CodexIInv
    BY CodexInitInv, NextInv, PTL DEF CodexSpec
  <1>2. QED
    BY <1>1, OwnersOfOpenSockets, PTL

-----------------------------------------------------------------------------
(***************************************************************************)
(* The response ids                                                        *)
(***************************************************************************)

IsUnderway(c) == turn[c].pc \in Underway

\* As long as turns do not overlap, the store has the last answer's id under the bare
\* key, and under its scope until that entry is evicted, which is the older one. A
\* turn that is under way has removed what other scopes had.
StoreFollows ==
    /\ \A c, d \in Conns : IsUnderway(c) /\ IsUnderway(d) => c = d
    /\ \A k \in Stored : responseIds[k] = "last"
    /\ lastScope = 0 => Stored = {}
    /\ lastScope # 0 => /\ Bare \in Stored /\ Stored \subseteq {lastScope, Bare}
                        /\ lastScope \in Stored => <<lastScope, Bare>> \in idOrder
    /\ \A c \in Conns : IsUnderway(c) => Stored \subseteq {turn[c].scope, Bare}

IdsInv ==
    /\ responseIds \in [StoreKeys -> {"none", "last", "older"}]
    /\ lastScope \in Scopes \cup {0}
    /\ muddled \in BOOLEAN
    /\ ~muddled => StoreFollows

\* No turn gets under way in this step, and those that are keep their scopes.
NoneStarts ==
    \A c \in Conns : turn'[c].pc \in Underway => IsUnderway(c) /\ turn'[c].scope = turn[c].scope

LEMMA IdsQuiet ==
    ASSUME IdsInv, UNCHANGED idVars, NoneStarts
    PROVE  IdsInv'
  BY DEF IdsInv, StoreFollows, NoneStarts, IsUnderway, idVars, mapVars, Stored

LEMMA IdsDeleted ==
    ASSUME IdsInv, NEW gone, Delete(gone)
    PROVE  /\ responseIds' \in [StoreKeys -> {"none", "last", "older"}]
           /\ Stored' = Stored \ gone
           /\ \A k \in Stored' : responseIds'[k] = responseIds[k]
           /\ \A j, k \in StoreKeys \ gone : <<j, k>> \in idOrder => <<j, k>> \in idOrder'
  BY DEF IdsInv, Delete, Stored

\* A turn moves on, or ends.
LEMMA TurnMoves ==
    ASSUME CodexIInv, NEW c \in Conns, NEW next,
           turn' = [turn EXCEPT ![c] = next],
           next.pc \in Underway => IsUnderway(c) /\ next.scope = turn[c].scope
    PROVE  NoneStarts
  BY DEF NoneStarts, IsUnderway, CodexIInv, WireTypeOK

LEMMA FailEnds ==
    ASSUME CodexIInv, NEW c \in Conns, Fail(c)
    PROVE  NoneStarts
  <1>1. NoTurn.pc \notin Underway /\ Retried(c).pc \notin Underway
    BY DEF Retried, NoTurn, Underway
  <1>2. \/ turn' = [turn EXCEPT ![c] = NoTurn]
        \/ turn' = [turn EXCEPT ![c] = Retried(c)]
    BY DEF Fail, Settle
  <1>. QED  BY <1>1, <1>2, TurnMoves

LEMMA ScopeOfTurn ==
    ASSUME CodexIInv, NEW c \in Conns, turn[c].pc \in InSession
    PROVE  turn[c].scope \in Scopes
  BY DEF CodexIInv, TurnsLineUp, TurnPlaced, InSession

LEMMA StartIds ==
    ASSUME CodexIInv, IdsInv, NEW c \in Conns, Start(c)
    PROVE  IdsInv'
  <1>. DEFINE K == turn[c].scope
  <1>1. K \in Scopes /\ turn[c].pc = "queued" /\ Bare \notin Scopes /\ 0 \notin Scopes
    BY ScopeOfTurn, CodexAssumption DEF Start, InSession
  <1>2. /\ lastScope' = lastScope /\ muddled' = (muddled \/ Overlaps(c)) /\ Get(K)
    BY DEF Start
  <1>3. \E pc, s : turn' = [turn EXCEPT ![c].pc = pc, ![c].sock = s]
    BY DEF Start, Dial
  <1>4. turn'[c].scope = K /\ \A d \in Conns \ {c} : turn'[d] = turn[d]
    <2>1. turn \in [Conns -> Turns] /\ turn[c] \in Turns
      BY DEF CodexIInv, WireTypeOK
    <2>. QED  BY <1>3, <2>1 DEF Turns
  <1>. HIDE DEF K
  <1>5. /\ responseIds' \in [StoreKeys -> {"none", "last", "older"}]
        /\ lastScope' \in Scopes \cup {0} /\ muddled' \in BOOLEAN
    BY <1>2, IdsDeleted DEF IdsInv, Get, mapVars
  <1>6. ASSUME ~muddled'
        PROVE  StoreFollows'
    <2>1. ~muddled /\ StoreFollows /\ \A d \in Conns \ {c} : ~IsUnderway(d)
      BY <1>2, <1>6 DEF IdsInv, Overlaps, IsUnderway
    <2>2. \A d \in Conns : turn'[d].pc \in Underway => d = c
      BY <1>4, <2>1 DEF IsUnderway
    <2>3. \/ UNCHANGED mapVars /\ (K \in Stored \/ Stored = {})
          \/ Delete(Scopes) /\ Bare \in Stored
      BY <1>2, <2>1 DEF Get, StoreFollows
    <2>4. CASE UNCHANGED mapVars /\ (K \in Stored \/ Stored = {})
      <3>1. Stored' = Stored /\ responseIds' = responseIds /\ idOrder' = idOrder
        BY <2>4 DEF mapVars, Stored
      <3>2. Stored \subseteq {K, Bare}
        BY <1>1, <2>1, <2>4 DEF StoreFollows
      <3>. QED  BY <1>2, <1>4, <2>1, <2>2, <3>1, <3>2 DEF StoreFollows, IsUnderway
    <2>5. CASE Delete(Scopes) /\ Bare \in Stored
      <3>1. Stored' = Stored \ Scopes /\ \A k \in Stored' : responseIds'[k] = responseIds[k]
        BY <2>5, IdsDeleted
      <3>2. Stored' = {Bare}
        BY <1>1, <2>5, <3>1 DEF Stored, StoreKeys
      <3>3. lastScope # 0 /\ lastScope \notin Stored'
        BY <1>1, <2>1, <2>5, <3>2 DEF StoreFollows, IdsInv
      <3>. QED  BY <1>2, <1>4, <2>1, <2>2, <3>1, <3>2, <3>3 DEF StoreFollows, IsUnderway
    <2>. QED  BY <2>3, <2>4, <2>5
  <1>. QED  BY <1>5, <1>6 DEF IdsInv

LEMMA AnswerIds ==
    ASSUME CodexIInv, IdsInv, NEW c \in Conns, Answer(c)
    PROVE  IdsInv'
  <1>. DEFINE K == turn[c].scope
  <1>1. K \in Scopes /\ IsUnderway(c) /\ Bare \notin Scopes /\ 0 \notin Scopes
    BY ScopeOfTurn, CodexAssumption DEF Answer, InSession, IsUnderway, Underway
  <1>2. NoneStarts /\ turn'[c].pc \notin Underway
    <2>1. turn' = [turn EXCEPT ![c] = NoTurn]
      BY DEF Answer, Settle
    <2>. QED  BY <2>1, TurnMoves DEF NoTurn, Underway, CodexIInv, WireTypeOK
  <1>3. muddled' = muddled /\ (SetResponseId(K) \/ UNCHANGED <<mapVars, lastScope>>)
    BY DEF Answer
  <1>. HIDE DEF K
  <1>4. CASE UNCHANGED <<mapVars, lastScope>>
    BY <1>2, <1>3, <1>4, IdsQuiet DEF idVars
  <1>5. CASE SetResponseId(K)
    <2>1. /\ responseIds' \in [StoreKeys -> {"none", "last", "older"}]
          /\ lastScope' = K /\ Stored' = Stored \cup {K, Bare}
          /\ responseIds'[K] = "last" /\ responseIds'[Bare] = "last"
          /\ <<K, Bare>> \in idOrder'
      BY <1>1, <1>5 DEF SetResponseId, Stored, StoreKeys
    <2>2. ASSUME ~muddled
          PROVE  StoreFollows'
      <3>1. StoreFollows
        BY <2>2 DEF IdsInv
      <3>2. Stored' = {K, Bare}
        <4>1. Stored \subseteq {K, Bare}
          BY <1>1, <3>1 DEF StoreFollows, K
        <4>. QED  BY <2>1, <4>1
      <3>3. \A d \in Conns : turn'[d].pc \notin Underway
        BY <1>1, <1>2, <3>1 DEF NoneStarts, StoreFollows
      <3>. QED  BY <1>1, <2>1, <3>2, <3>3 DEF StoreFollows, IsUnderway
    <2>. QED  BY <1>1, <1>3, <2>1, <2>2 DEF IdsInv
  <1>. QED  BY <1>3, <1>4, <1>5

LEMMA ErrorEventIds ==
    ASSUME CodexIInv, IdsInv, NEW c \in Conns, ErrorEvent(c)
    PROVE  IdsInv'
  <1>. DEFINE K == turn[c].scope
  <1>1. K \in Scopes /\ IsUnderway(c) /\ Bare \notin Scopes /\ muddled' = muddled
    BY ScopeOfTurn, CodexAssumption DEF ErrorEvent, InSession, IsUnderway, Underway
  <1>2. CASE Fail(c) /\ UNCHANGED <<mapVars, lastScope>>
    BY <1>1, <1>2, FailEnds, IdsQuiet DEF idVars
  <1>3. ASSUME ClearResponseId(K), NEW s,
               turn' = [turn EXCEPT ![c].pc = "dialing", ![c].sock = s, ![c].recovering = TRUE]
        PROVE  IdsInv'
    <2>1. NoneStarts
      BY <1>1, <1>3 DEF NoneStarts, IsUnderway, CodexIInv, WireTypeOK, Turns
    <2>2. /\ responseIds' \in [StoreKeys -> {"none", "last", "older"}]
          /\ Stored' = Stored \ {K, Bare} /\ lastScope' = 0
      BY <1>3, IdsDeleted DEF ClearResponseId
    <2>3. ASSUME ~muddled
          PROVE  StoreFollows'
      <3>1. StoreFollows
        BY <2>3 DEF IdsInv
      <3>2. Stored' = {}
        BY <1>1, <2>2, <3>1 DEF StoreFollows
      <3>. QED  BY <2>1, <2>2, <3>1, <3>2 DEF StoreFollows, NoneStarts, IsUnderway
    <2>. QED  BY <1>1, <2>2, <2>3 DEF IdsInv
  <1>. QED  BY <1>2, <1>3 DEF ErrorEvent

LEMMA CloseEndsIds ==
    ASSUME CodexIInv, IdsInv, NEW c \in Conns, NEW k \in Scopes, CloseEnds(c, k)
    PROVE  IdsInv'
  <1>1. /\ turn' = turn /\ ClearResponseId(k) /\ muddled' = (muddled \/ lastScope \notin {0, k})
    BY DEF CloseEnds
  <1>2. /\ responseIds' \in [StoreKeys -> {"none", "last", "older"}]
        /\ Stored' = Stored \ {k, Bare} /\ lastScope' = 0
    BY <1>1, IdsDeleted DEF ClearResponseId
  <1>3. ASSUME ~muddled'
        PROVE  StoreFollows'
    <2>1. StoreFollows /\ lastScope \in {0, k}
      BY <1>1, <1>3 DEF IdsInv
    <2>2. Stored' = {}
      BY <1>2, <2>1 DEF StoreFollows
    <2>. QED  BY <1>1, <1>2, <2>1, <2>2 DEF StoreFollows, IsUnderway
  <1>. QED  BY <1>1, <1>2, <1>3 DEF IdsInv

LEMMA EvictIds ==
    ASSUME IdsInv, Evict
    PROVE  IdsInv'
  <1>1. PICK k \in Stored :
            /\ \A j \in Stored : <<j, k>> \notin idOrder
            /\ Delete({k})
            /\ lastScope' = IF k = Bare THEN 0 ELSE lastScope
    BY DEF Evict
  <1>2. /\ responseIds' \in [StoreKeys -> {"none", "last", "older"}]
        /\ Stored' = Stored \ {k} /\ \A j \in Stored' : responseIds'[j] = responseIds[j]
    BY <1>1, IdsDeleted
  <1>3. turn' = turn /\ muddled' = muddled /\ Bare \notin Scopes /\ 0 \notin Scopes
    BY CodexAssumption DEF Evict
  <1>4. ASSUME ~muddled
        PROVE  StoreFollows'
    <2>1. StoreFollows /\ lastScope # 0
      BY <1>1, <1>4 DEF IdsInv, StoreFollows
    <2>2. CASE k = Bare
      <3>1. lastScope \notin Stored
        BY <1>1, <2>1, <2>2 DEF StoreFollows
      <3>2. Stored' = {} /\ lastScope' = 0
        BY <1>1, <1>2, <2>1, <2>2, <3>1 DEF StoreFollows
      <3>. QED  BY <1>2, <1>3, <2>1, <3>2 DEF StoreFollows, IsUnderway
    <2>3. CASE k # Bare
      <3>1. k = lastScope /\ lastScope' = lastScope
        BY <1>1, <2>1, <2>3 DEF StoreFollows
      <3>2. Stored' = {Bare} /\ lastScope # Bare
        BY <1>2, <1>3, <2>1, <2>3, <3>1 DEF StoreFollows, IdsInv
      <3>. QED  BY <1>2, <1>3, <2>1, <3>1, <3>2 DEF StoreFollows, IsUnderway
    <2>. QED  BY <2>2, <2>3
  <1>5. lastScope' \in Scopes \cup {0}
    BY <1>1 DEF IdsInv
  <1>. QED  BY <1>2, <1>3, <1>4, <1>5 DEF IdsInv

LEMMA InitIds == CodexInit => IdsInv
  <1>. SUFFICES ASSUME CodexInit PROVE IdsInv
    OBVIOUS
  <1>1. Stored = {} /\ lastScope = 0 /\ muddled = FALSE
    BY DEF CodexInit, Stored
  <1>2. \A c \in Conns : ~IsUnderway(c)
    BY DEF CodexInit, IsUnderway, NoTurn, Underway
  <1>3. responseIds \in [StoreKeys -> {"none", "last", "older"}]
    BY DEF CodexInit
  <1>. QED  BY <1>1, <1>2, <1>3 DEF IdsInv, StoreFollows

LEMMA NextIds == CodexIInv /\ IdsInv /\ [CodexNext]_codexVars => IdsInv'
  <1>. SUFFICES ASSUME CodexIInv, IdsInv, [CodexNext]_codexVars PROVE IdsInv'
    OBVIOUS
  <1>1. ASSUME turn' = turn, UNCHANGED idVars PROVE IdsInv'
    BY <1>1, IdsQuiet DEF NoneStarts, IsUnderway
  <1>2. CASE UNCHANGED codexVars
    BY <1>1, <1>2 DEF codexVars
  <1>3. ASSUME NEW c \in Conns, Message(c) \/ Disconnect(c) PROVE IdsInv'
    BY <1>1, <1>3 DEF Message, Disconnect
  <1>4. ASSUME NEW c \in Conns, NEW k \in Scopes, CloseProceeds(c, k) PROVE IdsInv'
    BY <1>1, <1>4 DEF CloseProceeds
  <1>5. ASSUME NEW s \in Sockets, UpstreamCloses(s) PROVE IdsInv'
    BY <1>1, <1>5 DEF UpstreamCloses
  <1>6. ASSUME NEW s \in Sockets, SocketLost(s) PROVE IdsInv'
    <2>1. UNCHANGED idVars /\ (turn' = turn \/ \E c \in Conns : Fail(c))
      BY <1>6 DEF SocketLost, AskingOn
    <2>. QED  BY <1>1, <2>1, FailEnds, IdsQuiet
  <1>7. ASSUME NEW c \in Conns, HandledElsewhere(c) PROVE IdsInv'
    <2>1. NoneStarts
      BY <1>7, TurnMoves DEF HandledElsewhere, NoTurn, Underway
    <2>. QED  BY <1>7, <2>1, IdsQuiet DEF HandledElsewhere
  <1>8. ASSUME NEW c \in Conns, NEW k \in Scopes, HandleNext(c, k) PROVE IdsInv'
    <2>1. NoneStarts
      BY <1>8 DEF HandleNext, NoneStarts, IsUnderway, Underway, CodexIInv, WireTypeOK, Turns
    <2>. QED  BY <1>8, <2>1, IdsQuiet DEF HandleNext
  <1>9. ASSUME NEW c \in Conns, SendRequest(c) PROVE IdsInv'
    <2>1. NoneStarts
      BY <1>9 DEF SendRequest, NoneStarts, IsUnderway, Underway, CodexIInv, WireTypeOK, Turns
    <2>. QED  BY <1>9, <2>1, IdsQuiet DEF SendRequest
  <1>10. ASSUME NEW c \in Conns, Replaced(c) \/ DialOpens(c) PROVE IdsInv'
    <2>1. IsUnderway(c)
      BY <1>10 DEF Replaced, DialOpens, IsUnderway, Underway
    <2>2. \/ \E s : turn' = [turn EXCEPT ![c].pc = "dialing", ![c].sock = s]
          \/ turn' = [turn EXCEPT ![c].pc = "asking"]
      BY <1>10 DEF Replaced, DialOpens, Dial
    <2>3. NoneStarts
      <3>1. ASSUME NEW s, turn' = [turn EXCEPT ![c].pc = "dialing", ![c].sock = s]
            PROVE  NoneStarts
        BY <2>1, <3>1 DEF NoneStarts, IsUnderway, CodexIInv, WireTypeOK, Turns
      <3>2. ASSUME turn' = [turn EXCEPT ![c].pc = "asking"]
            PROVE  NoneStarts
        BY <2>1, <3>2 DEF NoneStarts, IsUnderway, CodexIInv, WireTypeOK, Turns
      <3>. QED  BY <2>2, <3>1, <3>2
    <2>. QED  BY <1>10, <2>3, IdsQuiet DEF Replaced, DialOpens
  <1>11. ASSUME NEW c \in Conns, DialFails(c) PROVE IdsInv'
    BY <1>11, FailEnds, IdsQuiet DEF DialFails
  <1>. QED  BY <1>2, <1>3, <1>4, <1>5, <1>6, <1>7, <1>8, <1>9, <1>10, <1>11, StartIds, AnswerIds,
               ErrorEventIds, CloseEndsIds, EvictIds DEF CodexNext

\* Whichever scope the next turn is routed to, and whatever was cleared or evicted, it
\* continues from the last answer or from nothing (getCodexSessionResponseId, for any
\* number of scopes, connections and evictions), until turns of two connections
\* overlap or a close clears the id a newer scope has stored.
THEOREM TurnsContinue == CodexSpec => []ContinuesFromLastAnswer
  <1>1. CodexInit => CodexIInv /\ IdsInv
    BY CodexInitInv, InitIds
  <1>2. CodexIInv /\ IdsInv /\ [CodexNext]_codexVars => CodexIInv' /\ IdsInv'
    BY NextInv, NextIds
  <1>3. IdsInv => ContinuesFromLastAnswer
    <2>. SUFFICES ASSUME IdsInv, ~muddled, NEW k \in Scopes
                  PROVE  GetResponseId(k) = IF lastScope = 0 THEN "none" ELSE "last"
      BY DEF ContinuesFromLastAnswer
    <2>1. StoreFollows
      BY DEF IdsInv
    <2>2. CASE lastScope = 0
      BY <2>1, <2>2 DEF StoreFollows, GetResponseId, Stored, StoreKeys
    <2>3. CASE lastScope # 0
      BY <2>1, <2>3 DEF StoreFollows, GetResponseId
    <2>. QED  BY <2>2, <2>3
  <1>. QED  BY <1>1, <1>2, <1>3, PTL DEF CodexSpec

-----------------------------------------------------------------------------
(***************************************************************************)
(* All types                                                               *)
(***************************************************************************)

\* Messages that wait have been counted as inputs.
InputsCounted ==
    /\ inbox \in [Conns -> Nat] /\ inputs \in 0..MaxInputs
    /\ \A c \in Conns : inbox[c] <= inputs
    /\ idOrder \subseteq StoreKeys \X StoreKeys

LEMMA NextCounted ==
    ASSUME CodexIInv, IdsInv, InputsCounted, [CodexNext]_codexVars
    PROVE  InputsCounted'
  <1>1. ASSUME NEW gone, Delete(gone)
        PROVE  idOrder' \subseteq StoreKeys \X StoreKeys
    BY <1>1 DEF Delete, InputsCounted
  <1>2. ASSUME NEW k \in Scopes, SetResponseId(k)
        PROVE  idOrder' \subseteq StoreKeys \X StoreKeys
    BY <1>2 DEF SetResponseId, InputsCounted, Stored, StoreKeys
  <1>3. idOrder' \subseteq StoreKeys \X StoreKeys
    <2>1. CASE UNCHANGED mapVars
      BY <2>1 DEF mapVars, InputsCounted
    <2>2. ASSUME NEW c \in Conns, Start(c) \/ ErrorEvent(c) PROVE idOrder' \subseteq StoreKeys \X StoreKeys
      BY <1>1, <2>1, <2>2 DEF Start, ErrorEvent, Get, ClearResponseId
    <2>3. ASSUME NEW c \in Conns, Answer(c) PROVE idOrder' \subseteq StoreKeys \X StoreKeys
      BY <1>2, <2>1, <2>3, ScopeOfTurn DEF Answer, InSession
    <2>4. ASSUME NEW c \in Conns, NEW k \in Scopes, CloseEnds(c, k)
          PROVE  idOrder' \subseteq StoreKeys \X StoreKeys
      BY <1>1, <2>4 DEF CloseEnds, ClearResponseId
    <2>5. CASE Evict
      BY <1>1, <2>5 DEF Evict
    <2>6. ASSUME NEW c \in Conns,
                 \/ Message(c) \/ HandledElsewhere(c) \/ Disconnect(c) \/ SendRequest(c)
                 \/ Replaced(c) \/ DialOpens(c) \/ DialFails(c)
                 \/ \E k \in Scopes : HandleNext(c, k) \/ CloseProceeds(c, k)
          PROVE  UNCHANGED mapVars
      BY <2>6 DEF Message, HandledElsewhere, Disconnect, SendRequest, Replaced, DialOpens,
                  DialFails, HandleNext, CloseProceeds, idVars
    <2>7. ASSUME NEW s \in Sockets, UpstreamCloses(s) \/ SocketLost(s)
          PROVE  UNCHANGED mapVars
      BY <2>7 DEF UpstreamCloses, SocketLost, idVars
    <2>. QED  BY <2>1, <2>2, <2>3, <2>4, <2>5, <2>6, <2>7 DEF CodexNext, codexVars, idVars
  <1>4. ASSUME inbox' = inbox, inputs' = inputs \/ Input
        PROVE  InputsCounted'
    BY <1>3, <1>4, CodexAssumption DEF InputsCounted, Input
  <1>5. ASSUME NEW c \in Conns, Message(c) PROVE InputsCounted'
    BY <1>3, <1>5, CodexAssumption DEF Message, Input, InputsCounted
  <1>6. ASSUME NEW c \in Conns, NEW k \in Scopes, HandleNext(c, k) PROVE InputsCounted'
    BY <1>3, <1>6, CodexAssumption DEF HandleNext, InputsCounted
  <1>7. ASSUME NEW c \in Conns,
               \/ HandledElsewhere(c) \/ Disconnect(c) \/ SendRequest(c) \/ Start(c)
               \/ Replaced(c) \/ DialOpens(c) \/ DialFails(c) \/ Answer(c) \/ ErrorEvent(c)
               \/ \E k \in Scopes : CloseProceeds(c, k) \/ CloseEnds(c, k)
        PROVE  inbox' = inbox /\ (inputs' = inputs \/ Input)
    BY <1>7 DEF HandledElsewhere, Disconnect, SendRequest, Start, Replaced, DialOpens, DialFails,
                Answer, ErrorEvent, CloseProceeds, CloseEnds, clientVars
  <1>8. ASSUME NEW s \in Sockets, UpstreamCloses(s) \/ SocketLost(s)
        PROVE  inbox' = inbox /\ (inputs' = inputs \/ Input)
    BY <1>8 DEF UpstreamCloses, SocketLost, clientVars
  <1>9. Evict \/ UNCHANGED codexVars => inbox' = inbox /\ (inputs' = inputs \/ Input)
    BY DEF Evict, codexVars, clientVars
  <1>. QED  BY <1>4, <1>5, <1>6, <1>7, <1>8, <1>9 DEF CodexNext

\* Turns, chains, sockets, closes and the response store stay well-formed.
THEOREM CodexTypeCorrect == CodexSpec => []CodexTypeOK
  <1>1. CodexInit => CodexIInv /\ IdsInv /\ InputsCounted
    BY CodexInitInv, InitIds, CodexAssumption DEF CodexInit, InputsCounted
  <1>2. CodexIInv /\ IdsInv /\ InputsCounted /\ [CodexNext]_codexVars
            => CodexIInv' /\ IdsInv' /\ InputsCounted'
    BY NextInv, NextIds, NextCounted
  <1>3. CodexIInv /\ IdsInv /\ InputsCounted => CodexTypeOK
    <2>. SUFFICES ASSUME CodexIInv, IdsInv, InputsCounted PROVE CodexTypeOK
      OBVIOUS
    <2>1. inbox \in [Conns -> 0..MaxInputs]
      BY CodexAssumption DEF InputsCounted
    <2>2. turn \in [Conns -> [pc : {"idle", "chosen"} \cup InSession,
                              scope : Scopes \cup {0}, obj : Sessions \cup {0},
                              sock : Sockets \cup {0}, recovering : BOOLEAN]]
      BY DEF CodexIInv, WireTypeOK, Turns, TurnPcs, TurnScopes, TurnSessions, TurnSockets
    <2>. QED  BY <2>1, <2>2 DEF CodexTypeOK, CodexIInv, WireTypeOK, IdsInv, InputsCounted
  <1>. QED  BY <1>1, <1>2, <1>3, PTL DEF CodexSpec
===============================================================================
