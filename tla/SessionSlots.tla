------------------------------ MODULE SessionSlots ------------------------------
(***************************************************************************)
(* What the lease coordinator promises its callers: each guarded channel   *)
(* has a number of slots and one line of requests.  A request enters when  *)
(* a slot is free and lines up when none is; whenever somebody leaves, the *)
(* free slots are handed to the head of the line.  Nothing is said of how  *)
(* the line is stored or when its bookkeeping is created and dropped.      *)
(***************************************************************************)
EXTENDS Integers, FiniteSets, Sequences

CONSTANTS Requests, Channels, Limits

VARIABLES limit, users, line

slotVars == <<limit, users, line>>

SlotsInit ==
    /\ limit \in Limits
    /\ users = [c \in Channels |-> {}]
    /\ line = [c \in Channels |-> << >>]

Resize(n) ==
    /\ limit' = n
    /\ UNCHANGED <<users, line>>

Enter(r, c) ==
    /\ Cardinality(users[c]) < limit
    /\ users' = [users EXCEPT ![c] = @ \cup {r}]
    /\ UNCHANGED <<limit, line>>

LineUp(r, c) ==
    /\ Cardinality(users[c]) >= limit
    /\ line' = [line EXCEPT ![c] = Append(@, r)]
    /\ UNCHANGED <<limit, users>>

GiveUp(c, i) ==
    /\ line' = [line EXCEPT ![c] =
                  [j \in 1..(Len(@) - 1) |-> IF j < i THEN @[j] ELSE @[j + 1]]]
    /\ UNCHANGED <<limit, users>>

\* n requests move from the line to the slots; afterwards the line is empty
\* or the slots are full.
Leave(r, c, n) ==
    /\ r \in users[c]
    /\ users' = [users EXCEPT ![c] = (@ \ {r}) \cup {line[c][i] : i \in 1..n}]
    /\ line' = [line EXCEPT ![c] = SubSeq(@, n + 1, Len(@))]
    /\ n > 0 => Cardinality(users'[c]) <= limit
    /\ Cardinality(users'[c]) >= limit \/ line'[c] = << >>
    /\ UNCHANGED limit

SlotsNext ==
    \/ \E n \in Limits : Resize(n)
    \/ \E r \in Requests, c \in Channels :
          \/ Enter(r, c)
          \/ LineUp(r, c)
          \/ \E n \in 0..Len(line[c]) : Leave(r, c, n)
    \/ \E c \in Channels : \E i \in 1..Len(line[c]) : GiveUp(c, i)

SlotsSpec == SlotsInit /\ [][SlotsNext]_slotVars
=============================================================================
