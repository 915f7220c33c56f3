---------------------------- MODULE RequestContract ----------------------------
(***************************************************************************)
(* What the gateway promises a downstream request: a bounded number of     *)
(* attempts, no ordinary channel twice, no further attempt once the        *)
(* response has begun, and one reply, which is an answer only if some      *)
(* channel was attempted.  Nothing is said of how channels are chosen,     *)
(* leased or blamed.                                                       *)
(***************************************************************************)
EXTENDS Integers, Sequences

CONSTANTS Requests, Channels, Pools, AttemptLimit

VARIABLES attempts, begun, reply

contractVars == <<attempts, begun, reply>>

ContractInit ==
    /\ attempts = [r \in Requests |-> << >>]
    /\ begun = [r \in Requests |-> FALSE]
    /\ reply = [r \in Requests |-> "none"]

Attempted(r) == {attempts[r][i] : i \in 1..Len(attempts[r])}

Attempt(r, c) ==
    /\ reply[r] = "none"
    /\ ~begun[r]
    /\ Len(attempts[r]) < AttemptLimit
    /\ c \in Pools \/ c \notin Attempted(r)
    /\ attempts' = [attempts EXCEPT ![r] = Append(@, c)]
    /\ UNCHANGED <<begun, reply>>

Begin(r) ==
    /\ reply[r] = "none"
    /\ attempts[r] # << >>
    /\ begun' = [begun EXCEPT ![r] = TRUE]
    /\ UNCHANGED <<attempts, reply>>

Reply(r, what) ==
    /\ reply[r] = "none"
    /\ what = "answer" => attempts[r] # << >>
    /\ reply' = [reply EXCEPT ![r] = what]
    /\ UNCHANGED <<attempts, begun>>

ContractNext ==
    \E r \in Requests :
        \/ \E c \in Channels : Attempt(r, c)
        \/ Begin(r)
        \/ \E what \in {"answer", "error"} : Reply(r, what)

ContractSpec == ContractInit /\ [][ContractNext]_contractVars
=============================================================================
