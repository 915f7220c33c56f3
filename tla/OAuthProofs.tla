----------------------------- MODULE OAuthProofs ------------------------------
(*****************************************************************************)
(* For any number of workers and tokens: a token that was spent is neither   *)
(* presented nor kept in the row, unless an answer was lost or a worker put  *)
(* back what it had read before a refresh it did not wait for. For any number*)
(* of logins, sessions and accounts: an account is what the answers of its   *)
(* logins say, unless somebody else wrote it while a login was at it.        *)
(*****************************************************************************)
EXTENDS ManagedTokens, OAuthLogin, TLAPS

-----------------------------------------------------------------------------
(*****************************************************************************)
(* Managed tokens                                                            *)
(*****************************************************************************)

\* A worker between reading the row and writing it back has a token, and so has
\* a flight with an answer.
HasToken ==
    /\ \A w \in Workers : worker[w].pc \in {"holding", "waiting", "retrying"} => worker[w].token # 0
    /\ \A f \in Flights : flight[f].pc = "writing" => flight[f].got # 0

TokensTyped == TokensTypeOK /\ HasToken

\* refreshInFlight names the one flight there is.
OneFlight == \A f \in Flights : flight[f].pc # "over" => inFlight = f

\* What workers have read is what the row holds, but for a refresh they missed.
ReadsAreCurrent ==
    \A w \in Workers :
        worker[w].pc \in {"holding", "waiting", "retrying"} /\ ~foreign[w]
            => worker[w].token = stored

\* Where the token is that the provider accepts.
TokenIsKept ==
    /\ ~Storing => stored = valid
    /\ \A f \in Flights : flight[f].pc = "writing" => flight[f].got = valid
    /\ \A f \in Flights : flight[f].pc = "asking" /\ ~flight[f].stale => flight[f].token = valid

TokensInv ==
    /\ TokensTyped
    /\ OneFlight
    /\ spoiled = {} => ReadsAreCurrent /\ TokenIsKept

FlightPcs == {"over", "reading", "asking", "writing"}
FlightRec == [pc : FlightPcs, token : 0..MaxTokens, got : 0..MaxTokens, stale : BOOLEAN]
WorkerPcs == {"away", "holding", "waiting", "rereading", "retrying"}
WorkerRec == [pc : WorkerPcs, token : 0..MaxTokens, on : Flights \cup {NoFlight}]

-----------------------------------------------------------------------------
(* Steps of a worker alone *)

LEMMA TokensInitInv == TokensInit => TokensInv
  <1>. SUFFICES ASSUME TokensInit PROVE TokensInv
    OBVIOUS
  <1>. USE TokenAssumption DEF TokensInit, Landed, Away
  <1>1. TokensTyped
    BY DEF TokensTyped, TokensTypeOK, HasToken
  <1>2. OneFlight
    BY DEF OneFlight
  <1>3. ReadsAreCurrent /\ TokenIsKept
    BY DEF ReadsAreCurrent, TokenIsKept, Storing
  <1>. QED  BY <1>1, <1>2, <1>3 DEF TokensInv

\* A step that gives w a new record and leaves row, flights and provider alone.
LEMMA WorkerInv ==
    ASSUME TokensInv, NEW w \in Workers, NEW rec \in WorkerRec,
           worker' = [worker EXCEPT ![w] = rec],
           rec.pc \in {"holding", "waiting", "retrying"} => rec.token # 0,
           foreign' \in [Workers -> BOOLEAN],
           \A v \in Workers \ {w} : foreign'[v] = foreign[v],
           rec.pc \in {"holding", "waiting", "retrying"} /\ ~foreign'[w] /\ spoiled = {}
               => rec.token = stored,
           UNCHANGED <<kind, stored, valid, inFlight, flight, crashes, spoiled>>
    PROVE  TokensInv'
  <1>1. /\ worker'[w] = rec
        /\ \A v \in Workers \ {w} : worker'[v] = worker[v]
        /\ worker' \in [Workers -> WorkerRec]
    BY DEF TokensInv, TokensTyped, TokensTypeOK, WorkerRec, WorkerPcs
  <1>2. TokensTypeOK'
    BY <1>1 DEF TokensInv, TokensTyped, TokensTypeOK, WorkerRec, WorkerPcs
  <1>3. HasToken'
    BY <1>1 DEF TokensInv, TokensTyped, HasToken
  <1>4. OneFlight'
    BY DEF TokensInv, OneFlight
  <1>5. ASSUME spoiled' = {}
        PROVE  ReadsAreCurrent' /\ TokenIsKept'
    <2>1. ReadsAreCurrent'
      BY <1>1, <1>5 DEF TokensInv, ReadsAreCurrent
    <2>2. TokenIsKept'
      BY <1>5 DEF TokensInv, TokenIsKept, Storing
    <2>. QED  BY <2>1, <2>2
  <1>. QED  BY <1>2, <1>3, <1>4, <1>5 DEF TokensInv, TokensTyped

LEMMA ReadInv ==
    ASSUME TokensInv, NEW w \in Workers, ReadAccount(w)
    PROVE  TokensInv'
  <1>. DEFINE rec == [pc |-> "holding", token |-> stored, on |-> NoFlight]
  <1>1. rec \in WorkerRec /\ rec.token # 0 /\ rec.token = stored
    BY TokenAssumption DEF TokensInv, TokensTyped, TokensTypeOK, WorkerRec, WorkerPcs
  <1>2. /\ foreign' \in [Workers -> BOOLEAN]
        /\ \A v \in Workers \ {w} : foreign'[v] = foreign[v]
        /\ worker' = [worker EXCEPT ![w] = rec]
        /\ UNCHANGED <<kind, stored, valid, inFlight, flight, crashes, spoiled>>
    BY DEF ReadAccount, TokensInv, TokensTyped, TokensTypeOK
  <1>. HIDE DEF rec
  <1>. QED  BY <1>1, <1>2, WorkerInv

LEMMA LeaveInv ==
    ASSUME TokensInv, NEW w \in Workers, Leave(w)
    PROVE  TokensInv'
  <1>1. Away \in WorkerRec /\ Away.pc = "away"
    BY TokenAssumption DEF Away, WorkerRec, WorkerPcs
  <1>2. /\ foreign' \in [Workers -> BOOLEAN] /\ foreign' = foreign
        /\ worker' = [worker EXCEPT ![w] = Away]
        /\ UNCHANGED <<kind, stored, valid, inFlight, flight, crashes, spoiled>>
    BY DEF Leave, TokensInv, TokensTyped, TokensTypeOK
  <1>. QED  BY <1>1, <1>2, WorkerInv

LEMMA RereadInv ==
    ASSUME TokensInv, NEW w \in Workers, Reread(w)
    PROVE  TokensInv'
  <1>. DEFINE rec == [worker[w] EXCEPT !.pc = "retrying", !.token = stored]
  <1>1. rec \in WorkerRec /\ rec.token # 0 /\ rec.token = stored
    <2>1. worker[w] \in WorkerRec /\ stored \in 0..MaxTokens /\ stored # 0
      BY TokenAssumption DEF TokensInv, TokensTyped, TokensTypeOK, WorkerRec, WorkerPcs
    <2>. QED  BY <2>1 DEF WorkerRec, WorkerPcs
  <1>2. /\ foreign' \in [Workers -> BOOLEAN]
        /\ \A v \in Workers \ {w} : foreign'[v] = foreign[v]
        /\ worker' = [worker EXCEPT ![w] = rec]
        /\ UNCHANGED <<kind, stored, valid, inFlight, flight, crashes, spoiled>>
    BY DEF Reread, TokensInv, TokensTyped, TokensTypeOK
  <1>. HIDE DEF rec
  <1>. QED  BY <1>1, <1>2, WorkerInv

\* A write back that spoils nothing leaves the row as it was: either the worker
\* has missed no refresh, or its token is that of the row.
LEMMA WriteBackInv ==
    ASSUME TokensInv, NEW w \in Workers, WriteBack(w)
    PROVE  TokensInv'
  <1>. USE DEF WriteBack
  <1>1. /\ worker'[w] = Away
        /\ \A v \in Workers \ {w} : worker'[v] = worker[v]
        /\ worker' \in [Workers -> WorkerRec]
    BY TokenAssumption DEF Away, TokensInv, TokensTyped, TokensTypeOK, WorkerRec, WorkerPcs
  <1>2. stored' \in 1..MaxTokens
    BY TokenAssumption DEF TokensInv, TokensTyped, TokensTypeOK, HasToken
  <1>3. TokensTypeOK'
    BY <1>1, <1>2 DEF TokensInv, TokensTyped, TokensTypeOK, WorkerRec, WorkerPcs
  <1>4. HasToken'
    BY <1>1 DEF Away, TokensInv, TokensTyped, HasToken
  <1>5. OneFlight'
    BY DEF TokensInv, OneFlight
  <1>6. ASSUME spoiled' = {}
        PROVE  ReadsAreCurrent' /\ TokenIsKept'
    <2>1. spoiled = {} /\ stored' = stored
      BY <1>6 DEF TokensInv, ReadsAreCurrent
    <2>2. ReadsAreCurrent'
      BY <1>1, <2>1 DEF Away, TokensInv, ReadsAreCurrent
    <2>3. TokenIsKept'
      BY <2>1 DEF TokensInv, TokenIsKept, Storing
    <2>. QED  BY <2>2, <2>3
  <1>. QED  BY <1>3, <1>4, <1>5, <1>6 DEF TokensInv, TokensTyped

-----------------------------------------------------------------------------
(* The single flight *)

\* A worker starts to wait: it keeps its token.
LEMMA WaitingInv ==
    ASSUME TokensInv, NEW w \in Workers, NEW f \in Flights, Waiting(w, f), UNCHANGED foreign,
           worker[w].pc \in {"holding", "retrying"}
    PROVE  /\ worker' \in [Workers -> WorkerRec]
           /\ \A v \in Workers : worker'[v].token = worker[v].token
           /\ worker'[w].pc = "waiting"
           /\ \A v \in Workers \ {w} : worker'[v] = worker[v]
  BY DEF Waiting, TokensInv, TokensTyped, TokensTypeOK, WorkerRec, WorkerPcs

LEMMA RefreshInv ==
    ASSUME TokensInv, NEW w \in Workers, Refresh(w)
    PROVE  TokensInv'
  <1>. USE TokenAssumption
  <1>1. /\ worker[w].pc \in {"holding", "retrying"}
        /\ UNCHANGED <<kind, stored, valid, crashes, foreign, spoiled>>
    BY DEF Refresh
  <1>2. CASE /\ Existing # NoFlight
             /\ Waiting(w, Existing)
             /\ UNCHANGED <<inFlight, flight>>
    <2>. DEFINE rec == [worker[w] EXCEPT !.pc = "waiting", !.on = inFlight]
    <2>1. rec \in WorkerRec /\ rec.token = worker[w].token /\ rec.token # 0
      BY <1>1 DEF TokensInv, TokensTyped, TokensTypeOK, HasToken, WorkerRec, WorkerPcs
    <2>2. worker' = [worker EXCEPT ![w] = rec]
      BY <1>2 DEF Waiting, Existing, TokensInv, TokensTyped, TokensTypeOK
    <2>3. ~foreign'[w] /\ spoiled = {} => rec.token = stored
      BY <1>1, <2>1 DEF TokensInv, ReadsAreCurrent
    <2>4. foreign' \in [Workers -> BOOLEAN] /\ foreign' = foreign
      BY <1>1 DEF TokensInv, TokensTyped, TokensTypeOK
    <2>. HIDE DEF rec
    <2>. QED  BY <1>1, <1>2, <2>1, <2>2, <2>3, <2>4, WorkerInv
  <1>3. CASE /\ Existing = NoFlight
             /\ \E f \in Flights :
                   /\ flight[f].pc = "over"
                   /\ inFlight' = f
                   /\ Waiting(w, f)
                   /\ flight' = [flight EXCEPT ![f] =
                        IF kind = "oauth" THEN [Landed EXCEPT !.pc = "reading"]
                        ELSE [pc |-> "asking", token |-> worker[w].token, got |-> 0,
                              stale |-> foreign[w]]]
    <2>. DEFINE New == IF kind = "oauth" THEN [Landed EXCEPT !.pc = "reading"]
                       ELSE [pc |-> "asking", token |-> worker[w].token, got |-> 0,
                             stale |-> foreign[w]]
    <2>1. PICK f \in Flights :
               flight[f].pc = "over" /\ inFlight' = f /\ Waiting(w, f)
               /\ flight' = [flight EXCEPT ![f] = New]
      BY <1>3
    <2>2. New \in FlightRec
      <3>1. 0 \in 0..MaxTokens /\ worker[w].token \in 0..MaxTokens /\ foreign[w] \in BOOLEAN
        BY DEF TokensInv, TokensTyped, TokensTypeOK
      <3>2. [Landed EXCEPT !.pc = "reading"] \in FlightRec
        BY <3>1 DEF Landed, FlightRec, FlightPcs
      <3>. QED  BY <3>1, <3>2 DEF FlightRec, FlightPcs
    <2>3. New.pc \in {"reading", "asking"}
      BY DEF Landed
    <2>4. New.pc = "asking" => New.token = worker[w].token /\ New.stale = foreign[w]
      BY DEF Landed
    <2>. HIDE DEF New
    <2>5. /\ flight'[f] = New
          /\ \A g \in Flights \ {f} : flight'[g] = flight[g]
          /\ flight' \in [Flights -> FlightRec]
      BY <2>1, <2>2 DEF TokensInv, TokensTyped, TokensTypeOK, FlightRec, FlightPcs
    <2>6. \A g \in Flights : flight[g].pc = "over"
      BY <1>3 DEF Existing, TokensInv, OneFlight
    <2>7. /\ worker' \in [Workers -> WorkerRec]
          /\ \A v \in Workers : worker'[v].token = worker[v].token
          /\ worker'[w].pc = "waiting"
          /\ \A v \in Workers \ {w} : worker'[v] = worker[v]
      BY <1>1, <2>1, WaitingInv
    <2>8. TokensTypeOK'
      BY <1>1, <2>1, <2>5, <2>7
         DEF TokensInv, TokensTyped, TokensTypeOK, FlightRec, FlightPcs, WorkerRec, WorkerPcs
    <2>9. HasToken'
      BY <1>1, <2>3, <2>5, <2>7 DEF TokensInv, TokensTyped, HasToken
    <2>10. OneFlight'
      BY <2>1, <2>5, <2>6 DEF OneFlight
    <2>11. ASSUME spoiled' = {}
           PROVE  ReadsAreCurrent' /\ TokenIsKept'
      <3>1. ReadsAreCurrent /\ stored = valid
        BY <1>1, <2>6, <2>11 DEF TokensInv, TokenIsKept, Storing
      <3>2. ReadsAreCurrent'
        BY <1>1, <2>7, <3>1 DEF ReadsAreCurrent
      <3>3. ~foreign[w] => worker[w].token = valid
        BY <1>1, <3>1 DEF ReadsAreCurrent
      <3>4. TokenIsKept'
        BY <1>1, <2>3, <2>4, <2>5, <2>6, <3>1, <3>3 DEF TokenIsKept, Storing
      <3>. QED  BY <3>2, <3>4
    <2>. QED  BY <2>8, <2>9, <2>10, <2>11 DEF TokensInv, TokensTyped
  <1>. QED  BY <1>2, <1>3 DEF Refresh

-----------------------------------------------------------------------------
(* The flight and its end *)

\* A step that moves only flight f, and neither row nor workers.
LEMMA FlightInv ==
    ASSUME TokensInv, NEW f \in Flights, NEW rec \in FlightRec,
           flight' = [flight EXCEPT ![f] = rec],
           flight[f].pc # "over",
           valid' \in 1..MaxTokens,
           rec.pc = "writing" => rec.got # 0 /\ rec.got = valid',
           rec.pc # "writing" => flight[f].pc # "writing" /\ valid' = valid,
           rec.pc = "asking" /\ ~rec.stale /\ spoiled = {} => rec.token = valid',
           UNCHANGED <<kind, stored, inFlight, worker, crashes, foreign, spoiled>>
    PROVE  TokensInv'
  <1>1. /\ flight'[f] = rec
        /\ \A g \in Flights \ {f} : flight'[g] = flight[g]
        /\ flight' \in [Flights -> FlightRec]
    BY DEF TokensInv, TokensTyped, TokensTypeOK, FlightRec, FlightPcs
  <1>2. \A g \in Flights \ {f} : flight[g].pc = "over"
    BY DEF TokensInv, OneFlight
  <1>3. TokensTypeOK'
    BY <1>1 DEF TokensInv, TokensTyped, TokensTypeOK, FlightRec, FlightPcs
  <1>4. HasToken'
    BY <1>1 DEF TokensInv, TokensTyped, HasToken
  <1>5. OneFlight'
    BY <1>1, <1>2 DEF TokensInv, OneFlight
  <1>6. ASSUME spoiled' = {}
        PROVE  ReadsAreCurrent' /\ TokenIsKept'
    <2>1. ReadsAreCurrent'
      BY <1>6 DEF TokensInv, ReadsAreCurrent
    <2>2. TokenIsKept'
      BY <1>1, <1>2, <1>6 DEF TokensInv, TokenIsKept, Storing
    <2>. QED  BY <2>1, <2>2
  <1>. QED  BY <1>3, <1>4, <1>5, <1>6 DEF TokensInv, TokensTyped

LEMMA ReadForRefreshInv ==
    ASSUME TokensInv, NEW f \in Flights, ReadForRefresh(f)
    PROVE  TokensInv'
  <1>. DEFINE rec == [flight[f] EXCEPT !.pc = "asking", !.token = stored]
  <1>1. /\ flight[f] \in FlightRec /\ stored \in 0..MaxTokens
        /\ valid \in 1..MaxTokens
    BY TokenAssumption DEF TokensInv, TokensTyped, TokensTypeOK, FlightRec, FlightPcs
  <1>2. rec \in FlightRec /\ rec.pc = "asking" /\ rec.token = stored
    BY <1>1 DEF FlightRec, FlightPcs
  <1>3. spoiled = {} => stored = valid
    BY DEF ReadForRefresh, TokensInv, OneFlight, TokenIsKept, Storing
  <1>4. /\ flight' = [flight EXCEPT ![f] = rec]
        /\ flight[f].pc = "reading"
        /\ UNCHANGED <<kind, stored, valid, inFlight, worker, crashes, foreign, spoiled>>
    BY DEF ReadForRefresh, TokensInv, TokensTyped, TokensTypeOK
  <1>. HIDE DEF rec
  <1>. QED  BY <1>1, <1>2, <1>3, <1>4, FlightInv

LEMMA AnswersInv ==
    ASSUME TokensInv, NEW f \in Flights, ProviderAnswers(f)
    PROVE  TokensInv'
  <1>. DEFINE rec == [flight[f] EXCEPT !.pc = "writing", !.got = valid']
  <1>1. flight[f] \in FlightRec /\ valid \in 1..MaxTokens
    BY DEF TokensInv, TokensTyped, TokensTypeOK, FlightRec, FlightPcs
  <1>2. valid' \in 1..MaxTokens
    BY <1>1 DEF ProviderAnswers
  <1>3. valid' \in 0..MaxTokens /\ valid' # 0
    BY <1>2, TokenAssumption
  <1>4. rec \in FlightRec /\ rec.pc = "writing" /\ rec.got = valid'
    BY <1>1, <1>3 DEF FlightRec, FlightPcs
  <1>5. /\ flight' = [flight EXCEPT ![f] = rec]
        /\ flight[f].pc = "asking"
        /\ UNCHANGED <<kind, stored, inFlight, worker, crashes, foreign, spoiled>>
    BY DEF ProviderAnswers, TokensInv, TokensTyped, TokensTypeOK
  <1>. HIDE DEF rec
  <1>. QED  BY <1>2, <1>3, <1>4, <1>5, FlightInv

\* Every end of the flight leaves nothing in flight.
LEMMA LandingKeeps ==
    ASSUME TokensInv, NEW f \in Flights, flight[f].pc # "over", Landing(f)
    PROVE  /\ flight' \in [Flights -> FlightRec]
           /\ inFlight' = NoFlight
           /\ \A g \in Flights : flight'[g].pc = "over"
  <1>1. \A g \in Flights \ {f} : flight[g].pc = "over"
    BY DEF TokensInv, OneFlight
  <1>2. inFlight = f
    BY DEF TokensInv, OneFlight
  <1>3. Landed \in FlightRec /\ Landed.pc = "over"
    BY TokenAssumption DEF Landed, FlightRec, FlightPcs
  <1>4. /\ flight'[f] = Landed
        /\ \A g \in Flights \ {f} : flight'[g] = flight[g]
        /\ flight' \in [Flights -> FlightRec]
    BY <1>3 DEF Landing, TokensInv, TokensTyped, TokensTypeOK, FlightRec, FlightPcs
  <1>. QED  BY <1>1, <1>2, <1>3, <1>4 DEF Landing

LEMMA FailForKeeps ==
    ASSUME TokensInv, NEW f \in Flights, FailFor(f)
    PROVE  /\ worker' \in [Workers -> WorkerRec]
           /\ \A w \in Workers :
                 /\ worker'[w].token = worker[w].token
                 /\ worker'[w].pc \in {"holding", "waiting", "retrying"}
                       => worker[w].pc \in {"holding", "waiting", "retrying"}
  <1>1. worker \in [Workers -> WorkerRec]
    BY DEF TokensInv, TokensTyped, TokensTypeOK, WorkerRec, WorkerPcs
  <1>. DEFINE rec(w) == IF Awaits(w, f) THEN [worker[w] EXCEPT !.pc = "retrying", !.on = NoFlight]
                        ELSE worker[w]
  <1>2. ASSUME NEW w \in Workers
        PROVE  /\ rec(w) \in WorkerRec /\ rec(w).token = worker[w].token
               /\ rec(w).pc \in {"holding", "waiting", "retrying"}
                       => worker[w].pc \in {"holding", "waiting", "retrying"}
    BY <1>1 DEF Awaits, WorkerRec, WorkerPcs
  <1>3. worker' = [w \in Workers |-> rec(w)]
    BY DEF FailFor
  <1>. HIDE DEF rec
  <1>. QED  BY <1>2, <1>3

\* A flight that ends without storing anything, and spoils nothing only if the
\* row holds the valid token.
LEMMA FailureInv ==
    ASSUME TokensInv, NEW f \in Flights, flight[f].pc # "over",
           Landing(f), FailFor(f), UNCHANGED <<kind, stored, foreign>>,
           valid' \in 1..MaxTokens, crashes' \in 0..MaxCrashes,
           spoiled' \in SUBSET {"lost", "reverted"}, spoiled \subseteq spoiled',
           spoiled' = {} => stored = valid'
    PROVE  TokensInv'
  <1>1. /\ flight' \in [Flights -> FlightRec] /\ inFlight' = NoFlight
        /\ \A g \in Flights : flight'[g].pc = "over"
    BY LandingKeeps
  <1>2. /\ worker' \in [Workers -> WorkerRec]
        /\ \A w \in Workers :
              /\ worker'[w].token = worker[w].token
              /\ worker'[w].pc \in {"holding", "waiting", "retrying"}
                    => worker[w].pc \in {"holding", "waiting", "retrying"}
    BY FailForKeeps
  <1>3. TokensTypeOK'
    BY <1>1, <1>2
       DEF TokensInv, TokensTyped, TokensTypeOK, FlightRec, FlightPcs, WorkerRec, WorkerPcs
  <1>4. HasToken'
    BY <1>1, <1>2 DEF TokensInv, TokensTyped, HasToken
  <1>5. OneFlight'
    BY <1>1 DEF OneFlight
  <1>6. ASSUME spoiled' = {}
        PROVE  ReadsAreCurrent' /\ TokenIsKept'
    <2>1. ReadsAreCurrent'
      BY <1>2, <1>6 DEF TokensInv, ReadsAreCurrent
    <2>2. TokenIsKept'
      BY <1>1, <1>6 DEF TokenIsKept, Storing
    <2>. QED  BY <2>1, <2>2
  <1>. QED  BY <1>3, <1>4, <1>5, <1>6 DEF TokensInv, TokensTyped

LEMMA RefusesInv ==
    ASSUME TokensInv, NEW f \in Flights, ProviderRefuses(f)
    PROVE  TokensInv'
  <1>. USE DEF ProviderRefuses
  <1>1. /\ valid' \in 1..MaxTokens /\ crashes' \in 0..MaxCrashes
        /\ spoiled' \in SUBSET {"lost", "reverted"}
    BY DEF TokensInv, TokensTyped, TokensTypeOK
  <1>2. spoiled' = {} => stored = valid'
    BY DEF TokensInv, OneFlight, TokenIsKept, Storing
  <1>. QED  BY <1>1, <1>2, FailureInv

LEMMA LostInv ==
    ASSUME TokensInv, NEW f \in Flights, AnswerLost(f)
    PROVE  TokensInv'
  <1>. USE DEF AnswerLost
  <1>1. valid' \in 1..MaxTokens
    BY TokenAssumption DEF TokensInv, TokensTyped, TokensTypeOK
  <1>2. crashes' \in 0..MaxCrashes
    BY TokenAssumption DEF TokensInv, TokensTyped, TokensTypeOK
  <1>3. /\ spoiled' \in SUBSET {"lost", "reverted"} /\ spoiled \subseteq spoiled'
        /\ spoiled' = {} => stored = valid'
    BY DEF TokensInv, TokensTyped, TokensTypeOK
  <1>4. flight[f].pc # "over"
    OBVIOUS
  <1>. QED  BY <1>1, <1>2, <1>3, <1>4, FailureInv

\* Whoever awaited the flight goes on with the new token, or reads the row again.
LEMMA ResumeKeeps ==
    ASSUME TokensInv, NEW f \in Flights, NEW got \in 1..MaxTokens, Resume(f, got)
    PROVE  /\ worker' \in [Workers -> WorkerRec]
           /\ \A w \in Workers :
                 IF Awaits(w, f)
                 THEN worker'[w].pc = "rereading" \/ worker'[w].token = got
                 ELSE worker'[w] = worker[w]
  <1>1. worker \in [Workers -> WorkerRec] /\ got \in 0..MaxTokens
    BY TokenAssumption DEF TokensInv, TokensTyped, TokensTypeOK, WorkerRec, WorkerPcs
  <1>2. PICK reread \in {FALSE, kind = "oauth"} :
           worker' = [w \in Workers |->
               IF ~Awaits(w, f) THEN worker[w]
               ELSE IF reread THEN [worker[w] EXCEPT !.pc = "rereading", !.on = NoFlight]
               ELSE [pc |-> "retrying", token |-> got, on |-> NoFlight]]
    BY DEF Resume
  <1>. DEFINE again(w) == [worker[w] EXCEPT !.pc = "rereading", !.on = NoFlight]
              new == [pc |-> "retrying", token |-> got, on |-> NoFlight]
  <1>3. \A w \in Workers : again(w) \in WorkerRec /\ again(w).pc = "rereading"
    BY <1>1 DEF WorkerRec, WorkerPcs
  <1>4. new \in WorkerRec /\ new.token = got
    BY <1>1 DEF WorkerRec, WorkerPcs
  <1>. HIDE DEF again, new
  <1>5. CASE reread
    <2>1. worker' = [w \in Workers |-> IF Awaits(w, f) THEN again(w) ELSE worker[w]]
      BY <1>2, <1>5 DEF again
    <2>. QED  BY <1>1, <1>3, <2>1
  <1>6. CASE ~reread
    <2>1. worker' = [w \in Workers |-> IF Awaits(w, f) THEN new ELSE worker[w]]
      BY <1>2, <1>6 DEF new
    <2>. QED  BY <1>1, <1>4, <2>1
  <1>. QED  BY <1>5, <1>6

LEMMA StoreInv ==
    ASSUME TokensInv, NEW f \in Flights, StoreRefreshed(f)
    PROVE  TokensInv'
  <1>. USE DEF StoreRefreshed
  <1>. DEFINE got == flight[f].got
  <1>1. got \in 1..MaxTokens
    BY TokenAssumption DEF TokensInv, TokensTyped, TokensTypeOK, HasToken
  <1>2. /\ flight' \in [Flights -> FlightRec] /\ inFlight' = NoFlight
        /\ \A g \in Flights : flight'[g].pc = "over"
    BY LandingKeeps
  <1>3. stored' = got /\ Resume(f, got)
    OBVIOUS
  <1>4. foreign' = [w \in Workers |-> ~Awaits(w, f) /\ (foreign[w] \/ got # stored)]
    OBVIOUS
  <1>5. spoiled = {} => got = valid
    BY DEF TokensInv, TokenIsKept
  <1>. HIDE DEF got
  <1>6. /\ worker' \in [Workers -> WorkerRec]
        /\ \A w \in Workers :
              IF Awaits(w, f)
              THEN worker'[w].pc = "rereading" \/ worker'[w].token = got
              ELSE worker'[w] = worker[w]
    BY <1>1, <1>3, ResumeKeeps
  <1>7. foreign' \in [Workers -> BOOLEAN]
    BY <1>4
  <1>8. TokensTypeOK'
    BY <1>1, <1>2, <1>3, <1>6, <1>7
       DEF TokensInv, TokensTyped, TokensTypeOK, FlightRec, FlightPcs, WorkerRec, WorkerPcs
  <1>9. HasToken'
    <2>1. got # 0
      BY <1>1, TokenAssumption
    <2>. QED  BY <1>2, <1>6, <2>1 DEF TokensInv, TokensTyped, HasToken
  <1>10. OneFlight'
    BY <1>2 DEF OneFlight
  <1>11. ASSUME spoiled' = {}
         PROVE  ReadsAreCurrent' /\ TokenIsKept'
    <2>1. ReadsAreCurrent'
      BY <1>3, <1>4, <1>6, <1>11 DEF TokensInv, ReadsAreCurrent
    <2>2. TokenIsKept'
      BY <1>2, <1>3, <1>5, <1>11 DEF TokenIsKept, Storing
    <2>. QED  BY <2>1, <2>2
  <1>. QED  BY <1>8, <1>9, <1>10, <1>11 DEF TokensInv, TokensTyped

LEMMA TokensRestartInv ==
    ASSUME TokensInv, Restart
    PROVE  TokensInv'
  <1>. USE DEF Restart
  <1>1. /\ flight' \in [Flights -> FlightRec] /\ inFlight' = NoFlight
        /\ \A g \in Flights : flight'[g].pc = "over"
    BY TokenAssumption DEF Landed, FlightRec, FlightPcs
  <1>2. /\ worker' \in [Workers -> WorkerRec]
        /\ \A w \in Workers : worker'[w].pc = "away"
    BY TokenAssumption DEF Away, WorkerRec, WorkerPcs
  <1>3. crashes' \in 0..MaxCrashes
    BY TokenAssumption DEF TokensInv, TokensTyped, TokensTypeOK
  <1>4. spoiled' \in SUBSET {"lost", "reverted"}
    BY DEF TokensInv, TokensTyped, TokensTypeOK
  <1>5. TokensTypeOK'
    BY <1>1, <1>2, <1>3, <1>4
       DEF TokensInv, TokensTyped, TokensTypeOK, FlightRec, FlightPcs, WorkerRec, WorkerPcs
  <1>6. HasToken'
    BY <1>1, <1>2 DEF HasToken
  <1>7. OneFlight'
    BY <1>1 DEF OneFlight
  <1>8. ASSUME spoiled' = {}
        PROVE  ReadsAreCurrent' /\ TokenIsKept'
    <2>1. /\ spoiled = {}
          /\ \A f \in Flights : flight[f].pc = "writing" => flight[f].got = stored
      BY <1>8
    <2>2. stored = valid
      BY <2>1 DEF TokensInv, TokenIsKept, Storing
    <2>3. ReadsAreCurrent'
      BY <1>2 DEF ReadsAreCurrent
    <2>4. TokenIsKept'
      BY <1>1, <2>2 DEF TokenIsKept, Storing
    <2>. QED  BY <2>3, <2>4
  <1>. QED  BY <1>5, <1>6, <1>7, <1>8 DEF TokensInv, TokensTyped

LEMMA TokensStutterInv ==
    ASSUME TokensInv, UNCHANGED tokenVars
    PROVE  TokensInv'
  BY DEF TokensInv, tokenVars, TokensTyped, TokensTypeOK, HasToken, OneFlight, ReadsAreCurrent,
         TokenIsKept, Storing

LEMMA TokensStepInv == TokensInv /\ [TokensNext]_tokenVars => TokensInv'
  <1>. SUFFICES ASSUME TokensInv, [TokensNext]_tokenVars PROVE TokensInv'
    OBVIOUS
  <1>1. CASE UNCHANGED tokenVars
    BY <1>1, TokensStutterInv
  <1>2. ASSUME NEW w \in Workers,
               ReadAccount(w) \/ Refresh(w) \/ Reread(w) \/ WriteBack(w) \/ Leave(w)
        PROVE  TokensInv'
    BY <1>2, ReadInv, RefreshInv, RereadInv, WriteBackInv, LeaveInv
  <1>3. ASSUME NEW f \in Flights,
               \/ ReadForRefresh(f) \/ ProviderAnswers(f) \/ ProviderRefuses(f)
               \/ AnswerLost(f) \/ StoreRefreshed(f)
        PROVE  TokensInv'
    BY <1>3, ReadForRefreshInv, AnswersInv, RefusesInv, LostInv, StoreInv
  <1>4. CASE Restart
    BY <1>4, TokensRestartInv
  <1>. QED  BY <1>1, <1>2, <1>3, <1>4 DEF TokensNext

-----------------------------------------------------------------------------
(* The theorems *)

\* Every variable stays in its range: the row and what flights and workers carry
\* always hold a token the provider has issued.
THEOREM TokensTypeCorrect == TokensSpec => []TokensTypeOK
  <1>1. TokensInv => TokensTypeOK
    BY DEF TokensInv, TokensTyped
  <1>. QED  BY TokensInitInv, TokensStepInv, <1>1, PTL DEF TokensSpec

\* No refresh presents a spent token, for any number of workers and rotations:
\* there is one flight at a time, and the row it reads holds the valid token.
THEOREM SpentTokensStayHome == TokensSpec => []NeverPresentsSpentToken
  <1>1. TokensInv => NeverPresentsSpentToken
    BY DEF TokensInv, TokenIsKept, NeverPresentsSpentToken
  <1>. QED  BY TokensInitInv, TokensStepInv, <1>1, PTL DEF TokensSpec

\* The row holds the token the provider accepts whenever no answer is about to
\* be stored, whoever wrote extraConfig back in between.
THEOREM RowStaysValid == TokensSpec => []StoredTokenIsValid
  <1>1. TokensInv => StoredTokenIsValid
    BY DEF TokensInv, TokenIsKept, StoredTokenIsValid
  <1>. QED  BY TokensInitInv, TokensStepInv, <1>1, PTL DEF TokensSpec

-----------------------------------------------------------------------------
(***************************************************************************)
(* OAuth logins                                                            *)
(***************************************************************************)

\* The stages of a login that has written its account and has yet to answer for it,
\* and those in which it has not yet found one.
WriterStages == {"snapshot", "clearing", "asking", "restoring", "reverting", "activating",
                 "rebuilding"}
EarlyStages == {"idle", "exchanging", "models", "finding"}
LoginStages == EarlyStages \cup {"upserting", "rebuildingLast"} \cup WriterStages

AccountRow == {row \in [status : {"none", "gone", "active", "disabled"},
                        token : 0..MaxMarks, models : 0..MaxMarks] :
                  ~Real(row) => row.token = 0 /\ row.models = 0}
LoginRow == [pc : LoginStages, session : LoginSessions \cup {"none"},
             import : {"no", "active", "disabled"}, rebind : OauthAccounts \cup {0},
             mark : 0..MaxMarks, at : OauthAccounts \cup {0}, created : BOOLEAN,
             before : AccountRow, models : 0..MaxMarks, seen : 0..MaxMarks]
SessionRow == [status : {"unused", "pending", "success", "error", "expired"},
               rebind : OauthAccounts \cup {0}]

LoginTyped ==
    /\ account \in [OauthAccounts -> AccountRow] /\ expected \in [OauthAccounts -> AccountRow]
    /\ loginSession \in [LoginSessions -> SessionRow]
    /\ login \in [Logins -> LoginRow]
    /\ marks \in 1..MaxMarks /\ crossed \subseteq OauthAccounts

\* Ids are given out once: an account that is gone does not come back.
GivenOut(a) == a # 0 => account[a].status # "none"
Vanished(a) == a # 0 => account[a].status = "gone"

\* What holds of a login wherever it is.
Course(l) ==
    /\ login[l].pc = "idle" <=> login[l] = NoLogin
    /\ GivenOut(login[l].rebind)
    /\ login[l].pc \in EarlyStages => login[l].at = 0 /\ ~login[l].created
    /\ login[l].pc \in {"upserting", "snapshot", "restoring", "activating"} => ~login[l].created
    /\ login[l].pc \in WriterStages \cup {"rebuildingLast"} => login[l].at # 0
    /\ login[l].rebind = 0 /\ login[l].pc \in EarlyStages \cup {"upserting", "snapshot"}
          => login[l].models = 0
    /\ login[l].created \/ (login[l].pc = "upserting" /\ login[l].at = 0)
          => Vanished(login[l].rebind)
    /\ login[l].created => ~Real(login[l].before)
    /\ login[l].at # 0 /\ ~login[l].created =>
          Real(login[l].before) /\ login[l].rebind \in {0, login[l].at}
    /\ login[l].at = 0 => login[l].before = NoAccount
    /\ login[l].pc \in {"clearing", "asking", "restoring", "activating"} => Discovers(l)
    /\ login[l].pc = "activating" => login[l].import = "no"

LoginCourse ==
    /\ LoginTyped
    /\ \A s \in LoginSessions : GivenOut(loginSession[s].rebind)
    /\ \A l \in Logins : Course(l)

-----------------------------------------------------------------------------
(* Rows and records *)

LEMMA AccountRowFacts ==
    /\ NoAccount \in AccountRow /\ Deleted \in AccountRow /\ ~Real(NoAccount)
    /\ \A row \in AccountRow : row.token \in 0..MaxMarks /\ row.models \in 0..MaxMarks
    /\ \A status \in {"active", "disabled"}, t, m \in 0..MaxMarks :
          /\ [status |-> status, token |-> t, models |-> m] \in AccountRow
          /\ Real([status |-> status, token |-> t, models |-> m])
    /\ \A row : Real(row) <=> row.status \in {"active", "disabled"}
    /\ \A row \in AccountRow : Real(row) \/ row.status \in {"none", "gone"}
  <1>1. 0 \in 0..MaxMarks
    BY OAuthLoginAssumption
  <1>2. NoAccount \in AccountRow /\ ~Real(NoAccount)
    BY <1>1 DEF NoAccount, AccountRow, Real
  <1>3. Deleted = [status |-> "gone", token |-> 0, models |-> 0]
    BY DEF Deleted, NoAccount
  <1>4. Deleted \in AccountRow
    BY <1>1, <1>3 DEF AccountRow
  <1>5. \A row \in AccountRow : row.token \in 0..MaxMarks /\ row.models \in 0..MaxMarks
    BY DEF AccountRow
  <1>6. \A status \in {"active", "disabled"}, t, m \in 0..MaxMarks :
          /\ [status |-> status, token |-> t, models |-> m] \in AccountRow
          /\ Real([status |-> status, token |-> t, models |-> m])
    BY DEF AccountRow, Real
  <1>7. \A row : Real(row) <=> row.status \in {"active", "disabled"}
    BY DEF Real
  <1>8. \A row \in AccountRow : Real(row) \/ row.status \in {"none", "gone"}
    BY DEF Real, AccountRow
  <1>. QED  BY <1>2, <1>4, <1>5, <1>6, <1>7, <1>8

\* A real row with one of its fields changed.
LEMMA RowChanges ==
    ASSUME NEW row \in AccountRow, Real(row),
           NEW status \in {"active", "disabled"}, NEW t \in 0..MaxMarks, NEW m \in 0..MaxMarks
    PROVE  /\ [row EXCEPT !.status = status] = [status |-> status, token |-> row.token, models |-> row.models]
           /\ [row EXCEPT !.token = t, !.status = status] =
                  [status |-> status, token |-> t, models |-> row.models]
           /\ [row EXCEPT !.models = m] = [status |-> row.status, token |-> row.token, models |-> m]
  <1>1. row \in [status : {"none", "gone", "active", "disabled"},
                token : 0..MaxMarks, models : 0..MaxMarks]
    BY DEF AccountRow
  <1>2. [row EXCEPT !.status = status] = [status |-> status, token |-> row.token, models |-> row.models]
    BY <1>1
  <1>3. [row EXCEPT !.token = t, !.status = status] =
            [status |-> status, token |-> t, models |-> row.models]
    <2>. DEFINE mid == [row EXCEPT !.token = t]
    <2>1. mid = [status |-> row.status, token |-> t, models |-> row.models]
      BY <1>1
    <2>2. [mid EXCEPT !.status = status] = [status |-> status, token |-> t, models |-> row.models]
      <3>. HIDE DEF mid
      <3>. QED  BY <2>1
    <2>. QED  BY <2>2
  <1>4. [row EXCEPT !.models = m] = [status |-> row.status, token |-> row.token, models |-> m]
    BY <1>1
  <1>. QED  BY <1>2, <1>3, <1>4

\* The login moves on to a stage, and changes some of what it remembers.
Became(l, pc, at, created, before, models) ==
    /\ login' \in [Logins -> LoginRow]
    /\ \A q \in Logins \ {l} : login'[q] = login[q]
    /\ login'[l].pc = pc /\ login'[l].at = at /\ login'[l].created = created
    /\ login'[l].before = before /\ login'[l].models = models
    /\ login'[l].import = login[l].import /\ login'[l].rebind = login[l].rebind
    /\ login'[l].mark = login[l].mark

LEMMA StepBecomes ==
    ASSUME LoginTyped, NEW l \in Logins, NEW rec \in LoginRow, Step(l, rec)
    PROVE  /\ login' \in [Logins -> LoginRow] /\ login'[l] = rec
           /\ \A q \in Logins \ {l} : login'[q] = login[q]
  BY DEF LoginTyped, Step

LEMMA TurnBecomes ==
    ASSUME LoginTyped, NEW l \in Logins, NEW pc \in LoginStages, Turn(l, pc)
    PROVE  Became(l, pc, login[l].at, login[l].created, login[l].before, login[l].models)
  <1>1. login[l] \in LoginRow
    BY DEF LoginTyped
  <1>. DEFINE rec == [login[l] EXCEPT !.pc = pc]
  <1>2. rec \in LoginRow
    BY <1>1 DEF LoginRow
  <1>3. /\ rec.pc = pc /\ rec.at = login[l].at /\ rec.created = login[l].created
        /\ rec.before = login[l].before /\ rec.models = login[l].models
        /\ rec.import = login[l].import /\ rec.rebind = login[l].rebind
        /\ rec.mark = login[l].mark
    BY <1>1 DEF LoginRow
  <1>4. Step(l, rec)
    BY DEF Turn
  <1>. HIDE DEF rec
  <1>. QED  BY <1>2, <1>3, <1>4, StepBecomes DEF Became

\* The same with the fields that single steps change.
LEMMA RecordBecomes ==
    ASSUME LoginTyped, NEW l \in Logins, NEW pc \in LoginStages, NEW m \in 0..MaxMarks,
           NEW a \in OauthAccounts
    PROVE  /\ Step(l, [login[l] EXCEPT !.pc = pc, !.models = m])
                => Became(l, pc, login[l].at, login[l].created, login[l].before, m)
           /\ Step(l, [login[l] EXCEPT !.pc = pc, !.at = a, !.before = account[a]])
                => Became(l, pc, a, login[l].created, account[a], login[l].models)
           /\ Step(l, [login[l] EXCEPT !.pc = pc, !.at = a, !.created = TRUE])
                => Became(l, pc, a, TRUE, login[l].before, login[l].models)
           /\ Step(l, [login[l] EXCEPT !.pc = pc, !.seen = m])
                => Became(l, pc, login[l].at, login[l].created, login[l].before, login[l].models)
  <1>1. login[l] \in LoginRow /\ account[a] \in AccountRow
    BY DEF LoginTyped
  <1>. DEFINE Like(rec) == /\ rec.import = login[l].import /\ rec.rebind = login[l].rebind
                           /\ rec.mark = login[l].mark /\ rec.pc = pc /\ rec \in LoginRow
              rec1 == [login[l] EXCEPT !.pc = pc, !.models = m]
              rec2 == [login[l] EXCEPT !.pc = pc, !.at = a, !.before = account[a]]
              rec3 == [login[l] EXCEPT !.pc = pc, !.at = a, !.created = TRUE]
              rec4 == [login[l] EXCEPT !.pc = pc, !.seen = m]
  <1>2. Like(rec1) /\ rec1.at = login[l].at /\ rec1.created = login[l].created
          /\ rec1.before = login[l].before /\ rec1.models = m
    BY <1>1 DEF LoginRow
  <1>3. Like(rec2) /\ rec2.at = a /\ rec2.created = login[l].created
          /\ rec2.before = account[a] /\ rec2.models = login[l].models
    BY <1>1 DEF LoginRow
  <1>4. Like(rec3) /\ rec3.at = a /\ rec3.created = TRUE
          /\ rec3.before = login[l].before /\ rec3.models = login[l].models
    BY <1>1 DEF LoginRow
  <1>5. Like(rec4) /\ rec4.at = login[l].at /\ rec4.created = login[l].created
          /\ rec4.before = login[l].before /\ rec4.models = login[l].models
    BY <1>1 DEF LoginRow
  <1>. HIDE DEF rec1, rec2, rec3, rec4
  <1>6. Step(l, rec1) => Became(l, pc, login[l].at, login[l].created, login[l].before, m)
    BY <1>2, StepBecomes DEF Became
  <1>7. Step(l, rec2) => Became(l, pc, a, login[l].created, account[a], login[l].models)
    BY <1>3, StepBecomes DEF Became
  <1>8. Step(l, rec3) => Became(l, pc, a, TRUE, login[l].before, login[l].models)
    BY <1>4, StepBecomes DEF Became
  <1>9. Step(l, rec4) => Became(l, pc, login[l].at, login[l].created, login[l].before, login[l].models)
    BY <1>5, StepBecomes DEF Became
  <1>. QED  BY <1>6, <1>7, <1>8, <1>9 DEF rec1, rec2, rec3, rec4

\* What a write does to the accounts, and that it crosses a login that is there.
LEMMA WriteFacts ==
    ASSUME LoginTyped, NEW ls, NEW a \in OauthAccounts, NEW row \in AccountRow,
           Writes(ls, a, row)
    PROVE  /\ account' \in [OauthAccounts -> AccountRow] /\ crossed' \subseteq OauthAccounts
           /\ account'[a] = row /\ \A b \in OauthAccounts \ {a} : account'[b] = account[b]
           /\ crossed \subseteq crossed'
           /\ a \notin crossed' => ~OthersAt(a, ls)
  BY DEF LoginTyped, Writes

\* An account that was given out stays so, and one that is gone stays gone.
Ages ==
    \A a \in OauthAccounts :
        /\ account[a].status # "none" => account'[a].status # "none"
        /\ account[a].status = "gone" => account'[a].status = "gone"

LEMMA WriteAges ==
    ASSUME LoginTyped, NEW ls, NEW a \in OauthAccounts, NEW row \in AccountRow,
           Writes(ls, a, row), row.status # "none",
           Real(account[a]) \/ account[a].status = "none"
    PROVE  Ages
  <1>1. account'[a] = row /\ \A b \in OauthAccounts \ {a} : account'[b] = account[b]
    BY WriteFacts
  <1>2. account[a].status # "gone"
    BY DEF Real
  <1>. QED  BY <1>1, <1>2 DEF Ages

\* The answer leaves the accounts and sets what is expected of them.
LEMMA AnswerFacts ==
    ASSUME LoginTyped, NEW l \in Logins, NEW status \in {"success", "error"}, NEW rows,
           rows \in [OauthAccounts -> AccountRow], Answered(l, status, rows)
    PROVE  /\ account' = account /\ expected' \in [OauthAccounts -> AccountRow]
           /\ login' \in [Logins -> LoginRow] /\ login'[l] = NoLogin
           /\ \A q \in Logins \ {l} : login'[q] = login[q]
           /\ crossed' \subseteq crossed /\ loginSession' \in [LoginSessions -> SessionRow]
           /\ \A s \in LoginSessions : loginSession'[s].rebind = loginSession[s].rebind
           /\ \A a \in OauthAccounts :
                 /\ a \in crossed /\ a \notin crossed' =>
                       expected'[a] = account[a] /\ a \in Held(l) /\ ~OthersAt(a, {l})
                 /\ a \notin crossed /\ a \in Held(l) => expected'[a] = rows[a]
                 /\ a \notin crossed /\ a \notin Held(l) => expected'[a] = expected[a]
  <1>. DEFINE left == {a \in Held(l) : ~OthersAt(a, {l})}
              answered(a) == CASE a \in left \cap crossed -> account[a]
                               [] a \in Held(l) \ crossed -> rows[a]
                               [] OTHER -> expected[a]
  <1>1. /\ expected' = [a \in OauthAccounts |-> answered(a)]
        /\ crossed' = crossed \ left /\ login' = [login EXCEPT ![l] = NoLogin]
        /\ Told(login[l].session, status) /\ account' = account
    BY DEF Answered
  <1>2. ASSUME NEW a \in OauthAccounts
        PROVE  /\ a \in left \cap crossed => answered(a) = account[a]
               /\ a \notin crossed /\ a \in Held(l) => answered(a) = rows[a]
               /\ a \notin left \cap crossed /\ a \notin Held(l) \ crossed => answered(a) = expected[a]
    OBVIOUS
  <1>. HIDE DEF answered
  <1>3. NoLogin \in LoginRow
    BY AccountRowFacts, OAuthLoginAssumption DEF NoLogin, LoginRow, LoginStages, EarlyStages
  <1>4. login' \in [Logins -> LoginRow] /\ login'[l] = NoLogin
        /\ \A q \in Logins \ {l} : login'[q] = login[q]
    BY <1>1, <1>3 DEF LoginTyped
  <1>5. /\ loginSession' \in [LoginSessions -> SessionRow]
        /\ \A s \in LoginSessions : loginSession'[s].rebind = loginSession[s].rebind
    <2>1. ASSUME NEW s \in LoginSessions
          PROVE  /\ loginSession[s] \in SessionRow
                 /\ [loginSession[s] EXCEPT !.status = status] \in SessionRow
                 /\ [loginSession[s] EXCEPT !.status = status].rebind = loginSession[s].rebind
      BY DEF LoginTyped, SessionRow
    <2>. QED  BY <1>1, <2>1 DEF Told
  <1>6. expected' \in [OauthAccounts -> AccountRow]
    <2>1. ASSUME NEW a \in OauthAccounts PROVE answered(a) \in AccountRow
      BY <1>2 DEF LoginTyped
    <2>. QED  BY <1>1, <2>1
  <1>7. ASSUME NEW a \in OauthAccounts
        PROVE  /\ a \in crossed /\ a \notin crossed' =>
                      expected'[a] = account[a] /\ a \in Held(l) /\ ~OthersAt(a, {l})
               /\ a \notin crossed /\ a \in Held(l) => expected'[a] = rows[a]
               /\ a \notin crossed /\ a \notin Held(l) => expected'[a] = expected[a]
    BY <1>1, <1>2
  <1>. QED  BY <1>1, <1>4, <1>5, <1>6, <1>7

-----------------------------------------------------------------------------
(* What the steps do *)

\* A step that leaves the accounts.
LEMMA NoAging == UNCHANGED account => Ages
  BY DEF Ages

LEMMA IdleFacts ==
    /\ NoLogin.pc = "idle" /\ NoLogin.at = 0 /\ NoLogin.created = FALSE /\ NoLogin.models = 0
    /\ NoLogin.rebind = 0 /\ NoLogin.before = NoAccount /\ NoLogin \in LoginRow
  <1>1. NoLogin \in LoginRow
    BY AccountRowFacts, OAuthLoginAssumption DEF NoLogin, LoginRow, LoginStages, EarlyStages
  <1>. QED  BY <1>1 DEF NoLogin

\* A login on its way: what it may have come to remember by its new stage.
Sound(l, pc, at, created, before, models) ==
    /\ pc \in EarlyStages => at = 0 /\ ~created
    /\ pc \in {"upserting", "snapshot", "restoring", "activating"} => ~created
    /\ pc \in WriterStages \cup {"rebuildingLast"} => at # 0
    /\ login[l].rebind = 0 /\ pc \in EarlyStages \cup {"upserting", "snapshot"} => models = 0
    /\ created \/ (pc = "upserting" /\ at = 0) => Vanished(login[l].rebind)
    /\ created => ~Real(before)
    /\ at # 0 /\ ~created => Real(before) /\ login[l].rebind \in {0, at}
    /\ at = 0 => before = NoAccount
    /\ pc \in {"clearing", "asking", "restoring", "activating"} => Discovers(l)
    /\ pc = "activating" => login[l].import = "no"

LEMMA BecameCourse ==
    ASSUME LoginCourse, Ages, NEW l \in Logins, NEW pc, NEW at, NEW created, NEW before,
           NEW models, Became(l, pc, at, created, before, models), pc # "idle",
           Sound(l, pc, at, created, before, models)
    PROVE  \A q \in Logins : Course(q)'
  <1>1. \A a \in OauthAccounts \cup {0} :
            (GivenOut(a) => GivenOut(a)') /\ (Vanished(a) => Vanished(a)')
    BY DEF Ages, GivenOut, Vanished
  <1>2. \A q \in Logins : login[q].rebind \in OauthAccounts \cup {0} /\ Course(q)
    BY DEF LoginCourse, LoginTyped, LoginRow
  <1>3. ASSUME NEW q \in Logins, q # l PROVE Course(q)'
    <2>1. login'[q] = login[q]
      BY <1>3 DEF Became
    <2>. QED  BY <1>1, <1>2, <2>1 DEF Course, Discovers
  <1>4. Course(l)'
    <2>1. login'[l] # NoLogin
      BY IdleFacts DEF Became
    <2>2. /\ login'[l].pc = pc /\ login'[l].at = at /\ login'[l].created = created
          /\ login'[l].before = before /\ login'[l].models = models
          /\ login'[l].import = login[l].import /\ login'[l].rebind = login[l].rebind
      BY DEF Became
    <2>. QED  BY <1>1, <1>2, <2>1, <2>2 DEF Course, Sound, Discovers
  <1>. QED  BY <1>3, <1>4

LEMMA IdleCourse ==
    ASSUME LoginCourse, Ages, NEW l \in Logins, login'[l] = NoLogin,
           \A q \in Logins \ {l} : login'[q] = login[q]
    PROVE  \A q \in Logins : Course(q)'
  <1>1. \A a \in OauthAccounts \cup {0} :
            (GivenOut(a) => GivenOut(a)') /\ (Vanished(a) => Vanished(a)')
    BY DEF Ages, GivenOut, Vanished
  <1>2. \A q \in Logins : login[q].rebind \in OauthAccounts \cup {0} /\ Course(q)
    BY DEF LoginCourse, LoginTyped, LoginRow
  <1>3. ASSUME NEW q \in Logins, q # l PROVE Course(q)'
    <2>1. login'[q] = login[q]
      BY <1>3
    <2>. QED  BY <1>1, <1>2, <2>1 DEF Course, Discovers
  <1>4. Course(l)'
    BY IdleFacts, AccountRowFacts DEF Course, GivenOut, Vanished, EarlyStages, WriterStages
  <1>. QED  BY <1>3, <1>4

-----------------------------------------------------------------------------
(* Who is to answer for an account *)

\* A login that has written the account and not yet answered for it.
Writer(l, a) == login[l].at = a /\ login[l].pc \in WriterStages

Agrees(row, exp) == Real(row) \/ Real(exp) => row = exp

\* What a login that has written nothing yet can count on at a.
CountsOn(l, a, row, pc, at, before, models) ==
    /\ pc = "finding" /\ login[l].rebind = a => models = IF Real(row) THEN row.models ELSE 0
    /\ pc = "upserting" /\ at = a =>
          /\ row = before /\ Real(row)
          /\ login[l].rebind # 0 => models = before.models

\* What one that has written the account can put back, and what it has made of it.
Owes(l, row, exp, pc, created, before, models) ==
    /\ IF created THEN ~Real(exp)
       ELSE /\ Real(exp) /\ exp = before
            /\ pc # "snapshot" => models = before.models
    /\ Real(row)
    /\ pc # "reverting" => row.token = login[l].mark
    /\ pc \in {"snapshot", "clearing", "asking"} /\ (login[l].import # "no" \/ created) =>
          row.status = IF login[l].import = "no" THEN "active" ELSE login[l].import
    /\ pc = "snapshot" => row.models = before.models
    /\ pc = "activating" => row.models = login[l].mark
    /\ pc = "rebuilding" =>
          /\ row.status = IF login[l].import = "no" THEN "active" ELSE login[l].import
          /\ row.models = IF Discovers(l) THEN login[l].mark ELSE before.models

\* An account no write has crossed: it is as the answers say, or one login has yet to
\* answer for it and remembers what to put back.
AccountSettled(a) ==
    /\ Agrees(account[a], expected[a]) \/ \E l \in Logins : Writer(l, a)
    /\ \A l, k \in Logins : Writer(l, a) /\ Writer(k, a) => l = k
    /\ \A l \in Logins :
          /\ CountsOn(l, a, account[a], login[l].pc, login[l].at, login[l].before, login[l].models)
          /\ Writer(l, a) => Owes(l, account[a], expected[a], login[l].pc, login[l].created,
                                  login[l].before, login[l].models)

LoginInv ==
    /\ LoginCourse
    /\ \A a \in OauthAccounts \ crossed : AccountSettled(a)

\* A login moves on without a write.
LEMMA MoveSettles ==
    ASSUME LoginInv, NEW l \in Logins, NEW pc, NEW at, NEW created, NEW before, NEW models,
           Became(l, pc, at, created, before, models), UNCHANGED <<account, expected>>,
           NEW a \in OauthAccounts \ crossed,
           CountsOn(l, a, account[a], pc, at, before, models),
           at = a /\ pc \in WriterStages =>
              Writer(l, a) /\ Owes(l, account[a], expected[a], pc, created, before, models),
           Writer(l, a) => (at = a /\ pc \in WriterStages) \/ Agrees(account[a], expected[a])
    PROVE  AccountSettled(a)'
  <1>1. AccountSettled(a)
    BY DEF LoginInv
  <1>2. /\ login'[l].pc = pc /\ login'[l].at = at /\ login'[l].created = created
        /\ login'[l].before = before /\ login'[l].models = models
        /\ login'[l].import = login[l].import /\ login'[l].rebind = login[l].rebind
        /\ login'[l].mark = login[l].mark
    BY DEF Became
  <1>3. ASSUME NEW q \in Logins, q # l PROVE login'[q] = login[q]
    BY <1>3 DEF Became
  <1>4. Writer(l, a)' <=> at = a /\ pc \in WriterStages
    BY <1>2 DEF Writer
  <1>5. ASSUME NEW q \in Logins, q # l PROVE Writer(q, a)' <=> Writer(q, a)
    BY <1>3, <1>5 DEF Writer
  <1>6. Agrees(account[a], expected[a])' \/ \E q \in Logins : Writer(q, a)'
    <2>1. CASE Agrees(account[a], expected[a])
      BY <2>1 DEF Agrees
    <2>2. CASE ~Agrees(account[a], expected[a])
      BY <1>1, <1>4, <1>5, <2>2 DEF AccountSettled
    <2>. QED  BY <2>1, <2>2
  <1>7. \A q, k \in Logins : Writer(q, a)' /\ Writer(k, a)' => q = k
    BY <1>1, <1>4, <1>5 DEF AccountSettled
  <1>8. ASSUME NEW q \in Logins, q # l
        PROVE  /\ CountsOn(q, a, account[a], login[q].pc, login[q].at, login[q].before, login[q].models)'
               /\ Writer(q, a)' => Owes(q, account[a], expected[a], login[q].pc, login[q].created,
                                        login[q].before, login[q].models)'
    BY <1>1, <1>3, <1>5, <1>8 DEF AccountSettled, CountsOn, Owes, Discovers
  <1>9. CountsOn(l, a, account[a], login[l].pc, login[l].at, login[l].before, login[l].models)'
    BY <1>2 DEF CountsOn
  <1>10. Writer(l, a)' => Owes(l, account[a], expected[a], login[l].pc, login[l].created,
                               login[l].before, login[l].models)'
    BY <1>2, <1>4 DEF Owes, Discovers
  <1>. QED  BY <1>6, <1>7, <1>8, <1>9, <1>10 DEF AccountSettled

\* A login writes its account: who else was there is crossed.
LEMMA WriteSettles ==
    ASSUME LoginInv, NEW l \in Logins, NEW pc, NEW at \in OauthAccounts, NEW created, NEW before,
           NEW models, Became(l, pc, at, created, before, models), expected' = expected,
           NEW row \in AccountRow, Writes({l}, at, row), login[l].at \in {0, at},
           pc \notin {"finding", "upserting"},
           at \notin crossed /\ (\A q \in Logins : q # l => at \notin Held(q)) =>
              IF pc \in WriterStages
              THEN Owes(l, row, expected[at], pc, created, before, models)
              ELSE Agrees(row, expected[at])
    PROVE  \A a \in OauthAccounts \ crossed' : AccountSettled(a)'
  <1>1. /\ account'[at] = row /\ crossed \subseteq crossed'
        /\ \A b \in OauthAccounts \ {at} : account'[b] = account[b]
        /\ at \notin crossed' => ~OthersAt(at, {l})
    BY WriteFacts DEF LoginInv, LoginCourse
  <1>2. /\ login'[l].pc = pc /\ login'[l].at = at /\ login'[l].created = created
        /\ login'[l].before = before /\ login'[l].models = models
        /\ login'[l].import = login[l].import /\ login'[l].rebind = login[l].rebind
        /\ login'[l].mark = login[l].mark
    BY DEF Became
  <1>3. ASSUME NEW q \in Logins, q # l PROVE login'[q] = login[q]
    BY <1>3 DEF Became
  <1>4. ASSUME at \notin crossed'
        PROVE  AccountSettled(at)'
    <2>1. at \notin crossed /\ \A q \in Logins : q # l => at \notin Held(q)
      BY <1>1, <1>4 DEF OthersAt
    <2>2. ASSUME NEW q \in Logins, q # l
          PROVE  /\ ~Writer(q, at)'
                 /\ CountsOn(q, at, account[at], login[q].pc, login[q].at, login[q].before, login[q].models)'
      <3>1. login'[q] = login[q] /\ at \notin Held(q) /\ at # 0
        BY <1>3, <2>1, <2>2, OAuthLoginAssumption
      <3>. QED  BY <3>1 DEF Held, Writer, WriterStages, CountsOn
    <2>3. CountsOn(l, at, account[at], login[l].pc, login[l].at, login[l].before, login[l].models)'
      BY <1>2 DEF CountsOn
    <2>4. CASE pc \in WriterStages
      <3>1. Writer(l, at)'
        BY <1>2, <2>4 DEF Writer
      <3>2. Owes(l, account[at], expected[at], login[l].pc, login[l].created,
                 login[l].before, login[l].models)'
        BY <1>1, <1>2, <2>1, <2>4 DEF Owes, Discovers
      <3>. QED  BY <2>2, <2>3, <3>1, <3>2 DEF AccountSettled
    <2>5. CASE pc \notin WriterStages
      <3>1. ~Writer(l, at)' /\ Agrees(account[at], expected[at])'
        BY <1>1, <1>2, <2>1, <2>5 DEF Writer, Agrees
      <3>. QED  BY <2>2, <2>3, <3>1 DEF AccountSettled
    <2>. QED  BY <2>4, <2>5
  <1>5. ASSUME NEW a \in OauthAccounts \ crossed', a # at
        PROVE  AccountSettled(a)'
    <2>1. a \notin crossed /\ account'[a] = account[a] /\ expected'[a] = expected[a] /\ AccountSettled(a)
      BY <1>1, <1>5 DEF LoginInv
    <2>2. ~Writer(l, a) /\ ~Writer(l, a)'
      BY <1>2, <1>5, OAuthLoginAssumption DEF Writer
    <2>3. ASSUME NEW q \in Logins, q # l
          PROVE  /\ Writer(q, a)' <=> Writer(q, a)
                 /\ CountsOn(q, a, account[a], login[q].pc, login[q].at, login[q].before, login[q].models)'
                 /\ Writer(q, a)' => Owes(q, account[a], expected[a], login[q].pc, login[q].created,
                                          login[q].before, login[q].models)'
      BY <1>3, <2>1, <2>3 DEF AccountSettled, Writer, CountsOn, Owes, Discovers
    <2>4. CountsOn(l, a, account[a], login[l].pc, login[l].at, login[l].before, login[l].models)'
      BY <1>2 DEF CountsOn
    <2>5. Agrees(account[a], expected[a])' \/ \E q \in Logins : Writer(q, a)'
      BY <2>1, <2>2, <2>3 DEF AccountSettled, Agrees
    <2>6. \A q, k \in Logins : Writer(q, a)' /\ Writer(k, a)' => q = k
      BY <2>1, <2>2, <2>3 DEF AccountSettled
    <2>. QED  BY <2>2, <2>3, <2>4, <2>5, <2>6 DEF AccountSettled
  <1>. QED  BY <1>4, <1>5

\* A login answers: it says what is expected of an account it leaves settled, or one
\* that others crossed is taken as it is by the last of them.
LEMMA AnswerSettles ==
    ASSUME LoginInv, NEW l \in Logins, NEW status \in {"success", "error"}, NEW rows,
           rows \in [OauthAccounts -> AccountRow], Answered(l, status, rows),
           \A a \in Held(l) \ crossed : a \in OauthAccounts =>
              \/ rows[a] = expected[a] /\ (Writer(l, a) => Agrees(account[a], expected[a]))
              \/ Agrees(account[a], rows[a]) /\ \A q \in Logins : Writer(q, a) => q = l
    PROVE  \A a \in OauthAccounts \ crossed' : AccountSettled(a)'
  <1>1. /\ account' = account /\ login'[l] = NoLogin
        /\ \A q \in Logins : q # l => login'[q] = login[q]
        /\ \A a \in OauthAccounts :
              /\ a \in crossed /\ a \notin crossed' =>
                    expected'[a] = account[a] /\ a \in Held(l) /\ ~OthersAt(a, {l})
              /\ a \notin crossed /\ a \in Held(l) => expected'[a] = rows[a]
              /\ a \notin crossed /\ a \notin Held(l) => expected'[a] = expected[a]
    BY AnswerFacts DEF LoginInv, LoginCourse
  <1>. SUFFICES ASSUME NEW a \in OauthAccounts \ crossed'
                PROVE  AccountSettled(a)'
    OBVIOUS
  <1>2. ~Writer(l, a)'
        /\ CountsOn(l, a, account[a], login[l].pc, login[l].at, login[l].before, login[l].models)'
    BY <1>1, IdleFacts DEF Writer, WriterStages, CountsOn
  <1>3. ASSUME NEW q \in Logins, q # l PROVE Writer(q, a)' <=> Writer(q, a)
    BY <1>1, <1>3 DEF Writer
  <1>4. CASE a \in crossed
    <2>1. expected'[a] = account[a] /\ \A q \in Logins : q # l => a \notin Held(q)
      BY <1>1, <1>4 DEF OthersAt
    <2>2. ASSUME NEW q \in Logins, q # l
          PROVE  /\ ~Writer(q, a)'
                 /\ CountsOn(q, a, account[a], login[q].pc, login[q].at, login[q].before, login[q].models)'
      <3>1. login'[q] = login[q] /\ a \notin Held(q) /\ a # 0
        BY <1>1, <2>1, <2>2, OAuthLoginAssumption
      <3>. QED  BY <3>1 DEF Held, Writer, WriterStages, CountsOn
    <2>3. Agrees(account[a], expected[a])'
      BY <1>1, <2>1 DEF Agrees
    <2>. QED  BY <1>2, <2>2, <2>3 DEF AccountSettled
  <1>5. CASE a \notin crossed
    <2>0. AccountSettled(a)
      BY <1>5 DEF LoginInv
    <2>1. ASSUME NEW q \in Logins, q # l
          PROVE  CountsOn(q, a, account[a], login[q].pc, login[q].at, login[q].before, login[q].models)'
      BY <1>1, <2>0, <2>1 DEF AccountSettled, CountsOn
    <2>2. CASE expected'[a] = expected[a] /\ (Writer(l, a) => Agrees(account[a], expected[a]))
      <3>1. Agrees(account[a], expected[a])' \/ \E q \in Logins : Writer(q, a)'
        <4>1. CASE Agrees(account[a], expected[a])
          BY <1>1, <2>2, <4>1 DEF Agrees
        <4>2. CASE ~Agrees(account[a], expected[a])
          BY <1>3, <2>0, <2>2, <4>2 DEF AccountSettled
        <4>. QED  BY <4>1, <4>2
      <3>2. \A q, k \in Logins : Writer(q, a)' /\ Writer(k, a)' => q = k
        BY <1>2, <1>3, <2>0 DEF AccountSettled
      <3>3. ASSUME NEW q \in Logins, q # l, Writer(q, a)'
            PROVE  Owes(q, account[a], expected[a], login[q].pc, login[q].created,
                        login[q].before, login[q].models)'
        <4>1. Writer(q, a) /\ login'[q] = login[q]
          BY <1>1, <1>3, <3>3
        <4>. QED  BY <1>1, <2>0, <2>2, <3>3, <4>1 DEF AccountSettled, Owes, Discovers
      <3>. QED  BY <1>2, <2>1, <3>1, <3>2, <3>3 DEF AccountSettled
    <2>3. CASE Agrees(account[a], expected'[a]) /\ \A q \in Logins : Writer(q, a) => q = l
      <3>1. Agrees(account[a], expected[a])'
        BY <1>1, <2>3 DEF Agrees
      <3>2. \A q \in Logins : ~Writer(q, a)'
        BY <1>2, <1>3, <2>3
      <3>. QED  BY <1>2, <2>1, <3>1, <3>2 DEF AccountSettled
    <2>4. CASE a \in Held(l)
      BY <1>1, <1>5, <2>2, <2>3, <2>4
    <2>5. CASE a \notin Held(l)
      <3>1. ~Writer(l, a)
        <4>1. a # 0
          BY OAuthLoginAssumption
        <4>. QED  BY <2>5, <4>1 DEF Held, Writer, WriterStages
      <3>. QED  BY <1>1, <1>5, <2>2, <2>5, <3>1
    <2>. QED  BY <2>4, <2>5
  <1>. QED  BY <1>4, <1>5

-----------------------------------------------------------------------------
(* The three kinds of steps keep the invariant *)

\* A move: nobody's account or answer changes.
LEMMA MoveKeeps ==
    ASSUME LoginInv, NEW l \in Logins, NEW pc, NEW at, NEW created, NEW before, NEW models,
           Became(l, pc, at, created, before, models), pc # "idle",
           Sound(l, pc, at, created, before, models),
           UNCHANGED <<account, loginSession, expected, crossed>>, marks' \in 1..MaxMarks,
           \A a \in OauthAccounts \ crossed :
              /\ CountsOn(l, a, account[a], pc, at, before, models)
              /\ at = a /\ pc \in WriterStages =>
                    Writer(l, a) /\ Owes(l, account[a], expected[a], pc, created, before, models)
              /\ Writer(l, a) =>
                    (at = a /\ pc \in WriterStages) \/ Agrees(account[a], expected[a])
    PROVE  LoginInv'
  <1>1. \A q \in Logins : Course(q)'
    BY NoAging, BecameCourse DEF LoginInv
  <1>2. LoginTyped' /\ \A s \in LoginSessions : GivenOut(loginSession[s].rebind)'
    BY DEF LoginInv, LoginCourse, LoginTyped, Became, GivenOut
  <1>3. \A a \in OauthAccounts \ crossed : AccountSettled(a)'
    BY MoveSettles
  <1>. QED  BY <1>1, <1>2, <1>3 DEF LoginInv, LoginCourse

LEMMA WriteKeeps ==
    ASSUME LoginInv, NEW l \in Logins, NEW pc, NEW at \in OauthAccounts, NEW created, NEW before,
           NEW models, Became(l, pc, at, created, before, models), pc # "idle",
           Sound(l, pc, at, created, before, models),
           UNCHANGED <<loginSession, expected>>, marks' \in 1..MaxMarks,
           NEW row \in AccountRow, Writes({l}, at, row), row.status # "none",
           Real(account[at]) \/ account[at].status = "none",
           login[l].at \in {0, at}, pc \notin {"finding", "upserting"},
           at \notin crossed /\ (\A q \in Logins : q # l => at \notin Held(q)) =>
              IF pc \in WriterStages
              THEN Owes(l, row, expected[at], pc, created, before, models)
              ELSE Agrees(row, expected[at])
    PROVE  LoginInv'
  <1>1. Ages
    BY WriteAges DEF LoginInv, LoginCourse
  <1>2. \A q \in Logins : Course(q)'
    BY <1>1, BecameCourse DEF LoginInv
  <1>3. LoginTyped'
    BY WriteFacts DEF LoginInv, LoginCourse, LoginTyped, Became
  <1>4. \A s \in LoginSessions : GivenOut(loginSession[s].rebind)'
    <2>1. \A s \in LoginSessions : loginSession[s].rebind \in OauthAccounts \cup {0}
      BY DEF LoginInv, LoginCourse, LoginTyped, SessionRow
    <2>. QED  BY <1>1, <2>1 DEF LoginInv, LoginCourse, GivenOut, Ages
  <1>5. \A a \in OauthAccounts \ crossed' : AccountSettled(a)'
    BY WriteSettles
  <1>. QED  BY <1>2, <1>3, <1>4, <1>5 DEF LoginInv, LoginCourse

LEMMA AnswerKeeps ==
    ASSUME LoginInv, NEW l \in Logins, NEW status \in {"success", "error"}, NEW rows,
           rows \in [OauthAccounts -> AccountRow], Answered(l, status, rows),
           marks' \in 1..MaxMarks,
           \A a \in Held(l) \ crossed : a \in OauthAccounts =>
              \/ rows[a] = expected[a] /\ (Writer(l, a) => Agrees(account[a], expected[a]))
              \/ Agrees(account[a], rows[a]) /\ \A q \in Logins : Writer(q, a) => q = l
    PROVE  LoginInv'
  <1>1. /\ account' = account /\ expected' \in [OauthAccounts -> AccountRow]
        /\ login' \in [Logins -> LoginRow] /\ login'[l] = NoLogin
        /\ \A q \in Logins \ {l} : login'[q] = login[q]
        /\ crossed' \subseteq crossed /\ loginSession' \in [LoginSessions -> SessionRow]
        /\ \A s \in LoginSessions : loginSession'[s].rebind = loginSession[s].rebind
    BY AnswerFacts DEF LoginInv, LoginCourse
  <1>2. \A q \in Logins : Course(q)'
    BY <1>1, NoAging, IdleCourse DEF LoginInv
  <1>3. LoginTyped' /\ \A s \in LoginSessions : GivenOut(loginSession[s].rebind)'
    BY <1>1 DEF LoginInv, LoginCourse, LoginTyped, GivenOut
  <1>4. \A a \in OauthAccounts \ crossed' : AccountSettled(a)'
    BY AnswerSettles
  <1>. QED  BY <1>2, <1>3, <1>4 DEF LoginInv, LoginCourse

-----------------------------------------------------------------------------
(* The steps of a login *)

LEMMA LoginFacts ==
    ASSUME LoginInv, NEW l \in Logins
    PROVE  /\ login[l].at \in OauthAccounts \cup {0} /\ login[l].rebind \in OauthAccounts \cup {0}
           /\ login[l].mark \in 0..MaxMarks /\ login[l].models \in 0..MaxMarks
           /\ login[l].seen \in 0..MaxMarks /\ login[l].before \in AccountRow
           /\ login[l].import \in {"no", "active", "disabled"} /\ login[l].created \in BOOLEAN
           /\ login[l].pc \in LoginStages /\ 0 \notin OauthAccounts
           /\ marks \in 1..MaxMarks /\ account \in [OauthAccounts -> AccountRow]
           /\ expected \in [OauthAccounts -> AccountRow]
  BY OAuthLoginAssumption DEF LoginInv, LoginCourse, LoginTyped, LoginRow

LEMMA CourseFacts ==
    ASSUME LoginInv, NEW l \in Logins
    PROVE  Course(l)
  BY DEF LoginInv, LoginCourse

\* What is known of an uncrossed account that a login has written.
LEMMA WriterFacts ==
    ASSUME LoginInv, NEW l \in Logins, NEW a \in OauthAccounts \ crossed, Writer(l, a)
    PROVE  /\ Owes(l, account[a], expected[a], login[l].pc, login[l].created,
                   login[l].before, login[l].models)
           /\ Exists(a) /\ \A q \in Logins : Writer(q, a) => q = l
  <1>1. AccountSettled(a) /\ a # 0
    BY OAuthLoginAssumption DEF LoginInv
  <1>2. Owes(l, account[a], expected[a], login[l].pc, login[l].created,
             login[l].before, login[l].models)
    BY <1>1 DEF AccountSettled
  <1>. QED  BY <1>1, <1>2 DEF AccountSettled, Owes, Exists

\* And of one that nobody else is at, before a login writes it.
LEMMA AloneFacts ==
    ASSUME LoginInv, NEW l \in Logins, NEW a \in OauthAccounts \ crossed, ~Writer(l, a),
           \A q \in Logins : q # l => a \notin Held(q)
    PROVE  Agrees(account[a], expected[a])
  <1>1. AccountSettled(a) /\ a # 0
    BY OAuthLoginAssumption DEF LoginInv
  <1>2. ASSUME NEW q \in Logins, Writer(q, a)
        PROVE  FALSE
    BY <1>1, <1>2 DEF Held, Writer, WriterStages
  <1>. QED  BY <1>1, <1>2 DEF AccountSettled

\* A login that has written nothing is refused, and nothing is to be put back.
LEMMA RefusedKeeps ==
    ASSUME LoginInv, NEW l \in Logins, Refused(l), marks' \in 1..MaxMarks,
           \A a \in OauthAccounts \ crossed : ~Writer(l, a)
    PROVE  LoginInv'
  <1>1. Answered(l, "error", expected) /\ expected \in [OauthAccounts -> AccountRow]
    BY LoginFacts DEF Refused
  <1>. QED  BY <1>1, AnswerKeeps

\* The account a login had written is gone: that crossed it.
LEMMA GoneIsCrossed ==
    ASSUME LoginInv, NEW l \in Logins, ~Exists(login[l].at)
    PROVE  \A a \in OauthAccounts \ crossed : ~Writer(l, a)
  BY WriterFacts DEF Writer

\* Moving on from an account that is gone, to put it back in vain.
LEMMA GoneKeeps ==
    ASSUME LoginInv, NEW l \in Logins, NEW pc \in {"reverting", "rebuildingLast"}, Turn(l, pc),
           ~Exists(login[l].at), login[l].pc \in WriterStages,
           UNCHANGED <<account, loginSession, expected, crossed>>, marks' \in 1..MaxMarks
    PROVE  LoginInv'
  <1>1. Became(l, pc, login[l].at, login[l].created, login[l].before, login[l].models)
    BY TurnBecomes DEF LoginInv, LoginCourse, LoginStages, WriterStages
  <1>2. Sound(l, pc, login[l].at, login[l].created, login[l].before, login[l].models)
    BY CourseFacts DEF Course, Sound, EarlyStages, WriterStages
  <1>3. ASSUME NEW a \in OauthAccounts \ crossed
        PROVE  /\ CountsOn(l, a, account[a], pc, login[l].at, login[l].before, login[l].models)
               /\ ~(login[l].at = a /\ pc \in WriterStages) /\ ~Writer(l, a)
    <2>1. ~Writer(l, a)
      BY GoneIsCrossed
    <2>. QED  BY <2>1 DEF CountsOn, Writer
  <1>. QED  BY <1>1, <1>2, <1>3, MoveKeeps

LEMMA ExchangeKeeps ==
    ASSUME LoginInv, NEW l \in Logins, Exchange(l)
    PROVE  LoginInv'
  <1>1. marks' \in 1..MaxMarks /\ login[l].pc = "exchanging" /\ Course(l)
    BY LoginFacts, CourseFacts DEF Exchange
  <1>2. \A a : ~Writer(l, a)
    BY <1>1 DEF Writer, WriterStages
  <1>3. CASE Refused(l)
    BY <1>1, <1>2, <1>3, RefusedKeeps
  <1>4. ASSUME NEW pc \in {"finding", "models"}, Turn(l, pc), pc = "finding" => login[l].rebind = 0,
               UNCHANGED <<account, loginSession, expected, crossed>>
        PROVE  LoginInv'
    <2>1. Became(l, pc, login[l].at, login[l].created, login[l].before, login[l].models)
      BY <1>4, TurnBecomes DEF LoginInv, LoginCourse, LoginStages, EarlyStages
    <2>2. Sound(l, pc, login[l].at, login[l].created, login[l].before, login[l].models)
      BY <1>1, <1>4 DEF Course, Sound, EarlyStages, WriterStages
    <2>3. ASSUME NEW a \in OauthAccounts \ crossed
          PROVE  /\ CountsOn(l, a, account[a], pc, login[l].at, login[l].before, login[l].models)
                 /\ pc \notin WriterStages
      BY <1>4, OAuthLoginAssumption DEF CountsOn, WriterStages
    <2>. QED  BY <1>1, <1>2, <1>4, <2>1, <2>2, <2>3, MoveKeeps
  <1>. QED  BY <1>3, <1>4 DEF Exchange

LEMMA SnapshotReboundKeeps ==
    ASSUME LoginInv, NEW l \in Logins, SnapshotRebound(l)
    PROVE  LoginInv'
  <1>. DEFINE m == ModelsOf(login[l].rebind)
  <1>1. marks' \in 1..MaxMarks /\ login[l].pc = "models" /\ Course(l)
    BY LoginFacts, CourseFacts DEF SnapshotRebound
  <1>2. m \in 0..MaxMarks /\ (login[l].rebind = 0 => m = 0)
    <2>1. CASE Exists(login[l].rebind)
      <3>1. login[l].rebind # 0 /\ account[login[l].rebind] \in AccountRow
        BY <2>1, LoginFacts DEF Exists
      <3>. QED  BY <2>1, <3>1, AccountRowFacts DEF ModelsOf
    <2>2. CASE ~Exists(login[l].rebind)
      BY <2>2, OAuthLoginAssumption DEF ModelsOf
    <2>. QED  BY <2>1, <2>2
  <1>3. Became(l, "finding", login[l].at, login[l].created, login[l].before, m)
    <2>. HIDE DEF m
    <2>1. Step(l, [login[l] EXCEPT !.pc = "finding", !.models = m])
      BY DEF SnapshotRebound, m
    <2>2. login[l] \in LoginRow
      BY DEF LoginInv, LoginCourse, LoginTyped
    <2>. DEFINE rec == [login[l] EXCEPT !.pc = "finding", !.models = m]
    <2>3. /\ rec \in LoginRow /\ rec.import = login[l].import /\ rec.rebind = login[l].rebind
          /\ rec.mark = login[l].mark /\ rec.pc = "finding" /\ rec.at = login[l].at
          /\ rec.created = login[l].created /\ rec.before = login[l].before /\ rec.models = m
      BY <1>2, <2>2 DEF LoginRow, LoginStages, EarlyStages
    <2>. HIDE DEF rec
    <2>. QED  BY <2>1, <2>3, StepBecomes DEF Became, LoginInv, LoginCourse, rec
  <1>4. Sound(l, "finding", login[l].at, login[l].created, login[l].before, m)
    BY <1>1, <1>2 DEF Course, Sound, EarlyStages, WriterStages
  <1>5. ASSUME NEW a \in OauthAccounts \ crossed
        PROVE  CountsOn(l, a, account[a], "finding", login[l].at, login[l].before, m) /\ ~Writer(l, a)
    BY <1>1, OAuthLoginAssumption DEF CountsOn, ModelsOf, Exists, Writer, WriterStages
  <1>. HIDE DEF m
  <1>. QED  BY <1>1, <1>3, <1>4, <1>5, MoveKeeps DEF SnapshotRebound, WriterStages

LEMMA FindExistingKeeps ==
    ASSUME LoginInv, NEW l \in Logins, FindExisting(l)
    PROVE  LoginInv'
  <1>1. /\ marks' \in 1..MaxMarks /\ login[l].pc = "finding" /\ Course(l)
        /\ UNCHANGED <<account, loginSession, expected, crossed>>
    BY LoginFacts, CourseFacts DEF FindExisting
  <1>2. /\ login[l].at = 0 /\ login[l].created = FALSE /\ login[l].before = NoAccount
        /\ \A a : ~Writer(l, a)
    BY <1>1, LoginFacts DEF Course, EarlyStages, Writer, WriterStages
  <1>3. ASSUME Matching(l) = {}, Turn(l, "upserting")
        PROVE  LoginInv'
    <2>1. Became(l, "upserting", login[l].at, login[l].created, login[l].before, login[l].models)
      BY <1>3, TurnBecomes DEF LoginInv, LoginCourse, LoginStages
    <2>2. Vanished(login[l].rebind)
      <3>1. ASSUME login[l].rebind # 0 PROVE account[login[l].rebind].status = "gone"
        <4>1. login[l].rebind \in OauthAccounts /\ account[login[l].rebind] \in AccountRow
          BY <3>1, LoginFacts
        <4>2. ~Exists(login[l].rebind) /\ account[login[l].rebind].status # "none"
          BY <1>1, <1>3, <3>1, <4>1 DEF Matching, Course, GivenOut
        <4>. QED  BY <3>1, <4>1, <4>2, AccountRowFacts DEF Exists
      <3>. QED  BY <3>1 DEF Vanished
    <2>3. Sound(l, "upserting", login[l].at, login[l].created, login[l].before, login[l].models)
      BY <1>1, <1>2, <2>2 DEF Course, Sound, EarlyStages, WriterStages
    <2>4. ASSUME NEW a \in OauthAccounts \ crossed
          PROVE  /\ CountsOn(l, a, account[a], "upserting", login[l].at, login[l].before, login[l].models)
                 /\ "upserting" \notin WriterStages
      BY <1>2, OAuthLoginAssumption DEF CountsOn, WriterStages
    <2>. QED  BY <1>1, <1>2, <2>1, <2>3, <2>4, MoveKeeps
  <1>4. ASSUME NEW a \in Matching(l),
               Step(l, [login[l] EXCEPT !.pc = "upserting", !.at = a, !.before = account[a]])
        PROVE  LoginInv'
    <2>1. a \in OauthAccounts /\ Exists(a) /\ login[l].rebind \in {0, a} /\ a # 0
      BY OAuthLoginAssumption DEF Matching
    <2>2. Became(l, "upserting", a, FALSE, account[a], login[l].models)
      <3>1. LoginTyped /\ "upserting" \in LoginStages /\ login[l].models \in 0..MaxMarks
        BY LoginFacts DEF LoginInv, LoginCourse, LoginStages
      <3>. QED  BY <1>2, <1>4, <2>1, <3>1, RecordBecomes
    <2>3. Sound(l, "upserting", a, FALSE, account[a], login[l].models)
      BY <1>1, <2>1 DEF Course, Sound, EarlyStages, WriterStages, Exists
    <2>4. ASSUME NEW b \in OauthAccounts \ crossed
          PROVE  CountsOn(l, b, account[b], "upserting", a, account[a], login[l].models)
      <3>1. AccountSettled(b)
        BY DEF LoginInv
      <3>2. CountsOn(l, b, account[b], "finding", login[l].at, login[l].before, login[l].models)
        BY <1>1, <3>1 DEF AccountSettled
      <3>. QED  BY <2>1, <3>2 DEF CountsOn, Exists
    <2>. QED  BY <1>1, <1>2, <2>2, <2>3, <2>4, MoveKeeps DEF WriterStages
  <1>. QED  BY <1>3, <1>4 DEF FindExisting

\* What the account was before the login, as it counts on it before it writes.
LEMMA UpdateExistingKeeps ==
    ASSUME LoginInv, NEW l \in Logins, UpdateExisting(l)
    PROVE  LoginInv'
  <1>. DEFINE a == login[l].at
  <1>1. marks' \in 1..MaxMarks /\ login[l].pc = "upserting" /\ Course(l) /\ a \in OauthAccounts /\ a # 0
    BY LoginFacts, CourseFacts DEF UpdateExisting
  <1>2. (\A b : ~Writer(l, b)) /\ login[l].created = FALSE
    BY <1>1, LoginFacts DEF Writer, WriterStages, Course
  <1>3. CASE ~Exists(a)
    BY <1>1, <1>2, <1>3, RefusedKeeps DEF UpdateExisting
  <1>4. CASE Exists(a)
    <2>. DEFINE status == IF login[l].import = "no" THEN "disabled" ELSE login[l].import
                row == [account[a] EXCEPT !.token = login[l].mark, !.status = status]
                pc == IF login[l].models = 0 THEN "snapshot" ELSE AfterSnapshot(l)
    <2>1. Real(account[a]) /\ account[a] \in AccountRow /\ status \in {"active", "disabled"}
      BY <1>1, <1>4, LoginFacts DEF Exists
    <2>2. row = [status |-> status, token |-> login[l].mark, models |-> account[a].models]
      <3>1. login[l].mark \in 0..MaxMarks /\ login[l].models \in 0..MaxMarks
        BY LoginFacts
      <3>. HIDE DEF status
      <3>. QED  BY <2>1, <3>1, RowChanges
    <2>3. row \in AccountRow /\ Real(row) /\ row.status = status /\ row.status # "none"
          /\ row.token = login[l].mark /\ row.models = account[a].models
      <3>1. [status |-> status, token |-> login[l].mark, models |-> account[a].models] \in AccountRow
            /\ Real([status |-> status, token |-> login[l].mark, models |-> account[a].models])
        <4>. HIDE DEF status
        <4>. QED  BY <2>1, AccountRowFacts, LoginFacts
      <3>. QED  BY <2>1, <2>2, <3>1
    <2>4. Writes({l}, a, row) /\ Turn(l, pc) /\ UNCHANGED <<loginSession, expected>>
      BY <1>4 DEF UpdateExisting
    <2>5. pc \in {"snapshot", "clearing", "rebuilding"} /\ (pc = "snapshot" <=> login[l].models = 0)
          /\ (pc = "clearing" => Discovers(l)) /\ (pc = "rebuilding" => ~Discovers(l))
      BY DEF AfterSnapshot
    <2>. HIDE DEF pc, row
    <2>6. Became(l, pc, a, FALSE, login[l].before, login[l].models)
      BY <1>2, <2>4, <2>5, TurnBecomes DEF LoginInv, LoginCourse, LoginStages, WriterStages
    <2>7. Sound(l, pc, a, FALSE, login[l].before, login[l].models)
      BY <1>1, <1>2, <2>5 DEF Course, Sound, EarlyStages, WriterStages
    <2>8. ASSUME a \notin crossed, \A q \in Logins : q # l => a \notin Held(q)
          PROVE  Owes(l, row, expected[a], pc, FALSE, login[l].before, login[l].models)
      <3>1. AccountSettled(a) /\ Agrees(account[a], expected[a])
        BY <1>1, <1>2, <2>8, AloneFacts DEF LoginInv
      <3>2. /\ account[a] = login[l].before
            /\ login[l].rebind # 0 => login[l].models = login[l].before.models
        BY <1>1, <3>1 DEF AccountSettled, CountsOn
      <3>3. expected[a] = login[l].before /\ Real(expected[a])
        BY <2>1, <3>1, <3>2 DEF Agrees
      <3>4. pc # "snapshot" => login[l].models = login[l].before.models
        BY <1>1, <2>5, <3>2 DEF Course
      <3>5. ~Discovers(l) => login[l].import = "disabled"
        BY DEF Discovers
      <3>. QED  BY <2>3, <2>5, <3>2, <3>3, <3>4, <3>5 DEF Owes
    <2>. HIDE DEF a
    <2>9. pc \in WriterStages /\ pc # "idle" /\ pc \notin {"finding", "upserting"}
      BY <2>5 DEF WriterStages
    <2>. QED  BY <1>1, <2>1, <2>3, <2>4, <2>6, <2>7, <2>8, <2>9, WriteKeeps DEF a
  <1>. QED  BY <1>3, <1>4

LEMMA InsertNewKeeps ==
    ASSUME LoginInv, NEW l \in Logins, InsertNew(l)
    PROVE  LoginInv'
  <1>. DEFINE status == IF login[l].import = "no" THEN "active" ELSE login[l].import
              row == [status |-> status, token |-> login[l].mark, models |-> 0]
              pc == AfterSnapshot(l)
  <1>1. marks' \in 1..MaxMarks /\ login[l].pc = "upserting" /\ Course(l) /\ login[l].at = 0
    BY LoginFacts, CourseFacts DEF InsertNew
  <1>2. PICK a \in OauthAccounts :
            /\ account[a].status = "none" /\ Writes({l}, a, row)
            /\ Step(l, [login[l] EXCEPT !.pc = pc, !.at = a, !.created = TRUE])
            /\ UNCHANGED <<loginSession, expected>>
    BY DEF InsertNew
  <1>3. /\ row \in AccountRow /\ Real(row) /\ row.status = status /\ row.status # "none"
        /\ row.token = login[l].mark /\ row.models = 0
    <2>1. status \in {"active", "disabled"} /\ login[l].mark \in 0..MaxMarks /\ 0 \in 0..MaxMarks
      BY LoginFacts, OAuthLoginAssumption
    <2>. HIDE DEF status
    <2>. QED  BY <2>1, AccountRowFacts
  <1>4. pc \in {"clearing", "rebuilding"} /\ (pc = "clearing" => Discovers(l))
        /\ (pc = "rebuilding" => ~Discovers(l))
    BY DEF AfterSnapshot
  <1>5. /\ Vanished(login[l].rebind) /\ login[l].before = NoAccount /\ ~Real(login[l].before)
        /\ login[l].before.models = 0 /\ a # 0 /\ ~Real(account[a]) /\ \A b : ~Writer(l, b)
    BY <1>1, <1>2, AccountRowFacts, OAuthLoginAssumption
       DEF Course, NoAccount, Real, Writer, WriterStages
  <1>. HIDE DEF pc, row
  <1>6. Became(l, pc, a, TRUE, login[l].before, login[l].models)
    BY <1>2, <1>4, RecordBecomes, LoginFacts DEF LoginInv, LoginCourse, LoginStages, WriterStages
  <1>7. Sound(l, pc, a, TRUE, login[l].before, login[l].models)
    BY <1>4, <1>5 DEF Sound, EarlyStages, WriterStages
  <1>8. ASSUME a \notin crossed, \A q \in Logins : q # l => a \notin Held(q)
        PROVE  Owes(l, row, expected[a], pc, TRUE, login[l].before, login[l].models)
    <2>1. ~Real(expected[a])
      BY <1>5, <1>8, AloneFacts DEF Agrees
    <2>. QED  BY <1>3, <1>4, <1>5, <2>1 DEF Owes
  <1>9. pc \in WriterStages /\ pc # "idle" /\ pc \notin {"finding", "upserting"}
    BY <1>4 DEF WriterStages
  <1>. QED  BY <1>1, <1>2, <1>3, <1>6, <1>7, <1>8, <1>9, WriteKeeps

\* A stage of a writer that leaves the account: it goes on to owe what it owed.
LEMMA WriterMoves ==
    ASSUME LoginInv, NEW l \in Logins, NEW pc \in WriterStages, NEW m \in 0..MaxMarks,
           login[l].pc \in WriterStages,
           Became(l, pc, login[l].at, login[l].created, login[l].before, m),
           Sound(l, pc, login[l].at, login[l].created, login[l].before, m),
           UNCHANGED <<account, loginSession, expected, crossed>>, marks' \in 1..MaxMarks,
           ASSUME login[l].at \notin crossed, Exists(login[l].at),
                  Owes(l, account[login[l].at], expected[login[l].at], login[l].pc,
                       login[l].created, login[l].before, login[l].models)
           PROVE  Owes(l, account[login[l].at], expected[login[l].at], pc,
                       login[l].created, login[l].before, m)
    PROVE  LoginInv'
  <1>1. pc # "idle" /\ pc \notin {"finding", "upserting"}
    BY DEF WriterStages
  <1>2. ASSUME NEW a \in OauthAccounts \ crossed
        PROVE  /\ CountsOn(l, a, account[a], pc, login[l].at, login[l].before, m)
               /\ login[l].at = a =>
                     /\ Writer(l, a)
                     /\ Owes(l, account[a], expected[a], pc, login[l].created, login[l].before, m)
               /\ Writer(l, a) => login[l].at = a /\ pc \in WriterStages
    BY <1>1, WriterFacts DEF CountsOn, Writer
  <1>. QED  BY <1>1, <1>2, MoveKeeps

\* A stage that writes the account.
LEMMA WriterWrites ==
    ASSUME LoginInv, NEW l \in Logins, NEW pc \in LoginStages \ {"idle", "finding", "upserting"},
           login[l].pc \in WriterStages, login[l].at \in OauthAccounts, Exists(login[l].at),
           Became(l, pc, login[l].at, login[l].created, login[l].before, login[l].models),
           Sound(l, pc, login[l].at, login[l].created, login[l].before, login[l].models),
           UNCHANGED <<loginSession, expected>>, marks' \in 1..MaxMarks,
           NEW row \in AccountRow, Writes({l}, login[l].at, row), row.status # "none",
           ASSUME login[l].at \notin crossed,
                  Owes(l, account[login[l].at], expected[login[l].at], login[l].pc,
                       login[l].created, login[l].before, login[l].models)
           PROVE  IF pc \in WriterStages
                  THEN Owes(l, row, expected[login[l].at], pc, login[l].created,
                            login[l].before, login[l].models)
                  ELSE Agrees(row, expected[login[l].at])
    PROVE  LoginInv'
  <1>1. Real(account[login[l].at]) /\ Writer(l, login[l].at)
    BY DEF Exists, Writer
  <1>2. login[l].at \notin crossed =>
            IF pc \in WriterStages
            THEN Owes(l, row, expected[login[l].at], pc, login[l].created,
                      login[l].before, login[l].models)
            ELSE Agrees(row, expected[login[l].at])
    BY <1>1, WriterFacts
  <1>. QED  BY <1>1, <1>2, WriteKeeps

\* What is known of a writer when it takes a step.
LEMMA StageFacts ==
    ASSUME LoginInv, NEW l \in Logins, login[l].pc \in WriterStages
    PROVE  /\ login[l].at \in OauthAccounts /\ login[l].at # 0 /\ Course(l) /\ LoginTyped
           /\ account[login[l].at] \in AccountRow /\ marks \in 1..MaxMarks
           /\ Exists(login[l].at) => Real(account[login[l].at])
           /\ 0 \in 0..MaxMarks
  <1>1. Course(l) /\ login[l].at # 0
    BY CourseFacts DEF Course
  <1>2. login[l].at \in OauthAccounts /\ account[login[l].at] \in AccountRow /\ marks \in 1..MaxMarks
    BY <1>1, LoginFacts
  <1>3. LoginTyped /\ 0 \in 0..MaxMarks
    BY OAuthLoginAssumption DEF LoginInv, LoginCourse
  <1>. QED  BY <1>1, <1>2, <1>3 DEF Exists

LEMMA SnapshotModelsKeeps ==
    ASSUME LoginInv, NEW l \in Logins, SnapshotModels(l)
    PROVE  LoginInv'
  <1>. DEFINE m == ModelsOf(login[l].at)
              pc == AfterSnapshot(l)
  <1>1. login[l].pc = "snapshot" /\ login[l].pc \in WriterStages
    BY DEF SnapshotModels, WriterStages
  <1>2. /\ login[l].at \in OauthAccounts /\ Course(l) /\ LoginTyped /\ marks' \in 1..MaxMarks
        /\ account[login[l].at] \in AccountRow /\ 0 \in 0..MaxMarks
    BY <1>1, StageFacts DEF SnapshotModels
  <1>3. m \in 0..MaxMarks
    BY <1>2, AccountRowFacts DEF ModelsOf
  <1>4. pc \in {"clearing", "rebuilding"} /\ (pc = "clearing" => Discovers(l))
        /\ (pc = "rebuilding" => ~Discovers(l) /\ login[l].import = "disabled")
    BY DEF AfterSnapshot, Discovers
  <1>5. Step(l, [login[l] EXCEPT !.pc = pc, !.models = m])
        /\ UNCHANGED <<account, loginSession, expected, crossed>>
    BY DEF SnapshotModels
  <1>6. Exists(login[l].at) => m = account[login[l].at].models
    BY DEF ModelsOf
  <1>. HIDE DEF pc, m
  <1>7. pc \in LoginStages /\ pc \in WriterStages
    BY <1>4 DEF LoginStages, WriterStages
  <1>8. Became(l, pc, login[l].at, login[l].created, login[l].before, m)
    BY <1>2, <1>3, <1>5, <1>7, RecordBecomes
  <1>9. Sound(l, pc, login[l].at, login[l].created, login[l].before, m)
    BY <1>1, <1>2, <1>4 DEF Course, Sound, EarlyStages, WriterStages
  <1>10. ASSUME Exists(login[l].at),
                Owes(l, account[login[l].at], expected[login[l].at], login[l].pc,
                     login[l].created, login[l].before, login[l].models)
         PROVE  Owes(l, account[login[l].at], expected[login[l].at], pc,
                     login[l].created, login[l].before, m)
    <2>1. ~login[l].created
      BY <1>1, <1>2 DEF Course
    <2>. QED  BY <1>1, <1>4, <1>6, <1>10, <2>1 DEF Owes
  <1>. QED  BY <1>1, <1>2, <1>3, <1>5, <1>7, <1>8, <1>9, <1>10, WriterMoves

LEMMA ClearModelsKeeps ==
    ASSUME LoginInv, NEW l \in Logins, ClearModels(l)
    PROVE  LoginInv'
  <1>. DEFINE a == login[l].at
              row == [account[a] EXCEPT !.models = 0]
  <1>1. login[l].pc = "clearing" /\ login[l].pc \in WriterStages
    BY DEF ClearModels, WriterStages
  <1>2. /\ a \in OauthAccounts /\ Course(l) /\ LoginTyped /\ marks' \in 1..MaxMarks
        /\ account[a] \in AccountRow /\ 0 \in 0..MaxMarks /\ (Exists(a) => Real(account[a]))
    BY <1>1, StageFacts DEF ClearModels
  <1>3. CASE ~Exists(a)
    BY <1>1, <1>2, <1>3, GoneKeeps DEF ClearModels
  <1>4. ASSUME Exists(a), NEW pc \in {"asking", "reverting"},
               Became(l, pc, a, login[l].created, login[l].before, login[l].models)
        PROVE  LoginInv'
    <2>1. /\ row \in AccountRow /\ Real(row) /\ row.status = account[a].status
          /\ row.status # "none" /\ row.token = account[a].token
      <3>1. account[a].status \in {"active", "disabled"} /\ account[a].token \in 0..MaxMarks
        BY <1>2, <1>4, AccountRowFacts
      <3>2. row = [status |-> account[a].status, token |-> account[a].token, models |-> 0]
        BY <1>2, <1>4, <3>1, RowChanges
      <3>. HIDE DEF a
      <3>. QED  BY <1>2, <3>1, <3>2, AccountRowFacts
    <2>2. Writes({l}, a, row) /\ UNCHANGED <<loginSession, expected>>
      BY <1>4 DEF ClearModels
    <2>. HIDE DEF row
    <2>3. Sound(l, pc, a, login[l].created, login[l].before, login[l].models)
      BY <1>1, <1>2 DEF Course, Sound, EarlyStages, WriterStages
    <2>4. ASSUME Owes(l, account[a], expected[a], login[l].pc, login[l].created,
                      login[l].before, login[l].models)
          PROVE  Owes(l, row, expected[a], pc, login[l].created, login[l].before, login[l].models)
      BY <1>1, <2>1, <2>4 DEF Owes
    <2>5. pc \in WriterStages /\ pc \in LoginStages \ {"idle", "finding", "upserting"}
      BY DEF WriterStages, LoginStages
    <2>. QED  BY <1>1, <1>2, <1>4, <2>1, <2>2, <2>3, <2>4, <2>5, WriterWrites
  <1>5. ASSUME Exists(a), Step(l, [login[l] EXCEPT !.pc = "asking", !.seen = account[a].models])
        PROVE  Became(l, "asking", a, login[l].created, login[l].before, login[l].models)
    <2>1. account[a].models \in 0..MaxMarks /\ "asking" \in LoginStages
      BY <1>2, AccountRowFacts DEF LoginStages, WriterStages
    <2>. QED  BY <1>2, <1>5, <2>1, RecordBecomes
  <1>6. ASSUME Turn(l, "reverting")
        PROVE  Became(l, "reverting", a, login[l].created, login[l].before, login[l].models)
    BY <1>2, <1>6, TurnBecomes DEF LoginStages, WriterStages
  <1>. QED  BY <1>3, <1>4, <1>5, <1>6 DEF ClearModels

LEMMA DiscoveryRefreshesKeeps ==
    ASSUME LoginInv, NEW l \in Logins, DiscoveryRefreshes(l)
    PROVE  LoginInv'
  <1>. DEFINE a == login[l].at
              row == [account[a] EXCEPT !.status = "active"]
  <1>1. login[l].pc = "asking" /\ login[l].pc \in WriterStages /\ Exists(a)
    BY DEF DiscoveryRefreshes, WriterStages
  <1>2. /\ a \in OauthAccounts /\ Course(l) /\ LoginTyped /\ marks' \in 1..MaxMarks
        /\ account[a] \in AccountRow /\ Real(account[a]) /\ 0 \in 0..MaxMarks
    BY <1>1, StageFacts DEF DiscoveryRefreshes
  <1>3. /\ row \in AccountRow /\ Real(row) /\ row.status = "active" /\ row.status # "none"
        /\ row.token = account[a].token /\ row.models = account[a].models
    <2>1. account[a].token \in 0..MaxMarks /\ account[a].models \in 0..MaxMarks
      BY <1>2, AccountRowFacts
    <2>2. row = [status |-> "active", token |-> account[a].token, models |-> account[a].models]
      BY <1>2, <2>1, RowChanges
    <2>. HIDE DEF a
    <2>. QED  BY <2>1, <2>2, AccountRowFacts
  <1>4. Writes({l}, a, row) /\ UNCHANGED <<loginSession, expected, login>>
    BY DEF DiscoveryRefreshes
  <1>. HIDE DEF row
  <1>5. Became(l, "asking", a, login[l].created, login[l].before, login[l].models)
    BY <1>1, <1>2, <1>4 DEF Became, LoginTyped
  <1>6. Sound(l, "asking", a, login[l].created, login[l].before, login[l].models)
    BY <1>1, <1>2 DEF Course, Sound, EarlyStages, WriterStages
  <1>7. ASSUME Owes(l, account[a], expected[a], login[l].pc, login[l].created,
                    login[l].before, login[l].models)
        PROVE  Owes(l, row, expected[a], "asking", login[l].created, login[l].before, login[l].models)
    <2>1. login[l].import \in {"no", "active"}
      BY <1>1, <1>2, LoginFacts DEF Course, Discovers
    <2>. QED  BY <1>1, <1>3, <1>7, <2>1 DEF Owes
  <1>8. "asking" \in WriterStages /\ "asking" \in LoginStages \ {"idle", "finding", "upserting"}
    BY DEF WriterStages, LoginStages
  <1>. QED  BY <1>1, <1>2, <1>3, <1>4, <1>5, <1>6, <1>7, <1>8, WriterWrites

LEMMA FindModelsKeeps ==
    ASSUME LoginInv, NEW l \in Logins, FindModels(l)
    PROVE  LoginInv'
  <1>. DEFINE a == login[l].at
              row == [account[a] EXCEPT !.models = login[l].mark]
              pc == IF login[l].import = "no" /\ ~login[l].created THEN "activating" ELSE "rebuilding"
  <1>1. login[l].pc = "asking" /\ login[l].pc \in WriterStages /\ Exists(a)
    BY DEF FindModels, WriterStages
  <1>2. /\ a \in OauthAccounts /\ Course(l) /\ LoginTyped /\ marks' \in 1..MaxMarks
        /\ account[a] \in AccountRow /\ Real(account[a]) /\ login[l].mark \in 0..MaxMarks
    BY <1>1, StageFacts, LoginFacts DEF FindModels
  <1>3. /\ row \in AccountRow /\ Real(row) /\ row.status = account[a].status /\ row.status # "none"
        /\ row.token = account[a].token /\ row.models = login[l].mark
    <2>1. account[a].token \in 0..MaxMarks /\ account[a].status \in {"active", "disabled"}
      BY <1>2, AccountRowFacts
    <2>2. row = [status |-> account[a].status, token |-> account[a].token, models |-> login[l].mark]
      BY <1>2, <2>1, RowChanges
    <2>. HIDE DEF a
    <2>. QED  BY <1>2, <2>1, <2>2, AccountRowFacts
  <1>4. Writes({l}, a, row) /\ UNCHANGED <<loginSession, expected>> /\ Turn(l, pc)
    BY DEF FindModels
  <1>5. pc \in {"activating", "rebuilding"}
        /\ (pc = "activating" <=> login[l].import = "no" /\ ~login[l].created)
    OBVIOUS
  <1>. HIDE DEF row, pc
  <1>6. pc \in WriterStages /\ pc \in LoginStages \ {"idle", "finding", "upserting"}
    BY <1>5 DEF WriterStages, LoginStages
  <1>7. Became(l, pc, a, login[l].created, login[l].before, login[l].models)
    BY <1>2, <1>4, <1>6, TurnBecomes
  <1>8. Sound(l, pc, a, login[l].created, login[l].before, login[l].models)
    BY <1>1, <1>2, <1>5 DEF Course, Sound, EarlyStages, WriterStages
  <1>9. ASSUME Owes(l, account[a], expected[a], login[l].pc, login[l].created,
                    login[l].before, login[l].models)
        PROVE  Owes(l, row, expected[a], pc, login[l].created, login[l].before, login[l].models)
    <2>1. Discovers(l)
      BY <1>1, <1>2 DEF Course
    <2>. QED  BY <1>1, <1>3, <1>5, <1>9, <2>1 DEF Owes
  <1>. QED  BY <1>1, <1>2, <1>3, <1>4, <1>6, <1>7, <1>8, <1>9, WriterWrites

LEMMA FindNothingKeeps ==
    ASSUME LoginInv, NEW l \in Logins, FindNothing(l)
    PROVE  LoginInv'
  <1>. DEFINE pc == IF login[l].created THEN "reverting" ELSE "restoring"
  <1>1. login[l].pc = "asking" /\ login[l].pc \in WriterStages
    BY DEF FindNothing, WriterStages
  <1>2. Course(l) /\ LoginTyped /\ marks' \in 1..MaxMarks
    BY <1>1, StageFacts DEF FindNothing
  <1>3. Turn(l, pc) /\ UNCHANGED <<account, loginSession, expected, crossed>>
    BY DEF FindNothing
  <1>4. pc \in {"reverting", "restoring"} /\ (pc = "restoring" => ~login[l].created)
    OBVIOUS
  <1>. HIDE DEF pc
  <1>5. pc \in WriterStages /\ pc \in LoginStages
    BY <1>4 DEF WriterStages, LoginStages
  <1>6. Became(l, pc, login[l].at, login[l].created, login[l].before, login[l].models)
    BY <1>2, <1>3, <1>5, TurnBecomes
  <1>7. Sound(l, pc, login[l].at, login[l].created, login[l].before, login[l].models)
    BY <1>1, <1>2, <1>4 DEF Course, Sound, EarlyStages, WriterStages
  <1>8. ASSUME Owes(l, account[login[l].at], expected[login[l].at], login[l].pc,
                    login[l].created, login[l].before, login[l].models)
        PROVE  Owes(l, account[login[l].at], expected[login[l].at], pc,
                    login[l].created, login[l].before, login[l].models)
    BY <1>1, <1>4, <1>8 DEF Owes
  <1>. QED  BY <1>1, <1>2, <1>3, <1>5, <1>6, <1>7, <1>8, WriterMoves, LoginFacts

LEMMA RestoreModelsKeeps ==
    ASSUME LoginInv, NEW l \in Logins, RestoreModels(l)
    PROVE  LoginInv'
  <1>. DEFINE a == login[l].at
              row == [account[a] EXCEPT !.models = login[l].seen]
  <1>1. login[l].pc = "restoring" /\ login[l].pc \in WriterStages
    BY DEF RestoreModels, WriterStages
  <1>2. /\ a \in OauthAccounts /\ Course(l) /\ LoginTyped /\ marks' \in 1..MaxMarks
        /\ account[a] \in AccountRow /\ login[l].seen \in 0..MaxMarks
    BY <1>1, StageFacts, LoginFacts DEF RestoreModels
  <1>3. CASE ~Exists(a)
    <2>1. CASE login[l].seen = 0
      BY <1>1, <1>2, <1>3, <2>1, GoneKeeps DEF RestoreModels
    <2>2. CASE login[l].seen # 0
      BY <1>2, <1>3, <2>2, RefusedKeeps, GoneIsCrossed DEF RestoreModels
    <2>. QED  BY <2>1, <2>2
  <1>4. CASE Exists(a)
    <2>1. Real(account[a])
      BY <1>1, <1>4, StageFacts
    <2>2. row \in AccountRow /\ Real(row) /\ row.status # "none"
      <3>1. account[a].status \in {"active", "disabled"} /\ account[a].token \in 0..MaxMarks
        BY <1>2, <2>1, AccountRowFacts
      <3>2. row = [status |-> account[a].status, token |-> account[a].token, models |-> login[l].seen]
        BY <1>2, <2>1, <3>1, RowChanges
      <3>. HIDE DEF a
      <3>. QED  BY <1>2, <3>1, <3>2, AccountRowFacts
    <2>3. Writes({l}, a, row) /\ UNCHANGED <<loginSession, expected>> /\ Turn(l, "reverting")
      BY <1>4 DEF RestoreModels
    <2>. HIDE DEF row
    <2>4. "reverting" \in WriterStages /\ "reverting" \in LoginStages \ {"idle", "finding", "upserting"}
      BY DEF WriterStages, LoginStages
    <2>5. Became(l, "reverting", a, login[l].created, login[l].before, login[l].models)
      BY <1>2, <2>3, <2>4, TurnBecomes
    <2>6. Sound(l, "reverting", a, login[l].created, login[l].before, login[l].models)
      BY <1>1, <1>2 DEF Course, Sound, EarlyStages, WriterStages
    <2>7. ASSUME Owes(l, account[a], expected[a], login[l].pc, login[l].created,
                      login[l].before, login[l].models)
          PROVE  Owes(l, row, expected[a], "reverting", login[l].created, login[l].before, login[l].models)
      BY <1>1, <2>2, <2>7 DEF Owes
    <2>. QED  BY <1>1, <1>2, <1>4, <2>2, <2>3, <2>4, <2>5, <2>6, <2>7, WriterWrites
  <1>. QED  BY <1>3, <1>4

LEMMA ActivateExistingKeeps ==
    ASSUME LoginInv, NEW l \in Logins, ActivateExisting(l)
    PROVE  LoginInv'
  <1>. DEFINE a == login[l].at
              row == [account[a] EXCEPT !.status = "active"]
  <1>1. login[l].pc = "activating" /\ login[l].pc \in WriterStages
    BY DEF ActivateExisting, WriterStages
  <1>2. /\ a \in OauthAccounts /\ Course(l) /\ LoginTyped /\ marks' \in 1..MaxMarks
        /\ account[a] \in AccountRow /\ 0 \in 0..MaxMarks
    BY <1>1, StageFacts DEF ActivateExisting
  <1>3. CASE ~Exists(a)
    BY <1>1, <1>2, <1>3, GoneKeeps DEF ActivateExisting
  <1>4. CASE Exists(a)
    <2>1. Real(account[a])
      BY <1>1, <1>4, StageFacts
    <2>2. /\ row \in AccountRow /\ Real(row) /\ row.status = "active" /\ row.status # "none"
          /\ row.token = account[a].token /\ row.models = account[a].models
      <3>1. account[a].token \in 0..MaxMarks /\ account[a].models \in 0..MaxMarks
        BY <1>2, AccountRowFacts
      <3>2. row = [status |-> "active", token |-> account[a].token, models |-> account[a].models]
        BY <1>2, <2>1, <3>1, RowChanges
      <3>. HIDE DEF a
      <3>. QED  BY <3>1, <3>2, AccountRowFacts
    <2>3. Writes({l}, a, row) /\ UNCHANGED <<loginSession, expected>> /\ Turn(l, "rebuilding")
      BY <1>4 DEF ActivateExisting
    <2>. HIDE DEF row
    <2>4. "rebuilding" \in WriterStages /\ "rebuilding" \in LoginStages \ {"idle", "finding", "upserting"}
      BY DEF WriterStages, LoginStages
    <2>5. Became(l, "rebuilding", a, login[l].created, login[l].before, login[l].models)
      BY <1>2, <2>3, <2>4, TurnBecomes
    <2>6. Sound(l, "rebuilding", a, login[l].created, login[l].before, login[l].models)
      BY <1>1, <1>2 DEF Course, Sound, EarlyStages, WriterStages
    <2>7. ASSUME Owes(l, account[a], expected[a], login[l].pc, login[l].created,
                      login[l].before, login[l].models)
          PROVE  Owes(l, row, expected[a], "rebuilding", login[l].created, login[l].before, login[l].models)
      <3>1. Discovers(l) /\ login[l].import = "no"
        BY <1>1, <1>2 DEF Course
      <3>. QED  BY <1>1, <2>2, <2>7, <3>1 DEF Owes
    <2>. QED  BY <1>1, <1>2, <1>4, <2>2, <2>3, <2>4, <2>5, <2>6, <2>7, WriterWrites
  <1>. QED  BY <1>3, <1>4

\* A success: the account is as it was promised, and nobody else has written it.
LEMMA RebuiltKeeps ==
    ASSUME LoginInv, NEW l \in Logins, Rebuilt(l)
    PROVE  LoginInv'
  <1>. DEFINE at == login[l].at
              status == IF login[l].import = "no" THEN "active" ELSE login[l].import
              m == IF Discovers(l) THEN login[l].mark ELSE login[l].before.models
              rows == [expected EXCEPT ![at] = Promised(l)]
  <1>1. login[l].pc = "rebuilding" /\ login[l].pc \in WriterStages
    BY DEF Rebuilt, WriterStages
  <1>2. /\ at \in OauthAccounts /\ Course(l) /\ marks' \in 1..MaxMarks /\ account[at] \in AccountRow
        /\ expected \in [OauthAccounts -> AccountRow]
    BY <1>1, StageFacts, LoginFacts DEF Rebuilt
  <1>3. Promised(l) = [status |-> status, token |-> login[l].mark, models |-> m]
    BY DEF Promised
  <1>4. status \in {"active", "disabled"} /\ login[l].mark \in 0..MaxMarks /\ m \in 0..MaxMarks
    BY LoginFacts, AccountRowFacts
  <1>5. Promised(l) \in AccountRow
    <2>. HIDE DEF status, m
    <2>. QED  BY <1>3, <1>4, AccountRowFacts
  <1>6. rows \in [OauthAccounts -> AccountRow] /\ rows[at] = Promised(l)
        /\ \A b \in OauthAccounts \ {at} : rows[b] = expected[b]
    BY <1>2, <1>5
  <1>7. Answered(l, "success", rows)
    BY DEF Rebuilt
  <1>8. ASSUME at \notin crossed
        PROVE  Agrees(account[at], rows[at]) /\ \A q \in Logins : Writer(q, at) => q = l
    <2>1. Writer(l, at)
      BY <1>1 DEF Writer
    <2>2. /\ Owes(l, account[at], expected[at], login[l].pc, login[l].created,
                  login[l].before, login[l].models)
          /\ \A q \in Logins : Writer(q, at) => q = l
      BY <1>2, <1>8, <2>1, WriterFacts
    <2>3. account[at].status = status /\ account[at].token = login[l].mark /\ account[at].models = m
      BY <1>1, <2>2 DEF Owes
    <2>4. account[at] = [status |-> account[at].status, token |-> account[at].token,
                         models |-> account[at].models]
      BY <1>2 DEF AccountRow
    <2>. HIDE DEF status, m, rows
    <2>. QED  BY <1>3, <1>6, <2>2, <2>3, <2>4 DEF Agrees
  <1>9. ASSUME NEW b \in OauthAccounts, b # at
        PROVE  rows[b] = expected[b] /\ ~Writer(l, b)
    BY <1>6, <1>9 DEF Writer
  <1>. HIDE DEF rows, at
  <1>. QED  BY <1>2, <1>6, <1>7, <1>8, <1>9, AnswerKeeps

\* The account is put back as the login had found it.
LEMMA RevertAccountKeeps ==
    ASSUME LoginInv, NEW l \in Logins, RevertAccount(l)
    PROVE  LoginInv'
  <1>. DEFINE a == login[l].at
              row == IF login[l].created THEN Deleted ELSE PutBack(l)
  <1>1. login[l].pc = "reverting" /\ login[l].pc \in WriterStages
    BY DEF RevertAccount, WriterStages
  <1>2. /\ a \in OauthAccounts /\ Course(l) /\ LoginTyped /\ marks' \in 1..MaxMarks /\ a # 0
    BY <1>1, StageFacts DEF RevertAccount
  <1>3. CASE ~Exists(a)
    <2>1. CASE login[l].created \/ login[l].models = 0
      BY <1>1, <1>2, <1>3, <2>1, GoneKeeps DEF RevertAccount
    <2>2. CASE ~(login[l].created \/ login[l].models = 0)
      BY <1>2, <1>3, <2>2, RefusedKeeps, GoneIsCrossed DEF RevertAccount
    <2>. QED  BY <2>1, <2>2
  <1>4. CASE Exists(a)
    <2>2. ~login[l].created =>
            /\ Real(login[l].before) /\ login[l].before \in AccountRow
            /\ PutBack(l) = [status |-> login[l].before.status, token |-> login[l].before.token,
                             models |-> login[l].models]
      <3>1. ASSUME ~login[l].created
            PROVE  Real(login[l].before) /\ login[l].before \in AccountRow
        BY <1>2, <3>1, LoginFacts DEF Course
      <3>2. ASSUME ~login[l].created
            PROVE  PutBack(l) = [status |-> login[l].before.status, token |-> login[l].before.token,
                                 models |-> login[l].models]
        <4>1. login[l].models \in 0..MaxMarks /\ "active" \in {"active", "disabled"}
              /\ login[l].before \in AccountRow /\ Real(login[l].before)
          BY <3>1, <3>2, LoginFacts
        <4>2. [login[l].before EXCEPT !.models = login[l].models]
                = [status |-> login[l].before.status, token |-> login[l].before.token,
                   models |-> login[l].models]
          BY <4>1, RowChanges
        <4>. QED  BY <4>2 DEF PutBack
      <3>. QED  BY <3>1, <3>2
    <2>3. row \in AccountRow /\ row.status # "none" /\ (login[l].created => ~Real(row))
      <3>1. CASE login[l].created
        BY <3>1, AccountRowFacts DEF Deleted, NoAccount, Real
      <3>2. CASE ~login[l].created
        <4>1. /\ login[l].before.status \in {"active", "disabled"}
              /\ login[l].before.token \in 0..MaxMarks /\ login[l].models \in 0..MaxMarks
          BY <2>2, <3>2, AccountRowFacts, LoginFacts
        <4>. QED  BY <2>2, <3>2, <4>1, AccountRowFacts
      <3>. QED  BY <3>1, <3>2
    <2>4. Writes({l}, a, row) /\ UNCHANGED <<loginSession, expected>> /\ Turn(l, "rebuildingLast")
      BY <1>4 DEF RevertAccount
    <2>5. ASSUME Owes(l, account[a], expected[a], login[l].pc, login[l].created,
                      login[l].before, login[l].models)
          PROVE  Agrees(row, expected[a])
      <3>1. CASE login[l].created
        BY <2>3, <2>5, <3>1 DEF Owes, Agrees
      <3>2. CASE ~login[l].created
        <4>1. expected[a] = login[l].before /\ login[l].models = login[l].before.models
          BY <1>1, <2>5, <3>2 DEF Owes
        <4>2. login[l].before = [status |-> login[l].before.status, token |-> login[l].before.token,
                                 models |-> login[l].before.models]
          BY <2>2, <3>2 DEF AccountRow
        <4>. QED  BY <2>2, <3>2, <4>1, <4>2 DEF Agrees
      <3>. QED  BY <3>1, <3>2
    <2>. HIDE DEF row
    <2>6. "rebuildingLast" \notin WriterStages
          /\ "rebuildingLast" \in LoginStages \ {"idle", "finding", "upserting"}
      BY DEF WriterStages, LoginStages
    <2>7. Became(l, "rebuildingLast", a, login[l].created, login[l].before, login[l].models)
      BY <1>2, <2>4, <2>6, TurnBecomes
    <2>8. Sound(l, "rebuildingLast", a, login[l].created, login[l].before, login[l].models)
      BY <1>1, <1>2 DEF Course, Sound, EarlyStages, WriterStages
    <2>. QED  BY <1>1, <1>2, <1>4, <2>3, <2>4, <2>5, <2>6, <2>7, <2>8, WriterWrites
  <1>. QED  BY <1>3, <1>4

LEMMA RebuiltLastKeeps ==
    ASSUME LoginInv, NEW l \in Logins, RebuiltLast(l)
    PROVE  LoginInv'
  <1>1. Refused(l) /\ marks' \in 1..MaxMarks /\ \A a : ~Writer(l, a)
    BY LoginFacts DEF RebuiltLast, Writer, WriterStages
  <1>. QED  BY <1>1, RefusedKeeps

\* A statement throws: nothing was written, or the account is taken as it is, or the
\* last steps go back.
LEMMA LoginStatementFailsKeeps ==
    ASSUME LoginInv, NEW l \in Logins, LoginStatementFails(l)
    PROVE  LoginInv'
  <1>1. marks' \in 1..MaxMarks
    BY LoginFacts, OAuthLoginAssumption DEF LoginStatementFails, Marked
  <1>2. CASE login[l].pc \notin WriterStages /\ Refused(l)
    <2>1. \A a : ~Writer(l, a)
      BY <1>2 DEF Writer
    <2>. QED  BY <1>1, <1>2, <2>1, RefusedKeeps
  <1>3. CASE login[l].pc \in WriterStages /\ RefusedAsIs(l)
    <2>1. Answered(l, "error", account) /\ account \in [OauthAccounts -> AccountRow] /\ Course(l)
      BY <1>3, LoginFacts, CourseFacts DEF RefusedAsIs
    <2>2. ASSUME NEW a \in Held(l) \ crossed, a \in OauthAccounts
          PROVE  \A q \in Logins : Writer(q, a) => q = l
      <3>1. CASE a = login[l].at
        <4>1. Writer(l, a)
          BY <1>3, <3>1 DEF Writer
        <4>. QED  BY <2>2, <4>1, WriterFacts
      <3>2. CASE a # login[l].at
        <4>1. a = login[l].rebind /\ a # 0 /\ login[l].at # 0
          BY <1>3, <2>1, <2>2, <3>2 DEF Held, Course, WriterStages
        <4>2. Vanished(a)
          BY <2>1, <3>2, <4>1 DEF Course
        <4>3. ~Exists(a)
          BY <4>1, <4>2 DEF Vanished, Exists, Real
        <4>. QED  BY <2>2, <4>3, WriterFacts
      <3>. QED  BY <3>1, <3>2
    <2>3. \A a : Agrees(account[a], account[a])
      BY DEF Agrees
    <2>. QED  BY <1>1, <2>1, <2>2, <2>3, AnswerKeeps
  <1>4. CASE /\ login[l].pc \in {"activating", "rebuilding"} /\ Turn(l, "reverting")
             /\ UNCHANGED <<account, loginSession, expected, crossed>>
    <2>1. login[l].pc \in WriterStages /\ "reverting" \in WriterStages /\ "reverting" \in LoginStages
      BY <1>4 DEF WriterStages, LoginStages
    <2>2. Course(l) /\ LoginTyped /\ login[l].models \in 0..MaxMarks
      BY <2>1, StageFacts, LoginFacts
    <2>3. Became(l, "reverting", login[l].at, login[l].created, login[l].before, login[l].models)
      BY <1>4, <2>1, <2>2, TurnBecomes
    <2>4. Sound(l, "reverting", login[l].at, login[l].created, login[l].before, login[l].models)
      BY <2>1, <2>2 DEF Course, Sound, EarlyStages, WriterStages
    <2>5. ASSUME Owes(l, account[login[l].at], expected[login[l].at], login[l].pc,
                      login[l].created, login[l].before, login[l].models)
          PROVE  Owes(l, account[login[l].at], expected[login[l].at], "reverting",
                      login[l].created, login[l].before, login[l].models)
      BY <1>4, <2>5 DEF Owes
    <2>. QED  BY <1>1, <1>4, <2>1, <2>2, <2>3, <2>4, <2>5, WriterMoves
  <1>. QED  BY <1>2, <1>3, <1>4 DEF LoginStatementFails, WriterStages

-----------------------------------------------------------------------------
(* Beginnings, login sessions, and others who write *)

\* A callback or an import begins.
LEMMA StartKeeps ==
    ASSUME LoginInv, NEW l \in Logins, login[l].pc = "idle",
           login' \in [Logins -> LoginRow], \A q \in Logins \ {l} : login'[q] = login[q],
           login'[l].pc \in {"exchanging", "finding"}, login'[l].at = 0, login'[l].created = FALSE,
           login'[l].before = NoAccount, login'[l].models = 0, GivenOut(login'[l].rebind),
           login'[l].pc = "finding" => login'[l].rebind = 0,
           UNCHANGED <<account, loginSession, expected, crossed>>, marks' \in 1..MaxMarks
    PROVE  LoginInv'
  <1>1. \A q \in Logins : q # l => login'[q] = login[q]
    OBVIOUS
  <1>2. Course(l)'
    <2>1. login'[l] # NoLogin
      BY IdleFacts
    <2>. QED  BY <2>1 DEF Course, EarlyStages, WriterStages, GivenOut
  <1>3. ASSUME NEW q \in Logins, q # l PROVE Course(q)'
    <2>1. login'[q] = login[q] /\ Course(q)
      BY <1>1, <1>3, CourseFacts
    <2>. QED  BY <2>1 DEF Course, Discovers, GivenOut, Vanished
  <1>4. LoginTyped' /\ \A s \in LoginSessions : GivenOut(loginSession[s].rebind)'
    BY DEF LoginInv, LoginCourse, LoginTyped, GivenOut
  <1>5. ASSUME NEW a \in OauthAccounts \ crossed PROVE AccountSettled(a)'
    <2>1. AccountSettled(a) /\ a # 0
      BY OAuthLoginAssumption DEF LoginInv
    <2>2. ~Writer(l, a) /\ ~Writer(l, a)'
          /\ CountsOn(l, a, account[a], login[l].pc, login[l].at, login[l].before, login[l].models)'
      BY <2>1 DEF Writer, WriterStages, CountsOn
    <2>3. ASSUME NEW q \in Logins, q # l
          PROVE  /\ Writer(q, a)' <=> Writer(q, a)
                 /\ CountsOn(q, a, account[a], login[q].pc, login[q].at, login[q].before, login[q].models)'
                 /\ Writer(q, a)' => Owes(q, account[a], expected[a], login[q].pc, login[q].created,
                                          login[q].before, login[q].models)'
      BY <1>1, <2>1, <2>3 DEF AccountSettled, Writer, CountsOn, Owes, Discovers
    <2>4. Agrees(account[a], expected[a])' \/ \E q \in Logins : Writer(q, a)'
      <3>1. CASE Agrees(account[a], expected[a])
        BY <3>1 DEF Agrees
      <3>2. CASE ~Agrees(account[a], expected[a])
        BY <2>1, <2>2, <2>3, <3>2 DEF AccountSettled
      <3>. QED  BY <3>1, <3>2
    <2>5. \A q, k \in Logins : Writer(q, a)' /\ Writer(k, a)' => q = k
      BY <2>1, <2>2, <2>3 DEF AccountSettled
    <2>. QED  BY <2>2, <2>3, <2>4, <2>5 DEF AccountSettled
  <1>. QED  BY <1>2, <1>3, <1>4, <1>5 DEF LoginInv, LoginCourse

LEMMA CallbackKeeps ==
    ASSUME LoginInv, NEW l \in Logins, NEW s \in LoginSessions, Callback(l, s)
    PROVE  LoginInv'
  <1>. DEFINE rec == [NoLogin EXCEPT !.pc = "exchanging", !.session = s, !.mark = marks + 1,
                                     !.rebind = loginSession[s].rebind]
  <1>1. /\ login[l].pc = "idle" /\ marks' = marks + 1 /\ marks' \in 1..MaxMarks
        /\ Step(l, rec) /\ UNCHANGED <<account, loginSession, expected, crossed>>
    BY LoginFacts, OAuthLoginAssumption DEF Callback, Marked
  <1>2. loginSession[s].rebind \in OauthAccounts \cup {0} /\ GivenOut(loginSession[s].rebind)
    BY DEF LoginInv, LoginCourse, LoginTyped, SessionRow
  <1>3. marks + 1 \in 0..MaxMarks
    BY <1>1
  <1>4. "exchanging" \in LoginStages
    BY DEF LoginStages, EarlyStages
  <1>5. rec \in LoginRow
    BY <1>2, <1>3, <1>4, IdleFacts DEF LoginRow
  <1>6. /\ rec.pc = "exchanging" /\ rec.at = 0 /\ rec.created = FALSE /\ rec.before = NoAccount
        /\ rec.models = 0 /\ rec.rebind = loginSession[s].rebind
    BY IdleFacts DEF LoginRow
  <1>. HIDE DEF rec
  <1>7. login' \in [Logins -> LoginRow] /\ login'[l] = rec
        /\ \A q \in Logins \ {l} : login'[q] = login[q]
    BY <1>1, <1>5, StepBecomes DEF LoginInv, LoginCourse
  <1>8. GivenOut(login'[l].rebind)
    BY <1>2, <1>6, <1>7
  <1>. QED  BY <1>1, <1>6, <1>7, <1>8, StartKeeps

LEMMA ImportAccountKeeps ==
    ASSUME LoginInv, NEW l \in Logins, NEW status \in {"active", "disabled"},
           ImportAccount(l, status)
    PROVE  LoginInv'
  <1>. DEFINE rec == [NoLogin EXCEPT !.pc = "finding", !.import = status, !.mark = marks + 1]
  <1>1. /\ login[l].pc = "idle" /\ marks' = marks + 1 /\ marks' \in 1..MaxMarks
        /\ Step(l, rec) /\ UNCHANGED <<account, loginSession, expected, crossed>>
    BY LoginFacts, OAuthLoginAssumption DEF ImportAccount, Marked
  <1>2. marks + 1 \in 0..MaxMarks
    BY <1>1
  <1>3. "finding" \in LoginStages
    BY DEF LoginStages, EarlyStages
  <1>4. rec \in LoginRow
    BY <1>2, <1>3, IdleFacts DEF LoginRow
  <1>5. /\ rec.pc = "finding" /\ rec.at = 0 /\ rec.created = FALSE /\ rec.before = NoAccount
        /\ rec.models = 0 /\ rec.rebind = 0
    BY IdleFacts DEF LoginRow
  <1>. HIDE DEF rec
  <1>6. login' \in [Logins -> LoginRow] /\ login'[l] = rec
        /\ \A q \in Logins \ {l} : login'[q] = login[q]
    BY <1>1, <1>4, StepBecomes DEF LoginInv, LoginCourse
  <1>7. GivenOut(login'[l].rebind)
    BY <1>5, <1>6 DEF GivenOut
  <1>. QED  BY <1>1, <1>5, <1>6, <1>7, StartKeeps

\* What happens to login sessions is nothing to the accounts.
LEMMA SessionsKeep ==
    ASSUME LoginInv, UNCHANGED <<account, login, expected, crossed>>, marks' \in 1..MaxMarks,
           loginSession' \in [LoginSessions -> SessionRow],
           \A s \in LoginSessions : GivenOut(loginSession'[s].rebind)
    PROVE  LoginInv'
  <1>1. \A l \in Logins : Course(l)'
    BY DEF LoginInv, LoginCourse, Course, Discovers, GivenOut, Vanished
  <1>2. LoginTyped' /\ \A s \in LoginSessions : GivenOut(loginSession[s].rebind)'
    BY DEF LoginInv, LoginCourse, LoginTyped, GivenOut
  <1>3. \A a \in OauthAccounts \ crossed : AccountSettled(a)'
    BY DEF LoginInv, AccountSettled, Agrees, Writer, CountsOn, Owes, Discovers
  <1>. QED  BY <1>1, <1>2, <1>3 DEF LoginInv, LoginCourse

LEMMA ToldSessions ==
    ASSUME LoginInv, NEW t, NEW status \in {"success", "error", "expired"}, Told(t, status)
    PROVE  /\ loginSession' \in [LoginSessions -> SessionRow]
           /\ \A s \in LoginSessions : GivenOut(loginSession'[s].rebind)
  <1>1. ASSUME NEW s \in LoginSessions
        PROVE  /\ loginSession[s] \in SessionRow /\ GivenOut(loginSession[s].rebind)
               /\ [loginSession[s] EXCEPT !.status = status] \in SessionRow
               /\ [loginSession[s] EXCEPT !.status = status].rebind = loginSession[s].rebind
    BY DEF LoginInv, LoginCourse, LoginTyped, SessionRow
  <1>2. ASSUME NEW s \in LoginSessions
        PROVE  loginSession'[s] \in SessionRow /\ loginSession'[s].rebind = loginSession[s].rebind
    BY <1>1 DEF Told
  <1>3. loginSession' \in [LoginSessions -> SessionRow]
    BY <1>2 DEF Told
  <1>. QED  BY <1>1, <1>2, <1>3

LEMMA SessionStepsKeep ==
    ASSUME LoginInv, NEW s \in LoginSessions, NEW a \in OauthAccounts \cup {0}
    PROVE  StartFlow(s, a) \/ SessionExpires(s) \/ CallbackDenied(s) => LoginInv'
  <1>1. marks \in 1..MaxMarks /\ loginSession \in [LoginSessions -> SessionRow]
        /\ \A t \in LoginSessions : GivenOut(loginSession[t].rebind)
    BY DEF LoginInv, LoginCourse, LoginTyped
  <1>2. CASE StartFlow(s, a)
    <2>1. [status |-> "pending", rebind |-> a] \in SessionRow
      BY DEF SessionRow
    <2>2. GivenOut(a)
      BY <1>2 DEF StartFlow, Exists, Real, GivenOut
    <2>3. /\ loginSession' \in [LoginSessions -> SessionRow]
          /\ \A t \in LoginSessions : loginSession'[t].rebind \in {a, loginSession[t].rebind}
      BY <1>1, <1>2, <2>1 DEF StartFlow
    <2>4. \A t \in LoginSessions : GivenOut(loginSession'[t].rebind)
      BY <1>1, <2>2, <2>3
    <2>. QED  BY <1>1, <1>2, <2>3, <2>4, SessionsKeep DEF StartFlow
  <1>3. CASE SessionExpires(s)
    BY <1>1, <1>3, ToldSessions, SessionsKeep DEF SessionExpires
  <1>4. CASE CallbackDenied(s)
    <2>1. marks' \in 1..MaxMarks
      BY <1>1, <1>4, OAuthLoginAssumption DEF CallbackDenied, Marked
    <2>. QED  BY <1>4, <2>1, ToldSessions, SessionsKeep DEF CallbackDenied
  <1>. QED  BY <1>2, <1>3, <1>4

\* A refresh, or the operator: what they write is what is expected where no login is.
LEMMA OthersWriteKeeps ==
    ASSUME LoginInv, NEW a \in OauthAccounts, NEW row \in AccountRow, row.status # "none",
           OthersWrite(a, row)
    PROVE  LoginInv'
  <1>1. /\ LoginTyped /\ Exists(a) /\ Real(account[a]) /\ a # 0 /\ Writes({}, a, row)
        /\ UNCHANGED <<loginSession, login>>
        /\ expected' = IF OthersAt(a, {}) THEN expected ELSE [expected EXCEPT ![a] = row]
    BY DEF LoginInv, LoginCourse, OthersWrite, Exists
  <1>2. marks' \in 1..MaxMarks
    BY <1>1, OAuthLoginAssumption DEF OthersWrite, Marked, LoginTyped
  <1>3. /\ account' \in [OauthAccounts -> AccountRow] /\ crossed' \subseteq OauthAccounts
        /\ account'[a] = row /\ \A b \in OauthAccounts \ {a} : account'[b] = account[b]
        /\ crossed \subseteq crossed' /\ (a \notin crossed' => ~OthersAt(a, {}))
    BY <1>1, WriteFacts
  <1>4. Ages
    BY <1>1, WriteAges
  <1>5. /\ expected' \in [OauthAccounts -> AccountRow]
        /\ \A b \in OauthAccounts \ {a} : expected'[b] = expected[b]
        /\ ~OthersAt(a, {}) => expected'[a] = row
    BY <1>1 DEF LoginTyped
  <1>6. \A b \in OauthAccounts \cup {0} :
            (GivenOut(b) => GivenOut(b)') /\ (Vanished(b) => Vanished(b)')
    BY <1>4 DEF Ages, GivenOut, Vanished
  <1>7. ASSUME NEW l \in Logins PROVE Course(l)'
    <2>1. Course(l) /\ login[l].rebind \in OauthAccounts \cup {0} /\ login' = login
      BY <1>1, CourseFacts, LoginFacts
    <2>. QED  BY <1>6, <2>1 DEF Course, Discovers
  <1>8. LoginTyped'
    BY <1>1, <1>2, <1>3, <1>5 DEF LoginTyped
  <1>9. \A s \in LoginSessions : GivenOut(loginSession[s].rebind)'
    <2>1. \A s \in LoginSessions : loginSession[s].rebind \in OauthAccounts \cup {0}
      BY DEF LoginInv, LoginCourse, LoginTyped, SessionRow
    <2>. QED  BY <1>1, <1>4, <2>1 DEF LoginInv, LoginCourse, GivenOut, Ages
  <1>10. ASSUME a \notin crossed' PROVE AccountSettled(a)'
    <2>1. (\A l \in Logins : a \notin Held(l)) /\ account'[a] = expected'[a] /\ login' = login
      BY <1>1, <1>3, <1>5, <1>10 DEF OthersAt
    <2>2. ASSUME NEW l \in Logins
          PROVE  /\ ~Writer(l, a)'
                 /\ CountsOn(l, a, account[a], login[l].pc, login[l].at, login[l].before, login[l].models)'
      BY <1>1, <2>1 DEF Held, Writer, WriterStages, CountsOn
    <2>3. Agrees(account[a], expected[a])'
      BY <2>1 DEF Agrees
    <2>. QED  BY <2>2, <2>3 DEF AccountSettled
  <1>11. ASSUME NEW b \in OauthAccounts \ crossed', b # a PROVE AccountSettled(b)'
    <2>1. AccountSettled(b) /\ account'[b] = account[b] /\ expected'[b] = expected[b] /\ login' = login
      BY <1>1, <1>3, <1>5, <1>11 DEF LoginInv
    <2>. QED  BY <2>1 DEF AccountSettled, Agrees, Writer, CountsOn, Owes, Discovers
  <1>. QED  BY <1>7, <1>8, <1>9, <1>10, <1>11 DEF LoginInv, LoginCourse

LEMMA OthersKeep ==
    ASSUME LoginInv, NEW a \in OauthAccounts
    PROVE  RefreshToken(a) \/ UpdateAccount(a) \/ DeleteConnection(a) => LoginInv'
  <1>1. ASSUME NEW row, OthersWrite(a, row)
        PROVE  /\ Real(account[a]) /\ account[a] \in AccountRow /\ marks + 1 \in 0..MaxMarks
               /\ account[a].token \in 0..MaxMarks /\ account[a].models \in 0..MaxMarks
    <2>1. Real(account[a]) /\ account[a] \in AccountRow /\ marks + 1 \in 0..MaxMarks
      BY <1>1, OAuthLoginAssumption DEF OthersWrite, Marked, Exists, LoginInv, LoginCourse, LoginTyped
    <2>. QED  BY <2>1, AccountRowFacts
  <1>2. CASE RefreshToken(a)
    <2>. DEFINE row == [account[a] EXCEPT !.token = marks + 1, !.status = "active"]
    <2>1. OthersWrite(a, row)
      BY <1>2 DEF RefreshToken
    <2>2. row = [status |-> "active", token |-> marks + 1, models |-> account[a].models]
      <3>1. /\ Real(account[a]) /\ account[a] \in AccountRow /\ marks + 1 \in 0..MaxMarks
            /\ account[a].models \in 0..MaxMarks
        BY <1>1, <2>1
      <3>. QED  BY <3>1, RowChanges
    <2>. HIDE DEF row
    <2>3. row \in AccountRow /\ row.status # "none"
      BY <1>1, <2>1, <2>2, AccountRowFacts
    <2>. QED  BY <2>1, <2>3, OthersWriteKeeps
  <1>3. CASE UpdateAccount(a)
    <2>1. PICK status \in {"active", "disabled"} :
              OthersWrite(a, [account[a] EXCEPT !.status = status])
      BY <1>3 DEF UpdateAccount
    <2>. DEFINE row == [account[a] EXCEPT !.status = status]
    <2>2. row = [status |-> status, token |-> account[a].token, models |-> account[a].models]
      BY <1>1, <2>1, RowChanges
    <2>3. OthersWrite(a, row)
      BY <2>1
    <2>. HIDE DEF row
    <2>4. row \in AccountRow /\ row.status # "none"
      BY <1>1, <2>2, <2>3, AccountRowFacts
    <2>. QED  BY <2>3, <2>4, OthersWriteKeeps
  <1>4. CASE DeleteConnection(a)
    <2>1. Deleted \in AccountRow /\ Deleted.status # "none"
      BY AccountRowFacts DEF Deleted, NoAccount
    <2>. QED  BY <1>4, <2>1, OthersWriteKeeps DEF DeleteConnection
  <1>. QED  BY <1>2, <1>3, <1>4

-----------------------------------------------------------------------------
(* The theorem *)

LEMMA LoginInitInv == LoginInit => LoginInv
  <1>. SUFFICES ASSUME LoginInit PROVE LoginInv
    OBVIOUS
  <1>1. 0 \in 0..MaxMarks /\ 1 \in 0..MaxMarks
    BY OAuthLoginAssumption
  <1>2. ASSUME NEW status \in {"active", "disabled"}, NEW m \in {0, 1}
        PROVE  [status |-> status, token |-> 1, models |-> m] \in AccountRow
    BY <1>1, <1>2, AccountRowFacts
  <1>3. ASSUME NEW row \in {NoAccount} \cup
                          [status : {"active", "disabled"}, token : {1}, models : {0, 1}]
        PROVE  row \in AccountRow
    <2>1. CASE row = NoAccount
      BY <2>1, AccountRowFacts
    <2>2. CASE row \in [status : {"active", "disabled"}, token : {1}, models : {0, 1}]
      <3>1. row = [status |-> row.status, token |-> 1, models |-> row.models]
            /\ row.status \in {"active", "disabled"} /\ row.models \in {0, 1}
        BY <2>2
      <3>. QED  BY <1>2, <3>1
    <2>. QED  BY <2>1, <2>2
  <1>4. account \in [OauthAccounts -> AccountRow]
    BY <1>3, AccountRowFacts DEF LoginInit
  <1>5. loginSession \in [LoginSessions -> SessionRow]
        /\ \A s \in LoginSessions : loginSession[s].rebind = 0
    BY DEF LoginInit, SessionRow
  <1>6. login \in [Logins -> LoginRow] /\ \A l \in Logins : login[l] = NoLogin
    BY IdleFacts DEF LoginInit
  <1>7. LoginTyped
    BY <1>4, <1>5, <1>6, OAuthLoginAssumption DEF LoginInit, LoginTyped
  <1>8. \A l \in Logins : Course(l)
    BY <1>6, IdleFacts, AccountRowFacts DEF Course, GivenOut, Vanished, EarlyStages, WriterStages
  <1>9. \A s \in LoginSessions : GivenOut(loginSession[s].rebind)
    BY <1>5 DEF GivenOut
  <1>10. \A a \in OauthAccounts : AccountSettled(a)
    BY <1>6, IdleFacts DEF LoginInit, AccountSettled, Agrees, Writer, WriterStages, CountsOn
  <1>. QED  BY <1>7, <1>8, <1>9, <1>10 DEF LoginInv, LoginCourse

LEMMA LoginNextInv == LoginInv /\ [LoginNext]_loginVars => LoginInv'
  <1>. SUFFICES ASSUME LoginInv, [LoginNext]_loginVars PROVE LoginInv'
    OBVIOUS
  <1>1. CASE UNCHANGED loginVars
    <2>1. /\ UNCHANGED <<account, login, expected, crossed>> /\ marks' \in 1..MaxMarks
          /\ loginSession' \in [LoginSessions -> SessionRow]
          /\ \A s \in LoginSessions : GivenOut(loginSession'[s].rebind)
      BY <1>1 DEF loginVars, LoginInv, LoginCourse, LoginTyped
    <2>. QED  BY <2>1, SessionsKeep
  <1>2. ASSUME NEW l \in Logins,
               \/ Exchange(l) \/ SnapshotRebound(l) \/ FindExisting(l) \/ UpdateExisting(l)
               \/ InsertNew(l) \/ SnapshotModels(l) \/ ClearModels(l) \/ DiscoveryRefreshes(l)
               \/ FindModels(l) \/ FindNothing(l) \/ RestoreModels(l) \/ ActivateExisting(l)
               \/ Rebuilt(l) \/ RevertAccount(l) \/ RebuiltLast(l) \/ LoginStatementFails(l)
        PROVE  LoginInv'
    BY <1>2, ExchangeKeeps, SnapshotReboundKeeps, FindExistingKeeps, UpdateExistingKeeps,
       InsertNewKeeps, SnapshotModelsKeeps, ClearModelsKeeps, DiscoveryRefreshesKeeps,
       FindModelsKeeps, FindNothingKeeps, RestoreModelsKeeps, ActivateExistingKeeps,
       RebuiltKeeps, RevertAccountKeeps, RebuiltLastKeeps, LoginStatementFailsKeeps
  <1>3. ASSUME NEW l \in Logins, NEW s \in LoginSessions, Callback(l, s) PROVE LoginInv'
    BY <1>3, CallbackKeeps
  <1>4. ASSUME NEW l \in Logins, NEW status \in {"active", "disabled"}, ImportAccount(l, status)
        PROVE  LoginInv'
    BY <1>4, ImportAccountKeeps
  <1>5. ASSUME NEW s \in LoginSessions, SessionExpires(s) \/ CallbackDenied(s) PROVE LoginInv'
    BY <1>5, SessionStepsKeep
  <1>6. ASSUME NEW s \in LoginSessions, NEW a \in OauthAccounts \cup {0}, StartFlow(s, a)
        PROVE  LoginInv'
    BY <1>6, SessionStepsKeep
  <1>7. ASSUME NEW a \in OauthAccounts, RefreshToken(a) \/ UpdateAccount(a) \/ DeleteConnection(a)
        PROVE  LoginInv'
    BY <1>7, OthersKeep
  <1>. QED  BY <1>1, <1>2, <1>3, <1>4, <1>5, <1>6, <1>7 DEF LoginNext

\* An account nobody is logging in to is what the answers say: as a success promised it,
\* or after an error as it was - unless somebody else wrote it while a login was at it.
THEOREM AnswersAreTrue == LoginSpec => []AnswersMatchAccounts
  <1>1. LoginInv => AnswersMatchAccounts
    <2>. SUFFICES ASSUME LoginInv, NEW a \in OauthAccounts \ crossed, ~OthersAt(a, {}),
                         Real(account[a]) \/ Real(expected[a])
                  PROVE  account[a] = expected[a]
      BY DEF AnswersMatchAccounts
    <2>1. AccountSettled(a) /\ a # 0 /\ \A l \in Logins : a \notin Held(l)
      BY OAuthLoginAssumption DEF LoginInv, OthersAt
    <2>2. \A l \in Logins : ~Writer(l, a)
      BY <2>1 DEF Held, Writer, WriterStages
    <2>. QED  BY <2>1, <2>2 DEF AccountSettled, Agrees
  <1>. QED  BY <1>1, LoginInitInv, LoginNextInv, PTL DEF LoginSpec

\* However logins, imports, callbacks, refreshes and edits cross, rows and logins stay
\* well-formed: a login that created an account found none, and an account that is
\* gone keeps neither token nor models.
THEOREM LoginsTypeCorrect == LoginSpec => []LoginTypeOK
  <1>1. LoginInv => LoginTypeOK
    <2>. SUFFICES ASSUME LoginInv PROVE LoginTypeOK
      OBVIOUS
    <2>1. LoginTyped /\ \A l \in Logins : Course(l)
      BY DEF LoginInv, LoginCourse
    <2>2. account \in [OauthAccounts -> [status : {"none", "gone", "active", "disabled"},
                                         token : 0..MaxMarks, models : 0..MaxMarks]]
      <3>1. AccountRow \subseteq [status : {"none", "gone", "active", "disabled"},
                                  token : 0..MaxMarks, models : 0..MaxMarks]
        BY DEF AccountRow
      <3>. QED  BY <2>1, <3>1 DEF LoginTyped
    <2>3. \A a \in OauthAccounts : ~Exists(a) => account[a].token = 0 /\ account[a].models = 0
      BY <2>1, OAuthLoginAssumption DEF LoginTyped, AccountRow, Exists
    <2>4. ASSUME NEW s \in LoginSessions
          PROVE  /\ loginSession[s].status \in {"unused", "pending", "success", "error", "expired"}
                 /\ loginSession[s].rebind \in OauthAccounts \cup {0}
      BY <2>1 DEF LoginTyped, SessionRow
    <2>5. ASSUME NEW l \in Logins
          PROVE  /\ login[l].pc \in LoginStages
                 /\ login[l].pc = "idle" <=> login[l] = NoLogin
                 /\ login[l].at \in OauthAccounts \cup {0}
                 /\ login[l].created => ~Real(login[l].before)
      BY <2>1 DEF LoginTyped, LoginRow, Course
    <2>. QED  BY <2>1, <2>2, <2>3, <2>4, <2>5
              DEF LoginTypeOK, LoginTyped, LoginStages, EarlyStages, WriterStages
  <1>. QED  BY <1>1, LoginInitInv, LoginNextInv, PTL DEF LoginSpec
===============================================================================
