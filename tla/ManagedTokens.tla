---------------------------- MODULE ManagedTokens ----------------------------
(***************************************************************************)
(* The rotating refresh token of one account, kept in the extraConfig of   *)
(* its row. Refreshes go through a single flight per account. Whoever else *)
(* updates extraConfig (model discovery, balances) reads the row, works    *)
(* with the site, and writes back what it read with its own patch.         *)
(* OAuth refreshes read the row themselves, sub2api ones use what their    *)
(* caller has read.                                                        *)
(***************************************************************************)
EXTENDS Naturals, FiniteSets

CONSTANTS
    Workers,        \* discoveries, balance refreshes, refresh passes, proxied requests
    Flights, NoFlight,
    MaxTokens,      \* bound: tokens the provider issues
    MaxCrashes      \* bound: crashes, and answers and writes that are lost

ASSUME TokenAssumption ==
    NoFlight \notin Flights /\ MaxTokens \in Nat \ {0} /\ MaxCrashes \in Nat

VARIABLES
    kind,       \* "oauth" or "sub2api"
    stored,     \* the refresh token in the row: tokens are numbered as issued
    valid,      \* the token the provider accepts
    inFlight,   \* refreshInFlight
    flight,     \* what each refresh is doing
    worker,     \* what each worker is doing, and the token in what it has read
    crashes,    \* bound
    foreign,    \* history: the row changed since, by a refresh the worker did not await
    spoiled     \* history: "lost" - an issued token was never stored;
                \* "reverted" - such a worker wrote back what it had read

tokenVars == <<kind, stored, valid, inFlight, flight, worker, crashes, foreign, spoiled>>

Landed == [pc |-> "over", token |-> 0, got |-> 0, stale |-> FALSE]
Away == [pc |-> "away", token |-> 0, on |-> NoFlight]

TokensTypeOK ==
    /\ kind \in {"oauth", "sub2api"}
    /\ stored \in 1..MaxTokens /\ valid \in 1..MaxTokens
    /\ inFlight \in Flights \cup {NoFlight}
    /\ flight \in [Flights -> [pc : {"over", "reading", "asking", "writing"}, token : 0..MaxTokens,
                               got : 0..MaxTokens, stale : BOOLEAN]]
    /\ worker \in [Workers -> [pc : {"away", "holding", "waiting", "rereading", "retrying"},
                               token : 0..MaxTokens, on : Flights \cup {NoFlight}]]
    /\ crashes \in 0..MaxCrashes
    /\ foreign \in [Workers -> BOOLEAN] /\ spoiled \subseteq {"lost", "reverted"}

TokensInit ==
    /\ kind \in {"oauth", "sub2api"}
    /\ stored = 1 /\ valid = 1
    /\ inFlight = NoFlight
    /\ flight = [f \in Flights |-> Landed]
    /\ worker = [w \in Workers |-> Away]
    /\ crashes = 0
    /\ foreign = [w \in Workers |-> FALSE] /\ spoiled = {}

-----------------------------------------------------------------------------
(* The workers                                                              *)

ReadAccount(w) ==
    /\ worker[w].pc = "away"
    /\ worker' = [worker EXCEPT ![w] = [pc |-> "holding", token |-> stored, on |-> NoFlight]]
    /\ foreign' = [foreign EXCEPT ![w] = FALSE]
    /\ UNCHANGED <<kind, stored, valid, inFlight, flight, crashes, spoiled>>

\* updateOauthModelDiscoveryState, refreshBalance: extraConfig as it was read.
WriteBack(w) ==
    /\ worker[w].pc \in {"holding", "retrying"}
    /\ stored' = worker[w].token
    /\ worker' = [worker EXCEPT ![w] = Away]
    /\ spoiled' = IF foreign[w] /\ worker[w].token # stored THEN spoiled \cup {"reverted"}
                  ELSE spoiled
    /\ UNCHANGED <<kind, valid, inFlight, flight, crashes, foreign>>

\* An error, or nothing to write.
Leave(w) ==
    /\ worker[w].pc \in {"holding", "retrying"}
    /\ worker' = [worker EXCEPT ![w] = Away]
    /\ UNCHANGED <<kind, stored, valid, inFlight, flight, crashes, foreign, spoiled>>

-----------------------------------------------------------------------------
(* refreshOauthAccessTokenSingleflight, refreshSub2ApiManagedSessionSingle- *)
(* flight: because a token is due or was refused; a balance for both        *)

\* Mutant: the entry of the map is deleted when the answer is in.
ExistingUntilAnswered ==
    IF inFlight # NoFlight /\ flight[inFlight].pc = "writing" THEN NoFlight ELSE inFlight

Existing == inFlight

Waiting(w, f) == worker' = [worker EXCEPT ![w].pc = "waiting", ![w].on = f]

Refresh(w) ==
    /\ worker[w].pc \in {"holding"} \cup (IF kind = "sub2api" THEN {"retrying"} ELSE {})
    /\ \/ /\ Existing # NoFlight
          /\ Waiting(w, Existing)
          /\ UNCHANGED <<inFlight, flight>>
       \/ /\ Existing = NoFlight
          /\ \E f \in Flights :
                /\ flight[f].pc = "over"
                /\ inFlight' = f
                /\ Waiting(w, f)
                /\ flight' = [flight EXCEPT ![f] =
                     IF kind = "oauth" THEN [Landed EXCEPT !.pc = "reading"]
                     ELSE [pc |-> "asking", token |-> worker[w].token, got |-> 0,
                           stale |-> foreign[w]]]
    /\ UNCHANGED <<kind, stored, valid, crashes, foreign, spoiled>>

ReadForRefresh(f) ==
    /\ flight[f].pc = "reading"
    /\ flight' = [flight EXCEPT ![f].pc = "asking", ![f].token = stored]
    /\ UNCHANGED <<kind, stored, valid, inFlight, worker, crashes, foreign, spoiled>>

\* The provider rotates the token, or renews the access token only.
ProviderAnswers(f) ==
    /\ flight[f].pc = "asking" /\ flight[f].token = valid
    /\ valid' \in {valid} \cup ({valid + 1} \cap 1..MaxTokens)
    /\ flight' = [flight EXCEPT ![f].pc = "writing", ![f].got = valid']
    /\ UNCHANGED <<kind, stored, inFlight, worker, crashes, foreign, spoiled>>

-----------------------------------------------------------------------------
(* The end of a flight: its entry goes, and whoever awaits it goes on       *)

Landing(f) ==
    /\ flight' = [flight EXCEPT ![f] = Landed]
    /\ inFlight' = IF inFlight = f THEN NoFlight ELSE inFlight

Awaits(w, f) == worker[w].pc = "waiting" /\ worker[w].on = f

\* They fail, or report the error and write back what they have.
FailFor(f) ==
    worker' = [w \in Workers |->
        IF Awaits(w, f) THEN [worker[w] EXCEPT !.pc = "retrying", !.on = NoFlight] ELSE worker[w]]

\* Mutant: they go on with the account they had.
ResumeWithOld(f, got) == FailFor(f)

\* They read the row again, or take the extraConfig that was written.
Resume(f, got) ==
    \E reread \in {FALSE, kind = "oauth"} :
        worker' = [w \in Workers |->
            IF ~Awaits(w, f) THEN worker[w]
            ELSE IF reread THEN [worker[w] EXCEPT !.pc = "rereading", !.on = NoFlight]
            ELSE [pc |-> "retrying", token |-> got, on |-> NoFlight]]

ProviderRefuses(f) ==
    /\ flight[f].pc = "asking"
    /\ Landing(f) /\ FailFor(f)
    /\ UNCHANGED <<kind, stored, valid, crashes, foreign, spoiled>>

\* The token is issued, but the answer does not arrive or cannot be stored.
AnswerLost(f) ==
    /\ crashes < MaxCrashes /\ crashes' = crashes + 1
    /\ \/ flight[f].pc = "asking" /\ flight[f].token = valid /\ valid < MaxTokens /\ valid' = valid + 1
       \/ flight[f].pc = "writing" /\ UNCHANGED valid
    /\ Landing(f) /\ FailFor(f)
    /\ spoiled' = IF valid' # stored THEN spoiled \cup {"lost"} ELSE spoiled
    /\ UNCHANGED <<kind, stored, foreign>>

StoreRefreshed(f) ==
    /\ flight[f].pc = "writing"
    /\ stored' = flight[f].got
    /\ Landing(f) /\ Resume(f, flight[f].got)
    /\ foreign' = [w \in Workers |->
            ~Awaits(w, f) /\ (foreign[w] \/ flight[f].got # stored)]
    /\ UNCHANGED <<kind, valid, crashes, spoiled>>

Reread(w) ==
    /\ worker[w].pc = "rereading"
    /\ worker' = [worker EXCEPT ![w].pc = "retrying", ![w].token = stored]
    /\ foreign' = [foreign EXCEPT ![w] = FALSE]
    /\ UNCHANGED <<kind, stored, valid, inFlight, flight, crashes, spoiled>>

Restart ==
    /\ crashes < MaxCrashes /\ crashes' = crashes + 1
    /\ inFlight' = NoFlight
    /\ flight' = [f \in Flights |-> Landed]
    /\ worker' = [w \in Workers |-> Away]
    /\ spoiled' = IF \E f \in Flights : flight[f].pc = "writing" /\ flight[f].got # stored
                  THEN spoiled \cup {"lost"} ELSE spoiled
    /\ UNCHANGED <<kind, stored, valid, foreign>>

TokensNext ==
    \/ \E w \in Workers : ReadAccount(w) \/ Refresh(w) \/ Reread(w) \/ WriteBack(w) \/ Leave(w)
    \/ \E f \in Flights :
        \/ ReadForRefresh(f) \/ ProviderAnswers(f) \/ ProviderRefuses(f)
        \/ AnswerLost(f) \/ StoreRefreshed(f)
    \/ Restart

TokensSpec == TokensInit /\ [][TokensNext]_tokenVars

-----------------------------------------------------------------------------
\* Properties

Storing == \E f \in Flights : flight[f].pc = "writing"

\* A refresh never presents a token that has been spent, however workers and
\* passes ask for one at a time - but for sub2api, whose refresh takes the token
\* from what its caller has read, before a refresh it did not wait for.
NeverPresentsSpentToken ==
    spoiled = {} => \A f \in Flights :
        flight[f].pc = "asking" /\ ~flight[f].stale => flight[f].token = valid

\* The token in the row is the one the provider accepts: a worker that has waited
\* for a refresh does not put back the token it had before.
StoredTokenIsValid == spoiled = {} /\ ~Storing => stored = valid

\* A model discovery leaves the refreshed credentials of its account in place
\* (the test "preserves refreshed codex oauth metadata when the retry after
\* refresh still fails"): once a refresh has stored its token, no discovery puts
\* a spent one back.
DiscoveryPreservesToken ==
    kind = "oauth" /\ "lost" \notin spoiled /\ ~Storing => stored = valid
=============================================================================
