------------------------------- MODULE OAuthLogin -------------------------------
(***************************************************************************)
(* How an OAuth login becomes an account. The callback of a login session, *)
(* or an import, finds or inserts the account of one identity, discovers   *)
(* its models, activates it and rebuilds the routes; when that fails it    *)
(* puts the account back. Nothing holds a lock or a transaction over these *)
(* steps: logins overlap each other, and refreshes and operators as well.  *)
(***************************************************************************)
EXTENDS Naturals

CONSTANTS
    Logins,             \* bound: callbacks and imports at a time
    LoginSessions,      \* states of login sessions
    OauthAccounts,      \* ids, in the order they are given out
    MaxMarks            \* bound: callbacks, imports, changes by others and failing
                        \* statements altogether

ASSUME OAuthLoginAssumption ==
    OauthAccounts \subseteq Nat \ {0} /\ MaxMarks \in Nat \ {0}

VARIABLES
    account,            \* rows of the identity: status, credentials and models
    loginSession,       \* the store of login sessions
    login,              \* what each login has read, and where it is
    marks,              \* counts them, and numbers the credentials they write
    expected,           \* history: the rows as the answers that were given make them
    crossed             \* history: accounts somebody else wrote while a login was at them

loginVars == <<account, loginSession, login, marks, expected, crossed>>

NoAccount == [status |-> "none", token |-> 0, models |-> 0]     \* not given out yet
Deleted == [NoAccount EXCEPT !.status = "gone"]
NoLogin == [pc |-> "idle", session |-> "none", import |-> "no", rebind |-> 0, mark |-> 0,
            at |-> 0, created |-> FALSE, before |-> NoAccount, models |-> 0, seen |-> 0]

Real(row) == row.status \in {"active", "disabled"}
Exists(a) == a # 0 /\ Real(account[a])

LoginTypeOK ==
    /\ account \in [OauthAccounts -> [status : {"none", "gone", "active", "disabled"},
                                      token : 0..MaxMarks, models : 0..MaxMarks]]
    /\ \A s \in LoginSessions :
        /\ loginSession[s].status \in {"unused", "pending", "success", "error", "expired"}
        /\ loginSession[s].rebind \in OauthAccounts \cup {0}
    /\ \A l \in Logins :
        /\ login[l].pc \in {"idle", "exchanging", "models", "finding", "upserting", "snapshot",
                            "clearing", "asking", "restoring", "activating", "rebuilding",
                            "reverting", "rebuildingLast"}
        /\ login[l].pc = "idle" <=> login[l] = NoLogin
        /\ login[l].at \in OauthAccounts \cup {0}
        /\ login[l].created => ~Real(login[l].before)
    /\ marks \in 1..MaxMarks
    /\ \A a \in OauthAccounts : ~Exists(a) => account[a].token = 0 /\ account[a].models = 0

\* The identity has an account or not; its models may be unknown.
LoginInit ==
    /\ \E row \in {NoAccount} \cup [status : {"active", "disabled"}, token : {1}, models : {0, 1}] :
          account = [a \in OauthAccounts |->
                        IF \A b \in OauthAccounts : a <= b THEN row ELSE NoAccount]
    /\ loginSession = [s \in LoginSessions |-> [status |-> "unused", rebind |-> 0]]
    /\ login = [l \in Logins |-> NoLogin]
    /\ marks = 1 /\ expected = account /\ crossed = {}

-----------------------------------------------------------------------------
(* Who is at which account                                                  *)

\* From its snapshot to its end a login counts on what it has read.
Held(l) == IF login[l].pc \in {"idle", "exchanging", "models"} THEN {}
           ELSE {login[l].at, login[l].rebind} \ {0}

OthersAt(a, ls) == \E l \in Logins \ ls : a \in Held(l)

\* Login l, or nobody of them ({}), writes the row of a.
Writes(ls, a, row) ==
    /\ account' = [account EXCEPT ![a] = row]
    /\ crossed' = IF OthersAt(a, ls) THEN crossed \cup {a} ELSE crossed

Marked == marks < MaxMarks /\ marks' = marks + 1
Step(l, rec) == login' = [login EXCEPT ![l] = rec]
Turn(l, pc) == Step(l, [login[l] EXCEPT !.pc = pc])

\* markOauthSessionSuccess, markOauthSessionError: an expired session is gone.
Told(s, status) ==
    loginSession' = [t \in LoginSessions |->
        IF t = s /\ loginSession[t].status # "expired"
        THEN [loginSession[t] EXCEPT !.status = status] ELSE loginSession[t]]

\* The browser or the importer is answered, which makes the rows what they should be;
\* not those that were crossed, which start anew when the last login leaves them.
Answered(l, status, rows) ==
    LET left == {a \in Held(l) : ~OthersAt(a, {l})} IN
    /\ expected' = [a \in OauthAccounts |->
            CASE a \in left \cap crossed -> account[a]
              [] a \in Held(l) \ crossed -> rows[a]
              [] OTHER -> expected[a]]
    /\ crossed' = crossed \ left
    /\ login' = [login EXCEPT ![l] = NoLogin]
    /\ Told(login[l].session, status)
    /\ UNCHANGED account

\* All is as it was before the login.
Refused(l) == Answered(l, "error", expected)

\* A way out of a login that puts nothing back.
RefusedAsIs(l) == Answered(l, "error", account)

-----------------------------------------------------------------------------
(* Login sessions                                                           *)

\* startOauthProviderFlow, startOauthRebindFlow
StartFlow(s, a) ==
    /\ loginSession[s].status = "unused" /\ (a = 0 \/ Exists(a))
    /\ loginSession' = [loginSession EXCEPT ![s] = [status |-> "pending", rebind |-> a]]
    /\ UNCHANGED <<account, login, marks, expected, crossed>>

SessionExpires(s) ==
    /\ loginSession[s].status \in {"pending", "success", "error"}
    /\ Told(s, "expired")
    /\ UNCHANGED <<account, login, marks, expected, crossed>>

Known(s) == loginSession[s].status \notin {"unused", "expired"}

\* handleOauthCallback, from the listener or pasted by the operator; a session may be
\* handled again, whatever came of it.
Callback(l, s) ==
    /\ login[l].pc = "idle" /\ Known(s) /\ Marked
    /\ Step(l, [NoLogin EXCEPT !.pc = "exchanging", !.session = s, !.mark = marks + 1,
                               !.rebind = loginSession[s].rebind])
    /\ UNCHANGED <<account, loginSession, expected, crossed>>

\* The provider reports an error, or there is no code.
CallbackDenied(s) ==
    /\ Known(s) /\ Marked /\ Told(s, "error")
    /\ UNCHANGED <<account, login, expected, crossed>>

\* importOauthConnectionsFromNativeJson, one item
ImportAccount(l, status) ==
    /\ login[l].pc = "idle" /\ Marked
    /\ Step(l, [NoLogin EXCEPT !.pc = "finding", !.import = status, !.mark = marks + 1])
    /\ UNCHANGED <<account, loginSession, expected, crossed>>

\* exchangeAuthorizationCode
Exchange(l) ==
    /\ login[l].pc = "exchanging"
    /\ \/ /\ Turn(l, IF login[l].rebind = 0 THEN "finding" ELSE "models")
          /\ UNCHANGED <<account, loginSession, expected, crossed>>
       \/ Refused(l)
    /\ UNCHANGED marks

-----------------------------------------------------------------------------
(* activatePersistedOauthAccount and upsertOauthAccount                     *)

ModelsOf(a) == IF Exists(a) THEN account[a].models ELSE 0

\* The models of the account to be rebound are read first.
SnapshotRebound(l) ==
    /\ login[l].pc = "models"
    /\ Step(l, [login[l] EXCEPT !.pc = "finding", !.models = ModelsOf(login[l].rebind)])
    /\ UNCHANGED <<account, loginSession, marks, expected, crossed>>

\* findExistingOauthAccount: the one to be rebound, or the first of the identity
Matching(l) == {a \in OauthAccounts : Exists(a) /\ login[l].rebind \in {0, a}}

FindExisting(l) ==
    /\ login[l].pc = "finding"
    /\ \/ /\ Matching(l) = {} /\ Turn(l, "upserting")
       \/ \E a \in Matching(l) :
            /\ \A b \in Matching(l) : a <= b
            /\ Step(l, [login[l] EXCEPT !.pc = "upserting", !.at = a, !.before = account[a]])
    /\ UNCHANGED <<account, loginSession, marks, expected, crossed>>

\* Is the account to be discovered? A callback always does, an import if it is active.
Discovers(l) == login[l].import # "disabled"
AfterSnapshot(l) == IF Discovers(l) THEN "clearing" ELSE "rebuilding"

\* An existing account is written, disabled until its models are known unless it is
\* imported. If it was deleted meanwhile, the login fails.
UpdateExisting(l) ==
    LET a == login[l].at IN
    /\ login[l].pc = "upserting" /\ a # 0
    /\ IF Exists(a)
       THEN /\ Writes({l}, a, [account[a] EXCEPT !.token = login[l].mark,
                    !.status = IF login[l].import = "no" THEN "disabled" ELSE login[l].import])
            /\ Turn(l, IF login[l].models = 0 THEN "snapshot" ELSE AfterSnapshot(l))
            /\ UNCHANGED <<loginSession, expected>>
       ELSE Refused(l)
    /\ UNCHANGED marks

InsertNew(l) ==
    /\ login[l].pc = "upserting" /\ login[l].at = 0
    /\ \E a \in OauthAccounts :
        /\ account[a].status = "none"
        /\ \A b \in OauthAccounts : account[b].status = "none" => a <= b
        /\ Writes({l}, a, [status |-> IF login[l].import = "no" THEN "active" ELSE login[l].import,
                           token |-> login[l].mark, models |-> 0])
        /\ Step(l, [login[l] EXCEPT !.pc = AfterSnapshot(l), !.at = a, !.created = TRUE])
    /\ UNCHANGED <<loginSession, marks, expected>>

\* The models of any other account are read after it was written.
SnapshotModels(l) ==
    /\ login[l].pc = "snapshot"
    /\ Step(l, [login[l] EXCEPT !.pc = AfterSnapshot(l), !.models = ModelsOf(login[l].at)])
    /\ UNCHANGED <<account, loginSession, marks, expected, crossed>>

-----------------------------------------------------------------------------
(* refreshModelsForAccount, which may look at inactive accounts that existed *)

\* It reads the account and its models, then clears them. On the way it may find the
\* site disabled, or a new account no longer active.
ClearModels(l) ==
    LET a == login[l].at IN
    /\ login[l].pc = "clearing"
    /\ IF Exists(a)
       THEN /\ Writes({l}, a, [account[a] EXCEPT !.models = 0])
            /\ \/ /\ ~login[l].created \/ account[a].status = "active"
                  /\ Step(l, [login[l] EXCEPT !.pc = "asking", !.seen = account[a].models])
               \/ Turn(l, "reverting")
       ELSE Turn(l, "reverting") /\ UNCHANGED <<account, crossed>>
    /\ UNCHANGED <<loginSession, marks, expected>>

\* retryOauthModelDiscoveryWithRefresh: a refresh of the login's own makes the account
\* active; the token it rotates stays that of the login.
DiscoveryRefreshes(l) ==
    LET a == login[l].at IN
    /\ login[l].pc = "asking" /\ Exists(a)
    /\ Writes({l}, a, [account[a] EXCEPT !.status = "active"])
    /\ UNCHANGED <<loginSession, login, marks, expected>>

FindModels(l) ==
    LET a == login[l].at IN
    /\ login[l].pc = "asking" /\ Exists(a) /\ account[a].models = 0
    /\ Writes({l}, a, [account[a] EXCEPT !.models = login[l].mark])
    /\ Turn(l, IF login[l].import = "no" /\ ~login[l].created THEN "activating" ELSE "rebuilding")
    /\ UNCHANGED <<loginSession, marks, expected>>

\* Nothing is found, or it cannot be inserted.
FindNothing(l) ==
    /\ login[l].pc = "asking"
    /\ Turn(l, IF login[l].created THEN "reverting" ELSE "restoring")
    /\ UNCHANGED <<account, loginSession, marks, expected, crossed>>

\* restorePreviousAvailability; models of an account that is gone break a foreign key.
RestoreModels(l) ==
    LET a == login[l].at IN
    /\ login[l].pc = "restoring"
    /\ IF Exists(a) \/ login[l].seen = 0
       THEN /\ Turn(l, "reverting")
            /\ IF Exists(a) THEN Writes({l}, a, [account[a] EXCEPT !.models = login[l].seen])
               ELSE UNCHANGED <<account, crossed>>
            /\ UNCHANGED <<loginSession, expected>>
       ELSE Refused(l)
    /\ UNCHANGED marks

-----------------------------------------------------------------------------
(* The end of a login                                                       *)

\* An account that is gone is noticed after the routes are rebuilt.
ActivateExisting(l) ==
    LET a == login[l].at IN
    /\ login[l].pc = "activating"
    /\ IF Exists(a)
       THEN Writes({l}, a, [account[a] EXCEPT !.status = "active"]) /\ Turn(l, "rebuilding")
       ELSE Turn(l, "rebuildingLast") /\ UNCHANGED <<account, crossed>>
    /\ UNCHANGED <<loginSession, marks, expected>>

\* What the login has promised: its credentials, and the models it has found.
Promised(l) ==
    [status |-> IF login[l].import = "no" THEN "active" ELSE login[l].import,
     token |-> login[l].mark,
     models |-> IF Discovers(l) THEN login[l].mark ELSE login[l].before.models]

Rebuilt(l) ==
    /\ login[l].pc = "rebuilding"
    /\ Answered(l, "success", [expected EXCEPT ![login[l].at] = Promised(l)])
    /\ UNCHANGED marks

\* Mutant: the models stay as the discovery has left them.
PutRowBack(l) == [login[l].before EXCEPT !.models = account[login[l].at].models]

PutBack(l) == [login[l].before EXCEPT !.models = login[l].models]

\* revertPersistedOauthAccount: a new account is deleted, another one written back in
\* one transaction.
RevertAccount(l) ==
    LET a == login[l].at IN
    /\ login[l].pc = "reverting"
    /\ IF Exists(a) \/ login[l].created \/ login[l].models = 0
       THEN /\ Turn(l, "rebuildingLast")
            /\ IF Exists(a) THEN Writes({l}, a, IF login[l].created THEN Deleted ELSE PutBack(l))
               ELSE UNCHANGED <<account, crossed>>
            /\ UNCHANGED <<loginSession, expected>>
       ELSE Refused(l)
    /\ UNCHANGED marks

RebuiltLast(l) ==
    /\ login[l].pc = "rebuildingLast"
    /\ Refused(l)
    /\ UNCHANGED marks

\* A statement throws. Only the last two steps of a login catch it to put the account back.
LoginStatementFails(l) ==
    /\ Marked
    /\ \/ /\ login[l].pc \in {"exchanging", "models", "finding", "upserting", "rebuildingLast"}
          /\ Refused(l)
       \/ /\ login[l].pc \in {"snapshot", "clearing", "asking", "restoring", "reverting"}
          /\ RefusedAsIs(l)
       \/ /\ login[l].pc \in {"activating", "rebuilding"} /\ Turn(l, "reverting")
          /\ UNCHANGED <<account, loginSession, expected, crossed>>

-----------------------------------------------------------------------------
(* Others write the row                                                     *)

OthersWrite(a, row) ==
    /\ Exists(a) /\ Marked
    /\ Writes({}, a, row)
    /\ expected' = IF OthersAt(a, {}) THEN expected ELSE [expected EXCEPT ![a] = row]
    /\ UNCHANGED <<loginSession, login>>

\* refreshOauthAccessToken
RefreshToken(a) ==
    OthersWrite(a, [account[a] EXCEPT !.token = marks + 1, !.status = "active"])

\* applyAccountUpdateWorkflow: the operator enables or disables the account.
UpdateAccount(a) ==
    \E status \in {"active", "disabled"} : OthersWrite(a, [account[a] EXCEPT !.status = status])

DeleteConnection(a) == OthersWrite(a, Deleted)

LoginNext ==
    \/ \E l \in Logins :
        \/ Exchange(l) \/ SnapshotRebound(l) \/ FindExisting(l) \/ UpdateExisting(l)
        \/ InsertNew(l) \/ SnapshotModels(l) \/ ClearModels(l) \/ DiscoveryRefreshes(l)
        \/ FindModels(l) \/ FindNothing(l) \/ RestoreModels(l) \/ ActivateExisting(l) \/ Rebuilt(l)
        \/ RevertAccount(l) \/ RebuiltLast(l) \/ LoginStatementFails(l)
        \/ \E s \in LoginSessions : Callback(l, s)
        \/ \E status \in {"active", "disabled"} : ImportAccount(l, status)
    \/ \E s \in LoginSessions : SessionExpires(s) \/ CallbackDenied(s)
    \/ \E s \in LoginSessions, a \in OauthAccounts \cup {0} : StartFlow(s, a)
    \/ \E a \in OauthAccounts : RefreshToken(a) \/ UpdateAccount(a) \/ DeleteConnection(a)

LoginSpec == LoginInit /\ [][LoginNext]_loginVars

-----------------------------------------------------------------------------
\* Properties

\* An account nobody is logging in to is what the answers say: after a success it
\* has the credentials and the models of that login, after an error it is as it was
\* before, deleted if it was new - whatever failed on the way, and however the login
\* found the account. Not so if a statement failed outside the steps that undo, or
\* while it is recovering from a write that crossed a login.
AnswersMatchAccounts ==
    \A a \in OauthAccounts \ crossed :
        ~OthersAt(a, {}) /\ (Real(account[a]) \/ Real(expected[a])) => account[a] = expected[a]
=============================================================================
