------------------------------ MODULE MCServices ------------------------------
(***************************************************************************)
(* Nine services for TLC that share no state: the caches of the router,    *)
(* the snapshot caches, the background tasks, the endpoints of a site, the *)
(* managed tokens, a Codex session, the models with their routes, the      *)
(* recovery probes and the OAuth logins. A behaviour moves one of them,    *)
(* chosen at the start; the others rest in one initial state.              *)
(***************************************************************************)
EXTENDS RouteCache, SnapshotCache, BackgroundTasks, SiteEndpoints, ManagedTokens,
        CodexSession, ModelRoutes, RecoveryProbe, OAuthLogin, TLC

VARIABLE moved

servicesVars ==
    <<cacheVars, snapVars, taskVars, endpointVars, tokenVars, codexVars, modelRouteVars,
      probeVars, loginVars, moved>>

Services == {"routes", "snapshots", "tasks", "endpoints", "tokens", "codex", "models",
             "probes", "logins"}

\* Every channel belongs to the one pattern route.
MCRouteOf == [c \in Channels |-> CHOOSE r \in Patterns : TRUE]

\* Two channels send with one token.
MCCredentialOf == [c \in ProbeChannels |-> IF c = 2 THEN 1 ELSE c]

\* The services that have several initial states take one of them at rest.
MCInit ==
    /\ moved \in Services
    /\ CacheInit /\ SnapInit /\ TasksInit /\ EndpointInit /\ TokensInit /\ CodexInit
    /\ ModelRoutesInit /\ ProbeInit /\ LoginInit
    /\ moved = "endpoints" \/ \A e \in Initially : endpoint[e] = Row(0)
    /\ moved = "tokens" \/ kind = "oauth"
    /\ moved = "models" \/ tokenRoutes = {}
    /\ moved = "probes" \/ \A c \in ProbeChannels : chan[c] = Well
    /\ moved = "logins" \/ \A a \in OauthAccounts : account[a] = NoAccount

MCNext ==
    /\ UNCHANGED moved
    /\ \/ /\ moved = "routes" /\ CacheNext
          /\ UNCHANGED <<snapVars, taskVars, endpointVars, tokenVars, codexVars,
                         modelRouteVars, probeVars, loginVars>>
       \/ /\ moved = "snapshots" /\ SnapNext
          /\ UNCHANGED <<cacheVars, taskVars, endpointVars, tokenVars, codexVars,
                         modelRouteVars, probeVars, loginVars>>
       \/ /\ moved = "tasks" /\ TasksNext
          /\ UNCHANGED <<cacheVars, snapVars, endpointVars, tokenVars, codexVars,
                         modelRouteVars, probeVars, loginVars>>
       \/ /\ moved = "endpoints" /\ EndpointNext
          /\ UNCHANGED <<cacheVars, snapVars, taskVars, tokenVars, codexVars, modelRouteVars,
                         probeVars, loginVars>>
       \/ /\ moved = "tokens" /\ TokensNext
          /\ UNCHANGED <<cacheVars, snapVars, taskVars, endpointVars, codexVars,
                         modelRouteVars, probeVars, loginVars>>
       \/ /\ moved = "codex" /\ CodexNext
          /\ UNCHANGED <<cacheVars, snapVars, taskVars, endpointVars, tokenVars,
                         modelRouteVars, probeVars, loginVars>>
       \/ /\ moved = "models" /\ ModelRoutesNext
          /\ UNCHANGED <<cacheVars, snapVars, taskVars, endpointVars, tokenVars, codexVars,
                         probeVars, loginVars>>
       \/ /\ moved = "probes" /\ RecoveryNext
          /\ UNCHANGED <<cacheVars, snapVars, taskVars, endpointVars, tokenVars, codexVars,
                         modelRouteVars, loginVars>>
       \/ /\ moved = "logins" /\ LoginNext
          /\ UNCHANGED <<cacheVars, snapVars, taskVars, endpointVars, tokenVars, codexVars,
                         modelRouteVars, probeVars>>

MCSpec == MCInit /\ [][MCNext]_servicesVars

\* Type correctness of the service that moves: every variable stays in the range
\* its module gives it, among them the bounds of the snapshot cache and the logs.
ServicesTypeOK ==
    CASE moved = "routes"    -> CacheTypeOK
      [] moved = "snapshots" -> SnapTypeOK
      [] moved = "tasks"     -> TasksTypeOK
      [] moved = "endpoints" -> EndpointTypeOK
      [] moved = "tokens"    -> TokensTypeOK
      [] moved = "codex"     -> CodexTypeOK
      [] moved = "models"    -> ModelRoutesTypeOK
      [] moved = "probes"    -> ProbeTypeOK
      [] moved = "logins"    -> LoginTypeOK

\* Readers, callers, workers, connections, passes and logins are each alike. One service
\* moves at a time, so the configuration gives them the same names.
ServicesSymmetry == Permutations(Readers)

\* What tells states apart: the others rest in one state.
ServicesView ==
    <<moved,
      CASE moved = "routes"    -> cacheVars
        [] moved = "snapshots" -> snapVars
        [] moved = "tasks"     -> taskVars
        [] moved = "endpoints" -> endpointVars
        [] moved = "tokens"    -> tokenVars
        [] moved = "codex"     -> codexVars
        [] moved = "models"    -> modelRouteVars
        [] moved = "probes"    -> probeVars
        [] moved = "logins"    -> loginVars>>
=============================================================================
