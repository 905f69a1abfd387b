----------------------------- MODULE WebSession -----------------------------
(***************************************************************************)
(* The signed-in session of one browser tab: web/src/auth/AuthProvider.tsx *)
(* (rehydration, refresh, logout), auth/session.ts (the keys in            *)
(* localStorage), auth/oauth.ts and pages/auth/AuthCallbackPage.tsx (the   *)
(* return from Discord), guild/GuildProvider.tsx (the guild list) and what *)
(* auth/ProtectedRoute.tsx lets through.                                   *)
(*                                                                         *)
(* A login is a grant.  A token is a pair <<grant, number of refreshes>>;  *)
(* a refresh token is spent by its first use.  The part of api/client.ts   *)
(* seen here is its single refresh and its merging of equal GETs; module   *)
(* ApiClient has the rest.  Mock mode is off.                              *)
(***************************************************************************)
EXTENDS Naturals, FiniteSets

CONSTANTS
  Users, Grants, OwnerOf,  \* [Grants -> Users], whose login a grant is
  OldGrant, NewGrant,      \* the stored login, and the one being made
  Visits,                  \* the times the callback page's effect runs
  MaxRefreshes,            \* bound: refreshes of one grant
  MaxTokenExpiries              \* bound: access tokens that expire meanwhile

None == "none"
Absent == <<>>

ASSUME SessionAssumption ==
  /\ OwnerOf \in [Grants -> Users] /\ {OldGrant, NewGrant} \subseteq Grants
  /\ OldGrant # NewGrant
  /\ None \notin Users /\ "mount" \notin Visits
  /\ {MaxRefreshes, MaxTokenExpiries} \subseteq Nat

NoSession == [token |-> Absent, refresh |-> Absent, user |-> None, expired |-> FALSE]
GrantTokens == Grants \X (0 .. MaxRefreshes)
Endpoints == {"me", "guilds"}
Hydrations == {"mount"} \cup Visits
Idle == [pc |-> "idle", session |-> NoSession]

VARIABLES
  build,          \* "production" or "development"
  avatarless,     \* users whose profile has no avatar, which isDiscordUser rejects
  storage,        \* the nova_ keys of localStorage
  memoryToken,      \* the token in the client's memory
  user, isLoading,     \* React state of AuthProvider
  hydration,      \* [Hydrations -> [pc, session]], the calls of rehydrateSession
  refresher,      \* [pc, session], the client's call of refreshAuthToken
  get,            \* [Endpoints -> [pc, token, tried]], the merged GET of each
  guilds, isLoadingGuilds,     \* whose list GuildProvider holds
  oauthState,     \* whether sessionStorage holds the state that comes back
  visit,          \* [Visits -> {"idle", "awaiting", "failed", "done"}]
  exchange,       \* "none", "posted", "failed", "completed"
  posts, failures, expiries,  \* history: exchanges asked for, failed; expired tokens
  crossed,        \* history: an answer asked for under one login ended in another
  trouble,        \* history: something failed, expired, or was not a plain reload
  alive, refreshes     \* server: good access tokens; refreshes per grant

givenVars == <<build, avatarless>>
authVars == <<storage, memoryToken, user>>
guildVars == <<guilds, isLoadingGuilds>>
callbackVars == <<oauthState, visit, exchange, posts, failures>>
serverVars == <<expiries, alive, refreshes>>
sessionVars == <<givenVars, authVars, isLoading, hydration, refresher, get,
                 guildVars, callbackVars, serverVars, crossed, trouble>>

SessionTypeOK ==
  /\ build \in {"production", "development"} /\ avatarless \subseteq Users
  /\ {storage.token, storage.refresh} \subseteq GrantTokens \cup {Absent}
  /\ storage.user \in Users \cup {None} /\ storage.expired \in BOOLEAN
  /\ memoryToken \in GrantTokens \cup {Absent}
  /\ user \in Users \cup {None} /\ isLoading \in BOOLEAN
  /\ \A h \in Hydrations : hydration[h].pc \in {"idle", "refreshing", "getting", "done"}
  /\ refresher.pc \in {"idle", "refreshing"}
  /\ \A e \in Endpoints : get[e].pc \in {"idle", "sent", "refreshing"}
  /\ guilds \in Users \cup {None} /\ isLoadingGuilds \in BOOLEAN
  /\ oauthState \in BOOLEAN /\ exchange \in {"none", "posted", "failed", "completed"}
  /\ visit \in [Visits -> {"idle", "awaiting", "failed", "done"}]
  /\ posts \in Nat /\ failures \in Nat /\ expiries \in Nat
  /\ trouble \in BOOLEAN /\ crossed \in BOOLEAN
  /\ alive \subseteq GrantTokens /\ refreshes \in [Grants -> 0 .. MaxRefreshes]

\* A profile as getStoredUser reads it: one that isDiscordUser rejects is dropped.
AsStored(who) == IF who \in avatarless THEN None ELSE who

\* What an earlier page load left: nothing, or a login that may have expired,
\* with the profile of its user unless that was unreadable.
StoredBefore ==
  {NoSession} \cup
  {[token |-> <<OldGrant, 0>>, refresh |-> r, user |-> u, expired |-> x] :
     r \in {Absent, <<OldGrant, 0>>}, u \in {None, AsStored(OwnerOf[OldGrant])}, x \in BOOLEAN}

\* The page loads: first renders, before any effect has run.
SessionInit ==
  /\ build \in {"production", "development"} /\ avatarless \in SUBSET Users
  /\ storage \in StoredBefore
  /\ memoryToken = Absent /\ user = storage.user /\ isLoading = TRUE
  /\ hydration = [h \in Hydrations |-> Idle] /\ refresher = Idle
  /\ get = [e \in Endpoints |-> [pc |-> "idle", token |-> Absent, tried |-> FALSE]]
  /\ guilds = None /\ isLoadingGuilds = FALSE
  /\ oauthState \in BOOLEAN
  /\ visit = [v \in Visits |-> "idle"] /\ exchange = "none" /\ posts = 0 /\ failures = 0
  /\ expiries = 0 /\ refreshes = [g \in Grants |-> 0]
  /\ crossed = FALSE /\ trouble = (storage.expired \/ storage.user = None)
  /\ alive = IF storage.expired THEN {} ELSE {<<OldGrant, 0>>}

-----------------------------------------------------------------------------
(* session.ts and the client's memory.                                      *)

\* saveAuthSession keeps the keys it is given nothing for.
saveAuthSession(token, refresh, who) ==
  storage' = [token |-> token, expired |-> FALSE,
              refresh |-> IF refresh = Absent THEN storage.refresh ELSE refresh,
              user |-> IF who = None THEN storage.user ELSE AsStored(who)]

\* Mutant: the client keeps its token.
clearStorageOnly == storage' = NoSession /\ user' = None /\ UNCHANGED memoryToken

\* Mutant: the refresh token stays in localStorage.
clearSessionPartly ==
  /\ storage' = [NoSession EXCEPT !.refresh = storage.refresh]
  /\ memoryToken' = Absent /\ user' = None

\* clearStoredSession, apiClient.clearSession and setUser(null), as one.
clearSession == storage' = NoSession /\ memoryToken' = Absent /\ user' = None

\* The header falls back to localStorage when memory holds no token.
effectiveToken == IF memoryToken # Absent THEN memoryToken ELSE storage.token

\* The server's answer to a refresh token: a new pair while it is the current one.
Renewable(session) ==
  /\ session.refresh # Absent
  /\ session.refresh[2] = refreshes[session.refresh[1]]
  /\ refreshes[session.refresh[1]] < MaxRefreshes

-----------------------------------------------------------------------------
(* refreshAuthToken after its fetch; session is what it read before.        *)

RefreshGranted(session, joined) ==
  LET g == session.refresh[1]
      token == <<g, refreshes[g] + 1>>
  IN /\ Renewable(session)
     /\ refreshes' = [refreshes EXCEPT ![g] = @ + 1]
     /\ alive' = alive \cup {token}
     /\ saveAuthSession(token, token, session.user)
     /\ memoryToken' = token
     /\ crossed' = (crossed \/ joined \/ session.token # storage.token)
     /\ UNCHANGED expiries

\* !response.ok: everything is forgotten.
RefreshRefused(session) ==
  ~Renewable(session) /\ clearSession /\ UNCHANGED <<serverVars, crossed>>

-----------------------------------------------------------------------------
(* rehydrateSession, by AuthProvider's mount effect or the callback page.   *)

ToGet(h) == hydration' = [hydration EXCEPT ![h] = [Idle EXCEPT !.pc = "getting"]]
\* Mutant: an early return skips the finally clause.
ReturnFromHydration(h) ==
  /\ hydration' = [hydration EXCEPT ![h] = [Idle EXCEPT !.pc = "done"]]
  /\ UNCHANGED isLoading

EndHydration(h) ==
  /\ hydration' = [hydration EXCEPT ![h] = [Idle EXCEPT !.pc = "done"]]
  /\ isLoading' = FALSE

\* GET /users/@me with the token given, or the one already under way.
JoinOrSend(gets, e, token) ==
  IF gets[e].pc = "idle"
  THEN [gets EXCEPT ![e] = [pc |-> "sent", token |-> token, tried |-> FALSE]]
  ELSE gets

\* Mutant: the profile is shown only when the server has confirmed it.
ProfileConfirmed(s) == user

\* The stored profile is shown at once, where there is one.
ProfileShown(s) == IF s.user # None THEN s.user ELSE user

\* A hydration of session s joins a GET of another login.
JoinsOther(gets, s) == gets["me"].pc # "idle" /\ gets["me"].token[1] # s.token[1]

\* The code before the first await, with the session s just written or found;
\* gets are the GETs under way.
Rehydrate(h, s, gets) ==
  \/ /\ s.token = Absent
     /\ EndHydration(h) /\ memoryToken' = Absent /\ user' = None /\ storage' = s
     /\ get' = gets /\ UNCHANGED crossed
  \/ /\ s.token # Absent /\ s.expired /\ s.refresh = Absent
     /\ clearSession /\ EndHydration(h) /\ get' = gets /\ UNCHANGED crossed
  \/ /\ s.token # Absent /\ s.expired /\ s.refresh # Absent
     /\ hydration' = [hydration EXCEPT ![h] = [pc |-> "refreshing", session |-> s]]
     /\ isLoading' = TRUE
     /\ storage' = s /\ get' = gets /\ UNCHANGED <<memoryToken, user, crossed>>
  \/ /\ s.token # Absent /\ ~s.expired
     /\ memoryToken' = s.token /\ storage' = s
     /\ user' = ProfileShown(s)
     /\ ToGet(h) /\ get' = JoinOrSend(gets, "me", s.token) /\ isLoading' = TRUE
     /\ crossed' = (crossed \/ JoinsOther(gets, s))

\* Mutant: GuildProvider waits for a profile that was revalidated.
MountWithoutGuilds ==
  /\ hydration["mount"].pc = "idle"
  /\ Rehydrate("mount", storage, get)
  /\ UNCHANGED <<givenVars, refresher, guildVars, callbackVars, serverVars, trouble>>

\* The effects of the first render, children first: GuildProvider asks for the
\* guilds of a stored user, then AuthProvider rehydrates.
MountEffects ==
  /\ hydration["mount"].pc = "idle"
  /\ isLoadingGuilds' = (user # None)
  /\ Rehydrate("mount", storage,
       IF user # None THEN JoinOrSend(get, "guilds", effectiveToken) ELSE get)
  /\ UNCHANGED <<givenVars, refresher, guilds, callbackVars, serverVars, trouble>>

\* The refresh the rehydration waited for; a failure of any kind clears all.
HydrationRefreshed(h) ==
  /\ hydration[h].pc = "refreshing"
  /\ \/ /\ RefreshGranted(hydration[h].session, JoinsOther(get, hydration[h].session))
        /\ user' = ProfileShown(storage')
        /\ ToGet(h) /\ get' = JoinOrSend(get, "me", memoryToken') /\ UNCHANGED isLoading
     \/ /\ RefreshRefused(hydration[h].session) /\ EndHydration(h) /\ UNCHANGED get
     \/ /\ clearSession /\ EndHydration(h) /\ UNCHANGED <<get, serverVars, crossed>>
  /\ UNCHANGED <<givenVars, refresher, guildVars, callbackVars, trouble>>

-----------------------------------------------------------------------------
(* The two GETs, and the refresh the client makes for them.                 *)

\* A first 401: wait for the refresh under way, or start one.  Without a
\* refresh token the handler returns null at once, and so does memory.
Unauthorized(e) ==
  /\ get[e].pc = "sent" /\ get[e].token \notin alive /\ ~get[e].tried
  /\ IF refresher.pc = "idle" /\ storage.refresh = Absent
     THEN /\ memoryToken' = Absent
          /\ get' = [get EXCEPT ![e].tried = TRUE]
          /\ UNCHANGED refresher
     ELSE /\ get' = [get EXCEPT ![e].pc = "refreshing", ![e].tried = TRUE]
          /\ refresher' = IF refresher.pc = "idle"
                          THEN [pc |-> "refreshing", session |-> storage]
                          ELSE refresher
          /\ UNCHANGED memoryToken
  /\ UNCHANGED <<givenVars, crossed, storage, user, isLoading, hydration, guildVars,
                 callbackVars, serverVars, trouble>>

\* handleTokenRefresh resumes: with a token everyone waiting sends again, with
\* null (refused, or no answer) they go on with their 401.
ClientRefreshed ==
  /\ refresher.pc = "refreshing" /\ refresher' = Idle
  /\ \/ /\ RefreshGranted(refresher.session, FALSE) /\ UNCHANGED user
        /\ get' = [e \in Endpoints |-> IF get[e].pc = "refreshing"
                     THEN [get[e] EXCEPT !.pc = "sent", !.token = memoryToken'] ELSE get[e]]
     \/ /\ \/ RefreshRefused(refresher.session)
           \/ memoryToken' = Absent /\ UNCHANGED <<storage, user, serverVars, crossed>>
        /\ get' = [e \in Endpoints |-> IF get[e].pc = "refreshing"
                     THEN [get[e] EXCEPT !.pc = "sent"] ELSE get[e]]
  /\ UNCHANGED <<givenVars, isLoading, hydration, guildVars, callbackVars, trouble>>

Ended(e) == get' = [get EXCEPT ![e] = [pc |-> "idle", token |-> Absent, tried |-> FALSE]]
Awaiting == {h \in Hydrations : hydration[h].pc = "getting"}
HydrationsEnd ==
  /\ hydration' = [h \in Hydrations |->
       IF h \in Awaiting THEN [Idle EXCEPT !.pc = "done"] ELSE hydration[h]]
  /\ isLoading' = IF Awaiting = {} THEN isLoading ELSE FALSE

\* The profile of the user whose token was sent becomes the user of this tab.
MeAnswered ==
  /\ get["me"].pc = "sent" /\ get["me"].token \in alive
  /\ OwnerOf[get["me"].token[1]] \notin avatarless
  /\ user' = OwnerOf[get["me"].token[1]]
  /\ storage' = [storage EXCEPT !.user = OwnerOf[get["me"].token[1]]]
  /\ Ended("me") /\ HydrationsEnd
  /\ UNCHANGED <<givenVars, crossed, memoryToken, refresher, guildVars, callbackVars,
                 serverVars, trouble>>

\* A profile that is rejected is a failure with status 200: nothing is signed out.
MeRejected ==
  /\ get["me"].pc = "sent" /\ get["me"].token \in alive
  /\ OwnerOf[get["me"].token[1]] \in avatarless
  /\ Ended("me") /\ HydrationsEnd
  /\ UNCHANGED <<givenVars, crossed, authVars, refresher, guildVars, callbackVars,
                 serverVars, trouble>>

\* A 401 that no refresh cured signs out; other failures leave the session.
MeFailed ==
  /\ get["me"].pc = "sent"
  /\ \/ get["me"].token \notin alive /\ get["me"].tried /\ clearSession
     \/ UNCHANGED authVars
  /\ Ended("me") /\ HydrationsEnd /\ trouble' = TRUE
  /\ UNCHANGED <<givenVars, crossed, refresher, guildVars, callbackVars, serverVars>>

-----------------------------------------------------------------------------
(* GuildProvider.                                                           *)

\* fetchGuilds, run when isAuthenticated has changed, or by refetchGuilds.
FetchGuilds ==
  /\ \/ user = None /\ guilds # None /\ guilds' = None
        /\ UNCHANGED <<isLoadingGuilds, get>>
     \/ user # None /\ ~isLoadingGuilds /\ isLoadingGuilds' = TRUE
        /\ get' = JoinOrSend(get, "guilds", effectiveToken) /\ UNCHANGED guilds
  /\ UNCHANGED <<givenVars, crossed, authVars, isLoading, hydration, refresher,
                 callbackVars, serverVars, trouble>>

\* Its answer, or its failure, which keeps the list there was.
GuildsAnswered ==
  /\ get["guilds"].pc = "sent"
  /\ \/ /\ get["guilds"].token \in alive
        /\ guilds' = OwnerOf[get["guilds"].token[1]] /\ UNCHANGED trouble
     \/ UNCHANGED guilds /\ trouble' = TRUE
  /\ isLoadingGuilds' = FALSE /\ Ended("guilds")
  /\ UNCHANGED <<givenVars, crossed, authVars, isLoading, hydration, refresher,
                 callbackVars, serverVars>>

\* What ProtectedRoute renders for a page of a guild of account who.
Gate(who) ==
  IF isLoading THEN "loading"
  ELSE IF user = None THEN "sign in"
  ELSE IF isLoadingGuilds THEN "loading"
  ELSE IF guilds = who THEN "page" ELSE "servers"

-----------------------------------------------------------------------------
(* The callback page, and the buttons.                                      *)

\* Mutant: the stored state is not consumed.
ProcessCallbackAgain(v) ==
  /\ visit[v] = "idle" /\ exchange # "completed"
  /\ IF build = "production" /\ ~oauthState
     THEN visit' = [visit EXCEPT ![v] = "failed"] /\ UNCHANGED <<exchange, posts>>
     ELSE /\ visit' = [visit EXCEPT ![v] = "awaiting"]
          /\ exchange' = "posted"
          /\ posts' = IF exchange = "posted" THEN posts ELSE posts + 1
  /\ UNCHANGED <<givenVars, crossed, authVars, isLoading, hydration, refresher, get,
                 guildVars, oauthState, failures, serverVars, trouble>>

\* One run of the page's effect.  It consumes the stored state, and in
\* production goes no further without it; equal codes share one exchange.
ProcessCallback(v) ==
  /\ visit[v] = "idle"
  /\ \/ exchange = "completed" /\ visit' = [visit EXCEPT ![v] = "done"]
        /\ UNCHANGED <<oauthState, exchange, posts, failures>>
     \/ /\ exchange # "completed" /\ oauthState' = FALSE /\ UNCHANGED failures
        /\ IF build = "production" /\ ~oauthState
           THEN visit' = [visit EXCEPT ![v] = "failed"] /\ UNCHANGED <<exchange, posts>>
           ELSE /\ visit' = [visit EXCEPT ![v] = "awaiting"]
                /\ exchange' = "posted"
                /\ posts' = IF exchange = "posted" THEN posts ELSE posts + 1
  /\ UNCHANGED <<givenVars, crossed, authVars, isLoading, hydration, refresher, get,
                 guildVars, serverVars, trouble>>

\* The exchange is answered: who waits for it saves the session and rehydrates.
\* The answers of two waiting runs are handled one after the other.
Exchanged(v) ==
  /\ visit[v] = "awaiting" /\ exchange \in {"posted", "completed"}
  /\ exchange' = "completed" /\ visit' = [visit EXCEPT ![v] = "done"]
  /\ alive' = alive \cup (IF exchange = "posted" THEN {<<NewGrant, 0>>} ELSE {})
  /\ Rehydrate(v, [token |-> <<NewGrant, 0>>, refresh |-> <<NewGrant, 0>>,
                   user |-> AsStored(OwnerOf[NewGrant]), expired |-> FALSE], get)
  /\ trouble' = TRUE
  /\ UNCHANGED <<givenVars, refresher, guildVars, oauthState, posts, failures, expiries,
                 refreshes>>

\* The exchange fails: every waiting run shows the error, the code may be posted
\* again.
ExchangeFailed ==
  /\ exchange = "posted" /\ exchange' = "failed" /\ failures' = failures + 1
  /\ visit' = [v \in Visits |-> IF visit[v] = "awaiting" THEN "failed" ELSE visit[v]]
  /\ UNCHANGED <<givenVars, crossed, authVars, isLoading, hydration, refresher, get,
                 guildVars, oauthState, posts, serverVars, trouble>>

Logout ==
  /\ storage.token # Absent \/ user # None
  /\ clearSession /\ trouble' = TRUE
  /\ UNCHANGED <<givenVars, crossed, isLoading, hydration, refresher, get, guildVars,
                 callbackVars, serverVars>>

\* An access token runs out, at the server and by the stored time.
Expire ==
  /\ expiries < MaxTokenExpiries /\ expiries' = expiries + 1 /\ trouble' = TRUE
  /\ \E t \in alive :
       /\ alive' = alive \ {t}
       /\ storage' = [storage EXCEPT !.expired = @ \/ storage.token = t]
  /\ UNCHANGED <<givenVars, crossed, memoryToken, user, isLoading, hydration, refresher,
                 get, guildVars, callbackVars, refreshes>>

SessionProgress ==
  \/ MountEffects \/ \E h \in Hydrations : HydrationRefreshed(h)
  \/ \E e \in Endpoints : Unauthorized(e)
  \/ ClientRefreshed \/ MeAnswered \/ MeRejected \/ MeFailed \/ GuildsAnswered

SessionNext ==
  \/ SessionProgress \/ FetchGuilds \/ Logout \/ Expire \/ ExchangeFailed
  \/ \E v \in Visits : ProcessCallback(v) \/ Exchanged(v)

\* Fairness: effects run, and every fetch is answered or times out.
SessionFairness ==
  /\ WF_sessionVars(MountEffects) /\ WF_sessionVars(ClientRefreshed)
  /\ \A h \in Hydrations : WF_sessionVars(HydrationRefreshed(h))
  /\ \A e \in Endpoints : WF_sessionVars(Unauthorized(e))
  /\ WF_sessionVars(MeAnswered \/ MeRejected \/ MeFailed)
  /\ WF_sessionVars(GuildsAnswered)

SessionSpec == SessionInit /\ [][SessionNext]_sessionVars /\ SessionFairness

-----------------------------------------------------------------------------
(* Properties.                                                              *)

\* However rehydrations, refreshes, logins and logouts of this tab interleave,
\* requests carry the token that is stored: memory holds it or holds none.
MemoryMatchesStorage ==
  hydration["mount"].pc # "idle" => memoryToken \in {Absent, storage.token}

\* The stored access and refresh token come from one login and one answer of the
\* server: no interleaving mixes the keys of two sessions.
TokensOfOneLogin ==
  storage.refresh # Absent =>
    storage.token # Absent /\ storage.refresh = storage.token

\* A code is exchanged once in production, however often the page runs its
\* effect; in development it is posted again only after it failed.
ExchangedOnce ==
  posts <= (IF build = "production" THEN 1 ELSE failures + 1)

\* A reload of a guild page in which nothing fails never sends its user to the
\* server list: the spinner stays until both loads have ended.
DeepLinkKept ==
  ~trouble /\ storage.user # None => Gate(storage.user) \in {"loading", "page"}

\* Once nothing is under way, the account shown is the one whose token requests carry,
\* unless its profile is rejected for want of an avatar, or what was asked for under
\* one login ended in another: a GET of the profile joined by the next login, whose
\* key has no token in it (client.ts:228-232), or a refresh that outlived its login.
AccountShown ==
  user # None /\ storage.token # Absent /\ refresher.pc = "idle"
    /\ (\A h \in Hydrations : hydration[h].pc \in {"idle", "done"})
      => \/ user = OwnerOf[storage.token[1]]
         \/ OwnerOf[storage.token[1]] \in avatarless \/ crossed

\* A session stays whole: memory and storage agree, its tokens are of one login and of
\* the account shown, its code is exchanged once, and a reload finds the page it left.
SessionWhole ==
  MemoryMatchesStorage /\ TokensOfOneLogin /\ ExchangedOnce /\ DeepLinkKept /\ AccountShown

\* The verification screen goes away again.
LoadingEnds == []<>~isLoading
=============================================================================
