---------------------------- MODULE Entitlements ----------------------------
(***************************************************************************)
(* What a guild has paid for: Stripe's webhook, the guild's row of table   *)
(* guild_settings, its entry in the in-process settings cache that all     *)
(* entitlement checks read, and everything else that writes either: the    *)
(* settings PATCH and the cache reload, the guild's leaving and joining,   *)
(* LRU eviction and restarts.                                              *)
(*                                                                         *)
(* One guild: requests for different guilds meet only in the connection    *)
(* pool and in the cache's capacity, both of which are here.  The date     *)
(* premium_until and the subscription id are always set together, by the   *)
(* checkout they stem from, and stand for it in field grant.               *)
(***************************************************************************)
EXTENDS Integers, FiniteSets

CONSTANTS
  Sessions,       \* Stripe checkout sessions
  Tier,           \* the tier each session buys
  Changes,        \* the tiers subscription updates can bring
  Languages,      \* the values of the column language
  DefaultLanguage,
  None,           \* no session, or no entry in the cache
  Handlers,       \* webhook requests served at a time
  Reloaders,      \* requests that end in reload_guild_settings_cache
  Boot,           \* BotContainer.initialize, which reloads the cache too
  PoolSize,       \* connections of the asyncpg pool
  Troubles,       \* what may get in Stripe's way in this instance
  MaxTroubles     \* bound: how often in one behaviour

TroubleKinds == {"error", "crash", "evict", "leave", "duplicate", "settings", "sync"}

Tiers == 0..3

Events == [kind : {"checkout"}, session : Sessions]
            \cup [kind : {"updated"}, tier : Changes]
            \cup [kind : {"deleted"}]

ASSUME EntitlementAssumption ==
  /\ Tier \in [Sessions -> Tiers \ {0}] /\ Changes \subseteq Tiers
  /\ DefaultLanguage \in Languages
  /\ None \notin Sessions
  /\ Boot \notin Reloaders /\ Handlers \cap (Reloaders \cup {Boot}) = {}
  /\ Troubles \subseteq TroubleKinds
  /\ PoolSize \in Nat /\ MaxTroubles \in Nat

VARIABLES
  row,      \* the guild's row: [tier, grant, language]
  cache,    \* its entry in guild_settings_cache, or None
  present,  \* the bot is a member of the guild
  logged,   \* sessions with a row in payment_history
  sent,     \* events Stripe has created
  pending,  \* those it has not seen answered with 200 yet
  pc,       \* where each webhook request stands
  event,    \* the event it handles
  cold,     \* it found no entry in the cache
  new,      \* the settings it is about to write
  reload,   \* where each cache reload stands
  seen,     \* the row it has read
  spent,    \* troubles so far
  (* history variables *)
  granted,  \* sessions whose purchase was written to the row
  twice,    \* those for which that happened more than once
  excused,  \* sessions that failed after their payment was logged
  raced,    \* sessions looked up while another request was about to log them
  stale,    \* requests and reloads that hold settings the row has moved on from
  clean     \* no stale settings were stored since the cache last matched the row

billing  == <<logged, sent, pending>>
requests == <<pc, event, cold, new>>
reloads  == <<reload, seen>>
ghosts   == <<granted, twice, excused, raced>>
vars     == <<row, cache, present, billing, requests, reloads, spent, ghosts, stale, clean>>

Default  == [tier |-> 0, grant |-> None, language |-> DefaultLanguage]
AllLoads == Reloaders \cup {Boot}

Trouble(kind) ==
  /\ kind \in Troubles
  /\ spent < MaxTroubles
  /\ spent' = spent + 1

\* async with transaction() keeps a connection that its own queries do not use.
InTransaction(h) == pc[h] \in {"log", "write", "store"} /\ event[h].kind = "checkout"

\* A query finds a free connection in the pool.
Connection == Cardinality({h \in Handlers : InTransaction(h)}) < PoolSize

\* Settings in the hands of others become stale when p writes the row.
Outdates(p) ==
  stale' = (stale \cup {h \in Handlers : pc[h] = "store"}
                  \cup {r \in AllLoads : reload[r] = "swap"}) \ {p}

-----------------------------------------------------------------------------
(* Stripe.                                                                 *)

\* A customer pays, changes the plan or cancels.
Emit(e) ==
  /\ e \notin sent
  /\ e.kind # "checkout" => \E s \in Sessions : [kind |-> "checkout", session |-> s] \in sent
  /\ sent' = sent \cup {e} /\ pending' = pending \cup {e}
  /\ UNCHANGED <<row, cache, present, logged, requests, reloads, spent, ghosts, stale, clean>>

\* Stripe delivers an answered event once more.
Redeliver(e) ==
  /\ e \in sent \ pending
  /\ Trouble("duplicate")
  /\ pending' = pending \cup {e}
  /\ UNCHANGED <<row, cache, present, logged, sent, requests, reloads, ghosts, stale, clean>>

-----------------------------------------------------------------------------
(* stripe_webhook.                                                         *)

EndRequest(h) ==
  /\ pc' = [pc EXCEPT ![h] = "idle"]
  /\ event' = [event EXCEPT ![h] = None]
  /\ cold' = [cold EXCEPT ![h] = FALSE]
  /\ new' = [new EXCEPT ![h] = Default]

\* The settings event e makes of the cached ones.  An argument that is None
\* means "keep": the cancellation keeps premium_until and the subscription.
Updated(e, curr) ==
  CASE e.kind = "checkout" -> [curr EXCEPT !.tier = Tier[e.session], !.grant = e.session]
    [] e.kind = "updated"  -> [curr EXCEPT !.tier = e.tier]
    [] e.kind = "deleted"  -> [curr EXCEPT !.tier = 0]

\* update_guild_settings up to its query: what is not in the cache counts as
\* default, whatever the row holds.
CallUpdate(h, e) ==
  /\ pc' = [pc EXCEPT ![h] = "write"]
  /\ cold' = [cold EXCEPT ![h] = cache = None]
  /\ new' = [new EXCEPT ![h] = Updated(e, IF cache = None THEN Default ELSE cache)]

\* A delivery arrives.  A checkout is looked up first, the rest is applied.
Receive(h, e) ==
  /\ pc[h] = "idle" /\ e \in pending
  /\ event' = [event EXCEPT ![h] = e]
  /\ IF e.kind = "checkout"
     THEN pc' = [pc EXCEPT ![h] = "ask"] /\ UNCHANGED <<cold, new>>
     ELSE CallUpdate(h, e)
  /\ UNCHANGED <<row, cache, present, billing, reloads, spent, ghosts, stale, clean>>

\* Mutant: the session is not looked up.
AskNothing(h) ==
  /\ pc[h] = "ask" /\ Connection
  /\ pc' = [pc EXCEPT ![h] = "begin"]
  /\ UNCHANGED <<event, cold, new, row, cache, present, billing, reloads, spent,
                 ghosts, stale, clean>>

\* Mutant: a session that was processed before is refused.
AskAndRefuse(h) ==
  LET s == event[h].session IN
  /\ pc[h] = "ask" /\ Connection
  /\ IF s \in logged
     THEN EndRequest(h) /\ UNCHANGED raced
     ELSE /\ pc' = [pc EXCEPT ![h] = "begin"]
          /\ raced' = IF \E g \in Handlers \ {h} : pc[g] \in {"begin", "log"} /\ event[g] = event[h]
                      THEN raced \cup {s} ELSE raced
          /\ UNCHANGED <<event, cold, new>>
  /\ UNCHANGED <<row, cache, present, logged, sent, pending, reloads, spent, granted,
                 twice, excused, stale, clean>>

\* is_session_processed answers; then Session.retrieve, without an await.
Ask(h) ==
  LET s == event[h].session IN
  /\ pc[h] = "ask" /\ Connection
  /\ IF s \in logged
     THEN EndRequest(h) /\ pending' = pending \ {event[h]} /\ UNCHANGED raced
     ELSE /\ pc' = [pc EXCEPT ![h] = "begin"]
          /\ raced' = IF \E g \in Handlers \ {h} : pc[g] \in {"begin", "log"} /\ event[g] = event[h]
                      THEN raced \cup {s} ELSE raced
          /\ UNCHANGED <<event, cold, new, pending>>
  /\ UNCHANGED <<row, cache, present, logged, sent, reloads, spent, granted, twice,
                 excused, stale, clean>>

\* The transaction takes its connection and begins.
Begin(h) ==
  /\ pc[h] = "begin" /\ Connection
  /\ pc' = [pc EXCEPT ![h] = "log"]
  /\ UNCHANGED <<event, cold, new, row, cache, present, billing, reloads, spent,
                 ghosts, stale, clean>>

\* Mutant: a guild that shows as high a tier already needs no update.
LogAndSkip(h) ==
  LET s == event[h].session IN
  /\ pc[h] = "log" /\ Connection
  /\ logged' = logged \cup {s}
  /\ IF cache # None /\ cache.tier >= Tier[s] THEN EndRequest(h)
     ELSE CallUpdate(h, event[h]) /\ UNCHANGED event
  /\ UNCHANGED <<row, cache, present, sent, pending, reloads, spent, ghosts, stale, clean>>

\* log_payment commits, on a connection of its own.
Log(h) ==
  /\ pc[h] = "log" /\ Connection
  /\ logged' = logged \cup {event[h].session}
  /\ CallUpdate(h, event[h])
  /\ UNCHANGED <<event, row, cache, present, sent, pending, reloads, spent, ghosts,
                 stale, clean>>

\* The upsert of update_guild_settings commits: all columns of the row.
Write(h) ==
  /\ pc[h] = "write" /\ Connection
  /\ row' = new[h]
  /\ pc' = [pc EXCEPT ![h] = "store"]
  /\ IF event[h].kind = "checkout"
     THEN LET s == event[h].session IN
          granted' = granted \cup {s} /\ twice' = twice \cup ({s} \cap granted)
     ELSE UNCHANGED <<granted, twice>>
  /\ Outdates(h)
  /\ UNCHANGED <<event, cold, new, cache, present, billing, reloads, spent, excused,
                 raced, clean>>

\* The coroutine resumes, stores its settings in the cache and answers 200.
Store(h) ==
  /\ pc[h] = "store" /\ ~cold[h]
  /\ cache' = new[h]
  /\ pending' = pending \ {event[h]}
  /\ EndRequest(h)
  /\ clean' = (clean /\ h \notin stale) /\ stale' = stale \ {h}
  /\ UNCHANGED <<row, present, logged, sent, reloads, spent, ghosts>>

\* For a guild that was not in the cache the custom_branding it made up, {}, is
\* no string: GuildSettings(...) raises and the answer is 500.
StoreRaises(h) ==
  /\ pc[h] = "store" /\ cold[h]
  /\ EndRequest(h)
  /\ clean' = (clean /\ cache = None) /\ stale' = stale \ {h}
  /\ UNCHANGED <<row, cache, present, billing, reloads, spent, ghosts>>

\* A query or the call to Stripe raises: 500, and Stripe will try again.
RequestFails(h) ==
  /\ pc[h] \in {"ask", "begin", "log", "write"}
  /\ Trouble("error")
  /\ EndRequest(h)
  /\ excused' = IF pc[h] = "write" /\ event[h].kind = "checkout"
                THEN excused \cup {event[h].session} ELSE excused
  /\ UNCHANGED <<row, cache, present, billing, reloads, granted, twice, raced, stale, clean>>

-----------------------------------------------------------------------------
(* reload_guild_settings_cache and its callers.                            *)

\* PATCH /guilds/{id}/settings commits its own columns, then reloads.
Patch(r, language) ==
  /\ reload[r] = "idle" /\ Connection
  /\ language # row.language
  /\ Trouble("settings")
  /\ row' = [row EXCEPT !.language = language]
  /\ reload' = [reload EXCEPT ![r] = "read"]
  /\ Outdates(r)
  /\ UNCHANGED <<cache, present, billing, requests, seen, ghosts, clean>>

\* POST /monitors/sync, or the end of an edit of the guild's feeds.
StartReload(r) ==
  /\ r # Boot /\ reload[r] = "idle"
  /\ Trouble("sync")
  /\ reload' = [reload EXCEPT ![r] = "read"]
  /\ UNCHANGED <<row, cache, present, billing, requests, seen, ghosts, stale, clean>>

\* get_all_guild_settings reads the row.
ReadAll(r) ==
  /\ reload[r] = "read" /\ Connection
  /\ seen' = [seen EXCEPT ![r] = row]
  /\ reload' = [reload EXCEPT ![r] = "swap"]
  /\ stale' = stale \ {r}
  /\ UNCHANGED <<row, cache, present, billing, requests, spent, ghosts, clean>>

\* Mutant: entries the cache already has are kept.
SwapMissing(r) ==
  /\ reload[r] = "swap"
  /\ cache' = IF cache = None THEN seen[r] ELSE cache
  /\ reload' = [reload EXCEPT ![r] = "idle"] /\ seen' = [seen EXCEPT ![r] = Default]
  /\ clean' = (r \notin stale) /\ stale' = stale \ {r}
  /\ UNCHANGED <<row, present, billing, requests, spent, ghosts>>

\* The coroutine resumes: a new cache, filled from what was read, replaces it.
Swap(r) ==
  /\ reload[r] = "swap"
  /\ cache' = seen[r]
  /\ reload' = [reload EXCEPT ![r] = "idle"] /\ seen' = [seen EXCEPT ![r] = Default]
  /\ clean' = (r \notin stale) /\ stale' = stale \ {r}
  /\ UNCHANGED <<row, present, billing, requests, spent, ghosts>>

\* The query raises: the old cache stays, the request goes on.  No bound is
\* needed: the reload has spent one.
ReloadFails(r) ==
  /\ reload[r] = "read"
  /\ "error" \in Troubles
  /\ reload' = [reload EXCEPT ![r] = "idle"]
  /\ clean' = FALSE
  /\ UNCHANGED <<row, cache, present, billing, requests, seen, spent, ghosts, stale>>

-----------------------------------------------------------------------------
(* Guild lifecycle, eviction and restart.                                  *)

\* on_guild_remove.
Leave ==
  /\ present /\ Trouble("leave")
  /\ present' = FALSE /\ cache' = None
  /\ UNCHANGED <<row, billing, requests, reloads, ghosts, stale, clean>>

\* on_guild_join, or on_ready after a restart or a reconnect: a guild that the
\* cache does not hold gets default settings there, its row is left alone.
Enter ==
  /\ reload[Boot] = "idle"
  /\ present' = TRUE
  /\ IF cache = None THEN cache' = Default /\ clean' = (clean /\ row = Default)
     ELSE UNCHANGED <<cache, clean>>
  /\ <<present, cache>>' # <<present, cache>>
  /\ UNCHANGED <<row, billing, requests, reloads, spent, ghosts, stale>>

\* The cache is at its limit and this guild the least recently used.
Evict ==
  /\ cache # None /\ Trouble("evict")
  /\ cache' = None
  /\ UNCHANGED <<row, present, billing, requests, reloads, ghosts, stale, clean>>

\* The process is restarted: the web server answers again before
\* BotContainer.initialize has filled the cache.
Crash ==
  /\ Trouble("crash")
  /\ cache' = None
  /\ pc' = [h \in Handlers |-> "idle"] /\ event' = [h \in Handlers |-> None]
  /\ cold' = [h \in Handlers |-> FALSE] /\ new' = [h \in Handlers |-> Default]
  /\ reload' = [r \in AllLoads |-> IF r = Boot THEN "read" ELSE "idle"]
  /\ seen' = [r \in AllLoads |-> Default]
  /\ stale' = {}
  /\ excused' = excused \cup
       {s \in Sessions : \E h \in Handlers :
          pc[h] = "write" /\ event[h] = [kind |-> "checkout", session |-> s]}
  /\ UNCHANGED <<row, present, billing, granted, twice, raced, clean>>

-----------------------------------------------------------------------------
Init ==
  /\ row = Default /\ cache = Default /\ present = TRUE
  /\ logged = {} /\ sent = {} /\ pending = {}
  /\ pc = [h \in Handlers |-> "idle"] /\ event = [h \in Handlers |-> None]
  /\ cold = [h \in Handlers |-> FALSE] /\ new = [h \in Handlers |-> Default]
  /\ reload = [r \in AllLoads |-> "idle"] /\ seen = [r \in AllLoads |-> Default]
  /\ spent = 0
  /\ granted = {} /\ twice = {} /\ excused = {} /\ raced = {}
  /\ stale = {} /\ clean = TRUE

Serve(h) == Ask(h) \/ Begin(h) \/ Log(h) \/ Write(h) \/ Store(h) \/ StoreRaises(h)

Next ==
  \/ \E e \in Events : Emit(e) \/ Redeliver(e) \/ \E h \in Handlers : Receive(h, e)
  \/ \E h \in Handlers : Serve(h) \/ RequestFails(h)
  \/ \E r \in AllLoads : StartReload(r) \/ ReadAll(r) \/ Swap(r) \/ ReloadFails(r)
  \/ \E r \in Reloaders, l \in Languages : Patch(r, l)
  \/ Leave \/ Enter \/ Evict \/ Crash

Spec == Init /\ [][Next]_vars

\* Every delivery gets a coroutine of its own in time, whatever else is
\* delivered, Stripe repeats what was not answered, and the event loop runs the
\* coroutines.  Nobody has to pay, patch or reload.
FairSpec ==
  /\ Spec
  /\ \A e \in Events : SF_vars(\E h \in Handlers : Receive(h, e))
  /\ \A h \in Handlers : WF_vars(Serve(h))
  /\ \A r \in AllLoads : WF_vars(ReadAll(r) \/ Swap(r))

-----------------------------------------------------------------------------
(* Properties.                                                             *)

\* A payment that is on record is reflected in the guild's row, or a request is
\* about to write it, or that request failed or died between the two queries
\* (stripe_router.py:88-104).
PaymentsHonoured ==
  \A s \in logged :
    \/ s \in granted \cup excused
    \/ \E h \in Handlers : pc[h] = "write" /\ event[h] = [kind |-> "checkout", session |-> s]

\* A checkout session is granted once, unless a second delivery of it was
\* looked up before the first had logged it (stripe_router.py:65-90).
GrantedOnce == twice \subseteq raced

\* Between requests the cached settings are those of the row: what divides them
\* is a stale write, a failed reload, or default settings for a guild whose row
\* holds more (guild_repo.py:115-191, container.py:55-68,
\* guild_lifecycle_cog.py:30-40).
CacheMatchesRow ==
  (/\ clean
   /\ \A h \in Handlers : pc[h] # "store"
   /\ \A r \in AllLoads : reload[r] = "idle") => cache \in {None, row}

\* Every checkout is answered in the end, through errors and restarts.
CheckoutAnswered ==
  \A s \in Sessions :
    []<>([kind |-> "checkout", session |-> s] \notin pending)

\* Payment log and activation are one "Atomic transaction boundary"
\* (stripe_router.py:87): no request ever ends between the two.
LoggedMeansGranted ==
  \A s \in logged :
    s \in granted \/ \E h \in Handlers : pc[h] = "write" /\ event[h].kind = "checkout"
=============================================================================
