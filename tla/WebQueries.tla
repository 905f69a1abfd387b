----------------------------- MODULE WebQueries -----------------------------
(***************************************************************************)
(* Reading and writing server data in the console: the shared cache        *)
(* (web/src/api/queryCache.ts), the query hook (api/useApiQuery.ts), the   *)
(* mutation hook (api/useApiMutation.ts) and their use for the feeds of a  *)
(* guild (features/feeds/api/useGuildFeeds.ts, FeedCreateCard.tsx).        *)
(*                                                                         *)
(* A view is one mounted component with a query; its key is the guild it   *)
(* shows.  Server data is abstracted to a version per guild.  Equal GETs   *)
(* under way are one GET (module ApiClient); an aborted execution of the   *)
(* hook neither stores nor shows anything, so a view has at most one       *)
(* execution that counts.  Time passes in Elapse (dedupingIntervalMs).     *)
(***************************************************************************)
EXTENDS Naturals, Sequences, FiniteSets, SequencesExt

CONSTANTS Views, Guilds, MaxEntries,
  MaxWrites      \* bound: how often the feeds of a guild change

ASSUME QueryAssumption == MaxEntries \in Nat \ {0} /\ "none" \notin Guilds \cup Views

Nothing == [key |-> "none", version |-> 0]

VARIABLES
  served,        \* [Guilds -> Nat], the version the server holds
  request,       \* [Guilds -> [pc, version]], the GET under way for each key
  cache,         \* the entries of QueryCache, least recently used first
  view,          \* [Views -> record], state and refs of useApiQuery
  creating       \* useApiMutation of the form: its flags, and the POST under way

queryVars == <<served, request, cache, view, creating>>

Data == [key : Guilds, version : Nat] \cup {Nothing}
Unmounted == [mounted |-> FALSE, key |-> "none", data |-> Nothing, error |-> "none",
              isLoading |-> FALSE, isValidating |-> FALSE, awaits |-> "none",
              recent |-> FALSE]

NoPost == [pc |-> "idle", guild |-> "none", form |-> "none", option |-> "none",
           isLoading |-> FALSE, isSuccess |-> FALSE, isError |-> FALSE]

QueryTypeOK ==
  /\ served \in [Guilds -> Nat]
  /\ request \in [Guilds -> [pc : {"none", "sent", "read"}, version : Nat]]
  /\ \A i \in DOMAIN cache : cache[i] \in Data \ {Nothing}
  /\ \A v \in Views :
       /\ view[v].data \in Data /\ view[v].error \in {"none", "error", "timeout"}
       /\ view[v].awaits \in Guilds \cup {"none"}
  /\ creating.pc \in {"idle", "posting", "posted"}

QueryInit ==
  /\ served = [g \in Guilds |-> 0]
  /\ request = [g \in Guilds |-> [pc |-> "none", version |-> 0]]
  /\ cache = <<>>
  /\ view = [v \in Views |-> Unmounted]
  /\ creating = NoPost

-----------------------------------------------------------------------------
(* queryCache.ts.                                                           *)

Cached(k) == \E i \in DOMAIN cache : cache[i].key = k
Position(k) == CHOOSE i \in DOMAIN cache : cache[i].key = k
Entry(k) == cache[Position(k)]
Without(k) == IF Cached(k) THEN RemoveAt(cache, Position(k)) ELSE cache

\* get moves the entry to the recent end.
Touched(k) == IF Cached(k) THEN Append(Without(k), Entry(k)) ELSE cache

\* Mutant: the limit is noticed one entry late.
StoredOneOver(k, n) ==
  LET kept == IF Cached(k) THEN Without(k)
              ELSE IF Len(cache) > MaxEntries THEN Tail(cache) ELSE cache
  IN Append(kept, [key |-> k, version |-> n])

\* set evicts the least recently used entry for a new key of a full cache.
Stored(k, n) ==
  LET kept == IF Cached(k) THEN Without(k)
              ELSE IF Len(cache) >= MaxEntries THEN Tail(cache) ELSE cache
  IN Append(kept, [key |-> k, version |-> n])

-----------------------------------------------------------------------------
(* useApiQuery.ts.                                                          *)

\* execute past its checks: whatever the view awaited is aborted, the GET of the
\* key is sent or joined.
Executing(w, k) ==
  [w EXCEPT !.awaits = k, !.error = "none", !.isValidating = TRUE, !.recent = TRUE,
            !.isLoading = @ \/ (w.data = Nothing /\ ~Cached(k))]

\* Mutant: a key that is cached is awaited but not fetched.
SendUnlessCached(k) ==
  request' = IF request[k].pc = "none" /\ ~Cached(k)
             THEN [request EXCEPT ![k] = [pc |-> "sent", version |-> 0]] ELSE request

SendOrJoin(k) ==
  request' = IF request[k].pc = "none"
             THEN [request EXCEPT ![k] = [pc |-> "sent", version |-> 0]] ELSE request

\* The first render takes its data from the cache; the effect revalidates.
Mount(v, k) ==
  /\ ~view[v].mounted
  /\ LET data == IF Cached(k) THEN Entry(k) ELSE Nothing
         fresh == [Unmounted EXCEPT !.mounted = TRUE, !.key = k, !.data = data]
     IN view' = [view EXCEPT ![v] = Executing(fresh, k)]
  /\ cache' = Touched(k) /\ SendOrJoin(k)
  /\ UNCHANGED <<served, creating>>

Unmount(v) ==
  /\ view[v].mounted /\ view' = [view EXCEPT ![v] = Unmounted]
  /\ creating' = IF creating.form # v THEN creating
                 ELSE [NoPost EXCEPT !.pc = creating.pc, !.guild = creating.guild,
                                     !.option = creating.option]
  /\ UNCHANGED <<served, request, cache>>

\* Mutant: an empty view is not fetched for either.
SkipsRecent(w) == w.recent

\* What the deduplication check of execute skips, and what it leaves.
Skips(w) == w.recent /\ w.data # Nothing

\* Mutant: the early return leaves the flags of the aborted execution.
SkippedAsIs(w) == w

Skipped(w) == [w EXCEPT !.isLoading = FALSE, !.isValidating = FALSE]

\* The key changes under a mounted view: the execution of the old key is
\* aborted, and the new one is skipped if the view has any data and has fetched
\* within the deduplication interval.  A form of the view gets the options of the
\* new guild, whatever it is sending.
SwitchKey(v, k) ==
  /\ view[v].mounted /\ view[v].key # k
  /\ cache' = Touched(k)
  /\ creating' = [creating EXCEPT !.option =
                   IF creating.form = v /\ creating.pc # "idle" THEN k ELSE @]
  /\ LET w == [view[v] EXCEPT !.key = k, !.awaits = "none"]
     IN IF Skips(w)
        THEN view' = [view EXCEPT ![v] = Skipped(w)] /\ UNCHANGED request
        ELSE view' = [view EXCEPT ![v] = Executing(w, k)] /\ SendOrJoin(k)
  /\ UNCHANGED served

Refetch(v) ==
  /\ view[v].mounted
  /\ view' = [view EXCEPT ![v] = Executing(view[v], view[v].key)]
  /\ cache' = Touched(view[v].key) /\ SendOrJoin(view[v].key)
  /\ UNCHANGED <<served, creating>>

Elapse(v) ==
  /\ view[v].recent /\ view' = [view EXCEPT ![v].recent = FALSE]
  /\ UNCHANGED <<served, request, cache, creating>>

\* The server reads the guild's feeds for the GET.
Read(k) ==
  /\ request[k].pc = "sent"
  /\ request' = [request EXCEPT ![k] = [pc |-> "read", version |-> served[k]]]
  /\ UNCHANGED <<served, cache, view, creating>>

NoRequest(k) == request' = [request EXCEPT ![k] = [pc |-> "none", version |-> 0]]
\* Every mounted view is subscribed to its key.
Subscribed(k) == {v \in Views : view[v].mounted /\ view[v].key = k}
Waiting(k) == {v \in Views : view[v].awaits = k}
Settled(w) == [w EXCEPT !.isLoading = FALSE, !.isValidating = FALSE, !.awaits = "none"]

\* Who still awaits the answer shows and stores it; the cache tells every view
\* subscribed to the key.
Answered(k) ==
  LET data == [key |-> k, version |-> request[k].version]
  IN /\ request[k].pc = "read" /\ NoRequest(k)
     /\ cache' = IF Waiting(k) = {} THEN cache ELSE Stored(k, request[k].version)
     /\ view' = [v \in Views |->
          IF v \in Waiting(k) THEN [Settled(view[v]) EXCEPT !.data = data]
          ELSE IF Waiting(k) # {} /\ v \in Subscribed(k)
               THEN [view[v] EXCEPT !.data = data] ELSE view[v]]
     /\ UNCHANGED <<served, creating>>

\* A failure is shown, unless it was a timeout (408), which the hook takes for a
\* cancellation.
Failed(k) ==
  /\ request[k].pc # "none" /\ NoRequest(k)
  /\ \E kind \in {"error", "timeout"} :
       view' = [v \in Views |-> IF v \in Waiting(k)
                  THEN [Settled(view[v]) EXCEPT !.error = kind] ELSE view[v]]
  /\ UNCHANGED <<served, cache, creating>>

-----------------------------------------------------------------------------
(* useApiMutation.ts, as the form that creates a feed uses it.              *)

\* Mutant: the flags of the last attempt are kept.
AttemptOnTop(v) ==
  [creating EXCEPT !.pc = "posting", !.guild = view[v].key, !.form = v,
                   !.option = view[v].key, !.isLoading = TRUE]

Attempt(v) ==
  [pc |-> "posting", guild |-> view[v].key, form |-> v, option |-> view[v].key,
   isLoading |-> TRUE, isSuccess |-> FALSE, isError |-> FALSE]

\* mutateAsync up to its await; the button is disabled while one is loading.
Submit(v) ==
  /\ view[v].mounted /\ ~creating.isLoading /\ creating.pc = "idle"
  /\ creating' = Attempt(v)
  /\ UNCHANGED <<served, request, cache, view>>

\* The server creates the feed, for this form or for another client.
Create(g) ==
  /\ served[g] < MaxWrites
  /\ served' = [served EXCEPT ![g] = @ + 1]
  /\ \/ creating.pc = "posting" /\ creating.guild = g
        /\ creating' = [creating EXCEPT !.pc = "posted"]
     \/ UNCHANGED creating
  /\ UNCHANGED <<request, cache, view>>

Done == [creating EXCEPT !.pc = "idle", !.guild = "none", !.option = "none",
                         !.isLoading = FALSE]

\* The answer to the POST is shown by the form that sent it, if it is still
\* mounted.  The entry its options name by now leaves the cache; nobody is told.
Created ==
  /\ creating.pc = "posted"
  /\ creating' = [Done EXCEPT !.isSuccess = creating.form # "none"]
  /\ cache' = Without(creating.option)
  /\ UNCHANGED <<served, request, view>>

\* The POST fails, before or after the server executed it.
CreateFailed ==
  /\ creating.pc # "idle"
  /\ creating' = [Done EXCEPT !.isError = creating.form # "none"]
  /\ UNCHANGED <<served, request, cache, view>>

\* AuthProvider's logout clears the cache under the mounted views.
ClearCache ==
  /\ cache # <<>> /\ cache' = <<>>
  /\ UNCHANGED <<served, request, view, creating>>

QueryNext ==
  \/ \E v \in Views : Unmount(v) \/ Refetch(v) \/ Elapse(v) \/ Submit(v)
  \/ \E v \in Views, k \in Guilds : Mount(v, k) \/ SwitchKey(v, k)
  \/ \E k \in Guilds : Read(k) \/ Answered(k) \/ Failed(k) \/ Create(k)
  \/ Created \/ CreateFailed \/ ClearCache

\* Fairness: a GET or a POST is answered, or times out.
QueryFairness ==
  /\ \A k \in Guilds : WF_queryVars(Answered(k) \/ Failed(k))
  /\ WF_queryVars(Created \/ CreateFailed)

QuerySpec == QueryInit /\ [][QueryNext]_queryVars /\ QueryFairness

-----------------------------------------------------------------------------
(* Properties.                                                              *)

\* No spinner outlives its cause: a view that says it loads or validates awaits
\* a GET that is under way, whatever was aborted, joined or skipped before.
NoStuckSpinner ==
  \A v \in Views : view[v].isLoading \/ view[v].isValidating =>
    view[v].awaits # "none" /\ request[view[v].awaits].pc # "none"

\* An empty view has an explanation: it awaits an answer, or shows an error, or
\* (the case the hook hides) its GET timed out.
EmptyViewExplained ==
  \A v \in Views : view[v].mounted /\ view[v].data = Nothing =>
    view[v].awaits # "none" \/ view[v].error # "none"

\* The cache holds each key once and never more than its limit.
CacheWithinLimit ==
  /\ Len(cache) <= MaxEntries
  /\ \A i, j \in DOMAIN cache : cache[i].key = cache[j].key => i = j

\* A form never says of its last attempt both that it succeeded and that it failed.
OneOutcome == ~(creating.isSuccess /\ creating.isError)

\* A view tells the truth about its data: what it waits for is under way, what it
\* lacks it explains, and the cache behind it and the form beside it have no two
\* answers.
ViewsTruthful == NoStuckSpinner /\ EmptyViewExplained /\ CacheWithinLimit /\ OneOutcome

\* No view waits for ever for the GET of a guild: one answer or failure ends the
\* wait of all the views that joined it.
QueryLoadEnds == \A k \in Guilds : []<>(Waiting(k) = {})
=============================================================================
