---------------------------- MODULE WebDataProofs ---------------------------
(***************************************************************************)
(* Theorems about the data behind the console: cached queries, languages,   *)
(* telemetry, and what the service worker keeps for a tab without a network.*)
(***************************************************************************)
EXTENDS WebQueries, WebLocale, WebTelemetry, WebOffline, SequenceLemmas

-----------------------------------------------------------------------------
(* Queries, for any guilds, views and versions of the data.                 *)

\* The states of a view, of a GET and of the form's POST.
ViewStates ==
  [mounted : BOOLEAN, key : Guilds \cup {"none"}, data : Data,
   error : {"none", "error", "timeout"}, isLoading : BOOLEAN, isValidating : BOOLEAN,
   awaits : Guilds \cup {"none"}, recent : BOOLEAN]
GetStates == [pc : {"none", "sent", "read"}, version : Nat]
PostStates ==
  [pc : {"idle", "posting", "posted"}, guild : Guilds \cup {"none"},
   form : Views \cup {"none"}, option : Guilds \cup {"none"},
   isLoading : BOOLEAN, isSuccess : BOOLEAN, isError : BOOLEAN]
\* What the cache holds of a guild.
CacheEntries == [key : Guilds, version : Nat]

\* The shapes the variables keep.
QueryShape ==
  /\ served \in [Guilds -> Nat] /\ request \in [Guilds -> GetStates]
  /\ cache \in Seq(CacheEntries) /\ view \in [Views -> ViewStates] /\ creating \in PostStates

\* A view that waits does so for a GET under way; it says nothing of an empty view only
\* while it waits.
ViewSound(w, gets) ==
  /\ w.isLoading \/ w.isValidating => w.awaits # "none"
  /\ w.awaits # "none" => gets[w.awaits].pc # "none"
  /\ w.mounted => w.key \in Guilds
  /\ w.mounted /\ w.data = Nothing => w.awaits # "none" \/ w.error # "none"
\* So does every view.
ViewsSound == \A v \in Views : ViewSound(view[v], request)

\* A POST under way has no outcome yet.
NoOutcomeYet == creating.pc # "idle" => ~creating.isSuccess /\ ~creating.isError

\* The cache holds a guild once, and no more than it may.
CacheSound ==
  /\ Len(cache) <= MaxEntries
  /\ \A i, j \in 1..Len(cache) : cache[i].key = cache[j].key => i = j

\* What is kept about views, requests and the cache.
QueryInv ==
  QueryShape /\ ViewsSound /\ CacheSound /\ NoOutcomeYet /\ OneOutcome

\* The cache without a key: shorter, and the other keys still differ.
LEMMA WithoutKey ==
  ASSUME cache \in Seq(CacheEntries), CacheSound, NEW k
  PROVE  /\ Without(k) \in Seq(CacheEntries)
         /\ Len(Without(k)) = IF Cached(k) THEN Len(cache) - 1 ELSE Len(cache)
         /\ \A i, j \in 1..Len(Without(k)) : Without(k)[i].key = Without(k)[j].key => i = j
         /\ \A i \in 1..Len(Without(k)) : Without(k)[i].key # k
         /\ Cached(k) => Entry(k) \in CacheEntries /\ Entry(k).key = k /\ Len(Without(k)) < MaxEntries
         /\ Len(Without(k)) <= MaxEntries
<1>0. DOMAIN cache = 1..Len(cache) /\ Len(cache) \in Nat
  OBVIOUS
<1>1. CASE Cached(k)
  <2> DEFINE p == Position(k)
             W == RemoveAt(cache, p)
  <2>1. p \in 1..Len(cache) /\ cache[p].key = k
    BY <1>0, <1>1 DEF Cached, Position
  <2> HIDE DEF p
  <2>2. /\ W \in Seq(CacheEntries) /\ Len(W) = Len(cache) - 1
        /\ \A j \in 1..(Len(cache) - 1) : W[j] = IF j < p THEN cache[j] ELSE cache[j + 1]
    BY <2>1, RemovedAt
  <2> HIDE DEF W
  <2>3. \A j \in 1..(Len(cache) - 1) : \E h \in 1..Len(cache) :
          W[j] = cache[h] /\ h = (IF j < p THEN j ELSE j + 1) /\ h # p
    BY <1>0, <2>1, <2>2
  <2>4. ASSUME NEW i \in 1..Len(W), NEW j \in 1..Len(W), W[i].key = W[j].key PROVE i = j
    <3>1. PICK g \in 1..Len(cache) : W[i] = cache[g] /\ g = (IF i < p THEN i ELSE i + 1)
      BY <2>2, <2>3
    <3>2. PICK h \in 1..Len(cache) : W[j] = cache[h] /\ h = (IF j < p THEN j ELSE j + 1)
      BY <2>2, <2>3
    <3>3. g = h
      BY <2>4, <3>1, <3>2 DEF CacheSound
    <3> QED
      BY <2>1, <3>1, <3>2, <3>3
  <2>5. \A i \in 1..Len(W) : W[i].key # k
    BY <2>1, <2>2, <2>3 DEF CacheSound
  <2>6. Without(k) = W /\ Entry(k) = cache[p] /\ cache[p] \in CacheEntries
    BY <1>1, <2>1 DEF Without, Entry, p, W
  <2>7. Len(W) < MaxEntries
    <3>1. Len(cache) <= MaxEntries /\ MaxEntries \in Nat
      BY QueryAssumption DEF CacheSound
    <3> QED
      BY <1>0, <2>2, <3>1
  <2>8. Len(W) <= MaxEntries
    <3>1. Len(W) \in Nat /\ MaxEntries \in Nat
      BY <2>2, QueryAssumption
    <3> QED
      BY <2>7, <3>1
  <2> QED
    BY <1>1, <2>1, <2>2, <2>4, <2>5, <2>6, <2>7, <2>8
<1>2. CASE ~Cached(k)
  BY <1>0, <1>2 DEF Without, Cached, CacheSound
<1> QED
  BY <1>1, <1>2

\* An entry at the recent end of a cache that has room for it and has not its key.
LEMMA Appended ==
  ASSUME NEW c \in Seq(CacheEntries), NEW e \in CacheEntries, Len(c) < MaxEntries, cache' = Append(c, e),
         \A i, j \in 1..Len(c) : c[i].key = c[j].key => i = j,
         \A i \in 1..Len(c) : c[i].key # e.key
  PROVE  cache' \in Seq(CacheEntries) /\ CacheSound'
<1>1. /\ cache' \in Seq(CacheEntries) /\ Len(cache') = Len(c) + 1 /\ Len(c) \in Nat
      /\ cache'[Len(c) + 1] = e /\ \A i \in 1..Len(c) : cache'[i] = c[i]
  OBVIOUS
<1>2. Len(cache') <= MaxEntries
  BY <1>1, QueryAssumption
<1>3. ASSUME NEW i \in 1..Len(cache'), NEW j \in 1..Len(cache'), cache'[i].key = cache'[j].key
      PROVE  i = j
  <2>1. /\ i = Len(c) + 1 \/ i \in 1..Len(c)
        /\ j = Len(c) + 1 \/ j \in 1..Len(c)
    BY <1>1
  <2> QED
    BY <1>1, <1>3, <2>1
<1> QED
  BY <1>1, <1>2, <1>3 DEF CacheSound

\* A use of an entry keeps the cache within its limit, each key once.
LEMMA TouchedStep ==
  ASSUME QueryInv, NEW k, cache' = Touched(k)
  PROVE  cache' \in Seq(CacheEntries) /\ CacheSound'
<1>0. cache \in Seq(CacheEntries) /\ CacheSound /\ Len(cache) \in Nat
  BY DEF QueryInv, QueryShape
<1>1. CASE Cached(k)
  <2>1. Len(Without(k)) < MaxEntries
    BY <1>0, <1>1, WithoutKey
  <2>2. cache' = Append(Without(k), Entry(k))
    BY <1>1 DEF Touched
  <2> QED
    BY <1>0, <1>1, <2>1, <2>2, WithoutKey, Appended
<1>2. CASE ~Cached(k)
  BY <1>0, <1>2 DEF Touched, CacheSound
<1> QED
  BY <1>1, <1>2

\* So does a store, which makes room for a new key.
LEMMA StoredStep ==
  ASSUME QueryInv, NEW k \in Guilds, NEW n \in Nat, cache' = Stored(k, n)
  PROVE  cache' \in Seq(CacheEntries) /\ CacheSound'
<1> DEFINE e == [key |-> k, version |-> n]
<1>0. cache \in Seq(CacheEntries) /\ CacheSound /\ Len(cache) \in Nat /\ DOMAIN cache = 1..Len(cache)
  BY DEF QueryInv, QueryShape
<1>1. e \in CacheEntries /\ e.key = k
  BY DEF CacheEntries
<1> HIDE DEF e
<1>2. CASE Cached(k)
  <2>1. Len(Without(k)) < MaxEntries
    BY <1>0, <1>2, WithoutKey
  <2>2. cache' = Append(Without(k), e)
    BY <1>2 DEF Stored, e
  <2> QED
    BY <1>0, <1>1, <1>2, <2>1, <2>2, WithoutKey, Appended
<1>3. CASE ~Cached(k) /\ Len(cache) >= MaxEntries
  <2>1. /\ Tail(cache) \in Seq(CacheEntries) /\ Len(Tail(cache)) = Len(cache) - 1 /\ Len(cache) > 0
        /\ \A i \in 1..(Len(cache) - 1) : Tail(cache)[i] = cache[i + 1]
    BY <1>0, <1>3, QueryAssumption
  <2>2. Len(Tail(cache)) < MaxEntries
    BY <1>0, <2>1, QueryAssumption DEF CacheSound
  <2>3. cache' = Append(Tail(cache), e)
    BY <1>3 DEF Stored, e
  <2>4. ASSUME NEW i \in 1..Len(Tail(cache)), NEW j \in 1..Len(Tail(cache)),
               Tail(cache)[i].key = Tail(cache)[j].key
        PROVE  i = j
    <3>1. i + 1 \in 1..Len(cache) /\ j + 1 \in 1..Len(cache)
      BY <1>0, <2>1
    <3>2. cache[i + 1].key = cache[j + 1].key
      BY <2>1, <2>4
    <3>3. i + 1 = j + 1
      BY <1>0, <3>1, <3>2 DEF CacheSound
    <3> QED
      BY <3>3
  <2>5. \A i \in 1..Len(Tail(cache)) : Tail(cache)[i].key # k
    <3>1. \A i \in 1..Len(Tail(cache)) : i + 1 \in DOMAIN cache /\ Tail(cache)[i] = cache[i + 1]
      BY <1>0, <2>1
    <3> QED
      BY <1>3, <3>1 DEF Cached
  <2> QED
    BY <1>1, <2>1, <2>2, <2>3, <2>4, <2>5, Appended
<1>4. CASE ~Cached(k) /\ ~(Len(cache) >= MaxEntries)
  <2>1. cache' = Append(cache, e) /\ Len(cache) < MaxEntries
    BY <1>0, <1>4, QueryAssumption DEF Stored, e
  <2>2. \A i \in 1..Len(cache) : cache[i].key # k
    BY <1>0, <1>4 DEF Cached
  <2> QED
    BY <1>0, <1>1, <2>1, <2>2, Appended DEF CacheSound
<1> QED
  BY <1>2, <1>3, <1>4

\* What a view becomes that executes for a key.
LEMMA ExecutingSound ==
  ASSUME NEW w \in ViewStates, NEW k \in Guilds, NEW gets, gets[k].pc # "none",
         w.mounted => w.key \in Guilds
  PROVE  Executing(w, k) \in ViewStates /\ ViewSound(Executing(w, k), gets)
<1> DEFINE b == w.isLoading \/ (w.data = Nothing /\ ~Cached(k))
           x == [w EXCEPT !.awaits = k, !.error = "none", !.isValidating = TRUE,
                          !.recent = TRUE, !.isLoading = b]
<1>1. b \in BOOLEAN
  OBVIOUS
<1>2. Executing(w, k) = x
  BY DEF Executing
<1> HIDE DEF b
<1>3. x \in ViewStates /\ x.awaits = k /\ x.mounted = w.mounted /\ x.key = w.key
  BY <1>1 DEF ViewStates
<1> HIDE DEF x
<1>4. ViewSound(x, gets)
  BY <1>3, QueryAssumption DEF ViewSound
<1> QED
  BY <1>2, <1>3, <1>4

\* A GET is under way once it is sent or joined; those under way stay so.
LEMMA SendOrJoinStep ==
  ASSUME request \in [Guilds -> GetStates], NEW k \in Guilds, SendOrJoin(k)
  PROVE  /\ request' \in [Guilds -> GetStates] /\ request'[k].pc # "none"
         /\ \A g \in Guilds : request[g].pc # "none" => request'[g].pc # "none"
<1>1. [pc |-> "sent", version |-> 0] \in GetStates
  BY DEF GetStates
<1> QED
  BY <1>1 DEF SendOrJoin

\* One view changes for a sound one, and no GET ends.
LEMMA OneViewMoves ==
  ASSUME QueryInv, NEW v \in Views, NEW w \in ViewStates, view' = [view EXCEPT ![v] = w],
         ViewSound(w, request'),
         \A g \in Guilds : request[g].pc # "none" => request'[g].pc # "none"
  PROVE  view' \in [Views -> ViewStates] /\ ViewsSound'
<1>1. view \in [Views -> ViewStates] /\ ViewsSound
  BY DEF QueryInv, QueryShape
<1>2. ASSUME NEW u \in Views PROVE ViewSound(view[u], request')
  <2>1. view[u].awaits \in Guilds \cup {"none"}
    BY <1>1 DEF ViewStates
  <2> QED
    BY <1>1, <2>1 DEF ViewsSound, ViewSound
<1>3. \A u \in Views : view'[u] = IF u = v THEN w ELSE view[u]
  BY <1>1
<1> QED
  BY <1>1, <1>2, <1>3 DEF ViewsSound

\* No step of a view, of a GET or of the form breaks the invariant.
LEMMA QueriesStep == QueryInv /\ [QueryNext]_queryVars => QueryInv'
<1> SUFFICES ASSUME QueryInv, [QueryNext]_queryVars PROVE QueryInv'
  OBVIOUS
<1> USE QueryAssumption DEF QueryInv
<1>0. /\ served \in [Guilds -> Nat] /\ request \in [Guilds -> GetStates]
      /\ cache \in Seq(CacheEntries) /\ view \in [Views -> ViewStates] /\ creating \in PostStates
      /\ \A v \in Views : view[v] \in ViewStates
  BY DEF QueryShape
<1>e. /\ Unmounted \in ViewStates /\ ~Unmounted.mounted
      /\ \A gets : ViewSound(Unmounted, gets)
  BY DEF Unmounted, ViewStates, ViewSound, Data
<1>1. ASSUME NEW v \in Views, NEW k \in Guilds, Mount(v, k) PROVE QueryInv'
  <2> DEFINE data == IF Cached(k) THEN Entry(k) ELSE Nothing
             fresh == [Unmounted EXCEPT !.mounted = TRUE, !.key = k, !.data = data]
  <2>1. data \in Data
    BY <1>0, WithoutKey DEF Data, CacheEntries
  <2>2. fresh \in ViewStates /\ fresh.key = k
    <3> HIDE DEF data
    <3> QED
      BY <2>1 DEF Unmounted, ViewStates
  <2>3. view' = [view EXCEPT ![v] = Executing(fresh, k)]
    BY <1>1 DEF Mount
  <2> HIDE DEF fresh
  <2>4. cache' = Touched(k) /\ SendOrJoin(k) /\ UNCHANGED <<served, creating>>
    BY <1>1 DEF Mount
  <2>5. /\ request' \in [Guilds -> GetStates] /\ request'[k].pc # "none"
        /\ \A g \in Guilds : request[g].pc # "none" => request'[g].pc # "none"
    BY <1>0, <2>4, SendOrJoinStep
  <2>6. Executing(fresh, k) \in ViewStates /\ ViewSound(Executing(fresh, k), request')
    BY <2>2, <2>5, ExecutingSound
  <2>7. view' \in [Views -> ViewStates] /\ ViewsSound'
    BY <2>3, <2>5, <2>6, OneViewMoves
  <2>8. cache' \in Seq(CacheEntries) /\ CacheSound'
    BY <2>4, TouchedStep
  <2> QED
    BY <1>0, <2>4, <2>5, <2>7, <2>8 DEF QueryShape, NoOutcomeYet, OneOutcome
<1>2. ASSUME NEW v \in Views, NEW k \in Guilds, SwitchKey(v, k) PROVE QueryInv'
  <2> DEFINE w == [view[v] EXCEPT !.key = k, !.awaits = "none"]
             o == IF creating.form = v /\ creating.pc # "idle" THEN k ELSE creating.option
  <2>1. w \in ViewStates /\ w.key = k /\ w.awaits = "none"
    BY <1>0 DEF ViewStates
  <2>2. cache' = Touched(k) /\ served' = served /\ creating' = [creating EXCEPT !.option = o]
    BY <1>2 DEF SwitchKey
  <2>3. o \in Guilds \cup {"none"}
    BY <1>0 DEF PostStates
  <2> HIDE DEF o
  <2>4. creating' \in PostStates /\ NoOutcomeYet' /\ OneOutcome'
    <3>1. creating' \in PostStates
      BY <1>0, <2>2, <2>3 DEF PostStates
    <3>2. /\ creating'.pc = creating.pc /\ creating'.isSuccess = creating.isSuccess
          /\ creating'.isError = creating.isError
      BY <1>0, <2>2 DEF PostStates
    <3> QED
      BY <3>1, <3>2 DEF NoOutcomeYet, OneOutcome
  <2>5. cache' \in Seq(CacheEntries) /\ CacheSound'
    BY <2>2, TouchedStep
  <2>6. CASE Skips(w)
    <3>1. view' = [view EXCEPT ![v] = Skipped(w)] /\ request' = request
      BY <1>2, <2>6 DEF SwitchKey
    <3> HIDE DEF w
    <3>2. Skipped(w) \in ViewStates /\ ViewSound(Skipped(w), request')
      BY <2>1, <2>6 DEF Skipped, Skips, ViewStates, ViewSound
    <3>3. view' \in [Views -> ViewStates] /\ ViewsSound'
      BY <3>1, <3>2, OneViewMoves
    <3> QED
      BY <1>0, <2>2, <2>4, <2>5, <3>1, <3>3 DEF QueryShape
  <2>7. CASE ~Skips(w)
    <3>1. view' = [view EXCEPT ![v] = Executing(w, k)] /\ SendOrJoin(k)
      BY <1>2, <2>7 DEF SwitchKey
    <3> HIDE DEF w
    <3>2. /\ request' \in [Guilds -> GetStates] /\ request'[k].pc # "none"
          /\ \A g \in Guilds : request[g].pc # "none" => request'[g].pc # "none"
      BY <1>0, <3>1, SendOrJoinStep
    <3>3. Executing(w, k) \in ViewStates /\ ViewSound(Executing(w, k), request')
      BY <2>1, <3>2, ExecutingSound
    <3>4. view' \in [Views -> ViewStates] /\ ViewsSound'
      BY <3>1, <3>2, <3>3, OneViewMoves
    <3> QED
      BY <1>0, <2>2, <2>4, <2>5, <3>2, <3>4 DEF QueryShape
  <2> QED
    BY <2>6, <2>7
<1>3. ASSUME NEW v \in Views, Refetch(v) PROVE QueryInv'
  <2> DEFINE k == view[v].key
  <2>1. k \in Guilds
    BY <1>3 DEF Refetch, ViewsSound, ViewSound
  <2>2. /\ view' = [view EXCEPT ![v] = Executing(view[v], k)]
        /\ cache' = Touched(k) /\ SendOrJoin(k) /\ UNCHANGED <<served, creating>>
    BY <1>3 DEF Refetch
  <2> HIDE DEF k
  <2>3. /\ request' \in [Guilds -> GetStates] /\ request'[k].pc # "none"
        /\ \A g \in Guilds : request[g].pc # "none" => request'[g].pc # "none"
    BY <1>0, <2>1, <2>2, SendOrJoinStep
  <2>4. Executing(view[v], k) \in ViewStates /\ ViewSound(Executing(view[v], k), request')
    BY <1>0, <2>1, <2>3, ExecutingSound DEF k
  <2>5. view' \in [Views -> ViewStates] /\ ViewsSound'
    BY <2>2, <2>3, <2>4, OneViewMoves
  <2>6. cache' \in Seq(CacheEntries) /\ CacheSound'
    BY <2>2, TouchedStep
  <2> QED
    BY <1>0, <2>2, <2>3, <2>5, <2>6 DEF QueryShape, NoOutcomeYet, OneOutcome
<1>4. ASSUME NEW v \in Views, Unmount(v) PROVE QueryInv'
  <2>1. view' = [view EXCEPT ![v] = Unmounted] /\ UNCHANGED <<served, request, cache>>
    BY <1>4 DEF Unmount
  <2>2. view' \in [Views -> ViewStates] /\ ViewsSound'
    BY <1>0, <1>e, <2>1, OneViewMoves
  <2> DEFINE left == [NoPost EXCEPT !.pc = creating.pc, !.guild = creating.guild,
                                    !.option = creating.option]
  <2>3. left \in PostStates /\ ~left.isSuccess /\ ~left.isError
    BY <1>0 DEF PostStates, NoPost
  <2>4. creating' = creating \/ creating' = left
    BY <1>4 DEF Unmount
  <2> HIDE DEF left
  <2>5. creating' \in PostStates /\ NoOutcomeYet' /\ OneOutcome'
    BY <1>0, <2>3, <2>4 DEF NoOutcomeYet, OneOutcome
  <2> QED
    BY <1>0, <2>1, <2>2, <2>5 DEF QueryShape, CacheSound
<1>5. ASSUME NEW v \in Views, Elapse(v) PROVE QueryInv'
  <2> DEFINE w == [view[v] EXCEPT !.recent = FALSE]
  <2>1. view' = [view EXCEPT ![v] = w] /\ UNCHANGED <<served, request, cache, creating>>
    BY <1>5 DEF Elapse
  <2>2. w \in ViewStates /\ ViewSound(w, request)
    BY <1>0 DEF ViewStates, ViewsSound, ViewSound
  <2> HIDE DEF w
  <2>3. view' \in [Views -> ViewStates] /\ ViewsSound'
    BY <2>1, <2>2, OneViewMoves
  <2> QED
    BY <1>0, <2>1, <2>3 DEF QueryShape, CacheSound, NoOutcomeYet, OneOutcome
<1>6. ASSUME NEW v \in Views, Submit(v) PROVE QueryInv'
  <2>1. Attempt(v) \in PostStates /\ ~Attempt(v).isSuccess /\ ~Attempt(v).isError
    <3>1. view[v].key \in Guilds \cup {"none"}
      BY <1>0 DEF ViewStates
    <3> QED
      BY <3>1 DEF Attempt, PostStates
  <2>2. creating' = Attempt(v) /\ UNCHANGED <<served, request, cache, view>>
    BY <1>6 DEF Submit
  <2>3. creating' \in PostStates /\ NoOutcomeYet' /\ OneOutcome'
    BY <2>1, <2>2 DEF NoOutcomeYet, OneOutcome
  <2> QED
    BY <1>0, <2>2, <2>3 DEF QueryShape, CacheSound, ViewsSound
<1>7. ASSUME NEW k \in Guilds, Read(k) PROVE QueryInv'
  <2>1. /\ request' = [request EXCEPT ![k] = [pc |-> "read", version |-> served[k]]]
        /\ UNCHANGED <<served, cache, view, creating>>
    BY <1>7 DEF Read
  <2>2. [pc |-> "read", version |-> served[k]] \in GetStates
    BY <1>0 DEF GetStates
  <2>3. /\ request' \in [Guilds -> GetStates]
        /\ \A g \in Guilds : request[g].pc # "none" => request'[g].pc # "none"
    BY <1>0, <2>1, <2>2
  <2>4. ViewsSound'
    <3>1. \A v \in Views : view[v].awaits \in Guilds \cup {"none"}
      BY <1>0 DEF ViewStates
    <3> QED
      BY <2>1, <2>3, <3>1 DEF ViewsSound, ViewSound
  <2> QED
    BY <1>0, <2>1, <2>3, <2>4 DEF QueryShape, CacheSound, NoOutcomeYet, OneOutcome
<1>8. ASSUME NEW k \in Guilds, NoRequest(k)
      PROVE  /\ request' \in [Guilds -> GetStates]
             /\ \A g \in Guilds \ {k} : request'[g] = request[g]
  <2>1. [pc |-> "none", version |-> 0] \in GetStates
    BY DEF GetStates
  <2> QED
    BY <1>0, <1>8, <2>1 DEF NoRequest
<1>9. ASSUME NEW w \in ViewStates
      PROVE  /\ Settled(w) \in ViewStates /\ Settled(w).awaits = "none" /\ ~Settled(w).isLoading
             /\ ~Settled(w).isValidating /\ Settled(w).mounted = w.mounted /\ Settled(w).key = w.key
  BY DEF Settled, ViewStates
<1>10. ASSUME NEW k \in Guilds, Answered(k) PROVE QueryInv'
  <2> DEFINE data == [key |-> k, version |-> request[k].version]
  <2>0. request[k].version \in Nat
    BY <1>0 DEF GetStates
  <2>1. data \in Data /\ data # Nothing
    <3>1. data.key = k /\ Nothing.key = "none"
      BY DEF Nothing
    <3> QED
      BY <2>0, <3>1 DEF Data
  <2>2. /\ request' \in [Guilds -> GetStates]
        /\ \A g \in Guilds \ {k} : request'[g] = request[g]
    BY <1>8, <1>10 DEF Answered
  <2>3. cache' \in Seq(CacheEntries) /\ CacheSound'
    BY <1>0, <1>10, <2>0, StoredStep DEF Answered, CacheSound
  <2>4. view' = [v \in Views |->
          IF v \in Waiting(k) THEN [Settled(view[v]) EXCEPT !.data = data]
          ELSE IF Waiting(k) # {} /\ v \in Subscribed(k)
               THEN [view[v] EXCEPT !.data = data] ELSE view[v]]
    BY <1>10 DEF Answered
  <2> HIDE DEF data
  <2>5. ASSUME NEW v \in Views PROVE view'[v] \in ViewStates /\ ViewSound(view'[v], request')
    <3>1. view[v] \in ViewStates /\ ViewSound(view[v], request) /\ view[v].awaits \in Guilds \cup {"none"}
      BY <1>0 DEF ViewsSound, ViewStates
    <3>2. CASE v \in Waiting(k)
      <4> DEFINE s == Settled(view[v])
      <4>1. view'[v] = [s EXCEPT !.data = data]
        BY <2>4, <3>2
      <4>2. /\ s \in ViewStates /\ s.awaits = "none" /\ ~s.isLoading /\ ~s.isValidating
            /\ s.mounted = view[v].mounted /\ s.key = view[v].key
        BY <1>9, <3>1
      <4> HIDE DEF s
      <4>3. /\ view'[v] \in ViewStates /\ view'[v].awaits = "none" /\ view'[v].data = data
            /\ ~view'[v].isLoading /\ ~view'[v].isValidating
            /\ view'[v].mounted = s.mounted /\ view'[v].key = s.key
        BY <2>1, <4>1, <4>2 DEF ViewStates
      <4> QED
        BY <2>1, <3>1, <4>2, <4>3 DEF ViewSound
    <3>3. CASE v \notin Waiting(k)
      <4>0. view[v].awaits # k
        BY <3>3 DEF Waiting
      <4>1. CASE view'[v] = view[v]
        BY <2>2, <3>1, <4>0, <4>1 DEF ViewSound
      <4>2. CASE view'[v] = [view[v] EXCEPT !.data = data]
        <5>1. /\ view'[v] \in ViewStates /\ view'[v].data = data
              /\ view'[v].awaits = view[v].awaits /\ view'[v].isLoading = view[v].isLoading
              /\ view'[v].isValidating = view[v].isValidating
              /\ view'[v].mounted = view[v].mounted /\ view'[v].key = view[v].key
          BY <2>1, <3>1, <4>2 DEF ViewStates
        <5> QED
          BY <2>1, <2>2, <3>1, <4>0, <5>1 DEF ViewSound
      <4> QED
        BY <2>4, <3>3, <4>1, <4>2
    <3> QED
      BY <3>2, <3>3
  <2>6. view' \in [Views -> ViewStates] /\ ViewsSound'
    <3>1. view' = [v \in Views |-> view'[v]]
      BY <2>4
    <3>2. view' \in [Views -> ViewStates]
      BY <2>5, <3>1
    <3> QED
      BY <2>5, <3>2 DEF ViewsSound
  <2>7. UNCHANGED <<served, creating>>
    BY <1>10 DEF Answered
  <2> QED
    BY <1>0, <2>2, <2>3, <2>6, <2>7 DEF QueryShape, NoOutcomeYet, OneOutcome
<1>11. ASSUME NEW k \in Guilds, Failed(k) PROVE QueryInv'
  <2>1. /\ request' \in [Guilds -> GetStates]
        /\ \A g \in Guilds \ {k} : request'[g] = request[g]
    BY <1>8, <1>11 DEF Failed
  <2>2. PICK kind \in {"error", "timeout"} :
          view' = [v \in Views |-> IF v \in Waiting(k)
                     THEN [Settled(view[v]) EXCEPT !.error = kind] ELSE view[v]]
    BY <1>11 DEF Failed
  <2>3. ASSUME NEW v \in Views PROVE view'[v] \in ViewStates /\ ViewSound(view'[v], request')
    <3>1. view[v] \in ViewStates /\ ViewSound(view[v], request) /\ view[v].awaits \in Guilds \cup {"none"}
      BY <1>0 DEF ViewsSound, ViewStates
    <3>2. CASE v \in Waiting(k)
      <4> DEFINE s == Settled(view[v])
      <4>1. view'[v] = [s EXCEPT !.error = kind]
        BY <2>2, <3>2
      <4>2. /\ s \in ViewStates /\ s.awaits = "none" /\ ~s.isLoading /\ ~s.isValidating
            /\ s.mounted = view[v].mounted /\ s.key = view[v].key
        BY <1>9, <3>1
      <4> HIDE DEF s
      <4>3. /\ view'[v] \in ViewStates /\ view'[v].awaits = "none" /\ view'[v].error = kind
            /\ ~view'[v].isLoading /\ ~view'[v].isValidating
            /\ view'[v].mounted = s.mounted /\ view'[v].key = s.key
        BY <4>1, <4>2 DEF ViewStates
      <4> QED
        BY <3>1, <4>2, <4>3 DEF ViewSound
    <3>3. CASE v \notin Waiting(k)
      <4>1. view'[v] = view[v] /\ view[v].awaits # k
        BY <2>2, <3>3 DEF Waiting
      <4> QED
        BY <2>1, <3>1, <4>1 DEF ViewSound
    <3> QED
      BY <3>2, <3>3
  <2>4. view' \in [Views -> ViewStates] /\ ViewsSound'
    <3>1. view' = [v \in Views |-> view'[v]]
      BY <2>2
    <3>2. view' \in [Views -> ViewStates]
      BY <2>3, <3>1
    <3> QED
      BY <2>3, <3>2 DEF ViewsSound
  <2>5. UNCHANGED <<served, cache, creating>>
    BY <1>11 DEF Failed
  <2> QED
    BY <1>0, <2>1, <2>4, <2>5 DEF QueryShape, CacheSound, NoOutcomeYet, OneOutcome
<1>12. ASSUME NEW g \in Guilds, Create(g) PROVE QueryInv'
  <2>1. served' \in [Guilds -> Nat] /\ UNCHANGED <<request, cache, view>>
    BY <1>0, <1>12 DEF Create
  <2>2. creating' = creating \/ (creating.pc = "posting" /\ creating' = [creating EXCEPT !.pc = "posted"])
    BY <1>12 DEF Create
  <2>3. creating' \in PostStates /\ NoOutcomeYet' /\ OneOutcome'
    BY <1>0, <2>2 DEF PostStates, NoOutcomeYet, OneOutcome
  <2> QED
    BY <1>0, <2>1, <2>3 DEF QueryShape, CacheSound, ViewsSound
<1>13. ASSUME Created \/ CreateFailed PROVE QueryInv'
  <2>1. creating.pc # "idle" /\ UNCHANGED <<served, request, view>>
    BY <1>13 DEF Created, CreateFailed
  <2>2. ~creating.isSuccess /\ ~creating.isError
    BY <2>1 DEF NoOutcomeYet
  <2>3. Done \in PostStates /\ Done.pc = "idle" /\ ~Done.isSuccess /\ ~Done.isError
    BY <1>0, <2>2 DEF Done, PostStates
  <2> DEFINE b == creating.form # "none"
  <2>4. creating' = [Done EXCEPT !.isSuccess = b] \/ creating' = [Done EXCEPT !.isError = b]
    BY <1>13 DEF Created, CreateFailed
  <2>5. b \in BOOLEAN
    OBVIOUS
  <2> HIDE DEF b
  <2>6. /\ creating' \in PostStates /\ creating'.pc = "idle"
        /\ ~(creating'.isSuccess /\ creating'.isError)
    BY <2>3, <2>4, <2>5 DEF PostStates
  <2>7. cache' \in Seq(CacheEntries) /\ CacheSound'
    <3>1. CASE cache' = cache
      BY <1>0, <3>1 DEF CacheSound
    <3>2. CASE cache' = Without(creating.option)
      BY <1>0, <3>2, WithoutKey DEF CacheSound
    <3> QED
      BY <1>13, <3>1, <3>2 DEF Created, CreateFailed
  <2> QED
    BY <1>0, <2>1, <2>6, <2>7 DEF QueryShape, ViewsSound, NoOutcomeYet, OneOutcome
<1>14. CASE ClearCache
  <2>1. cache' = <<>> /\ cache' \in Seq(CacheEntries) /\ Len(cache') = 0 /\ UNCHANGED <<served, request, view, creating>>
    BY <1>14 DEF ClearCache
  <2> QED
    BY <1>0, <2>1 DEF QueryShape, ViewsSound, NoOutcomeYet, OneOutcome, CacheSound
<1>15. CASE UNCHANGED queryVars
  BY <1>0, <1>15 DEF queryVars, QueryShape, ViewsSound, NoOutcomeYet, OneOutcome, CacheSound
<1> QED
  BY <1>1, <1>2, <1>3, <1>4, <1>5, <1>6, <1>7, <1>10, <1>11, <1>12, <1>13, <1>14, <1>15
  DEF QueryNext

\* What the invariant says of the views.
LEMMA ViewsFollow == QueryInv => QueryTypeOK /\ ViewsTruthful
<1> SUFFICES ASSUME QueryInv PROVE QueryTypeOK /\ ViewsTruthful
  OBVIOUS
<1> USE QueryAssumption DEF QueryInv
<1>0. \A v \in Views : view[v] \in ViewStates
  BY DEF QueryShape
<1>1. \A w \in ViewStates : /\ w.data \in Data /\ w.error \in {"none", "error", "timeout"}
                            /\ w.awaits \in Guilds \cup {"none"}
  BY DEF ViewStates
<1>2. \A i \in DOMAIN cache : cache[i] \in Data \ {Nothing}
  <2>1. \A e \in CacheEntries : e \in Data /\ e.key \in Guilds
    BY DEF CacheEntries, Data
  <2>2. Nothing.key = "none"
    BY DEF Nothing
  <2> QED
    BY <2>1, <2>2 DEF QueryShape
<1>3. creating.pc \in {"idle", "posting", "posted"}
  BY DEF QueryShape, PostStates
<1>4. QueryTypeOK
  BY <1>0, <1>1, <1>2, <1>3 DEF QueryTypeOK, QueryShape, GetStates
<1>5. NoStuckSpinner
  BY <1>0, <1>1 DEF NoStuckSpinner, ViewsSound, ViewSound
<1>6. EmptyViewExplained
  BY DEF EmptyViewExplained, ViewsSound, ViewSound
<1>7. CacheWithinLimit
  BY DEF CacheWithinLimit, CacheSound, QueryShape
<1> QED
  BY <1>4, <1>5, <1>6, <1>7 DEF ViewsTruthful

\* Whatever views mount, turn to another guild, join or abort GETs, and whatever answers
\* or fails, for any views, guilds and size of the cache: no spinner outlives its cause,
\* an empty view has an explanation, the cache keeps its limit with each key once, and a
\* form has one outcome (useApiQuery, queryCache, useApiMutation).
THEOREM ViewsStayTruthful == QuerySpec => [](QueryTypeOK /\ ViewsTruthful)
<1>1. QueryInit => QueryInv
  <2> SUFFICES ASSUME QueryInit PROVE QueryInv
    OBVIOUS
  <2>1. Unmounted \in ViewStates /\ (\A gets : ViewSound(Unmounted, gets))
    BY DEF Unmounted, ViewStates, ViewSound, Data
  <2>2. view \in [Views -> ViewStates] /\ ViewsSound
    BY <2>1 DEF QueryInit, ViewsSound
  <2>3. NoPost \in PostStates /\ NoPost.pc = "idle" /\ ~NoPost.isSuccess
    BY DEF NoPost, PostStates
  <2>4. request \in [Guilds -> GetStates] /\ served \in [Guilds -> Nat]
    BY DEF QueryInit, GetStates
  <2>5. cache = <<>> /\ cache \in Seq(CacheEntries) /\ Len(cache) = 0
    BY DEF QueryInit
  <2> QED
    BY <2>2, <2>3, <2>4, <2>5, QueryAssumption
    DEF QueryInit, QueryInv, QueryShape, CacheSound, NoOutcomeYet, OneOutcome
<1> QED
  BY <1>1, QueriesStep, ViewsFollow, PTL DEF QuerySpec

-----------------------------------------------------------------------------
(* Languages, for any locales, chains and number of switches.               *)

\* The states of the provider and of a run of its effect.
LocaleStates ==
  [locale : Locales, active : Shipped, fallbacks : Seq(Shipped), isLoadingLocale : BOOLEAN]
Effects ==
  [locale : Locales, toLoad : Seq(Locales), got : Seq(Shipped), isMounted : BOOLEAN]

\* The shapes the variables keep: a cached dictionary is that of its locale or English.
LocaleShape ==
  /\ i18n \in LocaleStates /\ effects \in Seq(Effects) /\ Len(effects) <= MaxSwitches
  /\ DOMAIN loadedLocales \subseteq Locales
  /\ \A l \in DOMAIN loadedLocales : loadedLocales[l] \in {l, "en"} \cap Shipped
  /\ savedLocale \in Locales \cup {"none"}

\* A run of loadLocale that is not over has the head of its chain, or English in the
\* place of what failed, and the rest to load.
Over(x) == x.toLoad = <<>> /\ x.got = <<>> /\ ~x.isMounted
OnItsWay(x) ==
  /\ Len(x.got) + Len(x.toLoad) = Len(Wanted(x.locale))
  /\ \A i \in 1..Len(x.got) : x.got[i] \in {Wanted(x.locale)[i], "en"}
  /\ \A i \in 1..Len(x.toLoad) : x.toLoad[i] = Wanted(x.locale)[Len(x.got) + i]
RunsSound == \A e \in DOMAIN effects : Over(effects[e]) \/ OnItsWay(effects[e])

\* The mounted run is the only one, and that of the current locale.
OneMounted ==
  \A e \in DOMAIN effects : effects[e].isMounted =>
    /\ i18n.locale = effects[e].locale
    /\ \A d \in DOMAIN effects : effects[d].isMounted => d = e

\* Dictionaries of one locale and its chain.
OfChain(l, primary, others) ==
  /\ primary \in {l, "en"} /\ Len(others) <= Len(LOCALE_FALLBACK_CHAINS[l])
  /\ \A i \in 1..Len(others) : others[i] \in {LOCALE_FALLBACK_CHAINS[l][i], "en"}
\* The texts in use are of one locale, the current one when nothing loads.
ChainInUse == \E l \in Locales : OfChain(l, i18n.active, i18n.fallbacks)
CurrentUnlessLoading ==
  (\A e \in DOMAIN effects : ~effects[e].isMounted) =>
    OfChain(i18n.locale, i18n.active, i18n.fallbacks)

\* What is kept about languages.
LocaleInv ==
  /\ LocaleShape /\ RunsSound /\ OneMounted /\ LoadingShown
  /\ ChainInUse /\ CurrentUnlessLoading

\* What is wanted of a locale begins with its own dictionary.
LEMMA WantedOf ==
  ASSUME NEW l \in Locales
  PROVE  /\ Wanted(l) \in Seq(Locales) /\ Wanted(l)[1] = l
         /\ Len(Wanted(l)) = Len(LOCALE_FALLBACK_CHAINS[l]) + 1
         /\ LOCALE_FALLBACK_CHAINS[l] \in Seq(Locales)
         /\ \A i \in 1..Len(LOCALE_FALLBACK_CHAINS[l]) :
              Wanted(l)[i + 1] = LOCALE_FALLBACK_CHAINS[l][i]
<1>1. LOCALE_FALLBACK_CHAINS[l] \in Seq(Locales)
  BY LocaleAssumption
<1> QED
  BY <1>1 DEF Wanted

\* The cleanups leave the runs as they were, but for being unmounted.
LEMMA UnmountedRuns ==
  ASSUME NEW before \in Seq(Effects)
  PROVE  LET unmounted == [e \in DOMAIN before |-> [before[e] EXCEPT !.isMounted = FALSE]]
         IN  /\ unmounted \in Seq(Effects) /\ Len(unmounted) = Len(before)
             /\ \A e \in DOMAIN before :
                  /\ ~unmounted[e].isMounted /\ unmounted[e].locale = before[e].locale
                  /\ unmounted[e].toLoad = before[e].toLoad /\ unmounted[e].got = before[e].got
<1> DEFINE unmounted == [e \in DOMAIN before |-> [before[e] EXCEPT !.isMounted = FALSE]]
<1>1. \A e \in DOMAIN before : before[e] \in Effects
  OBVIOUS
<1>2. ASSUME NEW x \in Effects
      PROVE  /\ [x EXCEPT !.isMounted = FALSE] \in Effects
             /\ ~[x EXCEPT !.isMounted = FALSE].isMounted
             /\ [x EXCEPT !.isMounted = FALSE].locale = x.locale
             /\ [x EXCEPT !.isMounted = FALSE].toLoad = x.toLoad
             /\ [x EXCEPT !.isMounted = FALSE].got = x.got
  BY DEF Effects
<1>3. DOMAIN before = 1..Len(before) /\ Len(before) \in Nat
  OBVIOUS
<1>4. \A e \in DOMAIN before : unmounted[e] = [before[e] EXCEPT !.isMounted = FALSE]
  OBVIOUS
<1>5. DOMAIN unmounted = 1..Len(before)
  BY <1>3
<1> HIDE DEF unmounted
<1>6. \A e \in DOMAIN before :
         /\ ~unmounted[e].isMounted /\ unmounted[e].locale = before[e].locale
         /\ unmounted[e].toLoad = before[e].toLoad /\ unmounted[e].got = before[e].got
  BY <1>1, <1>2, <1>4
<1>7. unmounted \in [1..Len(before) -> Effects]
  <2>1. \A e \in 1..Len(before) : unmounted[e] \in Effects
    BY <1>1, <1>2, <1>3, <1>4
  <2>2. unmounted = [e \in 1..Len(before) |-> unmounted[e]]
    BY <1>3 DEF unmounted
  <2> QED
    BY <2>1, <2>2
<1>8. unmounted \in Seq(Effects) /\ Len(unmounted) = Len(before)
  <2> DEFINE n == Len(before)
  <2>1. n \in Nat /\ unmounted \in [1..n -> Effects]
    BY <1>3, <1>7
  <2> HIDE DEF n
  <2>2. unmounted \in Seq(Effects) /\ Len(unmounted) = n
    BY <2>1
  <2> QED
    BY <2>2 DEF n
<1> QED
  BY <1>6, <1>8 DEF unmounted

\* A new effect: the runs before are unmounted, and its own is mounted and sound.
LEMMA RunEffectStep ==
  ASSUME NEW l \in Locales, NEW state \in LocaleStates, NEW before \in Seq(Effects),
         RunEffect(l, state, before), Len(before) < MaxSwitches,
         \A e \in DOMAIN before : Over(before[e]) \/ OnItsWay(before[e]),
         \E k \in Locales : OfChain(k, state.active, state.fallbacks)
  PROVE  /\ i18n' \in LocaleStates /\ effects' \in Seq(Effects) /\ Len(effects') <= MaxSwitches
         /\ RunsSound' /\ OneMounted' /\ LoadingShown' /\ ChainInUse' /\ CurrentUnlessLoading'
<1> USE LocaleAssumption
<1> DEFINE unmounted == [e \in DOMAIN before |-> [before[e] EXCEPT !.isMounted = FALSE]]
           run == [locale |-> l, toLoad |-> Wanted(l), got |-> <<>>, isMounted |-> TRUE]
<1>1. /\ unmounted \in Seq(Effects) /\ Len(unmounted) = Len(before)
      /\ \A e \in DOMAIN before :
           /\ ~unmounted[e].isMounted /\ unmounted[e].locale = before[e].locale
           /\ unmounted[e].toLoad = before[e].toLoad /\ unmounted[e].got = before[e].got
  BY UnmountedRuns
<1>2. ASSUME NEW e \in DOMAIN before PROVE Over(unmounted[e]) \/ OnItsWay(unmounted[e])
  <2> HIDE DEF unmounted
  <2>1. CASE Over(before[e])
    BY <1>1, <2>1 DEF Over
  <2>2. CASE OnItsWay(before[e])
    BY <1>1, <2>2 DEF OnItsWay
  <2> QED
    BY <2>1, <2>2
<1> HIDE DEF unmounted
<1>21. /\ DOMAIN before = 1..Len(before) /\ Len(before) \in Nat
       /\ DOMAIN unmounted = 1..Len(before)
  BY <1>1
<1>3. CASE l = "en"
  <2>1. /\ i18n' = [state EXCEPT !.locale = l, !.active = "en", !.fallbacks = <<>>]
        /\ effects' = unmounted
    BY <1>3 DEF RunEffect, unmounted
  <2>2. /\ i18n' \in LocaleStates /\ i18n'.locale = l /\ i18n'.active = "en"
        /\ i18n'.fallbacks = <<>>
    <3>1. <<>> \in Seq(Shipped) /\ "en" \in Shipped /\ "en" \in Locales
      OBVIOUS
    <3> QED
      BY <1>3, <2>1, <3>1 DEF LocaleStates
  <2>3. OfChain(l, i18n'.active, i18n'.fallbacks)
    BY <2>2, WantedOf DEF OfChain
  <2>4. RunsSound'
    BY <1>2, <1>21, <2>1 DEF RunsSound
  <2>5. OneMounted' /\ LoadingShown'
    BY <1>1, <1>21, <2>1 DEF OneMounted, LoadingShown
  <2> QED
    BY <1>1, <2>1, <2>2, <2>3, <2>4, <2>5 DEF ChainInUse, CurrentUnlessLoading
<1>4. CASE l # "en"
  <2>1. /\ i18n' = [state EXCEPT !.locale = l, !.isLoadingLocale = TRUE]
        /\ effects' = Append(unmounted, run)
    BY <1>4 DEF RunEffect, unmounted
  <2>2. /\ i18n' \in LocaleStates /\ i18n'.locale = l /\ i18n'.active = state.active
        /\ i18n'.fallbacks = state.fallbacks /\ i18n'.isLoadingLocale
    BY <2>1 DEF LocaleStates
  <2>3. run \in Effects /\ run.isMounted /\ run.locale = l
    BY WantedOf DEF Effects
  <2>4. OnItsWay(run)
    BY WantedOf DEF OnItsWay
  <2> HIDE DEF run
  <2>5. /\ effects' \in Seq(Effects) /\ Len(effects') = Len(before) + 1
        /\ effects'[Len(before) + 1] = run
        /\ \A e \in 1..Len(before) : effects'[e] = unmounted[e]
    BY <1>1, <2>1, <2>3
  <2>6. DOMAIN effects' = 1..(Len(before) + 1) /\ DOMAIN before = 1..Len(before)
    BY <2>5
  <2>7. RunsSound'
    <3>1. ASSUME NEW e \in DOMAIN effects' PROVE Over(effects'[e]) \/ OnItsWay(effects'[e])
      <4>1. CASE e = Len(before) + 1
        BY <2>4, <2>5, <4>1
      <4>2. CASE e # Len(before) + 1
        <5>1. e \in DOMAIN before /\ effects'[e] = unmounted[e]
          BY <1>21, <2>5, <2>6, <4>2
        <5> QED
          BY <1>2, <5>1
      <4> QED
        BY <4>1, <4>2
    <3> QED
      BY <3>1 DEF RunsSound
  <2>8. \A e \in DOMAIN effects' : effects'[e].isMounted <=> e = Len(before) + 1
    <3>1. \A e \in DOMAIN effects' : e = Len(before) + 1 \/ e \in DOMAIN before
      BY <1>21, <2>6
    <3>2. \A e \in DOMAIN before : ~effects'[e].isMounted
      BY <1>1, <1>21, <2>5
    <3>3. effects'[Len(before) + 1].isMounted /\ Len(before) + 1 \notin DOMAIN before
      BY <1>21, <2>3, <2>5
    <3> QED
      BY <3>1, <3>2, <3>3
  <2>9. OneMounted' /\ LoadingShown'
    BY <2>2, <2>3, <2>5, <2>8 DEF OneMounted, LoadingShown
  <2>10. CurrentUnlessLoading'
    <3>1. Len(before) + 1 \in DOMAIN effects'
      BY <1>21, <2>6
    <3> QED
      BY <2>8, <3>1 DEF CurrentUnlessLoading
  <2> QED
    BY <2>2, <2>5, <2>7, <2>9, <2>10 DEF ChainInUse
<1> QED
  BY <1>3, <1>4

\* One more dictionary of a run.
LEMMA LoadedOne ==
  ASSUME NEW x \in Effects, OnItsWay(x), x.toLoad # <<>>,
         NEW d \in {Head(x.toLoad), "en"} \cap Shipped
  PROVE  LET y == [x EXCEPT !.toLoad = Tail(@), !.got = Append(@, d)]
         IN  y \in Effects /\ OnItsWay(y) /\ y.locale = x.locale /\ y.isMounted = x.isMounted
<1> DEFINE y == [x EXCEPT !.toLoad = Tail(@), !.got = Append(@, d)]
           w == Wanted(x.locale)
<1>1. x.toLoad \in Seq(Locales) /\ x.got \in Seq(Shipped) /\ x.locale \in Locales
  BY DEF Effects
<1>2. /\ Tail(x.toLoad) \in Seq(Locales) /\ Len(Tail(x.toLoad)) = Len(x.toLoad) - 1
      /\ \A i \in 1..(Len(x.toLoad) - 1) : Tail(x.toLoad)[i] = x.toLoad[i + 1]
      /\ Len(x.toLoad) \in Nat \ {0} /\ Head(x.toLoad) = x.toLoad[1]
  BY <1>1
<1>3. /\ Append(x.got, d) \in Seq(Shipped) /\ Len(Append(x.got, d)) = Len(x.got) + 1
      /\ \A i \in 1..Len(x.got) : Append(x.got, d)[i] = x.got[i]
      /\ Append(x.got, d)[Len(x.got) + 1] = d /\ Len(x.got) \in Nat
  BY <1>1
<1>4. /\ y \in Effects /\ y.toLoad = Tail(x.toLoad) /\ y.got = Append(x.got, d)
      /\ y.locale = x.locale /\ y.isMounted = x.isMounted
  BY <1>2, <1>3 DEF Effects
<1> DEFINE g == Len(x.got)
           t == Len(x.toLoad)
           gg == Len(y.got)
           tt == Len(y.toLoad)
<1> HIDE DEF y, w
<1>5. Len(y.got) + Len(y.toLoad) = Len(w)
  <2>1. g + t = Len(w)
    BY DEF OnItsWay, w
  <2>2. tt = t - 1 /\ gg = g + 1 /\ t \in Nat /\ g \in Nat
    BY <1>2, <1>3, <1>4
  <2> HIDE DEF g, t, gg, tt
  <2>3. gg + tt = Len(w)
    BY <2>1, <2>2
  <2> QED
    BY <2>3 DEF gg, tt
<1>6. \A i \in 1..Len(y.got) : y.got[i] \in {w[i], "en"}
  <2>1. x.toLoad[1] = w[Len(x.got) + 1]
    BY <1>2 DEF OnItsWay, w
  <2>2. \A i \in 1..Len(x.got) : x.got[i] \in {w[i], "en"}
    BY DEF OnItsWay, w
  <2> QED
    BY <1>2, <1>3, <1>4, <2>1, <2>2
<1>7. \A i \in 1..Len(y.toLoad) : y.toLoad[i] = w[Len(y.got) + i]
  <2>1. \A i \in 1..Len(x.toLoad) : x.toLoad[i] = w[Len(x.got) + i]
    BY DEF OnItsWay, w
  <2>2. ASSUME NEW i \in 1..Len(y.toLoad) PROVE y.toLoad[i] = w[Len(y.got) + i]
    <3>1. y.toLoad[i] = x.toLoad[i + 1] /\ i + 1 \in 1..Len(x.toLoad)
      BY <1>2, <1>4
    <3>2. x.toLoad[i + 1] = w[Len(x.got) + (i + 1)]
      BY <2>1, <3>1
    <3>3. Len(x.got) + (i + 1) = Len(y.got) + i
      <4>1. gg = g + 1 /\ g \in Nat /\ i \in Nat
        BY <1>2, <1>3, <1>4
      <4> HIDE DEF g, gg
      <4>2. g + (i + 1) = gg + i
        BY <4>1
      <4> QED
        BY <4>2 DEF g, gg
    <3> QED
      BY <3>1, <3>2, <3>3
  <2> QED
    BY <2>2
<1>8. OnItsWay(y)
  BY <1>4, <1>5, <1>6, <1>7 DEF OnItsWay, w
<1> QED
  BY <1>4, <1>8 DEF y

\* The dictionaries of a run that has them all are those of its locale and chain.
LEMMA AllLoaded ==
  ASSUME NEW x \in Effects, OnItsWay(x), x.toLoad = <<>>, x.got # <<>>
  PROVE  /\ OfChain(x.locale, Head(x.got), Tail(x.got))
         /\ Head(x.got) \in Shipped /\ Tail(x.got) \in Seq(Shipped) /\ x.locale \in Locales
<1>1. x.got \in Seq(Shipped) /\ x.locale \in Locales /\ Len(x.toLoad) = 0
  BY DEF Effects
<1>2. /\ Head(x.got) = x.got[1] /\ Head(x.got) \in Shipped /\ Tail(x.got) \in Seq(Shipped)
      /\ Len(Tail(x.got)) = Len(x.got) - 1 /\ Len(x.got) \in Nat \ {0}
      /\ \A i \in 1..(Len(x.got) - 1) : Tail(x.got)[i] = x.got[i + 1]
  BY <1>1
<1>3. /\ Len(x.got) = Len(LOCALE_FALLBACK_CHAINS[x.locale]) + 1
      /\ Len(LOCALE_FALLBACK_CHAINS[x.locale]) \in Nat
  BY <1>1, <1>2, WantedOf DEF OnItsWay
<1>4. x.got[1] \in {x.locale, "en"}
  BY <1>1, <1>2, WantedOf DEF OnItsWay
<1>5. ASSUME NEW i \in 1..Len(Tail(x.got))
      PROVE  Tail(x.got)[i] \in {LOCALE_FALLBACK_CHAINS[x.locale][i], "en"}
  <2>1. i + 1 \in 1..Len(x.got) /\ i \in 1..Len(LOCALE_FALLBACK_CHAINS[x.locale])
    BY <1>2, <1>3
  <2>2. x.got[i + 1] \in {Wanted(x.locale)[i + 1], "en"}
    BY <2>1 DEF OnItsWay
  <2>3. Wanted(x.locale)[i + 1] = LOCALE_FALLBACK_CHAINS[x.locale][i]
    BY <1>1, <2>1, WantedOf
  <2>4. Tail(x.got)[i] = x.got[i + 1]
    BY <1>2
  <2> QED
    BY <2>2, <2>3, <2>4
<1> QED
  BY <1>1, <1>2, <1>3, <1>4, <1>5 DEF OfChain

\* What does not move stays sound.
LEMMA Unmoved ==
  ASSUME LocaleInv, UNCHANGED <<i18n, effects>>
  PROVE  RunsSound' /\ OneMounted' /\ LoadingShown' /\ ChainInUse' /\ CurrentUnlessLoading'
<1>1. RunsSound'
  BY DEF LocaleInv, RunsSound
<1>2. OneMounted' /\ LoadingShown'
  BY DEF LocaleInv, OneMounted, LoadingShown
<1>3. ChainInUse'
  BY DEF LocaleInv, ChainInUse
<1>4. CurrentUnlessLoading'
  BY DEF LocaleInv, CurrentUnlessLoading
<1> QED
  BY <1>1, <1>2, <1>3, <1>4

\* No page load, choice or arrival of a dictionary breaks the invariant.
LEMMA LocaleStep == LocaleInv /\ [LocaleNext]_localeVars => LocaleInv'
<1> SUFFICES ASSUME LocaleInv, [LocaleNext]_localeVars PROVE LocaleInv'
  OBVIOUS
<1> USE LocaleAssumption DEF LocaleInv
<1>0. /\ i18n \in LocaleStates /\ effects \in Seq(Effects) /\ Len(effects) \in Nat
      /\ DOMAIN effects = 1..Len(effects)
      /\ \A e \in DOMAIN effects : effects[e] \in Effects
  BY DEF LocaleShape
<1>1. ASSUME NEW path \in Locales \cup {"none"}, LoadAt(path) PROVE LocaleInv'
  <2> DEFINE l == detectInitialLocale(path, savedLocale)
  <2>1. l \in Locales /\ RunEffect(l, Fresh(l), <<>>)
    BY <1>1 DEF LoadAt, detectInitialLocale
  <2>2. /\ Fresh(l) \in LocaleStates /\ Fresh(l).active = "en" /\ Fresh(l).fallbacks = <<>>
    BY <2>1 DEF Fresh, LocaleStates
  <2>3. OfChain(l, Fresh(l).active, Fresh(l).fallbacks)
    BY <2>1, <2>2, WantedOf DEF OfChain
  <2>4. <<>> \in Seq(Effects) /\ Len(<<>>) = 0 /\ DOMAIN <<>> = {} /\ 0 < MaxSwitches
    OBVIOUS
  <2> HIDE DEF l
  <2>5. /\ i18n' \in LocaleStates /\ effects' \in Seq(Effects) /\ Len(effects') <= MaxSwitches
        /\ RunsSound' /\ OneMounted' /\ LoadingShown' /\ ChainInUse' /\ CurrentUnlessLoading'
    BY <2>1, <2>2, <2>3, <2>4, RunEffectStep
  <2>6. LocaleShape'
    BY <1>1, <2>5 DEF LoadAt, LocaleShape
  <2> QED
    BY <2>5, <2>6
<1>2. ASSUME NEW l \in Locales, setLocale(l) PROVE LocaleInv'
  <2>1. CASE l = i18n.locale
    <3>1. UNCHANGED <<i18n, effects, loadedLocales>> /\ savedLocale' = l
      BY <1>2, <2>1 DEF setLocale
    <3> QED
      BY <3>1, Unmoved DEF LocaleShape
  <2>2. CASE l # i18n.locale
    <3>1. Len(effects) < MaxSwitches /\ RunEffect(l, i18n, effects)
      BY <1>2, <2>2 DEF setLocale
    <3>2. /\ i18n' \in LocaleStates /\ effects' \in Seq(Effects) /\ Len(effects') <= MaxSwitches
          /\ RunsSound' /\ OneMounted' /\ LoadingShown' /\ ChainInUse' /\ CurrentUnlessLoading'
      BY <1>0, <3>1, RunEffectStep DEF RunsSound, ChainInUse
    <3>3. LocaleShape'
      BY <1>2, <3>2 DEF setLocale, LocaleShape
    <3> QED
      BY <3>2, <3>3
  <2> QED
    BY <2>1, <2>2
<1>3. ASSUME NEW e \in DOMAIN effects, loadLocaleDictionary(e) PROVE LocaleInv'
  <2> DEFINE x == effects[e]
  <2>1. x \in Effects /\ x.toLoad # <<>> /\ OnItsWay(x)
    BY <1>0, <1>3 DEF loadLocaleDictionary, RunsSound, Over
  <2>2. Head(x.toLoad) \in Locales
    <3>1. x.toLoad \in Seq(Locales)
      BY <2>1 DEF Effects
    <3> QED
      BY <2>1, <3>1
  <2>3. PICK d \in {Head(x.toLoad), "en"} \cap Shipped :
          /\ effects' = [effects EXCEPT ![e].toLoad = Tail(@), ![e].got = Append(@, d)]
          /\ DOMAIN loadedLocales' \subseteq Locales
          /\ \A l \in DOMAIN loadedLocales' : loadedLocales'[l] \in {l, "en"} \cap Shipped
    <3>1. CASE x.toLoad # <<>> /\ Head(x.toLoad) \in DOMAIN loadedLocales
      BY <1>3, <3>1 DEF loadLocaleDictionary, LocaleShape
    <3>2. CASE Head(x.toLoad) \notin DOMAIN loadedLocales
      <4>1. PICK d \in (Shipped \cap {Head(x.toLoad)}) \cup {"en"} :
              /\ effects' = [effects EXCEPT ![e].toLoad = Tail(@), ![e].got = Append(@, d)]
              /\ loadedLocales' = [k \in DOMAIN loadedLocales \cup {Head(x.toLoad)} |->
                                     IF k = Head(x.toLoad) THEN d ELSE loadedLocales[k]]
        BY <1>3, <3>2 DEF loadLocaleDictionary
      <4>2. d \in {Head(x.toLoad), "en"} \cap Shipped
        OBVIOUS
      <4> HIDE DEF x
      <4>3. /\ DOMAIN loadedLocales' \subseteq Locales
            /\ \A l \in DOMAIN loadedLocales' : loadedLocales'[l] \in {l, "en"} \cap Shipped
        BY <2>2, <4>1, <4>2 DEF LocaleShape
      <4> QED
        BY <4>1, <4>2, <4>3
    <3> QED
      BY <2>1, <3>1, <3>2
  <2> DEFINE y == [x EXCEPT !.toLoad = Tail(@), !.got = Append(@, d)]
  <2>4. effects' = [effects EXCEPT ![e] = y]
    BY <1>0, <2>1, <2>3 DEF Effects
  <2>5. y \in Effects /\ OnItsWay(y) /\ y.locale = x.locale /\ y.isMounted = x.isMounted
    BY <2>1, LoadedOne
  <2> HIDE DEF x, y
  <2>6. /\ effects' \in Seq(Effects) /\ Len(effects') = Len(effects)
        /\ DOMAIN effects' = DOMAIN effects /\ effects'[e] = y
        /\ \A k \in DOMAIN effects \ {e} : effects'[k] = effects[k]
    BY <1>0, <2>4, <2>5
  <2>7. UNCHANGED <<i18n, savedLocale>>
    BY <1>3 DEF loadLocaleDictionary
  <2>8. LocaleShape'
    BY <2>3, <2>6, <2>7 DEF LocaleShape
  <2>9. RunsSound'
    BY <2>5, <2>6 DEF RunsSound
  <2>10. \A k \in DOMAIN effects : /\ effects'[k].isMounted = effects[k].isMounted
                                   /\ effects'[k].locale = effects[k].locale
    BY <2>5, <2>6 DEF x
  <2>11. OneMounted' /\ LoadingShown' /\ ChainInUse' /\ CurrentUnlessLoading'
    BY <2>6, <2>7, <2>10 DEF OneMounted, LoadingShown, ChainInUse, CurrentUnlessLoading
  <2> QED
    BY <2>8, <2>9, <2>11
<1>4. ASSUME NEW e \in DOMAIN effects, SetDictionaries(e) PROVE LocaleInv'
  <2> DEFINE x == effects[e]
             y == [x EXCEPT !.got = <<>>, !.isMounted = FALSE]
  <2>1. x \in Effects /\ x.toLoad = <<>> /\ x.got # <<>> /\ OnItsWay(x)
    BY <1>0, <1>4 DEF SetDictionaries, RunsSound, Over
  <2>2. effects' = [effects EXCEPT ![e] = y]
    BY <1>0, <1>4, <2>1 DEF SetDictionaries, Effects
  <2>3. y \in Effects /\ Over(y)
    <3>1. <<>> \in Seq(Shipped)
      OBVIOUS
    <3> HIDE DEF x
    <3>2. /\ y \in Effects /\ y.toLoad = x.toLoad /\ y.got = <<>> /\ y.isMounted = FALSE
      BY <2>1, <3>1 DEF Effects
    <3> QED
      BY <2>1, <3>2 DEF Over
  <2>4. ~y.isMounted
    BY <2>3 DEF Over
  <2> HIDE DEF y
  <2>5. /\ effects' \in Seq(Effects) /\ Len(effects') = Len(effects)
        /\ DOMAIN effects' = DOMAIN effects /\ effects'[e] = y
        /\ \A k \in DOMAIN effects \ {e} : effects'[k] = effects[k]
    BY <1>0, <2>2, <2>3
  <2>6. RunsSound'
    BY <2>3, <2>5 DEF RunsSound
  <2>7. UNCHANGED <<loadedLocales, savedLocale>>
    BY <1>4 DEF SetDictionaries
  <2>8. CASE x.isMounted
    <3>1. i18n' = [i18n EXCEPT !.active = Head(x.got), !.fallbacks = Tail(x.got),
                               !.isLoadingLocale = FALSE]
      BY <1>4, <2>8 DEF SetDictionaries
    <3>2. /\ OfChain(x.locale, Head(x.got), Tail(x.got))
          /\ Head(x.got) \in Shipped /\ Tail(x.got) \in Seq(Shipped) /\ x.locale \in Locales
      BY <2>1, AllLoaded
    <3>3. x.locale = i18n.locale /\ \A k \in DOMAIN effects : ~effects'[k].isMounted
      BY <2>4, <2>5, <2>8 DEF OneMounted
    <3> HIDE DEF x
    <3>4. /\ i18n' \in LocaleStates /\ i18n'.locale = i18n.locale
          /\ i18n'.active = Head(x.got) /\ i18n'.fallbacks = Tail(x.got)
      BY <1>0, <3>1, <3>2 DEF LocaleStates
    <3>5. OneMounted' /\ LoadingShown' /\ ChainInUse' /\ CurrentUnlessLoading'
      BY <2>5, <3>2, <3>3, <3>4 DEF OneMounted, LoadingShown, ChainInUse, CurrentUnlessLoading
    <3> QED
      BY <2>5, <2>6, <2>7, <3>4, <3>5 DEF LocaleShape
  <2>9. CASE ~x.isMounted
    <3>1. i18n' = i18n
      BY <1>4, <2>9 DEF SetDictionaries
    <3>2. \A k \in DOMAIN effects :
            /\ effects'[k].isMounted <=> effects[k].isMounted
            /\ effects[k].isMounted => effects'[k].locale = effects[k].locale
      BY <2>4, <2>5, <2>9
    <3>3. OneMounted' /\ LoadingShown' /\ ChainInUse' /\ CurrentUnlessLoading'
      BY <2>5, <3>1, <3>2 DEF OneMounted, LoadingShown, ChainInUse, CurrentUnlessLoading
    <3> QED
      BY <2>5, <2>6, <2>7, <3>1, <3>3 DEF LocaleShape
  <2> QED
    BY <2>8, <2>9
<1>5. CASE UNCHANGED localeVars
  BY <1>5, Unmoved DEF localeVars, LocaleShape
<1> QED
  BY <1>1, <1>2, <1>3, <1>4, <1>5 DEF LocaleNext

\* A form that one of the dictionaries in use has is found in a dictionary.
LEMMA SourceFound ==
  ASSUME LocaleShape, NEW form, \E i \in DOMAIN Dictionaries : form \in FormsOf[Dictionaries[i]]
  PROVE  SourceOf(form) # "raw"
<1> DEFINE D == Dictionaries
           I == {i \in 1..Len(D) : form \in FormsOf[D[i]]}
<1>1. D \in Seq(Shipped) /\ Len(D) \in Nat
  <2>1. i18n.active \in Shipped /\ i18n.fallbacks \in Seq(Shipped)
    BY DEF LocaleShape, LocaleStates
  <2> QED
    BY <2>1, LocaleAssumption DEF Dictionaries
<1>2. I # {} /\ I \subseteq 1..Len(D)
  BY <1>1
<1>3. SourceOf(form) = IF (IF I # {} THEN Min(I) ELSE 0) = 0 THEN "raw" ELSE D[IF I # {} THEN Min(I) ELSE 0]
  BY DEF SourceOf, SelectInSeq
<1>4. Min(I) \in I
  BY <1>1, <1>2, LeastPosition
<1>5. SourceOf(form) = D[Min(I)] /\ Min(I) \in 1..Len(D)
  BY <1>1, <1>2, <1>3, <1>4
<1> QED
  BY <1>1, <1>5, LocaleAssumption

\* The plural form chosen is the plain one, or one that a dictionary in use has.
LEMMA KeyFound ==
  ASSUME NEW count
  PROVE  resolvedKey(count) = "base" \/ Has(resolvedKey(count))
<1> DEFINE C == candidateKeys(count)
           I == {i \in 1..Len(C) : Has(C[i])}
<1>1. Len(C) \in Nat
  BY DEF candidateKeys
<1>2. resolvedKey(count) = IF (IF I # {} THEN Min(I) ELSE 0) = 0 THEN "base" ELSE C[IF I # {} THEN Min(I) ELSE 0]
  BY DEF resolvedKey, SelectInSeq
<1>3. CASE I = {}
  BY <1>2, <1>3
<1>4. CASE I # {}
  <2>1. Min(I) \in I
    BY <1>1, <1>4, LeastPosition
  <2> QED
    BY <1>1, <1>2, <1>4, <2>1
<1> QED
  BY <1>3, <1>4

\* What the invariant says of the texts.
LEMMA TextsFollow == LocaleInv => LocaleTypeOK /\ TextsFollowChoice
<1> SUFFICES ASSUME LocaleInv PROVE LocaleTypeOK /\ TextsFollowChoice
  OBVIOUS
<1> USE LocaleAssumption DEF LocaleInv
<1>0. /\ i18n.locale \in Locales /\ i18n.active \in Shipped /\ i18n.fallbacks \in Seq(Shipped)
      /\ DOMAIN i18n.fallbacks = 1..Len(i18n.fallbacks)
  BY DEF LocaleShape, LocaleStates
<1>1. LocaleTypeOK
  <2>1. \A x \in Effects : x.locale \in Locales /\ x.toLoad \in Seq(Locales)
    BY DEF Effects
  <2>2. i18n.isLoadingLocale \in BOOLEAN
    BY DEF LocaleShape, LocaleStates
  <2>3. \A e \in DOMAIN effects : effects[e] \in Effects
    BY DEF LocaleShape
  <2> QED
    BY <1>0, <2>1, <2>2, <2>3 DEF LocaleShape, LocaleTypeOK
<1>2. LatestLocaleWins
  BY <1>0 DEF CurrentUnlessLoading, OfChain, LatestLocaleWins
<1>3. OneChainAtATime
  <2>1. PICK l \in Locales : OfChain(l, i18n.active, i18n.fallbacks)
    BY DEF ChainInUse
  <2>2. LOCALE_FALLBACK_CHAINS[l] \in Seq(Locales)
    OBVIOUS
  <2> QED
    <3>1. /\ Len(i18n.fallbacks) \in Nat /\ Len(LOCALE_FALLBACK_CHAINS[l]) \in Nat
          /\ DOMAIN LOCALE_FALLBACK_CHAINS[l] = 1..Len(LOCALE_FALLBACK_CHAINS[l])
      BY <1>0, <2>2
    <3>2. \A i \in DOMAIN i18n.fallbacks : i \in DOMAIN LOCALE_FALLBACK_CHAINS[l]
      BY <1>0, <2>1, <3>1 DEF OfChain
    <3> QED
      BY <1>0, <2>1, <3>2 DEF OfChain, OneChainAtATime
<1>4. Has("base")
  <2>1. Dictionaries[Len(i18n.fallbacks) + 2] = "en" /\ Len(i18n.fallbacks) + 2 \in DOMAIN Dictionaries
    BY <1>0 DEF Dictionaries
  <2> QED
    BY <2>1 DEF Has
<1>5. NeverRaw
  BY <1>4, KeyFound, SourceFound DEF NeverRaw, Has
<1> QED
  BY <1>1, <1>2, <1>3, <1>5 DEF TextsFollowChoice

\* Through any page loads and choices of languages, whose dictionaries arrive in any
\* order or not at all, for any locales, chains, dictionaries and plural rules: the latest
\* choice wins, its load shows, chains never mix and a key that English has is never
\* shown raw (I18nProvider's effect and its cleanup, loader.ts, t).
THEOREM TextsAlwaysFollowChoice == LocaleSpec => [](LocaleTypeOK /\ TextsFollowChoice)
<1>1. LocaleInit => LocaleInv
  <2> SUFFICES ASSUME LocaleInit PROVE LocaleInv
    OBVIOUS
  <2> USE LocaleAssumption
  <2>1. /\ i18n \in LocaleStates /\ i18n.active = "en" /\ i18n.fallbacks = <<>> /\ i18n.locale = "en"
    BY DEF LocaleInit, Fresh, LocaleStates
  <2>2. effects = <<>> /\ DOMAIN effects = {} /\ effects \in Seq(Effects) /\ Len(effects) = 0
    BY DEF LocaleInit
  <2>3. LocaleShape
    BY <2>1, <2>2 DEF LocaleInit, LocaleShape
  <2>4. OfChain("en", i18n.active, i18n.fallbacks)
    BY <2>1, WantedOf DEF OfChain
  <2> QED
    BY <2>1, <2>2, <2>3, <2>4
    DEF LocaleInv, RunsSound, OneMounted, LoadingShown, ChainInUse, CurrentUnlessLoading
<1> QED
  BY <1>1, LocaleStep, TextsFollow, PTL DEF LocaleSpec

-----------------------------------------------------------------------------
(* Telemetry, for any number of failures, crumbs and measurements.          *)

\* The states of the observers, and what was reported.
VitalsStates == [cls : Nat, inp : Nat, observed : SUBSET Names]
Histories == [raised : Nat, captured : Nat, measured : Seq(Measurements)]

\* The shapes the variables keep.
TelemetryShape ==
  /\ adapter \in {"console", "http", "sentry"}
  /\ thrown \in Seq(Reasons) /\ sending \in Nat
  /\ crumbs \in Seq(Measurements)
  /\ vitals \in VitalsStates
  /\ seen \in Histories

\* The breadcrumbs are the tail of what was measured.
TailLength ==
  Len(crumbs) = IF Len(seen.measured) > maxBreadcrumbs THEN maxBreadcrumbs
                ELSE Len(seen.measured)
TailKept ==
  /\ TailLength
  /\ \A i \in 1..Len(crumbs) :
       crumbs[i] = seen.measured[Len(seen.measured) - Len(crumbs) + i]

\* The worst value so far of a vital that only gets worse, as it is reported.
Worst(v, name) == Rounded(name, IF name = "CLS" THEN v.cls ELSE v.inp)

\* Breadcrumbs carry the rating of their value and stay below the worst one; they
\* are in the order of their values.
CrumbsRated ==
  \A i \in 1..Len(crumbs) : crumbs[i].rating = getRating(crumbs[i].name, crumbs[i].value)
CrumbsBelowWorst ==
  \A i \in 1..Len(crumbs) : crumbs[i].name \in {"CLS", "INP"} =>
    crumbs[i].value <= Worst(vitals, crumbs[i].name)
CrumbsAscend ==
  \A i, j \in 1..Len(crumbs) :
    i < j /\ crumbs[i].name = crumbs[j].name /\ crumbs[i].name \in {"CLS", "INP"} =>
      crumbs[i].value <= crumbs[j].value

\* What is kept about reports and breadcrumbs.
TelemetryInv ==
  /\ TelemetryShape /\ OneReportPerFailure /\ TailKept
  /\ CrumbsRated /\ CrumbsBelowWorst /\ CrumbsAscend

\* The shapes field by field.
LEMMA TelemetryFields ==
  /\ \A m \in Measurements : m.name \in Names /\ m.value \in Nat /\ m.rating \in Ratings
  /\ \A v \in VitalsStates : v.cls \in Nat /\ v.inp \in Nat /\ v.observed \subseteq Names
  /\ \A h \in Histories :
       h.raised \in Nat /\ h.captured \in Nat /\ h.measured \in Seq(Measurements)
<1>1. \A m \in Measurements : m.name \in Names /\ m.value \in Nat /\ m.rating \in Ratings
  BY DEF Measurements
<1>2. \A v \in VitalsStates : v.cls \in Nat /\ v.inp \in Nat /\ v.observed \subseteq Names
  BY DEF VitalsStates
<1>3. \A h \in Histories :
       h.raised \in Nat /\ h.captured \in Nat /\ h.measured \in Seq(Measurements)
  BY DEF Histories
<1> QED
  BY <1>1, <1>2, <1>3

\* A history that grows is one, and grows as it says.
LEMMA HistoryGrows ==
  ASSUME NEW h \in Histories, NEW m \in Measurements
  PROVE  /\ [h EXCEPT !.measured = Append(@, m)] \in Histories
         /\ [h EXCEPT !.measured = Append(@, m)].measured = Append(h.measured, m)
         /\ [h EXCEPT !.measured = Append(@, m)].raised = h.raised
         /\ [h EXCEPT !.measured = Append(@, m)].captured = h.captured
<1>1. Append(h.measured, m) \in Seq(Measurements)
  BY TelemetryFields
<1> QED
  BY <1>1 DEF Histories
\* A failure that is counted leaves the measurements alone.
LEMMA HistoryCounts ==
  ASSUME NEW h \in Histories, NEW k,
         \/ k = [h EXCEPT !.raised = @ + 1] \/ k = [h EXCEPT !.captured = @ + 1]
         \/ k = [h EXCEPT !.raised = @ + 1, !.captured = @ + 1]
  PROVE  /\ k \in Histories /\ k.measured = h.measured
         /\ k = [h EXCEPT !.raised = @ + 1] => k.raised = h.raised + 1 /\ k.captured = h.captured
         /\ k = [h EXCEPT !.captured = @ + 1] => k.raised = h.raised /\ k.captured = h.captured + 1
         /\ k = [h EXCEPT !.raised = @ + 1, !.captured = @ + 1] =>
              k.raised = h.raised + 1 /\ k.captured = h.captured + 1
<1>1. h.raised + 1 \in Nat /\ h.captured + 1 \in Nat /\ h.measured \in Seq(Measurements)
  BY TelemetryFields
<1>2. k \in Histories /\ k.measured = h.measured
  BY <1>1 DEF Histories
<1>3. k = [h EXCEPT !.raised = @ + 1] => k.raised = h.raised + 1 /\ k.captured = h.captured
  BY DEF Histories
<1>4. k = [h EXCEPT !.captured = @ + 1] => k.raised = h.raised /\ k.captured = h.captured + 1
  BY DEF Histories
<1>5. k = [h EXCEPT !.raised = @ + 1, !.captured = @ + 1] =>
        k.raised = h.raised + 1 /\ k.captured = h.captured + 1
  BY DEF Histories
<1> QED
  BY <1>2, <1>3, <1>4, <1>5

\* The shape, as the proofs use it.
LEMMA ShapeFields ==
  ASSUME TelemetryShape
  PROVE  /\ Len(crumbs) \in Nat /\ Len(thrown) \in Nat /\ sending \in Nat
         /\ \A i \in 1..Len(crumbs) : crumbs[i] \in Measurements
         /\ \A i \in 1..Len(crumbs) : crumbs[i].name \in Names /\ crumbs[i].value \in Nat
                                       /\ crumbs[i].rating \in Ratings
         /\ vitals.cls \in Nat /\ vitals.inp \in Nat /\ vitals.observed \subseteq Names
         /\ seen.raised \in Nat /\ seen.captured \in Nat
         /\ seen.measured \in Seq(Measurements) /\ Len(seen.measured) \in Nat
         /\ DOMAIN seen = {"raised", "captured", "measured"}
         /\ DOMAIN vitals = {"cls", "inp", "observed"}
<1>1. /\ Len(crumbs) \in Nat /\ Len(thrown) \in Nat /\ sending \in Nat
      /\ \A i \in 1..Len(crumbs) : crumbs[i] \in Measurements
  BY DEF TelemetryShape
<1>2. \A i \in 1..Len(crumbs) : crumbs[i].name \in Names /\ crumbs[i].value \in Nat
                                       /\ crumbs[i].rating \in Ratings
  BY <1>1, TelemetryFields
<1>3. /\ vitals.cls \in Nat /\ vitals.inp \in Nat /\ vitals.observed \subseteq Names
      /\ seen.raised \in Nat /\ seen.captured \in Nat /\ seen.measured \in Seq(Measurements)
  BY TelemetryFields DEF TelemetryShape
<1>4. Len(seen.measured) \in Nat
  BY <1>3
<1>5. DOMAIN seen = {"raised", "captured", "measured"} /\ DOMAIN vitals = {"cls", "inp", "observed"}
  BY DEF TelemetryShape, Histories, VitalsStates
<1> QED
  BY <1>1, <1>2, <1>3, <1>4, <1>5

\* A measurement is one, rated by its own value.
LEMMA MeasuredIsOne ==
  ASSUME NEW name \in Names, NEW value \in Nat
  PROVE  /\ Measured(name, value) \in Measurements
         /\ Measured(name, value).name = name
         /\ Measured(name, value).value = Rounded(name, value)
         /\ Measured(name, value).rating = getRating(name, Rounded(name, value))
<1>1. Rounded(name, value) \in Nat
  BY DEF Rounded
<1>2. getRating(name, Rounded(name, value)) \in Ratings
  BY DEF getRating, Ratings
<1> QED
  BY <1>1, <1>2 DEF Measured, Measurements

\* A full list drops its oldest: it stays the tail of what was measured, and each of its
\* entries is an earlier one or the new one.
Kept == IF Len(crumbs) + 1 > maxBreadcrumbs THEN 1 ELSE 0
\* A breadcrumb more keeps them the tail of what was measured.
LEMMA TailStep ==
  ASSUME TelemetryShape, TailKept, NEW m \in Measurements, addBreadcrumb(m),
         seen'.measured = Append(seen.measured, m)
  PROVE  /\ TailKept' /\ crumbs' \in Seq(Measurements) /\ Len(crumbs') = Len(crumbs) + 1 - Kept
         /\ Kept \in {0, 1}
         /\ \A i \in 1..Len(crumbs') :
              \/ i + Kept = Len(crumbs) + 1 /\ crumbs'[i] = m
              \/ i + Kept \in 1..Len(crumbs) /\ crumbs'[i] = crumbs[i + Kept]
<1> DEFINE k == Len(crumbs)
           n == Len(seen.measured)
           max == maxBreadcrumbs
           d == Kept
<1>1. /\ k \in Nat /\ n \in Nat /\ max \in Nat \ {0} /\ d \in {0, 1}
      /\ k = (IF n > max THEN max ELSE n) /\ d = (IF k + 1 > max THEN 1 ELSE 0)
      /\ crumbs \in Seq(Measurements) /\ seen.measured \in Seq(Measurements)
  BY ShapeFields, TelemetryAssumption DEF TelemetryShape, TailKept, TailLength, Kept
<1>2. /\ Append(crumbs, m) \in Seq(Measurements) /\ Len(Append(crumbs, m)) = k + 1
      /\ \A i \in 1..k : Append(crumbs, m)[i] = crumbs[i]
      /\ Append(crumbs, m)[k + 1] = m
  BY <1>1
<1>3. /\ crumbs' \in Seq(Measurements) /\ Len(crumbs') = k + 1 - d
      /\ \A i \in 1..(k + 1 - d) : crumbs'[i] = Append(crumbs, m)[i + d]
  <2>1. CASE k + 1 > max
    <3> DEFINE q == Append(crumbs, m)
    <3>1. crumbs' = Tail(q) /\ d = 1
      BY <1>1, <1>2, <2>1 DEF addBreadcrumb
    <3>2. q \in Seq(Measurements) /\ Len(q) = k + 1 /\ k \in Nat /\ q # <<>>
      BY <1>1, <1>2
    <3> HIDE DEF q
    <3>3. /\ Tail(q) \in Seq(Measurements) /\ Len(Tail(q)) = Len(q) - 1
          /\ \A i \in 1..(Len(q) - 1) : Tail(q)[i] = q[i + 1]
      BY <3>2
    <3>4. Len(q) - 1 = k /\ k + 1 - d = k
      <4> HIDE DEF k, d
      <4> QED
        BY <3>1, <3>2
    <3> QED
      BY <3>1, <3>3, <3>4 DEF q
  <2>2. CASE ~(k + 1 > max)
    <3>1. crumbs' = Append(crumbs, m) /\ d = 0
      BY <1>1, <1>2, <2>2 DEF addBreadcrumb
    <3> QED
      BY <1>1, <1>2, <3>1
  <2> QED
    BY <2>1, <2>2
<1>4. /\ Len(seen'.measured) = n + 1 /\ seen'.measured[n + 1] = m
      /\ \A i \in 1..n : seen'.measured[i] = seen.measured[i]
  BY <1>1
<1>5. \A i \in 1..k : crumbs[i] = seen.measured[n - k + i]
  BY DEF TailKept
<1> HIDE DEF k, n, max, d
<1>6. k + 1 - d = (IF n + 1 > max THEN max ELSE n + 1) /\ k <= n
  BY <1>1
<1>7. ASSUME NEW i \in 1..(k + 1 - d)
      PROVE  /\ \/ i + d = k + 1 /\ crumbs'[i] = m
                \/ i + d \in 1..k /\ crumbs'[i] = crumbs[i + d]
             /\ crumbs'[i] = seen'.measured[(n + 1) - (k + 1 - d) + i]
  <2>1. (n + 1) - (k + 1 - d) + i = n - k + (i + d)
    BY <1>1
  <2>2. CASE i + d = k + 1
    <3>1. n - k + (i + d) = n + 1
      BY <1>1, <2>2
    <3>2. crumbs'[i] = m
      BY <1>2, <1>3, <2>2
    <3> QED
      BY <1>4, <2>1, <2>2, <3>1, <3>2
  <2>3. CASE i + d \in 1..k
    <3>1. n - k + (i + d) \in 1..n
      BY <1>1, <1>6, <2>3
    <3>2. crumbs'[i] = crumbs[i + d]
      BY <1>2, <1>3, <2>3
    <3> QED
      BY <1>4, <1>5, <2>1, <2>3, <3>1, <3>2
  <2>4. i + d = k + 1 \/ i + d \in 1..k
    BY <1>1
  <2> QED
    BY <2>2, <2>3, <2>4
<1>9. TailKept'
  BY <1>3, <1>4, <1>6, <1>7 DEF TailKept, TailLength, max
<1> QED
  BY <1>1, <1>3, <1>7, <1>9 DEF k, d

\* A measurement that is no better than those before keeps the breadcrumbs in order.
LEMMA ReportStep ==
  ASSUME TelemetryInv, NEW name \in Names, NEW value \in Nat, Reports(name, value),
         vitals' \in VitalsStates,
         vitals'.cls >= vitals.cls, vitals'.inp >= vitals.inp,
         name = "CLS" => vitals'.cls = value, name = "INP" => vitals'.inp = value
  PROVE  TelemetryInv'
<1> USE TelemetryAssumption DEF TelemetryInv
<1> DEFINE m == Measured(name, value)
           keep == Kept
<1>1. /\ m \in Measurements /\ m.name = name /\ m.value = Rounded(name, value)
      /\ m.rating = getRating(name, m.value)
  BY MeasuredIsOne
<1>2. addBreadcrumb(m)
  BY DEF Reports
<1>3. /\ seen' = [seen EXCEPT !.measured = Append(@, m)]
      /\ UNCHANGED <<adapter, thrown, sending>>
  BY DEF Reports
<1> HIDE DEF m
<1>4. /\ seen'.measured = Append(seen.measured, m) /\ seen'.raised = seen.raised
      /\ seen'.captured = seen.captured
      /\ seen' \in Histories
  <2>1. seen \in Histories
    BY DEF TelemetryShape
  <2> QED
    BY <1>1, <1>3, <2>1, HistoryGrows
<1>5. /\ TailKept' /\ crumbs' \in Seq(Measurements) /\ Len(crumbs') = Len(crumbs) + 1 - keep
      /\ keep \in {0, 1} /\ Len(crumbs) \in Nat
  BY <1>1, <1>2, <1>4, TailStep, ShapeFields
<1>10. \A i \in 1..Len(crumbs') : \/ i + keep = Len(crumbs) + 1 /\ crumbs'[i] = m
                                  \/ i + keep \in 1..Len(crumbs) /\ crumbs'[i] = crumbs[i + keep]
  BY <1>1, <1>2, <1>4, TailStep
<1> HIDE DEF keep
<1>7. TelemetryShape'
  BY <1>3, <1>4, <1>5 DEF TelemetryShape
<1>8. OneReportPerFailure'
  BY <1>3, <1>4 DEF OneReportPerFailure
<1>11. CrumbsRated'
  BY <1>1, <1>10 DEF CrumbsRated
<1>12. \A n \in {"CLS", "INP"} :
         /\ Worst(vitals, n) \in Nat /\ Worst(vitals', n) \in Nat
         /\ Worst(vitals, n) <= Worst(vitals', n)
         /\ name = n => m.value = Worst(vitals', n)
  <2>1. /\ vitals.cls \in Nat /\ vitals.inp \in Nat /\ vitals'.cls \in Nat /\ vitals'.inp \in Nat
    BY ShapeFields, TelemetryFields
  <2>2. Worst(vitals, "CLS") = (vitals.cls + 5) \div 10 /\ Worst(vitals, "INP") = vitals.inp
    BY DEF Worst, Rounded
  <2>3. Worst(vitals', "CLS") = (vitals'.cls + 5) \div 10 /\ Worst(vitals', "INP") = vitals'.inp
    BY DEF Worst, Rounded
  <2>4. name = "CLS" => m.value = (vitals'.cls + 5) \div 10
    BY <1>1 DEF Rounded
  <2>5. name = "INP" => m.value = vitals'.inp
    BY <1>1 DEF Rounded
  <2>6. (vitals.cls + 5) \div 10 \in Nat /\ (vitals'.cls + 5) \div 10 \in Nat
        /\ (vitals.cls + 5) \div 10 <= (vitals'.cls + 5) \div 10
    BY <2>1
  <2> QED
    BY <2>1, <2>2, <2>3, <2>4, <2>5, <2>6
<1>13. \A i \in 1..Len(crumbs) : crumbs[i].value \in Nat
  BY ShapeFields
<1>14. m.value \in Nat
  BY <1>1, TelemetryFields
<1>15. CrumbsBelowWorst'
  <2> SUFFICES ASSUME NEW i \in 1..Len(crumbs'), crumbs'[i].name \in {"CLS", "INP"}
               PROVE  crumbs'[i].value <= Worst(vitals', crumbs'[i].name)
    BY DEF CrumbsBelowWorst
  <2>1. CASE crumbs'[i] = m
    BY <1>1, <1>12, <1>14, <2>1
  <2>2. CASE i + keep \in 1..Len(crumbs) /\ crumbs'[i] = crumbs[i + keep]
    BY <1>12, <1>13, <2>2 DEF CrumbsBelowWorst
  <2> QED
    BY <1>10, <2>1, <2>2
<1>16. CrumbsAscend'
  <2> SUFFICES ASSUME NEW i \in 1..Len(crumbs'), NEW j \in 1..Len(crumbs'), i < j,
                      crumbs'[i].name = crumbs'[j].name, crumbs'[i].name \in {"CLS", "INP"}
               PROVE  crumbs'[i].value <= crumbs'[j].value
    BY DEF CrumbsAscend
  <2>0. Len(crumbs) \in Nat /\ Len(crumbs') \in Nat
    BY <1>5, ShapeFields
  <2>1. i + keep \in 1..Len(crumbs) /\ crumbs'[i] = crumbs[i + keep]
    BY <1>5, <1>10, <2>0
  <2>2. CASE crumbs'[j] = m
    BY <1>1, <1>12, <1>13, <1>14, <2>1, <2>2 DEF CrumbsBelowWorst
  <2>3. CASE j + keep \in 1..Len(crumbs) /\ crumbs'[j] = crumbs[j + keep]
    <3>1. i + keep < j + keep
      BY <1>5, <2>0
    <3> QED
      BY <2>1, <2>3, <3>1 DEF CrumbsAscend
  <2> QED
    BY <1>10, <2>2, <2>3
<1> QED
  BY <1>5, <1>7, <1>8, <1>11, <1>15, <1>16

\* No step of the reporter or of a measurement breaks the invariant.
LEMMA TelemetryStep == TelemetryInv /\ [TelemetryNext]_telemetryVars => TelemetryInv'
<1> SUFFICES ASSUME TelemetryInv, [TelemetryNext]_telemetryVars PROVE TelemetryInv'
  OBVIOUS
<1> USE TelemetryAssumption DEF TelemetryInv
<1>1. ASSUME NEW name \in {"TTFB", "FCP", "FID"}, NEW d \in Durations, ReportOnce(name, d)
      PROVE  TelemetryInv'
  <2>1. /\ vitals' \in VitalsStates
        /\ vitals'.cls = vitals.cls /\ vitals'.inp = vitals.inp
        /\ vitals.cls \in Nat /\ vitals.inp \in Nat
    <3>1. vitals \in VitalsStates
      BY DEF TelemetryShape
    <3>2. vitals.cls \in Nat /\ vitals.inp \in Nat /\ vitals.observed \subseteq Names
      BY ShapeFields
    <3> QED
      BY <1>1, <3>1, <3>2 DEF ReportOnce, VitalsStates, Names
  <2>2. name \in Names /\ name # "CLS" /\ name # "INP" /\ d \in Nat /\ Reports(name, d)
    BY <1>1 DEF ReportOnce, Names
  <2> QED
    BY <2>1, <2>2, ReportStep
<1>2. ASSUME NEW d \in Durations, ReportLCP(d) PROVE TelemetryInv'
  <2>1. /\ vitals' \in VitalsStates
        /\ vitals'.cls = vitals.cls /\ vitals'.inp = vitals.inp
        /\ vitals.cls \in Nat /\ vitals.inp \in Nat
    <3>1. vitals \in VitalsStates
      BY DEF TelemetryShape
    <3>2. vitals.cls \in Nat /\ vitals.inp \in Nat /\ vitals.observed \subseteq Names
      BY ShapeFields
    <3> QED
      BY <1>2, <3>1, <3>2 DEF ReportLCP, VitalsStates
  <2>2. "LCP" \in Names /\ d \in Nat /\ Reports("LCP", d)
    BY <1>2 DEF ReportLCP, Names
  <2> QED
    BY <2>1, <2>2, ReportStep
<1>3. ASSUME NEW d \in Durations, ReportINP(d) PROVE TelemetryInv'
  <2>1. /\ vitals' \in VitalsStates
        /\ vitals'.cls = vitals.cls /\ vitals'.inp = d
        /\ vitals.cls \in Nat /\ vitals.inp \in Nat /\ d > vitals.inp
    <3>1. vitals \in VitalsStates
      BY DEF TelemetryShape
    <3>2. vitals.cls \in Nat /\ vitals.inp \in Nat /\ vitals.observed \subseteq Names
      BY ShapeFields
    <3> QED
      BY <1>3, <3>1, <3>2 DEF ReportINP, VitalsStates
  <2>2. "INP" \in Names /\ d \in Nat /\ Reports("INP", d)
    BY <1>3 DEF ReportINP, Names
  <2> QED
    BY <2>1, <2>2, ReportStep
<1>4. ASSUME NEW s \in Shifts, ReportCLS(s) PROVE TelemetryInv'
  <2>1. /\ vitals' \in VitalsStates
        /\ vitals'.cls = vitals.cls + s /\ vitals'.inp = vitals.inp
        /\ vitals.cls \in Nat /\ vitals.inp \in Nat /\ s \in Nat
    <3>1. vitals \in VitalsStates
      BY DEF TelemetryShape
    <3>2. vitals.cls \in Nat /\ vitals.inp \in Nat /\ vitals.observed \subseteq Names
      BY ShapeFields
    <3> QED
      BY <1>4, <3>1, <3>2 DEF ReportCLS, VitalsStates
  <2>2. "CLS" \in Names /\ vitals.cls + s \in Nat /\ Reports("CLS", vitals.cls + s)
    BY <1>4, <2>1 DEF ReportCLS, Names
  <2>3. vitals'.cls >= vitals.cls /\ vitals'.inp >= vitals.inp
    BY <2>1
  <2> QED
    BY <2>1, <2>2, <2>3, ReportStep
<1>5. ASSUME UNCHANGED <<crumbs, vitals>>, seen'.measured = seen.measured
      PROVE  TailKept' /\ CrumbsRated' /\ CrumbsBelowWorst' /\ CrumbsAscend'
  BY <1>5 DEF TailKept, TailLength, CrumbsRated, CrumbsBelowWorst, CrumbsAscend, Worst
<1>6. ASSUME NEW r \in Reasons, Raise(r) PROVE TelemetryInv'
  <2>1. /\ seen' \in Histories
        /\ seen'.raised = seen.raised + 1 /\ seen'.captured = seen.captured
        /\ seen'.measured = seen.measured
    <3>1. seen \in Histories /\ seen' = [seen EXCEPT !.raised = @ + 1]
      BY <1>6 DEF Raise, TelemetryShape
    <3> QED
      BY <3>1, HistoryCounts
  <2>2. thrown' \in Seq(Reasons) /\ Len(thrown') = Len(thrown) + 1
    BY <1>6 DEF Raise, TelemetryShape
  <2>3. TelemetryShape'
    BY <1>6, <2>1, <2>2 DEF Raise, TelemetryShape
  <2>4. OneReportPerFailure'
    BY <2>1, <2>2, ShapeFields DEF OneReportPerFailure
  <2> QED
    BY <1>5, <1>6, <2>1, <2>3, <2>4 DEF Raise
<1>7. CASE RunListener
  <2>1. Tail(thrown) \in Seq(Reasons) /\ Len(Tail(thrown)) = Len(thrown) - 1
        /\ Len(thrown) \in Nat \ {0}
    BY <1>7 DEF RunListener, TelemetryShape
  <2>2. CASE Head(thrown) = "circular"
    <3>1. thrown' = Append(Tail(thrown), "Error") /\ UNCHANGED <<sending, seen>>
      BY <1>7, <2>2 DEF RunListener
    <3>2. thrown' \in Seq(Reasons) /\ Len(thrown') = Len(thrown)
      BY <2>1, <3>1 DEF Reasons
    <3>3. TelemetryShape' /\ OneReportPerFailure'
      BY <1>7, <3>1, <3>2 DEF RunListener, TelemetryShape, OneReportPerFailure
    <3> QED
      BY <1>5, <1>7, <3>1, <3>3 DEF RunListener
  <2>3. CASE Head(thrown) # "circular"
    <3>1. thrown' = Tail(thrown) /\ sendReport /\ seen' = [seen EXCEPT !.captured = @ + 1]
      BY <1>7, <2>3 DEF RunListener
    <3>2. /\ seen' \in Histories
          /\ seen'.raised = seen.raised /\ seen'.captured = seen.captured + 1
          /\ seen'.measured = seen.measured
      <4>1. seen \in Histories
        BY DEF TelemetryShape
      <4> QED
        BY <3>1, <4>1, HistoryCounts
    <3>3. sending' \in Nat
      BY <3>1 DEF sendReport, TelemetryShape
    <3>4. TelemetryShape'
      BY <1>7, <2>1, <3>1, <3>2, <3>3 DEF RunListener, TelemetryShape
    <3>5. OneReportPerFailure'
      BY <2>1, <3>1, <3>2, ShapeFields DEF OneReportPerFailure
    <3> QED
      BY <1>5, <1>7, <3>2, <3>4, <3>5 DEF RunListener
  <2> QED
    BY <2>2, <2>3
<1>8. CASE captureException
  <2>1. /\ seen' \in Histories
        /\ seen'.raised = seen.raised + 1 /\ seen'.captured = seen.captured + 1
        /\ seen'.measured = seen.measured
    <3>1. seen \in Histories /\ seen' = [seen EXCEPT !.raised = @ + 1, !.captured = @ + 1]
      BY <1>8 DEF captureException, TelemetryShape
    <3> QED
      BY <3>1, HistoryCounts
  <2>2. sending' \in Nat
    BY <1>8 DEF captureException, sendReport, TelemetryShape
  <2>3. TelemetryShape'
    BY <1>8, <2>1, <2>2 DEF captureException, TelemetryShape
  <2>4. OneReportPerFailure'
    BY <1>8, <2>1, ShapeFields DEF captureException, OneReportPerFailure
  <2> QED
    BY <1>5, <1>8, <2>1, <2>3, <2>4 DEF captureException
<1>9. CASE ReportSettled
  <2>1. TelemetryShape' /\ OneReportPerFailure'
    BY <1>9 DEF ReportSettled, TelemetryShape, OneReportPerFailure
  <2> QED
    BY <1>5, <1>9, <2>1 DEF ReportSettled
<1>10. CASE UNCHANGED telemetryVars
  BY <1>5, <1>10 DEF telemetryVars, TelemetryShape, OneReportPerFailure
<1> QED
  BY <1>1, <1>2, <1>3, <1>4, <1>6, <1>7, <1>8, <1>9, <1>10 DEF TelemetryNext

\* A worse value has no better rating.
LEMMA RatingFollows ==
  ASSUME NEW name \in {"CLS", "INP"}, NEW low \in Nat, NEW high \in Nat, low <= high
  PROVE  \/ getRating(name, low) = "good"
         \/ getRating(name, low) = "needs-improvement" /\ getRating(name, high) \in {"needs-improvement", "poor"}
         \/ getRating(name, low) = "poor" /\ getRating(name, high) = "poor"
<1>1. CASE name = "CLS"
  BY <1>1 DEF getRating, Limits
<1>2. CASE name = "INP"
  BY <1>2 DEF getRating, Limits
<1> QED
  BY <1>1, <1>2

\* What the invariant says of the reports.
LEMMA ReportsFollow == TelemetryInv => TelemetryTypeOK /\ ReportsTruthful
<1> SUFFICES ASSUME TelemetryInv PROVE TelemetryTypeOK /\ ReportsTruthful
  OBVIOUS
<1> USE TelemetryAssumption DEF TelemetryInv
<1>1. TelemetryTypeOK
  BY ShapeFields DEF TelemetryTypeOK, TelemetryShape
<1>2. LatestBreadcrumbs
  <2> DEFINE n == Len(seen.measured)
             first == IF n > maxBreadcrumbs THEN n - maxBreadcrumbs + 1 ELSE 1
             last == SubSeq(seen.measured, first, n)
  <2>1. n \in Nat /\ seen.measured \in Seq(Measurements) /\ crumbs \in Seq(Measurements)
    BY ShapeFields DEF TelemetryShape
  <2>2. Len(last) = n - first + 1 /\ \A i \in 1..(n - first + 1) : last[i] = seen.measured[first + i - 1]
    <3>1. first \in 1..(n + 1)
      BY <2>1
    <3> HIDE DEF n, first
    <3>2. n = Len(seen.measured)
      BY DEF n
    <3> QED
      BY <2>1, <3>1, <3>2
  <2>3. Len(crumbs) = n - first + 1 /\ first - 1 = n - Len(crumbs) /\ first \in 1..(n + 1)
    BY <2>1 DEF TailKept, TailLength
  <2>4. last \in Seq(Measurements)
    BY <2>1
  <2>5. \A i \in 1..Len(crumbs) : crumbs[i] = last[i]
    <3> SUFFICES ASSUME NEW i \in 1..Len(crumbs) PROVE crumbs[i] = last[i]
      OBVIOUS
    <3>1. crumbs[i] = seen.measured[n - Len(crumbs) + i]
      BY DEF TailKept
    <3> HIDE DEF last, first, n
    <3>2. n - Len(crumbs) + i = first + i - 1 /\ i \in 1..(n - first + 1)
      BY <2>1, <2>3
    <3> QED
      BY <2>2, <3>1, <3>2
  <2>6. crumbs = last
    <3>1. Len(crumbs) = Len(last) /\ crumbs \in Seq(Measurements)
      BY <2>1, <2>2, <2>3
    <3> HIDE DEF last
    <3> QED
      BY <2>4, <2>5, <3>1
  <2> QED
    BY <2>6 DEF LatestBreadcrumbs
<1>3. VitalsOnlyWorsen
  <2>1. ASSUME NEW i \in 1..Len(crumbs), NEW j \in 1..Len(crumbs), i < j,
               crumbs[i].name = crumbs[j].name, crumbs[i].name \in {"CLS", "INP"}
        PROVE  /\ crumbs[i].value <= crumbs[j].value
               /\ \/ crumbs[i].rating = "good" /\ crumbs[j].rating \in Ratings
                  \/ crumbs[i].rating = "needs-improvement"
                     /\ crumbs[j].rating \in {"needs-improvement", "poor"}
                  \/ crumbs[i].rating = "poor" /\ crumbs[j].rating = "poor"
    <3>1. crumbs[i].value \in Nat /\ crumbs[j].value \in Nat /\ crumbs[j].rating \in Ratings
      BY ShapeFields
    <3>2. crumbs[i].value <= crumbs[j].value
      BY <2>1 DEF CrumbsAscend
    <3> QED
      BY <2>1, <3>1, <3>2, RatingFollows DEF CrumbsRated
  <2>2. DOMAIN crumbs = 1..Len(crumbs)
    BY DEF TelemetryShape
  <2> QED
    BY <2>1, <2>2 DEF VitalsOnlyWorsen, Ratings
<1> QED
  BY <1>1, <1>2, <1>3 DEF ReportsTruthful

\* However failures and measurements come, a failure is reported once, the breadcrumbs
\* are the latest measurements, and a vital's rating never improves.
THEOREM ReportsStayTruthful == TelemetrySpec => [](TelemetryTypeOK /\ ReportsTruthful)
<1>1. TelemetryInit => TelemetryInv
  BY TelemetryAssumption DEF TelemetryInit, TelemetryInv, TelemetryShape, TailKept, TailLength,
     OneReportPerFailure, VitalsStates, Histories, CrumbsRated, CrumbsBelowWorst, CrumbsAscend
<1> QED
  BY <1>1, TelemetryStep, ReportsFollow, PTL DEF TelemetrySpec

-----------------------------------------------------------------------------
(* The service worker and a tab, for any number of releases and retries.    *)

\* The caches, the writes under way, and the states of server, worker and page.
Kinds == {"static", "runtime"}
Stores == [version : Releases, kind : Kinds, held : SUBSET Entries]
Writes == [kind : Kinds, entry : Entries]
Servers == [online : BOOLEAN, release : Releases, cacheVersion : Releases]
Workers == [installing : Releases \cup {0}, installed : BOOLEAN, active : Releases \cup {0}]
Pages ==
  [stage : {"closed", "document", "running", "blank"}, release : Releases \cup {NoRelease},
   path : LazyPages, controlled : BOOLEAN, lazy : [LazyPages -> Lazies],
   attemptsLeft : [LazyPages -> 0 .. ImportRetries], prefetched : SUBSET LazyPages,
   hasError : BOOLEAN, wasOffline : BOOLEAN, showRestored : BOOLEAN, timer : BOOLEAN]

\* Each cache is there once, and none is older than a version.
StoresSound(st) ==
  /\ st \in Seq(Stores)
  /\ \A i, j \in 1..Len(st) :
       st[i].version = st[j].version /\ st[i].kind = st[j].kind => i = j
\* No cache is older than a version.
NoneOlder(st, version) == \A i \in 1..Len(st) : st[i].version >= version

\* The static cache of a version has the start page.
HasShell(st, version) ==
  \E i \in 1..Len(st) : IsStore(st[i], version, "static") /\ HoldsDocument(st[i], "/")

\* The active worker is not newer than the one being installed, and that one not newer
\* than the server; who is active, or about to be, has the start page.
WorkerSound(w, sv, st) ==
  /\ sv.cacheVersion <= sv.release /\ w.active <= sv.cacheVersion /\ w.installing <= sv.cacheVersion
  /\ w.installing # 0 => w.active <= w.installing
  /\ w.installed => w.installing # 0 /\ HasShell(st, w.installing)
  /\ w.active # 0 => HasShell(st, w.active)
  /\ NoneOlder(st, w.active)

\* A page that runs has a release; only one that runs shows anything.
PageSound(p) ==
  /\ p.stage \in {"document", "running"} => p.release \in Releases
  /\ p.stage = "running" => (p.hasError <=> p.lazy[p.path] = "rejected")
  /\ p.showRestored => p.stage = "running" /\ p.wasOffline

\* What is kept about caches, worker and page.
OfflineInv ==
  /\ server \in Servers /\ worker \in Workers /\ StoresSound(stores)
  /\ puts \subseteq Writes /\ page \in Pages
  /\ WorkerSound(worker, server, stores) /\ PageSound(page) /\ RestoredMessageEnds
  /\ page.controlled \/ puts # {} => worker.active # 0

\* The numbers behind the releases.
LEMMA ReleaseNumbers ==
  /\ MaxReleases \in Nat \ {0} /\ 1 \in Releases
  /\ \A r \in Releases : r \in Nat /\ r # 0 /\ r # NoRelease /\ r <= MaxReleases
  /\ \A n \in Nat \ {0} : n <= MaxReleases => n \in Releases
BY OfflineAssumption DEF Releases, NoRelease

\* The fields of a cache.
LEMMA StoreFields ==
  ASSUME NEW s \in Stores
  PROVE  s.version \in Releases /\ s.kind \in Kinds /\ s.held \in SUBSET Entries
BY DEF Stores

\* Opening a cache leaves the others, and the cache is there once.
LEMMA OpenedSound ==
  ASSUME StoresSound(stores), NEW version \in Releases, NEW kind \in Kinds
  PROVE  LET o == Opened(version, kind)
         IN  /\ StoresSound(o) /\ Len(stores) <= Len(o)
             /\ \A i \in 1..Len(stores) : o[i] = stores[i]
             /\ \A i \in 1..Len(o) : i \in 1..Len(stores) \/ o[i].version = version
             /\ \E i \in 1..Len(o) : IsStore(o[i], version, kind)
<1> DEFINE o == Opened(version, kind)
           e == [version |-> version, kind |-> kind, held |-> {}]
           n == Len(stores)
<1>0. stores \in Seq(Stores) /\ n \in Nat /\ DOMAIN stores = 1..n
  BY DEF StoresSound
<1>1. CASE \E i \in 1..n : IsStore(stores[i], version, kind)
  <2>1. o = stores
    BY <1>0, <1>1 DEF Opened
  <2> QED
    BY <1>0, <1>1, <2>1
<1>2. CASE ~\E i \in 1..n : IsStore(stores[i], version, kind)
  <2>1. o = Append(stores, e)
    BY <1>0, <1>2 DEF Opened
  <2>2. e \in Stores /\ e.version = version /\ e.kind = kind
    BY DEF Stores
  <2> HIDE DEF e, o
  <2>3. /\ o \in Seq(Stores) /\ Len(o) = n + 1 /\ o[n + 1] = e
        /\ \A i \in 1..n : o[i] = stores[i]
    BY <1>0, <2>1, <2>2
  <2>4. ASSUME NEW i \in 1..(n + 1), NEW j \in 1..(n + 1),
               o[i].version = o[j].version, o[i].kind = o[j].kind
        PROVE  i = j
    <3>1. /\ i = n + 1 \/ i \in 1..n
          /\ j = n + 1 \/ j \in 1..n
      BY <1>0
    <3>2. \A h \in 1..n : stores[h].version # version \/ stores[h].kind # kind
      BY <1>2 DEF IsStore
    <3> QED
      BY <2>2, <2>3, <2>4, <3>1, <3>2 DEF StoresSound
  <2>5. StoresSound(o)
    BY <2>3, <2>4 DEF StoresSound
  <2>6. n <= n + 1 /\ n + 1 \in 1..(n + 1) /\ \A i \in 1..(n + 1) : i \in 1..n \/ i = n + 1
    BY <1>0
  <2> QED
    BY <2>2, <2>3, <2>5, <2>6 DEF IsStore, o
<1> QED
  BY <1>1, <1>2

\* Writing to a cache leaves the others, and the start page where it was.
LEMMA PutSound ==
  ASSUME StoresSound(stores), NEW version \in Releases, NEW kind \in Kinds, NEW entry \in Entries
  PROVE  LET o == PutIn(version, kind, entry)
         IN  /\ StoresSound(o)
             /\ \A v : HasShell(stores, v) => HasShell(o, v)
             /\ \A v : NoneOlder(stores, v) /\ v <= version => NoneOlder(o, v)
             /\ kind = "static" /\ entry.type = "document" /\ entry.of = "/"
                  => HasShell(o, version)
<1> DEFINE q == Opened(version, kind)
           o == PutIn(version, kind, entry)
           n == Len(q)
           Written(s) == [s EXCEPT !.held = {e \in s.held : ~SameAddress(e, entry)} \cup {entry}]
<1>1. /\ StoresSound(q) /\ Len(stores) <= n
      /\ \A i \in 1..Len(stores) : q[i] = stores[i]
      /\ \A i \in 1..n : i \in 1..Len(stores) \/ q[i].version = version
      /\ \E i \in 1..n : IsStore(q[i], version, kind)
  BY OpenedSound
<1> HIDE DEF q
<1>2. q \in Seq(Stores) /\ n \in Nat /\ DOMAIN q = 1..n /\ Len(stores) \in Nat
  BY <1>1 DEF StoresSound
<1>3. \A i \in 1..n : q[i] \in Stores
  BY <1>2
<1>4. \A s \in Stores :
        /\ Written(s) \in Stores /\ Written(s).version = s.version /\ Written(s).kind = s.kind
        /\ entry \in Written(s).held
        /\ HoldsDocument(s, "/") => HoldsDocument(Written(s), "/")
  <2> SUFFICES ASSUME NEW s \in Stores
               PROVE  /\ Written(s) \in Stores /\ Written(s).version = s.version
                      /\ Written(s).kind = s.kind /\ entry \in Written(s).held
                      /\ HoldsDocument(s, "/") => HoldsDocument(Written(s), "/")
    OBVIOUS
  <2> DEFINE h == {e \in s.held : ~SameAddress(e, entry)} \cup {entry}
  <2>1. h \in SUBSET Entries
    BY StoreFields
  <2>2. Written(s) = [s EXCEPT !.held = h]
    BY DEF Stores
  <2>3. entry \in h
    OBVIOUS
  <2>4. ASSUME NEW e \in s.held, e.type = "document", e.of = "/"
        PROVE  \E f \in h : f.type = "document" /\ f.of = "/"
    BY <2>4 DEF SameAddress
  <2> HIDE DEF h
  <2>5. /\ Written(s) \in Stores /\ Written(s).version = s.version
        /\ Written(s).kind = s.kind /\ Written(s).held = h
    BY <2>1, <2>2 DEF Stores
  <2> QED
    BY <2>3, <2>4, <2>5 DEF HoldsDocument
<1>5. o = [i \in 1..n |-> IF IsStore(q[i], version, kind) THEN Written(q[i]) ELSE q[i]]
  BY <1>2 DEF PutIn, q
<1> HIDE DEF o, Written
<1>6. /\ DOMAIN o = 1..n
      /\ \A i \in 1..n : o[i] = IF IsStore(q[i], version, kind) THEN Written(q[i]) ELSE q[i]
  BY <1>5
<1>7. \A i \in 1..n : /\ o[i] \in Stores /\ o[i].version = q[i].version /\ o[i].kind = q[i].kind
                      /\ HoldsDocument(q[i], "/") => HoldsDocument(o[i], "/")
  BY <1>3, <1>4, <1>6
<1>8. o \in Seq(Stores) /\ Len(o) = n
  <2>1. o \in [1..n -> Stores]
    BY <1>5, <1>6, <1>7
  <2> HIDE DEF n
  <2> QED
    BY <1>2, <2>1
<1>9. StoresSound(o)
  BY <1>1, <1>7, <1>8 DEF StoresSound
<1>10. ASSUME NEW v, HasShell(stores, v) PROVE HasShell(o, v)
  <2>1. PICK i \in 1..Len(stores) : IsStore(stores[i], v, "static") /\ HoldsDocument(stores[i], "/")
    BY <1>10 DEF HasShell
  <2>2. i \in 1..n
    BY <1>1, <1>2
  <2> QED
    BY <1>1, <1>7, <1>8, <2>1, <2>2 DEF HasShell, IsStore
<1>11. ASSUME NEW v, NoneOlder(stores, v), v <= version PROVE NoneOlder(o, v)
  <2> SUFFICES ASSUME NEW i \in 1..n PROVE o[i].version >= v
    BY <1>8 DEF NoneOlder
  <2>1. CASE i \in 1..Len(stores)
    BY <1>1, <1>7, <1>11, <2>1 DEF NoneOlder
  <2>2. CASE o[i].version = version
    BY <1>11, <2>2
  <2> QED
    BY <1>1, <1>7, <2>1, <2>2
<1>12. ASSUME kind = "static", entry.type = "document", entry.of = "/" PROVE HasShell(o, version)
  <2>1. PICK i \in 1..n : IsStore(q[i], version, kind)
    BY <1>1
  <2>2. entry \in o[i].held /\ IsStore(o[i], version, "static")
    BY <1>3, <1>4, <1>6, <1>7, <1>12, <2>1 DEF IsStore
  <2> QED
    BY <1>8, <1>12, <2>2 DEF HasShell, HoldsDocument
<1> QED
  BY <1>9, <1>10, <1>11, <1>12 DEF o

\* What stays of the caches when a version takes over.
LEMMA CachesOfSound ==
  ASSUME StoresSound(stores), NEW version \in Releases, HasShell(stores, version)
  PROVE  /\ StoresSound(CachesOf(version)) /\ HasShell(CachesOf(version), version)
         /\ NoneOlder(CachesOf(version), version)
<1> DEFINE n == Len(stores)
           At(kind) == {i \in 1..n : IsStore(stores[i], version, kind)}
           a == CachePosition(version, "static")
           b == CachePosition(version, "runtime")
           c == CachesOf(version)
<1>0. stores \in Seq(Stores) /\ n \in Nat
  BY DEF StoresSound
<1>1. \A kind \in Kinds : CachePosition(version, kind) = IF At(kind) # {} THEN Min(At(kind)) ELSE 0
  BY DEF CachePosition, SelectInSeq
<1>2. ASSUME NEW kind \in Kinds, At(kind) # {}
      PROVE  CachePosition(version, kind) \in At(kind)
  <2>1. At(kind) \in SUBSET (1..n)
    OBVIOUS
  <2> HIDE DEF At
  <2> QED
    BY <1>0, <1>1, <1>2, <2>1, LeastPosition
<1>3. PICK i \in 1..n : IsStore(stores[i], version, "static") /\ HoldsDocument(stores[i], "/")
  BY DEF HasShell
<1>4. a = i
  <2>1. "static" \in Kinds /\ i \in At("static")
    BY <1>3 DEF Kinds
  <2>2. a \in At("static")
    BY <1>2, <2>1
  <2> QED
    BY <1>3, <2>2 DEF StoresSound, IsStore
<1>5. b = 0 \/ (b \in 1..n /\ IsStore(stores[b], version, "runtime"))
  <2>1. "runtime" \in Kinds
    BY DEF Kinds
  <2> QED
    BY <1>1, <1>2, <2>1
<1> HIDE DEF At, a, b
<1> DEFINE x == stores[a]
           y == stores[b]
<1>6. /\ x \in Stores /\ x.version = version /\ x.kind = "static" /\ HoldsDocument(x, "/")
      /\ b # 0 => y \in Stores /\ y.version = version /\ y.kind = "runtime"
  BY <1>0, <1>3, <1>4, <1>5 DEF IsStore
<1>7. c = <<x>> \/ (b # 0 /\ (c = <<x, y>> \/ c = <<y, x>>))
  <2>1. a \in 1..n /\ a # 0
    BY <1>3, <1>4
  <2>2. c = LET at(k) == IF k = 0 THEN <<>> ELSE <<stores[k]>>
            IN IF a <= b THEN at(a) \o at(b) ELSE at(b) \o at(a)
    BY DEF CachesOf, a, b
  <2> HIDE DEF c, x, y
  <2>3. /\ <<x>> \o <<>> = <<x>> /\ <<>> \o <<x>> = <<x>>
        /\ <<x>> \o <<y>> = <<x, y>> /\ <<y>> \o <<x>> = <<y, x>>
    <3>1. ASSUME NEW s PROVE <<s>> \o <<>> = <<s>> /\ <<>> \o <<s>> = <<s>>
      <4>1. <<s>> \in Seq({s})
        OBVIOUS
      <4> QED
        BY <4>1, ConcatEmptySeq
    <3>2. ASSUME NEW s, NEW u PROVE <<s>> \o <<u>> = <<s, u>>
      <4> DEFINE p == <<s>>
                 q == <<u>>
                 r == p \o q
      <4>1. p \in Seq({s, u}) /\ q \in Seq({s, u}) /\ Len(p) = 1 /\ Len(q) = 1
        OBVIOUS
      <4>2. p[1] = s /\ q[1] = u
        OBVIOUS
      <4> HIDE DEF p, q
      <4>3. r \in Seq({s, u}) /\ Len(r) = 2 /\ r[1] = s /\ r[2] = u
        <5>1. /\ r \in Seq({s, u}) /\ Len(r) = Len(p) + Len(q)
              /\ \A k \in 1 .. Len(p) + Len(q) :
                   r[k] = IF k <= Len(p) THEN p[k] ELSE q[k - Len(p)]
          BY <4>1, ConcatProperties
        <5> HIDE DEF r
        <5> QED
          BY <4>1, <4>2, <5>1
      <4> HIDE DEF r
      <4>4. r = <<s, u>>
        BY <4>3
      <4> QED
        BY <4>4 DEF p, q, r
    <3> QED
      BY <3>1, <3>2
  <2>4. c = <<x>> \o <<>> \/ c = <<>> \o <<x>>
          \/ (b # 0 /\ (c = <<x>> \o <<y>> \/ c = <<y>> \o <<x>>))
    BY <2>1, <2>2 DEF x, y
  <2> QED
    BY <2>3, <2>4
<1> HIDE DEF c, x, y
<1>8. c \in Seq(Stores)
  <2>1. \A s \in Stores : <<s>> \in Seq(Stores)
    OBVIOUS
  <2>2. \A s, t \in Stores : <<s, t>> \in Seq(Stores)
    OBVIOUS
  <2> QED
    BY <1>6, <1>7, <2>1, <2>2
<1>9. CASE c = <<x>>
  <2>1. Len(c) = 1 /\ c[1] = x
    BY <1>9
  <2>2. version >= version
    BY ReleaseNumbers
  <2> QED
    BY <1>6, <1>8, <2>1, <2>2 DEF StoresSound, HasShell, NoneOlder, IsStore, c
<1>10. ASSUME NEW k \in {1, 2}, Len(c) = 2, c[k] = x, c[3 - k] = y, b # 0
       PROVE  StoresSound(c) /\ HasShell(c, version) /\ NoneOlder(c, version)
  <2>1. \A j \in 1..2 : c[j].version = version /\ (c[j].kind = "static" <=> j = k)
    BY <1>6, <1>10
  <2>2. version >= version
    BY ReleaseNumbers
  <2>3. StoresSound(c)
    BY <1>8, <1>10, <2>1 DEF StoresSound
  <2>4. HasShell(c, version)
    BY <1>6, <1>10, <2>1 DEF HasShell, IsStore
  <2> QED
    BY <1>10, <2>1, <2>2, <2>3, <2>4 DEF NoneOlder
<1>11. CASE b # 0 /\ c = <<x, y>>
  <2>1. Len(c) = 2 /\ c[1] = x /\ c[3 - 1] = y
    BY <1>11
  <2> QED
    BY <1>10, <1>11, <2>1 DEF c
<1>12. CASE b # 0 /\ c = <<y, x>>
  <2>1. Len(c) = 2 /\ c[2] = x /\ c[3 - 2] = y
    BY <1>12
  <2> QED
    BY <1>10, <1>12, <2>1 DEF c
<1> QED
  BY <1>7, <1>9, <1>11, <1>12

\* Some cache with the page has it in the first of them.
LEMMA MatchingFound ==
  ASSUME StoresSound(stores), NEW path
  PROVE  /\ Matching(path) \in Releases \cup {NoRelease}
         /\ (\E i \in 1..Len(stores) : HoldsDocument(stores[i], path)) => Matching(path) # NoRelease
<1> DEFINE n == Len(stores)
           hits == {i \in 1..n : HoldsDocument(stores[i], path)}
           first == CHOOSE i \in hits : \A j \in hits : i <= j
           found == {e \in stores[first].held : e.type = "document" /\ e.of = path}
<1>0. stores \in Seq(Stores) /\ n \in Nat /\ DOMAIN stores = 1..n
  BY DEF StoresSound
<1>1. Matching(path) = IF hits = {} THEN NoRelease
                       ELSE (CHOOSE e \in stores[first].held :
                               e.type = "document" /\ e.of = path).release
  BY <1>0 DEF Matching
<1>2. CASE hits = {}
  BY <1>1, <1>2
<1>3. CASE hits # {}
  <2>1. first = Min(hits)
    BY DEF Min
  <2>2. hits \in SUBSET (1..n)
    OBVIOUS
  <2>3. first \in hits
    <3> HIDE DEF hits, first
    <3> QED
      BY <1>0, <1>3, <2>1, <2>2, LeastPosition
  <2> HIDE DEF first
  <2>4. HoldsDocument(stores[first], path) /\ stores[first] \in Stores
    BY <1>0, <2>3
  <2>5. PICK e \in stores[first].held : e.type = "document" /\ e.of = path
    BY <2>4 DEF HoldsDocument
  <2> DEFINE d == CHOOSE f \in stores[first].held : f.type = "document" /\ f.of = path
  <2>6. d \in stores[first].held
    BY <2>5
  <2>7. d \in Entries
    <3> HIDE DEF d
    <3> QED
      BY <2>4, <2>6, StoreFields
  <2>8. Matching(path) = d.release
    BY <1>1, <1>3
  <2> HIDE DEF d
  <2>9. d.release \in Releases
    BY <2>7 DEF Entries
  <2> QED
    BY <2>8, <2>9, ReleaseNumbers
<1> QED
  BY <1>2, <1>3

\* The fields of a page.
LEMMA PageFields ==
  ASSUME NEW p \in Pages
  PROVE  /\ p.stage \in {"closed", "document", "running", "blank"}
         /\ p.release \in Releases \cup {NoRelease} /\ p.path \in LazyPages
         /\ p.controlled \in BOOLEAN /\ p.lazy \in [LazyPages -> Lazies]
         /\ p.attemptsLeft \in [LazyPages -> 0 .. ImportRetries]
         /\ p.prefetched \in SUBSET LazyPages /\ p.hasError \in BOOLEAN
         /\ p.wasOffline \in BOOLEAN /\ p.showRestored \in BOOLEAN /\ p.timer \in BOOLEAN
BY DEF Pages

\* A page that needs a component shows its error, if it has one.
LEMMA RenderedSound ==
  ASSUME NEW p \in Pages, NEW path \in LazyPages
  PROVE  LET r == Rendered(p, path)
         IN  /\ r \in Pages /\ (r.hasError <=> r.lazy[r.path] = "rejected")
             /\ r.stage = p.stage /\ r.release = p.release /\ r.controlled = p.controlled
             /\ r.wasOffline = p.wasOffline /\ r.showRestored = p.showRestored
             /\ r.timer = p.timer
<1> DEFINE l == [p.lazy EXCEPT ![path] = IF p.lazy[path] = "unloaded" THEN "pending"
                                         ELSE p.lazy[path]]
           a == [p.attemptsLeft EXCEPT ![path] = IF p.lazy[path] = "unloaded" THEN ImportRetries
                                                 ELSE p.attemptsLeft[path]]
           e == p.lazy[path] = "rejected"
           r == Rendered(p, path)
<1>0. p.lazy \in [LazyPages -> Lazies] /\ p.attemptsLeft \in [LazyPages -> 0 .. ImportRetries]
  BY PageFields
<1>1. r = [p EXCEPT !.path = path, !.hasError = e, !.lazy = l, !.attemptsLeft = a]
  BY DEF Rendered, Pages
<1>2. l \in [LazyPages -> Lazies]
  BY <1>0 DEF Lazies
<1>3. a \in [LazyPages -> 0 .. ImportRetries]
  <2>1. ImportRetries \in 0 .. ImportRetries
    BY OfflineAssumption
  <2> QED
    BY <1>0, <2>1
<1>4. e \in BOOLEAN
  OBVIOUS
<1>5. e <=> l[path] = "rejected"
  BY <1>0
<1> HIDE DEF l, a, e, r
<1>6. r \in Pages
  BY <1>1, <1>2, <1>3, <1>4 DEF Pages
<1>7. /\ r.path = path /\ r.lazy = l /\ r.hasError = e
      /\ r.stage = p.stage /\ r.release = p.release /\ r.controlled = p.controlled
      /\ r.wasOffline = p.wasOffline /\ r.showRestored = p.showRestored /\ r.timer = p.timer
  BY <1>1 DEF Pages
<1> QED
  BY <1>5, <1>6, <1>7 DEF r

\* What is written when a script was fetched.
LEMMA FetchedSound ==
  ASSUME OfflineInv, NEW of \in LazyPages \cup {"main"}, page.stage \in {"document", "running"},
         ScriptFetched(of)
  PROVE  puts' \subseteq Writes /\ (puts' # {} => worker.active # 0)
<1> DEFINE e == [type |-> "script", of |-> of, release |-> page.release]
           w == [kind |-> "static", entry |-> e]
<1>1. page.release \in Releases
  BY DEF OfflineInv, PageSound
<1>2. e \in Entries
  BY <1>1 DEF Entries
<1> HIDE DEF e
<1>3. w \in Writes
  BY <1>2 DEF Writes, Kinds
<1>4. puts' = puts \/ (page.controlled /\ puts' = puts \cup {w})
  BY DEF ScriptFetched, e
<1> HIDE DEF w
<1> QED
  BY <1>3, <1>4 DEF OfflineInv

\* A step of the page alone.
LEMMA PageMoves ==
  ASSUME OfflineInv, UNCHANGED <<server, worker, stores>>, NEW p \in Pages, page' = p,
         PageSound(p), server.online /\ p.showRestored => p.timer,
         p.controlled => worker.active # 0,
         puts' \subseteq Writes, puts' # {} => worker.active # 0
  PROVE  OfflineInv'
BY DEF OfflineInv, RestoredMessageEnds

\* A step of the worker alone, which leaves the page but for what it controls.
LEMMA WorkerMoves ==
  ASSUME OfflineInv, UNCHANGED server, worker' \in Workers, StoresSound(stores'),
         WorkerSound(worker', server, stores'), worker.active # 0 => worker'.active # 0,
         puts' \subseteq puts,
         page' = page \/ (worker'.active # 0 /\ \E b \in BOOLEAN : page' = [page EXCEPT !.controlled = b])
  PROVE  OfflineInv'
<1>1. puts' \subseteq Writes /\ (puts' # {} => worker'.active # 0)
  BY DEF OfflineInv
<1>2. /\ page' \in Pages /\ PageSound(page') /\ (page'.controlled => worker'.active # 0)
      /\ page'.stage = page.stage /\ page'.showRestored = page.showRestored
      /\ page'.timer = page.timer
  <2>1. CASE page' = page
    BY <2>1 DEF OfflineInv
  <2>2. ASSUME worker'.active # 0, NEW b \in BOOLEAN, page' = [page EXCEPT !.controlled = b]
        PROVE  /\ page' \in Pages /\ PageSound(page')
               /\ (page'.controlled => worker'.active # 0)
               /\ page'.stage = page.stage /\ page'.showRestored = page.showRestored
               /\ page'.timer = page.timer
    <3>1. page \in Pages /\ PageSound(page)
      BY DEF OfflineInv
    <3>2. /\ page' \in Pages /\ page'.stage = page.stage /\ page'.showRestored = page.showRestored
          /\ page'.timer = page.timer /\ page'.release = page.release
          /\ page'.hasError = page.hasError /\ page'.lazy = page.lazy /\ page'.path = page.path
          /\ page'.wasOffline = page.wasOffline
      BY <2>2, <3>1 DEF Pages
    <3> QED
      BY <2>2, <3>1, <3>2 DEF PageSound
  <2> QED
    BY <2>1, <2>2
<1> QED
  BY <1>1, <1>2 DEF OfflineInv, RestoredMessageEnds

\* Every step keeps the invariant.
LEMMA OfflineStep ==
  ASSUME OfflineInv, [OfflineNext]_offlineVars
  PROVE  OfflineInv'
<1>0. /\ server \in Servers /\ worker \in Workers /\ StoresSound(stores)
      /\ puts \subseteq Writes /\ page \in Pages
      /\ WorkerSound(worker, server, stores) /\ PageSound(page) /\ RestoredMessageEnds
      /\ page.controlled \/ puts # {} => worker.active # 0
  BY DEF OfflineInv
<1>a. /\ server.release \in Releases /\ server.cacheVersion \in Releases
      /\ worker.installing \in Releases \cup {0} /\ worker.active \in Releases \cup {0}
  BY <1>0 DEF Servers, Workers
<1>b. /\ server.release \in Nat /\ server.cacheVersion \in Nat /\ worker.installing \in Nat
      /\ worker.active \in Nat /\ MaxReleases \in Nat
  BY <1>a, ReleaseNumbers
<1>1. CASE Deploy
  <2>1. PICK bump \in {0, 1} :
          server' = [server EXCEPT !.release = server.release + 1,
                                   !.cacheVersion = server.cacheVersion + bump]
    BY <1>1, <1>0 DEF Deploy, Servers
  <2>2. server.release < MaxReleases /\ UNCHANGED <<worker, stores, puts, page>>
    BY <1>1 DEF Deploy
  <2> DEFINE r == server.release
             c == server.cacheVersion
  <2>3. r \in Nat /\ c \in Nat /\ c <= r /\ r < MaxReleases /\ c # 0
        /\ worker.active \in Nat /\ worker.installing \in Nat
        /\ worker.active <= c /\ worker.installing <= c
    BY <1>0, <1>a, <1>b, <2>2, ReleaseNumbers DEF WorkerSound
  <2> HIDE DEF r, c
  <2>4. /\ r + 1 \in Nat \ {0} /\ c + bump \in Nat \ {0} /\ r + 1 <= MaxReleases
        /\ c + bump <= MaxReleases /\ c + bump <= r + 1
        /\ worker.active <= c + bump /\ worker.installing <= c + bump
    BY <1>b, <2>3
  <2>5. r + 1 \in Releases /\ c + bump \in Releases
    BY <2>4, ReleaseNumbers
  <2>6. /\ server' \in Servers /\ server'.release = r + 1 /\ server'.cacheVersion = c + bump
        /\ server'.online = server.online
    BY <1>0, <2>1, <2>5 DEF Servers, r, c
  <2>7. WorkerSound(worker, server', stores)
    BY <1>0, <2>4, <2>6 DEF WorkerSound
  <2> QED
    BY <1>0, <2>2, <2>6, <2>7 DEF OfflineInv, RestoredMessageEnds
<1>2. CASE GoOffline
  <2>1. server' = [server EXCEPT !.online = FALSE] /\ UNCHANGED <<worker, stores, puts>>
        /\ page' = IF page.stage = "running"
                   THEN [page EXCEPT !.wasOffline = TRUE, !.timer = FALSE] ELSE page
    BY <1>2 DEF GoOffline
  <2>2. server' \in Servers /\ ~server'.online /\ WorkerSound(worker, server', stores)
    BY <1>0, <2>1 DEF Servers, WorkerSound
  <2>3. page' \in Pages /\ PageSound(page') /\ page'.controlled = page.controlled
    BY <1>0, <2>1 DEF Pages, PageSound
  <2> QED
    BY <1>0, <2>1, <2>2, <2>3 DEF OfflineInv, RestoredMessageEnds
<1>3. CASE GoOnline
  <2>1. server' = [server EXCEPT !.online = TRUE] /\ UNCHANGED <<worker, stores, puts>>
        /\ page' = IF page.stage = "running" /\ page.wasOffline
                   THEN [page EXCEPT !.showRestored = TRUE, !.timer = TRUE] ELSE page
    BY <1>3 DEF GoOnline
  <2>2. server' \in Servers /\ WorkerSound(worker, server', stores)
    BY <1>0, <2>1 DEF Servers, WorkerSound
  <2>3. /\ page' \in Pages /\ PageSound(page') /\ page'.controlled = page.controlled
        /\ page'.showRestored => page'.timer
    BY <1>0, <2>1 DEF Pages, PageSound
  <2> QED
    BY <1>0, <2>1, <2>2, <2>3 DEF OfflineInv, RestoredMessageEnds
<1>4. CASE HideRestored
  <2>1. page' = [page EXCEPT !.timer = FALSE, !.showRestored = FALSE]
        /\ UNCHANGED <<server, worker, stores, puts>>
    BY <1>4 DEF HideRestored
  <2>2. page' \in Pages /\ PageSound(page') /\ ~page'.showRestored
        /\ page'.controlled = page.controlled
    BY <1>0, <2>1 DEF Pages, PageSound
  <2> QED
    BY <1>0, <2>1, <2>2 DEF OfflineInv, RestoredMessageEnds
<1>5. CASE registerServiceWorker
  <2> DEFINE v == server.cacheVersion
  <2>1. /\ worker' = [worker EXCEPT !.installing = v, !.installed = FALSE]
        /\ stores' = Opened(v, "static") /\ UNCHANGED <<server, puts, page>>
    BY <1>5 DEF registerServiceWorker
  <2>2. v \in Releases /\ "static" \in Kinds /\ worker.active <= v /\ v \in Nat
    BY <1>0, <1>a, <1>b DEF Kinds, WorkerSound
  <2>3. /\ worker' \in Workers /\ worker'.installing = v /\ ~worker'.installed
        /\ worker'.active = worker.active
    BY <1>0, <2>1, <2>2 DEF Workers
  <2>4. /\ StoresSound(stores') /\ Len(stores) <= Len(stores')
        /\ \A i \in 1..Len(stores) : stores'[i] = stores[i]
        /\ \A i \in 1..Len(stores') : i \in 1..Len(stores) \/ stores'[i].version = v
    BY <1>0, <2>1, <2>2, OpenedSound
  <2>5. NoneOlder(stores', worker.active)
    BY <1>0, <1>b, <2>2, <2>4 DEF NoneOlder, WorkerSound
  <2>6. worker.active # 0 => HasShell(stores', worker.active)
    <3>1. Len(stores) \in Nat /\ Len(stores') \in Nat
      BY <1>0, <2>4 DEF StoresSound
    <3> QED
      BY <1>0, <2>4, <3>1 DEF HasShell, WorkerSound
  <2>7. WorkerSound(worker', server, stores')
    BY <1>0, <1>b, <2>2, <2>3, <2>5, <2>6 DEF WorkerSound
  <2> QED
    BY <2>1, <2>3, <2>4, <2>7, WorkerMoves
<1>6. CASE InstallWorker
  <2> DEFINE v == worker.installing
             e == [type |-> "document", of |-> "/", release |-> server.release]
  <2>1. /\ v # 0 /\ stores' = PutIn(v, "static", e)
        /\ worker' = [worker EXCEPT !.installed = TRUE] /\ UNCHANGED <<server, puts, page>>
    BY <1>6 DEF InstallWorker
  <2>2. v \in Releases /\ "static" \in Kinds /\ worker.active <= v
    BY <1>0, <1>a, <2>1 DEF Kinds, WorkerSound
  <2>3. e \in Entries /\ e.type = "document" /\ e.of = "/"
    BY <1>a, OfflineAssumption DEF Entries
  <2> HIDE DEF e
  <2>4. /\ worker' \in Workers /\ worker'.installing = v /\ worker'.installed
        /\ worker'.active = worker.active
    BY <1>0, <2>1 DEF Workers
  <2>5. /\ StoresSound(stores') /\ HasShell(stores', v) /\ NoneOlder(stores', worker.active)
        /\ worker.active # 0 => HasShell(stores', worker.active)
    BY <1>0, <2>1, <2>2, <2>3, PutSound DEF WorkerSound
  <2>6. WorkerSound(worker', server, stores')
    BY <1>0, <2>1, <2>2, <2>4, <2>5 DEF WorkerSound
  <2> QED
    BY <2>1, <2>4, <2>5, <2>6, WorkerMoves
<1>7. CASE InstallFails
  <2>1. ~worker.installed /\ worker' = [worker EXCEPT !.installing = 0]
        /\ UNCHANGED <<server, stores, puts, page>>
    BY <1>7 DEF InstallFails
  <2>2. /\ worker' \in Workers /\ worker'.installing = 0 /\ worker'.installed = worker.installed
        /\ worker'.active = worker.active
    BY <1>0, <2>1 DEF Workers
  <2>3. 0 <= server.cacheVersion
    BY <1>b
  <2>4. WorkerSound(worker', server, stores)
    BY <1>0, <2>1, <2>2, <2>3 DEF WorkerSound
  <2> QED
    BY <1>0, <2>1, <2>2, <2>4, WorkerMoves
<1>8. CASE ActivateWorker
  <2> DEFINE v == worker.installing
             b == page.stage # "closed"
  <2>1. /\ worker.installed /\ stores' = CachesOf(v) /\ puts' = {} /\ UNCHANGED server
        /\ worker' = [installing |-> 0, installed |-> FALSE, active |-> v]
        /\ page' = [page EXCEPT !.controlled = b] /\ b \in BOOLEAN
    BY <1>8 DEF ActivateWorker
  <2>2. v \in Releases /\ v # 0 /\ HasShell(stores, v) /\ v <= server.cacheVersion
    BY <1>0, <1>a, <2>1 DEF WorkerSound
  <2> HIDE DEF b
  <2>3. /\ worker' \in Workers /\ worker'.installing = 0 /\ ~worker'.installed
        /\ worker'.active = v
    BY <2>1, <2>2 DEF Workers
  <2>4. StoresSound(stores') /\ HasShell(stores', v) /\ NoneOlder(stores', v)
    BY <1>0, <2>1, <2>2, CachesOfSound
  <2>5. 0 <= server.cacheVersion
    BY <1>b
  <2>6. WorkerSound(worker', server, stores')
    BY <1>0, <2>2, <2>3, <2>4, <2>5 DEF WorkerSound
  <2> QED
    BY <2>1, <2>2, <2>3, <2>4, <2>6, WorkerMoves
<1>9. CASE PutLater
  <2>1. PICK w \in puts : /\ stores' = PutIn(worker.active, w.kind, w.entry) \/ UNCHANGED stores
                          /\ puts' = puts \ {w} /\ UNCHANGED <<server, worker, page>>
    BY <1>9 DEF PutLater
  <2>2. w.kind \in Kinds /\ w.entry \in Entries /\ worker.active # 0 /\ worker.active \in Releases
    BY <1>0, <1>a DEF Writes
  <2>3. worker.active <= worker.active
    BY <1>b
  <2>4. /\ StoresSound(stores') /\ NoneOlder(stores', worker.active)
        /\ \A v : HasShell(stores, v) => HasShell(stores', v)
    BY <1>0, <2>1, <2>2, <2>3, PutSound DEF WorkerSound
  <2>5. WorkerSound(worker, server, stores')
    BY <1>0, <2>4 DEF WorkerSound
  <2> QED
    BY <1>0, <2>1, <2>4, <2>5, WorkerMoves
<1>10. CASE RunDocument
  <2>0. page.stage = "document" /\ UNCHANGED <<server, worker, stores>>
    BY <1>10 DEF RunDocument
  <2>1. CASE ScriptFetched("main") /\ page' = Rendered([page EXCEPT !.stage = "running"], page.path)
    <3> DEFINE q == [page EXCEPT !.stage = "running"]
    <3>1. /\ q \in Pages /\ q.release = page.release /\ q.controlled = page.controlled
          /\ q.showRestored = page.showRestored /\ q.stage = "running"
          /\ page.path \in LazyPages
      BY <1>0 DEF Pages
    <3>2. page' = Rendered(q, page.path)
      BY <2>1
    <3> HIDE DEF q
    <3>3. /\ page' \in Pages /\ (page'.hasError <=> page'.lazy[page'.path] = "rejected")
          /\ page'.stage = "running" /\ page'.release = page.release
          /\ page'.controlled = page.controlled /\ page'.showRestored = page.showRestored
      BY <3>1, <3>2, RenderedSound
    <3>4. page.release \in Releases /\ ~page.showRestored
      BY <1>0, <2>0 DEF PageSound
    <3>5. PageSound(page')
      BY <3>3, <3>4 DEF PageSound
    <3>6. puts' \subseteq Writes /\ (puts' # {} => worker.active # 0)
      BY <2>0, <2>1, FetchedSound
    <3> QED
      BY <1>0, <2>0, <3>3, <3>4, <3>5, <3>6, PageMoves
  <2>2. CASE page' = [page EXCEPT !.stage = "blank"] /\ UNCHANGED puts
    <3>1. /\ page' \in Pages /\ page'.stage = "blank" /\ page'.showRestored = page.showRestored
          /\ page'.controlled = page.controlled
      BY <1>0, <2>2 DEF Pages
    <3>2. ~page.showRestored
      BY <1>0, <2>0 DEF PageSound
    <3>3. PageSound(page')
      BY <3>1, <3>2 DEF PageSound
    <3> QED
      BY <1>0, <2>0, <2>2, <3>1, <3>2, <3>3, PageMoves
  <2> QED
    BY <1>10, <2>1, <2>2 DEF RunDocument
\* A page that runs and renders a page.
<1>11. ASSUME NEW q \in Pages, NEW path \in LazyPages, page.stage = "running",
              page' = Rendered(q, path), q.stage = page.stage, q.release = page.release,
              q.controlled = page.controlled, q.showRestored = page.showRestored,
              q.wasOffline = page.wasOffline, q.timer = page.timer,
              UNCHANGED <<server, worker, stores, puts>>
       PROVE  OfflineInv'
  <2>1. /\ page' \in Pages /\ (page'.hasError <=> page'.lazy[page'.path] = "rejected")
        /\ page'.stage = page.stage /\ page'.release = page.release
        /\ page'.controlled = page.controlled /\ page'.showRestored = page.showRestored
        /\ page'.wasOffline = page.wasOffline /\ page'.timer = page.timer
    BY <1>11, RenderedSound
  <2>2. PageSound(page')
    BY <1>0, <1>11, <2>1 DEF PageSound
  <2> QED
    BY <1>0, <1>11, <2>1, <2>2, PageMoves DEF RestoredMessageEnds
<1>12. CASE handleReset
  <2> DEFINE q == [page EXCEPT !.hasError = FALSE]
  <2>1. /\ q \in Pages /\ q.stage = page.stage /\ q.release = page.release
        /\ q.controlled = page.controlled /\ q.showRestored = page.showRestored
        /\ q.wasOffline = page.wasOffline /\ q.timer = page.timer /\ page.path \in LazyPages
    BY <1>0 DEF Pages
  <2>2. page.stage = "running" /\ page' = Rendered(q, page.path)
        /\ UNCHANGED <<server, worker, stores, puts>>
    BY <1>12 DEF handleReset
  <2> HIDE DEF q
  <2> QED
    BY <1>11, <2>1, <2>2
<1>13. ASSUME NEW p \in LazyPages, LoadDocument(p) PROVE OfflineInv'
  <2> DEFINE c == worker.active # 0
             FreshPage(r) == [ClosedPage EXCEPT !.stage = "document", !.release = r,
                                            !.path = p, !.controlled = c]
             e == [type |-> "document", of |-> p, release |-> server.release]
             w == [kind |-> "runtime", entry |-> e]
  <2>0. UNCHANGED <<server, worker, stores>>
    BY <1>13 DEF LoadDocument
  <2>1. c \in BOOLEAN /\ (c => worker.active # 0)
    OBVIOUS
  <2>2. /\ ClosedPage \in Pages /\ PageSound(ClosedPage) /\ ~ClosedPage.showRestored
        /\ ~ClosedPage.controlled
    BY OfflineAssumption DEF ClosedPage, Pages, PageSound, Lazies
  <2>3. w \in Writes
    <3>1. e \in Entries
      BY <1>a DEF Entries
    <3> HIDE DEF e
    <3> QED
      BY <3>1 DEF Writes, Kinds
  <2>4. \E r \in Releases \cup {NoRelease} :
          \/ page' = ClosedPage
          \/ r # NoRelease /\ page' = FreshPage(r)
    <3>1. /\ Matching(p) \in Releases \cup {NoRelease}
          /\ Matching("/") \in Releases \cup {NoRelease}
      BY <1>0, MatchingFound
    <3>2. server.release # NoRelease
      BY <1>a, ReleaseNumbers
    <3> HIDE DEF FreshPage
    <3> QED
      BY <1>13, <1>a, <3>1, <3>2 DEF LoadDocument, FreshPage
  <2>5. puts' = puts \/ (c /\ puts' = puts \cup {w})
    BY <1>13 DEF LoadDocument
  <2>6. puts' \subseteq Writes /\ (puts' # {} => worker.active # 0)
    <3> HIDE DEF w
    <3> QED
      BY <1>0, <2>3, <2>5
  <2> HIDE DEF c
  <2>7. ASSUME NEW r \in Releases, page' = FreshPage(r)
        PROVE  page' \in Pages /\ PageSound(page') /\ ~page'.showRestored /\ page'.controlled = c
    BY <2>1, <2>2, <2>7 DEF Pages, PageSound
  <2> HIDE DEF FreshPage
  <2>8. page' \in Pages /\ PageSound(page') /\ ~page'.showRestored
        /\ (page'.controlled => worker.active # 0)
    BY <2>1, <2>2, <2>4, <2>7
  <2> QED
    BY <2>0, <2>6, <2>8, PageMoves
<1>14. ASSUME NEW p \in LazyPages, Navigate(p) PROVE OfflineInv'
  BY <1>0, <1>11, <1>14 DEF Navigate
<1>15. ASSUME NEW p \in LazyPages, ImportLoaded(p) PROVE OfflineInv'
  <2>1. /\ page.stage = "running" /\ page.lazy[p] = "pending" /\ ScriptFetched(p)
        /\ page' = [page EXCEPT !.lazy[p] = "loaded"] /\ UNCHANGED <<server, worker, stores>>
    BY <1>15 DEF ImportLoaded
  <2>2. page' \in Pages /\ page'.controlled = page.controlled
        /\ page'.showRestored = page.showRestored /\ page'.timer = page.timer
    BY <1>0, <2>1 DEF Pages, Lazies
  <2>3. PageSound(page')
    BY <1>0, <2>1, PageFields DEF PageSound, Pages
  <2>4. puts' \subseteq Writes /\ (puts' # {} => worker.active # 0)
    BY <2>1, FetchedSound
  <2> QED
    BY <1>0, <2>1, <2>2, <2>3, <2>4, PageMoves DEF RestoredMessageEnds
<1>16. ASSUME NEW p \in LazyPages, ImportFails(p) PROVE OfflineInv'
  <2>1. page.stage = "running" /\ page.lazy[p] = "pending"
        /\ UNCHANGED <<server, worker, stores, puts>>
    BY <1>16 DEF ImportFails
  <2>2. page' \in Pages /\ page'.controlled = page.controlled
        /\ page'.showRestored = page.showRestored /\ page'.timer = page.timer
        /\ PageSound(page')
    <3>1. CASE page.attemptsLeft[p] > 0 /\ page' = [page EXCEPT !.attemptsLeft[p] = page.attemptsLeft[p] - 1]
      <4>1. page.attemptsLeft \in [LazyPages -> 0 .. ImportRetries]
        BY <1>0, PageFields
      <4>2. page.attemptsLeft[p] - 1 \in 0 .. ImportRetries
        BY <3>1, <4>1, OfflineAssumption
      <4> DEFINE a == [page.attemptsLeft EXCEPT ![p] = page.attemptsLeft[p] - 1]
      <4>3. a \in [LazyPages -> 0 .. ImportRetries]
        BY <4>1, <4>2
      <4>4. page' = [page EXCEPT !.attemptsLeft = a]
        BY <1>0, <3>1 DEF Pages
      <4> HIDE DEF a
      <4> QED
        BY <1>0, <2>1, <4>3, <4>4 DEF Pages, PageSound
    <3>2. CASE page' = [page EXCEPT !.lazy[p] = "rejected",
                                    !.hasError = page.hasError \/ p = page.path]
      <4> DEFINE h == page.hasError \/ p = page.path
                 l == [page.lazy EXCEPT ![p] = "rejected"]
      <4>1. page.lazy \in [LazyPages -> Lazies] /\ page.path \in LazyPages
        BY <1>0, PageFields
      <4>2. l \in [LazyPages -> Lazies] /\ h \in BOOLEAN
        BY <4>1, <1>0, PageFields DEF Lazies
      <4>3. h <=> l[page.path] = "rejected"
        BY <1>0, <2>1, <4>1 DEF PageSound
      <4>4. page' = [page EXCEPT !.lazy = l, !.hasError = h]
        BY <1>0, <3>2 DEF Pages
      <4> HIDE DEF h, l
      <4> QED
        BY <1>0, <2>1, <4>2, <4>3, <4>4 DEF Pages, PageSound
    <3> QED
      BY <1>0, <1>16, <3>1, <3>2 DEF ImportFails, Pages
  <2> QED
    BY <1>0, <2>1, <2>2, PageMoves DEF RestoredMessageEnds
<1>17. ASSUME NEW p \in LazyPages, prefetchRoute(p) PROVE OfflineInv'
  <2>1. /\ page.stage = "running" /\ ScriptFetched(p) /\ UNCHANGED <<server, worker, stores>>
        /\ page' = [page EXCEPT !.prefetched = page.prefetched \cup {p}]
    BY <1>0, <1>17 DEF prefetchRoute, Pages
  <2>2. page' \in Pages /\ page'.controlled = page.controlled
        /\ page'.showRestored = page.showRestored /\ page'.timer = page.timer
        /\ PageSound(page')
    BY <1>0, <2>1 DEF Pages, PageSound
  <2>3. puts' \subseteq Writes /\ (puts' # {} => worker.active # 0)
    BY <2>1, FetchedSound
  <2> QED
    BY <1>0, <2>1, <2>2, <2>3, PageMoves DEF RestoredMessageEnds
<1>18. CASE UNCHANGED offlineVars
  BY <1>0, <1>18 DEF offlineVars, OfflineInv, RestoredMessageEnds
<1> QED
  BY <1>1, <1>2, <1>3, <1>4, <1>5, <1>6, <1>7, <1>8, <1>9, <1>10, <1>12, <1>13, <1>14, <1>15,
     <1>16, <1>17, <1>18 DEF OfflineNext

\* The invariant says what PagesServed says.
LEMMA ServedFollows ==
  ASSUME OfflineInv
  PROVE  OfflineTypeOK /\ PagesServed
<1>0. /\ server \in Servers /\ worker \in Workers /\ StoresSound(stores)
      /\ puts \subseteq Writes /\ page \in Pages
      /\ WorkerSound(worker, server, stores) /\ PageSound(page) /\ RestoredMessageEnds
  BY DEF OfflineInv
<1>1. DOMAIN stores = 1..Len(stores) /\ \A i \in 1..Len(stores) : stores[i] \in Stores
  BY <1>0 DEF StoresSound
<1>2. OfflineTypeOK
  <2>1. \A i \in DOMAIN stores : stores[i].kind \in {"static", "runtime"}
                                 /\ stores[i].held \subseteq Entries
    BY <1>1, StoreFields DEF Kinds
  <2>2. \A w \in puts : w.kind \in {"static", "runtime"} /\ w.entry \in Entries
    BY <1>0 DEF Writes, Kinds
  <2> QED
    BY <1>0, <2>1, <2>2, PageFields DEF OfflineTypeOK, Servers, Workers
<1>3. OfflineDocument
  BY <1>0, MatchingFound DEF OfflineDocument, WorkerSound, HasShell
<1>4. NoOldCaches
  BY <1>0, <1>1 DEF NoOldCaches, WorkerSound, NoneOlder
<1>5. BoundaryMatchesPage
  BY <1>0 DEF BoundaryMatchesPage, PageSound
<1> QED
  BY <1>0, <1>2, <1>3, <1>4, <1>5 DEF PagesServed

\* Through releases, failed installations and lost connections the active worker has the
\* start page and no older cache, and the page shows its own error and takes the message
\* of the restored connection away.
THEOREM PagesAlwaysServed == OfflineSpec => [](OfflineTypeOK /\ PagesServed)
<1>1. OfflineInit => OfflineInv
  <2> SUFFICES ASSUME OfflineInit PROVE OfflineInv
    OBVIOUS
  <2>1. ClosedPage \in Pages /\ PageSound(ClosedPage) /\ ~ClosedPage.showRestored
        /\ ~ClosedPage.controlled
    BY OfflineAssumption DEF ClosedPage, Pages, PageSound, Lazies
  <2>2. server \in Servers /\ worker \in Workers /\ server.cacheVersion = 1 /\ server.release = 1
        /\ worker.active = 0 /\ worker.installing = 0 /\ ~worker.installed
    BY ReleaseNumbers DEF OfflineInit, Servers, Workers
  <2>3. stores = <<>> /\ puts = {} /\ page = ClosedPage
    BY DEF OfflineInit
  <2>4. StoresSound(stores) /\ NoneOlder(stores, 0)
    BY <2>3 DEF StoresSound, NoneOlder
  <2>5. WorkerSound(worker, server, stores)
    BY <2>2, <2>4 DEF WorkerSound
  <2> QED
    BY <2>1, <2>2, <2>3, <2>4, <2>5 DEF OfflineInv, RestoredMessageEnds
<1> QED
  BY <1>1, OfflineStep, ServedFollows, PTL DEF OfflineSpec
=============================================================================
