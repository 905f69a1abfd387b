----------------------------- MODULE WebOffline -----------------------------
(***************************************************************************)
(* The console without a network, and across redeployments: the service    *)
(* worker (web/public/sw.js, serviceWorkerRegistration.ts), the pages that *)
(* are loaded lazily (utils/lazyWithRetry.ts, utils/prefetchUtils.ts) and  *)
(* what the user is shown meanwhile (RouteErrorBoundary, OfflineBanner).   *)
(*                                                                         *)
(* The server holds one release at a time.  A document names the scripts   *)
(* of its own release, whose hashed addresses no other release has.  sw.js *)
(* puts what it fetched into a cache without waiting for it: such a write  *)
(* may happen later, or never, as browsers stop workers when they like.    *)
(***************************************************************************)
EXTENDS Naturals, Sequences, FiniteSets, SequencesExt

CONSTANTS
  LazyPages,     \* the paths of the pages, "/" among them
  ImportRetries, \* retries of lazyWithRetry
  MaxReleases    \* bound: releases of the console

ASSUME OfflineAssumption ==
  "/" \in LazyPages /\ ImportRetries \in Nat /\ MaxReleases \in Nat \ {0}

VARIABLES
  server,        \* [online, release, cacheVersion]: what a fetch would find
  worker,        \* [installing, installed, active]: CACHE_VERSIONs, 0 for none
  stores,        \* CacheStorage: a sequence of [version, kind, held], oldest first
  puts,          \* the cache.put calls nobody awaits: [kind, entry]
  page           \* the tab: its document, its lazy pages, its banner

offlineVars == <<server, worker, stores, puts, page>>

NoRelease == 0
Releases == 1 .. MaxReleases
\* A response: a document or a script of a page, of one release.
Entries == [type : {"document", "script"}, of : LazyPages \cup {"main"}, release : Releases]
Lazies == {"unloaded", "pending", "loaded", "rejected"}
ClosedPage == [stage |-> "closed", release |-> NoRelease, path |-> "/", controlled |-> FALSE,
               lazy |-> [p \in LazyPages |-> "unloaded"],
               attemptsLeft |-> [p \in LazyPages |-> 0],
               prefetched |-> {}, hasError |-> FALSE,
               wasOffline |-> FALSE, showRestored |-> FALSE, timer |-> FALSE]

OfflineTypeOK ==
  /\ server \in [online : BOOLEAN, release : Releases, cacheVersion : Releases]
  /\ worker \in [installing : Releases \cup {0}, installed : BOOLEAN, active : Releases \cup {0}]
  /\ \A i \in DOMAIN stores :
       stores[i].kind \in {"static", "runtime"} /\ stores[i].held \subseteq Entries
  /\ \A w \in puts : w.kind \in {"static", "runtime"} /\ w.entry \in Entries
  /\ page.stage \in {"closed", "document", "running", "blank"}
  /\ page.lazy \in [LazyPages -> Lazies]
  /\ page.attemptsLeft \in [LazyPages -> 0 .. ImportRetries]

OfflineInit ==
  /\ server = [online |-> TRUE, release |-> 1, cacheVersion |-> 1]
  /\ worker = [installing |-> 0, installed |-> FALSE, active |-> 0]
  /\ stores = <<>> /\ puts = {} /\ page = ClosedPage

-----------------------------------------------------------------------------
(* CacheStorage, as sw.js uses it.                                          *)

IsStore(s, version, kind) == s.version = version /\ s.kind = kind

\* Where a cache is in the order of creation, 0 if it does not exist.
CachePosition(version, kind) == SelectInSeq(stores, LAMBDA s : IsStore(s, version, kind))

\* The two caches of a version, in the order of their creation.
CachesOf(version) ==
  LET static == CachePosition(version, "static")
      runtime == CachePosition(version, "runtime")
      at(i) == IF i = 0 THEN <<>> ELSE <<stores[i]>>
  IN IF static <= runtime THEN at(static) \o at(runtime) ELSE at(runtime) \o at(static)

\* caches.open creates the cache at the end, if it does not exist.
Opened(version, kind) ==
  IF \E i \in DOMAIN stores : IsStore(stores[i], version, kind) THEN stores
  ELSE Append(stores, [version |-> version, kind |-> kind, held |-> {}])

\* cache.put replaces what the same address held: a document's address is its
\* page, a script's has its release in its name.
SameAddress(a, b) ==
  a.type = b.type /\ a.of = b.of /\ (a.type = "script" => a.release = b.release)
PutIn(version, kind, entry) ==
  [i \in DOMAIN Opened(version, kind) |->
     LET s == Opened(version, kind)[i]
     IN IF IsStore(s, version, kind)
        THEN [s EXCEPT !.held = {e \in @ : ~SameAddress(e, entry)} \cup {entry}] ELSE s]

\* caches.match looks through the caches in the order of their creation.
HoldsDocument(s, path) == \E e \in s.held : e.type = "document" /\ e.of = path
Matching(path) ==
  LET hits == {i \in DOMAIN stores : HoldsDocument(stores[i], path)}
      first == CHOOSE i \in hits : \A j \in hits : i <= j
  IN IF hits = {} THEN NoRelease
     ELSE (CHOOSE e \in stores[first].held : e.type = "document" /\ e.of = path).release
MatchesScript(of, release) ==
  \E i \in DOMAIN stores :
    [type |-> "script", of |-> of, release |-> release] \in stores[i].held

-----------------------------------------------------------------------------
(* The server and the network.                                              *)

\* A new release, for which CACHE_VERSION was changed or was not.
Deploy ==
  /\ server.release < MaxReleases
  /\ \E bump \in {0, 1} :
       server' = [server EXCEPT !.release = @ + 1, !.cacheVersion = @ + bump]
  /\ UNCHANGED <<worker, stores, puts, page>>

\* Mutant: the cleanup stops the timer for good.
GoOnlineAgain ==
  /\ ~server.online
  /\ server' = [server EXCEPT !.online = TRUE]
  /\ page' = IF page.stage = "running" /\ page.wasOffline
             THEN [page EXCEPT !.showRestored = TRUE, !.timer = ~page.showRestored] ELSE page
  /\ UNCHANGED <<worker, stores, puts>>

\* The browser's events, as useOnlineStatus and OfflineBanner take them: the
\* effect's cleanup stops the timer, coming back starts it again.
GoOffline ==
  /\ server.online
  /\ server' = [server EXCEPT !.online = FALSE]
  /\ page' = IF page.stage = "running"
             THEN [page EXCEPT !.wasOffline = TRUE, !.timer = FALSE] ELSE page
  /\ UNCHANGED <<worker, stores, puts>>
GoOnline ==
  /\ ~server.online
  /\ server' = [server EXCEPT !.online = TRUE]
  /\ page' = IF page.stage = "running" /\ page.wasOffline
             THEN [page EXCEPT !.showRestored = TRUE, !.timer = TRUE] ELSE page
  /\ UNCHANGED <<worker, stores, puts>>
HideRestored ==
  /\ page.timer
  /\ page' = [page EXCEPT !.timer = FALSE, !.showRestored = FALSE]
  /\ UNCHANGED <<server, worker, stores, puts>>

-----------------------------------------------------------------------------
(* The life of a worker.                                                    *)

\* The load event of a running page registers sw.js, which is installed when it
\* is not the active one.
registerServiceWorker ==
  /\ page.stage = "running" /\ server.online
  /\ worker.installing = 0 /\ worker.active # server.cacheVersion
  /\ worker' = [worker EXCEPT !.installing = server.cacheVersion, !.installed = FALSE]
  /\ stores' = Opened(server.cacheVersion, "static")
  /\ UNCHANGED <<server, puts, page>>

\* Mutant: skipWaiting does not wait for addAll.
SkipWaitingAtOnce ==
  /\ worker.installing # 0 /\ ~worker.installed
  /\ worker' = [worker EXCEPT !.installed = TRUE]
  /\ UNCHANGED <<server, stores, puts, page>>

\* addAll of PRECACHE_ASSETS succeeds as a whole; only then skipWaiting.
InstallWorker ==
  /\ worker.installing # 0 /\ ~worker.installed /\ server.online
  /\ stores' = PutIn(worker.installing, "static",
                     [type |-> "document", of |-> "/", release |-> server.release])
  /\ worker' = [worker EXCEPT !.installed = TRUE]
  /\ UNCHANGED <<server, puts, page>>
InstallFails ==
  /\ worker.installing # 0 /\ ~worker.installed
  /\ worker' = [worker EXCEPT !.installing = 0]
  /\ UNCHANGED <<server, stores, puts, page>>

\* Mutant: no cache is deleted.
ActivateKeepingOld ==
  /\ worker.installed
  /\ worker' = [installing |-> 0, installed |-> FALSE, active |-> worker.installing]
  /\ page' = [page EXCEPT !.controlled = (page.stage # "closed")]
  /\ UNCHANGED <<server, stores>> /\ puts' = {}

\* All caches but the two of this version go, the open pages are claimed.  The worker
\* that is replaced is stopped, with what it was still writing.
ActivateWorker ==
  /\ worker.installed
  /\ worker' = [installing |-> 0, installed |-> FALSE, active |-> worker.installing]
  /\ stores' = CachesOf(worker.installing)
  /\ puts' = {}
  /\ page' = [page EXCEPT !.controlled = (page.stage # "closed")]
  /\ UNCHANGED server

\* A put that nobody awaits takes place, or is lost with a worker that is stopped.
PutLater ==
  \E w \in puts :
    /\ stores' = PutIn(worker.active, w.kind, w.entry) \/ UNCHANGED stores
    /\ puts' = puts \ {w}
    /\ UNCHANGED <<server, worker, page>>

-----------------------------------------------------------------------------
(* Documents and scripts.                                                   *)

\* A navigation: from the network, or from the caches of the active worker.
LoadDocument(path) ==
  LET controlled == worker.active # 0
      found == IF Matching(path) # NoRelease THEN Matching(path) ELSE Matching("/")
      fresh(r) == [ClosedPage EXCEPT !.stage = "document", !.release = r,
                                     !.path = path, !.controlled = controlled]
  IN /\ IF server.online
        THEN /\ page' = fresh(server.release)
             /\ puts' = IF controlled
                        THEN puts \cup {[kind |-> "runtime", entry |->
                               [type |-> "document", of |-> path, release |-> server.release]]}
                        ELSE puts
        ELSE /\ page' = IF controlled /\ found # NoRelease THEN fresh(found) ELSE ClosedPage
             /\ UNCHANGED puts
     /\ UNCHANGED <<server, worker, stores>>

\* A script is there if a cache has it or the server still serves its release;
\* under a worker what comes from the network is put into the static cache.
Available(of) ==
  \/ page.controlled /\ MatchesScript(of, page.release)
  \/ server.online /\ page.release = server.release
ScriptFetched(of) ==
  puts' = IF page.controlled /\ ~MatchesScript(of, page.release)
          THEN puts \cup {[kind |-> "static", entry |->
                 [type |-> "script", of |-> of, release |-> page.release]]}
          ELSE puts

\* The component of a page is needed: React.lazy calls the loader once.
Rendered(p, path) ==
  [p EXCEPT !.path = path, !.hasError = (p.lazy[path] = "rejected"),
            !.lazy[path] = IF @ = "unloaded" THEN "pending" ELSE @,
            !.attemptsLeft[path] = IF p.lazy[path] = "unloaded" THEN ImportRetries ELSE @]

RunDocument ==
  /\ page.stage = "document"
  /\ \/ Available("main") /\ ScriptFetched("main")
        /\ page' = Rendered([page EXCEPT !.stage = "running"], page.path)
     \/ ~Available("main") /\ page' = [page EXCEPT !.stage = "blank"] /\ UNCHANGED puts
  /\ UNCHANGED <<server, worker, stores>>

\* A link: the boundary of the page is a new one, as its key is the path.
Navigate(path) ==
  /\ page.stage = "running" /\ path # page.path
  /\ page' = Rendered(page, path)
  /\ UNCHANGED <<server, worker, stores, puts>>

ImportLoaded(path) ==
  /\ page.stage = "running" /\ page.lazy[path] = "pending"
  /\ path \in page.prefetched \/ Available(path)
  /\ page' = [page EXCEPT !.lazy[path] = "loaded"]
  /\ ScriptFetched(path)
  /\ UNCHANGED <<server, worker, stores>>

\* Mutant: the failure count starts anew with every retry.
RetryForEver(path) ==
  /\ page.stage = "running" /\ page.lazy[path] = "pending"
  /\ path \notin page.prefetched
  /\ page' = [page EXCEPT !.attemptsLeft[path] = ImportRetries - 1]
  /\ UNCHANGED <<server, worker, stores, puts>>

\* An import fails: again after intervalMs, or rejected for good, which throws
\* into the boundary of the page that is shown.
ImportFails(path) ==
  /\ page.stage = "running" /\ page.lazy[path] = "pending"
  /\ path \notin page.prefetched
  /\ page' = IF page.attemptsLeft[path] > 0
             THEN [page EXCEPT !.attemptsLeft[path] = @ - 1]
             ELSE [page EXCEPT !.lazy[path] = "rejected", !.hasError = @ \/ path = page.path]
  /\ UNCHANGED <<server, worker, stores, puts>>

\* Mutant: the boundary stays cleared.
ResetWithoutRender ==
  /\ page.stage = "running" /\ page.hasError
  /\ page' = [page EXCEPT !.hasError = FALSE]
  /\ UNCHANGED <<server, worker, stores, puts>>

\* "Try again" clears the boundary; the lazy component throws its error again.
handleReset ==
  /\ page.stage = "running" /\ page.hasError
  /\ page' = Rendered([page EXCEPT !.hasError = FALSE], page.path)
  /\ UNCHANGED <<server, worker, stores, puts>>

\* prefetchRoute on a hovered link that resolves; one that fails leaves no trace.
prefetchRoute(path) ==
  /\ page.stage = "running" /\ path \notin page.prefetched /\ Available(path)
  /\ page' = [page EXCEPT !.prefetched = @ \cup {path}]
  /\ ScriptFetched(path)
  /\ UNCHANGED <<server, worker, stores>>

OfflineNext ==
  \/ Deploy \/ GoOffline \/ GoOnline \/ HideRestored
  \/ registerServiceWorker \/ InstallWorker \/ InstallFails \/ ActivateWorker \/ PutLater
  \/ RunDocument \/ handleReset
  \/ \E p \in LazyPages :
       LoadDocument(p) \/ Navigate(p) \/ ImportLoaded(p) \/ ImportFails(p) \/ prefetchRoute(p)

\* Fairness: an import is settled, the timer of a retry fires.
OfflineFairness == \A p \in LazyPages : WF_offlineVars(ImportLoaded(p) \/ ImportFails(p))

OfflineSpec == OfflineInit /\ [][OfflineNext]_offlineVars /\ OfflineFairness

-----------------------------------------------------------------------------
(* Properties.                                                              *)

\* Once a worker is active, a navigation without a network gets a document: the
\* start page is in a cache through every failed installation, every change of
\* version and every late write.
OfflineDocument == worker.active # 0 => Matching("/") # NoRelease

\* The caches of a version that was replaced do not come back: none is older than
\* the active worker's.
NoOldCaches == \A i \in DOMAIN stores : stores[i].version >= worker.active

\* The boundary shows the error of the page that is shown, and only its own: not
\* that of the page left before, nor of one whose import fails in the background.
BoundaryMatchesPage ==
  page.stage = "running" => (page.hasError <=> page.lazy[page.path] = "rejected")

\* The message that the connection is back has a timer that takes it away, also
\* when the connection was lost again while it was shown.
RestoredMessageEnds ==
  page.stage = "running" /\ server.online /\ page.showRestored => page.timer

\* Pages survive releases and lost connections: the worker has the document and
\* nothing of an older version, the boundary and the message speak of the page shown.
PagesServed == OfflineDocument /\ NoOldCaches /\ BoundaryMatchesPage /\ RestoredMessageEnds

\* The loader of a page ends in the page or in an error, unless the tab is left.
LazyEnds ==
  \A p \in LazyPages : []<>(page.lazy[p] # "pending")
=============================================================================
