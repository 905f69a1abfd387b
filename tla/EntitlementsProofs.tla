------------------------- MODULE EntitlementsProofs -------------------------
(***************************************************************************)
(* Proofs about Entitlements, for any number of sessions, webhook requests, *)
(* reloads and connections, and for every trouble: a logged payment is      *)
(* honoured, a session is granted once unless its deliveries raced, and     *)
(* between requests the cache shows the row.                                *)
(***************************************************************************)
EXTENDS Entitlements, TLAPS

CheckoutEvents == [kind : {"checkout"}, session : Sessions]
Serves(h, s) == event[h] = [kind |-> "checkout", session |-> s]

\* A request that looks a session up, begins or logs it handles a checkout; one that
\* writes or stores handles some event.
RequestsSound ==
  /\ pc \in [Handlers -> {"idle", "ask", "begin", "log", "write", "store"}]
  /\ event \in [Handlers -> Events \cup {None}]
  /\ DOMAIN new = Handlers /\ DOMAIN cold = Handlers
  /\ \A h \in Handlers :
       /\ pc[h] \in {"ask", "begin", "log"} => event[h] \in CheckoutEvents
       /\ pc[h] \in {"write", "store"} => event[h] \in Events

\* What is about to be written was logged, what was written, too.
LoggedFirst ==
  /\ granted \subseteq logged /\ logged \subseteq Sessions
  /\ \A h \in Handlers, s \in Sessions : pc[h] = "write" /\ Serves(h, s) => s \in logged

\* A request past its lookup whose session is logged, or granted, or handled by
\* another one as far along, has raced with another.
RacesSeen ==
  /\ \A h \in Handlers, s \in Sessions :
       /\ pc[h] \in {"begin", "log"} /\ Serves(h, s) /\ s \in logged => s \in raced
       /\ pc[h] = "write" /\ Serves(h, s) /\ s \in granted => s \in raced
  /\ \A g, h \in Handlers, s \in Sessions :
       /\ g # h /\ Serves(g, s) /\ Serves(h, s)
       /\ \/ pc[g] \in {"begin", "log"} /\ pc[h] \in {"begin", "log"}
          \/ pc[g] = "write" /\ pc[h] = "write"
       => s \in raced

PaymentInv == RequestsSound /\ LoggedFirst /\ RacesSeen /\ PaymentsHonoured /\ GrantedOnce

-----------------------------------------------------------------------------
\* An event of a checkout is no more than its session.
LEMMA CheckoutOrNot ==
  ASSUME NEW e \in Events, e.kind = "checkout"
  PROVE  /\ e \in CheckoutEvents
         /\ e = [kind |-> "checkout", session |-> e.session]
         /\ e.session \in Sessions
  BY DEF Events, CheckoutEvents

\* No request has come and nothing is paid at the start.
LEMMA PaymentInit == Init => PaymentInv
  BY DEF Init, PaymentInv, RequestsSound, LoggedFirst, RacesSeen, PaymentsHonoured,
         GrantedOnce

\* The parts that depend on the requests' places and events alone are kept when
\* request h ends, or takes a step that neither looks up, logs nor writes.
LEMMA OneMoves ==
  ASSUME PaymentInv, NEW h \in Handlers, NEW place, NEW STATE e,
         pc' = [pc EXCEPT ![h] = place],
         event' = [event EXCEPT ![h] = e],
         DOMAIN new' = Handlers, DOMAIN cold' = Handlers,
         UNCHANGED <<logged, granted, twice, raced>>,
         excused \subseteq excused',
         \/ place = "idle" /\ e = None
         \/ place = "ask" /\ pc[h] = "idle" /\ e \in CheckoutEvents
         \/ place = "write" /\ pc[h] = "idle" /\ e \in Events /\ e.kind # "checkout"
         \/ place = "log" /\ pc[h] = "begin" /\ e = event[h],
         pc[h] = "write" =>
           \A s \in Sessions : Serves(h, s) => s \in granted \cup excused'
  PROVE  PaymentInv'
<1>1. RequestsSound'
  BY DEF PaymentInv, RequestsSound, Events, CheckoutEvents
<1>2. LoggedFirst'
  BY DEF PaymentInv, RequestsSound, LoggedFirst, Serves
<1>3. RacesSeen'
  BY DEF PaymentInv, RequestsSound, RacesSeen, Serves
<1>4. PaymentsHonoured'
  <2> SUFFICES ASSUME NEW s \in logged, s \notin granted \cup excused'
      PROVE  \E k \in Handlers : pc'[k] = "write" /\ event'[k] = [kind |-> "checkout", session |-> s]
    BY DEF PaymentsHonoured
  <2>1. PICK k \in Handlers : pc[k] = "write" /\ event[k] = [kind |-> "checkout", session |-> s]
    BY DEF PaymentInv, PaymentsHonoured
  <2>2. k # h
    BY <2>1 DEF PaymentInv, LoggedFirst, Serves
  <2> QED
    BY <2>1, <2>2 DEF PaymentInv, RequestsSound
<1>5. GrantedOnce'
  BY DEF PaymentInv, GrantedOnce
<1> QED
  BY <1>1, <1>2, <1>3, <1>4, <1>5 DEF PaymentInv

\* Steps that leave the requests and the payments alone.
LEMMA NothingMoves ==
  ASSUME PaymentInv, UNCHANGED <<requests, logged, ghosts>>
  PROVE  PaymentInv'
BY DEF PaymentInv, RequestsSound, LoggedFirst, RacesSeen, PaymentsHonoured, GrantedOnce,
       Serves, requests, ghosts

\* A request looks its session up.
LEMMA AskKeeps ==
  ASSUME PaymentInv, NEW h \in Handlers, Ask(h)
  PROVE  PaymentInv'
<1>1. event[h] \in CheckoutEvents /\ pc[h] = "ask"
  BY DEF PaymentInv, RequestsSound, Ask
<1>2. event[h].session \in Sessions /\ event[h] = [kind |-> "checkout", session |-> event[h].session]
  BY <1>1 DEF CheckoutEvents
<1>3. CASE event[h].session \in logged
  <2>1. pc' = [pc EXCEPT ![h] = "idle"] /\ event' = [event EXCEPT ![h] = None]
        /\ DOMAIN new' = Handlers /\ DOMAIN cold' = Handlers
        /\ UNCHANGED <<logged, granted, twice, raced, excused>>
    BY <1>3 DEF Ask, EndRequest, PaymentInv, RequestsSound
  <2> QED
    BY <1>1, <2>1, OneMoves
<1>4. CASE event[h].session \notin logged
  <2> DEFINE s == event[h].session
  <2>1. /\ pc' = [pc EXCEPT ![h] = "begin"]
        /\ raced \subseteq raced'
        /\ (\E g \in Handlers \ {h} : pc[g] \in {"begin", "log"} /\ event[g] = event[h])
             => s \in raced'
        /\ UNCHANGED <<event, new, cold, logged, granted, twice, excused>>
    BY <1>4 DEF Ask
  <2>2. RequestsSound'
    BY <1>1, <2>1 DEF PaymentInv, RequestsSound
  <2>3. LoggedFirst'
    BY <1>1, <2>1 DEF PaymentInv, RequestsSound, LoggedFirst, Serves
  <2>4. RacesSeen'
    <3>1. ASSUME NEW k \in Handlers, NEW t \in Sessions
          PROVE  /\ pc'[k] \in {"begin", "log"} /\ Serves(k, t)' /\ t \in logged' => t \in raced'
                 /\ pc'[k] = "write" /\ Serves(k, t)' /\ t \in granted' => t \in raced'
      BY <1>1, <1>2, <1>4, <2>1 DEF PaymentInv, RequestsSound, RacesSeen, Serves
    <3>2. ASSUME NEW g \in Handlers, NEW k \in Handlers, NEW t \in Sessions,
                 g # k, Serves(g, t)', Serves(k, t)',
                 \/ pc'[g] \in {"begin", "log"} /\ pc'[k] \in {"begin", "log"}
                 \/ pc'[g] = "write" /\ pc'[k] = "write"
          PROVE  t \in raced'
      <4>1. CASE g # h /\ k # h
        BY <4>1, <3>2, <2>1 DEF PaymentInv, RequestsSound, RacesSeen, Serves
      <4>2. CASE g = h
        BY <4>2, <3>2, <2>1, <1>1, <1>2 DEF PaymentInv, RequestsSound, Serves
      <4>3. CASE k = h
        BY <4>3, <3>2, <2>1, <1>1, <1>2 DEF PaymentInv, RequestsSound, Serves
      <4> QED
        BY <4>1, <4>2, <4>3
    <3> QED
      BY <3>1, <3>2 DEF RacesSeen, Serves
  <2>5. PaymentsHonoured' /\ GrantedOnce'
    BY <1>1, <2>1 DEF PaymentInv, RequestsSound, PaymentsHonoured, GrantedOnce
  <2> QED
    BY <2>2, <2>3, <2>4, <2>5 DEF PaymentInv
<1> QED
  BY <1>3, <1>4

\* A request logs its payment.
LEMMA LogKeeps ==
  ASSUME PaymentInv, NEW h \in Handlers, Log(h)
  PROVE  PaymentInv'
<1> DEFINE s == event[h].session
<1>1. pc[h] = "log" /\ s \in Sessions /\ event[h] = [kind |-> "checkout", session |-> s]
  BY DEF PaymentInv, RequestsSound, Log, CheckoutEvents
<1>2. /\ pc' = [pc EXCEPT ![h] = "write"] /\ logged' = logged \cup {s}
      /\ DOMAIN new' = Handlers /\ DOMAIN cold' = Handlers
      /\ UNCHANGED <<event, granted, twice, raced, excused>>
  BY DEF Log, CallUpdate, PaymentInv, RequestsSound, ghosts
<1>3. RequestsSound'
  BY <1>1, <1>2 DEF PaymentInv, RequestsSound, CheckoutEvents, Events
<1>4. LoggedFirst'
  BY <1>1, <1>2 DEF PaymentInv, RequestsSound, LoggedFirst, Serves
<1>5. s \in logged => s \in raced
  BY <1>1 DEF PaymentInv, RacesSeen, Serves
<1>6. RacesSeen'
  <2>1. ASSUME NEW k \in Handlers, NEW t \in Sessions
        PROVE  /\ pc'[k] \in {"begin", "log"} /\ Serves(k, t)' /\ t \in logged' => t \in raced'
               /\ pc'[k] = "write" /\ Serves(k, t)' /\ t \in granted' => t \in raced'
    <3>1. CASE k = h
      BY <3>1, <1>1, <1>2, <1>5 DEF PaymentInv, RequestsSound, LoggedFirst, Serves
    <3>2. CASE k # h
      BY <3>2, <1>1, <1>2 DEF PaymentInv, RequestsSound, RacesSeen, Serves
    <3> QED
      BY <3>1, <3>2
  <2>2. ASSUME NEW g \in Handlers, NEW k \in Handlers, NEW t \in Sessions,
               g # k, Serves(g, t)', Serves(k, t)',
               \/ pc'[g] \in {"begin", "log"} /\ pc'[k] \in {"begin", "log"}
               \/ pc'[g] = "write" /\ pc'[k] = "write"
        PROVE  t \in raced'
    <3>1. CASE g # h /\ k # h
      BY <3>1, <2>2, <1>2 DEF PaymentInv, RequestsSound, RacesSeen, Serves
    <3>2. CASE g = h
      BY <3>2, <2>2, <1>1, <1>2, <1>5 DEF PaymentInv, RequestsSound, LoggedFirst, Serves
    <3>3. CASE k = h
      BY <3>3, <2>2, <1>1, <1>2, <1>5 DEF PaymentInv, RequestsSound, LoggedFirst, Serves
    <3> QED
      BY <3>1, <3>2, <3>3
  <2> QED
    BY <2>1, <2>2 DEF RacesSeen, Serves
<1>7. PaymentsHonoured'
  <2> SUFFICES ASSUME NEW t \in logged', t \notin granted \cup excused
      PROVE  \E k \in Handlers : pc'[k] = "write" /\ event'[k] = [kind |-> "checkout", session |-> t]
    BY <1>2 DEF PaymentsHonoured
  <2>1. CASE t = s
    BY <2>1, <1>1, <1>2 DEF PaymentInv, RequestsSound
  <2>2. CASE t # s
    <3>1. PICK k \in Handlers : pc[k] = "write" /\ event[k] = [kind |-> "checkout", session |-> t]
      BY <2>2, <1>2 DEF PaymentInv, PaymentsHonoured
    <3> QED
      BY <3>1, <1>1, <1>2 DEF PaymentInv, RequestsSound
  <2> QED
    BY <2>1, <2>2
<1>8. GrantedOnce'
  BY <1>2 DEF PaymentInv, GrantedOnce
<1> QED
  BY <1>3, <1>4, <1>6, <1>7, <1>8 DEF PaymentInv

\* A request writes the guild's row.
LEMMA WriteKeeps ==
  ASSUME PaymentInv, NEW h \in Handlers, Write(h)
  PROVE  PaymentInv'
<1>1. /\ pc[h] = "write" /\ event[h] \in Events
      /\ pc' = [pc EXCEPT ![h] = "store"]
      /\ UNCHANGED <<event, new, cold, logged, raced, excused>>
  BY DEF Write, PaymentInv, RequestsSound, billing
<1>2. RequestsSound'
  BY <1>1 DEF PaymentInv, RequestsSound
<1>3. CASE event[h].kind # "checkout"
  <2>1. UNCHANGED <<granted, twice>>
    BY <1>3 DEF Write
  <2>2. LoggedFirst' /\ GrantedOnce'
    BY <1>1, <2>1 DEF PaymentInv, RequestsSound, LoggedFirst, GrantedOnce, Serves
  <2>3. RacesSeen'
    BY <1>1, <2>1 DEF PaymentInv, RequestsSound, RacesSeen, Serves
  <2>4. PaymentsHonoured'
    <3> SUFFICES ASSUME NEW t \in logged, t \notin granted \cup excused
        PROVE  \E k \in Handlers : pc'[k] = "write" /\ event'[k] = [kind |-> "checkout", session |-> t]
      BY <1>1, <2>1 DEF PaymentsHonoured
    <3>1. PICK k \in Handlers : pc[k] = "write" /\ event[k] = [kind |-> "checkout", session |-> t]
      BY DEF PaymentInv, PaymentsHonoured
    <3>2. k # h
      BY <1>3, <3>1
    <3> QED
      BY <3>1, <3>2, <1>1 DEF PaymentInv, RequestsSound
  <2> QED
    BY <1>2, <2>2, <2>3, <2>4 DEF PaymentInv
<1>4. CASE event[h].kind = "checkout"
  <2> DEFINE s == event[h].session
  <2>1. s \in Sessions /\ event[h] = [kind |-> "checkout", session |-> s]
    BY <1>1, <1>4, CheckoutOrNot
  <2>2. granted' = granted \cup {s} /\ twice' = twice \cup ({s} \cap granted)
    BY <1>4 DEF Write
  <2>3. s \in logged /\ (s \in granted => s \in raced)
    BY <1>1, <2>1 DEF PaymentInv, LoggedFirst, RacesSeen, Serves
  <2>4. LoggedFirst' /\ GrantedOnce'
    BY <1>1, <2>2, <2>3 DEF PaymentInv, RequestsSound, LoggedFirst, GrantedOnce, Serves
  <2>5. RacesSeen'
    <3>1. ASSUME NEW k \in Handlers, NEW t \in Sessions
          PROVE  /\ pc'[k] \in {"begin", "log"} /\ Serves(k, t)' /\ t \in logged' => t \in raced'
                 /\ pc'[k] = "write" /\ Serves(k, t)' /\ t \in granted' => t \in raced'
      BY <1>1, <2>1, <2>2 DEF PaymentInv, RequestsSound, RacesSeen, Serves
    <3>2. ASSUME NEW g \in Handlers, NEW k \in Handlers, NEW t \in Sessions,
                 g # k, Serves(g, t)', Serves(k, t)',
                 \/ pc'[g] \in {"begin", "log"} /\ pc'[k] \in {"begin", "log"}
                 \/ pc'[g] = "write" /\ pc'[k] = "write"
          PROVE  t \in raced'
      BY <3>2, <1>1 DEF PaymentInv, RequestsSound, RacesSeen, Serves
    <3> QED
      BY <3>1, <3>2 DEF RacesSeen, Serves
  <2>6. PaymentsHonoured'
    <3> SUFFICES ASSUME NEW t \in logged, t \notin granted' \cup excused
        PROVE  \E k \in Handlers : pc'[k] = "write" /\ event'[k] = [kind |-> "checkout", session |-> t]
      BY <1>1 DEF PaymentsHonoured
    <3>1. PICK k \in Handlers : pc[k] = "write" /\ event[k] = [kind |-> "checkout", session |-> t]
      BY <2>2 DEF PaymentInv, PaymentsHonoured
    <3>2. k # h
      BY <2>1, <2>2, <3>1
    <3> QED
      BY <3>1, <3>2, <1>1 DEF PaymentInv, RequestsSound
  <2> QED
    BY <1>2, <2>4, <2>5, <2>6 DEF PaymentInv
<1> QED
  BY <1>3, <1>4

\* The process crashes with all requests it was serving.
LEMMA CrashKeeps ==
  ASSUME PaymentInv, Crash
  PROVE  PaymentInv'
<1>1. RequestsSound' /\ LoggedFirst' /\ RacesSeen' /\ GrantedOnce'
  BY DEF PaymentInv, Crash, RequestsSound, LoggedFirst, RacesSeen, GrantedOnce, billing
<1>2. PaymentsHonoured'
  BY DEF PaymentInv, LoggedFirst, PaymentsHonoured, Crash, billing
<1> QED
  BY <1>1, <1>2 DEF PaymentInv

\* A request comes in.
LEMMA ReceiveKeeps ==
  ASSUME PaymentInv, NEW e \in Events, NEW h \in Handlers, Receive(h, e)
  PROVE  PaymentInv'
<1> USE DEF Receive, CallUpdate, PaymentInv, RequestsSound
<1>1. CASE e.kind = "checkout"
  BY <1>1, OneMoves, CheckoutOrNot DEF billing, ghosts
<1>2. CASE e.kind # "checkout"
  BY <1>2, OneMoves DEF billing, ghosts
<1> QED
  BY <1>1, <1>2

\* A request ends; if it had still to write, its session is excused.
LEMMA EndKeeps ==
  ASSUME PaymentInv, NEW h \in Handlers, EndRequest(h),
         UNCHANGED <<logged, granted, twice, raced>>, excused \subseteq excused',
         pc[h] = "write" => \A s \in Sessions : Serves(h, s) => s \in excused'
  PROVE  PaymentInv'
<1>1. DOMAIN new' = Handlers /\ DOMAIN cold' = Handlers
  BY DEF EndRequest, PaymentInv, RequestsSound
<1> QED
  BY <1>1, OneMoves DEF EndRequest

\* A request fails where it is.
LEMMA FailKeeps ==
  ASSUME PaymentInv, NEW h \in Handlers, RequestFails(h)
  PROVE  PaymentInv'
<1>1. \A s \in Sessions : Serves(h, s) => event[h].kind = "checkout" /\ event[h].session = s
  BY DEF Serves
<1> QED
  BY <1>1, EndKeeps DEF RequestFails, billing

\* Every step keeps the invariant of the payments.
LEMMA PaymentStep == PaymentInv /\ [Next]_vars => PaymentInv'
<1> SUFFICES ASSUME PaymentInv, [Next]_vars PROVE PaymentInv'
  OBVIOUS
<1>1. CASE UNCHANGED vars
  BY <1>1, NothingMoves DEF vars, billing
<1>2. ASSUME NEW e \in Events, Emit(e) \/ Redeliver(e) PROVE PaymentInv'
  BY <1>2, NothingMoves DEF Emit, Redeliver
<1>3. ASSUME NEW e \in Events, NEW h \in Handlers, Receive(h, e) PROVE PaymentInv'
  BY <1>3, ReceiveKeeps
<1>4. ASSUME NEW h \in Handlers, Serve(h) PROVE PaymentInv'
  <2>1. CASE Ask(h)
    BY <2>1, AskKeeps
  <2>2. CASE Begin(h)
    <3>1. /\ pc[h] = "begin" /\ pc' = [pc EXCEPT ![h] = "log"]
          /\ event' = [event EXCEPT ![h] = event[h]]
          /\ UNCHANGED <<new, cold, logged, granted, twice, raced, excused>>
      BY <2>2 DEF Begin, billing, ghosts, PaymentInv, RequestsSound
    <3>2. /\ DOMAIN new' = Handlers /\ DOMAIN cold' = Handlers
          /\ excused \subseteq excused' /\ pc[h] # "write"
          /\ UNCHANGED <<logged, granted, twice, raced>>
      BY <3>1 DEF PaymentInv, RequestsSound
    <3> QED
      BY <3>1, <3>2, OneMoves
  <2>3. CASE Log(h)
    BY <2>3, LogKeeps
  <2>4. CASE Write(h)
    BY <2>4, WriteKeeps
  <2>5. CASE Store(h) \/ StoreRaises(h)
    BY <2>5, EndKeeps DEF Store, StoreRaises, billing, ghosts
  <2> QED
    BY <1>4, <2>1, <2>2, <2>3, <2>4, <2>5 DEF Serve
<1>5. ASSUME NEW h \in Handlers, RequestFails(h) PROVE PaymentInv'
  BY <1>5, FailKeeps
<1>6. ASSUME NEW r \in AllLoads, StartReload(r) \/ ReadAll(r) \/ Swap(r) \/ ReloadFails(r)
      PROVE  PaymentInv'
  BY <1>6, NothingMoves DEF StartReload, ReadAll, Swap, ReloadFails, billing
<1>7. ASSUME NEW r \in Reloaders, NEW l \in Languages, Patch(r, l) PROVE PaymentInv'
  BY <1>7, NothingMoves DEF Patch, billing
<1>8. CASE Leave \/ Enter \/ Evict
  BY <1>8, NothingMoves DEF Leave, Enter, Evict, billing
<1>9. CASE Crash
  BY <1>9, CrashKeeps
<1> QED
  BY <1>1, <1>2, <1>3, <1>4, <1>5, <1>6, <1>7, <1>8, <1>9 DEF Next

\* The payments' invariant holds for any sessions, requests and troubles.
THEOREM PaymentInvariant == Spec => []PaymentInv
BY PaymentInit, PaymentStep, PTL DEF Spec

\* A payment on record is in the guild's row, or about to be written there, or its
\* request failed between the two queries (stripe_router.py:88-104).
THEOREM PaymentsAlwaysHonoured == Spec => []PaymentsHonoured
<1>1. PaymentInv => PaymentsHonoured
  BY DEF PaymentInv
<1> QED
  BY <1>1, PaymentInvariant, PTL

\* Two grants of a session need two deliveries of it that both looked it up before
\* either had logged it (stripe_router.py:65-90).
THEOREM AlwaysGrantedOnce == Spec => []GrantedOnce
<1>1. PaymentInv => GrantedOnce
  BY DEF PaymentInv
<1> QED
  BY <1>1, PaymentInvariant, PTL

-----------------------------------------------------------------------------
(* The cache.                                                              *)

\* What a request or a reload holds is the row unless it is stale.
FreshHolders ==
  /\ \A h \in Handlers : pc[h] = "store" /\ h \notin stale => new[h] = row
  /\ \A r \in AllLoads : reload[r] = "swap" /\ r \notin stale => seen[r] = row

\* Someone is about to bring the row into the cache.
Refreshing ==
  \/ \E h \in Handlers : pc[h] = "store" /\ h \notin stale
  \/ \E r \in AllLoads : reload[r] = "read" \/ (reload[r] = "swap" /\ r \notin stale)

CacheInv ==
  /\ DOMAIN pc = Handlers /\ DOMAIN new = Handlers
  /\ DOMAIN reload = AllLoads /\ DOMAIN seen = AllLoads
  /\ FreshHolders
  /\ clean => cache \in {None, row} \/ Refreshing

\* Requests and loads have different names.
LEMMA Apart == Handlers \cap AllLoads = {} /\ Reloaders \subseteq AllLoads
  BY EntitlementAssumption DEF AllLoads

\* Steps of a request that neither write the row nor store it.
LEMMA RequestMoves ==
  ASSUME CacheInv, NEW h \in Handlers, NEW place, place # "store",
         pc[h] # "store", pc' = [pc EXCEPT ![h] = place],
         DOMAIN new' = Handlers, \A k \in Handlers \ {h} : new'[k] = new[k],
         UNCHANGED <<row, cache, reload, seen, stale, clean>>
  PROVE  CacheInv'
<1>1. FreshHolders'
  BY DEF CacheInv, FreshHolders
<1>2. Refreshing => Refreshing'
  BY DEF CacheInv, Refreshing
<1> QED
  BY <1>1, <1>2 DEF CacheInv

\* A request ends where it would store the settings: with them in the cache, or without.
LEMMA RequestEnds ==
  ASSUME CacheInv, NEW h \in Handlers, pc[h] = "store", EndRequest(h),
         UNCHANGED <<row, reload, seen>>, stale' = stale \ {h},
         \/ cache' = new[h] /\ clean' = (clean /\ h \notin stale)
         \/ cache' = cache /\ clean' = (clean /\ cache = None)
  PROVE  CacheInv'
<1>1. FreshHolders'
  BY Apart DEF CacheInv, FreshHolders, EndRequest
<1>2. clean' => cache' \in {None, row'}
  BY DEF CacheInv, FreshHolders
<1> QED
  BY <1>1, <1>2 DEF CacheInv, EndRequest

\* Row and cache agree at the start, and nobody is serving a request.
LEMMA CacheInit == Init => CacheInv
  BY DEF Init, CacheInv, FreshHolders, Refreshing

\* A request that writes the row is about to store what it wrote.
LEMMA WriteRefreshes ==
  ASSUME CacheInv, NEW h \in Handlers, Write(h)
  PROVE  CacheInv'
<1>1. /\ row' = new[h] /\ pc' = [pc EXCEPT ![h] = "store"]
      /\ h \notin stale'
      /\ \A k \in Handlers : k # h /\ pc[k] = "store" => k \in stale'
      /\ \A r \in AllLoads : reload[r] = "swap" => r \in stale'
      /\ UNCHANGED <<new, cache, reload, seen, clean>>
  BY Apart DEF Write, Outdates, reloads
<1>2. FreshHolders'
  BY <1>1 DEF CacheInv, FreshHolders
<1>3. Refreshing'
  BY <1>1 DEF CacheInv, Refreshing
<1> QED
  BY <1>1, <1>2, <1>3 DEF CacheInv

\* The console changes the row and reloads.
LEMMA PatchRefreshes ==
  ASSUME CacheInv, NEW r \in Reloaders, NEW l \in Languages, Patch(r, l)
  PROVE  CacheInv'
<1>1. /\ reload' = [reload EXCEPT ![r] = "read"] /\ reload[r] = "idle"
      /\ \A k \in Handlers : pc[k] = "store" => k \in stale'
      /\ \A q \in AllLoads : reload[q] = "swap" => q \in stale'
      /\ UNCHANGED <<pc, new, cache, seen, clean>>
  BY Apart DEF Patch, Outdates, requests
<1>2. FreshHolders'
  BY <1>1, Apart DEF CacheInv, FreshHolders
<1>3. r \in AllLoads /\ reload'[r] = "read"
  BY <1>1, Apart DEF CacheInv
<1>4. Refreshing'
  BY <1>3 DEF Refreshing
<1> QED
  BY <1>1, <1>2, <1>4 DEF CacheInv

\* The steps of a reload.
LEMMA ReloadSteps ==
  ASSUME CacheInv, NEW r \in AllLoads,
         StartReload(r) \/ ReadAll(r) \/ Swap(r) \/ ReloadFails(r)
  PROVE  CacheInv'
<1>1. CASE StartReload(r)
  BY <1>1, Apart DEF StartReload, CacheInv, FreshHolders, Refreshing, requests
<1>2. CASE ReadAll(r)
  BY <1>2, Apart DEF ReadAll, CacheInv, FreshHolders, Refreshing, requests
<1>3. CASE Swap(r)
  BY <1>3, Apart DEF Swap, CacheInv, FreshHolders, requests
<1>4. CASE ReloadFails(r)
  BY <1>4, Apart DEF ReloadFails, CacheInv, FreshHolders, requests
<1> QED
  BY <1>1, <1>2, <1>3, <1>4

\* Every step keeps the invariant of the cache.
LEMMA CacheStep == CacheInv /\ PaymentInv /\ [Next]_vars => CacheInv'
<1> SUFFICES ASSUME CacheInv, PaymentInv, [Next]_vars PROVE CacheInv'
  OBVIOUS
<1>1. CASE UNCHANGED vars
  BY <1>1 DEF vars, requests, reloads, CacheInv, FreshHolders, Refreshing
<1>2. ASSUME NEW e \in Events, Emit(e) \/ Redeliver(e) PROVE CacheInv'
  BY <1>2 DEF Emit, Redeliver, requests, reloads, CacheInv, FreshHolders, Refreshing
<1>3. ASSUME NEW e \in Events, NEW h \in Handlers, Receive(h, e) PROVE CacheInv'
  BY <1>3, RequestMoves DEF Receive, CallUpdate, reloads, CacheInv
<1>4. ASSUME NEW h \in Handlers, Serve(h) PROVE CacheInv'
  <2>1. CASE Ask(h)
    BY <2>1, RequestMoves DEF Ask, EndRequest, reloads, CacheInv
  <2>2. CASE Begin(h)
    BY <2>2, RequestMoves DEF Begin, reloads, CacheInv
  <2>3. CASE Log(h)
    BY <2>3, RequestMoves DEF Log, CallUpdate, reloads, CacheInv
  <2>4. CASE Write(h)
    BY <2>4, WriteRefreshes
  <2>5. CASE Store(h) \/ StoreRaises(h)
    BY <2>5, RequestEnds DEF Store, StoreRaises, reloads
  <2> QED
    BY <1>4, <2>1, <2>2, <2>3, <2>4, <2>5 DEF Serve
<1>5. ASSUME NEW h \in Handlers, RequestFails(h) PROVE CacheInv'
  BY <1>5, RequestMoves DEF RequestFails, EndRequest, reloads, CacheInv
<1>6. ASSUME NEW r \in AllLoads, StartReload(r) \/ ReadAll(r) \/ Swap(r) \/ ReloadFails(r)
      PROVE  CacheInv'
  BY <1>6, ReloadSteps
<1>7. ASSUME NEW r \in Reloaders, NEW l \in Languages, Patch(r, l) PROVE CacheInv'
  BY <1>7, PatchRefreshes
<1>8. CASE Leave \/ Enter \/ Evict
  BY <1>8 DEF Leave, Enter, Evict, requests, reloads, CacheInv, FreshHolders, Refreshing
<1>9. CASE Crash
  BY <1>9 DEF Crash, CacheInv, FreshHolders
<1> QED
  BY <1>1, <1>2, <1>3, <1>4, <1>5, <1>6, <1>7, <1>8, <1>9 DEF Next

\* Between requests the cache shows the guild's row, whatever the cache went through,
\* as long as no stale settings, failed reload or default entry came in between
\* (guild_repo.py:115-191).
THEOREM CacheAlwaysMatches == Spec => []CacheMatchesRow
<1>1. Init => CacheInv
  BY CacheInit
<1>2. CacheInv /\ PaymentInv /\ [Next]_vars => CacheInv'
  BY CacheStep
<1>3. CacheInv => CacheMatchesRow
  BY DEF CacheInv, Refreshing, CacheMatchesRow
<1> QED
  BY <1>1, <1>2, <1>3, PaymentInvariant, PTL DEF Spec
=============================================================================
