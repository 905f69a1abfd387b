------------------------------ MODULE ApiClient ------------------------------
(***************************************************************************)
(* The HTTP client of the web console: web/src/api/client.ts with its      *)
(* circuit breaker (circuitBreaker.ts), its queue of mutations             *)
(* (core/mutationQueue.ts) and its headers (core/authHeaders.ts).          *)
(*                                                                         *)
(* One element of Requests is one call of request().  JavaScript runs to   *)
(* the next await, so an action below is the code between two awaits.  A   *)
(* call has two sides: its execution (phase), which goes on whatever the   *)
(* caller does, and what the caller was told (told), which an abort        *)
(* settles at once.  Answers are abstracted to the classes the code tells  *)
(* apart.  Time is abstracted: a timer may fire whenever it is armed.      *)
(***************************************************************************)
EXTENDS Naturals, Sequences, FiniteSets

CONSTANTS
  Requests,           \* the calls of request()
  Mutations,          \* those whose method is POST, PUT, PATCH or DELETE
  DedupKey,           \* [Requests -> key]: method, endpoint and body
  Deduped,            \* the calls made with dedup (the default of GET)
  Abortable,          \* the calls made with a custom signal
  MaxRetries,         \* [Requests -> Nat]
  MaxConcurrentMutations, FailureThreshold, HalfOpenSuccessThreshold,
  MaxExpiries         \* bound: how often the server expires the access token

ASSUME ApiAssumption ==
  /\ IsFiniteSet(Requests) /\ MaxExpiries \in Nat
  /\ Mutations \subseteq Requests /\ Deduped \subseteq Requests
  /\ Abortable \subseteq Requests
  /\ Mutations \cap Deduped = {}
  /\ MaxRetries \in [Requests -> Nat]
  /\ MaxConcurrentMutations \in Nat \ {0}
  /\ FailureThreshold \in Nat \ {0}
  /\ HalfOpenSuccessThreshold \in Nat \ {0}

VARIABLES
  phase,              \* [Requests -> Phases], the await the execution is at
  attempt,            \* [Requests -> Nat], the local variable of the loop
  refreshedAuth,      \* the calls whose hasRefreshedAuth is set
  answer,             \* [Requests -> Answers], how the server took the token
  told,               \* [Requests -> ToldCaller], how the returned promise settled
  aborted,            \* the calls whose custom signal is aborted
  leader,             \* [Requests -> Requests], whose promise the call returned
  mutationQueue, activeMutations,
  breaker, failureCount, successCount,
  cooledDown,         \* cooldownMs have passed since lastFailureTime
  authToken, validToken,   \* the token in memory, the token the server accepts
  isRefreshingToken, refreshSubscribers,
  applied             \* [Requests -> Nat], how often the server executed the call

queueVars == <<mutationQueue, activeMutations>>
breakerVars == <<breaker, failureCount, successCount, cooledDown>>
tokenVars == <<authToken, validToken, isRefreshingToken, refreshSubscribers>>
callVars == <<phase, attempt, refreshedAuth, answer, told, aborted, leader>>
apiVars == <<callVars, queueVars, breakerVars, tokenVars, applied>>

Phases == {"idle", "queued", "attempt", "fetching", "reading", "refreshing",
           "parked", "joined", "done"}
Answers == {"none", "accepted", "unauthorized"}
ToldCaller == {"nothing", "ok", "error", "cancelled"}
NoToken == 0
Tokens == 0 .. MaxExpiries + 1

ApiTypeOK ==
  /\ phase \in [Requests -> Phases] /\ attempt \in [Requests -> Nat]
  /\ refreshedAuth \subseteq Requests /\ answer \in [Requests -> Answers]
  /\ told \in [Requests -> ToldCaller] /\ aborted \subseteq Requests
  /\ leader \in [Requests -> Requests]
  /\ mutationQueue \in Seq(Requests) /\ activeMutations \in Nat
  /\ breaker \in {"CLOSED", "OPEN", "HALF_OPEN"}
  /\ failureCount \in Nat /\ successCount \in Nat /\ cooledDown \in BOOLEAN
  /\ authToken \in Tokens /\ validToken \in Tokens
  /\ isRefreshingToken \in BOOLEAN /\ refreshSubscribers \in Seq(Requests)
  /\ applied \in [Requests -> Nat]

ApiInit ==
  /\ phase = [r \in Requests |-> "idle"] /\ attempt = [r \in Requests |-> 0]
  /\ refreshedAuth = {} /\ answer = [r \in Requests |-> "none"]
  /\ told = [r \in Requests |-> "nothing"] /\ aborted = {}
  /\ leader = [r \in Requests |-> r]
  /\ mutationQueue = <<>> /\ activeMutations = 0
  /\ breaker = "CLOSED" /\ failureCount = 0 /\ successCount = 0
  /\ cooledDown = FALSE
  /\ authToken = 1 /\ validToken = 1
  /\ isRefreshingToken = FALSE /\ refreshSubscribers = <<>>
  /\ applied = [r \in Requests |-> 0]

-----------------------------------------------------------------------------
(* The circuit breaker.                                                     *)

\* getState: an open breaker turns half open when it is looked at late enough.
getState == IF breaker = "OPEN" /\ cooledDown THEN "HALF_OPEN" ELSE breaker

\* What transitionTo leaves behind when getState made the breaker half open.
SuccessesSeen == IF breaker = "OPEN" THEN 0 ELSE successCount

isAvailable ==
  /\ breaker' = getState
  /\ successCount' = IF getState = breaker THEN successCount ELSE 0
  /\ UNCHANGED <<failureCount, cooledDown>>

recordSuccess ==
  /\ UNCHANGED cooledDown
  /\ \/ /\ getState = "HALF_OPEN" /\ SuccessesSeen + 1 >= HalfOpenSuccessThreshold
        /\ breaker' = "CLOSED" /\ failureCount' = 0 /\ successCount' = 0
     \/ /\ getState = "HALF_OPEN" /\ SuccessesSeen + 1 < HalfOpenSuccessThreshold
        /\ breaker' = "HALF_OPEN" /\ successCount' = SuccessesSeen + 1
        /\ UNCHANGED failureCount
     \/ getState = "CLOSED" /\ failureCount' = 0 /\ UNCHANGED <<breaker, successCount>>
     \/ getState = "OPEN" /\ UNCHANGED <<breaker, failureCount, successCount>>

\* Mutant: a failure is counted in every state.
recordEveryFailure ==
  /\ cooledDown' = FALSE /\ UNCHANGED successCount
  /\ failureCount' = failureCount + 1
  /\ breaker' = IF breaker = "CLOSED" /\ failureCount + 1 < FailureThreshold
                THEN "CLOSED" ELSE "OPEN"

\* The failure time is taken first: an open breaker stays open, for longer.
recordFailure ==
  /\ cooledDown' = FALSE
  /\ UNCHANGED successCount
  /\ failureCount' = IF breaker = "CLOSED" THEN failureCount + 1 ELSE failureCount
  /\ breaker' = IF breaker = "CLOSED" /\ failureCount + 1 < FailureThreshold
                THEN "CLOSED" ELSE "OPEN"

\* The clock: cooldownMs after the last recorded failure.
CoolDown ==
  /\ breaker = "OPEN" /\ ~cooledDown
  /\ cooledDown' = TRUE
  /\ UNCHANGED <<callVars, queueVars, breaker, failureCount, successCount, tokenVars, applied>>

-----------------------------------------------------------------------------
(* The mutation queue.                                                      *)

hasFreeSlot == activeMutations < MaxConcurrentMutations

acquireSlot(r) ==
  IF hasFreeSlot
  THEN activeMutations' = activeMutations + 1 /\ UNCHANGED mutationQueue
  ELSE mutationQueue' = Append(mutationQueue, r) /\ UNCHANGED activeMutations

\* Mutant: the slot is freed and not handed to a waiter.
releaseToNobody(phases_) ==
  /\ activeMutations' = IF activeMutations = 0 THEN 0 ELSE activeMutations - 1
  /\ phase' = phases_
  /\ UNCHANGED mutationQueue

\* Mutant: the waiter's callback does not count itself.
releaseUncounted(phases_) ==
  /\ activeMutations' = IF activeMutations = 0 THEN 0 ELSE activeMutations - 1
  /\ IF mutationQueue = <<>> THEN phase' = phases_ /\ UNCHANGED mutationQueue
     ELSE /\ phase' = [phases_ EXCEPT ![Head(mutationQueue)] = "attempt"]
          /\ mutationQueue' = Tail(mutationQueue)

\* releaseSlot hands the slot to the first waiter, if any (the waiter's callback
\* counts itself); the phases that result are phases_.
releaseSlot(phases_) ==
  IF mutationQueue = <<>>
  THEN /\ activeMutations' = IF activeMutations = 0 THEN 0 ELSE activeMutations - 1
       /\ phase' = phases_
       /\ UNCHANGED mutationQueue
  ELSE /\ activeMutations' = (IF activeMutations = 0 THEN 0 ELSE activeMutations - 1) + 1
       /\ phase' = [phases_ EXCEPT ![Head(mutationQueue)] = "attempt"]
       /\ mutationQueue' = Tail(mutationQueue)

-----------------------------------------------------------------------------
(* A call of request().                                                     *)

\* Mutant: the promise is forgotten once its request has been sent.
InFlightUntilSent(r) ==
  {l \in Deduped : DedupKey[l] = DedupKey[r] /\ leader[l] = l /\ phase[l] = "attempt"}

\* The execution a new call of the same key joins: inFlightRequests.
InFlight(r) ==
  {l \in Deduped : /\ DedupKey[l] = DedupKey[r] /\ leader[l] = l
                   /\ phase[l] \notin {"idle", "done"}}

\* An open breaker fails the call before anything is sent or joined.
FailFast(r) ==
  /\ phase[r] = "idle" /\ getState = "OPEN"
  /\ phase' = [phase EXCEPT ![r] = "done"]
  /\ told' = [told EXCEPT ![r] = "error"]
  /\ isAvailable
  /\ UNCHANGED <<attempt, refreshedAuth, answer, aborted, leader, queueVars, tokenVars, applied>>

JoinInFlight(r) ==
  /\ phase[r] = "idle" /\ r \in Deduped /\ getState # "OPEN"
  /\ \E l \in InFlight(r) : leader' = [leader EXCEPT ![r] = l]
  /\ phase' = [phase EXCEPT ![r] = "joined"]
  /\ isAvailable
  /\ UNCHANGED <<attempt, refreshedAuth, answer, told, aborted, queueVars, tokenVars, applied>>

StartRequest(r) ==
  /\ phase[r] = "idle" /\ getState # "OPEN"
  /\ r \in Deduped => InFlight(r) = {}
  /\ isAvailable
  /\ IF r \in Mutations
     THEN /\ acquireSlot(r)
          /\ phase' = [phase EXCEPT ![r] = IF hasFreeSlot THEN "attempt" ELSE "queued"]
     ELSE phase' = [phase EXCEPT ![r] = "attempt"] /\ UNCHANGED queueVars
  /\ UNCHANGED <<attempt, refreshedAuth, answer, told, aborted, leader, tokenVars, applied>>

\* The caller aborts its signal: its promise rejects, the execution goes on.
Abort(r) ==
  /\ r \in Abortable /\ phase[r] # "idle" /\ told[r] = "nothing"
  /\ aborted' = aborted \cup {r}
  /\ told' = [told EXCEPT ![r] = "cancelled"]
  /\ UNCHANGED <<phase, attempt, refreshedAuth, answer, leader, queueVars, breakerVars, tokenVars, applied>>

\* One turn of the loop up to the fetch, with the headers of this moment.
\* The server answers 401 to a token it does not accept, and executes nothing;
\* else it executes the request, or refuses it, or never sees it.
Send(r) ==
  /\ phase[r] = "attempt"
  /\ phase' = [phase EXCEPT ![r] = "fetching"]
  /\ IF authToken = validToken
     THEN /\ answer' = [answer EXCEPT ![r] = "accepted"]
          /\ \E executed \in {0, 1} : applied' = [applied EXCEPT ![r] = @ + executed]
     ELSE answer' = [answer EXCEPT ![r] = "unauthorized"] /\ UNCHANGED applied
  /\ UNCHANGED <<attempt, refreshedAuth, told, aborted, leader, queueVars, breakerVars, tokenVars>>

\* The headers of the answer arrive; a first 401 asks for one refresh, which is
\* under way already, or which this call starts.
Respond(r) ==
  /\ phase[r] = "fetching"
  /\ UNCHANGED <<attempt, answer, told, aborted, leader, queueVars, breakerVars, authToken, validToken, applied>>
  /\ IF answer[r] = "unauthorized" /\ r \notin refreshedAuth
     THEN /\ refreshedAuth' = refreshedAuth \cup {r}
          /\ IF isRefreshingToken
             THEN /\ refreshSubscribers' = Append(refreshSubscribers, r)
                  /\ phase' = [phase EXCEPT ![r] = "parked"]
                  /\ UNCHANGED isRefreshingToken
             ELSE /\ isRefreshingToken' = TRUE
                  /\ phase' = [phase EXCEPT ![r] = "refreshing"]
                  /\ UNCHANGED refreshSubscribers
     ELSE /\ phase' = [phase EXCEPT ![r] = "reading"]
          /\ UNCHANGED <<refreshedAuth, isRefreshingToken, refreshSubscribers>>

\* Mutant: a refresh that does not renew the token leaves the subscribers parked.
refreshWithoutCatch(r) ==
  /\ phase[r] = "refreshing"
  /\ isRefreshingToken' = FALSE /\ refreshSubscribers' = <<>>
  /\ \E renewed \in BOOLEAN :
       /\ authToken' = IF renewed THEN validToken ELSE authToken
       /\ phase' = [q \in Requests |->
            IF q = r THEN IF renewed THEN "attempt" ELSE "reading"
            ELSE IF renewed /\ phase[q] = "parked" THEN "attempt" ELSE phase[q]]
  /\ UNCHANGED <<attempt, refreshedAuth, answer, told, aborted, leader, queueVars, breakerVars, validToken, applied>>

\* The refresh handler answers: with a token the server accepts, with null, or
\* by throwing (which leaves the token in memory).  Everyone parked goes on.
handleTokenRefresh(r) ==
  /\ phase[r] = "refreshing"
  /\ isRefreshingToken' = FALSE /\ refreshSubscribers' = <<>>
  /\ \E renewed \in BOOLEAN :
       /\ \/ authToken' = (IF renewed THEN validToken ELSE NoToken)
          \/ ~renewed /\ UNCHANGED authToken
       /\ phase' = [q \in Requests |->
            IF q = r \/ \E i \in DOMAIN refreshSubscribers : refreshSubscribers[i] = q
            THEN IF renewed THEN "attempt" ELSE "reading"
            ELSE phase[q]]
  /\ UNCHANGED <<attempt, refreshedAuth, answer, told, aborted, leader, queueVars, breakerVars, validToken, applied>>

\* How the promise of r and the promises of those that joined it settle; the
\* finally clauses give the slot back and forget the in-flight promise.
Settle(r, outcome) ==
  LET mine == {q \in Requests : q = r \/ (leader[q] = r /\ phase[q] = "joined")}
      phases_ == [q \in Requests |-> IF q \in mine THEN "done" ELSE phase[q]]
  IN /\ told' = [q \in Requests |->
                   IF q \in mine /\ told[q] = "nothing" THEN outcome ELSE told[q]]
     /\ IF r \in Mutations THEN releaseSlot(phases_)
        ELSE phase' = phases_ /\ UNCHANGED queueVars

\* Mutant: the loop's own bound decides.
mayRetryOnceMore(r) == attempt[r] <= MaxRetries[r] /\ r \notin aborted

\* The next attempt after the backoff, unless it was the last one or the caller
\* that started the execution has gone.
mayRetry(r) == attempt[r] < MaxRetries[r] /\ r \notin aborted

RetryOrThrow(r, retryable) ==
  IF retryable /\ mayRetry(r)
  THEN /\ attempt' = [attempt EXCEPT ![r] = @ + 1]
       /\ phase' = [phase EXCEPT ![r] = "attempt"]
       /\ UNCHANGED <<told, queueVars>>
  ELSE Settle(r, "error") /\ UNCHANGED attempt

\* A good body: validation may still reject it, which the breaker never hears of.
ReturnData(r) ==
  /\ phase[r] = "reading" /\ answer[r] = "accepted" /\ applied[r] > 0
  /\ \E valid \in BOOLEAN :
       IF valid THEN recordSuccess /\ Settle(r, "ok")
       ELSE UNCHANGED breakerVars /\ Settle(r, "error")
  /\ UNCHANGED <<attempt, refreshedAuth, answer, aborted, leader, tokenVars, applied>>

\* An error status: 5xx counts on the breaker; 5xx, 408 and 429 are retried.
ThrowStatus(r) ==
  /\ phase[r] = "reading"
  /\ \E status \in {"4xx", "429", "5xx"} :
       /\ answer[r] = "unauthorized" => status = "4xx"
       /\ IF status = "5xx" THEN recordFailure ELSE UNCHANGED breakerVars
       /\ RetryOrThrow(r, status # "4xx")
  /\ UNCHANGED <<refreshedAuth, answer, aborted, leader, tokenVars, applied>>

\* No answer (network failure, the timeout of the attempt) or an unreadable body.
\* A failure counts on the breaker unless the caller has gone.
ThrowNetwork(r) ==
  /\ phase[r] \in {"fetching", "reading"}
  /\ IF r \in aborted THEN UNCHANGED breakerVars ELSE recordFailure
  /\ RetryOrThrow(r, TRUE)
  /\ UNCHANGED <<refreshedAuth, answer, aborted, leader, tokenVars, applied>>

\* The server stops accepting the access token.
ExpireToken ==
  /\ validToken <= MaxExpiries
  /\ validToken' = validToken + 1
  /\ UNCHANGED <<callVars, queueVars, breakerVars, authToken, isRefreshingToken, refreshSubscribers, applied>>

Progress(r) ==
  \/ Send(r) \/ Respond(r) \/ handleTokenRefresh(r)
  \/ ReturnData(r) \/ ThrowStatus(r) \/ ThrowNetwork(r)

ApiNext ==
  \/ CoolDown \/ ExpireToken
  \/ \E r \in Requests :
       \/ FailFast(r) \/ JoinInFlight(r) \/ StartRequest(r) \/ Abort(r)
       \/ Progress(r)

\* Fairness: a fetch is answered or its timer fires, a refresh and a body that
\* is being read come to an end.
ApiFairness == \A r \in Requests : WF_apiVars(Progress(r))

ApiSpec == ApiInit /\ [][ApiNext]_apiVars /\ ApiFairness

-----------------------------------------------------------------------------
(* Properties.                                                              *)

HoldsSlot(r) ==
  r \in Mutations /\ phase[r] \in {"attempt", "fetching", "reading", "refreshing", "parked"}

\* Slots are neither leaked nor handed out twice on any path of request(): the
\* counter is the number of executions that hold one, it never passes the limit,
\* and a mutation waits only while every slot is taken.
SlotsAccounted ==
  /\ activeMutations = Cardinality({r \in Requests : HoldsSlot(r)})
  /\ activeMutations <= MaxConcurrentMutations
  /\ mutationQueue # <<>> => activeMutations = MaxConcurrentMutations

\* The callers that meet an expired token share one refresh: at most one call
\* runs the handler, and nobody is parked when no handler is running.
OneRefresh ==
  /\ Cardinality({r \in Requests : phase[r] = "refreshing"}) = IF isRefreshingToken THEN 1 ELSE 0
  /\ \A r \in Requests : phase[r] = "parked" =>
       isRefreshingToken /\ \E i \in DOMAIN refreshSubscribers : refreshSubscribers[i] = r

\* A mutation that is not to be retried is executed at most once, whatever is
\* lost on the way and however often its token expires.
AppliedOnce == \A r \in Mutations : MaxRetries[r] = 0 => applied[r] <= 1

\* At most one execution of a key is under way, and who joined one waits for an
\* execution that is still to settle.
OneExecutionPerKey ==
  LET Runs(r) == phase[r] \notin {"idle", "joined", "done"}
  IN \A q, r \in Deduped : DedupKey[q] = DedupKey[r] =>
       /\ Runs(q) /\ Runs(r) => q = r
       /\ phase[r] = "joined" => Runs(leader[r]) /\ DedupKey[leader[r]] = DedupKey[r]

\* The counters mean what the state says, also when successes and failures of
\* requests sent before the breaker opened arrive after it: a closed breaker has
\* counted too few failures to open, an open one enough, a half-open one too few
\* successes to close.
BreakerCounts ==
  /\ (breaker = "CLOSED") <=> (failureCount < FailureThreshold)
  /\ failureCount <= FailureThreshold
  /\ breaker = "HALF_OPEN" => successCount < HalfOpenSuccessThreshold

\* What the client does one at a time stays so: a slot has one holder, a refresh
\* serves every caller that waits for it, a key has one execution that others join.
OneAtATime == SlotsAccounted /\ OneRefresh /\ OneExecutionPerKey

\* No caller waits for ever: every started call is answered, rejected or
\* cancelled, also those queued behind other mutations, parked on a refresh or
\* joined to another call.  (Each call of Requests is made once, so "all of them"
\* is no weaker than "each of them".)
Unsettled == {r \in Requests : phase[r] # "idle" /\ told[r] = "nothing"}
Settles == []<>(Unsettled = {})
=============================================================================
