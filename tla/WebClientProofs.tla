--------------------------- MODULE WebClientProofs --------------------------
(***************************************************************************)
(* Theorems about the API client and the session of a tab, for any calls,   *)
(* limits, thresholds, logins and runs of the callback page.                *)
(***************************************************************************)
EXTENDS ApiClient, WebSession, FiniteSetTheorems, TLAPS

-----------------------------------------------------------------------------
(* The API client.                                                          *)

-----------------------------------------------------------------------------
(* The inductive invariant.                                                *)

\* Who waits for a slot is queued, once, and is a mutation.
QueueSound ==
  /\ \A i, j \in DOMAIN mutationQueue : mutationQueue[i] = mutationQueue[j] => i = j
  /\ \A i \in DOMAIN mutationQueue :
       phase[mutationQueue[i]] = "queued" /\ mutationQueue[i] \in Mutations

\* Who is subscribed to the refresh is parked; one call refreshes if any does.
RefreshSound ==
  /\ \A i \in DOMAIN refreshSubscribers : phase[refreshSubscribers[i]] = "parked"
  /\ \A q, r \in Requests : phase[q] = "refreshing" /\ phase[r] = "refreshing" => q = r
  /\ isRefreshingToken <=> \E r \in Requests : phase[r] = "refreshing"
  /\ \A r \in Requests : phase[r] = "parked" =>
       isRefreshingToken /\ \E i \in DOMAIN refreshSubscribers : refreshSubscribers[i] = r

\* A call that runs by itself.
Executes(r) == phase[r] \notin {"idle", "joined", "done"}

\* A call that has joined no other leads itself, so a new one finds it in flight.
LeadersSound ==
  /\ \A r \in Requests : phase[r] \in {"joined", "done"} \/ leader[r] = r
  /\ \A q, r \in Deduped :
       DedupKey[q] = DedupKey[r] /\ Executes(q) /\ Executes(r) => q = r
  /\ \A r \in Requests : phase[r] = "joined" =>
       /\ r \in Deduped /\ leader[r] \in Deduped /\ Executes(leader[r])
       /\ DedupKey[leader[r]] = DedupKey[r]

\* A mutation without retries that the server has executed is on its way back.
AppliedSound ==
  \A r \in Mutations : MaxRetries[r] = 0 =>
    /\ attempt[r] = 0 /\ applied[r] \in {0, 1}
    /\ applied[r] = 1 =>
         phase[r] = "done" \/ (phase[r] \in {"fetching", "reading"} /\ answer[r] = "accepted")

\* What is kept about the calls.
ClientInv ==
  /\ ApiTypeOK /\ BreakerCounts /\ QueueSound /\ SlotsAccounted /\ RefreshSound
  /\ LeadersSound /\ AppliedSound

-----------------------------------------------------------------------------
(* How a call ends.                                                        *)

\* A call and those that joined it.
JoinedTo(r) == {q \in Requests : q = r \/ (leader[q] = r /\ phase[q] = "joined")}

\* The phases after the promise of r has settled: r and those that joined it are
\* done, and the first mutation in the queue has the slot of r.
LEMMA SettlePhases ==
  ASSUME ApiTypeOK, QueueSound, NEW r \in Requests, NEW o, phase[r] # "queued", Settle(r, o)
  PROVE  /\ r \in Mutations /\ mutationQueue # <<>> =>
              /\ Head(mutationQueue) \in Requests /\ Head(mutationQueue) \notin JoinedTo(r)
              /\ phase[Head(mutationQueue)] = "queued"
              /\ Head(mutationQueue) \in Mutations
         /\ phase' = [q \in Requests |->
              IF q \in JoinedTo(r) THEN "done"
              ELSE IF r \in Mutations /\ mutationQueue # <<>> /\ q = Head(mutationQueue)
                   THEN "attempt" ELSE phase[q]]
<1>1. r \in Mutations /\ mutationQueue # <<>> =>
        /\ 1 \in DOMAIN mutationQueue /\ Head(mutationQueue) = mutationQueue[1]
        /\ Head(mutationQueue) \in Requests
  BY DEF ApiTypeOK
<1>2. r \in Mutations /\ mutationQueue # <<>> =>
        /\ phase[Head(mutationQueue)] = "queued" /\ Head(mutationQueue) \in Mutations
        /\ Head(mutationQueue) \notin JoinedTo(r)
  BY <1>1 DEF QueueSound, JoinedTo
<1>3. CASE r \in Mutations /\ mutationQueue # <<>>
  BY <1>1, <1>2, <1>3 DEF Settle, releaseSlot, JoinedTo
<1>4. CASE ~(r \in Mutations /\ mutationQueue # <<>>)
  BY <1>4 DEF Settle, releaseSlot, JoinedTo
<1> QED
  BY <1>1, <1>2, <1>3, <1>4

-----------------------------------------------------------------------------
(* Types.                                                                  *)

\* Settling a call keeps the types,
LEMMA SettleType ==
  ASSUME ApiTypeOK, QueueSound, NEW r \in Requests, phase[r] # "queued",
         NEW o \in ToldCaller, Settle(r, o)
  PROVE  /\ phase' \in [Requests -> Phases] /\ told' \in [Requests -> ToldCaller]
         /\ mutationQueue' \in Seq(Requests) /\ activeMutations' \in Nat
<1>1. phase' \in [Requests -> Phases]
  BY SettlePhases DEF ApiTypeOK, Phases
<1>2. told' \in [Requests -> ToldCaller]
  BY DEF Settle, ApiTypeOK
<1>3. CASE r \in Mutations /\ mutationQueue # <<>>
  <2>1. mutationQueue \in Seq(Requests) /\ activeMutations \in Nat
    BY DEF ApiTypeOK
  <2>2. mutationQueue' = Tail(mutationQueue) /\ activeMutations' \in Nat
    BY <1>3, <2>1 DEF Settle, releaseSlot
  <2> QED
    BY <1>1, <1>2, <1>3, <2>1, <2>2
<1>4. CASE ~(r \in Mutations /\ mutationQueue # <<>>)
  <2>1. mutationQueue' = mutationQueue /\ activeMutations' \in Nat
    BY <1>4 DEF Settle, releaseSlot, ApiTypeOK, queueVars
  <2> QED
    BY <1>1, <1>2, <2>1 DEF ApiTypeOK
<1> QED
  BY <1>3, <1>4

\* and so does a retry,
LEMMA RetryType ==
  ASSUME ApiTypeOK, QueueSound, NEW r \in Requests, phase[r] # "queued",
         NEW b \in BOOLEAN, RetryOrThrow(r, b)
  PROVE  /\ phase' \in [Requests -> Phases] /\ told' \in [Requests -> ToldCaller]
         /\ mutationQueue' \in Seq(Requests) /\ activeMutations' \in Nat
         /\ attempt' \in [Requests -> Nat]
<1>1. CASE b /\ mayRetry(r)
  <2>1. /\ attempt' = [attempt EXCEPT ![r] = attempt[r] + 1]
        /\ phase' = [phase EXCEPT ![r] = "attempt"] /\ UNCHANGED <<told, queueVars>>
    BY <1>1 DEF RetryOrThrow
  <2> QED
    BY <2>1 DEF ApiTypeOK, Phases, queueVars
<1>2. CASE ~(b /\ mayRetry(r))
  BY <1>2, SettleType DEF RetryOrThrow, ApiTypeOK, ToldCaller
<1> QED
  BY <1>1, <1>2

\* and the breaker.
LEMMA BreakerType ==
  ASSUME ApiTypeOK, recordSuccess \/ recordFailure \/ UNCHANGED breakerVars \/ isAvailable
  PROVE  /\ breaker' \in {"CLOSED", "OPEN", "HALF_OPEN"}
         /\ failureCount' \in Nat /\ successCount' \in Nat /\ cooledDown' \in BOOLEAN
<1>1. cooledDown' \in BOOLEAN
  BY DEF recordSuccess, recordFailure, isAvailable, breakerVars, ApiTypeOK
<1>2. CASE recordSuccess
  BY <1>1, <1>2 DEF recordSuccess, getState, SuccessesSeen, ApiTypeOK
<1>3. CASE recordFailure
  BY <1>1, <1>3 DEF recordFailure, ApiTypeOK
<1>4. CASE isAvailable
  BY <1>1, <1>4 DEF isAvailable, getState, ApiTypeOK
<1>5. CASE UNCHANGED breakerVars
  BY <1>5 DEF breakerVars, ApiTypeOK
<1> QED
  BY <1>2, <1>3, <1>4, <1>5

\* Each step keeps every variable in its range.
LEMMA TypeStep ==
  ASSUME ApiTypeOK, QueueSound, [ApiNext]_apiVars PROVE ApiTypeOK'
<1> USE ApiAssumption
<1>1. CASE CoolDown \/ ExpireToken
  <2>1. CASE CoolDown
    BY <2>1 DEF CoolDown, ApiTypeOK, callVars, queueVars, tokenVars
  <2>2. CASE ExpireToken
    <3>1. validToken' \in Tokens
      BY <2>2 DEF ExpireToken, ApiTypeOK, Tokens
    <3> QED
      BY <2>2, <3>1 DEF ExpireToken, ApiTypeOK, callVars, queueVars, breakerVars
  <2> QED
    BY <1>1, <2>1, <2>2
<1>2. ASSUME NEW r \in Requests, FailFast(r) \/ JoinInFlight(r) PROVE ApiTypeOK'
  <2>1. CASE FailFast(r)
    BY <2>1, BreakerType DEF FailFast, ApiTypeOK, queueVars, tokenVars, Phases, ToldCaller
  <2>2. CASE JoinInFlight(r)
    BY <2>2, BreakerType DEF JoinInFlight, InFlight, ApiTypeOK, queueVars, tokenVars, Phases
  <2> QED
    BY <1>2, <2>1, <2>2
<1>3. ASSUME NEW r \in Requests, StartRequest(r) PROVE ApiTypeOK'
  <2>1. phase' \in [Requests -> Phases]
    BY <1>3 DEF StartRequest, ApiTypeOK, Phases
  <2>2. mutationQueue' \in Seq(Requests) /\ activeMutations' \in Nat
    <3>1. CASE r \in Mutations /\ hasFreeSlot
      BY <1>3, <3>1 DEF StartRequest, acquireSlot, ApiTypeOK
    <3>2. CASE r \in Mutations /\ ~hasFreeSlot
      <4>1. UNCHANGED activeMutations /\ mutationQueue' = Append(mutationQueue, r)
        BY <1>3, <3>2 DEF StartRequest, acquireSlot
      <4> QED
        BY <4>1 DEF ApiTypeOK
    <3>3. CASE r \notin Mutations
      BY <1>3, <3>3 DEF StartRequest, ApiTypeOK, queueVars
    <3> QED
      BY <3>1, <3>2, <3>3
  <2> QED
    BY <1>3, <2>1, <2>2, BreakerType DEF StartRequest, ApiTypeOK, tokenVars
<1>4. ASSUME NEW r \in Requests, Abort(r) PROVE ApiTypeOK'
  BY <1>4 DEF Abort, ApiTypeOK, queueVars, breakerVars, tokenVars, ToldCaller
<1>5. ASSUME NEW r \in Requests, Send(r) PROVE ApiTypeOK'
  <2>1. applied' \in [Requests -> Nat] /\ answer' \in [Requests -> Answers]
    <3>1. CASE authToken = validToken
      <4>1. PICK executed \in {0, 1} : applied' = [applied EXCEPT ![r] = applied[r] + executed]
        BY <1>5, <3>1 DEF Send
      <4>2. answer' = [answer EXCEPT ![r] = "accepted"]
        BY <1>5, <3>1 DEF Send
      <4>3. applied' \in [Requests -> Nat]
        BY <4>1 DEF ApiTypeOK
      <4> QED
        BY <4>2, <4>3 DEF ApiTypeOK, Answers
    <3>2. CASE authToken # validToken
      BY <1>5, <3>2 DEF Send, ApiTypeOK, Answers
    <3> QED
      BY <3>1, <3>2
  <2> QED
    BY <1>5, <2>1 DEF Send, ApiTypeOK, queueVars, breakerVars, tokenVars, Phases
<1>6. ASSUME NEW r \in Requests, Respond(r) PROVE ApiTypeOK'
  <2>1. CASE answer[r] = "unauthorized" /\ r \notin refreshedAuth
    <3>1. refreshSubscribers' \in Seq(Requests) /\ isRefreshingToken' \in BOOLEAN
      <4>1. refreshSubscribers \in Seq(Requests) /\ isRefreshingToken \in BOOLEAN
        BY DEF ApiTypeOK
      <4>2. \/ refreshSubscribers' = Append(refreshSubscribers, r) /\ UNCHANGED isRefreshingToken
            \/ isRefreshingToken' = TRUE /\ UNCHANGED refreshSubscribers
        BY <1>6, <2>1 DEF Respond
      <4>3. isRefreshingToken' \in BOOLEAN
        BY <4>1, <4>2
      <4>4. refreshSubscribers' \in Seq(Requests)
        BY <4>1, <4>2
      <4> QED
        BY <4>3, <4>4
    <3>2. phase' \in [Requests -> Phases] /\ refreshedAuth' \subseteq Requests
      BY <1>6, <2>1 DEF Respond, ApiTypeOK, Phases
    <3> QED
      BY <1>6, <3>1, <3>2 DEF Respond, ApiTypeOK, queueVars, breakerVars
  <2>2. CASE ~(answer[r] = "unauthorized" /\ r \notin refreshedAuth)
    BY <1>6, <2>2 DEF Respond, ApiTypeOK, queueVars, breakerVars, Phases
  <2> QED
    BY <2>1, <2>2
<1>7. ASSUME NEW r \in Requests, handleTokenRefresh(r) PROVE ApiTypeOK'
  <2>1. phase' \in [Requests -> Phases]
    BY <1>7 DEF handleTokenRefresh, ApiTypeOK, Phases
  <2>2. authToken' \in Tokens
    BY <1>7 DEF handleTokenRefresh, ApiTypeOK, Tokens, NoToken
  <2>3. refreshSubscribers' \in Seq(Requests) /\ isRefreshingToken' \in BOOLEAN
    <3>1. refreshSubscribers' = <<>> /\ isRefreshingToken' = FALSE
      BY <1>7 DEF handleTokenRefresh
    <3>2. <<>> \in Seq(Requests)
      OBVIOUS
    <3> QED
      BY <3>1, <3>2, Zenon
  <2>4. UNCHANGED <<attempt, refreshedAuth, answer, told, aborted, leader, queueVars,
                    breakerVars, validToken, applied>>
    BY <1>7 DEF handleTokenRefresh
  <2> QED
    BY <2>1, <2>2, <2>3, <2>4 DEF ApiTypeOK, queueVars, breakerVars
<1>8. ASSUME NEW r \in Requests, ReturnData(r) PROVE ApiTypeOK'
  <2>1. PICK o \in ToldCaller : Settle(r, o)
    BY <1>8 DEF ReturnData, ToldCaller
  <2>2. phase[r] # "queued" /\ (recordSuccess \/ UNCHANGED breakerVars)
    BY <1>8 DEF ReturnData
  <2> QED
    BY <1>8, <2>1, <2>2, SettleType, BreakerType DEF ReturnData, ApiTypeOK, tokenVars
<1>9. ASSUME NEW r \in Requests, ThrowStatus(r) \/ ThrowNetwork(r) PROVE ApiTypeOK'
  <2>1. PICK b \in BOOLEAN : RetryOrThrow(r, b)
    BY <1>9 DEF ThrowStatus, ThrowNetwork
  <2>2. phase[r] # "queued" /\ (recordFailure \/ UNCHANGED breakerVars)
    BY <1>9 DEF ThrowStatus, ThrowNetwork
  <2> QED
    BY <1>9, <2>1, <2>2, RetryType, BreakerType
    DEF ThrowStatus, ThrowNetwork, ApiTypeOK, tokenVars
<1>10. CASE UNCHANGED apiVars
  BY <1>10 DEF apiVars, callVars, queueVars, breakerVars, tokenVars, ApiTypeOK
<1> QED
  BY <1>1, <1>2, <1>3, <1>4, <1>5, <1>6, <1>7, <1>8, <1>9, <1>10 DEF ApiNext, Progress

-----------------------------------------------------------------------------
(* The circuit breaker.                                                    *)

\* The breaker's counters stay below their thresholds in every step.
LEMMA BreakerStep ==
  ASSUME ApiTypeOK, BreakerCounts, [ApiNext]_apiVars PROVE BreakerCounts'
<1> USE ApiAssumption DEF BreakerCounts, ApiTypeOK
<1>1. CASE recordSuccess
  BY <1>1 DEF recordSuccess, getState, SuccessesSeen
<1>2. CASE recordFailure
  BY <1>2 DEF recordFailure
<1>3. CASE isAvailable
  BY <1>3 DEF isAvailable, getState
<1>4. CASE UNCHANGED <<breaker, failureCount, successCount>>
  BY <1>4
<1>5. \/ recordSuccess \/ recordFailure \/ isAvailable
      \/ UNCHANGED <<breaker, failureCount, successCount>>
  BY DEF ApiNext, Progress, CoolDown, ExpireToken, FailFast, JoinInFlight, StartRequest, Abort,
         Send, Respond, handleTokenRefresh, ReturnData, ThrowStatus, ThrowNetwork, apiVars,
         breakerVars
<1> QED
  BY <1>1, <1>2, <1>3, <1>4, <1>5

-----------------------------------------------------------------------------
(* What a step does to the phases.  Most steps move one call and nothing    *)
(* else that the invariant speaks of; Moves says from where to where.       *)

\* A call moves from one phase to another, or ends.
Moves(r, from, to) == phase[r] \in from /\ phase' = [phase EXCEPT ![r] = to]

Ends(r) == phase[r] \in {"fetching", "reading"} /\ \E o \in ToldCaller : Settle(r, o)

\* What a retry does to its call.
LEMMA RetryCases ==
  ASSUME NEW r \in Requests, NEW b \in BOOLEAN, RetryOrThrow(r, b),
         phase[r] \in {"fetching", "reading"}
  PROVE  \/ Ends(r) /\ UNCHANGED attempt
         \/ /\ Moves(r, {"fetching", "reading"}, "attempt") /\ UNCHANGED queueVars
            /\ mayRetry(r) /\ attempt' = [attempt EXCEPT ![r] = @ + 1]
  BY DEF RetryOrThrow, Ends, Moves, ToldCaller

\* ThrowStatus and ThrowNetwork leave alone what the invariant says of refreshes,
\* leaders and the server.
LEMMA ThrowCases ==
  ASSUME NEW r \in Requests, ThrowStatus(r) \/ ThrowNetwork(r)
  PROVE  /\ UNCHANGED <<refreshedAuth, answer, leader, tokenVars, applied>>
         /\ \/ Ends(r) /\ UNCHANGED attempt
            \/ /\ Moves(r, {"fetching", "reading"}, "attempt") /\ UNCHANGED queueVars
               /\ mayRetry(r) /\ attempt' = [attempt EXCEPT ![r] = @ + 1]
<1>1. PICK b \in BOOLEAN : RetryOrThrow(r, b)
  BY DEF ThrowStatus, ThrowNetwork
<1>2. phase[r] \in {"fetching", "reading"}
  BY DEF ThrowStatus, ThrowNetwork
<1>3. UNCHANGED <<refreshedAuth, answer, leader, tokenVars, applied>>
  BY DEF ThrowStatus, ThrowNetwork
<1> QED
  BY <1>1, <1>2, <1>3, RetryCases

\* What an answer does to its call.
LEMMA ReturnCases ==
  ASSUME NEW r \in Requests, ReturnData(r)
  PROVE  Ends(r) /\ UNCHANGED <<attempt, refreshedAuth, answer, leader, tokenVars, applied>>
  BY DEF ReturnData, Ends, ToldCaller

-----------------------------------------------------------------------------
(* The queue of mutations and their slots.                                 *)

\* The calls that hold a slot are finitely many.
Holders == {r \in Requests : HoldsSlot(r)}

\* So the holders of slots can be counted.
LEMMA HoldersFinite == IsFiniteSet(Holders) /\ Cardinality(Holders) \in Nat
<1>1. Holders \subseteq Requests
  BY DEF Holders
<1> QED
  BY <1>1, ApiAssumption, FS_Subset, FS_CardinalityType

\* A call that moves between two phases of the same kind changes no slot.
LEMMA MoveKeepsSlots ==
  ASSUME ApiTypeOK, QueueSound, SlotsAccounted, UNCHANGED queueVars,
         NEW r \in Requests, NEW from, NEW to, Moves(r, from, to),
         phase[r] # "queued", HoldsSlot(r)' <=> HoldsSlot(r)
  PROVE  QueueSound' /\ SlotsAccounted'
<1>1. QueueSound'
  BY DEF QueueSound, Moves, ApiTypeOK, queueVars
<1>2. \A q \in Requests : HoldsSlot(q)' <=> HoldsSlot(q)
  BY DEF Moves, HoldsSlot, ApiTypeOK
<1>3. {q \in Requests : HoldsSlot(q)}' = {q \in Requests : HoldsSlot(q)}
  BY <1>2
<1> QED
  BY <1>1, <1>3 DEF SlotsAccounted, queueVars

\* The end of a call gives its slot to the first mutation of the queue, or back.
LEMMA EndKeepsSlots ==
  ASSUME ApiTypeOK, QueueSound, SlotsAccounted, NEW r \in Requests, Ends(r)
  PROVE  QueueSound' /\ SlotsAccounted'
<1> USE DEF ApiTypeOK
<1>0. PICK o \in ToldCaller : Settle(r, o)
  BY DEF Ends
<1>1. phase[r] \in {"fetching", "reading"}
  BY DEF Ends
<1> DEFINE next == Head(mutationQueue)
           passed == r \in Mutations /\ mutationQueue # <<>>
<1>2. /\ passed => /\ next \in Requests /\ next \notin JoinedTo(r)
                   /\ phase[next] = "queued" /\ next \in Mutations
      /\ phase' = [q \in Requests |->
           IF q \in JoinedTo(r) THEN "done"
           ELSE IF passed /\ q = next THEN "attempt" ELSE phase[q]]
  BY <1>0, <1>1, SettlePhases
<1>3. r \in JoinedTo(r) /\ \A q \in JoinedTo(r) \ {r} : phase[q] = "joined"
  BY DEF JoinedTo
<1>4. \A q \in Requests : HoldsSlot(q)' <=> (HoldsSlot(q) /\ q # r) \/ (passed /\ q = next)
  BY <1>2, <1>3 DEF HoldsSlot
<1>5. Holders' = IF passed THEN (Holders \ {r}) \cup {next} ELSE Holders \ {r}
  BY <1>2, <1>4 DEF Holders
<1>6. r \in Mutations => r \in Holders
  BY <1>1 DEF Holders, HoldsSlot
<1>7. r \notin Mutations => r \notin Holders
  BY DEF Holders, HoldsSlot
<1>8. passed => next \notin Holders
  BY <1>2 DEF Holders, HoldsSlot
<1>9. IsFiniteSet(Holders) /\ Cardinality(Holders) \in Nat
  BY HoldersFinite
<1>10. IsFiniteSet(Holders \ {r}) /\
       Cardinality(Holders \ {r}) = IF r \in Holders THEN Cardinality(Holders) - 1
                                    ELSE Cardinality(Holders)
  BY <1>9, FS_RemoveElement
<1>11. Cardinality(Holders) = activeMutations /\ activeMutations \in Nat
  BY DEF SlotsAccounted, Holders
<1>12. CASE passed
  <2>1. mutationQueue' = Tail(mutationQueue)
    BY <1>0, <1>12 DEF Settle, releaseSlot
  <2>2. activeMutations' = (IF activeMutations = 0 THEN 0 ELSE activeMutations - 1) + 1
    BY <1>0, <1>12 DEF Settle, releaseSlot
  <2>3. Cardinality(Holders) # 0
    BY <1>6, <1>9, <1>12, FS_EmptySet
  <2>4. activeMutations' = activeMutations
    BY <1>11, <2>2, <2>3
  <2>5. Cardinality(Holders') = Cardinality(Holders \ {r}) + 1
    <3>1. next \notin Holders \ {r}
      BY <1>8, <1>12
    <3> QED
      BY <1>5, <1>10, <1>12, <3>1, FS_AddElement
  <2>6. Cardinality(Holders') = activeMutations'
    BY <1>6, <1>10, <1>11, <1>12, <2>4, <2>5
  <2>7. mutationQueue' \in Seq(Requests) /\ Len(mutationQueue') = Len(mutationQueue) - 1
        /\ \A i \in DOMAIN mutationQueue' :
             i + 1 \in DOMAIN mutationQueue /\ mutationQueue'[i] = mutationQueue[i + 1]
    BY <2>1, <1>12
  <2>8. /\ 1 \in DOMAIN mutationQueue /\ next = mutationQueue[1]
        /\ \A i \in DOMAIN mutationQueue' : i + 1 # 1
    <3>1. mutationQueue' \in Seq(Requests)
      BY <2>7
    <3>2. \A i \in DOMAIN mutationQueue' : i + 1 # 1
      BY <3>1
    <3> QED
      BY <1>12, <3>2
  <2>9. \A i \in DOMAIN mutationQueue' :
          /\ mutationQueue'[i] # next /\ mutationQueue'[i] \notin JoinedTo(r)
          /\ mutationQueue'[i] \in Requests /\ mutationQueue'[i] \in Mutations
          /\ phase[mutationQueue'[i]] = "queued"
    <3> SUFFICES ASSUME NEW i \in DOMAIN mutationQueue'
                 PROVE /\ mutationQueue'[i] # next /\ mutationQueue'[i] \notin JoinedTo(r)
                       /\ mutationQueue'[i] \in Requests /\ mutationQueue'[i] \in Mutations
                       /\ phase[mutationQueue'[i]] = "queued"
      OBVIOUS
    <3>1. i + 1 \in DOMAIN mutationQueue /\ mutationQueue'[i] = mutationQueue[i + 1]
      BY <2>7
    <3>2. i + 1 # 1
      BY <2>8
    <3>3. phase[mutationQueue[i + 1]] = "queued" /\ mutationQueue[i + 1] \in Mutations
      BY <3>1 DEF QueueSound
    <3>4. mutationQueue[i + 1] # mutationQueue[1]
      BY <2>8, <3>1, <3>2 DEF QueueSound
    <3>5. mutationQueue[i + 1] \in Requests
      BY <3>3, ApiAssumption
    <3>6. mutationQueue[i + 1] \notin JoinedTo(r)
      BY <1>1, <1>3, <3>3
    <3> QED
      BY <2>8, <3>1, <3>3, <3>4, <3>5, <3>6
  <2>10. QueueSound'
    <3>1. \A i, j \in DOMAIN mutationQueue' : mutationQueue'[i] = mutationQueue'[j] => i = j
      <4> SUFFICES ASSUME NEW i \in DOMAIN mutationQueue', NEW j \in DOMAIN mutationQueue',
                          mutationQueue'[i] = mutationQueue'[j]
                   PROVE  i = j
        OBVIOUS
      <4>1. i + 1 = j + 1
        BY <2>7 DEF QueueSound
      <4> QED
        BY <4>1, <2>7
    <3>2. \A i \in DOMAIN mutationQueue' : phase'[mutationQueue'[i]] = "queued"
      BY <1>2, <2>9
    <3> QED
      BY <2>9, <3>1, <3>2 DEF QueueSound
  <2>11. activeMutations = MaxConcurrentMutations
    BY <1>12 DEF SlotsAccounted
  <2> QED
    BY <2>4, <2>6, <2>10, <2>11, ApiAssumption DEF SlotsAccounted, Holders
<1>13. CASE ~passed
  <2>1. mutationQueue' = mutationQueue
    BY <1>0, <1>13 DEF Settle, releaseSlot, queueVars
  <2>2. Holders' = Holders \ {r}
    BY <1>5, <1>13
  <2>3. activeMutations' = Cardinality(Holders')
    <3>1. CASE r \in Mutations
      <4>1. activeMutations' = IF activeMutations = 0 THEN 0 ELSE activeMutations - 1
        BY <1>0, <1>13, <3>1 DEF Settle, releaseSlot
      <4>2. Cardinality(Holders) # 0
        BY <1>6, <1>9, <3>1, FS_EmptySet
      <4> QED
        BY <1>6, <1>10, <1>11, <2>2, <3>1, <4>1, <4>2
    <3>2. CASE r \notin Mutations
      <4>1. activeMutations' = activeMutations
        BY <1>0, <3>2 DEF Settle, queueVars
      <4> QED
        BY <1>7, <1>10, <1>11, <2>2, <3>2, <4>1
    <3> QED
      BY <3>1, <3>2
  <2>4. activeMutations' <= activeMutations /\ activeMutations' \in Nat
    BY <1>9, <1>10, <1>11, <2>2, <2>3, HoldersFinite, <1>6, <1>7, FS_CardinalityType
  <2>5. mutationQueue' # <<>> => activeMutations' = MaxConcurrentMutations
    <3>1. CASE mutationQueue # <<>>
      <4>1. r \notin Mutations
        BY <1>13, <3>1
      <4>2. activeMutations' = activeMutations
        BY <1>0, <4>1 DEF Settle, queueVars
      <4> QED
        BY <3>1, <4>2 DEF SlotsAccounted
    <3> QED
      BY <2>1, <3>1
  <2>6. QueueSound'
    <3>1. \A i \in DOMAIN mutationQueue : mutationQueue[i] \in Requests
      BY ApiAssumption DEF QueueSound
    <3>2. \A i \in DOMAIN mutationQueue : phase'[mutationQueue[i]] = "queued"
      BY <1>1, <1>2, <1>3, <1>13, <3>1 DEF QueueSound
    <3> QED
      BY <2>1, <3>2 DEF QueueSound
  <2> QED
    BY <2>3, <2>4, <2>5, <2>6, ApiAssumption DEF SlotsAccounted, Holders
<1> QED
  BY <1>12, <1>13

\* Every step keeps the slots within their number.
LEMMA SlotsStep ==
  ASSUME ApiTypeOK, QueueSound, SlotsAccounted, RefreshSound, [ApiNext]_apiVars
  PROVE  QueueSound' /\ SlotsAccounted'
<1>1. CASE UNCHANGED <<phase, queueVars>>
  <2>1. {q \in Requests : HoldsSlot(q)}' = {q \in Requests : HoldsSlot(q)}
    BY <1>1 DEF HoldsSlot
  <2> QED
    BY <1>1, <2>1 DEF QueueSound, SlotsAccounted, queueVars
<1>2. ASSUME NEW r \in Requests, FailFast(r) \/ JoinInFlight(r) PROVE QueueSound' /\ SlotsAccounted'
  <2>1. PICK to \in {"done", "joined"} : Moves(r, {"idle"}, to)
    BY <1>2 DEF FailFast, JoinInFlight, Moves
  <2>2. UNCHANGED queueVars
    BY <1>2 DEF FailFast, JoinInFlight
  <2>3. phase[r] = "idle" /\ phase'[r] = to
    BY <2>1 DEF Moves, ApiTypeOK
  <2> QED
    BY <2>1, <2>2, <2>3, MoveKeepsSlots DEF HoldsSlot
<1>3. ASSUME NEW r \in Requests, StartRequest(r) PROVE QueueSound' /\ SlotsAccounted'
  <2>0. phase[r] = "idle" /\ r \notin Holders
    BY <1>3 DEF StartRequest, Holders, HoldsSlot
  <2>1. CASE r \notin Mutations
    <3>1. Moves(r, {"idle"}, "attempt") /\ UNCHANGED queueVars
      BY <1>3, <2>1 DEF StartRequest, Moves
    <3> QED
      BY <2>0, <2>1, <3>1, MoveKeepsSlots DEF HoldsSlot
  <2>2. CASE r \in Mutations /\ hasFreeSlot
    <3>1. /\ phase' = [phase EXCEPT ![r] = "attempt"] /\ UNCHANGED mutationQueue
          /\ activeMutations' = activeMutations + 1
      BY <1>3, <2>2 DEF StartRequest, acquireSlot
    <3>2. Holders' = Holders \cup {r}
      BY <2>2, <3>1 DEF Holders, HoldsSlot, ApiTypeOK
    <3>3. Cardinality(Holders') = Cardinality(Holders) + 1
      BY <2>0, <3>2, HoldersFinite, FS_AddElement
    <3>4. mutationQueue = <<>>
      BY <2>2, ApiAssumption DEF SlotsAccounted, hasFreeSlot, ApiTypeOK
    <3>5. activeMutations' = Cardinality(Holders') /\ activeMutations' <= MaxConcurrentMutations
      BY <2>2, <3>1, <3>3, ApiAssumption DEF SlotsAccounted, Holders, hasFreeSlot, ApiTypeOK
    <3> QED
      BY <3>1, <3>4, <3>5 DEF SlotsAccounted, QueueSound, Holders
  <2>3. CASE r \in Mutations /\ ~hasFreeSlot
    <3>1. /\ phase' = [phase EXCEPT ![r] = "queued"] /\ UNCHANGED activeMutations
          /\ mutationQueue' = Append(mutationQueue, r)
      BY <1>3, <2>3 DEF StartRequest, acquireSlot
    <3>2. Holders' = Holders
      BY <2>0, <3>1 DEF Holders, HoldsSlot, ApiTypeOK
    <3>3. activeMutations = MaxConcurrentMutations
      BY <2>3, ApiAssumption DEF SlotsAccounted, hasFreeSlot, ApiTypeOK
    <3>4. SlotsAccounted'
      BY <3>1, <3>2, <3>3 DEF SlotsAccounted, Holders
    <3>5. \A i \in DOMAIN mutationQueue : mutationQueue[i] # r
      BY <2>0 DEF QueueSound
    <3>6. mutationQueue \in Seq(Requests) /\ phase \in [Requests -> Phases]
      BY DEF ApiTypeOK
    <3>7. \A i \in DOMAIN mutationQueue' :
            IF i \in DOMAIN mutationQueue THEN mutationQueue'[i] = mutationQueue[i]
            ELSE i = Len(mutationQueue) + 1 /\ mutationQueue'[i] = r
      BY <3>1, <3>6
    <3>8. \A i \in DOMAIN mutationQueue' :
            phase'[mutationQueue'[i]] = "queued" /\ mutationQueue'[i] \in Mutations
      BY <2>3, <3>1, <3>5, <3>6, <3>7, ApiAssumption DEF QueueSound
    <3>9. \A i, j \in DOMAIN mutationQueue' : mutationQueue'[i] = mutationQueue'[j] => i = j
      BY <3>5, <3>7 DEF QueueSound
    <3> QED
      BY <3>4, <3>8, <3>9 DEF QueueSound
  <2> QED
    BY <2>1, <2>2, <2>3
<1>4. ASSUME NEW r \in Requests, Send(r) PROVE QueueSound' /\ SlotsAccounted'
  <2>1. Moves(r, {"attempt"}, "fetching") /\ UNCHANGED queueVars
    BY <1>4 DEF Send, Moves
  <2>2. phase[r] = "attempt" /\ phase'[r] = "fetching"
    BY <2>1 DEF Moves, ApiTypeOK
  <2> QED
    BY <2>1, <2>2, MoveKeepsSlots DEF HoldsSlot
<1>5. ASSUME NEW r \in Requests, Respond(r) PROVE QueueSound' /\ SlotsAccounted'
  <2>1. PICK to \in {"parked", "refreshing", "reading"} : Moves(r, {"fetching"}, to)
    BY <1>5 DEF Respond, Moves
  <2>2. UNCHANGED queueVars
    BY <1>5 DEF Respond
  <2>3. phase[r] = "fetching" /\ phase'[r] = to
    BY <2>1 DEF Moves, ApiTypeOK
  <2> QED
    BY <2>1, <2>2, <2>3, MoveKeepsSlots DEF HoldsSlot
<1>6. ASSUME NEW r \in Requests, handleTokenRefresh(r) PROVE QueueSound' /\ SlotsAccounted'
  <2>1. PICK to \in {"attempt", "reading"} :
          phase' = [q \in Requests |->
            IF q = r \/ \E i \in DOMAIN refreshSubscribers : refreshSubscribers[i] = q
            THEN to ELSE phase[q]]
    BY <1>6 DEF handleTokenRefresh
  <2>2. UNCHANGED queueVars /\ phase[r] = "refreshing"
    BY <1>6 DEF handleTokenRefresh
  <2>3. \A q \in Requests :
          \/ phase'[q] = phase[q]
          \/ phase[q] \in {"refreshing", "parked"} /\ phase'[q] \in {"attempt", "reading"}
    BY <1>6, <2>1, <2>2 DEF RefreshSound
  <2>4. {q \in Requests : HoldsSlot(q)}' = {q \in Requests : HoldsSlot(q)}
    BY <2>3 DEF HoldsSlot
  <2>5. QueueSound'
    <3>1. \A i \in DOMAIN mutationQueue : mutationQueue[i] \in Requests
      BY ApiAssumption DEF QueueSound
    <3> QED
      BY <2>2, <2>3, <3>1 DEF QueueSound, queueVars
  <2> QED
    BY <2>2, <2>4, <2>5 DEF SlotsAccounted, queueVars
<1>7. ASSUME NEW r \in Requests, ReturnData(r) \/ ThrowStatus(r) \/ ThrowNetwork(r)
      PROVE  QueueSound' /\ SlotsAccounted'
  <2>1. \/ Ends(r)
        \/ Moves(r, {"fetching", "reading"}, "attempt") /\ UNCHANGED queueVars
    BY <1>7, ThrowCases, ReturnCases
  <2>2. CASE Ends(r)
    BY <2>2, EndKeepsSlots
  <2>3. CASE Moves(r, {"fetching", "reading"}, "attempt") /\ UNCHANGED queueVars
    <3>1. phase[r] \in {"fetching", "reading"} /\ phase'[r] = "attempt"
      BY <2>3 DEF Moves, ApiTypeOK
    <3> QED
      BY <2>3, <3>1, MoveKeepsSlots DEF HoldsSlot
  <2> QED
    BY <2>1, <2>2, <2>3
<1>8. CoolDown \/ ExpireToken \/ UNCHANGED apiVars \/ (\E r \in Requests : Abort(r))
        => UNCHANGED <<phase, queueVars>>
  BY DEF CoolDown, ExpireToken, Abort, apiVars, callVars
<1> QED
  BY <1>1, <1>2, <1>3, <1>4, <1>5, <1>6, <1>7, <1>8 DEF ApiNext, Progress

-----------------------------------------------------------------------------
(* The token refresh.                                                      *)

\* After the end of a call the others are where they were, or were joined to it,
\* or have got its slot.
LEMMA EndPhases ==
  ASSUME ApiTypeOK, QueueSound, NEW r \in Requests, Ends(r)
  PROVE  \A q \in Requests :
           \/ phase'[q] = phase[q] /\ q # r /\ ~(phase[q] = "joined" /\ leader[q] = r)
           \/ /\ q = r \/ (phase[q] = "joined" /\ leader[q] = r)
              /\ phase'[q] = "done"
           \/ /\ phase[q] = "queued" /\ q \in Mutations /\ q # r
              /\ phase'[q] = "attempt"
<1>1. PICK o \in ToldCaller : Settle(r, o)
  BY DEF Ends
<1>2. phase[r] # "queued"
  BY DEF Ends
<1> QED
  BY <1>1, <1>2, SettlePhases DEF JoinedTo

\* The set of calls that refresh or are parked is kept by all other steps.
LEMMA RefreshKept ==
  ASSUME RefreshSound, ApiTypeOK, UNCHANGED <<isRefreshingToken, refreshSubscribers>>,
         \A q \in Requests :
           \/ phase'[q] = phase[q]
           \/ {phase[q], phase'[q]} \cap {"refreshing", "parked"} = {}
  PROVE  RefreshSound'
<1>1. \A q \in Requests : /\ phase'[q] = "refreshing" <=> phase[q] = "refreshing"
                          /\ phase'[q] = "parked" <=> phase[q] = "parked"
  OBVIOUS
<1>2. \A i \in DOMAIN refreshSubscribers : refreshSubscribers[i] \in Requests
  BY DEF ApiTypeOK
<1> QED
  BY <1>1, <1>2 DEF RefreshSound

\* Every step keeps the refresh sound.
LEMMA RefreshStep ==
  ASSUME ApiTypeOK, QueueSound, RefreshSound, [ApiNext]_apiVars PROVE RefreshSound'
<1>1. CASE UNCHANGED <<phase, tokenVars>> \/ ExpireToken
  BY <1>1 DEF RefreshSound, tokenVars, ExpireToken, callVars
<1>2. ASSUME NEW r \in Requests, FailFast(r) \/ JoinInFlight(r) \/ StartRequest(r) \/ Send(r)
      PROVE  RefreshSound'
  <2>1. PICK from \in {"idle", "attempt"}, to \in {"done", "joined", "queued", "attempt", "fetching"} :
          Moves(r, {from}, to)
    BY <1>2 DEF FailFast, JoinInFlight, StartRequest, Send, Moves
  <2>2. UNCHANGED <<isRefreshingToken, refreshSubscribers>>
    BY <1>2 DEF FailFast, JoinInFlight, StartRequest, Send, tokenVars
  <2>3. \A q \in Requests :
           \/ phase'[q] = phase[q]
           \/ {phase[q], phase'[q]} \cap {"refreshing", "parked"} = {}
    BY <2>1 DEF Moves, ApiTypeOK
  <2> QED
    BY <2>2, <2>3, RefreshKept
<1>3. ASSUME NEW r \in Requests, Respond(r) PROVE RefreshSound'
  <2>1. phase[r] = "fetching" /\ phase \in [Requests -> Phases] /\ refreshSubscribers \in Seq(Requests)
    BY <1>3 DEF Respond, ApiTypeOK
  <2>2. CASE phase' = [phase EXCEPT ![r] = "reading"]
             /\ UNCHANGED <<isRefreshingToken, refreshSubscribers>>
    <3>1. \A q \in Requests :
             \/ phase'[q] = phase[q]
             \/ {phase[q], phase'[q]} \cap {"refreshing", "parked"} = {}
      BY <2>1, <2>2
    <3> QED
      BY <2>2, <3>1, RefreshKept
  <2>3. CASE /\ isRefreshingToken /\ refreshSubscribers' = Append(refreshSubscribers, r)
             /\ phase' = [phase EXCEPT ![r] = "parked"] /\ UNCHANGED isRefreshingToken
    <3>1. \A i \in DOMAIN refreshSubscribers' :
            IF i \in DOMAIN refreshSubscribers THEN refreshSubscribers'[i] = refreshSubscribers[i]
            ELSE refreshSubscribers'[i] = r
      BY <2>1, <2>3
    <3>2. /\ \A i \in DOMAIN refreshSubscribers :
               i \in DOMAIN refreshSubscribers' /\ refreshSubscribers'[i] = refreshSubscribers[i]
          /\ \E i \in DOMAIN refreshSubscribers' : refreshSubscribers'[i] = r
      BY <2>1, <2>3
    <3>3. \A q \in Requests : phase'[q] = IF q = r THEN "parked" ELSE phase[q]
      BY <2>1, <2>3
    <3>4. \A i \in DOMAIN refreshSubscribers :
            refreshSubscribers[i] \in Requests /\ phase[refreshSubscribers[i]] = "parked"
      BY <2>1 DEF RefreshSound
    <3>5. \A i \in DOMAIN refreshSubscribers' : phase'[refreshSubscribers'[i]] = "parked"
      BY <3>1, <3>3, <3>4
    <3>6. \A q \in Requests : phase'[q] = "refreshing" <=> phase[q] = "refreshing"
      BY <2>1, <3>3
    <3>7. \A q \in Requests : phase'[q] = "parked" =>
            \E i \in DOMAIN refreshSubscribers' : refreshSubscribers'[i] = q
      BY <3>2, <3>3 DEF RefreshSound
    <3> QED
      BY <2>3, <3>5, <3>6, <3>7 DEF RefreshSound
  <2>4. CASE /\ ~isRefreshingToken /\ isRefreshingToken' = TRUE
             /\ phase' = [phase EXCEPT ![r] = "refreshing"] /\ UNCHANGED refreshSubscribers
    <3>1. \A q \in Requests : phase'[q] = IF q = r THEN "refreshing" ELSE phase[q]
      BY <2>1, <2>4
    <3>2. \A q \in Requests : phase[q] \notin {"refreshing", "parked"}
      BY <2>4 DEF RefreshSound
    <3>3. \A i \in DOMAIN refreshSubscribers : FALSE
      BY <2>1, <3>2 DEF RefreshSound
    <3> QED
      BY <2>4, <3>1, <3>2, <3>3 DEF RefreshSound
  <2> QED
    BY <1>3, <2>2, <2>3, <2>4 DEF Respond
<1>4. ASSUME NEW r \in Requests, handleTokenRefresh(r) PROVE RefreshSound'
  <2>1. PICK to \in {"attempt", "reading"} :
          phase' = [q \in Requests |->
            IF q = r \/ \E i \in DOMAIN refreshSubscribers : refreshSubscribers[i] = q
            THEN to ELSE phase[q]]
    BY <1>4 DEF handleTokenRefresh
  <2>2. phase[r] = "refreshing" /\ isRefreshingToken' = FALSE /\ refreshSubscribers' = <<>>
    BY <1>4 DEF handleTokenRefresh
  <2>3. \A q \in Requests : phase'[q] \notin {"refreshing", "parked"}
    BY <2>1, <2>2 DEF RefreshSound
  <2>4. \A i \in DOMAIN refreshSubscribers' : FALSE
    BY <2>2
  <2> QED
    BY <2>2, <2>3, <2>4 DEF RefreshSound
<1>5. ASSUME NEW r \in Requests, ReturnData(r) \/ ThrowStatus(r) \/ ThrowNetwork(r)
      PROVE  RefreshSound'
  <2>1. \/ Ends(r)
        \/ Moves(r, {"fetching", "reading"}, "attempt")
    BY <1>5, ThrowCases, ReturnCases
  <2>2. UNCHANGED <<isRefreshingToken, refreshSubscribers>>
    BY <1>5, ThrowCases, ReturnCases DEF tokenVars
  <2>3. \A q \in Requests :
           \/ phase'[q] = phase[q]
           \/ {phase[q], phase'[q]} \cap {"refreshing", "parked"} = {}
    <3>1. CASE Ends(r)
      <4>1. phase[r] \in {"fetching", "reading"}
        BY <3>1 DEF Ends
      <4> QED
        BY <3>1, <4>1, EndPhases
    <3>2. CASE Moves(r, {"fetching", "reading"}, "attempt")
      BY <3>2 DEF Moves, ApiTypeOK
    <3> QED
      BY <2>1, <3>1, <3>2
  <2> QED
    BY <2>2, <2>3, RefreshKept
<1>6. CoolDown \/ UNCHANGED apiVars \/ (\E r \in Requests : Abort(r))
        => UNCHANGED <<phase, tokenVars>>
  BY DEF CoolDown, Abort, apiVars, callVars
<1> QED
  BY <1>1, <1>2, <1>3, <1>4, <1>5, <1>6 DEF ApiNext, Progress

\* One call refreshes at a time.
LEMMA RefreshCounted == ASSUME RefreshSound PROVE OneRefresh
<1> DEFINE S == {r \in Requests : phase[r] = "refreshing"}
<1>1. CASE isRefreshingToken
  <2>1. PICK r \in Requests : phase[r] = "refreshing"
    BY <1>1 DEF RefreshSound
  <2>2. S = {r}
    BY <2>1 DEF RefreshSound
  <2>3. Cardinality(S) = 1
    BY <2>2, FS_Singleton
  <2> QED
    BY <1>1, <2>3 DEF OneRefresh, RefreshSound
<1>2. CASE ~isRefreshingToken
  <2>1. S = {}
    BY <1>2 DEF RefreshSound
  <2>2. Cardinality(S) = 0
    BY <2>1, FS_EmptySet
  <2> QED
    BY <1>2, <2>2 DEF OneRefresh, RefreshSound
<1> QED
  BY <1>1, <1>2

-----------------------------------------------------------------------------
(* Calls of one key.                                                       *)

\* Steps that only move executions between their own phases keep the leaders.
LEMMA LeadersKept ==
  ASSUME LeadersSound, UNCHANGED leader,
         \A q \in Requests : phase'[q] = phase[q] \/ (Executes(q) /\ Executes(q)')
  PROVE  LeadersSound'
<1>1. \A q \in Requests : /\ Executes(q)' <=> Executes(q)
                          /\ phase'[q] = "joined" <=> phase[q] = "joined"
                          /\ phase'[q] = "done" <=> phase[q] = "done"
  BY DEF Executes
<1> QED
  BY <1>1, ApiAssumption DEF LeadersSound

\* Every step keeps joined calls with their leaders.
LEMMA LeadersStep ==
  ASSUME ApiTypeOK, QueueSound, RefreshSound, LeadersSound, [ApiNext]_apiVars
  PROVE  LeadersSound'
<1> USE ApiAssumption
<1>1. CASE UNCHANGED <<phase, leader>>
  BY <1>1 DEF LeadersSound, Executes
<1>2. ASSUME NEW r \in Requests, FailFast(r) PROVE LeadersSound'
  BY <1>2 DEF FailFast, LeadersSound, Executes, ApiTypeOK
<1>3. ASSUME NEW r \in Requests, JoinInFlight(r) PROVE LeadersSound'
  <2>1. PICK l \in InFlight(r) : leader' = [leader EXCEPT ![r] = l]
    BY <1>3 DEF JoinInFlight
  <2>2. phase[r] = "idle" /\ r \in Deduped /\ phase' = [phase EXCEPT ![r] = "joined"]
    BY <1>3 DEF JoinInFlight
  <2>3. /\ l \in Deduped /\ l \in Requests /\ DedupKey[l] = DedupKey[r] /\ leader[l] = l
        /\ phase[l] \notin {"idle", "done"}
    BY <2>1 DEF InFlight
  <2>4. Executes(l) /\ l # r
    BY <2>2, <2>3 DEF LeadersSound, Executes
  <2>5. \A q \in Requests : /\ phase'[q] = IF q = r THEN "joined" ELSE phase[q]
                            /\ leader'[q] = IF q = r THEN l ELSE leader[q]
    BY <2>1, <2>2 DEF ApiTypeOK
  <2>6. \A q \in Requests : Executes(q)' <=> Executes(q)
    BY <2>2, <2>5 DEF Executes
  <2> QED
    BY <2>2, <2>3, <2>4, <2>5, <2>6 DEF LeadersSound
<1>4. ASSUME NEW r \in Requests, StartRequest(r) PROVE LeadersSound'
  <2>1. PICK to \in {"attempt", "queued"} : phase' = [phase EXCEPT ![r] = to]
    BY <1>4 DEF StartRequest
  <2>2. phase[r] = "idle" /\ UNCHANGED leader /\ (r \in Deduped => InFlight(r) = {})
    BY <1>4 DEF StartRequest
  <2>3. \A q \in Requests : phase'[q] = IF q = r THEN to ELSE phase[q]
    BY <2>1 DEF ApiTypeOK
  <2>4. \A q \in Requests : Executes(q)' <=> Executes(q) \/ q = r
    BY <2>2, <2>3 DEF Executes
  <2>5. r \in Deduped => \A q \in Deduped : DedupKey[q] = DedupKey[r] => ~Executes(q)
    BY <2>2 DEF InFlight, LeadersSound, Executes
  <2>6. \A q, p \in Deduped : DedupKey[q] = DedupKey[p] /\ Executes(q)' /\ Executes(p)' => q = p
    BY <2>4, <2>5 DEF LeadersSound
  <2>7. \A q \in Requests : phase'[q] \in {"joined", "done"} \/ leader'[q] = q
    BY <2>2, <2>3 DEF LeadersSound
  <2>8. \A q \in Requests : phase'[q] = "joined" =>
          /\ q \in Deduped /\ leader'[q] \in Deduped /\ Executes(leader[q])
          /\ DedupKey[leader'[q]] = DedupKey[q]
    BY <2>2, <2>3 DEF LeadersSound
  <2> QED
    BY <2>2, <2>4, <2>6, <2>7, <2>8 DEF LeadersSound
<1>5. ASSUME NEW r \in Requests, Send(r) \/ Respond(r) PROVE LeadersSound'
  <2>1. PICK to \in {"fetching", "parked", "refreshing", "reading"} :
          Moves(r, {"attempt", "fetching"}, to)
    BY <1>5 DEF Send, Respond, Moves
  <2>2. UNCHANGED leader
    BY <1>5 DEF Send, Respond
  <2>3. \A q \in Requests : phase'[q] = phase[q] \/ (Executes(q) /\ Executes(q)')
    BY <2>1 DEF Moves, Executes, ApiTypeOK
  <2> QED
    BY <2>2, <2>3, LeadersKept
<1>6. ASSUME NEW r \in Requests, handleTokenRefresh(r) PROVE LeadersSound'
  <2>1. PICK to \in {"attempt", "reading"} :
          phase' = [q \in Requests |->
            IF q = r \/ \E i \in DOMAIN refreshSubscribers : refreshSubscribers[i] = q
            THEN to ELSE phase[q]]
    BY <1>6 DEF handleTokenRefresh
  <2>2. UNCHANGED leader /\ phase[r] = "refreshing"
    BY <1>6 DEF handleTokenRefresh
  <2>3. \A q \in Requests : phase'[q] = phase[q] \/ (Executes(q) /\ Executes(q)')
    BY <2>1, <2>2 DEF Executes, RefreshSound
  <2> QED
    BY <2>2, <2>3, LeadersKept
<1>7. ASSUME NEW r \in Requests, ReturnData(r) \/ ThrowStatus(r) \/ ThrowNetwork(r)
      PROVE  LeadersSound'
  <2>1. \/ Ends(r)
        \/ Moves(r, {"fetching", "reading"}, "attempt")
    BY <1>7, ThrowCases, ReturnCases
  <2>2. UNCHANGED leader
    BY <1>7, ThrowCases, ReturnCases
  <2>3. CASE Ends(r)
    <3>1. \A q \in Requests :
            /\ Executes(q)' <=> Executes(q) /\ q # r
            /\ phase'[q] = "joined" <=> phase[q] = "joined" /\ leader[q] # r
            /\ phase[q] = "done" => phase'[q] = "done"
            /\ phase[q] = "joined" /\ leader[q] = r => phase'[q] = "done"
            /\ q = r => phase'[q] = "done"
      <4>1. phase[r] \in {"fetching", "reading"}
        BY <2>3 DEF Ends
      <4> QED
        BY <2>3, <4>1, EndPhases DEF Executes
    <3>2. \A q \in Requests : phase'[q] \in {"joined", "done"} \/ leader[q] = q
      BY <3>1 DEF LeadersSound
    <3>3. \A q, p \in Deduped : DedupKey[q] = DedupKey[p] /\ Executes(q)' /\ Executes(p)' => q = p
      BY <3>1 DEF LeadersSound
    <3>4. \A q \in Requests : phase'[q] = "joined" =>
            /\ q \in Deduped /\ leader[q] \in Deduped /\ Executes(leader[q])'
            /\ DedupKey[leader[q]] = DedupKey[q]
      BY <2>2, <3>1 DEF LeadersSound
    <3> QED
      BY <2>2, <3>2, <3>3, <3>4 DEF LeadersSound, Executes
  <2>4. CASE Moves(r, {"fetching", "reading"}, "attempt")
    <3>1. \A q \in Requests : phase'[q] = phase[q] \/ (Executes(q) /\ Executes(q)')
      BY <2>4 DEF Moves, Executes, ApiTypeOK
    <3> QED
      BY <2>2, <3>1, LeadersKept
  <2> QED
    BY <2>1, <2>3, <2>4
<1>8. CoolDown \/ ExpireToken \/ UNCHANGED apiVars \/ (\E r \in Requests : Abort(r))
        => UNCHANGED <<phase, leader>>
  BY DEF CoolDown, ExpireToken, Abort, apiVars, callVars
<1> QED
  BY <1>1, <1>2, <1>3, <1>4, <1>5, <1>6, <1>7, <1>8 DEF ApiNext, Progress

\* One call executes for each key.
LEMMA LeadersLead == ASSUME LeadersSound PROVE OneExecutionPerKey
  BY ApiAssumption DEF LeadersSound, OneExecutionPerKey, Executes

-----------------------------------------------------------------------------
(* Executions on the server.                                               *)

\* Every step keeps a mutation from being applied twice.
LEMMA AppliedStep ==
  ASSUME ApiTypeOK, QueueSound, RefreshSound, LeadersSound, AppliedSound, [ApiNext]_apiVars
  PROVE  AppliedSound'
<1> USE ApiAssumption
<1>0. ASSUME UNCHANGED <<attempt, answer, applied>>,
             \A q \in Mutations : \/ phase'[q] = phase[q] \/ phase'[q] = "done"
                                  \/ phase[q] = "fetching" /\ phase'[q] = "reading"
                                  \/ phase[q] \notin {"fetching", "reading", "done"}
      PROVE  AppliedSound'
  BY <1>0 DEF AppliedSound
<1>1. CASE UNCHANGED <<phase, attempt, answer, applied>>
  BY <1>0, <1>1
<1>2. ASSUME NEW r \in Requests, FailFast(r) \/ JoinInFlight(r) \/ StartRequest(r)
      PROVE  AppliedSound'
  <2>1. UNCHANGED <<attempt, answer, applied>>
    BY <1>2 DEF FailFast, JoinInFlight, StartRequest
  <2>2. \E to \in {"done", "joined", "attempt", "queued"} : Moves(r, {"idle"}, to)
    BY <1>2 DEF FailFast, JoinInFlight, StartRequest, Moves
  <2>3. \A q \in Mutations : phase'[q] = phase[q] \/ phase[q] = "idle"
    BY <2>2 DEF Moves, ApiTypeOK
  <2> QED
    BY <1>0, <2>1, <2>3
<1>3. ASSUME NEW r \in Requests, Send(r) PROVE AppliedSound'
  <2>1. /\ phase[r] = "attempt" /\ UNCHANGED attempt
        /\ \A q \in Requests : phase'[q] = IF q = r THEN "fetching" ELSE phase[q]
    BY <1>3 DEF Send, ApiTypeOK
  <2>2. CASE authToken = validToken
    <3>1. PICK executed \in {0, 1} : applied' = [applied EXCEPT ![r] = applied[r] + executed]
      BY <1>3, <2>2 DEF Send
    <3>2. \A q \in Requests : answer'[q] = IF q = r THEN "accepted" ELSE answer[q]
      BY <1>3, <2>2 DEF Send, ApiTypeOK
    <3>3. \A q \in Requests : applied'[q] = IF q = r THEN applied[q] + executed ELSE applied[q]
      BY <3>1 DEF ApiTypeOK
    <3>4. r \in Mutations /\ MaxRetries[r] = 0 => applied[r] = 0
      BY <2>1 DEF AppliedSound
    <3> QED
      BY <2>1, <3>2, <3>3, <3>4 DEF AppliedSound
  <2>3. CASE authToken # validToken
    <3>1. /\ UNCHANGED applied
          /\ \A q \in Requests : answer'[q] = IF q = r THEN "unauthorized" ELSE answer[q]
      BY <1>3, <2>3 DEF Send, ApiTypeOK
    <3> QED
      BY <2>1, <3>1 DEF AppliedSound
  <2> QED
    BY <2>2, <2>3
<1>4. ASSUME NEW r \in Requests, Respond(r) PROVE AppliedSound'
  <2>1. UNCHANGED <<attempt, answer, applied>> /\ phase[r] = "fetching"
    BY <1>4 DEF Respond
  <2>2. \A q \in Requests : q # r => phase'[q] = phase[q]
    BY <1>4 DEF Respond, ApiTypeOK
  <2>3. phase'[r] = "reading" \/ answer[r] = "unauthorized"
    BY <1>4 DEF Respond, ApiTypeOK
  <2> QED
    BY <2>1, <2>2, <2>3 DEF AppliedSound
<1>5. ASSUME NEW r \in Requests, handleTokenRefresh(r) PROVE AppliedSound'
  <2>1. UNCHANGED <<attempt, answer, applied>> /\ phase[r] = "refreshing"
    BY <1>5 DEF handleTokenRefresh
  <2>2. PICK to \in {"attempt", "reading"} :
          phase' = [q \in Requests |->
            IF q = r \/ \E i \in DOMAIN refreshSubscribers : refreshSubscribers[i] = q
            THEN to ELSE phase[q]]
    BY <1>5 DEF handleTokenRefresh
  <2>3. \A q \in Mutations : phase'[q] = phase[q] \/ phase[q] \in {"refreshing", "parked"}
    BY <2>1, <2>2 DEF RefreshSound
  <2> QED
    BY <1>0, <2>1, <2>3
<1>6. ASSUME NEW r \in Requests, ReturnData(r) \/ ThrowStatus(r) \/ ThrowNetwork(r)
      PROVE  AppliedSound'
  <2>1. /\ UNCHANGED <<answer, applied>>
        /\ \/ Ends(r) /\ UNCHANGED attempt
           \/ /\ Moves(r, {"fetching", "reading"}, "attempt")
              /\ mayRetry(r) /\ attempt' = [attempt EXCEPT ![r] = @ + 1]
    BY <1>6, ThrowCases, ReturnCases
  <2>2. CASE Ends(r) /\ UNCHANGED attempt
    <3>1. \A q \in Requests : \/ phase'[q] = phase[q] \/ phase'[q] = "done"
                              \/ phase[q] = "queued"
      BY <2>2, EndPhases
    <3> QED
      BY <1>0, <2>1, <2>2, <3>1
  <2>3. CASE /\ Moves(r, {"fetching", "reading"}, "attempt")
             /\ mayRetry(r) /\ attempt' = [attempt EXCEPT ![r] = @ + 1]
    <3>1. MaxRetries[r] # 0 \/ r \notin Mutations
      BY <2>3 DEF mayRetry, AppliedSound
    <3>2. \A q \in Requests : q # r => phase'[q] = phase[q] /\ attempt'[q] = attempt[q]
      BY <2>3 DEF Moves, ApiTypeOK
    <3> QED
      BY <2>1, <3>1, <3>2 DEF AppliedSound
  <2> QED
    BY <2>1, <2>2, <2>3
<1>7. CoolDown \/ ExpireToken \/ UNCHANGED apiVars \/ (\E r \in Requests : Abort(r))
        => UNCHANGED <<phase, attempt, answer, applied>>
  BY DEF CoolDown, ExpireToken, Abort, apiVars, callVars
<1> QED
  BY <1>1, <1>2, <1>3, <1>4, <1>5, <1>6, <1>7 DEF ApiNext, Progress

-----------------------------------------------------------------------------
(* The theorems.                                                           *)

\* At the start nothing is called.
LEMMA ClientInit == ApiInit => ClientInv
<1> SUFFICES ASSUME ApiInit PROVE ClientInv
  OBVIOUS
<1> USE ApiAssumption
<1>1. ApiTypeOK
  <2>1. <<>> \in Seq(Requests) /\ 1 \in Tokens
    BY DEF Tokens
  <2>2. /\ phase \in [Requests -> Phases] /\ attempt \in [Requests -> Nat]
        /\ answer \in [Requests -> Answers] /\ told \in [Requests -> ToldCaller]
        /\ leader \in [Requests -> Requests] /\ applied \in [Requests -> Nat]
    BY DEF ApiInit, Phases, Answers, ToldCaller
  <2> QED
    BY <2>1, <2>2 DEF ApiInit, ApiTypeOK
<1>2. BreakerCounts /\ QueueSound /\ RefreshSound /\ LeadersSound /\ AppliedSound
  BY DEF ApiInit, BreakerCounts, QueueSound, RefreshSound, LeadersSound, Executes, AppliedSound
<1>3. {r \in Requests : HoldsSlot(r)} = {}
  BY DEF ApiInit, HoldsSlot
<1>4. Cardinality({r \in Requests : HoldsSlot(r)}) = 0
  BY <1>3, FS_EmptySet
<1>5. SlotsAccounted
  BY <1>4 DEF ApiInit, SlotsAccounted
<1> QED
  BY <1>1, <1>2, <1>5 DEF ClientInv

\* Every step keeps the invariant.
LEMMA ClientStep == ClientInv /\ [ApiNext]_apiVars => ClientInv'
  BY TypeStep, BreakerStep, SlotsStep, RefreshStep, LeadersStep, AppliedStep DEF ClientInv

\* Whatever calls are made and whatever fails, the client's state stays well formed and
\* its queues, leaders and counters stay in step (request, mutationQueue, circuitBreaker).
THEOREM ClientInvariant == ApiSpec => []ClientInv
<1>1. ApiInit => ClientInv
  BY ClientInit
<1>2. ClientInv /\ [ApiNext]_apiVars => ClientInv'
  BY ClientStep
<1> QED
  BY <1>1, <1>2, PTL DEF ApiSpec

\* For any number of calls and any limit: a slot has one holder, at most one refresh runs
\* and serves all who wait, a key has one execution (client.ts, mutationQueue.ts).
THEOREM OneAtATimeAlways == ApiSpec => []OneAtATime
<1>1. ClientInv => OneAtATime
  BY RefreshCounted, LeadersLead DEF ClientInv, OneAtATime
<1> QED
  BY <1>1, ClientInvariant, PTL

\* A mutation without retries is executed at most once, through any expiries, refreshes and
\* lost answers (client.ts: the loop of attempts).
THEOREM AppliedOnceAlways == ApiSpec => []AppliedOnce
<1>1. ClientInv => AppliedOnce
  BY DEF ClientInv, AppliedSound, AppliedOnce
<1> QED
  BY <1>1, ClientInvariant, PTL

\* The breaker's counters mean what its state says, for any thresholds and any order in which
\* late answers arrive (circuitBreaker.ts).
THEOREM BreakerCountsAlways == ApiSpec => []BreakerCounts
<1>1. ClientInv => BreakerCounts
  BY DEF ClientInv
<1> QED
  BY <1>1, ClientInvariant, PTL

-----------------------------------------------------------------------------
(* The session.                                                             *)

\* What a token, a session, a hydration, a refresh and a GET may be.
SessionTokens == GrantTokens \cup {Absent}
Sessions ==
  [token : SessionTokens, refresh : SessionTokens, user : Users \cup {None}, expired : BOOLEAN]
HydrationCalls == [pc : {"idle", "refreshing", "getting", "done"}, session : Sessions]
RefreshCalls == [pc : {"idle", "refreshing"}, session : Sessions]
Gets == [pc : {"idle", "sent", "refreshing"}, token : SessionTokens, tried : BOOLEAN]

\* The shapes the variables keep.
SessionShape ==
  /\ build \in {"production", "development"} /\ avatarless \subseteq Users
  /\ storage \in Sessions /\ memoryToken \in SessionTokens /\ user \in Users \cup {None}
  /\ isLoading \in BOOLEAN /\ hydration \in [Hydrations -> HydrationCalls]
  /\ refresher \in RefreshCalls /\ get \in [Endpoints -> Gets]
  /\ guilds \in Users \cup {None} /\ isLoadingGuilds \in BOOLEAN
  /\ oauthState \in BOOLEAN /\ visit \in [Visits -> {"idle", "awaiting", "failed", "done"}]
  /\ exchange \in {"none", "posted", "failed", "completed"}
  /\ posts \in Nat /\ failures \in Nat /\ expiries \in Nat
  /\ crossed \in BOOLEAN /\ trouble \in BOOLEAN
  /\ alive \subseteq GrantTokens /\ refreshes \in [Grants -> 0 .. MaxRefreshes]

\* A user is that of a token's login, unless his profile is rejected or an answer crossed.
Fits(who, token, rejected, mixed) ==
  who # None /\ token # Absent =>
    who = OwnerOf[token[1]] \/ OwnerOf[token[1]] \in rejected \/ mixed

\* The keys of a session are of one login: those in storage, and those that a call of
\* refreshAuthToken read before its fetch.
Whole(s, rejected, mixed) ==
  /\ s.refresh # Absent => s.token = s.refresh
  /\ Fits(s.user, s.token, rejected, mixed)

\* Those in storage, and those of every call under way, are whole.
SessionsWhole ==
  /\ Whole(storage, avatarless, crossed) /\ Whole(refresher.session, avatarless, crossed)
  /\ \A h \in Hydrations : Whole(hydration[h].session, avatarless, crossed)

\* Memory and the user shown are of the login stored.
MemoryFits == memoryToken \in {Absent, storage.token}
\* The user shown fits the token stored.
UserFits == Fits(user, storage.token, avatarless, crossed)

\* A GET of the profile under way is of the login stored, unless that is said of it.
ProfileGetFits ==
  get["me"].pc # "idle" =>
    /\ get["me"].token # Absent
    /\ storage.token # Absent => get["me"].token[1] = storage.token[1] \/ crossed

\* The exchanges asked for, by how many failed and by the state that was consumed.
PostsCounted ==
  /\ posts <= failures + (IF exchange \in {"posted", "completed"} THEN 1 ELSE 0)
  /\ build = "production" => posts <= 1 /\ (oauthState => posts = 0)

\* Without trouble the login that was stored is the one in use, by everything under way,
\* and its guilds are there or being loaded once the first effects have run.
CalmKept ==
  ~trouble =>
    LET token == <<OldGrant, 0>>
        owner == OwnerOf[OldGrant]
    IN  /\ storage.token = token /\ ~storage.expired /\ storage.user = owner
        /\ user = owner /\ owner \notin avatarless /\ token \in alive
        /\ refresher.pc = "idle"
        /\ \A e \in Endpoints :
             get[e].pc = "idle" \/ (get[e].pc = "sent" /\ get[e].token = token)
        /\ \A v \in Visits : hydration[v].pc = "idle"
        /\ hydration["mount"].pc # "refreshing"
        /\ hydration["mount"].pc = "idle" => isLoading
        /\ hydration["mount"].pc # "idle" => isLoadingGuilds \/ guilds = owner

\* What is kept about the session of a tab.
SessionInv ==
  /\ SessionShape /\ SessionsWhole /\ MemoryFits /\ UserFits /\ ProfileGetFits
  /\ PostsCounted /\ CalmKept

-----------------------------------------------------------------------------
\* A token is a pair, and none is the absent one.
LEMMA TokenFacts ==
  /\ Absent \notin GrantTokens /\ Absent \in SessionTokens
  /\ \A t \in GrantTokens : t \in SessionTokens /\ t # Absent /\ t[1] \in Grants
  /\ \A g \in Grants, n \in 0 .. MaxRefreshes :
       <<g, n>> \in GrantTokens /\ <<g, n>> # Absent /\ <<g, n>>[1] = g
  /\ <<OldGrant, 0>> \in GrantTokens /\ <<NewGrant, 0>> \in GrantTokens
<1>1. \A g \in Grants, n \in 0 .. MaxRefreshes :
        <<g, n>> \in GrantTokens /\ <<g, n>> # Absent /\ <<g, n>>[1] = g
  BY DEF GrantTokens, Absent
<1>2. \A t \in GrantTokens : t # Absent /\ t[1] \in Grants
  BY DEF GrantTokens, Absent
<1>3. 0 \in 0 .. MaxRefreshes /\ OldGrant \in Grants /\ NewGrant \in Grants
  BY SessionAssumption
<1> QED
  BY <1>1, <1>2, <1>3 DEF SessionTokens

\* The fields of a session, of a call and of a GET.
LEMMA FieldsOfSession ==
  ASSUME NEW s \in Sessions
  PROVE  /\ s.token \in SessionTokens /\ s.refresh \in SessionTokens /\ s.user \in Users \cup {None}
         /\ s.expired \in BOOLEAN
BY DEF Sessions

\* The fields of a GET.
LEMMA FieldsOfGet ==
  ASSUME NEW x \in Gets
  PROVE  x.pc \in {"idle", "sent", "refreshing"} /\ x.token \in SessionTokens /\ x.tried \in BOOLEAN
BY DEF Gets

\* The empty session.
LEMMA NoSessionWhole ==
  /\ NoSession \in Sessions /\ NoSession.token = Absent /\ NoSession.refresh = Absent
  /\ NoSession.user = None
  /\ \A r, c : Whole(NoSession, r, c)
  /\ Idle \in HydrationCalls /\ Idle \in RefreshCalls /\ Idle.session = NoSession
  /\ Idle.pc = "idle"
<1>1. /\ NoSession \in Sessions /\ NoSession.token = Absent /\ NoSession.refresh = Absent
      /\ NoSession.user = None
  BY TokenFacts DEF NoSession, Sessions
<1>2. \A r, c : Whole(NoSession, r, c)
  BY <1>1 DEF Whole, Fits
<1>3. /\ Idle \in HydrationCalls /\ Idle \in RefreshCalls /\ Idle.session = NoSession
      /\ Idle.pc = "idle"
  BY <1>1 DEF Idle, HydrationCalls, RefreshCalls
<1> QED
  BY <1>1, <1>2, <1>3

\* What fits goes on to fit when an answer crosses.
LEMMA WholeKept ==
  ASSUME NEW c, NEW d, c => d, NEW r
  PROVE  /\ \A who, token : Fits(who, token, r, c) => Fits(who, token, r, d)
         /\ \A s : Whole(s, r, c) => Whole(s, r, d)
BY DEF Whole, Fits

\* The sessions that calls had read stay whole while calls end.
LEMMA SessionsKept ==
  ASSUME SessionsWhole, UNCHANGED avatarless, crossed => crossed',
         Whole(storage', avatarless, crossed'),
         refresher' = refresher \/ Whole(refresher'.session, avatarless, crossed'),
         \A h \in Hydrations : \/ hydration'[h].session = hydration[h].session
                               \/ Whole(hydration'[h].session, avatarless, crossed')
  PROVE  SessionsWhole'
<1>1. \A s : Whole(s, avatarless, crossed) => Whole(s, avatarless, crossed')
  BY WholeKept
<1> QED
  BY <1>1 DEF SessionsWhole

\* Everything is forgotten.
LEMMA Cleared ==
  ASSUME clearSession
  PROVE  /\ storage' \in Sessions /\ memoryToken' \in SessionTokens /\ user' \in Users \cup {None}
         /\ storage'.token = Absent /\ MemoryFits' /\ UserFits'
         /\ \A r, c : Whole(storage', r, c)
BY NoSessionWhole, TokenFacts DEF clearSession, MemoryFits, UserFits, Fits

\* A refresh that is granted: a new token of the login whose session was read; unless
\* an answer crossed, that is the login stored.
LEMMA GrantedSound ==
  ASSUME SessionShape, SessionsWhole, UserFits, UNCHANGED avatarless,
         NEW session \in Sessions, Whole(session, avatarless, crossed),
         NEW joined \in BOOLEAN, RefreshGranted(session, joined)
  PROVE  /\ storage' \in Sessions /\ memoryToken' \in GrantTokens /\ memoryToken' # Absent
         /\ storage'.token = memoryToken' /\ Whole(storage', avatarless, crossed')
         /\ crossed' \in BOOLEAN /\ (crossed \/ joined => crossed')
         /\ ~crossed' => /\ storage.token # Absent /\ session.token = storage.token
                         /\ storage'.token[1] = storage.token[1]
         /\ Fits(user, storage'.token, avatarless, crossed')
         /\ Fits(ProfileShown(storage'), storage'.token, avatarless, crossed')
         /\ ProfileShown(storage') \in Users \cup {None}
         /\ alive' \subseteq GrantTokens /\ refreshes' \in [Grants -> 0 .. MaxRefreshes]
         /\ expiries' = expiries
<1> DEFINE g == session.refresh[1]
           n == refreshes[g]
           token == <<g, n + 1>>
           who == IF session.user = None THEN storage.user ELSE AsStored(session.user)
<1>1. /\ session.refresh # Absent /\ n < MaxRefreshes
      /\ refreshes' = [refreshes EXCEPT ![g] = n + 1] /\ alive' = alive \cup {token}
      /\ saveAuthSession(token, token, session.user) /\ memoryToken' = token
      /\ crossed' = (crossed \/ joined \/ session.token # storage.token)
      /\ UNCHANGED expiries
  BY DEF RefreshGranted, Renewable
<1>2. session.refresh \in GrantTokens /\ g \in Grants /\ session.token = session.refresh
  BY <1>1, FieldsOfSession, TokenFacts DEF SessionTokens, Whole
<1>3. n + 1 \in 0 .. MaxRefreshes
  <2>1. n \in 0 .. MaxRefreshes /\ MaxRefreshes \in Nat
    BY <1>2, SessionAssumption DEF SessionShape
  <2> HIDE DEF n
  <2> QED
    BY <1>1, <2>1
<1>4. token \in GrantTokens /\ token # Absent /\ token[1] = g
  BY <1>2, <1>3, TokenFacts
<1>5. refreshes' \in [Grants -> 0 .. MaxRefreshes] /\ alive' \subseteq GrantTokens
  BY <1>1, <1>2, <1>3, <1>4 DEF SessionShape
<1> HIDE DEF token, n
<1>6. who \in Users \cup {None} /\ storage \in Sessions
  BY FieldsOfSession DEF AsStored, SessionShape
<1>7. storage' = [token |-> token, expired |-> FALSE, refresh |-> token, user |-> who]
  BY <1>1, <1>4 DEF saveAuthSession
<1>8. storage' \in Sessions /\ storage'.token = token /\ storage'.refresh = token
      /\ storage'.user = who
  <2> HIDE DEF who
  <2> QED
    BY <1>4, <1>6, <1>7, TokenFacts DEF Sessions
<1>9. ~crossed' => ~crossed /\ ~joined /\ session.token = storage.token
                   /\ storage.token # Absent /\ storage.token[1] = g
  BY <1>1, <1>2
<1>10. crossed' \in BOOLEAN
  BY <1>1 DEF SessionShape
<1>11. \A w : Fits(w, session.token, avatarless, crossed)
              => Fits(w, token, avatarless, crossed')
  BY <1>1, <1>2, <1>4 DEF Fits
<1>12. Fits(session.user, token, avatarless, crossed')
  BY <1>11 DEF Whole
<1>13. ~crossed' => Fits(storage.user, token, avatarless, crossed')
                    /\ Fits(user, token, avatarless, crossed')
  BY <1>9, <1>11 DEF SessionsWhole, Whole, UserFits
<1>14. Fits(storage.user, token, avatarless, crossed') /\ Fits(user, token, avatarless, crossed')
  BY <1>10, <1>13 DEF Fits
<1>15. Fits(who, token, avatarless, crossed')
  BY <1>12, <1>14 DEF Fits, AsStored
<1>16. Whole(storage', avatarless, crossed')
  <2> HIDE DEF who
  <2> QED
    BY <1>8, <1>15 DEF Whole
<1>17. /\ ProfileShown(storage') \in Users \cup {None}
       /\ Fits(ProfileShown(storage'), token, avatarless, crossed')
  <2> HIDE DEF who
  <2> QED
    BY <1>6, <1>8, <1>14, <1>15 DEF ProfileShown, SessionShape
<1> QED
  BY <1>1, <1>4, <1>5, <1>8, <1>9, <1>10, <1>14, <1>16, <1>17

\* A GET that is sent, or joined.
LEMMA JoinOrSendSound ==
  ASSUME NEW gets \in [Endpoints -> Gets], NEW e \in Endpoints, NEW token \in SessionTokens
  PROVE  /\ JoinOrSend(gets, e, token) \in [Endpoints -> Gets]
         /\ \A f \in Endpoints \ {e} : JoinOrSend(gets, e, token)[f] = gets[f]
         /\ gets[e].pc # "idle" => JoinOrSend(gets, e, token) = gets
         /\ gets[e].pc = "idle" => /\ JoinOrSend(gets, e, token)[e].pc = "sent"
                                   /\ JoinOrSend(gets, e, token)[e].token = token
<1>1. [pc |-> "sent", token |-> token, tried |-> FALSE] \in Gets
  BY DEF Gets
<1> QED
  BY <1>1 DEF JoinOrSend

\* A call of rehydrateSession ends, or waits for its profile.
LEMMA HydrationEnded ==
  ASSUME SessionShape, NEW h \in Hydrations
  PROVE  /\ EndHydration(h) =>
              /\ hydration' \in [Hydrations -> HydrationCalls] /\ isLoading' \in BOOLEAN
              /\ hydration'[h].session = NoSession
              /\ \A k \in Hydrations \ {h} : hydration'[k] = hydration[k]
         /\ ToGet(h) =>
              /\ hydration' \in [Hydrations -> HydrationCalls]
              /\ hydration'[h].session = NoSession /\ hydration'[h].pc = "getting"
              /\ \A k \in Hydrations \ {h} : hydration'[k] = hydration[k]
<1> DEFINE over == [Idle EXCEPT !.pc = "done"]
           waits == [Idle EXCEPT !.pc = "getting"]
<1>1. /\ EndHydration(h) => hydration' = [hydration EXCEPT ![h] = over] /\ isLoading' = FALSE
      /\ ToGet(h) => hydration' = [hydration EXCEPT ![h] = waits]
  BY DEF EndHydration, ToGet
<1>2. over \in HydrationCalls /\ waits \in HydrationCalls
      /\ over.session = NoSession /\ waits.session = NoSession /\ waits.pc = "getting"
  BY NoSessionWhole DEF HydrationCalls, Idle
<1> HIDE DEF over, waits
<1> QED
  BY <1>1, <1>2 DEF SessionShape

\* What rehydrateSession does before its first await, with the session stored or with
\* one that is just written.
LEMMA RehydrateSound ==
  ASSUME SessionShape, SessionsWhole, MemoryFits, UserFits, ProfileGetFits, UNCHANGED avatarless,
         NEW h \in Hydrations, NEW s \in Sessions, Whole(s, avatarless, crossed),
         NEW gets \in [Endpoints -> Gets], gets["me"] = get["me"],
         \/ s = storage
         \/ ~s.expired /\ s.token # Absent
              /\ (s.user = None => OwnerOf[s.token[1]] \in avatarless),
         Rehydrate(h, s, gets)
  PROVE  /\ storage' \in Sessions /\ memoryToken' \in SessionTokens /\ user' \in Users \cup {None}
         /\ isLoading' \in BOOLEAN /\ hydration' \in [Hydrations -> HydrationCalls]
         /\ get' \in [Endpoints -> Gets] /\ crossed' \in BOOLEAN /\ (crossed => crossed')
         /\ Whole(storage', avatarless, crossed') /\ MemoryFits' /\ UserFits' /\ ProfileGetFits'
         /\ \A k \in Hydrations : \/ hydration'[k].session = hydration[k].session
                                  \/ Whole(hydration'[k].session, avatarless, crossed')
         /\ \A k \in Hydrations \ {h} : hydration'[k] = hydration[k]
<1>0. /\ storage \in Sessions /\ memoryToken \in SessionTokens /\ user \in Users \cup {None}
      /\ isLoading \in BOOLEAN /\ hydration \in [Hydrations -> HydrationCalls]
      /\ get \in [Endpoints -> Gets] /\ crossed \in BOOLEAN /\ "me" \in Endpoints
  BY DEF SessionShape, Endpoints
<1>1. \A c \in HydrationCalls : [hydration EXCEPT ![h] = c] \in [Hydrations -> HydrationCalls]
        /\ [hydration EXCEPT ![h] = c][h] = c
        /\ \A k \in Hydrations \ {h} : [hydration EXCEPT ![h] = c][k] = hydration[k]
  BY <1>0
<1>2. /\ [Idle EXCEPT !.pc = "done"] \in HydrationCalls
      /\ [Idle EXCEPT !.pc = "done"].session = NoSession
      /\ [Idle EXCEPT !.pc = "getting"] \in HydrationCalls
      /\ [Idle EXCEPT !.pc = "getting"].session = NoSession
      /\ [pc |-> "refreshing", session |-> s] \in HydrationCalls
  BY NoSessionWhole DEF HydrationCalls
<1>3. /\ EndHydration(h) =>
           /\ hydration' \in [Hydrations -> HydrationCalls] /\ isLoading' \in BOOLEAN
           /\ hydration'[h].session = NoSession
           /\ \A k \in Hydrations \ {h} : hydration'[k] = hydration[k]
      /\ ToGet(h) =>
           /\ hydration' \in [Hydrations -> HydrationCalls]
           /\ hydration'[h].session = NoSession
           /\ \A k \in Hydrations \ {h} : hydration'[k] = hydration[k]
  BY HydrationEnded
<1>4. CASE /\ s.token = Absent
           /\ EndHydration(h) /\ memoryToken' = Absent /\ user' = None /\ storage' = s
           /\ get' = gets /\ UNCHANGED crossed
  <2>1. /\ Whole(storage', avatarless, crossed') /\ MemoryFits' /\ UserFits' /\ ProfileGetFits'
    BY <1>4 DEF MemoryFits, UserFits, Fits, ProfileGetFits
  <2> QED
    BY <1>0, <1>3, <1>4, <2>1, NoSessionWhole, TokenFacts
<1>5. CASE /\ s.token # Absent /\ s.expired /\ s.refresh = Absent
           /\ clearSession /\ EndHydration(h) /\ get' = gets /\ UNCHANGED crossed
  <2>1. ProfileGetFits'
    BY <1>5, Cleared DEF ProfileGetFits
  <2> QED
    BY <1>0, <1>3, <1>5, <2>1, NoSessionWhole, Cleared
<1>6. CASE /\ s.token # Absent /\ s.expired /\ s.refresh # Absent
           /\ hydration' = [hydration EXCEPT ![h] = [pc |-> "refreshing", session |-> s]]
           /\ isLoading' = TRUE
           /\ storage' = s /\ get' = gets /\ UNCHANGED <<memoryToken, user, crossed>>
  <2>1. s = storage
    BY <1>6, FieldsOfSession
  <2>2. hydration' \in [Hydrations -> HydrationCalls] /\ hydration'[h].session = s
        /\ \A k \in Hydrations \ {h} : hydration'[k] = hydration[k]
    BY <1>1, <1>2, <1>6
  <2>3. /\ Whole(storage', avatarless, crossed') /\ MemoryFits' /\ UserFits' /\ ProfileGetFits'
    BY <1>6, <2>1 DEF MemoryFits, UserFits, ProfileGetFits
  <2> QED
    BY <1>0, <1>6, <2>1, <2>2, <2>3
<1>7. CASE /\ s.token # Absent /\ ~s.expired
           /\ memoryToken' = s.token /\ storage' = s
           /\ user' = ProfileShown(s)
           /\ ToGet(h) /\ get' = JoinOrSend(gets, "me", s.token) /\ isLoading' = TRUE
           /\ crossed' = (crossed \/ JoinsOther(gets, s))
  <2>1. crossed' \in BOOLEAN /\ (crossed => crossed') /\ s.token \in SessionTokens
    BY <1>0, <1>7, FieldsOfSession DEF JoinsOther
  <2>2. Whole(storage', avatarless, crossed') /\ Whole(s, avatarless, crossed')
    BY <1>7, <2>1, WholeKept
  <2>3. user' \in Users \cup {None} /\ Fits(user', s.token, avatarless, crossed')
    <3>1. CASE s.user # None
      BY <1>7, <2>2, <3>1, FieldsOfSession DEF ProfileShown, Whole
    <3>2. CASE s.user = None
      <4>1. user' = user
        BY <1>7, <3>2 DEF ProfileShown
      <4>2. s = storage => Fits(user, s.token, avatarless, crossed')
        BY <2>1, WholeKept DEF UserFits
      <4>3. OwnerOf[s.token[1]] \in avatarless => Fits(user, s.token, avatarless, crossed')
        BY DEF Fits
      <4> QED
        BY <1>0, <3>2, <4>1, <4>2, <4>3
    <3> QED
      BY <3>1, <3>2
  <2>4. MemoryFits' /\ UserFits'
    BY <1>7, <2>3 DEF MemoryFits, UserFits
  <2>5. /\ get' \in [Endpoints -> Gets]
        /\ gets["me"].pc # "idle" => get'["me"] = gets["me"]
        /\ gets["me"].pc = "idle" => get'["me"].token = s.token
    BY <1>0, <1>7, <2>1, JoinOrSendSound
  <2>6. ProfileGetFits'
    BY <1>7, <2>5 DEF ProfileGetFits, JoinsOther
  <2> QED
    BY <1>0, <1>3, <1>7, <2>1, <2>2, <2>3, <2>4, <2>5, <2>6, NoSessionWhole
<1> QED
  BY <1>4, <1>5, <1>6, <1>7 DEF Rehydrate

\* The calls that waited for the profile have ended.
LEMMA HydrationsEndSound ==
  ASSUME SessionShape, HydrationsEnd
  PROVE  /\ hydration' \in [Hydrations -> HydrationCalls] /\ isLoading' \in BOOLEAN
         /\ \A h \in Hydrations :
              \/ hydration'[h] = hydration[h]
              \/ /\ hydration[h].pc = "getting" /\ hydration'[h].pc = "done"
                 /\ hydration'[h].session = NoSession
         /\ (\A h \in Hydrations : hydration[h].pc # "getting") => isLoading' = isLoading
<1> DEFINE over == [Idle EXCEPT !.pc = "done"]
<1>1. over \in HydrationCalls /\ over.session = NoSession /\ over.pc = "done"
  BY NoSessionWhole DEF HydrationCalls, Idle
<1>2. hydration' = [h \in Hydrations |-> IF h \in Awaiting THEN over ELSE hydration[h]]
      /\ isLoading' = IF Awaiting = {} THEN isLoading ELSE FALSE
  BY DEF HydrationsEnd
<1> HIDE DEF over
<1>3. hydration' \in [Hydrations -> HydrationCalls]
  BY <1>1, <1>2 DEF SessionShape
<1>4. isLoading' \in BOOLEAN
  BY <1>2 DEF SessionShape
<1>5. \A h \in Hydrations : hydration'[h] = hydration[h] \/
        (hydration[h].pc = "getting" /\ hydration'[h].pc = "done"
           /\ hydration'[h].session = NoSession)
  <2> SUFFICES ASSUME NEW h \in Hydrations
               PROVE  hydration'[h] = hydration[h] \/
                        (hydration[h].pc = "getting" /\ hydration'[h].pc = "done"
                           /\ hydration'[h].session = NoSession)
    OBVIOUS
  <2>1. CASE h \in Awaiting
    <3>1. hydration'[h] = over
      BY <1>2, <2>1
    <3>2. hydration[h].pc = "getting"
      BY <2>1 DEF Awaiting
    <3> QED
      BY <1>1, <3>1, <3>2
  <2>2. CASE h \notin Awaiting
    <3>1. hydration'[h] = hydration[h]
      BY <1>2, <2>2
    <3> QED
      BY <3>1
  <2> QED
    BY <2>1, <2>2
<1>6. (\A h \in Hydrations : hydration[h].pc # "getting") => Awaiting = {}
  BY DEF Awaiting
<1> QED
  BY <1>2, <1>3, <1>4, <1>5, <1>6

\* A GET has ended.
LEMMA EndedSound ==
  ASSUME SessionShape, NEW e \in Endpoints, Ended(e)
  PROVE  /\ get' \in [Endpoints -> Gets] /\ get'[e].pc = "idle"
         /\ \A f \in Endpoints \ {e} : get'[f] = get[f]
<1>1. [pc |-> "idle", token |-> Absent, tried |-> FALSE] \in Gets
  BY TokenFacts DEF Gets
<1> QED
  BY <1>1 DEF Ended, SessionShape

\* The first effects: in a calm reload the stored login is shown, and asked for.
LEMMA MountSound ==
  ASSUME SessionInv, MountEffects
  PROVE  SessionInv'
<1> DEFINE gets == IF user # None THEN JoinOrSend(get, "guilds", effectiveToken) ELSE get
<1>1. /\ SessionShape /\ SessionsWhole /\ MemoryFits /\ UserFits /\ ProfileGetFits
      /\ PostsCounted /\ CalmKept /\ UNCHANGED avatarless
      /\ "mount" \in Hydrations /\ storage \in Sessions
      /\ get \in [Endpoints -> Gets] /\ "guilds" \in Endpoints /\ "me" \in Endpoints
      /\ memoryToken \in SessionTokens
  BY DEF SessionInv, MountEffects, givenVars, Hydrations, SessionShape, Endpoints
<1>2. effectiveToken \in SessionTokens
  BY <1>1, FieldsOfSession DEF effectiveToken
<1>3. /\ gets \in [Endpoints -> Gets] /\ gets["me"] = get["me"]
      /\ gets["guilds"].pc = "sent" \/ gets["guilds"] = get["guilds"]
      /\ gets["guilds"] = get["guilds"] \/ gets["guilds"].token = effectiveToken
  BY <1>1, <1>2, JoinOrSendSound
<1>4. Rehydrate("mount", storage, gets)
  BY DEF MountEffects
<1>5. Whole(storage, avatarless, crossed)
  BY <1>1 DEF SessionsWhole
<1> HIDE DEF gets
<1>6. /\ storage' \in Sessions /\ memoryToken' \in SessionTokens /\ user' \in Users \cup {None}
      /\ isLoading' \in BOOLEAN /\ hydration' \in [Hydrations -> HydrationCalls]
      /\ get' \in [Endpoints -> Gets] /\ crossed' \in BOOLEAN /\ (crossed => crossed')
      /\ Whole(storage', avatarless, crossed') /\ MemoryFits' /\ UserFits' /\ ProfileGetFits'
      /\ \A k \in Hydrations : \/ hydration'[k].session = hydration[k].session
                               \/ Whole(hydration'[k].session, avatarless, crossed')
      /\ \A k \in Hydrations \ {"mount"} : hydration'[k] = hydration[k]
  BY <1>1, <1>3, <1>4, <1>5, RehydrateSound
<1>7. SessionShape'
  <2>1. isLoadingGuilds' \in BOOLEAN
    BY DEF MountEffects
  <2> QED
    BY <1>1, <1>6, <2>1
    DEF MountEffects, SessionShape, givenVars, callbackVars, serverVars
<1>8. SessionsWhole'
  BY <1>1, <1>6, SessionsKept DEF MountEffects
<1>9. PostsCounted'
  BY <1>1 DEF PostsCounted, MountEffects, givenVars, callbackVars
<1>10. CalmKept'
  <2> DEFINE token == <<OldGrant, 0>>
             owner == OwnerOf[OldGrant]
  <2> SUFFICES ASSUME ~trouble'
               PROVE  /\ storage'.token = token /\ ~storage'.expired /\ storage'.user = owner
                      /\ user' = owner /\ owner \notin avatarless' /\ token \in alive'
                      /\ refresher'.pc = "idle"
                      /\ \A e \in Endpoints :
                           get'[e].pc = "idle" \/ (get'[e].pc = "sent" /\ get'[e].token = token)
                      /\ \A v \in Visits : hydration'[v].pc = "idle"
                      /\ hydration'["mount"].pc # "refreshing"
                      /\ hydration'["mount"].pc = "idle" => isLoading'
                      /\ hydration'["mount"].pc # "idle" => isLoadingGuilds' \/ guilds' = owner
    BY DEF CalmKept
  <2>1. /\ storage.token = token /\ ~storage.expired /\ storage.user = owner
        /\ user = owner /\ owner \notin avatarless /\ token \in alive
        /\ refresher.pc = "idle"
        /\ \A e \in Endpoints :
             get[e].pc = "idle" \/ (get[e].pc = "sent" /\ get[e].token = token)
        /\ \A v \in Visits : hydration[v].pc = "idle"
    BY <1>1 DEF CalmKept, MountEffects
  <2>2. owner \in Users /\ owner # None /\ token # Absent /\ token \in SessionTokens
    BY SessionAssumption, TokenFacts
  <2> HIDE DEF token, owner
  <2>3. /\ storage' = storage /\ user' = ProfileShown(storage) /\ ToGet("mount")
        /\ get' = JoinOrSend(gets, "me", token) /\ isLoading' = TRUE
    BY <1>4, <2>1, <2>2 DEF Rehydrate
  <2>4. user' = owner /\ isLoadingGuilds' = TRUE /\ alive' = alive /\ refresher' = refresher
        /\ avatarless' = avatarless
    BY <2>1, <2>2, <2>3 DEF ProfileShown, MountEffects, serverVars, givenVars
  <2>5. effectiveToken = token
    BY <1>1, <2>1 DEF effectiveToken, MemoryFits
  <2>6. \A e \in Endpoints :
          get'[e].pc = "idle" \/ (get'[e].pc = "sent" /\ get'[e].token = token)
    <3>1. gets["guilds"].pc = "idle" \/ (gets["guilds"].pc = "sent" /\ gets["guilds"].token = token)
      <4>1. gets = JoinOrSend(get, "guilds", token)
        BY <2>1, <2>2, <2>5 DEF gets
      <4> QED
        BY <1>1, <2>1, <2>2, <4>1, JoinOrSendSound
    <3>2. gets["me"].pc = "idle" \/ (gets["me"].pc = "sent" /\ gets["me"].token = token)
      BY <1>1, <1>3, <2>1
    <3>3. get'["guilds"] = gets["guilds"]
      BY <1>1, <1>3, <2>2, <2>3, JoinOrSendSound DEF Endpoints
    <3>4. get'["me"].pc = "idle" \/ (get'["me"].pc = "sent" /\ get'["me"].token = token)
      BY <1>1, <1>3, <2>2, <2>3, <3>2, JoinOrSendSound
    <3> QED
      BY <3>1, <3>3, <3>4 DEF Endpoints
  <2>7. hydration'["mount"].pc = "getting"
    BY <1>1, <2>3, HydrationEnded
  <2>8. \A v \in Visits : hydration'[v].pc = "idle"
    BY <1>6, <2>1, SessionAssumption DEF Hydrations
  <2> QED
    BY <2>1, <2>3, <2>4, <2>6, <2>7, <2>8
<1> QED
  BY <1>6, <1>7, <1>8, <1>9, <1>10 DEF SessionInv

\* The refresh of a rehydration, which there is none of in a calm reload.
LEMMA HydrationRefreshedSound ==
  ASSUME SessionInv, NEW h \in Hydrations, HydrationRefreshed(h)
  PROVE  SessionInv'
<1> DEFINE s == hydration[h].session
           joined == JoinsOther(get, s)
<1>1. /\ SessionShape /\ SessionsWhole /\ MemoryFits /\ UserFits /\ ProfileGetFits
      /\ PostsCounted /\ CalmKept /\ UNCHANGED avatarless
      /\ hydration[h].pc = "refreshing"
      /\ get \in [Endpoints -> Gets] /\ "me" \in Endpoints /\ crossed \in BOOLEAN
  BY DEF SessionInv, HydrationRefreshed, givenVars, SessionShape, Endpoints
<1>2. s \in Sessions /\ Whole(s, avatarless, crossed) /\ joined \in BOOLEAN
  <2>1. hydration[h] \in HydrationCalls
    BY <1>1 DEF SessionShape
  <2> QED
    BY <1>1, <2>1 DEF HydrationCalls, SessionsWhole, JoinsOther
<1>3. trouble
  BY <1>1 DEF CalmKept, Hydrations
<1>4. PostsCounted' /\ CalmKept'
  BY <1>1, <1>3 DEF PostsCounted, CalmKept, HydrationRefreshed, givenVars, callbackVars
<1> HIDE DEF s
<1>5. CASE /\ RefreshGranted(s, joined)
           /\ user' = ProfileShown(storage')
           /\ ToGet(h) /\ get' = JoinOrSend(get, "me", memoryToken') /\ UNCHANGED isLoading
  <2> HIDE DEF joined
  <2>1. /\ storage' \in Sessions /\ memoryToken' \in GrantTokens /\ memoryToken' # Absent
        /\ storage'.token = memoryToken' /\ Whole(storage', avatarless, crossed')
        /\ crossed' \in BOOLEAN /\ (crossed \/ joined => crossed')
        /\ ~crossed' => /\ storage.token # Absent /\ s.token = storage.token
                        /\ storage'.token[1] = storage.token[1]
        /\ Fits(ProfileShown(storage'), storage'.token, avatarless, crossed')
        /\ ProfileShown(storage') \in Users \cup {None}
        /\ alive' \subseteq GrantTokens /\ refreshes' \in [Grants -> 0 .. MaxRefreshes]
        /\ expiries' = expiries
    BY <1>1, <1>2, <1>5, GrantedSound
  <2>2. memoryToken' \in SessionTokens /\ MemoryFits' /\ UserFits'
    BY <1>1, <1>5, <2>1, TokenFacts DEF MemoryFits, UserFits
  <2>3. /\ hydration' \in [Hydrations -> HydrationCalls]
        /\ hydration'[h].session = NoSession
        /\ \A k \in Hydrations \ {h} : hydration'[k] = hydration[k]
    BY <1>1, <1>5, HydrationEnded
  <2>4. /\ get' \in [Endpoints -> Gets]
        /\ get["me"].pc # "idle" => get'["me"] = get["me"]
        /\ get["me"].pc = "idle" => get'["me"].token = memoryToken'
    BY <1>1, <1>5, <2>2, JoinOrSendSound
  <2>5. ProfileGetFits'
    <3>1. CASE get["me"].pc # "idle"
      <4>1. get'["me"] = get["me"] /\ get["me"].token # Absent
        BY <1>1, <2>4, <3>1 DEF ProfileGetFits
      <4>2. ~crossed' => get["me"].token[1] = storage'.token[1]
        BY <1>1, <2>1, <3>1 DEF ProfileGetFits
      <4> QED
        BY <4>1, <4>2 DEF ProfileGetFits
    <3>2. CASE get["me"].pc = "idle"
      BY <2>1, <2>4, <3>2 DEF ProfileGetFits
    <3> QED
      BY <3>1, <3>2
  <2>6. SessionShape'
    BY <1>1, <1>5, <2>1, <2>2, <2>3, <2>4
    DEF HydrationRefreshed, SessionShape, givenVars, guildVars, callbackVars
  <2>7. SessionsWhole'
    BY <1>1, <2>1, <2>3, SessionsKept, NoSessionWhole DEF HydrationRefreshed
  <2> QED
    BY <1>4, <2>2, <2>5, <2>6, <2>7 DEF SessionInv
<1>6. CASE clearSession /\ EndHydration(h) /\ UNCHANGED <<get, serverVars, crossed>>
  <2>1. /\ hydration' \in [Hydrations -> HydrationCalls] /\ isLoading' \in BOOLEAN
        /\ hydration'[h].session = NoSession
        /\ \A k \in Hydrations \ {h} : hydration'[k] = hydration[k]
    BY <1>1, <1>6, HydrationEnded
  <2>2. /\ storage' \in Sessions /\ memoryToken' \in SessionTokens /\ user' \in Users \cup {None}
        /\ storage'.token = Absent /\ MemoryFits' /\ UserFits'
        /\ \A r, c : Whole(storage', r, c)
    BY <1>6, Cleared
  <2>3. ProfileGetFits'
    BY <1>1, <1>6, <2>2 DEF ProfileGetFits
  <2>4. SessionShape'
    BY <1>1, <1>6, <2>1, <2>2
    DEF HydrationRefreshed, SessionShape, givenVars, guildVars, callbackVars, serverVars
  <2>5. SessionsWhole'
    BY <1>1, <1>6, <2>1, <2>2, SessionsKept, NoSessionWhole DEF HydrationRefreshed
  <2> QED
    BY <1>4, <2>2, <2>3, <2>4, <2>5 DEF SessionInv
<1> QED
  BY <1>5, <1>6 DEF HydrationRefreshed, RefreshRefused, s, joined

\* Sessions, memory and the user shown stay as they were.
LEMMA AccountKept ==
  ASSUME SessionInv, UNCHANGED <<givenVars, storage, user, refresher, crossed>>,
         memoryToken' \in {memoryToken, Absent},
         \A h \in Hydrations : \/ hydration'[h].session = hydration[h].session
                               \/ hydration'[h].session = NoSession
  PROVE  SessionsWhole' /\ MemoryFits' /\ UserFits'
<1>1. UNCHANGED avatarless /\ SessionsWhole /\ MemoryFits /\ UserFits
  BY DEF givenVars, SessionInv
<1>2. Whole(storage', avatarless, crossed')
  BY <1>1 DEF SessionsWhole
<1>3. SessionsWhole'
  BY <1>1, <1>2, SessionsKept, NoSessionWhole
<1> QED
  BY <1>1, <1>3 DEF MemoryFits, UserFits

\* A first 401 is no part of a calm reload, whose token is good.
LEMMA UnauthorizedSound ==
  ASSUME SessionInv, NEW e \in Endpoints, Unauthorized(e)
  PROVE  SessionInv'
<1>1. /\ SessionShape /\ SessionsWhole /\ MemoryFits /\ UserFits /\ ProfileGetFits
      /\ PostsCounted /\ CalmKept /\ "me" \in Endpoints
      /\ get \in [Endpoints -> Gets] /\ get[e].pc = "sent" /\ get[e].token \notin alive
      /\ UNCHANGED <<givenVars, crossed, storage, user, isLoading, hydration, guildVars,
                     callbackVars, serverVars, trouble>>
      /\ UNCHANGED <<avatarless, storage>>
  BY DEF SessionInv, Unauthorized, SessionShape, Endpoints, givenVars
<1>2. trouble
  BY <1>1 DEF CalmKept
<1>3. PostsCounted' /\ CalmKept'
  BY <1>1, <1>2 DEF PostsCounted, CalmKept, givenVars, callbackVars
<1>4. /\ memoryToken' \in {memoryToken, Absent}
      /\ \/ get' = [get EXCEPT ![e].tried = TRUE]
         \/ get' = [get EXCEPT ![e].pc = "refreshing", ![e].tried = TRUE]
      /\ refresher' = refresher \/ refresher' = [pc |-> "refreshing", session |-> storage]
  BY DEF Unauthorized
<1>5. /\ get' \in [Endpoints -> Gets]
      /\ \A f \in Endpoints : get'[f].token = get[f].token
                              /\ (get'[f].pc # "idle" => get[f].pc # "idle")
  <2> DEFINE x == [get[e] EXCEPT !.tried = TRUE]
             y == [get[e] EXCEPT !.pc = "refreshing", !.tried = TRUE]
  <2>1. x \in Gets /\ y \in Gets /\ x.token = get[e].token /\ y.token = get[e].token
    BY <1>1 DEF Gets
  <2>2. get' = [get EXCEPT ![e] = x] \/ get' = [get EXCEPT ![e] = y]
    BY <1>4
  <2> HIDE DEF x, y
  <2>3. \A z \in Gets : [get EXCEPT ![e] = z] \in [Endpoints -> Gets]
          /\ [get EXCEPT ![e] = z][e] = z
          /\ \A f \in Endpoints \ {e} : [get EXCEPT ![e] = z][f] = get[f]
    BY <1>1
  <2>4. PICK z \in Gets : get' = [get EXCEPT ![e] = z] /\ z.token = get[e].token
    BY <2>1, <2>2
  <2> QED
    BY <1>1, <2>3, <2>4
<1>6. /\ refresher' \in RefreshCalls
      /\ Whole(refresher'.session, avatarless, crossed)
  BY <1>1, <1>4 DEF SessionShape, RefreshCalls, SessionsWhole
<1>7. SessionsWhole' /\ MemoryFits' /\ UserFits'
  <2>1. Whole(storage', avatarless, crossed') /\ Whole(refresher'.session, avatarless, crossed')
    BY <1>1, <1>6 DEF SessionsWhole
  <2>2. SessionsWhole'
    BY <1>1, <2>1, SessionsKept
  <2> QED
    BY <1>1, <1>4, <2>2 DEF MemoryFits, UserFits
<1>8. ProfileGetFits'
  BY <1>1, <1>5 DEF ProfileGetFits
<1>9. SessionShape'
  BY <1>1, <1>4, <1>5, <1>6, TokenFacts
  DEF SessionShape, givenVars, guildVars, callbackVars, serverVars
<1> QED
  BY <1>3, <1>7, <1>8, <1>9 DEF SessionInv

\* The refresh of the client, which there is none of in a calm reload either.
LEMMA ClientRefreshedSound ==
  ASSUME SessionInv, ClientRefreshed
  PROVE  SessionInv'
<1>1. /\ SessionShape /\ SessionsWhole /\ MemoryFits /\ UserFits /\ ProfileGetFits
      /\ PostsCounted /\ CalmKept /\ UNCHANGED <<build, avatarless>> /\ "me" \in Endpoints
      /\ get \in [Endpoints -> Gets] /\ crossed \in BOOLEAN
      /\ refresher.pc = "refreshing" /\ refresher' = Idle
      /\ UNCHANGED <<isLoading, hydration, guildVars, callbackVars, trouble>>
  BY DEF SessionInv, ClientRefreshed, SessionShape, Endpoints, givenVars
<1>2. trouble
  BY <1>1 DEF CalmKept
<1>3. PostsCounted' /\ CalmKept'
  BY <1>1, <1>2 DEF PostsCounted, CalmKept, callbackVars
<1>4. refresher' \in RefreshCalls /\ \A r, c : Whole(refresher'.session, r, c)
  BY <1>1, NoSessionWhole
<1>5. CASE /\ RefreshGranted(refresher.session, FALSE) /\ UNCHANGED user
           /\ get' = [e \in Endpoints |-> IF get[e].pc = "refreshing"
                        THEN [get[e] EXCEPT !.pc = "sent", !.token = memoryToken'] ELSE get[e]]
  <2>1. refresher.session \in Sessions /\ Whole(refresher.session, avatarless, crossed)
    BY <1>1 DEF SessionShape, RefreshCalls, SessionsWhole
  <2>2. /\ storage' \in Sessions /\ memoryToken' \in GrantTokens /\ memoryToken' # Absent
        /\ storage'.token = memoryToken' /\ Whole(storage', avatarless, crossed')
        /\ crossed' \in BOOLEAN /\ (crossed => crossed')
        /\ ~crossed' => /\ storage.token # Absent
                        /\ storage'.token[1] = storage.token[1]
        /\ Fits(user, storage'.token, avatarless, crossed')
        /\ alive' \subseteq GrantTokens /\ refreshes' \in [Grants -> 0 .. MaxRefreshes]
        /\ expiries' = expiries
    BY <1>1, <1>5, <2>1, GrantedSound
  <2>3. memoryToken' \in SessionTokens /\ MemoryFits' /\ UserFits'
    BY <1>1, <1>5, <2>2, TokenFacts DEF MemoryFits, UserFits
  <2>4. /\ get' \in [Endpoints -> Gets]
        /\ \A e \in Endpoints : \/ get'[e] = get[e]
                                \/ get'[e].token = memoryToken'
    <3> DEFINE z(e) == [get[e] EXCEPT !.pc = "sent", !.token = memoryToken']
    <3>1. \A e \in Endpoints : z(e) \in Gets /\ z(e).token = memoryToken'
      BY <1>1, <2>3 DEF Gets
    <3>2. get' = [e \in Endpoints |-> IF get[e].pc = "refreshing" THEN z(e) ELSE get[e]]
      BY <1>5
    <3> HIDE DEF z
    <3> QED
      BY <1>1, <3>1, <3>2
  <2>5. ProfileGetFits'
    <3>1. CASE get'["me"] = get["me"]
      BY <1>1, <2>2, <3>1 DEF ProfileGetFits
    <3>2. CASE get'["me"].token = memoryToken'
      BY <2>2, <3>2 DEF ProfileGetFits
    <3> QED
      BY <1>1, <2>4, <3>1, <3>2
  <2>6. SessionsWhole'
    BY <1>1, <1>4, <2>2, SessionsKept
  <2>7. SessionShape'
    BY <1>1, <1>4, <1>5, <2>2, <2>3, <2>4
    DEF SessionShape, guildVars, callbackVars
  <2> QED
    BY <1>3, <2>3, <2>5, <2>6, <2>7 DEF SessionInv
<1>6. CASE /\ \/ RefreshRefused(refresher.session)
              \/ memoryToken' = Absent /\ UNCHANGED <<storage, user, serverVars, crossed>>
           /\ get' = [e \in Endpoints |-> IF get[e].pc = "refreshing"
                        THEN [get[e] EXCEPT !.pc = "sent"] ELSE get[e]]
  <2>1. UNCHANGED <<serverVars, crossed>>
    BY <1>6 DEF RefreshRefused
  <2>2. /\ storage' \in Sessions /\ memoryToken' \in SessionTokens /\ user' \in Users \cup {None}
        /\ storage'.token = Absent \/ storage' = storage
        /\ MemoryFits' /\ UserFits' /\ Whole(storage', avatarless, crossed')
    <3>1. CASE clearSession
      BY <1>1, <3>1, Cleared
    <3>2. CASE memoryToken' = Absent /\ UNCHANGED <<storage, user, serverVars, crossed>>
      BY <1>1, <3>2, TokenFacts DEF SessionShape, MemoryFits, UserFits, SessionsWhole
    <3> QED
      BY <1>6, <3>1, <3>2 DEF RefreshRefused
  <2>3. /\ get' \in [Endpoints -> Gets]
        /\ \A e \in Endpoints : get'[e].token = get[e].token
                                /\ (get[e].pc = "idle" => get'[e].pc = "idle")
    <3> DEFINE z(e) == [get[e] EXCEPT !.pc = "sent"]
    <3>1. \A e \in Endpoints : z(e) \in Gets /\ z(e).token = get[e].token
      BY <1>1 DEF Gets
    <3>2. get' = [e \in Endpoints |-> IF get[e].pc = "refreshing" THEN z(e) ELSE get[e]]
      BY <1>6
    <3> HIDE DEF z
    <3> QED
      BY <1>1, <3>1, <3>2
  <2>4. ProfileGetFits'
    BY <1>1, <2>1, <2>2, <2>3 DEF ProfileGetFits
  <2>5. SessionsWhole'
    BY <1>1, <1>4, <2>1, <2>2, SessionsKept
  <2>6. SessionShape'
    BY <1>1, <1>4, <2>1, <2>2, <2>3
    DEF SessionShape, guildVars, callbackVars, serverVars
  <2> QED
    BY <1>3, <2>2, <2>4, <2>5, <2>6 DEF SessionInv
<1> QED
  BY <1>5, <1>6 DEF ClientRefreshed

\* The profile arrives: the user stored and shown is the one whose token was sent.
LEMMA MeAnsweredSound ==
  ASSUME SessionInv, MeAnswered
  PROVE  SessionInv'
<1> DEFINE t == get["me"].token
           who == OwnerOf[t[1]]
<1>1. /\ SessionShape /\ SessionsWhole /\ MemoryFits /\ UserFits /\ ProfileGetFits
      /\ PostsCounted /\ CalmKept /\ "me" \in Endpoints
      /\ get["me"].pc = "sent" /\ t \in alive /\ who \notin avatarless
      /\ user' = who /\ storage' = [storage EXCEPT !.user = who]
      /\ Ended("me") /\ HydrationsEnd /\ alive \subseteq GrantTokens /\ storage \in Sessions
      /\ UNCHANGED <<givenVars, crossed, memoryToken, refresher, guildVars, callbackVars,
                     serverVars, trouble>>
      /\ UNCHANGED <<build, avatarless, alive, posts, failures, exchange, oauthState>>
  BY DEF SessionInv, MeAnswered, SessionShape, Endpoints, givenVars, serverVars, callbackVars
<1>2. t \in GrantTokens /\ who \in Users /\ who # None
  BY <1>1, TokenFacts, SessionAssumption
<1> HIDE DEF who, t
<1>3. /\ storage' \in Sessions /\ storage'.token = storage.token
      /\ storage'.refresh = storage.refresh /\ storage'.user = who
      /\ storage'.expired = storage.expired
  BY <1>1, <1>2 DEF Sessions
<1>4. /\ hydration' \in [Hydrations -> HydrationCalls] /\ isLoading' \in BOOLEAN
      /\ \A h \in Hydrations :
           \/ hydration'[h] = hydration[h]
           \/ /\ hydration[h].pc = "getting" /\ hydration'[h].pc = "done"
              /\ hydration'[h].session = NoSession
      /\ (\A h \in Hydrations : hydration[h].pc # "getting") => isLoading' = isLoading
  BY <1>1, HydrationsEndSound
<1>5. /\ get' \in [Endpoints -> Gets] /\ get'["me"].pc = "idle"
      /\ \A f \in Endpoints \ {"me"} : get'[f] = get[f]
  BY <1>1, EndedSound
<1>6. Fits(who, storage.token, avatarless, crossed)
  <2>1. storage.token # Absent => t[1] = storage.token[1] \/ crossed
    BY <1>1 DEF ProfileGetFits, t
  <2> QED
    BY <2>1 DEF Fits, who
<1>7. Whole(storage', avatarless, crossed')
  BY <1>1, <1>3, <1>6 DEF Whole, SessionsWhole
<1>8. SessionsWhole'
  BY <1>1, <1>4, <1>7, SessionsKept, NoSessionWhole
<1>9. MemoryFits' /\ UserFits' /\ ProfileGetFits' /\ PostsCounted'
  BY <1>1, <1>3, <1>5, <1>6
  DEF MemoryFits, UserFits, ProfileGetFits, PostsCounted
<1>10. SessionShape'
  BY <1>1, <1>2, <1>3, <1>4, <1>5
  DEF SessionShape, givenVars, guildVars, callbackVars, serverVars
<1>11. CalmKept'
  <2> DEFINE token == <<OldGrant, 0>>
             owner == OwnerOf[OldGrant]
  <2>1. SUFFICES ASSUME ~trouble
                 PROVE  CalmKept'
    BY <1>1 DEF CalmKept
  <2>2. /\ storage.token = token /\ ~storage.expired
        /\ owner \notin avatarless /\ token \in alive /\ refresher.pc = "idle"
        /\ \A e \in Endpoints :
             get[e].pc = "idle" \/ (get[e].pc = "sent" /\ get[e].token = token)
        /\ \A v \in Visits : hydration[v].pc = "idle"
        /\ hydration["mount"].pc # "refreshing"
        /\ hydration["mount"].pc = "idle" => isLoading
        /\ hydration["mount"].pc # "idle" => isLoadingGuilds \/ guilds = owner
    BY <2>1, <1>1 DEF CalmKept
  <2>3. t = token
    BY <1>1, <2>2 DEF t
  <2>4. who = owner
    BY <2>3 DEF who
  <2>5. \A v \in Visits : hydration'[v].pc = "idle"
    BY <1>4, <2>2 DEF Hydrations
  <2>6. /\ hydration'["mount"].pc # "refreshing"
        /\ hydration'["mount"].pc = "idle" => hydration["mount"].pc = "idle" /\ isLoading'
    BY <1>4, <2>2 DEF Hydrations
  <2>7. guilds' = guilds /\ isLoadingGuilds' = isLoadingGuilds
    BY <1>1 DEF guildVars
  <2>8. \A e \in Endpoints :
          get'[e].pc = "idle" \/ (get'[e].pc = "sent" /\ get'[e].token = token)
    BY <1>5, <2>2
  <2>9. hydration'["mount"].pc # "idle" => isLoadingGuilds' \/ guilds' = owner
    <3>1. hydration'["mount"].pc # "idle" => hydration["mount"].pc # "idle"
      BY <1>4 DEF Hydrations
    <3> QED
      BY <2>2, <2>7, <3>1
  <2> HIDE DEF token, owner
  <2> QED
    BY <1>1, <1>3, <2>2, <2>4, <2>5, <2>6, <2>8, <2>9 DEF CalmKept, token, owner
<1> QED
  BY <1>8, <1>9, <1>10, <1>11 DEF SessionInv

\* The GET of the profile ends without one: rejected, refused or failed.
LEMMA MeLostSound ==
  ASSUME SessionInv, Ended("me"), HydrationsEnd,
         clearSession \/ UNCHANGED authVars, trouble',
         UNCHANGED <<givenVars, crossed, refresher, guildVars, callbackVars, serverVars>>
  PROVE  SessionInv'
<1>1. /\ SessionShape /\ SessionsWhole /\ MemoryFits /\ UserFits /\ ProfileGetFits
      /\ PostsCounted /\ "me" \in Endpoints /\ UNCHANGED <<build, avatarless>>
      /\ trouble' = TRUE
  BY DEF SessionInv, SessionShape, Endpoints, givenVars
<1>2. /\ hydration' \in [Hydrations -> HydrationCalls] /\ isLoading' \in BOOLEAN
      /\ \A h \in Hydrations : \/ hydration'[h].session = hydration[h].session
                               \/ hydration'[h].session = NoSession
  BY <1>1, HydrationsEndSound
<1>3. get' \in [Endpoints -> Gets] /\ get'["me"].pc = "idle"
  BY <1>1, EndedSound
<1>4. /\ storage' \in Sessions /\ memoryToken' \in SessionTokens /\ user' \in Users \cup {None}
      /\ MemoryFits' /\ UserFits' /\ Whole(storage', avatarless, crossed')
  <2>1. CASE clearSession
    BY <2>1, Cleared
  <2>2. CASE UNCHANGED authVars
    BY <1>1, <2>2 DEF authVars, SessionShape, MemoryFits, UserFits, SessionsWhole
  <2> QED
    BY <2>1, <2>2
<1>5. SessionsWhole'
  BY <1>1, <1>2, <1>4, SessionsKept, NoSessionWhole
<1>6. ProfileGetFits' /\ PostsCounted' /\ CalmKept'
  BY <1>1, <1>3 DEF ProfileGetFits, PostsCounted, CalmKept, callbackVars
<1>7. SessionShape'
  BY <1>1, <1>2, <1>3, <1>4 DEF SessionShape, guildVars, callbackVars, serverVars
<1> QED
  BY <1>4, <1>5, <1>6, <1>7 DEF SessionInv

\* In a calm reload the profile is one that isDiscordUser accepts.
LEMMA MeRejectedSound ==
  ASSUME SessionInv, MeRejected
  PROVE  SessionInv'
<1>1. trouble'
  <2>1. SUFFICES ASSUME ~trouble
                 PROVE  FALSE
    BY DEF MeRejected, SessionInv, SessionShape
  <2>2. get["me"].token = <<OldGrant, 0>> /\ OwnerOf[OldGrant] \notin avatarless
    BY <2>1 DEF SessionInv, CalmKept, MeRejected, Endpoints
  <2> QED
    BY <2>2 DEF MeRejected
<1> QED
  BY <1>1, MeLostSound DEF MeRejected

\* A profile that fails may sign out, and is trouble.
LEMMA MeFailedSound ==
  ASSUME SessionInv, MeFailed
  PROVE  SessionInv'
<1>1. clearSession \/ UNCHANGED authVars
  BY DEF MeFailed
<1> QED
  BY <1>1, MeLostSound DEF MeFailed

\* The guilds are asked for, with the token that requests carry.
LEMMA FetchGuildsSound ==
  ASSUME SessionInv, FetchGuilds
  PROVE  SessionInv'
<1>1. /\ SessionShape /\ SessionsWhole /\ MemoryFits /\ UserFits /\ ProfileGetFits
      /\ PostsCounted /\ CalmKept /\ "me" \in Endpoints /\ "guilds" \in Endpoints
      /\ get \in [Endpoints -> Gets] /\ storage \in Sessions /\ memoryToken \in SessionTokens
      /\ UNCHANGED <<givenVars, crossed, authVars, isLoading, hydration, refresher,
                     callbackVars, serverVars, trouble>>
      /\ UNCHANGED <<build, avatarless, storage, memoryToken, user, alive>>
  BY DEF SessionInv, SessionShape, FetchGuilds, Endpoints, givenVars, authVars, serverVars
<1>2. effectiveToken \in SessionTokens
  BY <1>1, FieldsOfSession DEF effectiveToken
<1>3. /\ get' = get \/ get' = JoinOrSend(get, "guilds", effectiveToken)
      /\ isLoadingGuilds' \in BOOLEAN /\ guilds' \in Users \cup {None}
      /\ isLoadingGuilds' \/ (isLoadingGuilds' = isLoadingGuilds /\ user = None)
      /\ guilds' = guilds \/ user = None
  BY <1>1 DEF FetchGuilds, SessionShape
<1>4. get' \in [Endpoints -> Gets] /\ get'["me"] = get["me"]
  BY <1>1, <1>2, <1>3, JoinOrSendSound
<1>5. SessionsWhole' /\ MemoryFits' /\ UserFits'
  BY <1>1, AccountKept
<1>6. ProfileGetFits' /\ PostsCounted'
  BY <1>1, <1>4 DEF ProfileGetFits, PostsCounted, callbackVars
<1>7. SessionShape'
  BY <1>1, <1>3, <1>4 DEF SessionShape, givenVars, callbackVars, serverVars
<1>8. CalmKept'
  <2> DEFINE token == <<OldGrant, 0>>
             owner == OwnerOf[OldGrant]
  <2>1. SUFFICES ASSUME ~trouble
                 PROVE  CalmKept'
    BY <1>1 DEF CalmKept
  <2>2. /\ storage.token = token /\ user = owner
        /\ \A e \in Endpoints :
             get[e].pc = "idle" \/ (get[e].pc = "sent" /\ get[e].token = token)
    BY <2>1, <1>1 DEF CalmKept
  <2>3. token \in SessionTokens /\ token # Absent /\ owner # None
    BY TokenFacts, SessionAssumption
  <2> HIDE DEF token, owner
  <2>4. effectiveToken = token
    BY <1>1, <2>2 DEF effectiveToken, MemoryFits
  <2>5. isLoadingGuilds'
    BY <1>3, <2>2, <2>3
  <2>6. \A e \in Endpoints :
          get'[e].pc = "idle" \/ (get'[e].pc = "sent" /\ get'[e].token = token)
    <3>1. CASE get' = get
      BY <2>2, <3>1
    <3>2. CASE get' = JoinOrSend(get, "guilds", token)
      <4>1. \/ get'["guilds"].pc = "idle"
            \/ get'["guilds"].pc = "sent" /\ get'["guilds"].token = token
        BY <1>1, <2>2, <2>3, <3>2, JoinOrSendSound
      <4>2. get'["me"] = get["me"]
        BY <1>4
      <4> QED
        BY <1>1, <2>2, <4>1, <4>2 DEF Endpoints
    <3> QED
      BY <1>3, <2>4, <3>1, <3>2
  <2> QED
    BY <1>1, <2>5, <2>6 DEF CalmKept, token, owner
<1> QED
  BY <1>5, <1>6, <1>7, <1>8 DEF SessionInv

\* They arrive; in a calm reload they are the stored user's.
LEMMA GuildsAnsweredSound ==
  ASSUME SessionInv, GuildsAnswered
  PROVE  SessionInv'
<1>1. /\ SessionShape /\ SessionsWhole /\ MemoryFits /\ UserFits /\ ProfileGetFits
      /\ PostsCounted /\ CalmKept /\ "me" \in Endpoints /\ "guilds" \in Endpoints
      /\ get["guilds"].pc = "sent" /\ isLoadingGuilds' = FALSE /\ Ended("guilds")
      /\ alive \subseteq GrantTokens
      /\ \/ /\ get["guilds"].token \in alive
            /\ guilds' = OwnerOf[get["guilds"].token[1]] /\ UNCHANGED trouble
         \/ UNCHANGED guilds /\ trouble' = TRUE
      /\ UNCHANGED <<givenVars, crossed, authVars, isLoading, hydration, refresher,
                     callbackVars, serverVars>>
      /\ UNCHANGED <<build, avatarless, storage, memoryToken, user, alive>>
  BY DEF SessionInv, SessionShape, GuildsAnswered, Endpoints, givenVars, authVars, serverVars
<1>2. /\ get' \in [Endpoints -> Gets] /\ get'["guilds"].pc = "idle"
      /\ get'["me"] = get["me"]
  BY <1>1, EndedSound
<1>3. guilds' \in Users \cup {None} /\ trouble' \in BOOLEAN
  <2>1. guilds \in Users \cup {None} /\ trouble \in BOOLEAN
    BY <1>1 DEF SessionShape
  <2>2. CASE guilds' = OwnerOf[get["guilds"].token[1]] /\ get["guilds"].token \in alive
               /\ UNCHANGED trouble
    <3>1. get["guilds"].token[1] \in Grants
      BY <1>1, <2>2, TokenFacts
    <3> QED
      BY <2>1, <2>2, <3>1, SessionAssumption
  <2>3. CASE UNCHANGED guilds /\ trouble' = TRUE
    BY <2>1, <2>3
  <2> QED
    BY <1>1, <2>2, <2>3
<1>4. SessionsWhole' /\ MemoryFits' /\ UserFits'
  BY <1>1, AccountKept
<1>5. ProfileGetFits' /\ PostsCounted'
  BY <1>1, <1>2 DEF ProfileGetFits, PostsCounted, callbackVars
<1>6. SessionShape'
  BY <1>1, <1>2, <1>3 DEF SessionShape, givenVars, callbackVars, serverVars
<1>7. CalmKept'
  <2> DEFINE token == <<OldGrant, 0>>
             owner == OwnerOf[OldGrant]
  <2>1. SUFFICES ASSUME ~trouble'
                 PROVE  CalmKept'
    BY DEF CalmKept
  <2>2. /\ get["guilds"].token = token
        /\ \A e \in Endpoints :
             get[e].pc = "idle" \/ (get[e].pc = "sent" /\ get[e].token = token)
    BY <2>1, <1>1 DEF CalmKept
  <2>3. guilds' = owner
    <3>1. token[1] = OldGrant
      BY TokenFacts, SessionAssumption
    <3> QED
      BY <1>1, <2>1, <2>2, <3>1
  <2>4. \A e \in Endpoints :
          get'[e].pc = "idle" \/ (get'[e].pc = "sent" /\ get'[e].token = token)
    BY <1>2, <2>2 DEF Endpoints
  <2> HIDE DEF token, owner
  <2> QED
    BY <1>1, <2>1, <2>3, <2>4 DEF CalmKept, token, owner
<1> QED
  BY <1>4, <1>5, <1>6, <1>7 DEF SessionInv

\* A run of the callback page's effect, and a failed exchange: the posts are counted.
LEMMA CallbackSound ==
  ASSUME SessionInv, (\E v \in Visits : ProcessCallback(v)) \/ ExchangeFailed
  PROVE  SessionInv'
<1>1. /\ SessionShape /\ SessionsWhole /\ MemoryFits /\ UserFits /\ ProfileGetFits
      /\ PostsCounted /\ CalmKept
      /\ UNCHANGED <<givenVars, crossed, authVars, isLoading, hydration, refresher, get,
                     guildVars, serverVars, trouble>>
      /\ UNCHANGED <<build, avatarless, storage, memoryToken, user, alive>>
  BY DEF SessionInv, ProcessCallback, ExchangeFailed, givenVars, authVars, serverVars
<1>2. /\ build \in {"production", "development"} /\ oauthState \in BOOLEAN
      /\ visit \in [Visits -> {"idle", "awaiting", "failed", "done"}]
      /\ exchange \in {"none", "posted", "failed", "completed"}
      /\ posts \in Nat /\ failures \in Nat
  BY <1>1 DEF SessionShape
<1>3. /\ PostsCounted' /\ oauthState' \in BOOLEAN /\ posts' \in Nat /\ failures' \in Nat
      /\ visit' \in [Visits -> {"idle", "awaiting", "failed", "done"}]
      /\ exchange' \in {"none", "posted", "failed", "completed"}
  <2>1. CASE \E v \in Visits : ProcessCallback(v)
    <3> DEFINE Begins ==
                 /\ exchange # "completed" /\ oauthState' = FALSE /\ UNCHANGED failures
                 /\ ~(build = "production" /\ ~oauthState) /\ exchange' = "posted"
                 /\ posts' = IF exchange = "posted" THEN posts ELSE posts + 1
    <3>1. PICK v \in Visits : ProcessCallback(v)
      BY <2>1
    <3>2. visit' \in [Visits -> {"idle", "awaiting", "failed", "done"}]
      BY <1>2, <3>1 DEF ProcessCallback
    <3>3. \/ UNCHANGED <<oauthState, exchange, posts, failures>>
          \/ oauthState' = FALSE /\ UNCHANGED <<exchange, posts, failures>>
          \/ Begins
      BY <3>1 DEF ProcessCallback
    <3>4. CASE /\ exchange' = exchange /\ posts' = posts /\ failures' = failures
               /\ oauthState' = oauthState \/ oauthState' = FALSE
      <4>1. oauthState' \in BOOLEAN
        BY <1>2, <3>4
      <4>2. PostsCounted'
        BY <1>1, <3>4 DEF PostsCounted
      <4> QED
        BY <1>2, <3>2, <3>4, <4>1, <4>2
    <3>5. CASE Begins
      <4>1. /\ failures' = failures /\ oauthState' = FALSE /\ exchange' = "posted"
            /\ build' = build
        BY <1>1, <3>5
      <4>2. /\ posts <= failures + (IF exchange = "posted" THEN 1 ELSE 0)
            /\ posts' = IF exchange = "posted" THEN posts ELSE posts + 1
        BY <1>1, <3>5 DEF PostsCounted
      <4>3. posts' \in Nat /\ posts' <= failures' + 1
        BY <1>2, <4>1, <4>2
      <4>4. build = "production" => posts' <= 1
        <5>1. build = "production" => oauthState /\ posts = 0
          BY <1>1, <3>5 DEF PostsCounted
        <5> QED
          BY <1>2, <4>2, <5>1
      <4>5. PostsCounted'
        BY <4>1, <4>3, <4>4 DEF PostsCounted
      <4> QED
        BY <1>2, <3>2, <4>1, <4>3, <4>5
    <3> QED
      BY <3>3, <3>4, <3>5
  <2>2. CASE ExchangeFailed
    BY <1>1, <1>2, <2>2 DEF ExchangeFailed, PostsCounted
  <2> QED
    BY <2>1, <2>2
<1>4. SessionsWhole' /\ MemoryFits' /\ UserFits'
  BY <1>1, AccountKept
<1>5. ProfileGetFits' /\ CalmKept'
  BY <1>1 DEF ProfileGetFits, CalmKept, guildVars
<1>6. SessionShape'
  BY <1>1, <1>3 DEF SessionShape, givenVars, guildVars, serverVars
<1> QED
  BY <1>3, <1>4, <1>5, <1>6 DEF SessionInv

\* The exchange is answered: a whole session of the new login replaces what was stored.
LEMMA ExchangedSound ==
  ASSUME SessionInv, NEW v \in Visits, Exchanged(v)
  PROVE  SessionInv'
<1> DEFINE s == [token |-> <<NewGrant, 0>>, refresh |-> <<NewGrant, 0>>,
                 user |-> AsStored(OwnerOf[NewGrant]), expired |-> FALSE]
<1>1. /\ SessionShape /\ SessionsWhole /\ MemoryFits /\ UserFits /\ ProfileGetFits
      /\ PostsCounted /\ v \in Hydrations /\ get \in [Endpoints -> Gets]
      /\ UNCHANGED <<givenVars, refresher, guildVars, oauthState, posts, failures, expiries,
                     refreshes>>
      /\ UNCHANGED <<build, avatarless>> /\ trouble' = TRUE
      /\ exchange \in {"posted", "completed"} /\ exchange' = "completed"
      /\ visit' = [visit EXCEPT ![v] = "done"] /\ Rehydrate(v, s, get)
      /\ alive' = alive \cup (IF exchange = "posted" THEN {<<NewGrant, 0>>} ELSE {})
  BY DEF SessionInv, SessionShape, Exchanged, Hydrations, givenVars
<1>2. /\ s \in Sessions /\ s.token = <<NewGrant, 0>> /\ s.refresh = s.token /\ ~s.expired
      /\ s.user = AsStored(OwnerOf[NewGrant])
  <2>1. AsStored(OwnerOf[NewGrant]) \in Users \cup {None}
    BY SessionAssumption DEF AsStored
  <2> QED
    BY <2>1, TokenFacts DEF Sessions, SessionTokens
<1>3. s.token # Absent /\ s.token[1] = NewGrant
  BY <1>2, TokenFacts
<1>4. s.user = None => OwnerOf[s.token[1]] \in avatarless
  BY <1>2, <1>3, SessionAssumption DEF AsStored
<1>5. Whole(s, avatarless, crossed)
  BY <1>2, <1>3 DEF Whole, Fits, AsStored
<1> HIDE DEF s
<1>6. /\ storage' \in Sessions /\ memoryToken' \in SessionTokens /\ user' \in Users \cup {None}
      /\ isLoading' \in BOOLEAN /\ hydration' \in [Hydrations -> HydrationCalls]
      /\ get' \in [Endpoints -> Gets] /\ crossed' \in BOOLEAN /\ (crossed => crossed')
      /\ Whole(storage', avatarless, crossed') /\ MemoryFits' /\ UserFits' /\ ProfileGetFits'
      /\ \A k \in Hydrations : \/ hydration'[k].session = hydration[k].session
                               \/ Whole(hydration'[k].session, avatarless, crossed')
  BY <1>1, <1>2, <1>3, <1>4, <1>5, RehydrateSound
<1>7. SessionsWhole'
  BY <1>1, <1>6, SessionsKept
<1>8. PostsCounted' /\ CalmKept'
  BY <1>1 DEF PostsCounted, CalmKept
<1>9. SessionShape'
  <2>1. alive' \subseteq GrantTokens
    BY <1>1, TokenFacts DEF SessionShape
  <2>2. visit' \in [Visits -> {"idle", "awaiting", "failed", "done"}]
    BY <1>1 DEF SessionShape
  <2> QED
    BY <1>1, <1>6, <2>1, <2>2 DEF SessionShape, givenVars, guildVars
<1> QED
  BY <1>6, <1>7, <1>8, <1>9 DEF SessionInv

\* A logout forgets everything, and is trouble.
LEMMA LogoutSound ==
  ASSUME SessionInv, Logout
  PROVE  SessionInv'
<1>1. /\ SessionShape /\ SessionsWhole /\ ProfileGetFits /\ PostsCounted
      /\ clearSession /\ trouble' = TRUE
      /\ UNCHANGED <<givenVars, crossed, isLoading, hydration, refresher, get, guildVars,
                     callbackVars, serverVars>>
      /\ UNCHANGED <<build, avatarless>>
  BY DEF SessionInv, Logout, givenVars
<1>2. /\ storage' \in Sessions /\ memoryToken' \in SessionTokens /\ user' \in Users \cup {None}
      /\ storage'.token = Absent /\ MemoryFits' /\ UserFits'
      /\ \A r, c : Whole(storage', r, c)
  BY <1>1, Cleared
<1>3. SessionsWhole'
  BY <1>1, <1>2, SessionsKept
<1>4. ProfileGetFits' /\ PostsCounted' /\ CalmKept'
  BY <1>1, <1>2 DEF ProfileGetFits, PostsCounted, CalmKept, callbackVars
<1>5. SessionShape'
  BY <1>1, <1>2 DEF SessionShape, guildVars, callbackVars, serverVars
<1> QED
  BY <1>2, <1>3, <1>4, <1>5 DEF SessionInv

\* A token runs out: what is stored keeps its login.
LEMMA ExpireSound ==
  ASSUME SessionInv, Expire
  PROVE  SessionInv'
<1>1. PICK t \in alive :
        /\ alive' = alive \ {t}
        /\ storage' = [storage EXCEPT !.expired = @ \/ storage.token = t]
  BY DEF Expire
<1>2. /\ SessionShape /\ SessionsWhole /\ MemoryFits /\ UserFits /\ ProfileGetFits
      /\ PostsCounted /\ storage \in Sessions /\ expiries' = expiries + 1 /\ trouble' = TRUE
      /\ UNCHANGED <<givenVars, crossed, memoryToken, user, isLoading, hydration, refresher,
                     get, guildVars, callbackVars, refreshes>>
      /\ UNCHANGED <<build, avatarless>>
  BY DEF SessionInv, SessionShape, Expire, givenVars
<1> DEFINE b == storage.expired \/ storage.token = t
<1>3. b \in BOOLEAN /\ storage' = [storage EXCEPT !.expired = b]
  BY <1>1
<1> HIDE DEF b
<1>4. /\ storage' \in Sessions /\ storage'.token = storage.token
      /\ storage'.refresh = storage.refresh /\ storage'.user = storage.user
  BY <1>2, <1>3 DEF Sessions
<1>5. Whole(storage', avatarless, crossed')
  BY <1>2, <1>4 DEF SessionsWhole, Whole
<1>6. SessionsWhole'
  BY <1>2, <1>5, SessionsKept
<1>7. /\ MemoryFits' /\ UserFits' /\ ProfileGetFits' /\ PostsCounted' /\ CalmKept'
  BY <1>2, <1>4
  DEF MemoryFits, UserFits, ProfileGetFits, PostsCounted, CalmKept, callbackVars
<1>8. SessionShape'
  <2>1. expiries' \in Nat /\ alive' \subseteq GrantTokens
    BY <1>1, <1>2 DEF SessionShape
  <2> QED
    BY <1>2, <1>4, <2>1 DEF SessionShape, guildVars, callbackVars
<1> QED
  BY <1>6, <1>7, <1>8 DEF SessionInv

\* The first renders.
LEMMA SessionStarts ==
  ASSUME SessionInit
  PROVE  SessionInv
<1> DEFINE token == <<OldGrant, 0>>
           owner == OwnerOf[OldGrant]
<1>1. /\ token \in GrantTokens /\ token # Absent /\ token[1] = OldGrant /\ token \in SessionTokens
      /\ owner \in Users /\ owner # None /\ Absent \in SessionTokens
  BY TokenFacts, SessionAssumption
<1>2. CASE storage = NoSession
  <2>1. storage \in Sessions /\ Whole(storage, avatarless, crossed)
    BY <1>2, NoSessionWhole
  <2>2. user = None /\ trouble /\ trouble \in BOOLEAN
    BY <1>2, NoSessionWhole DEF SessionInit
  <2> QED
    <3>1. SessionShape
      <4>1. get \in [Endpoints -> Gets]
        BY TokenFacts DEF SessionInit, Gets
      <4>2. alive \subseteq GrantTokens
        BY <1>1 DEF SessionInit
      <4>3. refreshes \in [Grants -> 0 .. MaxRefreshes]
        BY SessionAssumption DEF SessionInit
      <4>4. hydration \in [Hydrations -> HydrationCalls] /\ refresher \in RefreshCalls
        BY NoSessionWhole DEF SessionInit
      <4> QED
        BY <2>1, <2>2, <4>1, <4>2, <4>3, <4>4, TokenFacts DEF SessionInit, SessionShape
    <3>2. SessionsWhole
      BY <2>1, NoSessionWhole DEF SessionsWhole, SessionInit
    <3> QED
      <4>1. CalmKept
        BY <2>2 DEF CalmKept
      <4>2. MemoryFits /\ UserFits
        BY <2>2 DEF MemoryFits, UserFits, Fits, SessionInit
      <4>3. ProfileGetFits /\ PostsCounted
        BY DEF ProfileGetFits, PostsCounted, SessionInit, Endpoints
      <4> QED
        BY <3>1, <3>2, <4>1, <4>2, <4>3 DEF SessionInv
<1>3. CASE \E r \in {Absent, token}, u \in {None, AsStored(owner)}, x \in BOOLEAN :
             storage = [token |-> token, refresh |-> r, user |-> u, expired |-> x]
  <2>1. PICK r \in {Absent, token}, u \in {None, AsStored(owner)}, x \in BOOLEAN :
          storage = [token |-> token, refresh |-> r, user |-> u, expired |-> x]
    BY <1>3
  <2>2. u \in Users \cup {None} /\ (u # None => u = owner /\ owner \notin avatarless)
    BY <1>1, <2>1 DEF AsStored
  <2>3. /\ storage.token = token /\ storage.refresh = r /\ storage.user = u
        /\ storage.expired = x
    BY <2>1
  <2>4. storage \in Sessions
    BY <1>1, <2>1, <2>2 DEF Sessions
  <2> DEFINE b == storage.expired \/ storage.user = None
  <2>5. trouble = b /\ b \in BOOLEAN
    BY DEF SessionInit
  <2>6. SessionShape
    <3> HIDE DEF b
    <3>1. get \in [Endpoints -> Gets]
      BY TokenFacts DEF SessionInit, Gets
    <3>2. alive \subseteq GrantTokens
      BY <1>1 DEF SessionInit
    <3>3. refreshes \in [Grants -> 0 .. MaxRefreshes]
      BY SessionAssumption DEF SessionInit
    <3>4. hydration \in [Hydrations -> HydrationCalls] /\ refresher \in RefreshCalls
      BY NoSessionWhole DEF SessionInit
    <3>5. user \in Users \cup {None} /\ crossed \in BOOLEAN
      BY <2>2, <2>3 DEF SessionInit
    <3> QED
      BY <2>4, <2>5, <3>1, <3>2, <3>3, <3>4, <3>5, TokenFacts DEF SessionInit, SessionShape
  <2>7. Whole(storage, avatarless, crossed) /\ UserFits
    BY <1>1, <2>1, <2>2, <2>3 DEF Whole, Fits, UserFits, SessionInit
  <2>8. SessionsWhole
    BY <2>7, NoSessionWhole DEF SessionsWhole, SessionInit
  <2>9. CalmKept
    <3>1. SUFFICES ASSUME ~trouble
                   PROVE  CalmKept
      BY DEF CalmKept
    <3>2. ~storage.expired /\ storage.user # None
      BY <2>5, <3>1
    <3>3. /\ hydration["mount"].pc = "idle" /\ \A v \in Visits : hydration[v].pc = "idle"
          /\ \A e \in Endpoints : get[e].pc = "idle"
          /\ refresher.pc = "idle"
      BY NoSessionWhole DEF SessionInit, Hydrations
    <3>4. user = storage.user /\ isLoading = TRUE /\ token \in alive
      BY <3>2 DEF SessionInit
    <3> QED
      BY <2>2, <2>3, <3>2, <3>3, <3>4 DEF CalmKept
  <2>10. MemoryFits /\ ProfileGetFits /\ PostsCounted
    BY DEF MemoryFits, ProfileGetFits, PostsCounted, SessionInit, Endpoints
  <2> QED
    BY <2>6, <2>7, <2>8, <2>9, <2>10 DEF SessionInv
<1> QED
  BY <1>2, <1>3 DEF SessionInit, StoredBefore

\* Every step keeps the invariant.
LEMMA SessionStep ==
  ASSUME SessionInv, [SessionNext]_sessionVars
  PROVE  SessionInv'
<1>1. CASE UNCHANGED sessionVars
  BY <1>1
  DEF sessionVars, givenVars, authVars, guildVars, callbackVars, serverVars, SessionInv,
      SessionShape, SessionsWhole, MemoryFits, UserFits, ProfileGetFits, PostsCounted, CalmKept
<1> QED
  BY <1>1, MountSound, HydrationRefreshedSound, UnauthorizedSound, ClientRefreshedSound,
     MeAnsweredSound, MeRejectedSound, MeFailedSound, FetchGuildsSound, GuildsAnsweredSound,
     CallbackSound, ExchangedSound, LogoutSound, ExpireSound
  DEF SessionNext, SessionProgress

\* What the invariant says of a session.
LEMMA SessionFollows ==
  ASSUME SessionInv
  PROVE  SessionTypeOK /\ SessionWhole
<1>1. /\ SessionShape /\ SessionsWhole /\ MemoryFits /\ UserFits /\ PostsCounted /\ CalmKept
  BY DEF SessionInv
<1>2. SessionTypeOK
  <2>1. /\ storage.token \in SessionTokens /\ storage.refresh \in SessionTokens
        /\ storage.user \in Users \cup {None} /\ storage.expired \in BOOLEAN
    BY <1>1, FieldsOfSession DEF SessionShape
  <2>2. /\ \A h \in Hydrations : hydration[h].pc \in {"idle", "refreshing", "getting", "done"}
        /\ refresher.pc \in {"idle", "refreshing"}
        /\ \A e \in Endpoints : get[e].pc \in {"idle", "sent", "refreshing"}
    BY <1>1 DEF SessionShape, HydrationCalls, RefreshCalls, Gets
  <2> QED
    BY <1>1, <2>1, <2>2 DEF SessionTypeOK, SessionShape, SessionTokens
<1>3. MemoryMatchesStorage
  BY <1>1 DEF MemoryMatchesStorage, MemoryFits
<1>4. TokensOfOneLogin
  BY <1>1 DEF TokensOfOneLogin, SessionsWhole, Whole
<1>5. ExchangedOnce
  BY <1>1 DEF ExchangedOnce, PostsCounted, SessionShape
<1>6. DeepLinkKept
  <2>1. SUFFICES ASSUME ~trouble
                 PROVE  Gate(storage.user) \in {"loading", "page"}
    BY DEF DeepLinkKept
  <2>2. OwnerOf[OldGrant] # None
    BY SessionAssumption
  <2> QED
    BY <1>1, <2>1, <2>2 DEF CalmKept, Gate
<1>7. AccountShown
  BY <1>1 DEF AccountShown, UserFits, Fits
<1> QED
  BY <1>2, <1>3, <1>4, <1>5, <1>6, <1>7 DEF SessionWhole

\* However page loads, hydrations, refreshes, answers, logins and logouts interleave, a
\* session stays whole: memory and storage hold one login, whose tokens and account go
\* together; a code is exchanged once; and a calm reload finds the page it left.
THEOREM SessionAlwaysWhole == SessionSpec => [](SessionTypeOK /\ SessionWhole)
<1>1. SessionInit => SessionInv
  BY SessionStarts
<1> QED
  BY <1>1, SessionStep, SessionFollows, PTL DEF SessionSpec
=============================================================================
