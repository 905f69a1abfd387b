------------------------------ MODULE Delivery ------------------------------
(***************************************************************************)
(* From a notification to the Discord channels, in the split deployment:   *)
(* feed workers (one pod each) poll, push tasks onto a Redis list and      *)
(* record what they pushed; the gateway process pops the tasks and hands   *)
(* them to DiscordDeliveryAdapter.deliver, which the pipeline runs of the  *)
(* gateway's own scheduler call as well.  All deliveries of the gateway    *)
(* share the blacklist of dead channels.                                   *)
(***************************************************************************)
EXTENDS Integers, FiniteSets, SequencesExt

CONSTANTS
  Channels,       \* Discord channels
  Workers,        \* feed worker replicas
  Consumer,       \* the gateway's QueueConsumerWorker
  Runs,           \* pipeline runs of the gateway's scheduler that deliver
  Monitors,       \* the monitors the workers poll
  Items,          \* the entries of a feed
  Old,            \* those published more than a day ago, never announced
  Sizes,          \* how many messages the payloads of the runs make
  Targets,        \* the target_channels of a monitor, in order
  Capacity,       \* MAX_DEAD_CHANNELS
  Failures,       \* the kinds of failure this instance allows
  MaxFailures,    \* bound: how many of them in one behaviour
  MaxPushes       \* bound: how many tasks are pushed

FailureKinds == {"channel", "send", "gateway", "worker", "redis", "reply",
                 "eviction", "process", "mark"}

Callers == {Consumer} \cup Runs
Tasks   == Monitors \X Items

ASSUME DeliveryAssumption ==
  /\ Consumer \notin Runs /\ IsFiniteSet(Runs)
  /\ Old \subseteq Items
  /\ Targets \in [Monitors -> Seq(Channels)]
  /\ Sizes \subseteq 0..2
  /\ Capacity \in Nat \ {0}
  /\ MaxFailures \in Nat /\ MaxPushes \in Nat
  /\ Failures \subseteq FailureKinds

VARIABLES
  health,   \* channel -> "ok", "gone" (deleted) or "forbidden"
  dead,     \* the unexpired entries of _DEAD_CHANNELS, earliest expiry first
  stale,    \* its expired entries nobody has evicted yet
  step,     \* where each call of deliver stands
  job,      \* the task it delivers: a serial number, 0 for a pipeline run
  parts,    \* how many messages the payload makes: 2 for text and V2 layout
  rest,     \* the channels it has still to serve
  redis,    \* the Redis server answers
  queue,    \* the list discord_notifications, next to be popped first
  memory,   \* feed worker -> the tasks in its in-process fallback queue
  phase,    \* where each feed worker stands in its cycle
  left,     \* the monitors of the cycle it has still to poll
  at,       \* the one it is polling (a set of at most one)
  got,      \* what fetch_new_items returned
  todo,     \* those it has not processed yet
  logged,   \* tasks with a row in published_entries_v2
  spent,    \* failures so far
  (* history variables *)
  pushes,   \* the accepted tasks, in order: a serial is a place in here
  wire,     \* channel -> the serials of the tasks that reached it, in order
  repeats   \* channel -> failing calls on it since it is blacklisted

blacklist == <<dead, stale, repeats>>
calls     == <<step, job, parts, rest>>
broker    == <<redis, queue, memory>>
feeders   == <<phase, left, at, got, todo>>
vars      == <<health, blacklist, calls, broker, feeders, logged, spent, pushes, wire>>

Fail(kind) ==
  /\ kind \in Failures
  /\ spent < MaxFailures
  /\ spent' = spent + 1

-----------------------------------------------------------------------------
(* The blacklist of dead channels.  Every entry has the same time to live, *)
(* so entries expire in the order they were marked.                        *)

\* Mutant: an entry counts until the capacity drives it out.
IsChannelDeadForGood(c) == c \in ToSet(dead) \cup stale

\* Mutant: deliver does not ask the blacklist.
NeverDead(c) == FALSE

\* is_channel_dead: an expired entry no longer counts.
IsChannelDead(c) == c \in ToSet(dead)

\* Mutant: ten per cent, rounded down.
EvictNone(n) == n \div 10

\* How many of n entries make room for a new one.
EvictCount(n) == IF n \div 10 < 1 THEN 1 ELSE n \div 10

\* mark_channel_dead: at the limit the expired entries go, and when that is
\* not enough those that would expire first.
MarkChannelDead(c) ==
  LET known  == c \in ToSet(dead) \cup stale
      full   == ~known /\ Cardinality(stale) + Len(dead) >= Capacity
      crowd  == full /\ Len(dead) >= Capacity
      kept   == IF crowd THEN SubSeq(dead, EvictCount(Len(dead)) + 1, Len(dead))
                ELSE RemoveFirst(dead, c) IN
  /\ dead' = Append(kept, c)
  /\ stale' = IF full THEN {} ELSE stale \ {c}
  /\ repeats' = [x \in Channels |->
       IF x = c /\ x \in ToSet(dead) THEN repeats[x] + 1
       ELSE IF x \in ToSet(kept) THEN repeats[x] ELSE 0]

\* The time to live of the oldest entry runs out.
Expire ==
  /\ dead # <<>>
  /\ dead' = Tail(dead)
  /\ stale' = stale \cup {Head(dead)}
  /\ repeats' = [repeats EXCEPT ![Head(dead)] = 0]
  /\ UNCHANGED <<health, calls, broker, feeders, logged, spent, pushes, wire>>

\* Somebody deletes the channel, takes the permission away, or gives it back.
ChannelChanges(c) ==
  /\ \/ Fail("channel") /\ health[c] = "ok" /\ \E h \in {"gone", "forbidden"} :
           health' = [health EXCEPT ![c] = h]
     \/ health[c] = "forbidden" /\ health' = [health EXCEPT ![c] = "ok"]
        /\ UNCHANGED spent
  /\ UNCHANGED <<blacklist, calls, broker, feeders, logged, pushes, wire>>

-----------------------------------------------------------------------------
(* One call of deliver: the loop over the target channels.                 *)

EndCall(d) ==
  /\ step' = [step EXCEPT ![d] = "idle"]
  /\ job' = [job EXCEPT ![d] = 0]
  /\ parts' = [parts EXCEPT ![d] = 0]
  /\ rest' = [rest EXCEPT ![d] = <<>>]

\* The loop goes on with the channel after the current one.
NextChannel(d) ==
  IF Len(rest[d]) = 1 THEN EndCall(d)
  ELSE /\ rest' = [rest EXCEPT ![d] = Tail(@)]
       /\ step' = [step EXCEPT ![d] = "check"]
       /\ UNCHANGED <<job, parts>>

StartCall(d, serial, n, targets) ==
  /\ step[d] = "idle"
  /\ IF targets = <<>> THEN UNCHANGED calls
     ELSE /\ step' = [step EXCEPT ![d] = "check"]
          /\ job' = [job EXCEPT ![d] = serial]
          /\ parts' = [parts EXCEPT ![d] = n]
          /\ rest' = [rest EXCEPT ![d] = targets]

\* A pipeline run of the gateway's scheduler has a notification for monitor m.
RunDelivers(d, m, n) ==
  /\ d \in Runs
  /\ StartCall(d, 0, n, Targets[m])
  /\ UNCHANGED <<health, blacklist, broker, feeders, logged, spent, pushes, wire>>

\* is_channel_dead and get_channel, without an await in between: the channel
\* is skipped, asked of Discord, or found in the cache.  An empty payload
\* skips a cached channel.
CheckChannel(d) ==
  LET c == Head(rest[d]) IN
  /\ step[d] = "check"
  /\ \/ IsChannelDead(c) /\ NextChannel(d) /\ UNCHANGED stale
     \/ /\ ~IsChannelDead(c)
        /\ stale' = stale \ {c}
        /\ \/ step' = [step EXCEPT ![d] = "fetch"] /\ UNCHANGED <<job, parts, rest>>
           \/ IF parts[d] = 0 THEN NextChannel(d)
              ELSE step' = [step EXCEPT ![d] = "send"] /\ UNCHANGED <<job, parts, rest>>
  /\ UNCHANGED <<health, dead, repeats, broker, feeders, logged, spent, pushes, wire>>

\* Mutant: an unusable channel is fetched again until it answers.
FetchUntilFound(d) ==
  LET c == Head(rest[d]) IN
  /\ step[d] = "fetch"
  /\ IF health[c] = "ok" THEN step' = [step EXCEPT ![d] = "send"] ELSE UNCHANGED step
  /\ UNCHANGED <<health, blacklist, job, parts, rest, broker, feeders, logged,
                 spent, pushes, wire>>

\* fetch_channel answers.
FetchChannel(d) ==
  LET c == Head(rest[d]) IN
  /\ step[d] = "fetch"
  /\ IF health[c] = "ok"
     THEN /\ IF parts[d] = 0 THEN NextChannel(d)
             ELSE step' = [step EXCEPT ![d] = "send"] /\ UNCHANGED <<job, parts, rest>>
          /\ UNCHANGED blacklist
     ELSE MarkChannelDead(c) /\ NextChannel(d)
  /\ UNCHANGED <<health, broker, feeders, logged, spent, pushes, wire>>

\* channel.send answers for the first, or for the second message of a pair.
SendMessage(d) ==
  LET c == Head(rest[d]) IN
  /\ step[d] \in {"send", "second"}
  /\ IF health[c] = "ok"
     THEN /\ wire' = IF job[d] = 0 THEN wire
                     ELSE [wire EXCEPT ![c] = Append(@, job[d])]
          /\ IF step[d] = "send" /\ parts[d] = 2
             THEN step' = [step EXCEPT ![d] = "second"] /\ UNCHANGED <<job, parts, rest>>
             ELSE NextChannel(d)
          /\ UNCHANGED blacklist
     ELSE MarkChannelDead(c) /\ NextChannel(d) /\ UNCHANGED wire
  /\ UNCHANGED <<health, broker, feeders, logged, spent, pushes>>

\* Any other exception of fetch_channel or send: the channel is given up.
CallFails(d) ==
  /\ step[d] \in {"fetch", "send", "second"}
  /\ Fail("send")
  /\ NextChannel(d)
  /\ UNCHANGED <<health, blacklist, broker, feeders, logged, pushes, wire>>

-----------------------------------------------------------------------------
(* A feed worker: every cycle it polls each monitor, processes everything  *)
(* it fetched and records it.                                              *)

\* The worker goes on with the next monitor of the cycle, or sleeps.
NextMonitor(w) ==
  /\ phase' = [phase EXCEPT ![w] = IF left[w] = {} THEN "sleep" ELSE "fetch"]
  /\ at' = [at EXCEPT ![w] = {}]
  /\ got' = [got EXCEPT ![w] = {}] /\ todo' = [todo EXCEPT ![w] = {}]
  /\ UNCHANGED left

\* get_all_monitors answers.
StartCycle(w) ==
  /\ phase[w] = "sleep"
  /\ Len(pushes) < MaxPushes
  /\ left' = [left EXCEPT ![w] = Monitors]
  /\ phase' = [phase EXCEPT ![w] = "fetch"]
  /\ UNCHANGED <<at, got, todo, health, blacklist, calls, broker, logged, spent, pushes, wire>>

\* fetch_new_items answers; nothing, or an exception, ends the monitor's turn.
FetchItems(w, m, items) ==
  /\ phase[w] = "fetch" /\ m \in left[w]
  /\ left' = [left EXCEPT ![w] = @ \ {m}]
  /\ IF items = {}
     THEN /\ phase' = [phase EXCEPT ![w] = IF left[w] = {m} THEN "sleep" ELSE "fetch"]
          /\ UNCHANGED <<at, got, todo>>
     ELSE /\ phase' = [phase EXCEPT ![w] = "process"]
          /\ at' = [at EXCEPT ![w] = {m}]
          /\ got' = [got EXCEPT ![w] = items] /\ todo' = [todo EXCEPT ![w] = items]
  /\ UNCHANGED <<health, blacklist, calls, broker, logged, spent, pushes, wire>>

\* RedisNotificationQueue.push: Redis takes the task, or the exception sends
\* it to the fallback; a reply lost on the way back leaves it in both.
Push(w, serial) ==
  \/ /\ redis
     /\ queue' = Append(queue, serial)
     /\ UNCHANGED <<redis, memory, spent>>
  \/ /\ ~redis
     /\ memory' = [memory EXCEPT ![w] = Append(@, serial)]
     /\ UNCHANGED <<redis, queue, spent>>
  \/ /\ redis /\ Fail("reply")
     /\ queue' = Append(queue, serial)
     /\ memory' = [memory EXCEPT ![w] = Append(@, serial)]
     /\ UNCHANGED redis

Processed(w, i) ==
  /\ todo' = [todo EXCEPT ![w] = @ \ {i}]
  /\ phase' = [phase EXCEPT ![w] = IF todo[w] = {i} THEN "mark" ELSE "process"]
  /\ UNCHANGED <<left, at, got>>

\* process_item ends with a push; an old entry is passed over.
ProcessItem(w, i) ==
  /\ phase[w] = "process" /\ i \in todo[w]
  /\ Processed(w, i)
  /\ \E m \in at[w] :
       IF i \in Old \/ Targets[m] = <<>> THEN UNCHANGED <<broker, spent, pushes>>
       ELSE /\ Len(pushes) < MaxPushes
            /\ pushes' = Append(pushes, <<m, i>>)
            /\ Push(w, Len(pushes) + 1)
  /\ UNCHANGED <<health, blacklist, calls, logged, wire>>

\* Mutant: the exception is caught item by item.
ProcessSkips(w, i) ==
  /\ phase[w] = "process" /\ i \in todo[w]
  /\ Fail("process")
  /\ Processed(w, i)
  /\ UNCHANGED <<health, blacklist, calls, broker, logged, pushes, wire>>

\* process_item raises and ends the monitor's turn: the layouts of all but the
\* native YouTube player need the bot, which a worker does not have.
ProcessRaises(w, i) ==
  /\ phase[w] = "process" /\ i \in todo[w]
  /\ Fail("process")
  /\ NextMonitor(w)
  /\ UNCHANGED <<health, blacklist, calls, broker, logged, pushes, wire>>

\* mark_items_published commits, or raises.
MarkPublished(w) ==
  /\ phase[w] = "mark"
  /\ NextMonitor(w)
  /\ \/ logged' = logged \cup (at[w] \X got[w]) /\ UNCHANGED spent
     \/ Fail("mark") /\ UNCHANGED logged
  /\ UNCHANGED <<health, blacklist, calls, broker, pushes, wire>>

\* The pod is restarted: its locals and its fallback queue are gone.
WorkerCrash(w) ==
  /\ Fail("worker")
  /\ phase' = [phase EXCEPT ![w] = "sleep"]
  /\ left' = [left EXCEPT ![w] = {}] /\ at' = [at EXCEPT ![w] = {}]
  /\ got' = [got EXCEPT ![w] = {}] /\ todo' = [todo EXCEPT ![w] = {}]
  /\ memory' = [memory EXCEPT ![w] = <<>>]
  /\ UNCHANGED <<health, blacklist, calls, redis, queue, logged, pushes, wire>>

-----------------------------------------------------------------------------
(* Redis and the gateway's consumer.                                       *)

RedisStops ==
  /\ redis /\ Fail("redis")
  /\ redis' = FALSE
  /\ UNCHANGED <<health, blacklist, calls, queue, memory, feeders, logged, pushes, wire>>

RedisReturns ==
  /\ ~redis
  /\ redis' = TRUE
  /\ UNCHANGED <<health, blacklist, calls, queue, memory, feeders, logged, spent, pushes, wire>>

\* maxmemory-policy allkeys-lru drops the key of the list.
RedisEvicts ==
  /\ redis /\ queue # <<>> /\ Fail("eviction")
  /\ queue' = <<>>
  /\ UNCHANGED <<health, blacklist, calls, redis, memory, feeders, logged, pushes, wire>>

\* Mutant: the list is popped at the end it is pushed to.
NextTask == Len(queue)

\* LPUSH and BRPOP: the task pushed first, by its place in the list.
FirstTask == 1

\* process_one: pop a task and start its delivery.
ProcessOne ==
  /\ step[Consumer] = "idle"
  /\ redis /\ queue # <<>>
  /\ queue' = RemoveAt(queue, FirstTask)
  /\ LET serial == queue[FirstTask]
     IN StartCall(Consumer, serial, 1, Targets[pushes[serial][1]])
  /\ UNCHANGED <<health, blacklist, redis, memory, feeders, logged, spent, pushes, wire>>

\* BRPOP took the task off the list and its reply is lost: process_one turns to
\* the gateway's own fallback queue, into which nobody pushes.
PopLosesReply ==
  /\ step[Consumer] = "idle"
  /\ redis /\ queue # <<>> /\ Fail("reply")
  /\ queue' = RemoveAt(queue, FirstTask)
  /\ UNCHANGED <<health, blacklist, calls, redis, memory, feeders, logged, pushes, wire>>

\* The gateway is restarted: deliveries and blacklist are gone.
GatewayCrash ==
  /\ Fail("gateway")
  /\ step' = [d \in Callers |-> "idle"] /\ job' = [d \in Callers |-> 0]
  /\ parts' = [d \in Callers |-> 0] /\ rest' = [d \in Callers |-> <<>>]
  /\ dead' = <<>> /\ stale' = {} /\ repeats' = [c \in Channels |-> 0]
  /\ UNCHANGED <<health, broker, feeders, logged, pushes, wire>>

-----------------------------------------------------------------------------
Init ==
  /\ health = [c \in Channels |-> "ok"]
  /\ dead = <<>> /\ stale = {} /\ repeats = [c \in Channels |-> 0]
  /\ step = [d \in Callers |-> "idle"] /\ job = [d \in Callers |-> 0]
  /\ parts = [d \in Callers |-> 0] /\ rest = [d \in Callers |-> <<>>]
  /\ redis = TRUE /\ queue = <<>> /\ memory = [w \in Workers |-> <<>>]
  /\ phase = [w \in Workers |-> "sleep"]
  /\ left = [w \in Workers |-> {}] /\ at = [w \in Workers |-> {}]
  /\ got = [w \in Workers |-> {}] /\ todo = [w \in Workers |-> {}]
  /\ logged = {} /\ spent = 0 /\ pushes = <<>>
  /\ wire = [c \in Channels |-> <<>>]

Deliver(d) == CheckChannel(d) \/ FetchChannel(d) \/ SendMessage(d)

Work(w) ==
  \/ StartCycle(w) \/ MarkPublished(w)
  \/ \E m \in Monitors, items \in SUBSET Items : FetchItems(w, m, items)
  \/ \E i \in Items : ProcessItem(w, i) \/ ProcessRaises(w, i)

Outage ==
  \/ RedisStops \/ RedisEvicts \/ PopLosesReply \/ GatewayCrash
  \/ \E w \in Workers : WorkerCrash(w)
  \/ \E d \in Callers : CallFails(d)

Next ==
  \/ \E d \in Callers : Deliver(d)
  \/ \E d \in Runs, m \in Monitors, n \in Sizes : RunDelivers(d, m, n)
  \/ \E w \in Workers : Work(w)
  \/ \E c \in Channels : ChannelChanges(c)
  \/ ProcessOne \/ RedisReturns \/ Expire
  \/ Outage

Spec == Init /\ [][Next]_vars

\* The event loops run their ready coroutines, the clock advances and Redis is
\* restarted (docker-compose.prod.yml:49).  Nobody has to repair a channel.
FairSpec ==
  /\ Spec
  /\ \A d \in Callers : WF_vars(Deliver(d))
  /\ WF_vars(ProcessOne) /\ WF_vars(RedisReturns) /\ WF_vars(Expire)

-----------------------------------------------------------------------------
(* Properties.                                                             *)

\* The alerts of the feed workers reach a channel in the order they were
\* pushed and each at most once, whatever is lost, fails or crashes on the
\* way: nothing that left the list is put back (queue_service.py:73-91,
\* queue_consumer.py:27-55).
InOrder ==
  \A c \in Channels : \A k \in 2..Len(wire[c]) : wire[c][k - 1] < wire[c][k]

\* The blacklist never outgrows its capacity and holds a channel once
\* (discord_delivery_adapter.py:43-53).
BlacklistBounded ==
  /\ Len(dead) + Cardinality(stale) <= Capacity
  /\ IsInjective(dead) /\ ToSet(dead) \cap stale = {}

\* Once a channel is blacklisted, only the deliveries already past their check
\* can still fail on it: one failing call for each other caller, no more
\* (discord_delivery_adapter.py:96-117, ADR-0005).
FailingCallsBounded ==
  \A c \in Channels : repeats[c] < Cardinality(Callers)

\* A feed worker records nothing it has not handed to the queue, unless the
\* entry is too old or the monitor has no channel (feed_worker.py:49-55): an
\* exception on the way leaves the entries unrecorded.
LoggedWasPushed ==
  \A t \in logged : t[2] \in Old \/ Targets[t[1]] = <<>> \/ t \in ToSet(pushes)

\* A task on the Redis list leaves it in time: the consumer never gets stuck in
\* a delivery (queue_consumer.py:57-71).
QueueDrains ==
  \A n \in 1..MaxPushes : []<>(n \notin ToSet(queue))

\* A channel that works again is not skipped for ever: the blacklist forgets it
\* (discord_delivery_adapter.py:25-36).
Heals ==
  \A c \in Channels :
    []<>(IsChannelDead(c) => health[c] # "ok")

\* The worker deduplicates: what the history records is not pushed again.
NotPushedAgain ==
  [][pushes' # pushes => Last(pushes') \notin logged]_vars
=============================================================================
