----------------------------- MODULE FeedPipeline -----------------------------
(***************************************************************************)
(* The ingestion path of the bot: the polling scheduler's tick, the        *)
(* pipeline run of every feed (fetch, bulk deduplication, dispatch, bulk   *)
(* commit), the administrator's manual check, the hot reload of the        *)
(* monitors and the table published_entries_v2 all of them share.          *)
(*                                                                         *)
(* The processes are coroutines of one event loop: an action is the code   *)
(* between two awaits.  A feed is what one scheduler task polls: a shared  *)
(* key with all its monitors, or one unshared monitor.  A space is the     *)
(* pair (platform, guild) that keys the publication history.               *)
(***************************************************************************)
EXTENDS Integers, FiniteSets

CONSTANTS
  Feeds,          \* tasks of the scheduler: shared keys and unshared monitors
  Monitors,       \* ids of the rows of table monitors
  Spaces,         \* (platform, guild) pairs
  Items,          \* feed entries
  FeedOf,         \* the feed a monitor watches
  SpaceOf,        \* the history a monitor is deduplicated in
  Carries,        \* the entries a feed can ever offer
  Nameless,       \* entries with no usable get_item_id
  Checkers,       \* concurrent POST /monitors/{id}/check requests
  Syncers,        \* concurrent requests that end in sync_with_db
  MaxPolls,       \* the semaphore's DEFAULT_MAX_POLLING_CONCURRENCY
  Disruptions,    \* the kinds of failure and intervention this instance allows
  MaxDisruptions, \* bound: how many of them in one behaviour
  MaxEpoch        \* bound: how many times the monitor list is rebuilt

Kinds == {"fetch", "dedup", "deliver", "mark", "abort", "crash",
          "reset", "wipe", "retention", "edit", "sync"}

ASSUME FeedAssumption ==
  /\ FeedOf \in [Monitors -> Feeds]
  /\ SpaceOf \in [Monitors -> Spaces]
  /\ Carries \in [Feeds -> SUBSET Items]
  /\ Nameless \subseteq Items
  /\ Feeds \cap Checkers = {}
  /\ Disruptions \subseteq Kinds
  /\ MaxPolls \in Nat \ {0}
  /\ MaxDisruptions \in Nat
  /\ MaxEpoch \in Nat

VARIABLES
  source,   \* feed -> what fetch_new_items would return now
  rows,     \* ids in table monitors
  enabled,  \* those with enabled = true
  spare,    \* ids the table's sequence has still to hand out
  pub,      \* space -> entries with a row in published_entries_v2
  old,      \* space -> those published more than DEFAULT_DATA_RETENTION_DAYS ago
  up,       \* the process is running
  epoch,    \* how often the monitor list was rebuilt
  loaded,   \* MonitorManager.monitors: objects <<id, epoch of creation>>
  awake,    \* the loaded objects with enabled = True
  firstRun, \* the objects whose is_first_run is True
  due,      \* feeds whose interval has elapsed since group_last_checked
  pc,       \* where each pipeline run or manual check stands
  left,     \* the objects a run has still to distribute to
  at,       \* the object it is serving (a set of at most one)
  got,      \* new_items; for a manual check, the items not looked up yet
  mine,     \* the items it read as unpublished
  todo,     \* those of mine it has not dispatched yet
  sync,     \* the state of each sync_with_db
  seenIds,  \* per sync: the ids in its snapshot
  seenNew,  \* per sync: the ids snapshotted with is_first_run
  seenRows, \* per sync: the (ids, enabled ids) it read from the database
  spent,    \* disruptions so far
  (* history variables: the code keeps no such record *)
  tally,    \* <<space, item>> -> "none", "failed", "sent" or "again"
  excused,  \* pairs whose record was lost or raced, see below
  seeded,   \* ids that completed a silent seed in this process
  reached,  \* <<id, item>>: the item went to the monitor's own channels
  synced,   \* the loaded list was built from the present rows
  late      \* <<id, item>>: the item was new when it appeared, after the seed

world  == <<source, rows, enabled, spare>>
table  == <<pub, old>>
memory == <<up, epoch, loaded, awake, firstRun>>
procs  == <<pc, left, at, got, mine, todo>>
syncs  == <<sync, seenIds, seenNew, seenRows>>
ghosts == <<tally, excused, seeded, late, reached, synced>>
vars   == <<world, table, memory, due, procs, syncs, spent, ghosts>>

Procs   == Feeds \cup Checkers
Epochs  == 0..MaxEpoch
Objects == Monitors \X Epochs
Pairs   == Spaces \X Items

Space(o) == SpaceOf[o[1]]
Feed(o)  == FeedOf[o[1]]

\* Process p has looked items up and has not recorded them yet.
Holds(p) == pc[p] \in {"ask", "send", "mark"}

\* p dispatched i in space s and has not recorded it yet.
Exposed(p, s, i) ==
  Holds(p) /\ i \in mine[p] \ todo[p] /\ \E o \in at[p] : Space(o) = s

\* p read i as unpublished in space s and has not recorded it yet.
Claims(p, s, i) == Holds(p) /\ i \in mine[p] /\ \E o \in at[p] : Space(o) = s

Disrupt(kind) ==
  /\ kind \in Disruptions
  /\ spent < MaxDisruptions
  /\ spent' = spent + 1

\* The coroutine of p ends and drops its locals.
Finish(p) ==
  /\ pc'   = [pc EXCEPT ![p] = "idle"]
  /\ left' = [left EXCEPT ![p] = {}]
  /\ at'   = [at EXCEPT ![p] = {}]
  /\ got'  = [got EXCEPT ![p] = {}]
  /\ mine' = [mine EXCEPT ![p] = {}]
  /\ todo' = [todo EXCEPT ![p] = {}]

\* Mutant: the lists of the previous monitor survive into the next turn.
NextMonitorKeepsLists(p) ==
  IF left[p] = {} THEN Finish(p)
  ELSE pc' = [pc EXCEPT ![p] = "dedup"] /\ UNCHANGED <<left, at, got, mine, todo>>

\* A run of a feed goes on with the next monitor of the group, if any is left.
NextMonitor(p) ==
  IF left[p] = {} THEN Finish(p)
  ELSE /\ pc'   = [pc EXCEPT ![p] = "dedup"]
       /\ at'   = [at EXCEPT ![p] = {}]
       /\ mine' = [mine EXCEPT ![p] = {}]
       /\ todo' = [todo EXCEPT ![p] = {}]
       /\ UNCHANGED <<left, got>>

-----------------------------------------------------------------------------
(* The outside world: feeds change, administrators edit the monitor rows.  *)

Appear(f, i) ==
  /\ i \in Carries[f] \ source[f]
  /\ source' = [source EXCEPT ![f] = @ \cup {i}]
  /\ late' = late \cup
       ({m \in seeded : FeedOf[m] = f /\ i \notin pub[SpaceOf[m]] \cup got[f]} \X {i})
  /\ UNCHANGED <<rows, enabled, spare, table, memory, due, procs, syncs, spent,
                 tally, excused, seeded, reached, synced>>

Withdraw(f, i) ==
  /\ i \in source[f]
  /\ source' = [source EXCEPT ![f] = @ \ {i}]
  /\ UNCHANGED <<rows, enabled, spare, table, memory, due, procs, syncs, spent, ghosts>>

\* An administrator's request commits its edit of table monitors; what is left
\* of it is the call of sync_with_db that ends all these handlers.
Edited(y) ==
  /\ up /\ sync[y] = "idle"
  /\ Disrupt("edit")
  /\ sync' = [sync EXCEPT ![y] = "asked"]
  /\ synced' = FALSE
  /\ UNCHANGED <<source, table, memory, due, procs, seenIds, seenNew, seenRows,
                 tally, excused, seeded, late, reached>>

CreateFeed(y, m) ==
  /\ m \in spare
  /\ spare' = spare \ {m}
  /\ rows' = rows \cup {m} /\ enabled' = enabled \cup {m}
  /\ Edited(y)

\* PATCH with a new status: active or paused.
UpdateFeed(y, m) ==
  /\ m \in rows
  /\ enabled' = (enabled \cup {m}) \ (enabled \cap {m})
  /\ Edited(y)
  /\ UNCHANGED <<rows, spare>>

DeleteFeed(y, m) ==
  /\ m \in rows
  /\ rows' = rows \ {m} /\ enabled' = enabled \ {m}
  /\ Edited(y)
  /\ UNCHANGED spare

\* The refresh interval of the guilds on f elapses.
Elapse(f) ==
  /\ f \notin due
  /\ due' = due \cup {f}
  /\ UNCHANGED <<world, table, memory, procs, syncs, spent, ghosts>>

-----------------------------------------------------------------------------
(* The process: start, crash, hot reload.                                  *)

\* BotContainer.initialize builds the monitors, then the loop is started.
Boot ==
  /\ ~up
  /\ epoch < MaxEpoch
  /\ up' = TRUE
  /\ epoch' = epoch + 1
  /\ loaded' = rows \X {epoch + 1}
  /\ awake' = enabled \X {epoch + 1}
  /\ firstRun' = rows \X {epoch + 1}
  /\ due' = Feeds
  /\ synced' = TRUE
  /\ UNCHANGED <<world, table, procs, syncs, spent,
                 tally, excused, seeded, late, reached>>

\* Everything but the database is lost.
Crash ==
  /\ up
  /\ epoch < MaxEpoch
  /\ Disrupt("crash")
  /\ up' = FALSE
  /\ loaded' = {} /\ awake' = {} /\ firstRun' = {}
  /\ pc' = [p \in Procs |-> "idle"]
  /\ left' = [p \in Procs |-> {}] /\ at' = [p \in Procs |-> {}]
  /\ got' = [p \in Procs |-> {}]
  /\ mine' = [p \in Procs |-> {}] /\ todo' = [p \in Procs |-> {}]
  /\ sync' = [y \in Syncers |-> "idle"]
  /\ seenIds' = [y \in Syncers |-> {}]
  /\ seenNew' = [y \in Syncers |-> {}]
  /\ seenRows' = [y \in Syncers |-> <<{}, {}>>]
  /\ excused' = excused \cup
       {x \in Pairs : \E p \in Procs : Exposed(p, x[1], x[2])}
  /\ seeded' = {} /\ late' = {} /\ synced' = FALSE
  /\ UNCHANGED <<epoch, world, table, due, tally, reached>>

\* POST /monitors/sync.
SyncRequest(y) ==
  /\ up /\ sync[y] = "idle"
  /\ epoch < MaxEpoch
  /\ sync' = [sync EXCEPT ![y] = "asked"]
  /\ UNCHANGED <<seenIds, seenNew, seenRows, world, table, memory, due, procs,
                 spent, ghosts>>

\* sync_with_db, up to its second await: snapshot the runtime state.
SyncSnapshot(y) ==
  /\ sync[y] = "asked"
  /\ sync' = [sync EXCEPT ![y] = "read"]
  /\ seenIds' = [seenIds EXCEPT ![y] = {o[1] : o \in loaded}]
  /\ seenNew' = [seenNew EXCEPT ![y] = {o[1] : o \in loaded \cap firstRun}]
  /\ UNCHANGED <<seenRows, world, table, memory, due, procs, spent, ghosts>>

\* PostgreSQL answers get_all_monitors.
SyncRead(y) ==
  /\ sync[y] = "read"
  /\ sync' = [sync EXCEPT ![y] = "swap"]
  /\ seenRows' = [seenRows EXCEPT ![y] = <<rows, enabled>>]
  /\ UNCHANGED <<seenIds, seenNew, world, table, memory, due, procs, spent, ghosts>>

\* Mutant: rows added while the snapshot was taken are left out.
RebuiltFromSnapshot(y) == (seenRows[y][1] \cap seenIds[y]) \X {epoch + 1}

\* The objects sync_with_db creates: one for every row it read.
Rebuilt(y) == seenRows[y][1] \X {epoch + 1}

\* Mutant: the scheduler goes on polling the objects of the old list.
EnabledInOldList(y) == seenRows[y][2] \X {epoch}

\* Those of them the scheduler will poll.
EnabledRebuilt(y) == seenRows[y][2] \X {epoch + 1}

\* The coroutine resumes: new objects, restored flags, swap, cleared timers.
SyncSwap(y) ==
  LET fresh == {m \in seenRows[y][1] : m \notin seenIds[y] \/ m \in seenNew[y]} IN
  /\ sync[y] = "swap"
  /\ epoch < MaxEpoch
  /\ epoch' = epoch + 1
  /\ loaded' = Rebuilt(y)
  /\ awake' = EnabledRebuilt(y)
  /\ firstRun' = firstRun \cup (fresh \X {epoch + 1})
  /\ due' = Feeds
  /\ sync' = [sync EXCEPT ![y] = "idle"]
  /\ seenIds' = [seenIds EXCEPT ![y] = {}]
  /\ seenNew' = [seenNew EXCEPT ![y] = {}]
  /\ seenRows' = [seenRows EXCEPT ![y] = <<{}, {}>>]
  \* A monitor that is new to the snapshot starts over: its first seed is due.
  /\ seeded' = seeded \cap seenIds[y]
  /\ late' = {x \in late : x[1] \in seenIds[y]}
  /\ synced' = (synced \/ seenRows[y] = <<rows, enabled>>)
  /\ UNCHANGED <<world, table, up, procs, spent, tally, excused, reached>>

\* get_all_monitors raises: the old list stays.
SyncFails(y) ==
  /\ sync[y] = "read"
  /\ Disrupt("sync")
  /\ sync' = [sync EXCEPT ![y] = "idle"]
  /\ seenIds' = [seenIds EXCEPT ![y] = {}]
  /\ seenNew' = [seenNew EXCEPT ![y] = {}]
  /\ UNCHANGED <<seenRows, world, table, memory, due, procs, ghosts>>

-----------------------------------------------------------------------------
(* The scheduler's tick and the runs it starts.                            *)

Pollable(f) == {o \in awake : Feed(o) = f}

\* Mutant: the loop does not wait for the batch it started.
NoBarrier == TRUE

\* asyncio.gather returns when every run of the batch has ended.
BatchDone == \A f \in Feeds : pc[f] = "idle"

\* One turn of the while loop.  It collects the due feeds with an enabled monitor.
Tick ==
  LET batch == {f \in due : Pollable(f) # {}} IN
  /\ up
  /\ BatchDone
  /\ batch # {}
  /\ due' = due \ batch
  /\ pc' = [p \in Procs |-> IF p \in batch THEN "wait" ELSE pc[p]]
  /\ left' = [p \in Procs |-> IF p \in batch THEN Pollable(p) ELSE left[p]]
  /\ UNCHANGED <<world, table, memory, at, got, mine, todo, syncs, spent, ghosts>>

\* The run has a slot of the semaphore and its fetch answers.
Fetch(f) ==
  /\ pc[f] = "wait"
  /\ Cardinality({g \in Feeds : pc[g] \notin {"idle", "wait"}}) < MaxPolls
  /\ IF source[f] = {} THEN Finish(f)
     ELSE /\ pc' = [pc EXCEPT ![f] = "dedup"]
          /\ got' = [got EXCEPT ![f] = source[f]]
          /\ UNCHANGED <<left, at, mine, todo>>
  /\ UNCHANGED <<world, table, memory, due, syncs, spent, ghosts>>

\* The fetch raises, or the provider is down and the list comes back empty.
FetchFails(f) ==
  /\ pc[f] = "wait"
  /\ Disrupt("fetch")
  /\ Finish(f)
  /\ UNCHANGED <<world, table, memory, due, syncs, ghosts>>

\* What of the fetched items the run will dispatch for o: nothing while o is
\* seeded in silence, otherwise what has no record in o's history.
Unpublished(f, o) == IF o \in firstRun THEN {} ELSE got[f] \ pub[Space(o)]

\* get_published_ids_bulk answers for the next monitor of the group, and
\* is_first_run decides whether the unpublished items will be dispatched.
Dedup(f) ==
  /\ pc[f] = "dedup"
  /\ \E o \in left[f] :
       LET new == Unpublished(f, o) IN
       /\ left' = [left EXCEPT ![f] = @ \ {o}]
       /\ at' = [at EXCEPT ![f] = {o}]
       /\ mine' = [mine EXCEPT ![f] = new]
       /\ todo' = [todo EXCEPT ![f] = new]
       /\ pc' = [pc EXCEPT ![f] = IF new = {} THEN "mark" ELSE "send"]
       /\ excused' = excused \cup
            {x \in {Space(o)} \X new : \E p \in Procs \ {f} : Claims(p, x[1], x[2])}
  /\ UNCHANGED <<got, world, table, memory, due, syncs, spent,
                 tally, seeded, late, reached, synced>>

\* Mutant: the group is never finished when its last query raises.
DedupFailsHangs(f) ==
  /\ pc[f] = "dedup"
  /\ Disrupt("dedup")
  /\ \E o \in left[f] : left' = [left EXCEPT ![f] = @ \ {o}]
  /\ UNCHANGED <<world, table, memory, due, syncs, ghosts, pc, at, got, mine, todo>>

\* Mutant: a failed query counts as "everything is published".
DedupFailsClosed(f) ==
  /\ pc[f] = "dedup"
  /\ Disrupt("dedup")
  /\ \E o \in left[f] :
       left' = [left EXCEPT ![f] = @ \ {o}] /\ at' = [at EXCEPT ![f] = {o}]
  /\ pc' = [pc EXCEPT ![f] = "mark"]
  /\ UNCHANGED <<world, table, memory, due, syncs, ghosts, got, mine, todo>>

\* The query raises: this monitor is skipped in this run.
DedupFails(f) ==
  /\ pc[f] = "dedup"
  /\ Disrupt("dedup")
  /\ \E o \in left[f] :
       IF left[f] = {o} THEN Finish(f)
       ELSE left' = [left EXCEPT ![f] = @ \ {o}] /\ UNCHANGED <<pc, at, got, mine, todo>>
  /\ UNCHANGED <<world, table, memory, due, syncs, ghosts>>

-----------------------------------------------------------------------------
(* The manual check of one monitor, enabled or not, seeded or not.         *)

\* fetch_new_items answers; an empty list ends the check at once.
StartCheck(c) ==
  /\ up /\ pc[c] = "idle"
  /\ \E o \in loaded :
       /\ source[Feed(o)] # {}
       /\ at' = [at EXCEPT ![c] = {o}]
       /\ got' = [got EXCEPT ![c] = source[Feed(o)]]
  /\ pc' = [pc EXCEPT ![c] = "ask"]
  /\ UNCHANGED <<left, mine, todo, world, table, memory, due, syncs, spent, ghosts>>

\* Mutant: the check forgets to ask for the item's record.
NewUnasked(o, i) == {i} \ Nameless

\* i, when it has an id and is_published found no record of it for o.
NewTo(o, i) == {i} \ (pub[Space(o)] \cup Nameless)

\* is_published answers for one item; an item without an id is left out.
Ask(c, i) ==
  /\ pc[c] = "ask" /\ i \in got[c]
  /\ \E o \in at[c] :
       LET new == NewTo(o, i) IN
       IF got[c] = {i} /\ mine[c] \cup new = {}
       THEN Finish(c) /\ UNCHANGED excused
       ELSE /\ got' = [got EXCEPT ![c] = @ \ {i}]
            /\ mine' = [mine EXCEPT ![c] = @ \cup new]
            /\ todo' = [todo EXCEPT ![c] = @ \cup new]
            /\ pc' = [pc EXCEPT ![c] = IF got[c] = {i} THEN "send" ELSE "ask"]
            /\ excused' = excused \cup
                 {x \in {Space(o)} \X new : \E p \in Procs \ {c} : Claims(p, x[1], x[2])}
            /\ UNCHANGED <<left, at>>
  /\ UNCHANGED <<world, table, memory, due, syncs, spent,
                 tally, seeded, late, reached, synced>>

\* process_item or a query raises: the check gives up, nothing is marked.
CheckAborts(c) ==
  /\ Holds(c)
  /\ Disrupt("abort")
  /\ Finish(c)
  /\ excused' = excused \cup {x \in Pairs : Exposed(c, x[1], x[2])}
  /\ UNCHANGED <<world, table, memory, due, syncs,
                 tally, seeded, late, reached, synced>>

-----------------------------------------------------------------------------
(* Dispatch and commit, common to runs and checks.                         *)

Dispatched(p, i) ==
  /\ todo' = [todo EXCEPT ![p] = @ \ {i}]
  /\ pc' = [pc EXCEPT ![p] = IF todo[p] = {i} THEN "mark" ELSE "send"]
  /\ UNCHANGED <<left, at, got, mine, world, table, memory, due, syncs,
                 excused, seeded, late, synced>>

\* process_item returns and the notification is in its channel.
Send(p, i) ==
  /\ pc[p] = "send" /\ i \in todo[p]
  /\ \E o \in at[p] :
       /\ tally' = [tally EXCEPT ![<<Space(o), i>>] =
                   IF @ \in {"sent", "again"} THEN "again" ELSE "sent"]
       /\ reached' = reached \cup {<<o[1], i>>}
  /\ Dispatched(p, i)
  /\ UNCHANGED spent

\* deliver returns False, whose value nobody reads, process_item skips an entry
\* it finds too old, or it raises in a run, which logs it: each time the loop
\* goes on to the next item.
SendFails(p, i) ==
  /\ pc[p] = "send" /\ i \in todo[p]
  /\ Disrupt("deliver")
  /\ \E o \in at[p] :
       tally' = [tally EXCEPT ![<<Space(o), i>>] = IF @ = "none" THEN "failed" ELSE @]
  /\ Dispatched(p, i)
  /\ UNCHANGED reached

\* Mutant: a run marks the items it found published instead of the new ones.
RecordedOnlyOld(p) == (IF p \in Feeds THEN got[p] \ mine[p] ELSE mine[p]) \ Nameless

\* What p records: a run marks everything it fetched, a check what was new.
\* No row can be written for an item without an id.
Recorded(p) == (IF p \in Feeds THEN got[p] ELSE mine[p]) \ Nameless

\* Mutant: is_first_run is never cleared.
FlagKept(p, o) == firstRun

\* The first seed of o ends with the run that marked its items.
FlagCleared(p, o) == IF p \in Feeds THEN firstRun \ {o} ELSE firstRun

\* mark_items_published commits; a run then clears the monitor's first-run flag.
Mark(p) ==
  /\ pc[p] = "mark"
  /\ \E o \in at[p] :
       /\ pub' = [pub EXCEPT ![Space(o)] = @ \cup Recorded(p)]
       /\ firstRun' = FlagCleared(p, o)
       /\ seeded' = IF p \in Feeds THEN seeded \cup {o[1]} ELSE seeded
  /\ IF p \in Feeds THEN NextMonitor(p) ELSE Finish(p)
  /\ UNCHANGED <<old, world, up, epoch, loaded, awake, due, syncs, spent,
                 tally, excused, late, reached, synced>>

\* The bulk INSERT raises after the items went out.
MarkFails(p) ==
  /\ pc[p] = "mark"
  /\ Disrupt("mark")
  /\ excused' = excused \cup {x \in Pairs : Exposed(p, x[1], x[2])}
  /\ IF p \in Feeds THEN NextMonitor(p) ELSE Finish(p)
  /\ UNCHANGED <<world, table, memory, due, syncs,
                 tally, seeded, late, reached, synced>>

-----------------------------------------------------------------------------
(* Maintenance of the publication history.                                 *)

\* Rows leave the table: what they recorded can be announced once more.
Forget(gone) ==
  /\ pub' = [s \in Spaces |-> pub[s] \ gone[s]]
  /\ old' = [s \in Spaces |-> old[s] \ gone[s]]
  /\ excused' = excused \cup {x \in Pairs : x[2] \in pub[x[1]] \cap gone[x[1]]}

\* reset_history of one monitor: all of its platform and guild.
Reset(s) ==
  /\ Disrupt("reset")
  /\ \E o \in loaded : Space(o) = s
  /\ Forget([t \in Spaces |-> IF t = s THEN Items ELSE {}])
  /\ UNCHANGED <<world, memory, due, procs, syncs,
                 tally, seeded, late, reached, synced>>

\* reset_all_history.
ResetAll ==
  /\ up
  /\ Disrupt("reset")
  /\ Forget([t \in Spaces |-> Items])
  /\ UNCHANGED <<world, memory, due, procs, syncs,
                 tally, seeded, late, reached, synced>>

\* factory_reset: the tables are truncated and the list is cleared in place.
FactoryReset ==
  /\ up
  /\ Disrupt("wipe")
  /\ Forget([t \in Spaces |-> Items])
  /\ rows' = {} /\ enabled' = {} /\ spare' = spare
  /\ loaded' = {} /\ awake' = {}
  /\ seeded' = {} /\ late' = {} /\ synced' = TRUE
  /\ UNCHANGED <<source, up, epoch, firstRun, due, procs, syncs, tally, reached>>

\* Sixty days pass between two ticks.
Age ==
  /\ "retention" \in Disruptions
  /\ \A p \in Procs : pc[p] = "idle"
  /\ old # pub
  /\ old' = pub
  /\ UNCHANGED <<pub, world, memory, due, procs, syncs, spent, ghosts>>

\* cleanup_old_history, in a task of its own beside the runs.
Retention ==
  /\ up
  /\ Disrupt("retention")
  /\ Forget(old)
  /\ UNCHANGED <<world, memory, due, procs, syncs,
                 tally, seeded, late, reached, synced>>

-----------------------------------------------------------------------------
Init ==
  /\ source = [f \in Feeds |-> {}]
  /\ rows \in SUBSET Monitors /\ enabled = rows /\ spare = Monitors \ rows
  /\ pub = [s \in Spaces |-> {}] /\ old = [s \in Spaces |-> {}]
  /\ up = FALSE /\ epoch = 0
  /\ loaded = {} /\ awake = {} /\ firstRun = {}
  /\ due = Feeds
  /\ pc = [p \in Procs |-> "idle"]
  /\ left = [p \in Procs |-> {}] /\ at = [p \in Procs |-> {}]
  /\ got = [p \in Procs |-> {}]
  /\ mine = [p \in Procs |-> {}] /\ todo = [p \in Procs |-> {}]
  /\ sync = [y \in Syncers |-> "idle"]
  /\ seenIds = [y \in Syncers |-> {}]
  /\ seenNew = [y \in Syncers |-> {}]
  /\ seenRows = [y \in Syncers |-> <<{}, {}>>]
  /\ spent = 0
  /\ tally = [x \in Pairs |-> "none"]
  /\ excused = {} /\ seeded = {} /\ late = {} /\ reached = {} /\ synced = FALSE

Run(f) ==
  \/ Fetch(f) \/ Dedup(f) \/ Mark(f)
  \/ \E i \in Items : Send(f, i)

Check(c) ==
  \/ Mark(c)
  \/ \E i \in Items : Ask(c, i) \/ Send(c, i)

Failure ==
  \/ Crash
  \/ \E y \in Syncers : SyncFails(y)
  \/ \E f \in Feeds : FetchFails(f) \/ DedupFails(f)
  \/ \E c \in Checkers : CheckAborts(c)
  \/ \E p \in Procs : MarkFails(p) \/ \E i \in Items : SendFails(p, i)

Maintenance ==
  \/ ResetAll \/ FactoryReset \/ Age \/ Retention
  \/ \E s \in Spaces : Reset(s)

Sync(y) ==
  \/ SyncRequest(y) \/ SyncSnapshot(y) \/ SyncRead(y) \/ SyncSwap(y)
  \/ \E m \in Monitors : CreateFeed(y, m) \/ UpdateFeed(y, m) \/ DeleteFeed(y, m)

Next ==
  \/ \E f \in Feeds : Run(f) \/ Elapse(f)
  \/ \E f \in Feeds, i \in Items : Appear(f, i) \/ Withdraw(f, i)
  \/ \E c \in Checkers : StartCheck(c) \/ Check(c)
  \/ \E y \in Syncers : Sync(y)
  \/ Boot \/ Tick
  \/ Failure \/ Maintenance

Spec == Init /\ [][Next]_vars

\* The event loop runs every ready coroutine, the clock advances, and the
\* process is restarted (docker-compose restart: always, k8s Deployment).
\* Nothing forces feeds to change or administrators to act.
Fairness ==
  /\ WF_vars(Boot) /\ WF_vars(Tick)
  /\ \A f \in Feeds : WF_vars(Run(f)) /\ WF_vars(Elapse(f))
  /\ \A c \in Checkers : WF_vars(Check(c))
  /\ \A y \in Syncers : WF_vars(SyncSnapshot(y) \/ SyncRead(y) \/ SyncSwap(y))

FairSpec == Spec /\ Fairness

-----------------------------------------------------------------------------
(* Properties.                                                             *)

ProcsTypeOK ==
  /\ pc \in [Procs -> {"idle", "wait", "dedup", "ask", "send", "mark"}]
  /\ left \in [Procs -> SUBSET Objects] /\ at \in [Procs -> SUBSET Objects]
  /\ got \in [Procs -> SUBSET Items]
  /\ mine \in [Procs -> SUBSET Items] /\ todo \in [Procs -> SUBSET Items]

SyncsTypeOK ==
  /\ sync \in [Syncers -> {"idle", "asked", "read", "swap"}]
  /\ seenIds \in [Syncers -> SUBSET Monitors]
  /\ seenNew \in [Syncers -> SUBSET Monitors]
  /\ seenRows \in [Syncers -> (SUBSET Monitors) \X (SUBSET Monitors)]
  /\ \A y \in Syncers : seenRows[y][2] \subseteq seenRows[y][1]

GhostsTypeOK ==
  /\ tally \in [Pairs -> {"none", "failed", "sent", "again"}]
  /\ excused \subseteq Pairs
  /\ seeded \subseteq Monitors /\ late \subseteq Monitors \X Items
  /\ reached \subseteq Monitors \X Items /\ synced \in BOOLEAN

\* Types of the state the code keeps and of the history variables; only
\* loaded objects are polled and only existing rows are enabled.
TypeOK ==
  /\ source \in [Feeds -> SUBSET Items]
  /\ rows \subseteq Monitors /\ enabled \subseteq rows
  /\ spare \subseteq Monitors \ rows
  /\ pub \in [Spaces -> SUBSET Items] /\ old \in [Spaces -> SUBSET Items]
  /\ up \in BOOLEAN /\ epoch \in Epochs
  /\ loaded \subseteq Objects /\ awake \subseteq loaded
  /\ firstRun \subseteq Objects
  /\ due \subseteq Feeds
  /\ spent \in 0..MaxDisruptions
  /\ ProcsTypeOK /\ SyncsTypeOK /\ GhostsTypeOK

\* An item is announced twice in a guild only where the record of the first
\* time was lost or raced: a crash, an abort or a failed INSERT between
\* dispatch and commit (pipeline.py:31-37, maintenance_service.py:43-45), a
\* deletion from the history, or a lookup while another coroutine has the item
\* in hand, be it a manual check or the run of a second feed of the guild
\* (pipeline.py:26, maintenance_service.py:38); or where the item has no id.
DuplicatesExplained ==
  \A x \in Pairs : tally[x] = "again" => x \in excused \/ x[2] \in Nameless

\* What was announced is recorded, or excused, or some process is about to
\* record it: published_entries_v2 misses nothing that went out.
Ledger ==
  \A x \in Pairs :
    tally[x] \in {"sent", "again"} =>
      \/ x[2] \in pub[x[1]] \cup Nameless
      \/ x \in excused
      \/ \E p \in Procs : Exposed(p, x[1], x[2])

\* An item still in hand is unsent, unless its lookup was raced.
InHandUnsent ==
  \A p \in Procs : Holds(p) =>
    \A o \in at[p] : \A i \in todo[p] \ Nameless :
      tally[<<Space(o), i>>] \in {"sent", "again"} => <<Space(o), i>> \in excused

\* Two coroutines hold the same unpublished item only if one raced the other.
OneHolder ==
  \A x \in Pairs : \A p, q \in Procs :
    p # q /\ Claims(p, x[1], x[2]) /\ Claims(q, x[1], x[2]) => x \in excused

\* The locals of a coroutine that has looked items up.
InHand ==
  \A p \in Procs :
    /\ todo[p] \subseteq mine[p]
    /\ Holds(p) => \E o \in Objects : at[p] = {o}
    /\ Holds(p) /\ p \in Feeds => mine[p] \subseteq got[p]
    /\ pc[p] = "ask" => todo[p] = mine[p]
    /\ ~Holds(p) => mine[p] = {} /\ todo[p] = {}

\* The inductive strengthening of DuplicatesExplained.
Accounting == Ledger /\ InHandUnsent /\ OneHolder /\ InHand /\ DuplicatesExplained

\* No guild hears of an item twice.  Holds where nothing fails, nobody resets
\* the history and nobody checks by hand: what test_pipeline_e2e.py shows for
\* one monitor and two ticks, for interleaved runs of several feeds.
NoDuplicates == \A x \in Pairs : tally[x] # "again"

\* An item that appears in the feed of a seeded monitor is dispatched to its
\* guild before it is recorded: no silent seed of the same monitor, of another
\* monitor of the guild or of a rebuilt object hides it (pipeline.py:30-41).
NewItemsAnnounced ==
  \A x \in late : x[2] \in pub[SpaceOf[x[1]]] => tally[<<SpaceOf[x[1]], x[2]>>] # "none"

\* The silent seed happens once in the life of a monitor: sync_with_db says it
\* "Preserves live runtime states (streamer live status, first-run flags)".
SeedsOnce == \A o \in loaded : o[1] \in seeded => o \notin firstRun

\* An item recorded for a seeded monitor it is new to has reached its guild.
RecordedMeansDelivered ==
  \A x \in late : x[2] \in pub[SpaceOf[x[1]]] =>
    tally[<<SpaceOf[x[1]], x[2]>>] \in {"sent", "again"}

\* Every monitor that subscribes to the feed gets the item, not only the
\* first of its guild: process_group must "distribute items to all subscribed
\* monitors in bulk" (pipeline.py:11).
AllSubscribersReached ==
  \A x \in late : x[2] \in pub[SpaceOf[x[1]]] => x \in reached

\* Once a list built from the present rows is installed, no slower
\* sync_with_db puts an older one back (monitor_manager.py:85, 128).
LoadedMatchesRows ==
  synced => {o[1] : o \in loaded} = rows /\ {o[1] : o \in awake} = enabled

\* With nothing disrupted the pipeline implements the subscriber's promise.
Promise == INSTANCE Announcements WITH
  told <- [x \in Pairs |->
             CASE tally[x] = "again" -> "twice"
               [] tally[x] \in {"sent", "failed"} -> "announced"
               [] tally[x] = "none" /\ x[2] \in pub[x[1]] -> "silent"
               [] OTHER -> "unknown"]

KeepsPromise == Promise!Spec

\* An item that stays in the feed of an enabled monitor is settled in time.
EventuallyRecorded ==
  \A m \in Monitors, i \in Items \ Nameless :
    []<>(i \in source[FeedOf[m]] /\ m \in enabled => i \in pub[SpaceOf[m]])
=============================================================================
