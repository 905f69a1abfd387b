------------------------------ MODULE Streams ------------------------------
(***************************************************************************)
(* The monitors of one streamer (BaseStreamMonitor of Twitch and Kick).    *)
(* Not the publication history but a flag on the monitor object, is_live,  *)
(* keeps a show from being announced twice; a hot reload replaces the      *)
(* objects and carries the flag over, a restart does not.  The monitors    *)
(* form one group, of which the pipeline polls the first only, and rows    *)
(* come in no particular order (get_all_monitors has no ORDER BY), so any  *)
(* may be the first.  One reload at a time; disabled rows are those that   *)
(* are never first.                                                        *)
(***************************************************************************)
EXTENDS Integers

CONSTANTS
  Followers,         \* monitors of the streamer
  send_initial_alert, \* those that announce a show under way when they are created
  MaxShows,          \* bound on the shows
  MaxLists           \* bound on the monitor lists, the first one included

ASSUME StreamsAssumption ==
  /\ send_initial_alert \subseteq Followers
  /\ MaxShows \in Nat /\ MaxLists \in Nat \ {0}

\* What a poll brings: a show, that there is none, or nothing (an error).
Offline == 0
NoAnswer == -1
Shows == 1..MaxShows
PollAnswers == Shows \cup {Offline, NoAnswer}

MonitorLists == 1..MaxLists
Objects == Followers \X MonitorLists
NotPolling == [pc |-> "idle", object |-> <<>>, show |-> Offline]

VARIABLES
  onAir,         \* the show on the air, or Offline
  lastShow,      \* the number of the latest one
  entry,         \* its entry in the SharedDataCache, NoAnswer without one
  subscribed,    \* rows of monitors
  list,          \* the number of the loaded list
  members,       \* its monitors
  first,         \* the one of them that is first in the group
  is_live,       \* flags of the objects
  is_silent_start,
  polling,       \* the run of the group: where it stands, for which object
  reloading,     \* sync_with_db awaits the rows, with the flags it has saved
  (* history variables *)
  announced,     \* how often a show was announced for a monitor, up to 2
  before,        \* what the object's latest complete poll found
  unheard,       \* shows that began between two polls of an object, untold
  interrupted    \* shows during which a poll failed or the process restarted

streamVars == <<onAir, lastShow, entry, subscribed, list, members, first, is_live,
                is_silent_start, polling, reloading, announced, before, unheard, interrupted>>

NotReloading == [pc |-> "idle", saved |-> {}, flags |-> {}]

StreamsTypeOK ==
  /\ lastShow \in 0..MaxShows /\ onAir \in {Offline, lastShow} /\ entry \in PollAnswers
  /\ subscribed \subseteq Followers /\ members \subseteq subscribed
  /\ list \in MonitorLists /\ first \in members
  /\ is_live \in [Objects -> BOOLEAN] /\ is_silent_start \in [Objects -> BOOLEAN]
  /\ polling \in {NotPolling} \cup [pc : {"asking"}, object : Objects, show : {Offline}]
                   \cup [pc : {"alerting", "recording"}, object : Objects, show : Shows]
  /\ reloading \in [pc : {"idle", "reading"}, saved : SUBSET Followers,
                    flags : SUBSET Followers]
  /\ announced \in [Followers \X Shows -> 0..2]
  /\ before \in [Objects -> {"unpolled", "offline", "live"}]
  /\ unheard \subseteq Followers \X Shows /\ interrupted \subseteq Shows

\* The process has started: BotContainer.initialize creates the objects, whose
\* flag is down and which are not asked to start in silence.
StreamsInit ==
  /\ onAir = Offline /\ lastShow = 0 /\ entry = NoAnswer
  /\ subscribed \in SUBSET Followers \ {{}} /\ list = 1 /\ members = subscribed
  /\ first \in members
  /\ is_live = [o \in Objects |-> FALSE] /\ is_silent_start = [o \in Objects |-> FALSE]
  /\ polling = NotPolling /\ reloading = NotReloading
  /\ announced = [a \in Followers \X Shows |-> 0]
  /\ before = [o \in Objects |-> "unpolled"] /\ unheard = {} /\ interrupted = {}

-----------------------------------------------------------------------------
(* The streamer and the clock.                                             *)

GoLive ==
  /\ onAir = Offline /\ lastShow < MaxShows
  /\ lastShow' = lastShow + 1 /\ onAir' = lastShow'
  /\ UNCHANGED <<entry, subscribed, list, members, first, is_live, is_silent_start,
                 polling, reloading, announced, before, unheard, interrupted>>

GoOffAir ==
  /\ onAir # Offline /\ onAir' = Offline
  /\ UNCHANGED <<lastShow, entry, subscribed, list, members, first, is_live,
                 is_silent_start, polling, reloading, announced, before, unheard, interrupted>>

\* The cache's entry is older than its 120 seconds, or evicted to make room.
EntryExpires ==
  /\ entry # NoAnswer /\ entry' = NoAnswer
  /\ UNCHANGED <<onAir, lastShow, subscribed, list, members, first, is_live,
                 is_silent_start, polling, reloading, announced, before, unheard, interrupted>>

-----------------------------------------------------------------------------
(* A poll: fetch_new_items of the first object, process_item included.     *)

\* History: a show that the object did not find last time and has not announced.
Missed(o, answer) ==
  IF answer \in Shows /\ before[o] = "offline" /\ announced[<<o[1], answer>>] = 0
    THEN {<<o[1], answer>>} ELSE {}

\* Mutant: the silence of the start is never lifted.
ConcludedInSilence(o, answer) ==
  /\ is_live' = [is_live EXCEPT ![o] = answer \in Shows]
  /\ polling' = NotPolling /\ UNCHANGED is_silent_start
  /\ before' = [before EXCEPT ![o] = IF answer \in Shows THEN "live" ELSE "offline"]
  /\ unheard' = unheard \cup Missed(o, answer)

\* The end of fetch_new_items.
Concluded(o, answer) ==
  /\ is_live' = [is_live EXCEPT ![o] = answer \in Shows]
  /\ is_silent_start' = [is_silent_start EXCEPT ![o] = FALSE]
  /\ polling' = NotPolling
  /\ before' = [before EXCEPT ![o] = IF answer \in Shows THEN "live" ELSE "offline"]
  /\ unheard' = unheard \cup Missed(o, answer)

\* A flank upwards outside a silent start is announced before the flag goes up.
Judged(o, answer) ==
  IF answer \in Shows /\ ~is_live[o] /\ ~is_silent_start[o]
    THEN /\ polling' = [pc |-> "alerting", object |-> o, show |-> answer]
         /\ UNCHANGED <<is_live, is_silent_start, before, unheard>>
    ELSE Concluded(o, answer)

\* Data of the last two minutes is used again, else the provider is asked.
Poll ==
  /\ polling.pc = "idle"
  /\ LET o == <<first, list>>
     IN IF entry # NoAnswer
          THEN Judged(o, entry)
          ELSE /\ polling' = [pc |-> "asking", object |-> o, show |-> Offline]
               /\ UNCHANGED <<is_live, is_silent_start, before, unheard>>
  /\ UNCHANGED <<onAir, lastShow, entry, subscribed, list, members, first, reloading,
                 announced, interrupted>>

PollAnswered ==
  /\ polling.pc = "asking" /\ entry' = onAir
  /\ Judged(polling.object, onAir)
  /\ UNCHANGED <<onAir, lastShow, subscribed, list, members, first, reloading, announced,
                 interrupted>>

\* The clients turn every failure into None, which counts as "not live" and is
\* not kept in the cache.
PollBlank ==
  /\ polling.pc = "asking"
  /\ Judged(polling.object, NoAnswer)
  /\ interrupted' = interrupted \cup ({onAir} \ {Offline})
  /\ UNCHANGED <<onAir, lastShow, entry, subscribed, list, members, first, reloading,
                 announced>>

Alert ==
  /\ polling.pc = "alerting" /\ polling' = [polling EXCEPT !.pc = "recording"]
  /\ announced' = [announced EXCEPT ![<<polling.object[1], polling.show>>] =
                                IF @ = 2 THEN 2 ELSE @ + 1]
  /\ UNCHANGED <<onAir, lastShow, entry, subscribed, list, members, first, is_live,
                 is_silent_start, reloading, before, unheard, interrupted>>

\* The layout cannot be built: the exception ends the poll in the pipeline.
AlertRaises ==
  /\ polling.pc = "alerting" /\ polling' = NotPolling
  /\ UNCHANGED <<onAir, lastShow, entry, subscribed, list, members, first, is_live,
                 is_silent_start, reloading, announced, before, unheard, interrupted>>

\* The row for the history is written, or that failed: nothing reads it.
Recorded ==
  /\ polling.pc = "recording" /\ Concluded(polling.object, polling.show)
  /\ UNCHANGED <<onAir, lastShow, entry, subscribed, list, members, first, reloading,
                 announced, interrupted>>

-----------------------------------------------------------------------------
(* Hot reload and restart.                                                 *)

\* sync_with_db, perhaps after the insertion of a row, saves the flags and asks
\* for the rows.
ReloadBegins ==
  /\ reloading.pc = "idle" /\ list < MaxLists
  /\ \E new \in {{}} \cup {{m} : m \in Followers} : subscribed' = subscribed \cup new
  /\ reloading' = [pc |-> "reading", saved |-> members,
                   flags |-> {m \in members : is_live[<<m, list>>]}]
  /\ UNCHANGED <<onAir, lastShow, entry, list, members, first, is_live, is_silent_start,
                 polling, announced, before, unheard, interrupted>>

\* Mutant: each monitor starts as it would if it were new.
StartsAsNew(m) == m \notin send_initial_alert

\* A monitor that was loaded before starts in silence.
StartsSilent(m) == m \in reloading.saved \/ m \notin send_initial_alert

ReloadEnds ==
  /\ reloading.pc = "reading" /\ reloading' = NotReloading /\ list < MaxLists
  /\ list' = list + 1 /\ members' = subscribed /\ first' \in members'
  /\ is_live' = [o \in Objects |->
                   IF o[2] = list' THEN o[1] \in reloading.flags ELSE is_live[o]]
  /\ is_silent_start' = [o \in Objects |->
                           IF o[2] = list' THEN StartsSilent(o[1]) ELSE is_silent_start[o]]
  /\ UNCHANGED <<onAir, lastShow, entry, subscribed, polling, announced, before, unheard,
                 interrupted>>

ReloadFailed ==
  /\ reloading.pc = "reading" /\ reloading' = NotReloading
  /\ UNCHANGED <<onAir, lastShow, entry, subscribed, list, members, first, is_live,
                 is_silent_start, polling, announced, before, unheard, interrupted>>

Restart ==
  /\ list < MaxLists /\ list' = list + 1 /\ members' = subscribed /\ first' \in members'
  /\ entry' = NoAnswer /\ polling' = NotPolling /\ reloading' = NotReloading
  /\ interrupted' = interrupted \cup ({onAir} \ {Offline})
  /\ UNCHANGED <<onAir, lastShow, subscribed, is_live, is_silent_start, announced, before,
                 unheard>>

StreamsNext ==
  \/ GoLive \/ GoOffAir \/ EntryExpires
  \/ Poll \/ PollAnswered \/ PollBlank \/ Alert \/ AlertRaises \/ Recorded
  \/ ReloadBegins \/ ReloadEnds \/ ReloadFailed \/ Restart

StreamsSpec == StreamsInit /\ [][StreamsNext]_streamVars

-----------------------------------------------------------------------------
(* Properties.                                                             *)

\* A show is announced at most once for a monitor, whatever the reloads do to the
\* objects while it is polled, unless a poll failed or the process restarted
\* meanwhile (stream_monitor.py:50-60, monitor_manager.py:71-112).
AlertsExplained ==
  \A m \in Followers, s \in Shows : announced[<<m, s>>] <= 1 \/ s \in interrupted

\* A show that begins between two polls of an object is announced for it.
StartsHeard == unheard = {}

StreamsTold == AlertsExplained /\ StartsHeard
=============================================================================
