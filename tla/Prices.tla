------------------------------- MODULE Prices -------------------------------
(***************************************************************************)
(* One price alert: CryptoMonitor with a threshold for one coin, the price *)
(* service it reads and the pipeline that announces what it detects.  A    *)
(* crossing is seen once, by comparison with the price the object read     *)
(* last; its id in the history is the direction and the hour, so a second  *)
(* crossing in the same direction is not announced again within the hour.  *)
(* A manual check reads prices through the same object as the pipeline's   *)
(* run.  Prices are below, at or above the threshold.                      *)
(***************************************************************************)
EXTENDS Integers

CONSTANTS
  Watchers,     \* coroutines that read prices: the run, and manual checks
  Run,          \* the pipeline's run among them
  MaxMoves,     \* bound on the moves of the market
  MaxHours,     \* bound on the hours
  MaxWatches    \* bound on the monitor objects: the first, and after reloads

ASSUME PricesAssumption ==
  /\ Run \in Watchers
  /\ MaxMoves \in Nat /\ MaxHours \in Nat \ {0} /\ MaxWatches \in Nat \ {0}

NoPrice == 0
Below == 1
Level == 2
Above == 3
Quotes == {Below, Level, Above}
Crossings == {"up", "down"} \X (1..MaxHours)
Watches == 1..MaxWatches
NothingSeen == [pc |-> "idle"]

VARIABLES
  market,       \* the price at CoinGecko
  price,        \* the one CryptoService holds
  hour,
  watch,        \* the loaded monitor object
  last_price,   \* the price each object read last
  is_seeding,   \* its flag is_first_run
  watcher,      \* where each coroutine stands, with its object and its crossing
  history,      \* crossings in published_entries_v2
  restoring,    \* sync_with_db awaits the rows, with the flag it has saved
  moves,
  (* history variables *)
  alerts,       \* how often a crossing was announced, up to 2
  detected,     \* crossings detected
  silenced,     \* those with a silent seed, a failure or a restart in between
  unrecorded    \* those whose record was lost or whose lookup raced

priceVars == <<market, price, hour, watch, last_price, is_seeding, watcher, history,
               restoring, moves, alerts, detected, silenced, unrecorded>>

PricesTypeOK ==
  /\ market \in Quotes /\ price \in Quotes \cup {NoPrice} /\ hour \in 1..MaxHours
  /\ watch \in Watches /\ last_price \in [Watches -> Quotes \cup {NoPrice}]
  /\ is_seeding \in [Watches -> BOOLEAN]
  /\ watcher \in [Watchers -> {NothingSeen} \cup
        [pc : {"asking", "sending", "recording"}, object : Watches, seen : Crossings]]
  /\ history \subseteq Crossings /\ restoring \in {"idle", "seeding", "seeded"}
  /\ moves \in 0..MaxMoves /\ alerts \in [Crossings -> 0..2]
  /\ detected \cup silenced \cup unrecorded \subseteq Crossings

PricesInit ==
  /\ market \in Quotes /\ price = NoPrice /\ hour = 1 /\ watch = 1
  /\ last_price = [o \in Watches |-> NoPrice] /\ is_seeding = [o \in Watches |-> TRUE]
  /\ watcher = [w \in Watchers |-> NothingSeen] /\ history = {} /\ restoring = "idle"
  /\ moves = 0 /\ alerts = [c \in Crossings |-> 0]
  /\ detected = {} /\ silenced = {} /\ unrecorded = {}

-----------------------------------------------------------------------------
(* The market, the clock and the price service.                            *)

MarketMoves ==
  /\ moves < MaxMoves /\ moves' = moves + 1 /\ market' \in Quotes \ {market}
  /\ UNCHANGED <<price, hour, watch, last_price, is_seeding, watcher, history, restoring,
                 alerts, detected, silenced, unrecorded>>

HourPasses ==
  /\ hour < MaxHours /\ hour' = hour + 1
  /\ UNCHANGED <<market, price, watch, last_price, is_seeding, watcher, history, restoring,
                 moves, alerts, detected, silenced, unrecorded>>

\* A turn of CryptoService's loop; one that fails keeps the price it has.
FetchPrices ==
  /\ price' = market /\ price # market
  /\ UNCHANGED <<market, hour, watch, last_price, is_seeding, watcher, history, restoring,
                 moves, alerts, detected, silenced, unrecorded>>

-----------------------------------------------------------------------------
(* The monitor, the pipeline and the manual check.                         *)

Crossed(was, now) ==
  CASE was = NoPrice -> {}
    [] was <= Level /\ Level < now -> {"up"}
    [] was >= Level /\ Level > now -> {"down"}
    [] OTHER -> {}

\* fetch_new_items: the crossing is detected and the price kept in one go.
ReadPrice(w) ==
  /\ watcher[w].pc = "idle" /\ price # NoPrice
  /\ last_price' = [last_price EXCEPT ![watch] = price]
  /\ LET directions == Crossed(last_price[watch], price)
     IN /\ watcher' = [watcher EXCEPT ![w] =
                         IF directions = {} THEN NothingSeen
                         ELSE [pc |-> "asking", object |-> watch,
                               seen |-> <<CHOOSE d \in directions : TRUE, hour>>]]
        /\ detected' = detected \cup (directions \X {hour})
  /\ UNCHANGED <<market, price, hour, watch, is_seeding, history, restoring, moves, alerts,
                 silenced, unrecorded>>

Stands(w, pc, c) == watcher[w].pc = pc /\ watcher[w].seen = c

\* Mutant: the run announces without regard to the history.
LookedAside(w, c, new) ==
  CASE w = Run /\ is_seeding[watcher[w].object] -> "recording"
    [] w # Run /\ ~new -> "idle"
    [] OTHER -> "sending"

\* The lookup in the history.  The run records in any case and announces what is
\* new, unless this is the object's first run with anything to tell; a check
\* announces and records what is new.
Looked(w, c, new) ==
  CASE w = Run /\ (~new \/ is_seeding[watcher[w].object]) -> "recording"
    [] ~new -> "idle"
    [] OTHER -> "sending"

LookUp(w) ==
  \E c \in Crossings :
    /\ Stands(w, "asking", c)
    /\ LET new == c \notin history
           next == Looked(w, c, new)
       IN /\ watcher' = [watcher EXCEPT ![w] =
                           IF next = "idle" THEN NothingSeen ELSE [@ EXCEPT !.pc = next]]
          /\ silenced' = IF new /\ next = "recording" THEN silenced \cup {c} ELSE silenced
          /\ unrecorded' = IF \E o \in Watchers \ {w} : Stands(o, "sending", c) \/ Stands(o, "recording", c)
                             THEN unrecorded \cup {c} ELSE unrecorded
    /\ UNCHANGED <<market, price, hour, watch, last_price, is_seeding, history, restoring,
                   moves, alerts, detected>>

\* The crossing is gone: the price it was detected by has been kept.
LookUpFails(w) ==
  \E c \in Crossings :
    /\ Stands(w, "asking", c)
    /\ watcher' = [watcher EXCEPT ![w] = NothingSeen] /\ silenced' = silenced \cup {c}
    /\ UNCHANGED <<market, price, hour, watch, last_price, is_seeding, history, restoring,
                   moves, alerts, detected, unrecorded>>

SendPrice(w) ==
  \E c \in Crossings :
    /\ Stands(w, "sending", c) /\ watcher' = [watcher EXCEPT ![w].pc = "recording"]
    /\ alerts' = [alerts EXCEPT ![c] = IF @ = 2 THEN 2 ELSE @ + 1]
    /\ UNCHANGED <<market, price, hour, watch, last_price, is_seeding, history, restoring,
                   moves, detected, silenced, unrecorded>>

\* The run goes on to the record all the same, a check ends.
SendPriceFails(w) ==
  \E c \in Crossings :
    /\ Stands(w, "sending", c) /\ silenced' = silenced \cup {c}
    /\ watcher' = [watcher EXCEPT ![w] = IF w = Run THEN [@ EXCEPT !.pc = "recording"] ELSE NothingSeen]
    /\ UNCHANGED <<market, price, hour, watch, last_price, is_seeding, history, restoring,
                   moves, alerts, detected, unrecorded>>

\* Mutant: the record is made under the hour of the record.
RecordLater(w) ==
  \E c \in Crossings :
    /\ Stands(w, "recording", c) /\ history' = history \cup {<<c[1], hour>>}
    /\ is_seeding' = IF w = Run THEN [is_seeding EXCEPT ![watcher[w].object] = FALSE] ELSE is_seeding
    /\ watcher' = [watcher EXCEPT ![w] = NothingSeen]
    /\ UNCHANGED <<market, price, hour, watch, last_price, restoring, moves, alerts, detected,
                   silenced, unrecorded>>

Record(w) ==
  \E c \in Crossings :
    /\ Stands(w, "recording", c) /\ history' = history \cup {c}
    /\ is_seeding' = IF w = Run THEN [is_seeding EXCEPT ![watcher[w].object] = FALSE] ELSE is_seeding
    /\ watcher' = [watcher EXCEPT ![w] = NothingSeen]
    /\ UNCHANGED <<market, price, hour, watch, last_price, restoring, moves, alerts, detected,
                   silenced, unrecorded>>

RecordFails(w) ==
  \E c \in Crossings :
    /\ Stands(w, "recording", c) /\ unrecorded' = unrecorded \cup {c}
    /\ watcher' = [watcher EXCEPT ![w] = NothingSeen]
    /\ UNCHANGED <<market, price, hour, watch, last_price, is_seeding, history, restoring,
                   moves, alerts, detected, silenced>>

-----------------------------------------------------------------------------
(* Hot reload and restart: a new object, which has read no price yet.      *)

SaveSeeding ==
  /\ restoring = "idle" /\ watch < MaxWatches
  /\ restoring' = IF is_seeding[watch] THEN "seeding" ELSE "seeded"
  /\ UNCHANGED <<market, price, hour, watch, last_price, is_seeding, watcher, history, moves,
                 alerts, detected, silenced, unrecorded>>

ReplaceWatch ==
  /\ restoring # "idle" /\ watch < MaxWatches /\ restoring' = "idle" /\ watch' = watch + 1
  /\ is_seeding' = [is_seeding EXCEPT ![watch'] = restoring = "seeding"]
  /\ UNCHANGED <<market, price, hour, last_price, watcher, history, moves, alerts, detected,
                 silenced, unrecorded>>

InHand == {c \in Crossings : \E w \in Watchers : watcher[w].pc # "idle" /\ watcher[w].seen = c}

RestartPrices ==
  /\ watch < MaxWatches /\ watch' = watch + 1 /\ restoring' = "idle" /\ price' = NoPrice
  /\ watcher' = [w \in Watchers |-> NothingSeen]
  /\ silenced' = silenced \cup InHand /\ unrecorded' = unrecorded \cup InHand
  /\ UNCHANGED <<market, hour, last_price, is_seeding, history, moves, alerts, detected>>

Watch(w) ==
  \/ ReadPrice(w) \/ LookUp(w) \/ LookUpFails(w)
  \/ SendPrice(w) \/ SendPriceFails(w) \/ Record(w) \/ RecordFails(w)

PricesNext ==
  \/ MarketMoves \/ HourPasses \/ FetchPrices
  \/ \E w \in Watchers : Watch(w)
  \/ SaveSeeding \/ ReplaceWatch \/ RestartPrices

PricesSpec == PricesInit /\ [][PricesNext]_priceVars

-----------------------------------------------------------------------------
(* Properties.                                                             *)

\* A threshold is announced at most once an hour in each direction, by run, check,
\* old and new object together, unless a record was lost or a lookup raced
\* (crypto_monitor.py:104-107, pipeline.py:55-70, maintenance_service.py:35-48).
OncePerHour == \A c \in Crossings : alerts[c] <= 1 \/ c \in unrecorded

\* A crossing detected is announced, about to be, or silenced by what the code
\* does on purpose or cannot help: it never disappears behind a record that no
\* announcement came with.
CrossingsHeard ==
  \A c \in detected : alerts[c] > 0 \/ c \in InHand \/ c \in silenced

PricesTold == OncePerHour /\ CrossingsHeard
=============================================================================
