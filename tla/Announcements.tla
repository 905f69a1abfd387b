---------------------------- MODULE Announcements ----------------------------
(***************************************************************************)
(* What a subscriber is promised: each feed entry is, for a guild, unknown *)
(* until it is either announced, once, or passed over in silence, for good.*)
(***************************************************************************)
CONSTANT Pairs   \* <<space, item>>

VARIABLE told

Status == {"unknown", "silent", "announced"}

Init == told = [x \in Pairs |-> "unknown"]

Announce(x) ==
  /\ told[x] = "unknown"
  /\ told' = [told EXCEPT ![x] = "announced"]

\* Several entries are passed over at once (the seed of a new monitor).
Silence ==
  /\ DOMAIN told' = Pairs
  /\ \A x \in Pairs :
       \/ told'[x] = told[x]
       \/ told[x] = "unknown" /\ told'[x] = "silent"

Next == Silence \/ \E x \in Pairs : Announce(x)

Spec == Init /\ [][Next]_told
==============================================================================
