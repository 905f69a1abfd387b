----------------------------- MODULE WebPicker ------------------------------
(***************************************************************************)
(* From the list of servers to the dashboard of one: the server picker     *)
(* (web/src/pages/app/ServerPickerPage.tsx with its cards), the guilds and *)
(* the active guild of guild/GuildProvider.tsx, the guild's part of        *)
(* auth/ProtectedRoute.tsx, and the header of the dashboard.               *)
(*                                                                         *)
(* Picker and provider ask the same endpoint at different times; equal     *)
(* GETs under way are one (module ApiClient).  The provider asks once in   *)
(* the life of a document, whose visitor is signed in here.  One tab.      *)
(***************************************************************************)
EXTENDS Naturals, FiniteSets

CONSTANTS
  PickerGuilds,      \* guilds of the visitor's account
  Samples,           \* MOCK_SERVERS, those of them the bot is said to be in
  MaxMemberChanges   \* bound: how often a membership or the bot's presence changes

ASSUME PickerAssumption ==
  /\ Samples \cap PickerGuilds = {} /\ "none" \notin PickerGuilds \cup Samples
  /\ MaxMemberChanges \in Nat

VARIABLES
  member,         \* server: [PickerGuilds -> {"none", "invite", "bot"}]
  memberChanges,  \* history: the number of its changes so far
  guildsGET,      \* the GET under way: [pc, list]
  provider,       \* GuildProvider: [list, loading, failed, active]
  keptGuild,      \* localStorage: the active guild's id
  picker,         \* the page: [mounted, data, error, isLoading, demo, awaits]
  cachedList,     \* queryCache's entry 'user-manageable-guilds'
  place,          \* what the router shows: [page, guild, via]
  steady,         \* history: guilds managed ever since the document was loaded
  bounce          \* history: the last dashboard refused in this document

pickerVars == <<member, memberChanges, guildsGET, provider, keptGuild, picker,
                cachedList, place, steady, bounce>>

NoList == [g \in {} |-> "none"]
Lists == [PickerGuilds -> {"none", "invite", "bot"}]
Listed(list) == {g \in DOMAIN list : list[g] # "none"}
NoGET == [pc |-> "none", list |-> NoList]
NoPicker == [mounted |-> FALSE, data |-> NoList, error |-> "none", isLoading |-> FALSE,
             demo |-> FALSE, awaits |-> FALSE]
At(page, g, via) == [page |-> page, guild |-> g, via |-> via]

SendOrJoinList ==
  guildsGET' = IF guildsGET.pc = "none" THEN [pc |-> "sent", list |-> NoList]
               ELSE guildsGET

PickerTypeOK ==
  /\ member \in Lists /\ memberChanges \in 0 .. MaxMemberChanges
  /\ guildsGET.pc \in {"none", "sent", "read"} /\ guildsGET.list \in Lists \cup {NoList}
  /\ provider.list \in Lists \cup {NoList} /\ provider.active = keptGuild
  /\ keptGuild \in PickerGuilds \cup Samples \cup {"none"}
  /\ picker.data \in Lists \cup {NoList} /\ cachedList \in Lists \cup {NoList}
  /\ picker.error \in {"none", "expired", "failed", "timeout"}
  /\ picker.mounted = (place.page = "servers")
  /\ place.page \in {"elsewhere", "servers", "guild"}
  /\ steady \subseteq Listed(member)

\* A document loads: the provider reads the active guild and asks for the guilds.
Loaded ==
  /\ provider' = [list |-> NoList, loading |-> TRUE, failed |-> FALSE, active |-> keptGuild]
  /\ guildsGET' = [pc |-> "sent", list |-> NoList]
  /\ picker' = NoPicker /\ cachedList' = NoList
  /\ steady' = Listed(member) /\ bounce' = [guild |-> "none", steady |-> FALSE]

PickerInit ==
  /\ member \in [PickerGuilds -> {"invite", "bot"}] /\ memberChanges = 0
  /\ keptGuild = "none" /\ place = At("elsewhere", "none", "link")
  /\ provider = [list |-> NoList, loading |-> TRUE, failed |-> FALSE, active |-> keptGuild]
  /\ guildsGET = [pc |-> "sent", list |-> NoList]
  /\ picker = NoPicker /\ cachedList = NoList
  /\ steady = Listed(member) /\ bounce = [guild |-> "none", steady |-> FALSE]

-----------------------------------------------------------------------------
(* The picker and its query.                                               *)

\* The page mounts: cards from the cache at once, and a GET in any case.
MountPicker ==
  /\ picker' = [NoPicker EXCEPT !.mounted = TRUE, !.data = cachedList, !.awaits = TRUE,
                                !.isLoading = (cachedList = NoList)]
  /\ SendOrJoinList /\ place' = At("servers", "none", "link")

\* It unmounts: the execution is aborted, the GET itself only if nobody else
\* waits for it.
UnmountPicker ==
  /\ picker' = NoPicker
  /\ guildsGET' = IF provider.loading THEN guildsGET ELSE NoGET

OpenPicker ==
  /\ place.page # "servers" /\ MountPicker
  /\ UNCHANGED <<member, memberChanges, provider, keptGuild, cachedList, steady, bounce>>

\* The retry buttons, beside an error or an empty list; not while samples are shown.
Retry ==
  /\ picker.mounted /\ ~picker.demo /\ ~picker.awaits
  /\ picker.error \in {"expired", "failed"} \/ Listed(picker.data) = {}
  /\ picker' = [picker EXCEPT !.awaits = TRUE, !.error = "none",
                  !.isLoading = (picker.data = NoList /\ cachedList = NoList)]
  /\ SendOrJoinList
  /\ UNCHANGED <<member, memberChanges, provider, keptGuild, cachedList,
                 place, steady, bounce>>

\* Beside an error other than an expired login: the query is disabled for good.
ShowSamples ==
  /\ picker.mounted /\ picker.error = "failed" /\ ~picker.demo
  /\ picker' = [picker EXCEPT !.demo = TRUE, !.awaits = FALSE, !.isLoading = FALSE]
  /\ UNCHANGED <<member, memberChanges, guildsGET, provider, keptGuild,
                 cachedList, place, steady, bounce>>

\* The cards: the guilds of the last answer, or samples if there are none and
\* they were asked for.  A card offers to manage a guild, or to invite the bot.
Cards ==
  IF Listed(picker.data) # {} THEN picker.data
  ELSE IF picker.demo THEN [g \in Samples |-> "bot"] ELSE NoList
CanManage(g) ==
  picker.mounted /\ ~picker.isLoading /\ g \in DOMAIN Cards /\ Cards[g] = "bot"

\* Mutant: the choice is not kept.
selectInMemory(g) == provider' = [provider EXCEPT !.active = g] /\ UNCHANGED keptGuild

selectGuild(g) == provider' = [provider EXCEPT !.active = g] /\ keptGuild' = g

Manage(g) ==
  /\ CanManage(g) /\ selectGuild(g) /\ UnmountPicker
  /\ place' = At("guild", g, "card")
  /\ UNCHANGED <<member, memberChanges, cachedList, steady, bounce>>

-----------------------------------------------------------------------------
(* The provider and the gate.                                              *)

checkGuildPermission(g) == g \in Listed(provider.list)

\* Mutant: the gate does not wait for the provider's list.
GateAtOnce ==
  IF checkGuildPermission(place.guild) THEN "page" ELSE "refused"

\* What ProtectedRoute makes of a guild's address.
GateOfGuild ==
  CASE provider.loading -> "spinner"
    [] ~provider.loading /\ checkGuildPermission(place.guild) -> "page"
    [] OTHER -> "refused"

\* <Navigate to="/servers" replace />
BounceToPicker ==
  /\ place.page = "guild" /\ GateOfGuild = "refused"
  /\ MountPicker
  /\ bounce' = [guild |-> place.guild, steady |-> place.guild \in steady]
  /\ UNCHANGED <<member, memberChanges, provider, keptGuild, cachedList, steady>>

\* The header names the active guild, or the first one, or the address's id.
\* It does not look at the address while the provider knows any guild.
HeaderNames ==
  IF checkGuildPermission(provider.active) THEN {provider.active}
  ELSE IF Listed(provider.list) # {} THEN Listed(provider.list) ELSE {place.guild}

\* The sidebar's list, the history of the browser, a bookmark; or another page.
FollowLink(g) ==
  /\ place.page = "guild" => place.guild # g
  /\ place' = At("guild", g, "link")
  /\ IF picker.mounted THEN UnmountPicker ELSE UNCHANGED <<picker, guildsGET>>
  /\ UNCHANGED <<member, memberChanges, provider, keptGuild, cachedList, steady, bounce>>

LeaveForElsewhere ==
  /\ place.page # "elsewhere" /\ place' = At("elsewhere", "none", "link")
  /\ IF picker.mounted THEN UnmountPicker ELSE UNCHANGED <<picker, guildsGET>>
  /\ UNCHANGED <<member, memberChanges, provider, keptGuild, cachedList, steady, bounce>>

\* The tab is loaded again at its address.
ReloadTab ==
  /\ place.page = "guild" /\ Loaded
  /\ UNCHANGED <<member, memberChanges, keptGuild, place>>

-----------------------------------------------------------------------------
(* The server.                                                             *)

\* The visitor joins or leaves a guild, the bot is invited or removed.
ChangeMember(g, how) ==
  /\ memberChanges < MaxMemberChanges /\ member[g] # how
  /\ memberChanges' = memberChanges + 1 /\ member' = [member EXCEPT ![g] = how]
  /\ steady' = IF how = "none" THEN steady \ {g} ELSE steady
  /\ UNCHANGED <<guildsGET, provider, keptGuild, picker, cachedList, place, bounce>>

ReadList ==
  /\ guildsGET.pc = "sent" /\ guildsGET' = [pc |-> "read", list |-> member]
  /\ UNCHANGED <<member, memberChanges, provider, keptGuild, picker,
                 cachedList, place, steady, bounce>>

\* Both may wait for the same answer; the picker stores it under its key.
ListAnswered ==
  /\ guildsGET.pc = "read" /\ guildsGET' = NoGET
  /\ provider' = IF provider.loading
                 THEN [provider EXCEPT !.list = guildsGET.list, !.loading = FALSE]
                 ELSE provider
  /\ picker' = IF picker.awaits
               THEN [picker EXCEPT !.data = guildsGET.list, !.awaits = FALSE,
                                   !.isLoading = FALSE]
               ELSE picker
  /\ cachedList' = IF picker.awaits THEN guildsGET.list ELSE cachedList
  /\ UNCHANGED <<member, memberChanges, keptGuild, place, steady, bounce>>

\* The provider keeps the list it has, none; the hook takes a timeout for a
\* cancellation.
ListFailed(kind) ==
  /\ guildsGET.pc # "none" /\ guildsGET' = NoGET
  /\ provider' = IF provider.loading
                 THEN [provider EXCEPT !.failed = TRUE, !.loading = FALSE] ELSE provider
  /\ picker' = IF picker.awaits
               THEN [picker EXCEPT !.error = kind, !.awaits = FALSE, !.isLoading = FALSE]
               ELSE picker
  /\ UNCHANGED <<member, memberChanges, keptGuild, cachedList, place, steady, bounce>>

PickerNext ==
  \/ OpenPicker \/ Retry \/ ShowSamples \/ BounceToPicker
  \/ \E g \in PickerGuilds \cup Samples : Manage(g) \/ FollowLink(g)
  \/ LeaveForElsewhere \/ ReloadTab
  \/ \E g \in PickerGuilds, how \in {"none", "invite", "bot"} : ChangeMember(g, how)
  \/ ReadList \/ ListAnswered
  \/ \E kind \in {"expired", "failed", "timeout"} : ListFailed(kind)

PickerSpec == PickerInit /\ [][PickerNext]_pickerVars

-----------------------------------------------------------------------------
(* Properties.                                                             *)

\* A dashboard is refused for a reason: who managed the guild ever since the
\* document was loaded is sent back to the picker only if the provider's one
\* request has failed (ProtectedRoute waits for it; the picker's own, later
\* answers do not help).
BounceExplained == bounce.steady => provider.failed

\* The dashboard opened from a card bears the name of the card's guild, also
\* after the tab was loaded again (selectGuild, activeGuild).
ManagedGuildInHeader ==
  place.page = "guild" /\ place.via = "card" /\ GateOfGuild = "page" =>
    HeaderNames = {place.guild}
\* The picker leads to the guild it names, or there is a reason.
PickerLeadsThere == BounceExplained /\ ManagedGuildInHeader
=============================================================================
