-------------------------------- MODULE MCParts --------------------------------
(***************************************************************************)
(* The web console, the plans and the monitors that keep flags of their    *)
(* own, for TLC, in one run of several scenes.  These modules describe     *)
(* separate parts, so a scene chosen at the start lets one of them move    *)
(* while the others stay at rest, and bounds the part that moves where its *)
(* full instance would be too large.                                       *)
(***************************************************************************)
EXTENDS ApiClient, WebSession, WebQueries, WebSite, WebOffline, WebLocale,
        WebTelemetry, WebOverlays, WebForms, WebPicker, WebControls, WebFeeds, Plans,
        Streams, Prices

CONSTANTS m1, m2, g1, g2

(* Values of the constants.                                                *)

KeyOfRequest == [r \in Requests |-> IF r \in Mutations THEN r ELSE "guilds"]
RetriesOf == [r \in Requests |-> IF r = g1 THEN 1 ELSE 0]
OwnersOfGrants == [g \in Grants |-> IF g = 1 THEN "ann" ELSE "bob"]
UnknownAddresses ==
  {<<"nonsense">>, <<"nonsense", "docs">>, <<"nonsense", "premium">>, <<"hu", "nonsense", "x">>}
FallbackChains == [l \in Locales |-> IF l = "zh-tw" THEN <<"zh">> ELSE <<>>]
ShippedForms ==
  [l \in Shipped |-> CASE l = "en" -> {"base"} [] l = "zh" -> {"other"}
                       [] OTHER -> {"zero"}]
PluralRules ==
  [l \in Locales |-> [c \in Counts |-> IF l = "en" /\ c = 1 THEN "one" ELSE "other"]]

LanguageOptions == <<"en", "de", "hu">>
Found ==
  ("" :> {"en", "de", "hu"}) @@ ("e" :> {"en", "de"}) @@ ("u" :> {"hu"}) @@ ("q" :> {})

-----------------------------------------------------------------------------
(* Scenes.                                                                 *)

VARIABLE scene

\* Calls of the API client that run together, and the bound on the others.
Casts == ("two mutations" :> {m1, m2}) @@ ("two reads" :> {g1, g2})
         @@ ("a mutation and a read" :> {m1, g1})

ApiScene(s) ==
  /\ ApiNext /\ \A r \in Requests \ Casts[s] : phase'[r] = "idle"

\* The page loads with or without a stored login; a login from the start.
SessionScene(s) ==
  /\ SessionNext
  /\ CASE s = "reload" -> \A v \in Visits : visit'[v] = "idle"
       [] s = "callback" -> expiries' = 0

\* One view that turns to another guild and back, one with a form of one guild,
\* or two views of one guild.
QueryScene(s) ==
  /\ QueryNext /\ served'["g2"] = 0
  /\ CASE s = "one view" -> view'["v2"] = Unmounted /\ creating' = NoPost
       [] s = "form" -> view'["v2"] = Unmounted /\ request'["g2"].pc = "none"
       [] s = "two views" -> \A v \in Views : view'[v].key # "g2" /\ creating' = NoPost

\* One tab without updates of the worker that take time; the worker under
\* pages that only load.
OfflineScene(s) ==
  /\ OfflineNext
  /\ CASE s = "tab" -> worker'.installing = 0
       [] s = "worker" ->
            /\ page'.prefetched = {} /\ ~page'.wasOffline /\ Cardinality(puts') <= 1
            /\ \A p \in LazyPages :
                 /\ page'.lazy[p] \in {"unloaded", "pending"}
                 /\ page'.attemptsLeft[p] \in {0, ImportRetries}
            /\ page.stage = "running" /\ page'.stage = "running" => page'.path = page.path

\* Reports and measurements, together within a bound.
TelemetryScene == TelemetryNext /\ seen'.raised + Len(seen'.measured) <= 3

\* Toasts of the feeds page, or surfaces with at most one toast.
OverlayScene(s) ==
  /\ OverlayNext
  /\ CASE s = "toasts" -> dom'.open = <<>>
       [] s = "surfaces" -> shown' <= 1

\* One kind of page visited again and again; on the feeds page with one request
\* at a time, on the settings page with fields that are not emptied.
FormScene(s) ==
  /\ FormNext /\ form'.route \in {s, "elsewhere"}
  /\ s = "feeds" => Cardinality(sent') <= 1
  /\ s = "settings" => form'.text \in Texts \ {""}

\* The guilds a and b, of which the visitor loses or gains one; samples are only
\* reached from their cards.
PickerScene ==
  /\ PickerNext /\ member'["a"] = "bot"
  /\ place'.guild \in Samples => place'.via = "card"

\* A drop-down of three languages, or pagers of several lengths.
ControlsScene(s) ==
  CASE s = "drop-down" -> SelectNext [] s = "pager" -> PagerNext

\* A table of feeds of two platforms, or the tabs of the start page.
FeedsScene(s) ==
  CASE s = "table" -> /\ FeedListNext
                      /\ \A row \in monitorRows' : row.platform \in {"twitch", "rss"}
    [] s = "gallery" -> GalleryNext

ControlsStart ==
  /\ ControlsInit
  /\ scene # "drop-down" => ~select.searchable /\ select.value = ""
  /\ scene # "pager" => pager.siblings = 0 /\ pager.total = 2

\* One ordinary guild beside a master guild, near the quota of the free plan.
PlansScene ==
  /\ PlansNext
  /\ feedCount'["home"] = FeedsAtStart /\ feedCount'["club"] >= FeedsAtStart - 1
  /\ \A r \in Creates : creates'[r] # "home"

\* The monitors of one streamer, the second one created meanwhile; or the alert of
\* one price, over two hours or over a reload.
monitorVars == <<streamVars, priceVars>>

MonitorScene(s) ==
  CASE s = "streamer" -> StreamsNext /\ UNCHANGED priceVars
    [] s = "price" -> PricesNext /\ (hour' = 2 => watch' = 1) /\ UNCHANGED streamVars

MonitorsStart == StreamsInit /\ subscribed = {"a"} /\ PricesInit /\ market = Below

\* A page that has loaded without a stored login.
SessionAtRest ==
  /\ build = "production" /\ avatarless = {} /\ crossed = FALSE
  /\ storage = NoSession /\ memoryToken = Absent
  /\ user = None /\ isLoading = FALSE
  /\ hydration = [h \in Hydrations |->
                    IF h = "mount" THEN [Idle EXCEPT !.pc = "done"] ELSE Idle]
  /\ refresher = Idle
  /\ get = [e \in Endpoints |-> [pc |-> "idle", token |-> Absent, tried |-> FALSE]]
  /\ guilds = None /\ isLoadingGuilds = FALSE /\ oauthState = FALSE
  /\ visit = [v \in Visits |-> "idle"] /\ exchange = "none" /\ posts = 0 /\ failures = 0
  /\ expiries = 0 /\ refreshes = [g \in Grants |-> 0] /\ trouble = TRUE /\ alive = {}

SessionStart ==
  CASE scene = "reload" -> /\ SessionInit /\ ~oauthState
                           /\ build = "production" /\ avatarless \subseteq {"ann"}
    [] scene = "callback" ->
         SessionInit /\ avatarless \subseteq {"bob"} /\ storage \in {NoSession,
           [token |-> <<1, 0>>, refresh |-> <<1, 0>>, user |-> "ann", expired |-> FALSE]}
    [] OTHER -> SessionAtRest

Scenes ==
  DOMAIN Casts \cup Routes \cup
  {"reload", "callback", "one view", "form", "two views", "site", "tab", "worker",
   "locale", "telemetry", "toasts", "surfaces", "picker", "drop-down", "pager", "table",
   "gallery", "plans", "streamer", "price"}

PartsInit ==
  /\ scene \in Scenes
  /\ ApiInit /\ SessionStart /\ QueryInit /\ SiteInit /\ OfflineInit /\ LocaleInit
  /\ OverlayInit /\ FormInit /\ ControlsStart /\ FeedsInit /\ PlansInit
  /\ MonitorsStart
  /\ PickerInit /\ member["a"] = "bot" /\ (scene # "picker" => member["b"] = "bot")
  /\ TelemetryInit /\ (scene # "telemetry" => adapter = "console")

PartsNext ==
  /\ UNCHANGED scene
  /\ \/ /\ scene \in DOMAIN Casts /\ ApiScene(scene)
        /\ UNCHANGED <<sessionVars, queryVars, siteVars, offlineVars, localeVars,
                       telemetryVars, overlayVars, formVars, pickerVars,
                       controlVars, feedVars, planVars, monitorVars>>
     \/ /\ scene \in {"reload", "callback"} /\ SessionScene(scene)
        /\ UNCHANGED <<apiVars, queryVars, siteVars, offlineVars, localeVars,
                       telemetryVars, overlayVars, formVars, pickerVars,
                       controlVars, feedVars, planVars, monitorVars>>
     \/ /\ scene \in {"one view", "form", "two views"} /\ QueryScene(scene)
        /\ UNCHANGED <<apiVars, sessionVars, siteVars, offlineVars, localeVars,
                       telemetryVars, overlayVars, formVars, pickerVars,
                       controlVars, feedVars, planVars, monitorVars>>
     \/ /\ scene = "site" /\ SiteNext
        /\ UNCHANGED <<apiVars, sessionVars, queryVars, offlineVars, localeVars,
                       telemetryVars, overlayVars, formVars, pickerVars,
                       controlVars, feedVars, planVars, monitorVars>>
     \/ /\ scene \in {"tab", "worker"} /\ OfflineScene(scene)
        /\ UNCHANGED <<apiVars, sessionVars, queryVars, siteVars, localeVars,
                       telemetryVars, overlayVars, formVars, pickerVars,
                       controlVars, feedVars, planVars, monitorVars>>
     \/ /\ scene = "locale" /\ LocaleNext
        /\ UNCHANGED <<apiVars, sessionVars, queryVars, siteVars, offlineVars,
                       telemetryVars, overlayVars, formVars, pickerVars,
                       controlVars, feedVars, planVars, monitorVars>>
     \/ /\ scene = "telemetry" /\ TelemetryScene
        /\ UNCHANGED <<apiVars, sessionVars, queryVars, siteVars, offlineVars,
                       localeVars, overlayVars, formVars, pickerVars, controlVars,
                       feedVars, planVars, monitorVars>>
     \/ /\ scene \in {"toasts", "surfaces"} /\ OverlayScene(scene)
        /\ UNCHANGED <<apiVars, sessionVars, queryVars, siteVars, offlineVars,
                       localeVars, telemetryVars, formVars, pickerVars, controlVars,
                       feedVars, planVars, monitorVars>>
     \/ /\ scene \in Routes /\ FormScene(scene)
        /\ UNCHANGED <<apiVars, sessionVars, queryVars, siteVars, offlineVars,
                       localeVars, telemetryVars, overlayVars, pickerVars,
                       controlVars, feedVars, planVars, monitorVars>>
     \/ /\ scene = "picker" /\ PickerScene
        /\ UNCHANGED <<apiVars, sessionVars, queryVars, siteVars, offlineVars,
                       localeVars, telemetryVars, overlayVars, formVars,
                       controlVars, feedVars, planVars, monitorVars>>
     \/ /\ scene \in {"drop-down", "pager"} /\ ControlsScene(scene)
        /\ UNCHANGED <<apiVars, sessionVars, queryVars, siteVars, offlineVars,
                       localeVars, telemetryVars, overlayVars, formVars, pickerVars,
                       feedVars, planVars, monitorVars>>
     \/ /\ scene \in {"table", "gallery"} /\ FeedsScene(scene)
        /\ UNCHANGED <<apiVars, sessionVars, queryVars, siteVars, offlineVars,
                       localeVars, telemetryVars, overlayVars, formVars, pickerVars,
                       controlVars, planVars, monitorVars>>
     \/ /\ scene = "plans" /\ PlansScene
        /\ UNCHANGED <<apiVars, sessionVars, queryVars, siteVars, offlineVars,
                       localeVars, telemetryVars, overlayVars, formVars, pickerVars,
                       controlVars, feedVars, monitorVars>>
     \/ /\ scene \in {"streamer", "price"} /\ MonitorScene(scene)
        /\ UNCHANGED <<apiVars, sessionVars, queryVars, siteVars, offlineVars,
                       localeVars, telemetryVars, overlayVars, formVars, pickerVars,
                       controlVars, feedVars, planVars>>

partsVars == <<scene, apiVars, sessionVars, queryVars, siteVars, offlineVars, localeVars,
             telemetryVars, overlayVars, formVars, pickerVars, controlVars, feedVars,
             planVars, monitorVars>>

\* Each module's own fairness: what it requires is disabled in a part at rest.
PartsFairness ==
  /\ ApiFairness /\ SessionFairness /\ QueryFairness /\ OfflineFairness
  /\ LocaleFairness /\ TelemetryFairness /\ OverlayFairness /\ FormFairness

PartsSpec == PartsInit /\ [][PartsNext]_partsVars /\ PartsFairness

-----------------------------------------------------------------------------
(* Properties.                                                             *)

\* Every part keeps its state within its type, in every scene.
PartsTypeOK ==
  /\ ApiTypeOK /\ SessionTypeOK /\ QueryTypeOK /\ SiteTypeOK /\ OfflineTypeOK
  /\ LocaleTypeOK /\ TelemetryTypeOK /\ OverlayTypeOK /\ FormTypeOK
  /\ PickerTypeOK /\ ControlsTypeOK /\ FeedsTypeOK /\ PlansTypeOK
  /\ StreamsTypeOK /\ PricesTypeOK

\* Nothing in the console waits for ever: calls, logins, queries, pages, languages,
\* reports, toasts, previews and buttons come to an end.
NothingWaitsForEver ==
  /\ Settles /\ LoadingEnds /\ QueryLoadEnds /\ LazyEnds /\ LocaleLoadEnds
  /\ AllReported /\ ToastsGo /\ PreviewCatchesUp /\ ButtonFreed
=============================================================================
