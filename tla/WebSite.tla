------------------------------- MODULE WebSite -------------------------------
(***************************************************************************)
(* The pages of the console: the static files that web/scripts/prerender.js *)
(* writes for crawlers, the routes the application knows                   *)
(* (routes/config.ts, routes/AppRoutes.tsx with their guards), the links   *)
(* its layouts show, and what useSEO.ts makes of the head of the document  *)
(* while a visitor moves around in one tab.                                *)
(*                                                                         *)
(* The same site is described four times in the code: the router's table,  *)
(* the prerenderer's table, the link tables of the layouts and each page's *)
(* SEO properties.  The properties are about their agreement.  A path is   *)
(* the sequence of its segments; a text is left out, a link is a path.     *)
(***************************************************************************)
EXTENDS Sequences, FiniteSets, SequencesExt

CONSTANTS
  SiteLocales,     \* LOCALES and SUPPORTED_LOCALES, "en" among them
  SiteGuilds, Manageable,  \* guild ids; those the visitor may manage
  SampleGuilds,    \* SIDEBAR_SERVERS, the ids written into the sidebar
  Unknown          \* bound: addresses nobody links to, of no guild

\* The first segments of the routes, of what robots.txt names, and of the catch-all.
FirstSegments ==
  {"premium", "docs", "support", "changelog", "terms", "privacy", "dev", "components",
   "auth", "servers", "dashboard", "api", "404"}

ASSUME SiteAssumption ==
  /\ "en" \in SiteLocales /\ Manageable \subseteq SiteGuilds /\ SampleGuilds \subseteq SiteGuilds
  /\ SiteLocales \cap FirstSegments = {}
  /\ Unknown \subseteq Seq(UNION {Range(p) : p \in Unknown})

VARIABLES
  built,           \* how far runPrerender is: a member of BuildSteps
  dist,            \* the paths whose index.html is written
  tab,             \* [path, shown, head, entry], the document of the tab
  visitor          \* "checking", "anonymous" or "member" (AuthProvider)

siteVars == <<built, dist, tab, visitor>>

BuildSteps == {"vite", "root", "localized", "private", "published"}

-----------------------------------------------------------------------------
(* routes/config.ts and routes/AppRoutes.tsx.                               *)

MARKETING_ROUTES ==
  {<<>>, <<"premium">>, <<"docs">>, <<"docs", "commands">>, <<"docs", "feeds">>,
   <<"docs", "setup">>, <<"support">>, <<"changelog">>, <<"terms">>, <<"privacy">>}

DashboardSuffixes == {<<>>, <<"feeds">>, <<"analytics">>, <<"settings">>, <<"premium">>}

\* The entries after the marketing ones; guards as their metadata declares them.
APP_ROUTES ==
  {[path |-> <<"dev">>, auth |-> TRUE, guild |-> FALSE],
   [path |-> <<"dev", "ui">>, auth |-> FALSE, guild |-> FALSE],
   [path |-> <<"components">>, auth |-> FALSE, guild |-> FALSE],
   [path |-> <<"auth", "callback">>, auth |-> FALSE, guild |-> FALSE],
   [path |-> <<"servers">>, auth |-> TRUE, guild |-> FALSE]}
  \cup {[path |-> <<"dashboard", g>> \o s, auth |-> TRUE, guild |-> TRUE] :
          g \in SiteGuilds, s \in DashboardSuffixes}

getRouteMetaByPath(path) ==
  IF \E r \in APP_ROUTES : r.path = path
  THEN CHOOSE r \in APP_ROUTES : r.path = path
  ELSE [path |-> path, auth |-> FALSE, guild |-> FALSE]

\* The element AppRoutes picks: exact routes first, then any first segment as
\* ":locale" before a marketing path, then the catch-all.
NotFound == <<"404">>
Matched(path) ==
  IF path \in MARKETING_ROUTES \/ \E r \in APP_ROUTES : r.path = path THEN path
  ELSE IF path # <<>> /\ Tail(path) \in MARKETING_ROUTES THEN Tail(path)
  ELSE NotFound

\* Mutant: only the outer guard, for an account, is mounted.
GuardOfAccount(path) ==
  [auth |-> (path # <<>> /\ Head(path) = "dashboard") \/ getRouteMetaByPath(path).auth,
   guild |-> FALSE]

\* RouteGuardWrapper and ProtectedRoute; the five dashboard routes share one
\* guard, declared where they are mounted.
GuardOf(path) ==
  IF path # <<>> /\ Head(path) = "dashboard" /\ Matched(path) = path
  THEN [auth |-> TRUE, guild |-> TRUE]
  ELSE [auth |-> getRouteMetaByPath(path).auth, guild |-> getRouteMetaByPath(path).guild]

Shown(path, who) ==
  CASE GuardOf(path).auth /\ who = "checking" -> <<"spinner">>
    [] GuardOf(path).auth /\ who = "anonymous" -> <<"sign in">>
    [] GuardOf(path).guild /\ who = "member" /\ path[2] \notin Manageable -> <<"redirect">>
    [] OTHER -> Matched(path)

-----------------------------------------------------------------------------
(* scripts/prerender.js.                                                    *)

\* Mutant: a page is missing from the prerenderer's table.
publicRoutesButOne ==
  {<<>>, <<"premium">>, <<"docs">>, <<"docs", "commands">>, <<"docs", "feeds">>,
   <<"docs", "setup">>, <<"support">>, <<"privacy">>, <<"terms">>}

publicMarketingRoutes ==
  {<<>>, <<"premium">>, <<"docs">>, <<"docs", "commands">>, <<"docs", "feeds">>,
   <<"docs", "setup">>, <<"support">>, <<"changelog">>, <<"privacy">>, <<"terms">>}

privateNoindexRoutes ==
  {<<"servers">>, <<"auth", "callback">>, <<"dev">>, <<"dev", "ui">>, <<"components">>}

localizedPath(locale, route) == <<locale>> \o route
prefix(locale) == IF locale = "en" THEN <<>> ELSE <<locale>>

\* Mutant: the page without a language is not named.
localizedHreflangTags(route) == {localizedPath(l, route) : l \in SiteLocales}

generateAlternateHreflangTags(route) ==
  {localizedPath(l, route) : l \in SiteLocales} \cup {route}

\* The structured data of a page: types and the pages they name, the breadcrumbs
\* and the offers in the language of the page.
JsonLd(route, locale) ==
  LET crumbs == [type |-> "BreadcrumbList",
                 names |-> {prefix(locale) \o SubSeq(route, 1, n) : n \in 0 .. Len(route)}]
      site == [type |-> "WebSite", names |-> {<<>>, <<"docs">>}]
      faq == [type |-> "FAQPage", names |-> {}]
  IN CASE route = <<>> ->
            {site, faq} \cup {[type |-> t, names |-> {<<>>}] :
                              t \in {"Organization", "SoftwareApplication"}}
       [] route = <<"premium">> ->
            {faq, crumbs, [type |-> "Product", names |-> {prefix(locale) \o route}]}
       [] route # <<>> /\ Head(route) = "docs" -> {site, crumbs}
       [] OTHER -> {crumbs}

JsonLdLinks(route, locale) == UNION {d.names : d \in JsonLd(route, locale)}

\* The header and the footer of the static page.
HeaderLinks(locale) == {prefix(locale) \o p : p \in
  {<<>>, <<"premium">>, <<"docs">>, <<"support">>, <<"changelog">>}}
FooterLinks(locale) == HeaderLinks(locale) \cup
  {prefix(locale) \o p : p \in {<<"privacy">>, <<"terms">>}}

\* The main part of the static page: the start page and the plans,
StartLinks(route) ==
  IF route = <<>> THEN {<<"premium">>}
  ELSE {<<>>, <<"docs">>, <<"support">>, <<"changelog">>}
\* the documentation,
DocsLinks(route) ==
  IF route = <<"docs">>
  THEN {<<>>, <<"docs", "setup">>, <<"docs", "feeds">>, <<"docs", "commands">>,
        <<"premium">>, <<"support">>, <<"changelog">>}
  ELSE {<<>>, <<"docs">>, <<"premium">>}
\* and the rest.
OtherLinks(route) ==
  {<<>>} \cup (IF route \in {<<"support">>, <<"changelog">>}
               THEN {<<"docs">>, <<"premium">>, <<"support">>, <<"changelog">>} \ {route} ELSE {})

MainLinks(route, locale) ==
  LET main == CASE route \in {<<>>, <<"premium">>} -> StartLinks(route)
                [] route # <<>> /\ Head(route) = "docs" -> DocsLinks(route)
                [] OTHER -> OtherLinks(route)
  IN {prefix(locale) \o p : p \in main}

\* The head of a static page; the template itself says index.
renderHtmlForRoute(route) ==
  [canonical |-> route, robots |-> {"index"}, alternates |-> generateAlternateHreflangTags(route)]
\* The shell of a private page: a second robots tag, no canonical link.
renderNoindexShell ==
  [canonical |-> NotFound, robots |-> {"index", "noindex"}, alternates |-> {}]

PrerenderedRoute(path) ==
  IF path \in publicMarketingRoutes THEN path ELSE Tail(path)
PrerenderedLocale(path) ==
  IF path \in publicMarketingRoutes THEN "en" ELSE Head(path)
StaticData(path) ==
  IF path \in privateNoindexRoutes THEN {}
  ELSE JsonLd(PrerenderedRoute(path), PrerenderedLocale(path))
StaticPage(path) ==
  IF path \in privateNoindexRoutes THEN renderNoindexShell
  ELSE renderHtmlForRoute(PrerenderedRoute(path))

\* The locations of the child sitemaps, and the addresses robots.txt forbids.
sitemapUrls ==
  publicMarketingRoutes \cup {localizedPath(l, r) : l \in SiteLocales, r \in publicMarketingRoutes}
\* Mutant: the guild pages are left to their guard.
DisallowedButGuilds(path) ==
  \/ path # <<>> /\ Head(path) \in {"api", "auth", "servers", "components"}
  \/ Len(path) > 1 /\ Head(path) = "dev"

Disallowed(path) ==
  \/ path # <<>> /\ Head(path) \in {"api", "auth", "servers", "dashboard", "components"}
  \/ Len(path) > 1 /\ Head(path) = "dev"

\* runPrerender, one action per part; robots.txt and the sitemaps close it.
WriteRootPages ==
  /\ built = "vite" /\ built' = "root"
  /\ dist' = dist \cup publicMarketingRoutes /\ UNCHANGED <<tab, visitor>>
WriteLocalizedPages ==
  /\ built = "root" /\ built' = "localized"
  /\ dist' = dist \cup {localizedPath(l, r) : l \in SiteLocales, r \in publicMarketingRoutes}
  /\ UNCHANGED <<tab, visitor>>
WritePrivateShells ==
  /\ built = "localized" /\ built' = "private"
  /\ dist' = dist \cup privateNoindexRoutes /\ UNCHANGED <<tab, visitor>>
Publish ==
  /\ built = "private" /\ built' = "published" /\ UNCHANGED <<dist, tab, visitor>>

-----------------------------------------------------------------------------
(* useSEO.ts and the pages that use it.                                     *)

rawPath(path) == IF path # <<>> /\ Head(path) \in SiteLocales THEN Tail(path) ELSE path

\* DocsPage's section, which it takes from the end of the address.
subSectionPath(path) ==
  IF Last(path) \in {"commands", "feeds", "setup"} THEN <<"docs", Last(path)>> ELSE <<"docs">>

masterCanonical(path, page) ==
  IF page # <<>> /\ Head(page) = "docs" THEN subSectionPath(path) ELSE rawPath(path)

\* structuredData.ts: what a page tells crawlers about itself, a type and the
\* pages it names.  The builders know no language.
buildOrganizationSchema == [type |-> "Organization", names |-> {<<>>}]
buildWebSiteSchema == [type |-> "WebSite", names |-> {<<>>, <<"docs">>}]
buildSoftwareApplicationSchema == [type |-> "SoftwareApplication", names |-> {<<>>}]
buildFaqPageSchema == [type |-> "FAQPage", names |-> {}]
buildPremiumProductSchema == [type |-> "Product", names |-> {<<"premium">>}]
buildBreadcrumbListSchema(last) ==
  [type |-> "BreadcrumbList", names |-> {SubSeq(last, 1, n) : n \in 0 .. Len(last)}]

\* What each page is told to build: the documentation by its section, the legal
\* pages and the changelog nothing but their breadcrumbs.
HomeData == {buildOrganizationSchema, buildWebSiteSchema,
             buildSoftwareApplicationSchema, buildFaqPageSchema}
PremiumData == {buildPremiumProductSchema, buildFaqPageSchema,
                buildBreadcrumbListSchema(<<"premium">>)}
\* Mutant: the section is taken for the page.
DocsDataOfRoot(path) == {buildWebSiteSchema, buildBreadcrumbListSchema(<<"docs">>)}

DocsData(path) == {buildWebSiteSchema, buildBreadcrumbListSchema(subSectionPath(path))}
SupportData == {buildFaqPageSchema, buildBreadcrumbListSchema(<<"support">>)}
PlainData(page) == {buildBreadcrumbListSchema(page)}
StructuredData(path, page) ==
  CASE page \notin MARKETING_ROUTES -> {}
    [] page = <<>> -> HomeData
    [] page = <<"premium">> -> PremiumData
    [] page = <<"support">> -> SupportData
    [] page # <<>> /\ Head(page) = "docs" -> DocsData(path)
    [] OTHER -> PlainData(page)

noIndex(page) ==
  page = NotFound \/ page \in {<<"dev">>, <<"dev", "ui">>, <<"components">>, <<"auth", "callback">>}

UsesSEO(page) ==
  page \in MARKETING_ROUTES \cup {NotFound, <<"servers">>} \/ noIndex(page)

\* The effect: the first robots tag and the canonical link are overwritten; the
\* alternates and the structured data it marked itself are replaced, the
\* unmarked tags of the file stay.
SeoEffect(head, path, page) ==
  [head EXCEPT !.canonical = masterCanonical(path, page),
               !.robots = IF noIndex(page) THEN "noindex" ELSE "index",
               !.data = IF noIndex(page) THEN {} ELSE StructuredData(path, page),
               !.own = IF noIndex(page) THEN {} ELSE generateAlternateHreflangTags(rawPath(path))]

\* Mutant: the effect has no cleanup.
SeoKept(head) == head

\* Its cleanup takes only the marked tags away.
SeoCleanup(head) == [head EXCEPT !.own = {}, !.data = {}]

\* The document shows page at path after it showed another.
Render(path, page) ==
  LET cleaned == IF UsesSEO(tab.shown) THEN SeoCleanup(tab.head) ELSE tab.head
  IN tab' = [tab EXCEPT !.path = path, !.shown = page,
               !.head = IF UsesSEO(page) THEN SeoEffect(cleaned, path, page) ELSE cleaned]

-----------------------------------------------------------------------------
(* The links of the application: useParams().lang is never set by the routes, *)
(* so getLocalizedPath returns the path it is given.                        *)

NAV_ITEMS == {<<>>, <<"premium">>, <<"docs">>, <<"support">>, <<"changelog">>}
FOOTER_LINKS == {<<"docs">>, <<"premium">>, <<"changelog">>, <<"support">>, <<"terms">>, <<"privacy">>}
\* Mutant: the tabs are resolved against the root.
RootTabs == {<<"docs">>, <<"feeds">>, <<"commands">>}

DocsTabs == {<<"docs">>, <<"docs", "feeds">>, <<"docs", "commands">>}
\* The first three of four, without the page's own; the legal pages have none.
RelatedLinks(page) ==
  IF Head(page) \in {"terms", "privacy"} THEN {<<"docs">>, <<"premium">>, <<"support">>}
  ELSE {<<"docs">>, <<"premium">>, <<"support">>, <<"changelog">>} \ {SubSeq(page, 1, 1)}

\* The header with its menu (the console's entry is for the bot's owners), and
\* the header's drawer on a small screen.
NavbarLinks ==
  NAV_ITEMS \cup (IF visitor = "member" THEN {<<"servers">>, <<"dev">>} ELSE {})
MobileLinks == {<<>>} \cup NavbarLinks

\* What one page adds: the callers of navigate() in it.
PlanLinks == {<<"servers">>}
NotFoundLinks == {<<>>, <<"servers">>, <<"support">>}
CallbackLinks == {<<>>}
PickerLinks == {<<"dashboard", g>> : g \in Manageable}
ConsoleLinks == {<<"dev", "ui">>}
SignInLinks(path) == IF path = <<"servers">> THEN {<<>>} ELSE {<<"servers">>}
PageLinks(path, page) ==
  CASE page = <<"sign in">> -> SignInLinks(path)
    [] page = NotFound -> NotFoundLinks
    [] page = <<"servers">> -> PickerLinks
    [] page = <<"dev">> -> ConsoleLinks
    [] page = <<"auth", "callback">> -> CallbackLinks
    [] page \in MARKETING_ROUTES \ {<<>>} ->
         RelatedLinks(page) \cup (IF Head(page) = "docs" THEN DocsTabs ELSE {})
                            \cup (IF page = <<"premium">> THEN PlanLinks ELSE {})
    [] OTHER -> {}

\* The sidebar of a guild, and the cards of its pages.
SidebarLinks(guild) ==
  {<<"dashboard", guild>> \o s : s \in DashboardSuffixes}
  \cup {<<"dashboard", g>> : g \in SampleGuilds} \cup {<<"servers">>, <<>>}
OverviewLinks(guild) ==
  {<<"servers">>, <<"dashboard", guild, "feeds">>, <<"dashboard", guild, "premium">>}
UpgradeLinks(guild) == {<<"dashboard", guild, "premium">>}

\* Guild pages sit in DashboardLayout, which their guard keeps back; everything
\* else sits in PublicLayout.
LinksOn(path, page) ==
  IF ~GuardOf(path).guild THEN MobileLinks \cup FOOTER_LINKS \cup PageLinks(path, page)
  ELSE IF page = <<"sign in">> THEN SignInLinks(path)
  ELSE IF page \in {<<"spinner">>, <<"redirect">>} THEN {}
  ELSE SidebarLinks(path[2]) \cup OverviewLinks(path[2]) \cup UpgradeLinks(path[2])

\* The breadcrumbs of a marketing page, which load a document.
Breadcrumbs(page) ==
  IF page \notin MARKETING_ROUTES \ {<<>>} THEN {}
  ELSE {<<>>} \cup (IF Len(page) = 2 THEN {<<"docs">>} ELSE {})

-----------------------------------------------------------------------------
Closed == [path |-> NotFound, shown |-> <<"closed">>, entry |-> NotFound,
           head |-> [canonical |-> NotFound, robots |-> "index", own |-> {},
                    data |-> {}, file |-> <<>>]]

SiteInit ==
  /\ built = "vite" /\ dist = {} /\ tab = Closed /\ visitor = "checking"

SiteTypeOK ==
  /\ built \in BuildSteps /\ visitor \in {"checking", "anonymous", "member"}
  /\ dist \subseteq sitemapUrls \cup privateNoindexRoutes
  /\ \A d \in tab.head.data : d.names \subseteq sitemapUrls
  /\ tab.head.robots \in {"index", "noindex"} /\ tab.head.file \in dist \cup {<<>>}

Addresses == sitemapUrls \cup privateNoindexRoutes \cup Unknown
             \cup {<<"dashboard", g>> \o s : g \in SiteGuilds, s \in DashboardSuffixes}

\* A new tab, or a link that loads a document: nginx serves the file of the
\* path, or the start page's; the first robots tag is the template's, and the
\* visitor is not known yet.
Load(path) ==
  /\ built = "published"
  /\ (tab = Closed \/ path \in Breadcrumbs(tab.shown))
  /\ LET file == IF path \in dist THEN path ELSE <<>>
         page == Shown(path, "checking")
         head == [canonical |-> StaticPage(file).canonical, robots |-> "index",
                  own |-> {}, data |-> StaticData(file), file |-> file]
     IN tab' = [path |-> path, shown |-> page, entry |-> path,
                head |-> IF UsesSEO(page) THEN SeoEffect(head, path, page) ELSE head]
  /\ visitor' = "checking" /\ UNCHANGED <<built, dist>>

\* Rehydration ends, or the visitor signs out in another place of the console.
Recognise(who) ==
  /\ tab # Closed /\ visitor # who /\ who # "checking"
  /\ visitor = "checking" \/ who = "anonymous"
  /\ visitor' = who /\ Render(tab.path, Shown(tab.path, who)) /\ UNCHANGED <<built, dist>>

Follow(path) ==
  /\ tab # Closed /\ path \in LinksOn(tab.path, tab.shown)
  /\ Render(path, Shown(path, visitor)) /\ UNCHANGED <<built, dist, visitor>>

\* The menu's logout, and the callback page after a login.
LogoutAndGoHome ==
  /\ visitor = "member" /\ ~GuardOf(tab.path).guild
  /\ visitor' = "anonymous" /\ Render(<<>>, Shown(<<>>, "anonymous")) /\ UNCHANGED <<built, dist>>
CallbackDone ==
  /\ tab.shown = <<"auth", "callback">>
  /\ visitor' = "member" /\ Render(<<"servers">>, Shown(<<"servers">>, "member"))
  /\ UNCHANGED <<built, dist>>

\* <Navigate to="/servers" replace />
RedirectToServers ==
  /\ tab.shown = <<"redirect">>
  /\ Render(<<"servers">>, Shown(<<"servers">>, visitor)) /\ UNCHANGED <<built, dist, visitor>>

CloseTab ==
  /\ tab # Closed /\ tab' = Closed /\ visitor' = "checking" /\ UNCHANGED <<built, dist>>

SiteNext ==
  \/ WriteRootPages \/ WriteLocalizedPages \/ WritePrivateShells \/ Publish
  \/ \E p \in Addresses : Load(p) \/ Follow(p)
  \/ Recognise("anonymous") \/ Recognise("member")
  \/ LogoutAndGoHome \/ CallbackDone \/ RedirectToServers \/ CloseTab

SiteSpec == SiteInit /\ [][SiteNext]_siteVars

-----------------------------------------------------------------------------
(* Properties.                                                              *)

\* What the sitemaps announce is true of the files and of the application: each
\* address is a written page that robots.txt admits, the router shows the page
\* it was prerendered from, and the alternates it names name it back.
SitemapTruthful ==
  built = "published" /\ tab = Closed =>
    \A url \in sitemapUrls :
      /\ url \in dist /\ ~Disallowed(url)
      /\ "noindex" \notin StaticPage(url).robots
      /\ Matched(url) = PrerenderedRoute(url)
      /\ \A alternate \in StaticPage(url).alternates :
           /\ alternate \in sitemapUrls
           /\ url \in StaticPage(alternate).alternates

\* Every link and breadcrumb of a static page leads to a written page.
StaticLinksLive ==
  built = "published" /\ tab = Closed =>
    \A url \in dist \ privateNoindexRoutes :
      LET route == PrerenderedRoute(url)
          locale == PrerenderedLocale(url)
      IN FooterLinks(locale) \cup MainLinks(route, locale) \cup JsonLdLinks(route, locale)
           \subseteq dist

\* A crawler that runs the application sees what one that does not was given:
\* after any sequence of navigations the canonical link and the alternates
\* useSEO maintains are those of the address's own file, and a page that sets
\* none shows none of an earlier page.
HeadOfShownPage ==
  IF tab.path \in sitemapUrls
  THEN /\ tab.head.canonical = StaticPage(tab.path).canonical
       /\ tab.head.own = StaticPage(tab.path).alternates
       /\ tab.head.robots = "index"
  ELSE UsesSEO(tab.shown) \/ tab.head.own = {}

\* Structured data follows the visitor: a page that has a static file tells at
\* least what the file tells, its breadcrumbs end at the page that is shown, and
\* a page that has none shows none of a page before it, only what its document
\* came with (useSEO.ts, prerender.js).
DataOfShownPage ==
  /\ tab.path \in sitemapUrls =>
       {d.type : d \in StaticData(tab.path)} \subseteq {d.type : d \in tab.head.data}
  /\ \A d \in tab.head.data : d.type = "BreadcrumbList" => tab.shown \in d.names
  /\ tab.shown \notin MARKETING_ROUTES \cup {<<"closed">>} =>
       tab.head.data \subseteq StaticData(tab.head.file)

\* An address behind a guard, or one of the private pages, that is opened by
\* itself is never offered to an index: a tag says so or robots.txt forbids it.
PrivateNotIndexed ==
  (tab # Closed /\ tab.path = tab.entry /\ (GuardOf(tab.path).auth \/ tab.path \in privateNoindexRoutes))
  => \/ tab.head.robots = "noindex" \/ "noindex" \in StaticPage(tab.head.file).robots
     \/ Disallowed(tab.path)

\* What a route declares in the registry holds where it is mounted: its page is
\* shown to a member only, a guild's page to one who may manage that guild, also
\* after the visitor signed out in front of it.
DeclaredGuardsHold ==
  \A r \in APP_ROUTES : tab.shown = r.path =>
    /\ r.auth => visitor = "member"
    /\ r.guild => r.path[2] \in Manageable

\* No link of the application, nor an address its structured data names, leads to
\* the page that says not found, nor to a page of another name because its first
\* segment was taken for a language.
NoLinkToNowhere ==
  \A p \in LinksOn(tab.path, tab.shown) \cup Breadcrumbs(tab.shown)
           \cup UNION {d.names : d \in tab.head.data} :
    Matched(p) = rawPath(p)
\* Every address the site gives away is one it answers to: those of the sitemaps and
\* the links, and those behind a guard to nobody else.
AddressesHold ==
  SitemapTruthful /\ StaticLinksLive /\ NoLinkToNowhere /\ DeclaredGuardsHold

\* The head of the document is that of the page shown: its links, its structured data
\* and whether it may be indexed.
HeadMatchesPage == HeadOfShownPage /\ DataOfShownPage /\ PrivateNotIndexed

\* What the site says of itself, to visitors and to crawlers, is true of it.
SiteTruthful == AddressesHold /\ HeadMatchesPage
=============================================================================
