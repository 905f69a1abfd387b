CONSTANTS
  m1 = m1  m2 = m2  g1 = g1  g2 = g2
  Requests = {m1, m2, g1, g2}  Mutations = {m1, m2}
  DedupKey <- KeyOfRequest  Deduped = {g1, g2}  Abortable = {g1}  MaxRetries <- RetriesOf
  MaxConcurrentMutations = 1  FailureThreshold = 2  HalfOpenSuccessThreshold = 1
  MaxExpiries = 1
  Users = {"ann", "bob"}  Grants = {1, 2}  OwnerOf <- OwnersOfGrants
  OldGrant = 1  NewGrant = 2  Visits = {"v1", "v2"}  MaxRefreshes = 1  MaxTokenExpiries = 1
  Views = {"v1", "v2"}  Guilds = {"g1", "g2"}  MaxEntries = 1  MaxWrites = 1
  SiteLocales = {"en", "hu"}  SiteGuilds = {"g1", "g2"}  Manageable = {"g1"}
  SampleGuilds = {"g2"}  Unknown <- UnknownAddresses
  LazyPages = {"/", "/docs"}  ImportRetries = 2  MaxReleases = 2
  Locales = {"en", "zh", "zh-tw"}  Shipped = {"en", "zh", "zh-tw"}
  LOCALE_FALLBACK_CHAINS <- FallbackChains  FormsOf <- ShippedForms
  PluralCategory <- PluralRules  Counts = {0, 1, 2}  MaxSwitches = 3
  maxBreadcrumbs = 2  Durations = {100, 501}  Shifts = {994, 1501}
  MaxRaised = 2  MaxMeasured = 3
  KeptOnShow = 1  MaxToasts = 4  MaxQuestions = 2  MaxVisits = 2
  FormGuilds = {"g1", "g2"}  Texts = {"", "x", "y"}  Accepted = {"y"}  DefaultText = "x"
  MaxMounts = 2  MaxSends = 2
  PickerGuilds = {"a", "b"}  Samples = {"s"}  MaxMemberChanges = 1
  OptionList <- LanguageOptions  DisabledOptions = {"de"}  QueryTexts = {"", "e", "u", "q"}
  MatchesOf <- Found  MaxSiblings = 2  MaxPages = 11
  TargetTexts = {"news"}  ChannelTexts = {"", "123"}  MaxSaved = 2
  SearchTexts = {"", " ", "news", "rss", "123"}
  PlanGuilds = {"home", "club"}  master_guilds = {"home"}  MASTER_GUILD_IDS = {"home"}
  Creates = {"c1", "c2"}  FeedsAtStart = 4  MaxFeeds = 6  MaxPlanChanges = 2
  Followers = {"a", "b"}  send_initial_alert = {"b"}  MaxShows = 2  MaxLists = 2
  Watchers = {"run", "check"}  Run = "run"  MaxMoves = 3  MaxHours = 2  MaxWatches = 2
SPECIFICATION PartsSpec
INVARIANTS
  PartsTypeOK
  OneAtATime AppliedOnce BreakerCounts  ViewsTruthful
  SiteTruthful PagesServed TextsFollowChoice 
    PickerLeadsThere
  HighlightFollowsOption PagesAccounted FeedsShown  QuotaExplained
  StreamsTold PricesTold
 
CHECK_DEADLOCK FALSE
