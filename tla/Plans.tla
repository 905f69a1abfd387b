------------------------------- MODULE Plans -------------------------------
(***************************************************************************)
(* What a subscription plan promises and what it gives.  The pricing page  *)
(* promises it (TierComparisonTable, the cards of PLANS_CONFIG), the bot   *)
(* grants it (EntitlementService over config.json and the guild's row), the*)
(* API reports it (GET /users/@me/guilds, POST /guilds/{id}/feeds) and the *)
(* dashboard shows it (the picker's cards, FeatureGate).  Stripe's events  *)
(* and the date change a row meanwhile, and feeds are created against the  *)
(* quota by requests that run at the same time.                            *)
(***************************************************************************)
EXTENDS Naturals, FiniteSets

CONSTANTS
  PlanGuilds,        \* Discord servers with the bot
  master_guilds,     \* those of config.json
  MASTER_GUILD_IDS,  \* those of the web's entitlements.ts
  Creates,           \* concurrent requests for a new feed
  FeedsAtStart,      \* feeds each guild has
  MaxFeeds,          \* bound on them
  MaxPlanChanges     \* bound on changes of the rows

NoGuild == "none"

ASSUME PlansAssumption ==
  /\ NoGuild \notin PlanGuilds
  /\ master_guilds \cup MASTER_GUILD_IDS \subseteq PlanGuilds
  /\ {MaxFeeds, MaxPlanChanges} \subseteq Nat /\ FeedsAtStart \in 0..MaxFeeds

VARIABLES
  rows,      \* guild_settings: tier, premium_until still ahead
  feedCount, \* monitors of a guild
  creates,   \* the guild a request has counted for, or "none"
  listing,   \* GuildProvider.guilds: what the API said and the row it said it of
  changes,   \* changes of the rows so far
  excused    \* history: guilds with requests side by side, or a quota lowered

planVars == <<rows, feedCount, creates, listing, changes, excused>>

Unlisted == [tier |-> 0, of |-> {}]
Rows == [tier : 0..3, ahead : BOOLEAN]

PlansTypeOK ==
  /\ rows \in [PlanGuilds -> Rows] /\ feedCount \in [PlanGuilds -> 0..MaxFeeds]
  /\ creates \in [Creates -> PlanGuilds \cup {NoGuild}]
  /\ \A g \in PlanGuilds : listing[g].tier \in 0..4
  /\ excused \subseteq PlanGuilds

\* A guild on the free plan.
PlansInit ==
  /\ rows = [g \in PlanGuilds |-> [tier |-> 0, ahead |-> FALSE]]
  /\ feedCount = [g \in PlanGuilds |-> FeedsAtStart]
  /\ creates = [r \in Creates |-> NoGuild]
  /\ listing = [g \in PlanGuilds |-> Unlisted]
  /\ changes = 0 /\ excused = {}

-----------------------------------------------------------------------------
(* What is promised.  Intervals are in minutes; a feature has the name that *)
(* config.json gives it.                                                    *)

Sold == {"free", "starter", "professional", "ultimate"}
PlanRank(plan) ==
  CASE plan = "free" -> 0 [] plan = "starter" -> 1 [] plan = "professional" -> 2
    [] plan = "ultimate" -> 3 [] plan = "master" -> 4
OfPlan(values, plan) == values[PlanRank(plan) + 1]

\* The rows of the comparison table: quotas,
ComparedLimits == [plan \in Sold |->
  [monitors |-> OfPlan(<<5, 15, 35, 100>>, plan), interval |-> OfPlan(<<20, 10, 5, 1>>, plan),
   channels |-> OfPlan(<<1, 5, 10, 20>>, plan), pings |-> OfPlan(<<1, 5, 10, 20>>, plan),
   purge |-> OfPlan(<<10, 25, 50, 100>>, plan)]]

\* and ticks, each with the first plan that has it.
ComparedTicks == [plan \in Sold |->
  LET From(first, features) == IF PlanRank(plan) >= PlanRank(first) THEN features ELSE {}
  IN From("ultimate", {"crypto_alerts", "csv_export"})
     \cup From("starter", {"custom_color", "alert_template", "genre_filter",
                           "tmdb_language_filter", "remove_branding", "bulk_delete"})
     \cup From("professional", {"custom_template", "repost"})]

\* The bullet points of a plan's card,
FeaturesOfCard(plan) ==
  CASE plan = "free" -> {}
    [] plan = "starter" -> {"custom_color", "remove_branding"}
    [] plan = "professional" -> {"custom_template", "repost"}
    [] plan = "ultimate" -> {"crypto_alerts", "csv_export"}
LimitsOfCard(plan) ==
  [monitors |-> OfPlan(<<5, 15, 35, 100>>, plan), interval |-> OfPlan(<<20, 10, 5, 1>>, plan),
   channels |-> OfPlan(<<1, 5, 10, 20>>, plan)]

\* and the plans that have one.
PLANS_CONFIG == {[id |-> p, limits |-> LimitsOfCard(p), features |-> FeaturesOfCard(p)]
                   : p \in Sold}

-----------------------------------------------------------------------------
(* What the bot grants.                                                     *)

Unlimited == 999999

tier_config == [tier \in 0..4 |->
  LET Of(values) == values[tier + 1]
      styling == {"custom_color", "alert_template", "genre_filter", "bulk_delete",
                  "tmdb_language_filter", "remove_branding"}
  IN [interval |-> Of(<<20, 10, 5, 1, 0>>), monitors |-> Of(<<5, 15, 35, 100, Unlimited>>),
      channels |-> Of(<<1, 5, 10, 20, Unlimited>>), pings |-> Of(<<1, 5, 10, 20, Unlimited>>),
      purge |-> Of(<<10, 25, 50, 100, Unlimited>>),
      features |-> Of(<<{}, styling, styling \cup {"repost", "custom_template"},
        styling \cup {"repost", "custom_template", "crypto_alerts", "csv_export"},
        styling \cup {"repost", "custom_template", "crypto_alerts", "csv_export",
                      "unlimited", "master_access"}>>)]]

\* Every guild starts within the free plan.
ASSUME StartAssumption == FeedsAtStart <= tier_config[0].monitors

is_master(g) == g \in master_guilds
is_premium(g) == is_master(g) \/ rows[g].tier >= 1 \/ rows[g].ahead

\* A tier of 0 with a date still ahead counts as the highest plan.
EffectiveTier(g) ==
  IF rows[g].tier = 0 /\ is_premium(g) THEN 3 ELSE rows[g].tier

\* Mutant: without regard to the date.
limitsOfTier(g) == IF is_master(g) THEN tier_config[4] ELSE tier_config[rows[g].tier]

get_guild_tier_limits(g) ==
  IF is_master(g) THEN tier_config[4] ELSE tier_config[EffectiveTier(g)]

\* Mutant: without regard to the date.
featureOfTier(g, feature) == is_master(g) \/ feature \in tier_config[rows[g].tier].features

has_feature(g, feature) ==
  \/ is_master(g) \/ feature = "basic"
  \/ feature \in tier_config[EffectiveTier(g)].features

-----------------------------------------------------------------------------
(* What the API and the dashboard make of it.                               *)

\* The tier GET /users/@me/guilds reports: the date counts here, too.
ListedTier(g) == IF is_master(g) THEN 4 ELSE EffectiveTier(g)

NUMBER_TO_TIER(tier) ==
  <<"free", "starter", "professional", "ultimate", "master">>[tier + 1]

isMasterGuild(g) == g \in MASTER_GUILD_IDS

toGuildTier(tier, g) == IF isMasterGuild(g) THEN "master" ELSE NUMBER_TO_TIER(tier)

\* The plan that a card of the server picker names.
PlanOnCard(g) == toGuildTier(ListedTier(g), g)

\* Mutant: more than is required.
hasMoreThan(current, required) == current = "master" \/ PlanRank(current) > PlanRank(required)
hasTierAccess(current, required) ==
  current = "master" \/ PlanRank(current) >= PlanRank(required)

\* FeatureGate on the page of a guild: one that is not listed counts as free.
FeatureGate(g, required) ==
  LET resolved == IF listing[g] = Unlisted THEN "free" ELSE toGuildTier(listing[g].tier, g)
  IN hasTierAccess(resolved, required)

\* The CSV export on the analytics page.
ExportOffered(g) == FeatureGate(g, "ultimate")

-----------------------------------------------------------------------------
(* Steps.                                                                   *)

\* A change of g's row, and what it does to the quota.
ChangeRow(g, row) ==
  /\ changes < MaxPlanChanges /\ changes' = changes + 1
  /\ rows' = [rows EXCEPT ![g] = row]
  /\ excused' = IF get_guild_tier_limits(g)'.monitors < get_guild_tier_limits(g).monitors
                THEN excused \cup {g} ELSE excused
  /\ UNCHANGED <<feedCount, creates, listing>>

\* The webhook: a purchase, a change of plan, a cancellation.  None of them takes
\* back a premium_until, so it is kept.
Subscribe(g, tier) == ChangeRow(g, [rows[g] EXCEPT !.tier = tier, !.ahead = TRUE])
ChangePlan(g, tier) == rows[g].tier > 0 /\ ChangeRow(g, [rows[g] EXCEPT !.tier = tier])
Unsubscribe(g) == rows[g].tier > 0 /\ ChangeRow(g, [rows[g] EXCEPT !.tier = 0])
Lapse(g) == rows[g].ahead /\ ChangeRow(g, [rows[g] EXCEPT !.ahead = FALSE])

\* GuildProvider loads the list.
fetchGuilds ==
  /\ listing' = [g \in PlanGuilds |-> [tier |-> ListedTier(g), of |-> {rows[g]}]]
  /\ UNCHANGED <<rows, feedCount, creates, changes, excused>>

\* Mutant: one feed more.
CountWithin(r, g) ==
  /\ creates[r] = NoGuild /\ feedCount[g] <= get_guild_tier_limits(g).monitors
  /\ creates' = [creates EXCEPT ![r] = g]
  /\ excused' = IF \E o \in Creates : creates[o] = g THEN excused \cup {g} ELSE excused
  /\ UNCHANGED <<rows, feedCount, listing, changes>>

\* create_guild_feed counts the guild's feeds; at the quota the request is
\* refused.
CountFeeds(r, g) ==
  /\ creates[r] = NoGuild /\ feedCount[g] < get_guild_tier_limits(g).monitors
  /\ creates' = [creates EXCEPT ![r] = g]
  /\ excused' = IF \E o \in Creates : creates[o] = g THEN excused \cup {g} ELSE excused
  /\ UNCHANGED <<rows, feedCount, listing, changes>>

\* Its INSERT is a query of its own.
InsertFeed(r) ==
  /\ creates[r] # NoGuild /\ feedCount[creates[r]] < MaxFeeds
  /\ feedCount' = [feedCount EXCEPT ![creates[r]] = @ + 1]
  /\ creates' = [creates EXCEPT ![r] = NoGuild]
  /\ UNCHANGED <<rows, listing, changes, excused>>

DeleteFeed(g) ==
  /\ feedCount[g] > 0 /\ feedCount' = [feedCount EXCEPT ![g] = @ - 1]
  /\ UNCHANGED <<rows, creates, listing, changes, excused>>

PlansNext ==
  \/ \E g \in PlanGuilds :
       \/ \E tier \in 1..3 : Subscribe(g, tier) \/ ChangePlan(g, tier)
       \/ Unsubscribe(g) \/ Lapse(g) \/ DeleteFeed(g)
       \/ \E r \in Creates : CountFeeds(r, g)
  \/ \E r \in Creates : InsertFeed(r)
  \/ fetchGuilds

PlansSpec == PlansInit /\ [][PlansNext]_planVars

-----------------------------------------------------------------------------
(* Properties.                                                              *)

\* The quotas in force in a guild, and the least interval it may be polled at, are
\* those the pricing page promises of the plan its card names, through purchases,
\* cancellations and lapses; a master guild, which the bot and the web each know by
\* a list of their own, has none.
LimitsAsPromised ==
  \A g \in PlanGuilds :
    LET plan == PlanOnCard(g)  limits == get_guild_tier_limits(g)
    IN IF plan \in Sold
       THEN /\ \A quota \in {"interval", "monitors", "channels", "pings", "purge"} :
                 limits[quota] = ComparedLimits[plan][quota]
            /\ \A card \in PLANS_CONFIG : card.id = plan =>
                 \A quota \in {"monitors", "channels"} : card.limits[quota] = limits[quota]
       ELSE limits.monitors = Unlimited

\* The bot grants a guild exactly the features ticked for the plan its card names,
\* and with them each one that the plan's own card or a smaller one's lists.
FeaturesAsPromised ==
  \A g \in PlanGuilds : LET plan == PlanOnCard(g) IN plan \in Sold =>
    /\ \A feature \in ComparedTicks["ultimate"] :
         has_feature(g, feature) <=> feature \in ComparedTicks[plan]
    /\ \A card \in PLANS_CONFIG : PlanRank(card.id) <= PlanRank(plan) =>
         \A feature \in card.features : has_feature(g, feature)

\* The dashboard offers the CSV export in exactly the guilds that have it, unless
\* the row has changed since the dashboard loaded its list.
ExportOfferedToEntitled ==
  \A g \in PlanGuilds :
    listing[g].of = {rows[g]} => (ExportOffered(g) <=> has_feature(g, "csv_export"))

\* Limits, features and the export are those of the plan that was sold.
PlansAsPromised == LimitsAsPromised /\ FeaturesAsPromised /\ ExportOfferedToEntitled

\* A guild has more feeds than its plan allows only after two requests counted
\* side by side, or after the plan was lowered.
QuotaExplained ==
  \A g \in PlanGuilds : feedCount[g] > get_guild_tier_limits(g).monitors => g \in excused
=============================================================================
