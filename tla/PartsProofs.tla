---------------------------- MODULE PartsProofs ---------------------------
(***************************************************************************)
(* Theorems about the services beside the pipeline: plans and quotas, the  *)
(* prices that are watched, and the streams, for any guilds, currencies,   *)
(* shows and requests.  Last, theorems about all the parts that MCParts    *)
(* runs together: each behaves as its own module says, and what was proved *)
(* of the modules holds of the whole.                                      *)
(***************************************************************************)
EXTENDS MCParts, WebClientProofs, WebDataProofs, WebViewProofs, TLAPS

-----------------------------------------------------------------------------
(* Plans: a guild goes over its quota of feeds only for one of two reasons. *)

\* The quota of feeds of a guild's plan.
Quota(g) == get_guild_tier_limits(g).monitors

\* A guild without an excuse is within its quota, at most one request has counted its
\* feeds, and then there is room for one more.
WithinQuota(g) ==
  /\ feedCount[g] <= Quota(g)
  /\ \A r \in Creates : creates[r] = g =>
       /\ feedCount[g] < Quota(g)
       /\ \A o \in Creates \ {r} : creates[o] # g

\* What is kept about the feeds of every guild.
QuotaInv ==
  /\ rows \in [PlanGuilds -> Rows] /\ feedCount \in [PlanGuilds -> Nat]
  /\ creates \in [Creates -> PlanGuilds \cup {NoGuild}]
  /\ \A g \in PlanGuilds \ excused : WithinQuota(g)

-----------------------------------------------------------------------------
\* The quota is that of the guild's tier.
LEMMA QuotaOfTier ==
  /\ \A tier \in 0..4 : tier_config[tier].monitors \in Nat
  /\ tier_config[0].monitors <= tier_config[4].monitors
<1>1. ASSUME NEW tier \in 0..4 PROVE tier_config[tier].monitors \in Nat
  <2>1. tier = 0 \/ tier = 1 \/ tier = 2 \/ tier = 3 \/ tier = 4
    OBVIOUS
  <2> QED
    BY <2>1 DEF tier_config, Unlimited
<1> QED
  BY <1>1 DEF tier_config, Unlimited

\* A quota is a number.
LEMMA QuotaIsNatural ==
  ASSUME rows \in [PlanGuilds -> Rows], NEW g \in PlanGuilds
  PROVE  Quota(g) \in Nat
BY QuotaOfTier DEF Quota, get_guild_tier_limits, EffectiveTier, Rows

\* At the start no guild is over its quota.
LEMMA QuotaInit == PlansInit => QuotaInv
<1> SUFFICES ASSUME PlansInit PROVE QuotaInv
  OBVIOUS
<1>1. rows \in [PlanGuilds -> Rows] /\ feedCount \in [PlanGuilds -> Nat]
      /\ creates \in [Creates -> PlanGuilds \cup {NoGuild}]
  BY PlansAssumption DEF PlansInit, Rows
<1>2. ASSUME NEW g \in PlanGuilds PROVE WithinQuota(g)
  <2>1. feedCount[g] = FeedsAtStart /\ \A r \in Creates : creates[r] # g
    BY PlansAssumption DEF PlansInit
  <2>2. Quota(g) = tier_config[4].monitors \/ Quota(g) = tier_config[0].monitors
    BY DEF Quota, get_guild_tier_limits, EffectiveTier, is_premium, PlansInit
  <2> QED
    BY <2>1, <2>2, QuotaOfTier, StartAssumption, PlansAssumption DEF WithinQuota
<1> QED
  BY <1>1, <1>2 DEF QuotaInv

\* A change of plan excuses the guild whose quota shrinks.
LEMMA ChangeKeeps ==
  ASSUME QuotaInv, NEW g \in PlanGuilds, NEW STATE row, row \in Rows, ChangeRow(g, row)
  PROVE  QuotaInv'
<1>1. /\ rows' = [rows EXCEPT ![g] = row] /\ rows' \in [PlanGuilds -> Rows]
      /\ excused' = IF Quota(g)' < Quota(g) THEN excused \cup {g} ELSE excused
      /\ UNCHANGED <<feedCount, creates>>
  BY DEF ChangeRow, QuotaInv, Quota
<1>2. ASSUME NEW h \in PlanGuilds \ excused' PROVE WithinQuota(h)'
  <2>1. Quota(h) \in Nat /\ Quota(h)' \in Nat
    BY <1>1, QuotaOfTier DEF QuotaInv, Quota, get_guild_tier_limits, EffectiveTier, Rows
  <2>2. Quota(h)' >= Quota(h)
    <3>1. CASE h = g
      BY <3>1, <1>1, <1>2, <2>1
    <3>2. CASE h # g
      BY <3>2, <1>1, <2>1 DEF QuotaInv, Quota, get_guild_tier_limits, EffectiveTier, is_premium
    <3> QED
      BY <3>1, <3>2
  <2>3. WithinQuota(h) /\ feedCount[h] \in Nat
    BY <1>1, <1>2 DEF QuotaInv
  <2> QED
    BY <1>1, <2>1, <2>2, <2>3 DEF WithinQuota
<1> QED
  BY <1>1, <1>2 DEF QuotaInv

\* Steps that leave the rows alone leave every quota alone.
LEMMA QuotaStays ==
  ASSUME UNCHANGED rows, NEW g \in PlanGuilds
  PROVE  Quota(g)' = Quota(g)
BY DEF Quota, get_guild_tier_limits, EffectiveTier, is_premium

\* A request that counts the feeds finds nobody else who has, or excuses the guild.
LEMMA CountKeeps ==
  ASSUME QuotaInv, NEW r \in Creates, NEW g \in PlanGuilds, CountFeeds(r, g)
  PROVE  QuotaInv'
<1>1. /\ feedCount[g] < Quota(g) /\ creates[r] = NoGuild
      /\ creates' = [creates EXCEPT ![r] = g]
      /\ excused \subseteq excused'
      /\ (\E o \in Creates : creates[o] = g) => g \in excused'
      /\ UNCHANGED <<rows, feedCount>>
  BY DEF CountFeeds, Quota
<1>2. ASSUME NEW h \in PlanGuilds \ excused' PROVE WithinQuota(h)'
  <2>1. Quota(h)' = Quota(h) /\ WithinQuota(h)
    BY <1>1, <1>2, QuotaStays DEF QuotaInv
  <2>2. CASE h = g
    BY <2>1, <2>2, <1>1, <1>2 DEF WithinQuota, QuotaInv
  <2>3. CASE h # g
    BY <2>1, <2>3, <1>1 DEF WithinQuota, QuotaInv
  <2> QED
    BY <2>2, <2>3
<1> QED
  BY <1>1, <1>2 DEF QuotaInv

\* A counted request inserts into the room it found.
LEMMA InsertKeeps ==
  ASSUME QuotaInv, NEW r \in Creates, InsertFeed(r)
  PROVE  QuotaInv'
<1> DEFINE g == creates[r]
<1>1. /\ g \in PlanGuilds
      /\ feedCount' = [feedCount EXCEPT ![g] = @ + 1]
      /\ creates' = [creates EXCEPT ![r] = NoGuild]
      /\ UNCHANGED <<rows, excused>>
  BY DEF InsertFeed, QuotaInv
<1>2. ASSUME NEW h \in PlanGuilds \ excused' PROVE WithinQuota(h)'
  <2>1. Quota(h)' = Quota(h) /\ WithinQuota(h) /\ Quota(h) \in Nat /\ feedCount[h] \in Nat
    BY <1>1, <1>2, QuotaStays, QuotaIsNatural DEF QuotaInv
  <2>2. \A o \in Creates : creates'[o] = h => creates[o] = h /\ o # r
    BY <1>1, PlansAssumption DEF QuotaInv
  <2>3. CASE h = g
    <3>1. feedCount'[h] = feedCount[h] + 1 /\ feedCount[h] < Quota(h)
      BY <2>1, <2>3, <1>1 DEF WithinQuota, QuotaInv
    <3>2. \A o \in Creates : creates'[o] # h
      BY <2>1, <2>2, <2>3 DEF WithinQuota
    <3> QED
      BY <3>1, <3>2, <2>1 DEF WithinQuota
  <2>4. CASE h # g
    <3>1. feedCount'[h] = feedCount[h]
      BY <2>4, <1>1 DEF QuotaInv
    <3> QED
      BY <3>1, <2>1, <2>2 DEF WithinQuota
  <2> QED
    BY <2>3, <2>4
<1> QED
  BY <1>1, <1>2 DEF QuotaInv

\* A deletion makes room.
LEMMA DeleteKeeps ==
  ASSUME QuotaInv, NEW g \in PlanGuilds, DeleteFeed(g)
  PROVE  QuotaInv'
<1>1. /\ feedCount[g] > 0 /\ feedCount' = [feedCount EXCEPT ![g] = @ - 1]
      /\ UNCHANGED <<rows, creates, excused>>
  BY DEF DeleteFeed
<1>2. ASSUME NEW h \in PlanGuilds \ excused' PROVE WithinQuota(h)'
  <2>1. Quota(h)' = Quota(h) /\ WithinQuota(h) /\ Quota(h) \in Nat
    BY <1>1, <1>2, QuotaStays, QuotaIsNatural DEF QuotaInv
  <2>2. feedCount'[h] <= feedCount[h] /\ feedCount[h] \in Nat /\ feedCount'[h] \in Nat
    BY <1>1 DEF QuotaInv
  <2> QED
    BY <1>1, <2>1, <2>2 DEF WithinQuota
<1>3. feedCount' \in [PlanGuilds -> Nat]
  BY <1>1 DEF QuotaInv
<1> QED
  BY <1>1, <1>2, <1>3 DEF QuotaInv

\* What moves neither a feed, a row nor a request keeps the quotas.
LEMMA QuotaKept ==
  ASSUME QuotaInv, UNCHANGED <<rows, feedCount, creates, excused>>
  PROVE  QuotaInv'
BY QuotaStays DEF QuotaInv, WithinQuota

\* A changed row leaves the tiers of other guilds alone.
LEMMA RowsChanged ==
  ASSUME NEW row \in Rows
  PROVE  /\ \A tier \in 0..3 : /\ [row EXCEPT !.tier = tier] \in Rows
                             /\ [row EXCEPT !.tier = tier, !.ahead = TRUE] \in Rows
         /\ [row EXCEPT !.ahead = FALSE] \in Rows
BY DEF Rows

\* Every step keeps the quotas.
LEMMA QuotaStep == QuotaInv /\ [PlansNext]_planVars => QuotaInv'
<1> SUFFICES ASSUME QuotaInv, [PlansNext]_planVars PROVE QuotaInv'
  OBVIOUS
<1>1. CASE UNCHANGED planVars \/ fetchGuilds
  BY <1>1, QuotaKept DEF planVars, fetchGuilds
<1>2. ASSUME NEW g \in PlanGuilds, NEW tier \in 1..3, Subscribe(g, tier) \/ ChangePlan(g, tier)
      PROVE  QuotaInv'
  <2>0. rows[g] \in Rows /\ tier \in 0..3
    BY DEF QuotaInv
  <2>1. /\ [rows[g] EXCEPT !.tier = tier, !.ahead = TRUE] \in Rows
        /\ [rows[g] EXCEPT !.tier = tier] \in Rows
    BY <2>0, RowsChanged
  <2> QED
    BY <1>2, <2>1, ChangeKeeps DEF Subscribe, ChangePlan
<1>3. ASSUME NEW g \in PlanGuilds, Unsubscribe(g) \/ Lapse(g) PROVE QuotaInv'
  <2>0. rows[g] \in Rows /\ 0 \in 0..3
    BY DEF QuotaInv
  <2>1. /\ [rows[g] EXCEPT !.tier = 0] \in Rows
        /\ [rows[g] EXCEPT !.ahead = FALSE] \in Rows
    BY <2>0, RowsChanged
  <2> QED
    BY <1>3, <2>1, ChangeKeeps DEF Unsubscribe, Lapse
<1>4. ASSUME NEW g \in PlanGuilds, DeleteFeed(g) PROVE QuotaInv'
  BY <1>4, DeleteKeeps
<1>5. ASSUME NEW g \in PlanGuilds, NEW r \in Creates, CountFeeds(r, g) PROVE QuotaInv'
  BY <1>5, CountKeeps
<1>6. ASSUME NEW r \in Creates, InsertFeed(r) PROVE QuotaInv'
  BY <1>6, InsertKeeps
<1> QED
  BY <1>1, <1>2, <1>3, <1>4, <1>5, <1>6 DEF PlansNext

\* For any guilds, plans and requests: more feeds than the quota mean that two requests
\* counted side by side, or that the plan was lowered (guild_feeds_router.py:91-140).
THEOREM QuotaAlwaysExplained == PlansSpec => []QuotaExplained
<1>1. QuotaInv => QuotaExplained
  <2> SUFFICES ASSUME QuotaInv, NEW g \in PlanGuilds,
                      feedCount[g] > get_guild_tier_limits(g).monitors
      PROVE  g \in excused
    BY DEF QuotaExplained
  <2>1. Quota(g) \in Nat /\ feedCount[g] \in Nat /\ feedCount[g] > Quota(g)
    BY QuotaIsNatural DEF QuotaInv, Quota
  <2>2. ~WithinQuota(g)
    BY <2>1 DEF WithinQuota
  <2> QED
    BY <2>2 DEF QuotaInv
<1> QED
  BY <1>1, QuotaInit, QuotaStep, PTL DEF PlansSpec
-----------------------------------------------------------------------------
\* The two lists of master guilds, config.json's and the web's, name the same ones; the
\* proof needs that the bot knows each one of the web's.
MastersKnown == MASTER_GUILD_IDS \subseteq master_guilds

\* The plan that a tier has on the pricing page, and its rank.
LEMMA PlanOfTier ==
  /\ NUMBER_TO_TIER(0) = "free" /\ NUMBER_TO_TIER(1) = "starter"
  /\ NUMBER_TO_TIER(2) = "professional" /\ NUMBER_TO_TIER(3) = "ultimate"
  /\ NUMBER_TO_TIER(4) = "master"
  /\ PlanRank("free") = 0 /\ PlanRank("starter") = 1 /\ PlanRank("professional") = 2
  /\ PlanRank("ultimate") = 3 /\ PlanRank("master") = 4
BY DEF NUMBER_TO_TIER, PlanRank

\* A value in the column of a plan.
LEMMA Columns ==
  ASSUME NEW a, NEW b, NEW c, NEW d
  PROVE  /\ OfPlan(<<a, b, c, d>>, "free") = a /\ OfPlan(<<a, b, c, d>>, "starter") = b
         /\ OfPlan(<<a, b, c, d>>, "professional") = c /\ OfPlan(<<a, b, c, d>>, "ultimate") = d
BY PlanOfTier DEF OfPlan

\* The numbers of a plan,
Quotas == {"interval", "monitors", "channels", "pings", "purge"}

\* A tier below the masters' has the limits that the comparison table and the plan's card
\* show for its plan.
LEMMA LimitsOfTier ==
  ASSUME NEW tier \in 0..3
  PROVE  LET plan == NUMBER_TO_TIER(tier)
         IN  /\ plan \in Sold /\ PlanRank(plan) = tier
             /\ \A quota \in Quotas : tier_config[tier][quota] = ComparedLimits[plan][quota]
             /\ \A quota \in {"monitors", "channels"} :
                  LimitsOfCard(plan)[quota] = tier_config[tier][quota]
<1> DEFINE plan == NUMBER_TO_TIER(tier)
<1>1. tier = 0 \/ tier = 1 \/ tier = 2 \/ tier = 3
  OBVIOUS
<1>2. plan \in Sold /\ PlanRank(plan) = tier
  BY <1>1, PlanOfTier DEF Sold
<1>3. /\ ComparedLimits[plan].monitors = OfPlan(<<5, 15, 35, 100>>, plan)
      /\ ComparedLimits[plan].interval = OfPlan(<<20, 10, 5, 1>>, plan)
      /\ ComparedLimits[plan].channels = OfPlan(<<1, 5, 10, 20>>, plan)
      /\ ComparedLimits[plan].pings = OfPlan(<<1, 5, 10, 20>>, plan)
      /\ ComparedLimits[plan].purge = OfPlan(<<10, 25, 50, 100>>, plan)
  BY <1>2 DEF ComparedLimits
<1>4. /\ LimitsOfCard(plan).monitors = OfPlan(<<5, 15, 35, 100>>, plan)
      /\ LimitsOfCard(plan).channels = OfPlan(<<1, 5, 10, 20>>, plan)
  BY DEF LimitsOfCard
<1>5. /\ tier_config[tier].monitors = <<5, 15, 35, 100, Unlimited>>[tier + 1]
      /\ tier_config[tier].interval = <<20, 10, 5, 1, 0>>[tier + 1]
      /\ tier_config[tier].channels = <<1, 5, 10, 20, Unlimited>>[tier + 1]
      /\ tier_config[tier].pings = <<1, 5, 10, 20, Unlimited>>[tier + 1]
      /\ tier_config[tier].purge = <<10, 25, 50, 100, Unlimited>>[tier + 1]
  BY DEF tier_config
<1>6. /\ tier_config[tier].monitors = ComparedLimits[plan].monitors
      /\ tier_config[tier].interval = ComparedLimits[plan].interval
      /\ tier_config[tier].channels = ComparedLimits[plan].channels
      /\ tier_config[tier].pings = ComparedLimits[plan].pings
      /\ tier_config[tier].purge = ComparedLimits[plan].purge
  <2>1. CASE tier = 0
    BY <1>3, <1>5, <2>1, PlanOfTier, Columns
  <2>2. CASE tier = 1
    BY <1>3, <1>5, <2>2, PlanOfTier, Columns
  <2>3. CASE tier = 2
    BY <1>3, <1>5, <2>3, PlanOfTier, Columns
  <2>4. CASE tier = 3
    BY <1>3, <1>5, <2>4, PlanOfTier, Columns
  <2> QED
    BY <1>1, <2>1, <2>2, <2>3, <2>4
<1> HIDE DEF plan
<1> QED
  BY <1>2, <1>3, <1>4, <1>6 DEF Quotas, plan

\* and its features, by what the plan cards call them.
Styling == {"custom_color", "alert_template", "genre_filter", "bulk_delete",
            "tmdb_language_filter", "remove_branding"}
Templates == {"custom_template", "repost"}
DataFeatures == {"crypto_alerts", "csv_export"}

\* A tier below the masters' has the features ticked for its plan.
LEMMA FeaturesOfTier ==
  ASSUME NEW tier \in 0..3
  PROVE  /\ tier_config[tier].features = ComparedTicks[NUMBER_TO_TIER(tier)]
         /\ tier_config[tier].features =
              (IF tier >= 1 THEN Styling ELSE {}) \cup (IF tier >= 2 THEN Templates ELSE {})
                \cup (IF tier >= 3 THEN DataFeatures ELSE {})
         /\ "basic" \notin ComparedTicks["ultimate"]
<1> DEFINE plan == NUMBER_TO_TIER(tier)
<1>0. tier = 0 \/ tier = 1 \/ tier = 2 \/ tier = 3
  OBVIOUS
<1>1. plan \in Sold /\ PlanRank(plan) = tier /\ "ultimate" \in Sold
  BY LimitsOfTier DEF Sold
<1>2. \A p \in Sold : ComparedTicks[p] =
        (IF PlanRank(p) >= 3 THEN DataFeatures ELSE {})
          \cup (IF PlanRank(p) >= 1 THEN {"custom_color", "alert_template", "genre_filter",
                 "tmdb_language_filter", "remove_branding", "bulk_delete"} ELSE {})
          \cup (IF PlanRank(p) >= 2 THEN Templates ELSE {})
  BY PlanOfTier DEF ComparedTicks, DataFeatures, Templates
<1>3. {"custom_color", "alert_template", "genre_filter",
       "tmdb_language_filter", "remove_branding", "bulk_delete"} = Styling
  BY DEF Styling
<1>4. tier_config[tier].features =
        <<{}, Styling, Styling \cup {"repost", "custom_template"},
          Styling \cup {"repost", "custom_template", "crypto_alerts", "csv_export"},
          Styling \cup {"repost", "custom_template", "crypto_alerts", "csv_export",
                        "unlimited", "master_access"}>>[tier + 1]
  BY DEF tier_config, Styling
<1>5. /\ Styling \cup {"repost", "custom_template"} = Styling \cup Templates
      /\ Styling \cup {"repost", "custom_template", "crypto_alerts", "csv_export"}
           = Styling \cup Templates \cup DataFeatures
  BY DEF Templates, DataFeatures
<1>6. tier_config[tier].features =
        (IF tier >= 1 THEN Styling ELSE {}) \cup (IF tier >= 2 THEN Templates ELSE {})
          \cup (IF tier >= 3 THEN DataFeatures ELSE {})
  <2>1. CASE tier = 0
    BY <1>4, <2>1
  <2>2. CASE tier = 1
    BY <1>4, <2>2
  <2>3. CASE tier = 2
    BY <1>4, <1>5, <2>3
  <2>4. CASE tier = 3
    BY <1>4, <1>5, <2>4
  <2> QED
    BY <1>0, <2>1, <2>2, <2>3, <2>4
<1>7. ComparedTicks[plan] = tier_config[tier].features
  BY <1>1, <1>2, <1>3, <1>6
<1>8. "basic" \notin ComparedTicks["ultimate"]
  BY <1>1, <1>2 DEF DataFeatures, Templates
<1> QED
  BY <1>6, <1>7, <1>8

\* The tier that a row gives its guild.
TierOfRow(g, row) ==
  IF g \in master_guilds THEN 4 ELSE IF row.tier = 0 /\ row.ahead THEN 3 ELSE row.tier

\* The tier of a guild depends on its own row.
LEMMA TierOfRows ==
  ASSUME rows \in [PlanGuilds -> Rows], NEW g \in PlanGuilds
  PROVE  /\ ListedTier(g) = TierOfRow(g, rows[g]) /\ TierOfRow(g, rows[g]) \in 0..4
         /\ g \notin master_guilds => EffectiveTier(g) \in 0..3 /\ ListedTier(g) = EffectiveTier(g)
<1>1. rows[g] \in Rows
  OBVIOUS
<1>2. rows[g].tier \in 0..3 /\ rows[g].ahead \in BOOLEAN
  BY <1>1 DEF Rows
<1> QED
  BY <1>2 DEF ListedTier, TierOfRow, EffectiveTier, is_premium, is_master

\* The dashboard's list is empty for a guild or was made of some row.
ListingSound(g, listed) ==
  listed = Unlisted \/ \E row \in Rows : listed = [tier |-> TierOfRow(g, row), of |-> {row}]

\* What a plan promises and what its holder gets go together.
PromiseInv ==
  /\ rows \in [PlanGuilds -> Rows] /\ feedCount \in [PlanGuilds -> 0..MaxFeeds]
  /\ creates \in [Creates -> PlanGuilds \cup {NoGuild}] /\ excused \subseteq PlanGuilds
  /\ \A g \in PlanGuilds : ListingSound(g, listing[g])

\* The plan named by a guild's card, unless it is a master guild.
LEMMA PlanNamed ==
  ASSUME PromiseInv, MastersKnown, NEW g \in PlanGuilds
  PROVE  /\ g \in master_guilds => PlanOnCard(g) = "master"
         /\ g \notin master_guilds =>
              EffectiveTier(g) \in 0..3 /\ PlanOnCard(g) = NUMBER_TO_TIER(EffectiveTier(g))
BY TierOfRows, PlanOfTier
DEF PromiseInv, MastersKnown, PlanOnCard, toGuildTier, isMasterGuild, ListedTier, is_master

\* The limits of a guild follow from its tier.
LEMMA LimitsFollow ==
  ASSUME PromiseInv, MastersKnown
  PROVE  LimitsAsPromised
<1> SUFFICES ASSUME NEW g \in PlanGuilds
             PROVE  LET plan == PlanOnCard(g)  limits == get_guild_tier_limits(g)
                    IN IF plan \in Sold
                       THEN /\ \A quota \in Quotas : limits[quota] = ComparedLimits[plan][quota]
                            /\ \A card \in PLANS_CONFIG : card.id = plan =>
                                 \A quota \in {"monitors", "channels"} :
                                   card.limits[quota] = limits[quota]
                       ELSE limits.monitors = Unlimited
  BY DEF LimitsAsPromised, Quotas
<1> DEFINE plan == PlanOnCard(g)
           limits == get_guild_tier_limits(g)
<1>1. CASE g \in master_guilds
  <2>1. plan = "master" /\ plan \notin Sold
    BY <1>1, PlanNamed DEF Sold
  <2>2. limits = tier_config[4]
    BY <1>1 DEF get_guild_tier_limits, is_master
  <2>3. tier_config[4].monitors = Unlimited
    BY DEF tier_config
  <2> QED
    BY <2>1, <2>2, <2>3
<1>2. CASE g \notin master_guilds
  <2> DEFINE t == EffectiveTier(g)
  <2>1. t \in 0..3 /\ plan = NUMBER_TO_TIER(t) /\ limits = tier_config[t]
    BY <1>2, PlanNamed DEF get_guild_tier_limits, is_master
  <2>2. \A card \in PLANS_CONFIG : card.limits = LimitsOfCard(card.id)
    BY DEF PLANS_CONFIG
  <2> HIDE DEF t, plan, limits
  <2> QED
    BY <2>1, <2>2, LimitsOfTier DEF plan, limits
<1> QED
  BY <1>1, <1>2

\* The features of a plan's card are ticked for the plan and for every larger one.
LEMMA CardTicked ==
  ASSUME NEW tier \in 0..3, NEW card \in PLANS_CONFIG, PlanRank(card.id) <= tier
  PROVE  card.features \subseteq tier_config[tier].features
<1>1. card.id \in Sold /\ card.features = FeaturesOfCard(card.id)
  BY DEF PLANS_CONFIG
<1>2. CASE card.id = "free"
  BY <1>1, <1>2 DEF FeaturesOfCard
<1>3. CASE card.id = "starter"
  <2>1. card.features = {"custom_color", "remove_branding"} /\ tier >= 1
    BY <1>1, <1>3, PlanOfTier DEF FeaturesOfCard
  <2> QED
    BY <2>1, FeaturesOfTier DEF Styling
<1>4. CASE card.id = "professional"
  <2>1. card.features = {"custom_template", "repost"} /\ tier >= 2
    BY <1>1, <1>4, PlanOfTier DEF FeaturesOfCard
  <2> QED
    BY <2>1, FeaturesOfTier DEF Templates
<1>5. CASE card.id = "ultimate"
  <2>1. card.features = {"crypto_alerts", "csv_export"} /\ tier >= 3
    BY <1>1, <1>5, PlanOfTier DEF FeaturesOfCard
  <2> QED
    BY <2>1, FeaturesOfTier DEF DataFeatures
<1> QED
  BY <1>1, <1>2, <1>3, <1>4, <1>5 DEF Sold

\* So do its features,
LEMMA FeaturesFollow ==
  ASSUME PromiseInv, MastersKnown
  PROVE  FeaturesAsPromised
<1> SUFFICES ASSUME NEW g \in PlanGuilds, PlanOnCard(g) \in Sold
             PROVE  /\ \A feature \in ComparedTicks["ultimate"] :
                         has_feature(g, feature) <=> feature \in ComparedTicks[PlanOnCard(g)]
                    /\ \A card \in PLANS_CONFIG : PlanRank(card.id) <= PlanRank(PlanOnCard(g)) =>
                         \A feature \in card.features : has_feature(g, feature)
  BY DEF FeaturesAsPromised
<1> DEFINE t == EffectiveTier(g)
<1>1. g \notin master_guilds
  BY PlanNamed DEF Sold
<1>2. t \in 0..3 /\ PlanOnCard(g) = NUMBER_TO_TIER(t) /\ PlanRank(PlanOnCard(g)) = t
  BY <1>1, PlanNamed, LimitsOfTier
<1>3. \A feature : has_feature(g, feature) <=>
        feature = "basic" \/ feature \in tier_config[t].features
  BY <1>1 DEF has_feature, is_master
<1> HIDE DEF t
<1>4. \A feature \in ComparedTicks["ultimate"] : feature # "basic"
  BY <1>2, FeaturesOfTier
<1> QED
  BY <1>2, <1>3, <1>4, FeaturesOfTier, CardTicked

\* and what it may export.
LEMMA ExportFollows ==
  ASSUME PromiseInv, MastersKnown
  PROVE  ExportOfferedToEntitled
<1> SUFFICES ASSUME NEW g \in PlanGuilds, listing[g].of = {rows[g]}
             PROVE  ExportOffered(g) <=> has_feature(g, "csv_export")
  BY DEF ExportOfferedToEntitled
<1>1. listing[g] # Unlisted /\ listing[g].tier = TierOfRow(g, rows[g])
  <2>1. listing[g] # Unlisted
    BY DEF Unlisted
  <2>2. PICK row \in Rows : listing[g] = [tier |-> TierOfRow(g, row), of |-> {row}]
    BY <2>1 DEF PromiseInv, ListingSound
  <2>3. row = rows[g]
    BY <2>2
  <2> QED
    BY <2>1, <2>2, <2>3
<1>2. listing[g].tier = ListedTier(g) /\ toGuildTier(listing[g].tier, g) = PlanOnCard(g)
  BY <1>1, TierOfRows DEF PromiseInv, PlanOnCard
<1>3. ExportOffered(g) <=> PlanOnCard(g) = "master" \/ PlanRank(PlanOnCard(g)) >= 3
  BY <1>1, <1>2, PlanOfTier DEF ExportOffered, FeatureGate, hasTierAccess
<1>4. CASE g \in master_guilds
  BY <1>3, <1>4, PlanNamed DEF has_feature, is_master
<1>5. CASE g \notin master_guilds
  <2> DEFINE t == EffectiveTier(g)
  <2>1. t \in 0..3 /\ PlanOnCard(g) = NUMBER_TO_TIER(t)
    BY <1>5, PlanNamed
  <2>2. has_feature(g, "csv_export") <=> "csv_export" \in tier_config[t].features
    BY <1>5 DEF has_feature, is_master
  <2> HIDE DEF t
  <2>3. PlanRank(PlanOnCard(g)) = t /\ PlanOnCard(g) # "master"
    BY <2>1, LimitsOfTier DEF Sold
  <2>4. "csv_export" \in tier_config[t].features <=> t >= 3
    BY <2>1, FeaturesOfTier DEF Styling, Templates, DataFeatures
  <2> QED
    BY <1>3, <2>2, <2>3, <2>4
<1> QED
  BY <1>4, <1>5

\* Every step keeps the promises.
LEMMA PromiseStep == PromiseInv /\ [PlansNext]_planVars => PromiseInv'
<1> SUFFICES ASSUME PromiseInv, [PlansNext]_planVars PROVE PromiseInv'
  OBVIOUS
<1>1. CASE UNCHANGED planVars
  BY <1>1 DEF planVars, PromiseInv
<1>2. CASE fetchGuilds
  <2>1. \A g \in PlanGuilds : rows[g] \in Rows /\ ListedTier(g) = TierOfRow(g, rows[g])
    BY TierOfRows DEF PromiseInv
  <2>2. \A g \in PlanGuilds : listing'[g] = [tier |-> ListedTier(g), of |-> {rows[g]}]
    BY <1>2 DEF fetchGuilds
  <2> QED
    BY <1>2, <2>1, <2>2 DEF fetchGuilds, PromiseInv, ListingSound
<1>3. ASSUME NEW g \in PlanGuilds, NEW STATE row, row \in Rows, ChangeRow(g, row) PROVE PromiseInv'
  BY <1>3 DEF ChangeRow, PromiseInv
<1>4. ASSUME NEW g \in PlanGuilds, NEW tier \in 1..3, Subscribe(g, tier) \/ ChangePlan(g, tier)
      PROVE  PromiseInv'
  <2>0. rows[g] \in Rows /\ tier \in 0..3
    BY DEF PromiseInv
  <2>1. /\ [rows[g] EXCEPT !.tier = tier, !.ahead = TRUE] \in Rows
        /\ [rows[g] EXCEPT !.tier = tier] \in Rows
    BY <2>0, RowsChanged
  <2> QED
    BY <1>4, <2>1, <1>3 DEF Subscribe, ChangePlan
<1>5. ASSUME NEW g \in PlanGuilds, Unsubscribe(g) \/ Lapse(g) PROVE PromiseInv'
  <2>0. rows[g] \in Rows /\ 0 \in 0..3
    BY DEF PromiseInv
  <2>1. /\ [rows[g] EXCEPT !.tier = 0] \in Rows
        /\ [rows[g] EXCEPT !.ahead = FALSE] \in Rows
    BY <2>0, RowsChanged
  <2> QED
    BY <1>5, <2>1, <1>3 DEF Unsubscribe, Lapse
<1>6. ASSUME NEW g \in PlanGuilds, DeleteFeed(g) PROVE PromiseInv'
  <2>1. feedCount[g] \in 0..MaxFeeds /\ feedCount[g] > 0
    BY <1>6 DEF DeleteFeed, PromiseInv
  <2>2. feedCount[g] - 1 \in 0..MaxFeeds
    <3> DEFINE f == feedCount[g]
    <3>1. f \in 0..MaxFeeds /\ f > 0 /\ MaxFeeds \in Nat
      BY <2>1, PlansAssumption
    <3> HIDE DEF f
    <3>2. f - 1 \in 0..MaxFeeds
      BY <3>1
    <3> QED
      BY <3>2 DEF f
  <2> QED
    BY <1>6, <2>2 DEF DeleteFeed, PromiseInv
<1>7. ASSUME NEW g \in PlanGuilds, NEW r \in Creates, CountFeeds(r, g) PROVE PromiseInv'
  BY <1>7 DEF CountFeeds, PromiseInv
<1>8. ASSUME NEW r \in Creates, InsertFeed(r) PROVE PromiseInv'
  <2> DEFINE g == creates[r]
  <2>1. g \in PlanGuilds /\ feedCount[g] \in 0..MaxFeeds /\ feedCount[g] < MaxFeeds
    BY <1>8 DEF InsertFeed, PromiseInv
  <2>2. feedCount[g] + 1 \in 0..MaxFeeds
    <3> DEFINE f == feedCount[g]
    <3>1. f \in 0..MaxFeeds /\ f < MaxFeeds /\ MaxFeeds \in Nat
      BY <2>1, PlansAssumption
    <3> HIDE DEF f
    <3>2. f + 1 \in 0..MaxFeeds
      BY <3>1
    <3> QED
      BY <3>2 DEF f
  <2> QED
    BY <1>8, <2>1, <2>2 DEF InsertFeed, PromiseInv
<1> QED
  BY <1>1, <1>2, <1>4, <1>5, <1>6, <1>7, <1>8 DEF PlansNext

\* What the invariant says of the plans, whatever the web knows of master guilds.
LEMMA PromisesTyped ==
  ASSUME PromiseInv
  PROVE  PlansTypeOK
<1>1. \A g \in PlanGuilds : listing[g].tier \in 0..4
  <2> SUFFICES ASSUME NEW g \in PlanGuilds PROVE listing[g].tier \in 0..4
    OBVIOUS
  <2>1. CASE listing[g] = Unlisted
    BY <2>1 DEF Unlisted
  <2>2. ASSUME NEW row \in Rows, listing[g] = [tier |-> TierOfRow(g, row), of |-> {row}]
        PROVE  listing[g].tier \in 0..4
    BY <2>2 DEF TierOfRow, Rows
  <2> QED
    BY <2>1, <2>2 DEF PromiseInv, ListingSound
<1> QED
  BY <1>1 DEF PlansTypeOK, PromiseInv

\* Nothing is listed and nobody creates a feed at the start.
LEMMA PromiseStart == PlansInit => PromiseInv
BY PlansAssumption DEF PlansInit, PromiseInv, Rows, ListingSound

\* Rows, counts, requests and the dashboard's list keep their types, also when the web and
\* the bot disagree on the master guilds.
THEOREM PlansAlwaysTyped == PlansSpec => []PlansTypeOK
BY PromiseStart, PromiseStep, PromisesTyped, PTL DEF PlansSpec

\* For any guilds, rows and requests: limits, features and the export are those of the plan
\* that is named, if the web knows no master guild that the bot does not know.
THEOREM PlansAlwaysAsPromised ==
  ASSUME MastersKnown PROVE PlansSpec => [](PlansTypeOK /\ PlansAsPromised)
<1>1. PromiseInv => PlansTypeOK /\ PlansAsPromised
  BY PromisesTyped, LimitsFollow, FeaturesFollow, ExportFollows DEF PlansAsPromised
<1> QED
  BY <1>1, PromiseStart, PromiseStep, PTL DEF PlansSpec

-----------------------------------------------------------------------------
(* Prices: a threshold is announced at most once an hour in each            *)
(* direction, and no crossing disappears behind its record, for any number  *)
(* of checks beside the run, of reloads, restarts and failures.             *)

\* What was announced is recorded, about to be, or its record was lost.
AnnouncedRecorded ==
  \A c \in Crossings :
    alerts[c] > 0 => \/ c \in history \/ c \in unrecorded
                     \/ \E w \in Watchers : Stands(w, "recording", c)

\* Who is about to announce is the first to do so, and alone with the crossing.
SendersFirst ==
  \A w \in Watchers, c \in Crossings :
    Stands(w, "sending", c) =>
      \/ c \in unrecorded
      \/ /\ alerts[c] = 0
         /\ \A o \in Watchers \ {w} : ~Stands(o, "sending", c) /\ ~Stands(o, "recording", c)

\* A record comes with an announcement.
RecordsHeard ==
  \A c \in Crossings :
    c \in history \/ (\E w \in Watchers : Stands(w, "recording", c)) =>
      alerts[c] > 0 \/ c \in silenced

\* What is kept about announcements and their records.
PricesInv ==
  PricesTypeOK /\ AnnouncedRecorded /\ SendersFirst /\ RecordsHeard /\ PricesTold

-----------------------------------------------------------------------------
(* Each kind of step keeps each part.                                      *)

\* Where a watcher stands once it has found a crossing.
Pcs == {"asking", "sending", "recording"}

\* Watcher w, which stood at c, now stands at "to", or nowhere; the others stay.
Moved(w, c, to) ==
  \A o \in Watchers, d \in Crossings, pc \in Pcs :
    Stands(o, pc, d)' <=> IF o = w THEN pc = to /\ d = c ELSE Stands(o, pc, d)

\* A watcher that moves on stands elsewhere, the others where they stood.
LEMMA MovedOn ==
  ASSUME PricesTypeOK, NEW w \in Watchers, NEW c \in Crossings, NEW from \in Pcs,
         Stands(w, from, c), NEW to \in Pcs,
         watcher' = [watcher EXCEPT ![w] = [@ EXCEPT !.pc = to]]
  PROVE  /\ Moved(w, c, to)
         /\ watcher'[w] \in [pc : Pcs, object : Watches, seen : Crossings]
<1>1. watcher[w] \in [pc : Pcs, object : Watches, seen : Crossings] /\ watcher[w].seen = c
  BY DEF PricesTypeOK, Stands, NothingSeen, Pcs
<1>2. watcher'[w] = [watcher[w] EXCEPT !.pc = to] /\ \A o \in Watchers \ {w} : watcher'[o] = watcher[o]
  BY DEF PricesTypeOK
<1>3. watcher'[w] \in [pc : Pcs, object : Watches, seen : Crossings]
      /\ watcher'[w].pc = to /\ watcher'[w].seen = c
  BY <1>1, <1>2
<1> QED
  BY <1>2, <1>3 DEF Moved, Stands

\* A watcher that is done stands nowhere.
LEMMA MovedAway ==
  ASSUME PricesTypeOK, NEW w \in Watchers, NEW c \in Crossings,
         watcher' = [watcher EXCEPT ![w] = NothingSeen]
  PROVE  Moved(w, c, "idle")
<1>1. watcher'[w] = NothingSeen /\ \A o \in Watchers \ {w} : watcher'[o] = watcher[o]
  BY DEF PricesTypeOK
<1>2. watcher'[w].pc = "idle"
  BY <1>1 DEF NothingSeen
<1> QED
  BY <1>1, <1>2 DEF Moved, Stands, Pcs

\* A crossing is held by a watcher that stands with it.
LEMMA HeldIsStood ==
  ASSUME PricesTypeOK, NEW c \in Crossings
  PROVE  c \in InHand <=> \E w \in Watchers, pc \in Pcs : Stands(w, pc, c)
BY DEF PricesTypeOK, NothingSeen, InHand, Stands, Pcs

-----------------------------------------------------------------------------
(* Type correctness.                                                       *)

\* Every step keeps the types.
LEMMA PricesTyped == PricesTypeOK /\ [PricesNext]_priceVars => PricesTypeOK'
<1> SUFFICES ASSUME PricesTypeOK, [PricesNext]_priceVars PROVE PricesTypeOK'
  OBVIOUS
<1> USE PricesAssumption
<1> DEFINE Held == [pc : Pcs, object : Watches, seen : Crossings]
<1>1. CASE MarketMoves
  BY <1>1 DEF MarketMoves, PricesTypeOK
<1>2. CASE HourPasses
  BY <1>2 DEF HourPasses, PricesTypeOK
<1>3. CASE FetchPrices
  BY <1>3 DEF FetchPrices, PricesTypeOK
<1>4. ASSUME NEW w \in Watchers, Watch(w) PROVE PricesTypeOK'
  <2>1. CASE ReadPrice(w)
    <3> DEFINE directions == Crossed(last_price[watch], price)
    <3>1. directions \subseteq {"up", "down"}
      BY DEF Crossed
    <3>2. directions # {} => (CHOOSE d \in directions : TRUE) \in {"up", "down"}
      BY <3>1
    <3>3. watcher' \in [Watchers -> {NothingSeen} \cup
                          [pc : {"asking", "sending", "recording"}, object : Watches, seen : Crossings]]
      <4>1. directions # {} =>
              [pc |-> "asking", object |-> watch, seen |-> <<CHOOSE d \in directions : TRUE, hour>>]
                \in [pc : {"asking", "sending", "recording"}, object : Watches, seen : Crossings]
        BY <3>2 DEF PricesTypeOK, Crossings
      <4> QED
        BY <2>1, <4>1 DEF ReadPrice, PricesTypeOK
    <3>4. detected' \subseteq Crossings
      BY <2>1, <3>1 DEF ReadPrice, PricesTypeOK, Crossings
    <3> QED
      BY <2>1, <3>3, <3>4 DEF ReadPrice, PricesTypeOK
  <2>2. ASSUME NEW c \in Crossings, NEW from \in Pcs, Stands(w, from, c), NEW to \in Pcs \cup {"idle"},
               watcher' = [watcher EXCEPT ![w] = IF to = "idle" THEN NothingSeen ELSE [@ EXCEPT !.pc = to]]
        PROVE  watcher' \in [Watchers -> {NothingSeen} \cup
                          [pc : {"asking", "sending", "recording"}, object : Watches, seen : Crossings]]
    <3>1. watcher[w] \in [pc : Pcs, object : Watches, seen : Crossings]
      BY <2>2 DEF PricesTypeOK, Stands, NothingSeen, Pcs
    <3>2. to # "idle" => [watcher[w] EXCEPT !.pc = to] \in [pc : Pcs, object : Watches, seen : Crossings]
      BY <3>1
    <3> QED
      BY <2>2, <3>2 DEF PricesTypeOK, Pcs
  <2>3. CASE LookUp(w)
    <3>1. PICK c \in Crossings : LookUp(w)!(c)
      BY <2>3 DEF LookUp
    <3>2. Looked(w, c, c \notin history) \in {"idle", "sending", "recording"}
      BY DEF Looked
    <3>3. watcher' \in [Watchers -> {NothingSeen} \cup
                          [pc : {"asking", "sending", "recording"}, object : Watches, seen : Crossings]]
      BY <3>1, <3>2, <2>2 DEF Pcs
    <3> QED
      BY <3>1, <3>3 DEF PricesTypeOK
  <2>4. CASE LookUpFails(w)
    BY <2>4 DEF LookUpFails, PricesTypeOK
  <2>5. CASE SendPrice(w)
    <3>1. PICK c \in Crossings : SendPrice(w)!(c)
      BY <2>5 DEF SendPrice
    <3>2. watcher' = [watcher EXCEPT ![w] = IF "recording" = "idle" THEN NothingSeen ELSE [@ EXCEPT !.pc = "recording"]]
      BY <3>1
    <3>3. watcher' \in [Watchers -> {NothingSeen} \cup
                          [pc : {"asking", "sending", "recording"}, object : Watches, seen : Crossings]]
      BY <3>1, <3>2, <2>2 DEF Pcs
    <3> QED
      BY <3>1, <3>3 DEF PricesTypeOK
  <2>6. CASE SendPriceFails(w)
    <3>1. PICK c \in Crossings : SendPriceFails(w)!(c)
      BY <2>6 DEF SendPriceFails
    <3> DEFINE to == IF w = Run THEN "recording" ELSE "idle"
    <3>2. watcher' = [watcher EXCEPT ![w] = IF to = "idle" THEN NothingSeen ELSE [@ EXCEPT !.pc = to]]
      BY <3>1
    <3>3. watcher' \in [Watchers -> {NothingSeen} \cup
                          [pc : {"asking", "sending", "recording"}, object : Watches, seen : Crossings]]
      BY <3>1, <3>2, <2>2 DEF Pcs
    <3> QED
      BY <3>1, <3>3 DEF PricesTypeOK
  <2>7. CASE Record(w)
    BY <2>7 DEF Record, PricesTypeOK
  <2>8. CASE RecordFails(w)
    BY <2>8 DEF RecordFails, PricesTypeOK
  <2> QED
    BY <1>4, <2>1, <2>3, <2>4, <2>5, <2>6, <2>7, <2>8 DEF Watch
<1>5. CASE SaveSeeding
  BY <1>5 DEF SaveSeeding, PricesTypeOK
<1>6. CASE ReplaceWatch
  <2>1. watch' \in Watches
    <3>1. watch + 1 \in 1..MaxWatches
      BY <1>6 DEF ReplaceWatch, PricesTypeOK, Watches
    <3> QED
      BY <1>6, <3>1 DEF ReplaceWatch, Watches
  <2>2. is_seeding' \in [Watches -> BOOLEAN]
    BY <1>6, <2>1, Zenon DEF ReplaceWatch, PricesTypeOK
  <2> QED
    BY <1>6, <2>1, <2>2 DEF ReplaceWatch, PricesTypeOK
<1>7. CASE RestartPrices
  BY <1>7 DEF RestartPrices, PricesTypeOK, Watches, InHand
<1>8. CASE UNCHANGED priceVars
  BY <1>8 DEF priceVars, PricesTypeOK
<1> QED
  BY <1>1, <1>2, <1>3, <1>4, <1>5, <1>6, <1>7, <1>8 DEF PricesNext

-----------------------------------------------------------------------------
(* The ledger of announcements and records.                                *)

\* A step that moves no crossing anybody holds, and announces and records nothing.
LEMMA QuietKeeps ==
  ASSUME PricesInv, PricesTypeOK', UNCHANGED <<alerts, history>>,
         detected' \subseteq detected \cup InHand',
         InHand \subseteq InHand' \cup silenced',
         silenced \subseteq silenced', unrecorded \subseteq unrecorded',
         \A w \in Watchers, c \in Crossings, pc \in {"sending", "recording"} :
            Stands(w, pc, c)' <=> Stands(w, pc, c)
  PROVE  PricesInv'
<1>1. AnnouncedRecorded' /\ SendersFirst' /\ RecordsHeard'
  <2>1. AnnouncedRecorded'
    BY DEF PricesInv, AnnouncedRecorded, Stands
  <2>2. SendersFirst'
    BY DEF PricesInv, SendersFirst, Stands
  <2>3. RecordsHeard'
    BY DEF PricesInv, RecordsHeard, Stands
  <2> QED
    BY <2>1, <2>2, <2>3
<1>2. OncePerHour' /\ CrossingsHeard'
  BY DEF PricesInv, PricesTold, OncePerHour, CrossingsHeard
<1> QED
  BY <1>1, <1>2 DEF PricesInv, PricesTold

\* A step of a watcher keeps the invariant.
LEMMA WatchKeeps ==
  ASSUME PricesInv, PricesTypeOK', NEW w \in Watchers, Watch(w)
  PROVE  PricesInv'
<1> USE DEF PricesInv
<1>0. \A c \in Crossings : (c \in InHand' <=> \E o \in Watchers, pc \in Pcs : Stands(o, pc, c)')
      /\ (c \in InHand <=> \E o \in Watchers, pc \in Pcs : Stands(o, pc, c))
  BY HeldIsStood
  DEF PricesTypeOK, NothingSeen, InHand, Stands, Pcs
<1>1. CASE ReadPrice(w)
  <2> DEFINE directions == Crossed(last_price[watch], price)
  <2>1. watcher'[w].pc \in {"idle", "asking"} /\ \A o \in Watchers \ {w} : watcher'[o] = watcher[o]
    BY <1>1 DEF ReadPrice, PricesTypeOK, NothingSeen
  <2>2. \A o \in Watchers, c \in Crossings, pc \in {"sending", "recording"} :
            Stands(o, pc, c)' <=> Stands(o, pc, c)
    BY <1>1, <2>1 DEF ReadPrice, Stands
  <2>3. detected' \subseteq detected \cup InHand'
    <3>1. ASSUME directions # {} PROVE directions = {CHOOSE d \in directions : TRUE}
      BY <3>1 DEF Crossed
    <3>2. ASSUME directions # {}
          PROVE  watcher'[w].pc # "idle" /\ watcher'[w].seen = <<CHOOSE d \in directions : TRUE, hour>>
      BY <1>1, <3>2 DEF ReadPrice, PricesTypeOK
    <3>3. directions \X {hour} \subseteq Crossings
      BY DEF Crossed, Crossings, PricesTypeOK
    <3>4. directions \X {hour} \subseteq InHand'
      <4> SUFFICES ASSUME NEW d \in directions PROVE <<d, hour>> \in InHand'
        OBVIOUS
      <4>1. d = (CHOOSE e \in directions : TRUE) /\ directions # {}
        BY <3>1
      <4>2. <<d, hour>> \in Crossings
        BY <3>3
      <4> QED
        BY <3>2, <4>1, <4>2 DEF InHand
    <3> QED
      BY <1>1, <3>4 DEF ReadPrice
  <2>4. InHand \subseteq InHand'
    BY <1>1, <2>1 DEF ReadPrice, InHand
  <2> QED
    BY <1>1, <2>2, <2>3, <2>4, QuietKeeps DEF ReadPrice
<1>2. CASE LookUp(w)
  <2>1. PICK c \in Crossings : LookUp(w)!(c)
    BY <1>2 DEF LookUp
  <2> DEFINE new == c \notin history
             next == Looked(w, c, new)
  <2>2. next \in {"idle", "sending", "recording"}
        /\ (next = "sending" => new) /\ (next = "idle" => ~new)
    BY DEF Looked
  <2>3. Moved(w, c, next)
    <3>1. CASE next = "idle"
      BY <2>1, <3>1, MovedAway
    <3>2. CASE next # "idle"
      BY <2>1, <2>2, <3>2, MovedOn DEF Pcs
    <3> QED
      BY <3>1, <3>2
  <2>4. Stands(w, "asking", c) /\ ~Stands(w, "recording", c) /\ ~Stands(w, "sending", c)
    BY <2>1 DEF Stands
  <2>5. /\ silenced \subseteq silenced' /\ unrecorded \subseteq unrecorded'
        /\ (new /\ next = "recording" => c \in silenced')
        /\ (\E o \in Watchers \ {w} : Stands(o, "sending", c) \/ Stands(o, "recording", c)) => c \in unrecorded'
        /\ UNCHANGED <<alerts, history, detected>>
    BY <2>1
  <2>6. AnnouncedRecorded'
    BY <2>3, <2>4, <2>5 DEF AnnouncedRecorded, Moved, Pcs, Stands
  <2>7. SendersFirst'
    BY <2>2, <2>3, <2>4, <2>5 DEF SendersFirst, AnnouncedRecorded, Moved, Pcs, PricesTypeOK
  <2>8. RecordsHeard'
    BY <2>2, <2>3, <2>4, <2>5 DEF RecordsHeard, Moved, Pcs
  <2>9. OncePerHour'
    BY <2>5 DEF PricesTold, OncePerHour
  <2>10. CrossingsHeard'
    <3> SUFFICES ASSUME NEW d \in detected
                 PROVE  alerts[d] > 0 \/ d \in InHand' \/ d \in silenced'
      BY <2>5 DEF CrossingsHeard
    <3>1. d \in Crossings
      BY DEF PricesTypeOK
    <3>2. CASE alerts[d] > 0 \/ d \in silenced
      BY <2>5, <3>2
    <3>3. ASSUME NEW o \in Watchers, NEW pc \in Pcs, Stands(o, pc, d), o # w
          PROVE  d \in InHand'
      BY <1>0, <2>3, <3>1, <3>3 DEF Moved
    <3>4. ASSUME NEW pc \in Pcs, Stands(w, pc, d)
          PROVE  alerts[d] > 0 \/ d \in InHand' \/ d \in silenced'
      <4>1. d = c
        BY <2>4, <3>4 DEF Stands
      <4>2. CASE next = "idle"
        BY <2>2, <2>5, <4>1, <4>2 DEF RecordsHeard
      <4>3. CASE next # "idle"
        BY <1>0, <2>2, <2>3, <3>1, <4>1, <4>3 DEF Moved, Pcs
      <4> QED
        BY <4>2, <4>3
    <3> QED
      BY <1>0, <3>1, <3>2, <3>3, <3>4 DEF PricesTold, CrossingsHeard
  <2> QED
    BY <2>6, <2>7, <2>8, <2>9, <2>10 DEF PricesTold
<1>3. CASE LookUpFails(w)
  <2>1. PICK c \in Crossings : LookUpFails(w)!(c)
    BY <1>3 DEF LookUpFails
  <2>2. Moved(w, c, "idle") /\ Stands(w, "asking", c)
    BY <2>1, MovedAway
  <2>3. \A o \in Watchers, d \in Crossings, pc \in {"sending", "recording"} :
            Stands(o, pc, d)' <=> Stands(o, pc, d)
    BY <2>2 DEF Moved, Pcs, Stands
  <2>4. InHand \subseteq InHand' \cup silenced'
    BY <1>0, <2>1, <2>2 DEF Moved, Pcs, Stands, InHand
  <2> QED
    BY <2>1, <2>3, <2>4, QuietKeeps
<1>4. CASE SendPrice(w)
  <2>1. PICK c \in Crossings : SendPrice(w)!(c)
    BY <1>4 DEF SendPrice
  <2>2. Moved(w, c, "recording") /\ Stands(w, "sending", c)
    BY <2>1, MovedOn DEF Pcs
  <2>3. /\ alerts'[c] > 0 /\ (alerts[c] = 0 => alerts'[c] = 1)
        /\ \A d \in Crossings \ {c} : alerts'[d] = alerts[d]
        /\ UNCHANGED <<history, detected, silenced, unrecorded>>
    BY <2>1 DEF PricesTypeOK
  <2>4. AnnouncedRecorded' /\ RecordsHeard'
    BY <2>2, <2>3 DEF AnnouncedRecorded, RecordsHeard, Moved, Pcs, Stands
  <2>5. SendersFirst'
    BY <2>2, <2>3 DEF SendersFirst, Moved, Pcs
  <2>6. OncePerHour'
    BY <2>2, <2>3 DEF SendersFirst, PricesTold, OncePerHour, PricesTypeOK
  <2>7. CrossingsHeard'
    <3> SUFFICES ASSUME NEW d \in detected, d # c
                 PROVE  alerts[d] > 0 \/ d \in InHand' \/ d \in silenced
      BY <2>3 DEF CrossingsHeard, PricesTypeOK
    <3>1. d \in Crossings
      BY DEF PricesTypeOK
    <3>2. ASSUME NEW o \in Watchers, NEW pc \in Pcs, Stands(o, pc, d) PROVE d \in InHand'
      BY <1>0, <2>2, <3>1, <3>2 DEF Moved, Stands
    <3> QED
      BY <1>0, <3>1, <3>2 DEF PricesTold, CrossingsHeard
  <2> QED
    BY <2>4, <2>5, <2>6, <2>7 DEF PricesTold
<1>5. CASE SendPriceFails(w)
  <2>1. PICK c \in Crossings : SendPriceFails(w)!(c)
    BY <1>5 DEF SendPriceFails
  <2> DEFINE to == IF w = Run THEN "recording" ELSE "idle"
  <2>2. Moved(w, c, to) /\ Stands(w, "sending", c)
    BY <2>1, MovedOn, MovedAway DEF Pcs
  <2>3. silenced' = silenced \cup {c} /\ UNCHANGED <<alerts, history, detected, unrecorded>>
    BY <2>1
  <2>4. AnnouncedRecorded' /\ RecordsHeard' /\ SendersFirst'
    BY <2>2, <2>3 DEF AnnouncedRecorded, RecordsHeard, SendersFirst, Moved, Pcs, Stands
  <2>5. OncePerHour' /\ CrossingsHeard'
    BY <1>0, <2>2, <2>3
    DEF PricesTold, OncePerHour, CrossingsHeard, Moved, Pcs, Stands, PricesTypeOK
  <2> QED
    BY <2>4, <2>5 DEF PricesTold
<1>6. CASE Record(w)
  <2>1. PICK c \in Crossings : Record(w)!(c)
    BY <1>6 DEF Record
  <2>2. Moved(w, c, "idle") /\ Stands(w, "recording", c)
    BY <2>1, MovedAway
  <2>3. history' = history \cup {c} /\ UNCHANGED <<alerts, detected, silenced, unrecorded>>
    BY <2>1
  <2>4. AnnouncedRecorded' /\ RecordsHeard' /\ SendersFirst'
    BY <2>2, <2>3 DEF AnnouncedRecorded, RecordsHeard, SendersFirst, Moved, Pcs, Stands
  <2>5. OncePerHour' /\ CrossingsHeard'
    BY <1>0, <2>2, <2>3
    DEF PricesTold, OncePerHour, CrossingsHeard, RecordsHeard, Moved, Pcs, Stands,
        PricesTypeOK
  <2> QED
    BY <2>4, <2>5 DEF PricesTold
<1>7. CASE RecordFails(w)
  <2>1. PICK c \in Crossings : RecordFails(w)!(c)
    BY <1>7 DEF RecordFails
  <2>2. Moved(w, c, "idle") /\ Stands(w, "recording", c)
    BY <2>1, MovedAway
  <2>3. unrecorded' = unrecorded \cup {c} /\ UNCHANGED <<alerts, detected, silenced, history>>
    BY <2>1
  <2>4. AnnouncedRecorded' /\ RecordsHeard' /\ SendersFirst'
    BY <2>2, <2>3 DEF AnnouncedRecorded, RecordsHeard, SendersFirst, Moved, Pcs, Stands
  <2>5. OncePerHour' /\ CrossingsHeard'
    BY <1>0, <2>2, <2>3
    DEF PricesTold, OncePerHour, CrossingsHeard, RecordsHeard, Moved, Pcs, Stands,
        PricesTypeOK
  <2> QED
    BY <2>4, <2>5 DEF PricesTold
<1> QED
  BY <1>1, <1>2, <1>3, <1>4, <1>5, <1>6, <1>7 DEF Watch

\* A restart forgets the watchers, not the records.
LEMMA RestartKeeps ==
  ASSUME PricesInv, PricesTypeOK', RestartPrices
  PROVE  PricesInv'
<1>1. \A w \in Watchers, c \in Crossings, pc \in Pcs : ~Stands(w, pc, c)'
  BY DEF RestartPrices, Stands, NothingSeen, Pcs
<1>2. \A w \in Watchers, c \in Crossings : Stands(w, "recording", c) => c \in InHand
  BY DEF Stands, InHand
<1>3. AnnouncedRecorded' /\ SendersFirst' /\ RecordsHeard'
  BY <1>1, <1>2
  DEF RestartPrices, PricesInv, AnnouncedRecorded, SendersFirst, RecordsHeard, Pcs
<1>4. OncePerHour' /\ CrossingsHeard'
  BY DEF RestartPrices, PricesInv, PricesTold, OncePerHour, CrossingsHeard
<1> QED
  BY <1>3, <1>4 DEF PricesInv, PricesTold

\* At the start nothing is announced.
LEMMA PricesStart == PricesInit => PricesInv
<1> SUFFICES ASSUME PricesInit PROVE PricesInv
  OBVIOUS
<1>1. PricesTypeOK
  BY PricesAssumption DEF PricesInit, PricesTypeOK, Watches
<1>2. AnnouncedRecorded /\ SendersFirst /\ RecordsHeard
  BY DEF PricesInit, AnnouncedRecorded, SendersFirst, RecordsHeard, Stands, NothingSeen
<1>3. OncePerHour /\ CrossingsHeard
  BY DEF PricesInit, OncePerHour, CrossingsHeard
<1> QED
  BY <1>1, <1>2, <1>3 DEF PricesInv, PricesTold

\* Every step keeps the invariant.
LEMMA PricesStep == PricesInv /\ [PricesNext]_priceVars => PricesInv'
<1> SUFFICES ASSUME PricesInv, [PricesNext]_priceVars PROVE PricesInv'
  OBVIOUS
<1>1. PricesTypeOK'
  BY PricesTyped DEF PricesInv
<1>2. ASSUME NEW w \in Watchers, Watch(w) PROVE PricesInv'
  BY <1>1, <1>2, WatchKeeps
<1>3. CASE RestartPrices
  BY <1>1, <1>3, RestartKeeps
<1>4. CASE MarketMoves \/ HourPasses \/ FetchPrices \/ SaveSeeding \/ ReplaceWatch \/ UNCHANGED priceVars
  <2>1. UNCHANGED <<watcher, alerts, history, detected, silenced, unrecorded>>
    BY <1>4 DEF MarketMoves, HourPasses, FetchPrices, SaveSeeding, ReplaceWatch, priceVars
  <2> QED
    BY <1>1, <2>1, QuietKeeps DEF InHand, Stands
<1> QED
  BY <1>2, <1>3, <1>4 DEF PricesNext

\* The ledger holds in every state.
THEOREM PricesInvariant == PricesSpec => []PricesInv
<1> QED
  BY PricesStart, PricesStep, PTL DEF PricesSpec

\* No threshold is announced twice in an hour and direction, and no crossing is
\* recorded that nobody was told of, without one of the reasons the model names.
THEOREM PricesAlwaysTold == PricesSpec => []PricesTold
<1>1. PricesInv => PricesTold
  BY DEF PricesInv
<1> QED
  BY <1>1, PricesInvariant, PTL

-----------------------------------------------------------------------------
(* Streams: a show is announced at most once for a monitor, and no show     *)
(* begun between two polls of an object is missed, for any number of monitors,*)
(* shows and reloads: a flag carried over, a silent start and the order "alert*)
(* first, flag afterwards" together are enough, unless a poll fails or the  *)
(* process restarts during the show.                                        *)

\* The objects that may still judge a show: those of the loaded list, and the one
\* that is being polled, whose list may have been replaced.
InUse(o) == o[2] = list \/ (polling.pc # "idle" /\ o = polling.object)

\* Nothing is known of a show that has not begun, or announced for an unknown monitor.
NoForesight ==
  /\ entry <= lastShow /\ polling.show <= lastShow
  /\ \A m \in Followers, s \in Shows : announced[<<m, s>>] > 0 => s <= lastShow /\ m \in members

\* While the cache holds "offline", nobody has heard of the show on the air.
OfflineIsStale ==
  entry = Offline /\ onAir # Offline =>
    polling.show # onAir /\ \A m \in Followers : announced[<<m, onAir>>] = 0

\* Where the poll and the reload under way stand.  A poll that outlived its list
\* leaves a silent object behind in the new one.
PollPlaced ==
  /\ polling.pc = "asking" => entry = NoAnswer
  /\ polling.pc # "idle" =>
       /\ polling.object[1] \in members /\ polling.object[2] <= list
       /\ polling.object[2] # list => is_silent_start[<<polling.object[1], list>>]
  /\ reloading.pc = "reading" => reloading.saved = members

\* The order of the alert and its record.
AlertsFirst ==
  /\ polling.pc = "alerting" =>
       announced[<<polling.object[1], polling.show>>] = 0 \/ polling.show \in interrupted
  /\ polling.pc = "recording" => announced[<<polling.object[1], polling.show>>] > 0

\* What was announced, an object in use remembers or is silent about.
Remembered ==
  \A o \in Objects, s \in Shows :
    InUse(o) /\ s \in {onAir, entry} /\ announced[<<o[1], s>>] > 0 /\ s \notin interrupted =>
      is_live[o] \/ is_silent_start[o] \/ (polling.pc = "recording" /\ o = polling.object)

\* An object that found nothing is ready to announce; later objects are untouched.
ReadyToAnnounce ==
  \A o \in Objects : /\ before[o] = "offline" => ~is_live[o] /\ ~is_silent_start[o]
                     /\ o[2] > list => before[o] = "unpolled"

\* What is kept about shows, flags and announcements.
StreamsInv ==
  /\ StreamsTypeOK /\ NoForesight /\ OfflineIsStale /\ PollPlaced /\ AlertsFirst
  /\ Remembered /\ ReadyToAnnounce /\ StreamsTold

-----------------------------------------------------------------------------
(* Type correctness.                                                       *)

\* The conclusion of a poll keeps the types,
LEMMA ConcludedTyped ==
  ASSUME StreamsTypeOK, NEW o \in Objects, NEW heard \in PollAnswers, Concluded(o, heard)
  PROVE  /\ is_live' \in [Objects -> BOOLEAN] /\ is_silent_start' \in [Objects -> BOOLEAN]
         /\ polling' = NotPolling /\ before' \in [Objects -> {"unpolled", "offline", "live"}]
         /\ unheard' \subseteq Followers \X Shows
BY DEF Concluded, Missed, StreamsTypeOK, Objects, PollAnswers

\* and so does its judgement.
LEMMA JudgedTyped ==
  ASSUME StreamsTypeOK, NEW o \in Objects, NEW heard \in PollAnswers, Judged(o, heard)
  PROVE  /\ is_live' \in [Objects -> BOOLEAN] /\ is_silent_start' \in [Objects -> BOOLEAN]
         /\ polling' \in {NotPolling} \cup [pc : {"alerting"}, object : Objects, show : Shows]
         /\ before' \in [Objects -> {"unpolled", "offline", "live"}]
         /\ unheard' \subseteq Followers \X Shows
<1>1. CASE heard \in Shows /\ ~is_live[o] /\ ~is_silent_start[o]
  BY <1>1 DEF Judged, StreamsTypeOK
<1>2. CASE ~(heard \in Shows /\ ~is_live[o] /\ ~is_silent_start[o])
  BY <1>2, ConcludedTyped DEF Judged
<1> QED
  BY <1>1, <1>2

\* Every step keeps the types.
LEMMA StreamsTyped == StreamsTypeOK /\ [StreamsNext]_streamVars => StreamsTypeOK'
<1> SUFFICES ASSUME StreamsTypeOK, [StreamsNext]_streamVars PROVE StreamsTypeOK'
  OBVIOUS
<1> USE StreamsAssumption
<1>a. onAir \in PollAnswers /\ entry \in PollAnswers /\ NoAnswer \in PollAnswers
  BY DEF StreamsTypeOK, PollAnswers, Shows, Offline
<1>1. CASE GoLive
  <2>1. lastShow' \in 0..MaxShows /\ onAir' = lastShow'
    BY <1>1 DEF GoLive, StreamsTypeOK
  <2> QED
    BY <1>1, <2>1 DEF GoLive, StreamsTypeOK
<1>2. CASE GoOffAir
  BY <1>2 DEF GoOffAir, StreamsTypeOK
<1>3. CASE EntryExpires
  BY <1>a, <1>3 DEF EntryExpires, StreamsTypeOK
<1>4. CASE Poll
  <2>1. <<first, list>> \in Objects
    BY DEF StreamsTypeOK, Objects
  <2>2. CASE entry # NoAnswer
    <3>1. Judged(<<first, list>>, entry)
      BY <1>4, <2>2 DEF Poll
    <3>2. polling' \in {NotPolling} \cup [pc : {"alerting"}, object : Objects, show : Shows]
      BY <1>a, <2>1, <3>1, JudgedTyped
    <3>3. /\ is_live' \in [Objects -> BOOLEAN] /\ is_silent_start' \in [Objects -> BOOLEAN]
          /\ before' \in [Objects -> {"unpolled", "offline", "live"}]
          /\ unheard' \subseteq Followers \X Shows
      BY <1>a, <2>1, <3>1, JudgedTyped
    <3> QED
      BY <1>4, <3>2, <3>3 DEF Poll, StreamsTypeOK
  <2>3. CASE entry = NoAnswer
    BY <1>4, <2>1, <2>3 DEF Poll, StreamsTypeOK
  <2> QED
    BY <2>2, <2>3
<1>5. ASSUME NEW heard \in PollAnswers, polling.pc = "asking", Judged(polling.object, heard),
             UNCHANGED <<onAir, lastShow, subscribed, list, members, first, reloading, announced>>,
             entry' \in {entry, onAir}, interrupted' \subseteq Shows
      PROVE  StreamsTypeOK'
  <2>1. polling.object \in Objects
    BY <1>5 DEF StreamsTypeOK, NotPolling
  <2>2. polling' \in {NotPolling} \cup [pc : {"alerting"}, object : Objects, show : Shows]
    BY <1>5, <2>1, JudgedTyped
  <2>3. /\ is_live' \in [Objects -> BOOLEAN] /\ is_silent_start' \in [Objects -> BOOLEAN]
        /\ before' \in [Objects -> {"unpolled", "offline", "live"}]
        /\ unheard' \subseteq Followers \X Shows
    BY <1>5, <2>1, JudgedTyped
  <2>4. entry' \in PollAnswers
    BY <1>a, <1>5 DEF PollAnswers
  <2> QED
    BY <1>5, <2>2, <2>3, <2>4 DEF StreamsTypeOK
<1>6. CASE PollAnswered
  <2>1. interrupted' \subseteq Shows
    BY <1>6 DEF PollAnswered, StreamsTypeOK
  <2> QED
    BY <1>a, <1>5, <1>6, <2>1 DEF PollAnswered
<1>7. CASE PollBlank
  <2>1. interrupted' \subseteq Shows
    BY <1>7 DEF PollBlank, StreamsTypeOK, Shows, Offline
  <2> QED
    BY <1>a, <1>5, <1>7, <2>1 DEF PollBlank
<1>8. CASE Alert
  <2>1. polling \in [pc : {"alerting"}, object : Objects, show : Shows]
    BY <1>8 DEF Alert, StreamsTypeOK, NotPolling
  <2>2. polling' \in [pc : {"recording"}, object : Objects, show : Shows]
    BY <1>8, <2>1 DEF Alert
  <2>3. announced' \in [Followers \X Shows -> 0..2]
    BY <1>8, <2>1 DEF Alert, StreamsTypeOK, Objects
  <2> QED
    BY <1>8, <2>2, <2>3 DEF Alert, StreamsTypeOK
<1>9. CASE AlertRaises
  BY <1>9 DEF AlertRaises, StreamsTypeOK
<1>10. CASE Recorded
  <2>1. polling.object \in Objects /\ polling.show \in PollAnswers
    BY <1>10 DEF Recorded, StreamsTypeOK, NotPolling, PollAnswers
  <2> QED
    BY <1>10, <2>1, ConcludedTyped DEF Recorded, StreamsTypeOK
<1>11. CASE ReloadBegins
  BY <1>11 DEF ReloadBegins, StreamsTypeOK
<1>12. CASE ReloadEnds
  <2>1. is_live' \in [Objects -> BOOLEAN]
    <3>1. \A o \in Objects : is_live[o] \in BOOLEAN
      BY DEF StreamsTypeOK
    <3> DEFINE flag(o) == IF o[2] = list' THEN o[1] \in reloading.flags ELSE is_live[o]
    <3>2. is_live' = [o \in Objects |-> flag(o)]
      BY <1>12 DEF ReloadEnds
    <3>3. ASSUME NEW o \in Objects PROVE flag(o) \in BOOLEAN
      <4>1. CASE o[2] = list'
        BY <4>1
      <4>2. CASE o[2] # list'
        BY <3>1, <4>2
      <4> QED
        BY <4>1, <4>2
    <3> HIDE DEF flag
    <3> QED
      BY <3>2, <3>3
  <2>2. is_silent_start' \in [Objects -> BOOLEAN]
    BY <1>12 DEF ReloadEnds, StreamsTypeOK, StartsSilent
  <2>3. list' \in MonitorLists
    BY <1>12 DEF ReloadEnds, StreamsTypeOK, MonitorLists
  <2> QED
    BY <1>12, <2>1, <2>2, <2>3 DEF ReloadEnds, StreamsTypeOK, NotReloading
<1>13. CASE ReloadFailed
  BY <1>13 DEF ReloadFailed, StreamsTypeOK, NotReloading
<1>14. CASE Restart
  <2>1. list' \in MonitorLists
    BY <1>14 DEF Restart, StreamsTypeOK, MonitorLists
  <2>2. interrupted' \subseteq Shows
    BY <1>14 DEF Restart, StreamsTypeOK, Shows, Offline
  <2>3. reloading' \in [pc : {"idle", "reading"}, saved : SUBSET Followers, flags : SUBSET Followers]
    BY <1>14 DEF Restart, NotReloading
  <2> QED
    BY <1>a, <1>14, <2>1, <2>2, <2>3 DEF Restart, StreamsTypeOK
<1>15. CASE UNCHANGED streamVars
  BY <1>15 DEF streamVars, StreamsTypeOK
<1> QED
  BY <1>1, <1>2, <1>3, <1>4, <1>6, <1>7, <1>8, <1>9, <1>10, <1>11, <1>12, <1>13, <1>14, <1>15
     DEF StreamsNext

-----------------------------------------------------------------------------
(* What a step of a poll amounts to.                                       *)

\* Object o, which is in use, judges what it heard from the cache or the provider.
Judges(o, heard) ==
  /\ InUse(o) /\ o[1] \in members /\ o[2] <= list
  /\ o[2] # list => is_silent_start[<<o[1], list>>]
  /\ Judged(o, heard)
  /\ \/ heard = entry /\ entry # NoAnswer /\ entry' = entry /\ interrupted' = interrupted
     \/ heard = onAir /\ entry' = onAir /\ interrupted' = interrupted
     \/ /\ heard = NoAnswer /\ entry = NoAnswer /\ entry' = entry
        /\ onAir \in interrupted' \cup {Offline}

\* A poll asks about the object's show.
AsksService ==
  /\ entry = NoAnswer /\ polling.pc = "idle"
  /\ polling' = [pc |-> "asking", object |-> <<first, list>>, show |-> Offline]
  /\ UNCHANGED <<entry, is_live, is_silent_start, before, unheard, interrupted>>

\* The steps of a poll.
LEMMA PollSteps ==
  ASSUME StreamsTypeOK, PollPlaced, Poll \/ PollAnswered \/ PollBlank
  PROVE  /\ UNCHANGED <<onAir, lastShow, subscribed, list, members, first, reloading, announced>>
         /\ polling.pc \in {"idle", "asking"} /\ interrupted \subseteq interrupted'
         /\ AsksService \/ \E o \in Objects, heard \in PollAnswers : Judges(o, heard)
<1> USE StreamsAssumption
<1>a. onAir \in PollAnswers /\ entry \in PollAnswers /\ NoAnswer \in PollAnswers
  BY DEF StreamsTypeOK, PollAnswers, Shows, Offline
<1>1. CASE Poll
  <2> DEFINE o == <<first, list>>
  <2>1. o \in Objects /\ o[1] \in members /\ o[2] = list /\ list \in Nat
    BY DEF StreamsTypeOK, Objects, MonitorLists
  <2>2. CASE entry # NoAnswer
    <3>1. Judges(o, entry)
      BY <1>1, <2>1, <2>2 DEF Poll, Judges, InUse
    <3> QED
      BY <1>a, <1>1, <2>1, <3>1 DEF Poll
  <2>3. CASE entry = NoAnswer
    BY <1>1, <2>3 DEF Poll, AsksService
  <2> QED
    BY <2>2, <2>3
<1>2. ASSUME polling.pc = "asking"
      PROVE  /\ polling.object \in Objects /\ InUse(polling.object) /\ entry = NoAnswer
             /\ polling.object[1] \in members /\ polling.object[2] <= list
             /\ polling.object[2] # list => is_silent_start[<<polling.object[1], list>>]
  BY <1>2 DEF StreamsTypeOK, NotPolling, InUse, PollPlaced
<1>3. CASE PollAnswered
  <2>1. Judges(polling.object, onAir)
    BY <1>2, <1>3 DEF PollAnswered, Judges
  <2> QED
    BY <1>a, <1>2, <1>3, <2>1 DEF PollAnswered
<1>4. CASE PollBlank
  <2>1. Judges(polling.object, NoAnswer)
    BY <1>2, <1>4 DEF PollBlank, Judges
  <2> QED
    BY <1>a, <1>2, <1>4, <2>1 DEF PollBlank
<1> QED
  BY <1>1, <1>3, <1>4

\* An object either raises the alarm, and changes nothing yet, or concludes.
LEMMA Verdict ==
  ASSUME StreamsTypeOK, NEW o \in Objects, NEW heard \in PollAnswers, Judges(o, heard)
  PROVE  \/ /\ heard \in Shows /\ ~is_live[o] /\ ~is_silent_start[o]
            /\ polling' = [pc |-> "alerting", object |-> o, show |-> heard]
            /\ UNCHANGED <<is_live, is_silent_start, before, unheard>>
         \/ Concluded(o, heard) /\ (heard \in Shows => is_live[o] \/ is_silent_start[o])
BY DEF Judges, Judged

\* What a poll concludes.
LEMMA Conclusion ==
  ASSUME StreamsTypeOK, NEW o \in Objects, NEW heard \in PollAnswers, Concluded(o, heard)
  PROVE  /\ is_live'[o] <=> heard \in Shows
         /\ ~is_silent_start'[o]
         /\ before'[o] \in {"offline", "live"} /\ (before'[o] = "offline" => heard \notin Shows)
         /\ \A p \in Objects \ {o} : /\ is_live'[p] <=> is_live[p]
                                     /\ is_silent_start'[p] <=> is_silent_start[p]
                                     /\ before'[p] = before[p]
BY DEF Concluded, StreamsTypeOK

-----------------------------------------------------------------------------
(* The parts of the invariant.                                             *)

\* No step lets a show be known before it begins.
LEMMA NoForesightKept ==
  ASSUME StreamsInv, [StreamsNext]_streamVars
  PROVE  NoForesight'
<1> USE StreamsAssumption DEF StreamsInv
<1>a. lastShow \in Nat /\ onAir <= lastShow /\ NoAnswer <= lastShow /\ Offline <= lastShow
  BY DEF StreamsTypeOK, Offline, NoAnswer
<1>1. CASE Poll \/ PollAnswered \/ PollBlank
  <2>1. /\ UNCHANGED <<lastShow, members, announced>>
        /\ AsksService \/ \E o \in Objects, heard \in PollAnswers : Judges(o, heard)
    BY <1>1, PollSteps
  <2>2. CASE AsksService
    BY <1>a, <2>1, <2>2 DEF AsksService, NoForesight
  <2>3. ASSUME NEW o \in Objects, NEW heard \in PollAnswers, Judges(o, heard) PROVE NoForesight'
    <3>1. entry' <= lastShow /\ heard <= lastShow
      BY <1>a, <2>3 DEF Judges, NoForesight
    <3>2. polling'.show \in {Offline, heard}
      BY <2>3, Verdict DEF Concluded, NotPolling
    <3> QED
      BY <1>a, <2>1, <3>1, <3>2 DEF NoForesight
  <2> QED
    BY <2>1, <2>2, <2>3
<1>2. CASE GoLive
  BY <1>a, <1>2
  DEF GoLive, NoForesight, StreamsTypeOK, PollAnswers, Shows, Offline, NoAnswer, NotPolling
<1>3. CASE GoOffAir \/ EntryExpires \/ ReloadBegins \/ ReloadFailed
  BY <1>a, <1>3 DEF GoOffAir, EntryExpires, ReloadBegins, ReloadFailed, NoForesight
<1>4. CASE Alert
  BY <1>4 DEF Alert, NoForesight, PollPlaced, StreamsTypeOK, NotPolling, Objects
<1>5. CASE AlertRaises \/ Recorded
  BY <1>a, <1>5 DEF AlertRaises, Recorded, Concluded, NotPolling, NoForesight
<1>6. CASE ReloadEnds \/ Restart
  BY <1>a, <1>6 DEF ReloadEnds, Restart, NotPolling, NoForesight, StreamsTypeOK
<1>7. CASE UNCHANGED streamVars
  BY <1>7 DEF streamVars, NoForesight
<1> QED
  BY <1>1, <1>2, <1>3, <1>4, <1>5, <1>6, <1>7 DEF StreamsNext

\* No step announces a show while the cache says offline.
LEMMA OfflineIsStaleKept ==
  ASSUME StreamsInv, [StreamsNext]_streamVars
  PROVE  OfflineIsStale'
<1> USE StreamsAssumption DEF StreamsInv
<1>1. CASE Poll \/ PollAnswered \/ PollBlank
  <2>1. /\ UNCHANGED <<onAir, announced>>
        /\ AsksService \/ \E o \in Objects, heard \in PollAnswers : Judges(o, heard)
    BY <1>1, PollSteps
  <2>2. CASE AsksService
    BY <2>2 DEF AsksService, OfflineIsStale, Offline, NoAnswer
  <2>3. ASSUME NEW o \in Objects, NEW heard \in PollAnswers, Judges(o, heard)
        PROVE  OfflineIsStale'
    <3>1. entry' = Offline /\ onAir # Offline => heard = Offline /\ entry = Offline
      BY <2>3 DEF Judges, Offline, NoAnswer
    <3>2. heard = Offline => polling' = NotPolling
      BY <2>3, Verdict DEF Concluded, Offline, Shows
    <3> QED
      BY <2>1, <3>1, <3>2 DEF OfflineIsStale, NotPolling
  <2> QED
    BY <2>1, <2>2, <2>3
<1>2. CASE GoLive
  <2>1. onAir' = lastShow + 1 /\ onAir' \in Shows /\ UNCHANGED <<polling, announced>>
    BY <1>2 DEF GoLive, StreamsTypeOK, Shows
  <2>2. polling.show # onAir'
    BY <2>1 DEF NoForesight, StreamsTypeOK, NotPolling, Shows, Offline
  <2>3. ASSUME NEW m \in Followers PROVE announced[<<m, onAir'>>] = 0
    BY <2>1 DEF NoForesight, StreamsTypeOK
  <2> QED
    BY <2>1, <2>2, <2>3 DEF OfflineIsStale
<1>3. CASE GoOffAir \/ EntryExpires \/ ReloadBegins \/ ReloadFailed \/ ReloadEnds \/ Restart
  BY <1>3
  DEF GoOffAir, EntryExpires, ReloadBegins, ReloadFailed, ReloadEnds, Restart,
      OfflineIsStale,
              NoAnswer, Offline
<1>4. CASE Alert
  <2>1. polling.object \in Objects /\ polling.show \in Shows /\ polling'.show = polling.show
    BY <1>4 DEF Alert, StreamsTypeOK, NotPolling
  <2>2. \A m \in Followers, s \in Shows \ {polling.show} : announced'[<<m, s>>] = announced[<<m, s>>]
    BY <1>4, <2>1 DEF Alert, StreamsTypeOK
  <2>3. onAir # Offline => onAir \in Shows
    BY DEF StreamsTypeOK, Shows, Offline
  <2> QED
    BY <1>4, <2>1, <2>2, <2>3 DEF Alert, OfflineIsStale
<1>5. CASE AlertRaises \/ Recorded
  BY <1>5 DEF AlertRaises, Recorded, Concluded, NotPolling, OfflineIsStale
<1>6. CASE UNCHANGED streamVars
  BY <1>6 DEF streamVars, OfflineIsStale
<1> QED
  BY <1>1, <1>2, <1>3, <1>4, <1>5, <1>6 DEF StreamsNext

\* A poll stays with an object in use.
LEMMA PollPlacedKept ==
  ASSUME StreamsInv, [StreamsNext]_streamVars
  PROVE  PollPlaced'
<1> USE StreamsAssumption DEF StreamsInv
<1>1. CASE Poll \/ PollAnswered \/ PollBlank
  <2>1. /\ UNCHANGED <<list, members, reloading>>
        /\ AsksService \/ \E o \in Objects, heard \in PollAnswers : Judges(o, heard)
    BY <1>1, PollSteps
  <2>2. CASE AsksService
    BY <2>1, <2>2 DEF AsksService, PollPlaced, StreamsTypeOK, MonitorLists
  <2>3. ASSUME NEW o \in Objects, NEW heard \in PollAnswers, Judges(o, heard) PROVE PollPlaced'
    <3>1. /\ o[1] \in members /\ o[2] <= list
          /\ o[2] # list => is_silent_start[<<o[1], list>>]
      BY <2>3 DEF Judges
    <3>2. CASE polling' = NotPolling
      BY <2>1, <3>2 DEF PollPlaced, NotPolling
    <3>3. CASE /\ polling' = [pc |-> "alerting", object |-> o, show |-> heard]
               /\ is_silent_start' = is_silent_start
      BY <2>1, <3>1, <3>3 DEF PollPlaced
    <3> QED
      BY <2>3, <3>2, <3>3, Verdict DEF Concluded
  <2> QED
    BY <2>1, <2>2, <2>3
<1>2. CASE GoLive \/ GoOffAir \/ EntryExpires \/ ReloadBegins \/ ReloadFailed
  BY <1>2
  DEF GoLive, GoOffAir, EntryExpires, ReloadBegins, ReloadFailed, NotReloading, PollPlaced
<1>3. CASE Alert \/ AlertRaises \/ Recorded
  BY <1>3 DEF Alert, AlertRaises, Recorded, Concluded, PollPlaced, NotPolling, StreamsTypeOK
<1>4. CASE ReloadEnds
  <2>1. list \in Nat /\ list' = list + 1 /\ list' \in MonitorLists /\ members \subseteq members'
    BY <1>4 DEF ReloadEnds, StreamsTypeOK, MonitorLists
  <2>2. ASSUME NEW m \in members PROVE is_silent_start'[<<m, list'>>]
    <3>1. <<m, list'>> \in Objects /\ <<m, list'>>[2] = list' /\ StartsSilent(m)
      BY <1>4, <2>1 DEF StreamsTypeOK, Objects, StartsSilent, PollPlaced, ReloadEnds
    <3> QED
      BY <1>4, <3>1 DEF ReloadEnds
  <2>3. polling' = polling /\ (polling.pc # "idle" => polling.object[2] \in Nat)
    BY <1>4 DEF ReloadEnds, StreamsTypeOK, NotPolling, Objects, MonitorLists
  <2>4. polling.pc # "idle" => polling.object[2] <= list' /\ polling.object[1] \in members'
    BY <2>1, <2>3 DEF PollPlaced
  <2>5. polling'.pc = "asking" => entry' = NoAnswer
    BY <1>4, <2>3 DEF ReloadEnds, PollPlaced
  <2>6. reloading'.pc = "idle"
    BY <1>4 DEF ReloadEnds, NotReloading
  <2> QED
    BY <2>2, <2>3, <2>4, <2>5, <2>6 DEF PollPlaced
<1>5. CASE Restart
  BY <1>5 DEF Restart, NotPolling, NotReloading, PollPlaced
<1>6. CASE UNCHANGED streamVars
  BY <1>6 DEF streamVars, PollPlaced
<1> QED
  BY <1>1, <1>2, <1>3, <1>4, <1>5, <1>6 DEF StreamsNext

\* An alert comes before its flag in every step.
LEMMA AlertsFirstKept ==
  ASSUME StreamsInv, [StreamsNext]_streamVars
  PROVE  AlertsFirst'
<1> USE StreamsAssumption DEF StreamsInv
<1>1. CASE Poll \/ PollAnswered \/ PollBlank
  <2>1. /\ UNCHANGED announced /\ polling.pc \in {"idle", "asking"} /\ interrupted \subseteq interrupted'
        /\ AsksService \/ \E o \in Objects, heard \in PollAnswers : Judges(o, heard)
    BY <1>1, PollSteps
  <2>2. CASE AsksService
    BY <2>2 DEF AsksService, AlertsFirst
  <2>3. ASSUME NEW o \in Objects, NEW heard \in PollAnswers, Judges(o, heard) PROVE AlertsFirst'
    <3>1. CASE polling' = NotPolling
      BY <3>1 DEF NotPolling, AlertsFirst
    <3>2. CASE /\ heard \in Shows /\ ~is_live[o] /\ ~is_silent_start[o]
               /\ polling' = [pc |-> "alerting", object |-> o, show |-> heard]
      <4>1. InUse(o) /\ heard \in {onAir, entry}
        BY <2>3, <3>2 DEF Judges, Shows, NoAnswer
      <4>2. ~(announced[<<o[1], heard>>] > 0) \/ heard \in interrupted
        BY <2>1, <3>2, <4>1 DEF Remembered
      <4>3. announced[<<o[1], heard>>] \in 0..2
        BY <3>2 DEF StreamsTypeOK, Objects
      <4> QED
        BY <2>1, <3>2, <4>2, <4>3 DEF AlertsFirst
    <3> QED
      BY <2>3, <3>1, <3>2, Verdict DEF Concluded
  <2> QED
    BY <2>1, <2>2, <2>3
<1>2. CASE GoLive \/ GoOffAir \/ EntryExpires \/ ReloadBegins \/ ReloadFailed \/ ReloadEnds
  BY <1>2
  DEF GoLive, GoOffAir, EntryExpires, ReloadBegins, ReloadFailed, ReloadEnds, AlertsFirst
<1>3. CASE Alert
  <2>1. polling.object \in Objects /\ polling.show \in Shows
        /\ polling'.object = polling.object /\ polling'.show = polling.show /\ polling'.pc = "recording"
    BY <1>3 DEF Alert, StreamsTypeOK, NotPolling
  <2>2. announced'[<<polling.object[1], polling.show>>] > 0
    BY <1>3, <2>1 DEF Alert, StreamsTypeOK, Objects
  <2> QED
    BY <2>1, <2>2 DEF AlertsFirst
<1>4. CASE AlertRaises \/ Recorded \/ Restart
  BY <1>4 DEF AlertRaises, Recorded, Concluded, Restart, NotPolling, AlertsFirst
<1>5. CASE UNCHANGED streamVars
  BY <1>5 DEF streamVars, AlertsFirst
<1> QED
  BY <1>1, <1>2, <1>3, <1>4, <1>5 DEF StreamsNext

\* Who is to announce a show is the first to.
LEMMA ReadyToAnnounceKept ==
  ASSUME StreamsInv, [StreamsNext]_streamVars
  PROVE  ReadyToAnnounce'
<1> USE StreamsAssumption DEF StreamsInv
<1>a. ASSUME NEW o \in Objects, NEW heard \in PollAnswers, Concluded(o, heard),
             o[2] <= list, list' = list
      PROVE  ReadyToAnnounce'
  <2>1. list \in Nat /\ \A p \in Objects : p[2] \in Nat
    BY DEF StreamsTypeOK, Objects, MonitorLists
  <2> QED
    BY <1>a, <2>1, Conclusion DEF ReadyToAnnounce
<1>1. CASE Poll \/ PollAnswered \/ PollBlank
  <2>1. /\ UNCHANGED list
        /\ AsksService \/ \E o \in Objects, heard \in PollAnswers : Judges(o, heard)
    BY <1>1, PollSteps
  <2>2. CASE AsksService
    BY <2>1, <2>2 DEF AsksService, ReadyToAnnounce
  <2>3. ASSUME NEW o \in Objects, NEW heard \in PollAnswers, Judges(o, heard)
        PROVE  ReadyToAnnounce'
    <3>1. o[2] <= list
      BY <2>3 DEF Judges
    <3>2. CASE UNCHANGED <<is_live, is_silent_start, before>>
      BY <2>1, <3>2 DEF ReadyToAnnounce
    <3> QED
      BY <1>a, <2>1, <2>3, <3>1, <3>2, Verdict
  <2> QED
    BY <2>1, <2>2, <2>3
<1>2. CASE Recorded
  <2>1. polling.object \in Objects /\ polling.show \in PollAnswers /\ polling.object[2] <= list
    BY <1>2 DEF Recorded, StreamsTypeOK, NotPolling, PollAnswers, PollPlaced
  <2> QED
    BY <1>2, <1>a, <2>1 DEF Recorded
<1>3. CASE GoLive \/ GoOffAir \/ EntryExpires \/ ReloadBegins \/ ReloadFailed \/ Alert \/ AlertRaises
  BY <1>3 DEF GoLive, GoOffAir, EntryExpires, ReloadBegins, ReloadFailed, Alert, AlertRaises,
              ReadyToAnnounce
<1>4. CASE ReloadEnds \/ Restart
  <2>1. /\ list' = list + 1 /\ before' = before
        /\ \A p \in Objects : p[2] # list' => is_live'[p] = is_live[p]
                                              /\ is_silent_start'[p] = is_silent_start[p]
    BY <1>4 DEF ReloadEnds, Restart
  <2>2. list \in Nat /\ \A p \in Objects : p[2] \in Nat
    BY DEF StreamsTypeOK, Objects, MonitorLists
  <2> QED
    BY <2>1, <2>2 DEF ReadyToAnnounce
<1>5. CASE UNCHANGED streamVars
  BY <1>5 DEF streamVars, ReadyToAnnounce
<1> QED
  BY <1>1, <1>2, <1>3, <1>4, <1>5 DEF StreamsNext

\* A flag remembers the show it was set for.
LEMMA RememberedKept ==
  ASSUME StreamsInv, [StreamsNext]_streamVars
  PROVE  Remembered'
<1> SUFFICES ASSUME NEW p \in Objects, NEW s \in Shows, InUse(p)', s \in {onAir', entry'},
                    announced'[<<p[1], s>>] > 0, s \notin interrupted'
             PROVE  \/ is_live'[p] \/ is_silent_start'[p]
                    \/ polling'.pc = "recording" /\ p = polling'.object
  BY DEF Remembered
<1> USE StreamsAssumption DEF StreamsInv
<1>a. p[1] \in Followers /\ p[2] \in Nat /\ list \in Nat /\ p = <<p[1], p[2]>>
  BY DEF StreamsTypeOK, Objects, MonitorLists
<1>b. s # Offline /\ s # NoAnswer
  BY DEF Shows, Offline, NoAnswer
<1>1. CASE Poll \/ PollAnswered \/ PollBlank
  <2>1. /\ UNCHANGED <<onAir, list, announced>> /\ polling.pc \in {"idle", "asking"}
        /\ interrupted \subseteq interrupted'
        /\ AsksService \/ \E o \in Objects, heard \in PollAnswers : Judges(o, heard)
    BY <1>1, PollSteps
  <2>2. CASE AsksService
    <3>1. InUse(p)
      BY <2>1, <2>2 DEF AsksService, InUse
    <3> QED
      BY <2>1, <2>2, <3>1 DEF AsksService, Remembered
  <2>3. ASSUME NEW o \in Objects, NEW heard \in PollAnswers, Judges(o, heard)
        PROVE  is_live'[p] \/ is_silent_start'[p]
    <3>1. polling' = NotPolling \/ polling'.object = o
      BY <2>3, Verdict DEF Concluded
    <3>2. InUse(p)
      BY <2>1, <2>3, <3>1 DEF Judges, InUse, NotPolling
    <3>3. s \in {onAir, entry} => is_live[p] \/ is_silent_start[p]
      BY <2>1, <3>2 DEF Remembered
    <3>4. s \in {onAir, entry} /\ heard \in Shows
      <4>1. CASE heard = entry /\ entry # NoAnswer /\ entry' = entry /\ interrupted' = interrupted
        BY <1>a, <1>b, <2>1, <4>1 DEF OfflineIsStale, PollAnswers
      <4>2. CASE heard = onAir /\ entry' = onAir /\ interrupted' = interrupted
        BY <2>1, <4>2
      <4>3. CASE heard = NoAnswer /\ entry = NoAnswer /\ entry' = entry /\ onAir \in interrupted' \cup {Offline}
        BY <1>b, <2>1, <4>3
      <4> QED
        BY <2>3, <4>1, <4>2, <4>3 DEF Judges
    <3>5. CASE UNCHANGED <<is_live, is_silent_start>>
      BY <3>3, <3>4, <3>5
    <3>6. CASE Concluded(o, heard)
      BY <3>3, <3>4, <3>6, Conclusion
    <3> QED
      BY <2>3, <3>5, <3>6, Verdict
  <2> QED
    BY <2>1, <2>2, <2>3
<1>2. CASE Recorded
  <2>1. polling.object \in Objects /\ polling.show \in Shows /\ polling.show \in PollAnswers
    BY <1>2 DEF Recorded, StreamsTypeOK, NotPolling, PollAnswers
  <2>2. Concluded(polling.object, polling.show) /\ polling' = NotPolling
        /\ UNCHANGED <<onAir, entry, list, announced, interrupted>>
    BY <1>2 DEF Recorded, Concluded
  <2>3. InUse(p)
    BY <2>2 DEF InUse, NotPolling
  <2>4. is_live[p] \/ is_silent_start[p] \/ p = polling.object
    BY <2>2, <2>3 DEF Remembered
  <2> QED
    BY <2>1, <2>2, <2>4, Conclusion
<1>3. CASE Alert
  <2>1. /\ polling.object \in Objects /\ polling.show \in Shows /\ polling.pc = "alerting"
        /\ polling'.object = polling.object /\ polling'.pc = "recording"
        /\ UNCHANGED <<onAir, entry, list, is_live, is_silent_start, interrupted>>
    BY <1>3 DEF Alert, StreamsTypeOK, NotPolling
  <2>2. InUse(p)
    BY <2>1 DEF InUse
  <2>3. CASE <<p[1], s>> # <<polling.object[1], polling.show>>
    <3>1. announced'[<<p[1], s>>] = announced[<<p[1], s>>]
      BY <1>3, <1>a, <2>3 DEF Alert, StreamsTypeOK
    <3> QED
      BY <2>1, <2>2, <3>1 DEF Remembered
  <2>4. CASE p[1] = polling.object[1] /\ p # polling.object
    <3>1. p[2] = list /\ polling.object[2] # list
      BY <1>a, <2>1, <2>2, <2>4 DEF InUse, Objects
    <3>2. is_silent_start[p]
      BY <1>a, <2>1, <2>4, <3>1 DEF PollPlaced
    <3> QED
      BY <2>1, <3>2
  <2> QED
    BY <2>1, <2>3, <2>4
<1>4. CASE GoLive
  <2>1. s \in {onAir, entry} /\ InUse(p) /\ UNCHANGED <<polling, is_live, is_silent_start>>
    BY <1>4, <1>a DEF GoLive, InUse, NoForesight, StreamsTypeOK
  <2> QED
    BY <1>4, <2>1 DEF GoLive, Remembered
<1>5. CASE GoOffAir \/ EntryExpires \/ ReloadBegins \/ ReloadFailed
  <2>1. s \in {onAir, entry} /\ InUse(p) /\ UNCHANGED <<polling, is_live, is_silent_start>>
    BY <1>5, <1>b DEF GoOffAir, EntryExpires, ReloadBegins, ReloadFailed, InUse
  <2>2. UNCHANGED <<announced, interrupted>>
    BY <1>5 DEF GoOffAir, EntryExpires, ReloadBegins, ReloadFailed
  <2> QED
    BY <2>1, <2>2 DEF Remembered
<1>6. CASE AlertRaises
  BY <1>6 DEF AlertRaises, InUse, NotPolling, Remembered
<1>7. CASE ReloadEnds
  <2>1. /\ list' = list + 1 /\ reloading.saved = members
        /\ UNCHANGED <<onAir, entry, announced, interrupted, polling>>
    BY <1>7 DEF ReloadEnds, PollPlaced
  <2>2. CASE p[2] = list'
    <3>1. StartsSilent(p[1])
      BY <1>a, <2>1 DEF NoForesight, StartsSilent
    <3> QED
      BY <1>7, <2>2, <3>1 DEF ReloadEnds
  <2>3. CASE p[2] # list'
    <3>1. InUse(p) /\ is_live'[p] = is_live[p] /\ is_silent_start'[p] = is_silent_start[p]
      BY <1>7, <2>1, <2>3 DEF ReloadEnds, InUse
    <3> QED
      BY <2>1, <3>1 DEF Remembered
  <2> QED
    BY <2>2, <2>3
<1>8. CASE Restart
  BY <1>8, <1>b DEF Restart
<1>9. CASE UNCHANGED streamVars
  BY <1>9 DEF streamVars, InUse, Remembered
<1> QED
  BY <1>1, <1>2, <1>3, <1>4, <1>5, <1>6, <1>7, <1>8, <1>9 DEF StreamsNext

\* What concludes was announced, or was not there last time.
LEMMA NothingMissed ==
  ASSUME StreamsInv, NEW o \in Objects, NEW heard \in PollAnswers, Concluded(o, heard),
         heard \in Shows =>
           is_live[o] \/ is_silent_start[o] \/ announced[<<o[1], heard>>] > 0
  PROVE  unheard' = unheard
<1>1. Missed(o, heard) = {}
  BY DEF StreamsInv, ReadyToAnnounce, Missed
<1> QED
  BY <1>1 DEF Concluded

\* A show that was missed has its excuse.
LEMMA StreamsToldKept ==
  ASSUME StreamsInv, [StreamsNext]_streamVars
  PROVE  StreamsTold'
<1> USE StreamsAssumption
<1> USE DEF StreamsInv
<1>1. CASE Poll \/ PollAnswered \/ PollBlank
  <2>1. /\ UNCHANGED announced /\ interrupted \subseteq interrupted'
        /\ AsksService \/ \E o \in Objects, heard \in PollAnswers : Judges(o, heard)
    BY <1>1, PollSteps
  <2>2. unheard' = unheard
    <3>1. CASE AsksService
      BY <3>1 DEF AsksService
    <3>2. ASSUME NEW o \in Objects, NEW heard \in PollAnswers, Judges(o, heard)
          PROVE  unheard' = unheard
      BY <3>2, Verdict, NothingMissed
    <3> QED
      BY <2>1, <3>1, <3>2
  <2> QED
    BY <2>1, <2>2 DEF StreamsTold, AlertsExplained, StartsHeard
<1>2. CASE Recorded
  <2>1. polling.object \in Objects /\ polling.show \in PollAnswers
        /\ announced[<<polling.object[1], polling.show>>] > 0
    BY <1>2 DEF Recorded, StreamsTypeOK, NotPolling, PollAnswers, AlertsFirst
  <2>2. unheard' = unheard
    BY <1>2, <2>1, NothingMissed DEF Recorded
  <2> QED
    BY <1>2, <2>2 DEF Recorded, StreamsTold, AlertsExplained, StartsHeard
<1>3. CASE Alert
  <2>1. polling.object \in Objects /\ polling.show \in Shows /\ UNCHANGED <<unheard, interrupted>>
    BY <1>3 DEF Alert, StreamsTypeOK, NotPolling
  <2>2. ASSUME NEW m \in Followers, NEW s \in Shows
        PROVE  announced'[<<m, s>>] <= 1 \/ s \in interrupted
    <3>1. CASE <<m, s>> = <<polling.object[1], polling.show>>
      BY <1>3, <2>1, <3>1 DEF Alert, AlertsFirst, StreamsTypeOK, Objects
    <3>2. CASE <<m, s>> # <<polling.object[1], polling.show>>
      BY <1>3, <3>2 DEF Alert, StreamsTypeOK, StreamsTold, AlertsExplained
    <3> QED
      BY <3>1, <3>2
  <2> QED
    BY <2>1, <2>2 DEF StreamsTold, AlertsExplained, StartsHeard
<1>4. CASE \/ GoLive \/ GoOffAir \/ EntryExpires \/ ReloadBegins \/ ReloadFailed \/ AlertRaises
           \/ ReloadEnds \/ Restart
  BY <1>4
  DEF GoLive, GoOffAir, EntryExpires, ReloadBegins, ReloadFailed, AlertRaises, ReloadEnds,
              Restart, StreamsTold, AlertsExplained, StartsHeard
<1>5. CASE UNCHANGED streamVars
  BY <1>5 DEF streamVars, StreamsTold, AlertsExplained, StartsHeard
<1> QED
  BY <1>1, <1>2, <1>3, <1>4, <1>5 DEF StreamsNext

-----------------------------------------------------------------------------
(* The theorems.                                                           *)

\* At the start nothing is on the air.
LEMMA StreamsInitInv == StreamsInit => StreamsInv
<1> SUFFICES ASSUME StreamsInit PROVE StreamsInv
  OBVIOUS
<1> USE StreamsAssumption DEF StreamsInit
<1>1. StreamsTypeOK
  BY DEF StreamsTypeOK, PollAnswers, NoAnswer, Offline, MonitorLists, NotReloading
<1>2. NoForesight /\ OfflineIsStale
  BY DEF NoForesight, OfflineIsStale, NotPolling, NoAnswer, Offline
<1>3. PollPlaced /\ AlertsFirst
  BY DEF PollPlaced, AlertsFirst, NotPolling, NotReloading
<1>4. Remembered
  BY DEF Remembered, Objects
<1>5. ReadyToAnnounce /\ StreamsTold
  BY DEF ReadyToAnnounce, StreamsTold, AlertsExplained, StartsHeard
<1> QED
  BY <1>1, <1>2, <1>3, <1>4, <1>5 DEF StreamsInv

\* Every step keeps the invariant.
LEMMA StreamsInvKept == StreamsInv /\ [StreamsNext]_streamVars => StreamsInv'
<1> SUFFICES ASSUME StreamsInv, [StreamsNext]_streamVars PROVE StreamsInv'
  OBVIOUS
<1>1. StreamsTypeOK'
  BY StreamsTyped DEF StreamsInv
<1>2. NoForesight' /\ OfflineIsStale' /\ PollPlaced' /\ AlertsFirst'
  BY NoForesightKept, OfflineIsStaleKept, PollPlacedKept, AlertsFirstKept
<1>3. Remembered' /\ ReadyToAnnounce' /\ StreamsTold'
  BY RememberedKept, ReadyToAnnounceKept, StreamsToldKept
<1> QED
  BY <1>1, <1>2, <1>3 DEF StreamsInv

\* Every state of BaseStreamMonitor's objects, of the cache's entry and of the
\* reload satisfies the invariant: each object in use remembers what was announced.
THEOREM StreamsInvariant == StreamsSpec => []StreamsInv
<1> QED
  BY StreamsInitInv, StreamsInvKept, PTL DEF StreamsSpec

\* A show is announced at most once for a monitor, whatever reloads come between
\* (monitor_manager.py:71-112), unless a poll failed or the process restarted during
\* it; and none that begins between two polls of an object is missed.
THEOREM StreamsAlwaysTold == StreamsSpec => []StreamsTold
<1>1. StreamsInv => StreamsTold
  BY DEF StreamsInv
<1> QED
  BY <1>1, StreamsInvariant, PTL

-----------------------------------------------------------------------------
(* The parts that run together (MCParts), in any of their scenes.          *)

\* The session starts as its module says, or at rest.
LEMMA SessionRests ==
  ASSUME SessionAtRest
  PROVE  SessionInv
<1>1. storage \in Sessions /\ Whole(storage, avatarless, crossed)
  BY NoSessionWhole DEF SessionAtRest
<1>2. SessionShape
  <2>1. get \in [Endpoints -> Gets]
    BY TokenFacts DEF SessionAtRest, Gets
  <2>2. refreshes \in [Grants -> 0 .. MaxRefreshes]
    BY SessionAssumption DEF SessionAtRest
  <2>3. hydration \in [Hydrations -> HydrationCalls] /\ refresher \in RefreshCalls
    BY NoSessionWhole DEF SessionAtRest, HydrationCalls, Idle
  <2> QED
    BY <1>1, <2>1, <2>2, <2>3, TokenFacts DEF SessionAtRest, SessionShape
<1>3. SessionsWhole
  BY <1>1, NoSessionWhole DEF SessionsWhole, SessionAtRest
<1>4. CalmKept
  BY DEF CalmKept, SessionAtRest
<1>5. MemoryFits /\ UserFits
  BY DEF MemoryFits, UserFits, Fits, SessionAtRest
<1>6. ProfileGetFits /\ PostsCounted
  BY DEF ProfileGetFits, PostsCounted, SessionAtRest, Endpoints
<1> QED
  BY <1>2, <1>3, <1>4, <1>5, <1>6 DEF SessionInv

\* So it has its invariant in any scene.
LEMMA SessionStartsOrRests == SessionStart => SessionInv
BY SessionStarts, SessionRests DEF SessionStart

\* Every part starts as its module says, the session aside.
LEMMA PartsStart ==
  ASSUME PartsInit
  PROVE  /\ ApiInit /\ SessionStart /\ QueryInit /\ SiteInit /\ OfflineInit /\ LocaleInit
         /\ TelemetryInit /\ OverlayInit /\ FormInit /\ PickerInit /\ ControlsInit
         /\ FeedsInit /\ PlansInit /\ StreamsInit /\ PricesInit
BY Zenon DEF PartsInit, ControlsStart, MonitorsStart

\* A step of the parts is a step of each of them, or leaves it as it is.
LEMMA PartsSteps ==
  ASSUME [PartsNext]_partsVars
  PROVE  /\ [ApiNext]_apiVars /\ [SessionNext]_sessionVars /\ [QueryNext]_queryVars
         /\ [SiteNext]_siteVars /\ [OfflineNext]_offlineVars /\ [LocaleNext]_localeVars
         /\ [TelemetryNext]_telemetryVars /\ [OverlayNext]_overlayVars
         /\ [FormNext]_formVars /\ [PickerNext]_pickerVars /\ [ControlsNext]_controlVars
         /\ [FeedsNext]_feedVars /\ [PlansNext]_planVars
         /\ [StreamsNext]_streamVars /\ [PricesNext]_priceVars
<1>1. CASE UNCHANGED partsVars
  BY <1>1 DEF partsVars, monitorVars
<1>2. /\ (\E s \in DOMAIN Casts : ApiScene(s)) => ApiNext
      /\ (\E s \in {"reload", "callback"} : SessionScene(s)) => SessionNext
      /\ (\E s \in {"one view", "form", "two views"} : QueryScene(s)) => QueryNext
      /\ (\E s \in {"tab", "worker"} : OfflineScene(s)) => OfflineNext
      /\ TelemetryScene => TelemetryNext
      /\ (\E s \in {"toasts", "surfaces"} : OverlayScene(s)) => OverlayNext
      /\ (\E s \in Routes : FormScene(s)) => FormNext
      /\ PickerScene => PickerNext
      /\ PlansScene => PlansNext
  BY Zenon DEF ApiScene, SessionScene, QueryScene, OfflineScene, TelemetryScene, OverlayScene,
               FormScene, PickerScene, PlansScene
<1>3. /\ (\E s \in {"drop-down", "pager"} : ControlsScene(s)) => ControlsNext
      /\ (\E s \in {"table", "gallery"} : FeedsScene(s)) => FeedsNext
      /\ (\E s \in {"streamer", "price"} : MonitorScene(s)) =>
           \/ StreamsNext /\ UNCHANGED priceVars
           \/ PricesNext /\ UNCHANGED streamVars
  BY DEF ControlsScene, FeedsScene, MonitorScene, ControlsNext, FeedsNext
<1>4. CASE PartsNext
  <2>1. [ApiNext]_apiVars
    BY <1>2, <1>3, <1>4 DEF PartsNext
  <2>2. [SessionNext]_sessionVars
    BY <1>2, <1>3, <1>4 DEF PartsNext
  <2>3. [QueryNext]_queryVars
    BY <1>2, <1>3, <1>4 DEF PartsNext
  <2>4. [SiteNext]_siteVars
    BY <1>2, <1>3, <1>4 DEF PartsNext
  <2>5. [OfflineNext]_offlineVars
    BY <1>2, <1>3, <1>4 DEF PartsNext
  <2>6. [LocaleNext]_localeVars
    BY <1>2, <1>3, <1>4 DEF PartsNext
  <2>7. [TelemetryNext]_telemetryVars
    BY <1>2, <1>3, <1>4 DEF PartsNext
  <2>8. [OverlayNext]_overlayVars
    BY <1>2, <1>3, <1>4 DEF PartsNext
  <2>9. [FormNext]_formVars
    BY <1>2, <1>3, <1>4 DEF PartsNext
  <2>10. [PickerNext]_pickerVars
    BY <1>2, <1>3, <1>4 DEF PartsNext
  <2>11. [ControlsNext]_controlVars
    BY <1>2, <1>3, <1>4 DEF PartsNext
  <2>12. [FeedsNext]_feedVars
    BY <1>2, <1>3, <1>4 DEF PartsNext
  <2>13. [PlansNext]_planVars
    BY <1>2, <1>3, <1>4 DEF PartsNext
  <2>14. [StreamsNext]_streamVars /\ [PricesNext]_priceVars
    BY <1>3, <1>4 DEF PartsNext, monitorVars
  <2> QED
    BY <2>1, <2>2, <2>3, <2>4, <2>5, <2>6, <2>7, <2>8, <2>9, <2>10, <2>11, <2>12, <2>13, <2>14
<1> QED
  BY <1>1, <1>4

\* The scenes of the session.
SessionMoves == scene \in {"reload", "callback"}

\* Every part of a run together behaves as its own module says, with the fairness of that
\* module, the session in its own scenes: what holds of the modules alone holds of them there.
THEOREM PartsBehaveAlone ==
  PartsSpec =>
    /\ ApiSpec /\ QuerySpec /\ SiteSpec /\ OfflineSpec /\ LocaleSpec /\ TelemetrySpec
    /\ OverlaySpec /\ FormSpec /\ PickerSpec /\ ControlsSpec /\ FeedsSpec
    /\ PlansSpec /\ StreamsSpec /\ PricesSpec
    /\ SessionMoves => SessionSpec
<1>1. PartsFairness =>
        /\ ApiFairness /\ QueryFairness /\ OfflineFairness /\ LocaleFairness
        /\ TelemetryFairness /\ OverlayFairness /\ FormFairness /\ SessionFairness
  BY PTL DEF PartsFairness
<1>2. PartsInit /\ SessionMoves => SessionInit
  <2>1. PartsInit => SessionStart
    BY PartsStart
  <2>2. SessionStart /\ SessionMoves => SessionInit
    BY DEF SessionStart, SessionMoves
  <2> QED
    BY <2>1, <2>2
<1> QED
  BY <1>1, <1>2, PartsStart, PartsSteps, PTL
  DEF PartsSpec, SessionSpec, ApiSpec, QuerySpec, SiteSpec, OfflineSpec, LocaleSpec, TelemetrySpec,
      OverlaySpec, FormSpec, PickerSpec, ControlsSpec, FeedsSpec, PlansSpec, StreamsSpec,
      PricesSpec

\* The session keeps its invariant, in its own scenes and at rest in the others.
LEMMA PartsKeepSession == PartsSpec => []SessionInv
<1>1. PartsInit => SessionInv
  BY PartsStart, SessionStartsOrRests
<1>2. SessionInv /\ [PartsNext]_partsVars => SessionInv'
  BY PartsSteps, SessionStep
<1> QED
  BY <1>1, <1>2, PTL DEF PartsSpec

\* The console, the plans and the monitors keep their types, in every scene.
THEOREM PartsAlwaysTyped == PartsSpec => []PartsTypeOK
<1>1. ClientInv => ApiTypeOK
  BY DEF ClientInv
<1>2. SessionInv => SessionTypeOK
  BY SessionFollows
<1>3. StreamsInv => StreamsTypeOK
  BY DEF StreamsInv
<1>4. PricesInv => PricesTypeOK
  BY DEF PricesInv
<1>5. ApiTypeOK /\ SessionTypeOK /\ QueryTypeOK /\ SiteTypeOK /\ OfflineTypeOK /\ LocaleTypeOK
      /\ TelemetryTypeOK /\ OverlayTypeOK /\ FormTypeOK /\ PickerTypeOK /\ ControlsTypeOK
      /\ FeedsTypeOK /\ PlansTypeOK /\ StreamsTypeOK /\ PricesTypeOK
      => PartsTypeOK
  BY Zenon DEF PartsTypeOK
<1> QED
  BY <1>1, <1>2, <1>3, <1>4, <1>5, PartsBehaveAlone, PartsKeepSession,
     ClientInvariant, ViewsStayTruthful, SiteAlwaysTruthful, PagesAlwaysServed,
     TextsAlwaysFollowChoice, ReportsStayTruthful, SurfacesAlwaysOrderly,
     FormsAlwaysTruthful, PickerLeadsWhereItSays, ControlsAlwaysTyped, FeedsAlwaysShown,
     PlansAlwaysTyped, StreamsInvariant, PricesInvariant, PTL

\* What the parts promise.
PartsPromise ==
  /\ OneAtATime /\ AppliedOnce /\ BreakerCounts /\ SessionWhole
  /\ ViewsTruthful /\ SiteTruthful /\ PagesServed /\ TextsFollowChoice /\ ReportsTruthful
  /\ SurfacesOrderly /\ FormsTruthful /\ PickerLeadsThere /\ HighlightFollowsOption
  /\ PagesAccounted /\ FeedsShown /\ QuotaExplained /\ StreamsTold /\ PricesTold
  /\ MastersKnown => PlansAsPromised

\* What each part promises holds when they run together; the promises of the plans hold if
\* the web knows no master guild that the bot does not know.
THEOREM PartsKeepPromises == PartsSpec => []PartsPromise
<1>1. PartsSpec => []SessionWhole
  <2>1. SessionInv => SessionWhole
    BY SessionFollows
  <2> QED
    BY <2>1, PartsKeepSession, PTL
<1>2. PlansSpec => [](MastersKnown => PlansAsPromised)
  <2>1. PromiseInv => (MastersKnown => PlansAsPromised)
    BY LimitsFollow, FeaturesFollow, ExportFollows DEF PlansAsPromised
  <2> QED
    BY <2>1, PromiseStart, PromiseStep, PTL DEF PlansSpec
<1>3. /\ OneAtATime /\ AppliedOnce /\ BreakerCounts /\ SessionWhole
      /\ ViewsTruthful /\ SiteTruthful /\ PagesServed /\ TextsFollowChoice /\ ReportsTruthful
      /\ SurfacesOrderly /\ FormsTruthful /\ PickerLeadsThere /\ HighlightFollowsOption
      /\ PagesAccounted /\ FeedsShown /\ QuotaExplained /\ StreamsTold /\ PricesTold
      /\ (MastersKnown => PlansAsPromised)
      => PartsPromise
  BY Zenon DEF PartsPromise
<1> QED
  BY <1>1, <1>2, <1>3, PartsBehaveAlone, OneAtATimeAlways, AppliedOnceAlways,
     BreakerCountsAlways, ViewsStayTruthful, SiteAlwaysTruthful, PagesAlwaysServed,
     TextsAlwaysFollowChoice, ReportsStayTruthful, SurfacesAlwaysOrderly,
     FormsAlwaysTruthful, PickerLeadsWhereItSays, HighlightAlwaysFollows,
     PagesAlwaysAccounted, FeedsAlwaysShown, QuotaAlwaysExplained, StreamsAlwaysTold,
     PricesAlwaysTold, PTL
=============================================================================
