------------------------------ MODULE WebFeeds ------------------------------
(***************************************************************************)
(* Feeds as the console shows and creates them: the table of a guild's     *)
(* feeds (FeedListTable.tsx), the way of a saved form to a monitor of the  *)
(* bot (guild_feeds_router.py, monitor_factory.py), and the sample messages*)
(* of the start page and the feeds page (InteractiveEmbedPreview.tsx,      *)
(* FeedEmbedPreview.tsx, DiscordEmbed.tsx).                                *)
(*                                                                         *)
(* A text is one word; a word found within another is not modelled.  The   *)
(* request of the form is in WebForms, the cached list in WebQueries.      *)
(***************************************************************************)
EXTENDS Integers, Sequences, FiniteSets

CONSTANTS
  TargetTexts,    \* what is typed for the account or address to follow
  ChannelTexts,   \* ids of channels, all digits; other texts are ""
  SearchTexts,    \* what is typed into the search box; " " is blank, "" empty
  MaxSaved        \* bound: forms that are saved

\* A field nothing was typed into.
NoText == ""

ASSUME FeedsAssumption ==
  /\ NoText \in ChannelTexts \cap SearchTexts /\ NoText \notin TargetTexts
  /\ MaxSaved \in Nat

VARIABLES
  monitorRows,   \* the guild's rows of the table monitors, each told "activated"
  feedTable,     \* FeedListTable: feeds, loading, search
  gallery        \* the start page's tab list: selected platform, focus

feedVars == <<monitorRows, feedTable, gallery>>

-----------------------------------------------------------------------------
(* From the form to a monitor.                                             *)

FEED_TYPE_OPTIONS == {"youtube", "twitch", "kick", "epic_games", "steam", "tmdb", "rss"}

FeedRows == [platform : FEED_TYPE_OPTIONS, target : TargetTexts, channel : ChannelTexts]

\* The registry of MonitorFactory.
registered_types ==
  {"youtube", "rss", "epic_games", "steam_free", "gog_free", "steam_news", "movie",
   "tv_series", "twitch", "kick", "crypto", "github"}

\* The row of a saved form holds its target as the name, and nothing else of it:
\* extra_settings has a message, a colour and two times.
SettingsOfRow(row) == [name |-> row.target]

\* Where a monitor reads what to poll: one of its settings; the game monitor polls
\* one catalogue for all.
YouTubeKeys == {"channel_id"}
RSSKeys == {"rss_url", "feed_url", "url"}
StreamKeys == {"username", "name"}

HasSource(row) ==
  LET known == DOMAIN SettingsOfRow(row)
  IN \/ row.platform = "epic_games"
     \/ row.platform = "youtube" /\ YouTubeKeys \cap known # {}
     \/ row.platform = "rss" /\ RSSKeys \cap known # {}
     \/ row.platform \in {"twitch", "kick"} /\ StreamKeys \cap known # {}

\* sync_with_db: a monitor for each row whose type is registered; without a source
\* it fetches nothing.
Polled(row) == row.platform \in registered_types /\ HasSource(row)

\* The form is saved: the row, the reload of the monitors, and the toast "activated";
\* equal rows are one.  The list on the page stays as it was fetched.
SaveFeed(row) ==
  /\ Cardinality(monitorRows) < MaxSaved /\ monitorRows' = monitorRows \cup {row}
  /\ UNCHANGED <<feedTable, gallery>>

-----------------------------------------------------------------------------
(* The table.                                                              *)

\* get_guild_feeds: the name is the target, and the title where none is set.
get_guild_feeds ==
  {[target_id |-> r.target, target_name |-> r.target, platform |-> r.platform,
    destination_channel_id |-> r.channel] : r \in monitorRows}

\* Mutant: the table is searched by target alone.
MatchesTarget(feed, text) ==
  text \in {NoText, " ", feed.target_id, feed.target_name}

\* The filter; a blank search is none.
MatchesSearch(feed, text) ==
  \/ text \in {NoText, " "}
  \/ text \in {feed.target_id, feed.target_name, feed.platform, feed.destination_channel_id}

filteredFeeds == {f \in feedTable.feeds : MatchesSearch(f, feedTable.search)}

\* The cells of a row that say what it follows and where it tells of it.
CellsOf(feed) == {feed.platform, feed.target_name, feed.destination_channel_id}

\* The body of the card.
TableBody ==
  CASE feedTable.loading -> "skeleton"
    [] ~feedTable.loading /\ filteredFeeds = {} ->
         IF feedTable.search # NoText THEN "no match" ELSE "no monitors"
    [] OTHER -> "rows"

\* The list is fetched and arrives, or the fetch fails: the page ignores the error.
LoadList ==
  /\ ~feedTable.loading /\ feedTable' = [feedTable EXCEPT !.loading = TRUE]
  /\ UNCHANGED <<monitorRows, gallery>>

FeedsArrive ==
  /\ feedTable.loading
  /\ feedTable' = [feedTable EXCEPT !.loading = FALSE, !.feeds = get_guild_feeds]
  /\ UNCHANGED <<monitorRows, gallery>>

FeedsRefused ==
  /\ feedTable.loading /\ feedTable' = [feedTable EXCEPT !.loading = FALSE]
  /\ UNCHANGED <<monitorRows, gallery>>

TypeSearch(text) ==
  /\ text # feedTable.search /\ feedTable' = [feedTable EXCEPT !.search = text]
  /\ UNCHANGED <<monitorRows, gallery>>

-----------------------------------------------------------------------------
(* Sample messages.                                                        *)

PREVIEW_PLATFORMS == <<"youtube", "twitch", "kick", "epic", "steam", "tmdb", "github", "rss">>
PreviewPlatforms == {PREVIEW_PLATFORMS[i] : i \in DOMAIN PREVIEW_PLATFORMS}

\* The parts each sample has, besides the title, the channel and the colour.
getEmbedMocks(platform) ==
  {"role", "alert", "link", "icon", "lines", "footerText"}
    \cup (IF platform = "github" THEN {} ELSE {"image"})
    \cup (IF platform = "tmdb" THEN {"buttons"} ELSE {"accessory"})
    \cup (IF platform \in {"youtube", "twitch", "kick", "github", "rss"} THEN {"author"}
          ELSE {})
    \cup (IF platform \in {"twitch", "kick", "github"} THEN {"description"} ELSE {})

\* The feeds page's own sample, for every form.
FeedEmbedPreview ==
  {"author", "authorIcon", "description", "thumbnail", "fields", "footer"}

\* Mutant: the buttons are a part of the section that holds the accessory.
ButtonsInSection(parts) ==
  (parts \cap {"role", "alert", "link", "description", "author", "lines", "icon", "image",
               "accessory", "footerText"})
    \cup (IF "accessory" \in parts THEN parts \cap {"buttons"} ELSE {})

\* The layout of an icon, lines, an accessory or an image: without a thumbnail, the
\* icon of the author or a footer of its own, and with fields only in place of lines.
ComponentLayout(parts) ==
  (parts \ {"thumbnail", "authorIcon", "footer", "fields"})
    \cup (IF "lines" \in parts THEN {} ELSE parts \cap {"fields"})

\* The layout of the other messages.
ClassicLayout(parts) ==
  (parts \ {"icon", "lines", "accessory", "buttons", "footerText"})
    \cup (IF "footer" \in parts THEN {} ELSE parts \cap {"footerText"})

isComponentV2(parts) == parts \cap {"icon", "lines", "accessory", "image"} # {}

\* What a message shows of its parts.
DiscordEmbed(parts) ==
  IF isComponentV2(parts) THEN ComponentLayout(parts) ELSE ClassicLayout(parts)

\* A click on a tab gives it the focus (in some browsers it does not).
SelectPlatform(p) ==
  /\ gallery' \in {[selected |-> p, focus |-> p], [selected |-> p, focus |-> "none"]}
  /\ UNCHANGED <<monitorRows, feedTable>>

\* Mutant: an arrow moves the focus alone.
FocusNeighbour(step) ==
  LET n == Len(PREVIEW_PLATFORMS)
      at == CHOOSE i \in 1 .. n : PREVIEW_PLATFORMS[i] = gallery.focus
      to == PREVIEW_PLATFORMS[1 + ((at - 1 + step + n) % n)]
  IN /\ gallery.focus # "none" /\ gallery' = [gallery EXCEPT !.focus = to]
     /\ UNCHANGED <<monitorRows, feedTable>>

\* An arrow on a tab selects its neighbour and gives it the focus, around the list.
ArrowKey(step) ==
  LET n == Len(PREVIEW_PLATFORMS)
      at == CHOOSE i \in 1 .. n : PREVIEW_PLATFORMS[i] = gallery.focus
      to == PREVIEW_PLATFORMS[1 + ((at - 1 + step + n) % n)]
  IN /\ gallery.focus # "none" /\ gallery' = [selected |-> to, focus |-> to]
     /\ UNCHANGED <<monitorRows, feedTable>>

\* The focus leaves the list, or enters it at the tab with tabIndex 0.
MoveTabFocus ==
  /\ gallery' = [gallery EXCEPT !.focus = IF gallery.focus = "none" THEN gallery.selected ELSE "none"]
  /\ UNCHANGED <<monitorRows, feedTable>>

-----------------------------------------------------------------------------
FeedsInit ==
  /\ monitorRows = {}
  /\ feedTable = [feeds |-> {}, loading |-> TRUE, search |-> NoText]
  /\ gallery = [selected |-> "youtube", focus |-> "none"]

FeedListNext ==
  \/ LoadList \/ FeedsArrive \/ FeedsRefused
  \/ \E row \in FeedRows : SaveFeed(row)
  \/ \E text \in SearchTexts : TypeSearch(text)

GalleryNext ==
  \/ MoveTabFocus \/ ArrowKey(1) \/ ArrowKey(-1)
  \/ \E p \in PreviewPlatforms : SelectPlatform(p)

FeedsNext == FeedListNext \/ GalleryNext

FeedsSpec == FeedsInit /\ [][FeedsNext]_feedVars

-----------------------------------------------------------------------------
(* Properties.                                                             *)

FeedsTypeOK ==
  /\ monitorRows \subseteq FeedRows
  /\ feedTable.loading \in BOOLEAN /\ feedTable.search \in SearchTexts
  /\ \A f \in feedTable.feeds :
       [platform |-> f.platform, target |-> f.target_id,
        channel |-> f.destination_channel_id] \in FeedRows
  /\ gallery.selected \in PreviewPlatforms /\ gallery.focus \in PreviewPlatforms \cup {"none"}

\* What a row shows of its feed finds it: searching the table for the text of one of
\* these cells never answers that no monitor matches.
FoundByWhatItShows ==
  \A f \in feedTable.feeds :
    ~feedTable.loading /\ feedTable.search \in CellsOf(f) =>
      TableBody = "rows" /\ f \in filteredFeeds

\* The message that is shown for the tab in use shows everything its sample has, and
\* so does the one of the feeds page, though the two layouts each leave parts out;
\* a reader with the keyboard stands on the tab whose message is shown.
EverySampleShown ==
  /\ getEmbedMocks(gallery.selected) \subseteq DiscordEmbed(getEmbedMocks(gallery.selected))
  /\ FeedEmbedPreview \subseteq DiscordEmbed(FeedEmbedPreview)
FocusOnShownPlatform == gallery.focus \in {"none", gallery.selected}

\* Feeds are shown as they are: found by what their rows show, sampled in full, with
\* the keyboard where the sample is.
FeedsShown == FoundByWhatItShows /\ EverySampleShown /\ FocusOnShownPlatform

\* A feed of which the console said "activated successfully" (toasts.ts:4) is polled
\* by the bot.
ActivatedArePolled == \A row \in monitorRows : Polled(row)
=============================================================================
