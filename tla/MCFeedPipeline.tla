---------------------------- MODULE MCFeedPipeline ----------------------------
(***************************************************************************)
(* Layouts of guilds, monitors and feeds for checking FeedPipeline.        *)
(***************************************************************************)
EXTENDS FeedPipeline, TLC

CONSTANTS f1, f2, m1, m2, m3, s1, s2, i1, i2, i3

\* Two guilds share a feed; the first guild also watches a feed of its own.
SharedFeedOf  == (m1 :> f1) @@ (m2 :> f1) @@ (m3 :> f2)
SharedSpaceOf == (m1 :> s1) @@ (m2 :> s2) @@ (m3 :> s1)
SharedCarries == (f1 :> {i1, i2}) @@ (f2 :> {i3})

\* One guild, one feed.
SingleFeedOf  == (m1 :> f1)
SingleSpaceOf == (m1 :> s1)
SingleCarries == (f1 :> Items)

\* Two guilds on one feed.
PairFeedOf  == (m1 :> f1) @@ (m2 :> f1)
PairSpaceOf == (m1 :> s1) @@ (m2 :> s2)
PairCarries == (f1 :> Items)

\* One guild with two monitors whose feeds carry the same items.
CrossFeedOf  == (m1 :> f1) @@ (m2 :> f2)
CrossSpaceOf == (m1 :> s1) @@ (m2 :> s1)
CrossCarries == (f1 :> Items) @@ (f2 :> Items)

\* One guild with two monitors of one feed, say for two channels.
TwinFeedOf  == (m1 :> f1) @@ (m2 :> f1)
TwinSpaceOf == (m1 :> s1) @@ (m2 :> s1)
TwinCarries == (f1 :> Items)
===============================================================================
