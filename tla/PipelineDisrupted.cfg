CONSTANTS
  f1 = f1  f2 = f2
  m1 = m1  m2 = m2  m3 = m3
  s1 = s1  s2 = s2
  i1 = i1  i2 = i2  i3 = i3
  Feeds = {f1}
  Monitors = {m1, m2}
  Spaces = {s1, s2}
  Items = {i1}
  FeedOf <- PairFeedOf
  SpaceOf <- PairSpaceOf
  Carries <- PairCarries
  Nameless = {}
  Checkers = {c1}
  Syncers = {}
  MaxPolls = 1
  Disruptions = {"fetch", "dedup", "deliver", "mark", "abort", "crash", "reset", "wipe", "retention"}
  MaxDisruptions = 2
  MaxEpoch = 2
SPECIFICATION FairSpec
INVARIANTS  DuplicatesExplained 
PROPERTY EventuallyRecorded
