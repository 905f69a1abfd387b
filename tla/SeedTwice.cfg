CONSTANTS
  f1 = f1  f2 = f2
  m1 = m1  m2 = m2  m3 = m3
  s1 = s1  s2 = s2
  i1 = i1  i2 = i2  i3 = i3
  Feeds = {f1}
  Monitors = {m1}
  Spaces = {s1}
  Items = {i1}
  FeedOf <- SingleFeedOf
  SpaceOf <- SingleSpaceOf
  Carries <- SingleCarries
  Nameless = {}
  Checkers = {}
  Syncers = {y1}
  MaxPolls = 1
  Disruptions = {}
  MaxDisruptions = 0
  MaxEpoch = 3
SPECIFICATION Spec
INVARIANT SeedsOnce
