CONSTANTS
  c1 = c1  c2 = c2
  Channels = {c1, c2}
  Workers = {w1}
  Consumer = consumer
  Runs = {r1}
  Monitors = {m1}
  Items = {i1}
  Old = {}
  Sizes = {0, 2}
  Targets <- MCTargets
  Capacity = 1
  Failures = {}
  MaxFailures = 0
  MaxPushes = 2
SPECIFICATION Spec
PROPERTY NotPushedAgain
