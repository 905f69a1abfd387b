CONSTANTS
  Sessions = {s1}
  Tier <- MCTier
  Changes = {3}
  Languages = {en, hu}
  DefaultLanguage = en
  None = None
  Handlers = {h1}
  Reloaders = {r1}
  Boot = boot
  PoolSize = 3
  Troubles = {"error"}
  MaxTroubles = 1
SPECIFICATION Spec
INVARIANT LoggedMeansGranted
CHECK_DEADLOCK FALSE
