CONSTANTS
  Sessions = {s1}
  Tier <- MCTier
  Changes = {3}
  Languages = {en, hu}
  DefaultLanguage = en
  None = None
  Handlers = {h1, h2}
  Reloaders = {r1}
  Boot = boot
  PoolSize = 3
  Troubles = {"error", "crash", "evict", "leave", "duplicate", "settings", "sync"}
  MaxTroubles = 1
SPECIFICATION FairSpec
INVARIANTS PaymentsHonoured GrantedOnce 
CHECK_DEADLOCK FALSE
 
