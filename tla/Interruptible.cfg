SPECIFICATION FairSpec
CONSTANTS
  t1 = t1
  t2 = t2
  k1 = k1
  k2 = k2
  k3 = k3
  Tids = {t1, t2}
  Keepers = {t1}
  Tokens = {k1, k2, k3}
  NoToken = NoToken
  NoThread = NoThread
INVARIANTS TypeOK RegistryFindsClaimed
PROPERTIES CancelNotMissed ClaimedOnce AbsSpec CancelledSyncEnds
CHECK_DEADLOCK FALSE
