SPECIFICATION FairSpec
CONSTANTS
  Request = {r1, r2}
  Key = {all, lot}
  FullKey = all
  Slots = 1
  MaxPrepared = 1
  MaxUnchecked = 1
  MaxTime = 2
  MaxInserts = 1
  MaxUpdates = 1
  MaxFaults = 1
INVARIANT ResponseMatches
INVARIANT CpuBounded
INVARIANT UsableIsRecent
PROPERTY CacheConverges
