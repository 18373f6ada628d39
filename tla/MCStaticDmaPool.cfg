CONSTANTS
  N = 2
  Threads = {t1, t2, t3}
  Initializers = {t1}
  TagMod = 9
  GenMod = 5
  MaxAllocs = 3
SPECIFICATION FairSpec
INVARIANT SlotsPartitioned
INVARIANT OnlyLiveHandlesFree
INVARIANT HandedOutClean
PROPERTY CallsReturn
