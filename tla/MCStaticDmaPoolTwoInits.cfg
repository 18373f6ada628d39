CONSTANTS
  N = 2
  Threads = {t1, t2}
  Initializers = {t1, t2}
  TagMod = 9
  GenMod = 5
  MaxAllocs = 4
SPECIFICATION Spec
INVARIANT InitOneShot
