CONSTANTS
  N = 2
  W = 4
  Values = {v1, v2}
  Regions = {r1, r2}
  Garbage = {1, 2}
  Null = Null
  NoItem = NoItem
  Uninit = Uninit
  Torn = Torn
  Zeroed = Zeroed
  Default = Default
SPECIFICATION RingSpec
INVARIANT PeekRaceFree
PROPERTY ImplementsRing
PROPERTY BufferPublishedOnce
