CONSTANTS
  N = 2
  W = 8
  Values = {v1, v2}
  Regions = {r1}
  Garbage = {0, 1, 2, 3, 4, 5, 6, 7}
  Null = Null
  NoItem = NoItem
  Uninit = Uninit
  Torn = Torn
  Zeroed = Zeroed
  Default = Default
SPECIFICATION FairSpec
INVARIANT RaceFree
INVARIANT Scrubbed
PROPERTY ImplementsQueue
