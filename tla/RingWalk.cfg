\* Small rings; rings of 32 and 33 nodes, where hop limit 15 reaches everyone; 34,
\* where the code and the documents differ; 36, too large by either.
CONSTANTS
  Sizes = {2, 3, 4, 5, 6, 7, 32, 33, 34, 36}
  MaxHop = 15
  Broadcast = 255
SPECIFICATION FairSpec
INVARIANTS
  TypeOK
  ShortestPath
  DroppedOnlyWhenFar
PROPERTIES
  Arrives
  KeepsPromise
CHECK_DEADLOCK FALSE
