\* Node 1 of four, every order of joins, deaths and HELLO paths.
CONSTANTS
  Me = 1
  Others = {2, 3, 4}
  Broadcast = 255
  HelloPaths <- MCHelloPaths
SPECIFICATION Spec
INVARIANTS
  TypeOK
  RingHasNoDuplicates
  GoneIsUnreachable
  RoutesFollowRing
