\* Two neighbours with two heartbeats each, one forget(); silence of two and
\* three ticks with a timeout of one.
CONSTANTS
  Neighbors = {n1, n2}
  Never = Never
  Timeout = 1
  MaxTime = 3
  MaxBeats = 2
  MaxForgets = 1
SPECIFICATION FairSpec
INVARIANTS
  TypeOK
  EveryJoinAnswered
  CheckIsExact
PROPERTY
  SilenceEnds
CHECK_DEADLOCK FALSE
