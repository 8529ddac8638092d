\* By hand: the curve stream of a backfill ends at a ceiling it read before the factory was
\* done. TLC finds BackfillReachesHead violated.
SPECIFICATION FairSpec
CONSTANTS
  Configs <- AsIntended
  FirstCheckpoints <- FreshOrBehind
  FirstHead = 4
  FirstLaunch = 2
  NearHead = 1
  Slack = 2
  Multiplier = 3
  Window = 2
  MaxHead = 10
  MaxFaults = 1
  MayStall = FALSE
INVARIANT
  BackfillReachesHead
CHECK_DEADLOCK FALSE
