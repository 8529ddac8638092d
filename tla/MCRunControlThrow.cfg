\* By hand: a processor throws in a backfill: its loop is gone and the process stays. TLC
\* finds BackfillStops violated.
SPECIFICATION FairSpec
CONSTANTS
  Configs <- AsIntended
  FirstCheckpoints <- FreshOrBehind
  FirstHead = 4
  FirstLaunch = 2
  NearHead = 1
  Slack = 2
  Multiplier = 3
  Window = 2
  MaxHead = 10
  MaxFaults = 1
  MayStall = FALSE
PROPERTY
  BackfillStops
CHECK_DEADLOCK FALSE
