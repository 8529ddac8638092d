\* By hand: HyperSync answers without having scanned the first block it was asked for. TLC
\* finds NothingSkipped violated.
SPECIFICATION FairSpec
CONSTANTS
  Configs <- AsIntended
  FirstCheckpoints <- FreshOrBehind
  FirstHead = 4
  FirstLaunch = 2
  NearHead = 1
  Slack = 2
  Multiplier = 3
  Window = 2
  MaxHead = 10
  MaxFaults = 1
  MayStall = TRUE
INVARIANT
  NothingSkipped
CHECK_DEADLOCK FALSE
