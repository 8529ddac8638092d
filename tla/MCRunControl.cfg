\* A backfill over HyperSync and a tail over RPC.  A pause of the backed-off factory is longer than what one
\* of its ticks makes up for, and the head moves for three such pauses; one fault.
SPECIFICATION FairSpec
CONSTANTS
  Configs <- AsIntended
  FirstCheckpoints <- FreshOrBehind
  FirstHead = 4
  FirstLaunch = 2
  NearHead = 1
  Slack = 2
  Multiplier = 3
  Window = 2
  MaxHead = 10
  MaxFaults = 1
  MayStall = FALSE
INVARIANTS
  NothingSkipped
  StaysNearHead
  EndsWithinOneTick
PROPERTY
  BackfillEnds
CHECK_DEADLOCK FALSE
