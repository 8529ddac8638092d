\* Two streams; one endpoint is dependable but takes small batches only, or none.
SPECIFICATION FairSpec
CONSTANTS
  c1 = c1
  c2 = c2
  drpc = drpc
  ordofi = ordofi
  Callers <- TwoStreams
  Endpoints <- TwoEndpoints
  Rank <- ConfiguredOrder
  Fastest = FALSE
  Attempts = 2
  Threshold = 1
  Sizes = {3}
  Capacities = {0, 2, 3}
  Explicit = {}
  Dependable <- Drpc
INVARIANTS
  NoEndpointSkipped
PROPERTIES
  EveryCallEnds
  BatchesServed
