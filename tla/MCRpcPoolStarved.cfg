\* By hand: one caller; both endpoints refuse large batches. TLC finds
\* SmallEndpointsGetATurn violated.
SPECIFICATION Spec
CONSTANTS
  c1 = c1
  c2 = c2
  drpc = drpc
  ordofi = ordofi
  Callers <- OneStream
  Endpoints <- TwoEndpoints
  Rank <- ConfiguredOrder
  Fastest = FALSE
  Attempts = 1
  Threshold = 2
  Sizes = {3}
  Capacities = {1, 2}
  Explicit <- TwoEndpoints
  Dependable <- Drpc
INVARIANTS
  SmallEndpointsGetATurn
