\* By hand: tailing: requests are as short as the backlog, until an outage leaves a long
\* one. TLC finds KeepsServing violated.
SPECIFICATION FairWindowSpec
CONSTANTS
  MinSpan = 2
  MaxSpan = 16
  InitialSpan = 5
  ReprobeInterval = 3
  Allowances = {5}
  MinBacklog = 0
  MaxBacklog = 8
  MaxTimeouts = 0
PROPERTIES
  KeepsServing
