\* Backfill: every request is as wide as the window.
SPECIFICATION FairWindowSpec
CONSTANTS
  MinSpan = 2
  MaxSpan = 16
  InitialSpan = 5
  ReprobeInterval = 3
  Allowances = {2, 3, 4, 5, 6, 7, 8, 9, 10, 11, 12, 13, 14, 15, 16, 17}
  MinBacklog = 16
  MaxBacklog = 20
  MaxTimeouts = 2
INVARIANTS
  BracketSound
PROPERTIES
  Converges
  KeepsServing
