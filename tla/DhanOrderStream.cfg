SPECIFICATION FairSpec
CONSTANTS
  Ours = {"O-20260101-000000-001-000-1", "short"}
  Correlation <- MCCorrelation
  Size = 2
  Noise = {"stranger", "keyless"}
  Closings = {"clean", "error"}
  MaxInbox = 1
INVARIANTS
  TypeOK
  CaughtUp
PROPERTIES
  LifeKept
  StreamComesBack
