SPECIFICATION Spec
CONSTANTS
  Ours = {"short"}
  Correlation <- MCCorrelation
  Size = 1
  Noise = {"heartbeat"}
  Closings = {"clean", "error"}
  MaxInbox = 1
INVARIANT DropLowersTheFlag
