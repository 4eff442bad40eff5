SPECIFICATION Spec
CONSTANTS
  Ours = {"short"}
  Correlation <- MCCorrelation
  Size = 1
  Noise = {"heartbeat", "keyless"}
  Closings = {"clean", "error"}
  MaxInbox = 1
PROPERTY OneBadFrameEndsNothing
