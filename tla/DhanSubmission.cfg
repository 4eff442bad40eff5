SPECIFICATION FairSpec
CONSTANTS
  entry = entry
  target = target
  stop = stop
  single = single
  loose = loose
  entry2 = entry2
  target2 = target2
  stop2 = stop2
  oco = oco
  Commands <- MCCommands
  Orders <- MCOrders
  Legs <- MCLegs
  Kind <- MCKind
  IsBracket <- MCIsBracket
  InCache <- MCCommands
  Buildable <- MCBuildable
  Placed <- MCPlaced
  MaxPrice = 4
  GatewayFaults = {"text", "noOrderId"}
  MaxSessions = 2
INVARIANTS
  TypeOK
  RejectedNeverWorks
  AcceptedIsPlaced
  DeniedNeverSent
  HistoriesAreLegal
  ExitsAreApart
PROPERTIES
  PromiseKept
  EveryPostEnds
