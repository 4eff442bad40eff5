SPECIFICATION ReadersSpec
CONSTANTS
  MaxItems = 2
  MaxPackets = 3
  MaxFills = 3
  MaxRows = 2
  MaxSlot = 7
  MaxLoads = 2
  Responses <- MCResponses
  Frames <- MCFrames
  Periods <- MCPeriods
  Orders <- MCOrders
  Files <- MCFiles
  FilterSets <- MCFilterSets
INVARIANTS
  TypeOK
  RefusedIffBodySaysSo
  IPRefusalIsNotAboutOneOrder
  DecodesWhatWasSent
  NothingLostUncounted
  SlicesPayBrokerageOnce
  OrdersComeBackAsTheirOwn
  LoadedAsListed
CHECK_DEADLOCK FALSE
