SPECIFICATION Spec
CONSTANTS
  Supers = {"super"}
  Forevers = {"forever", "delisted"}
  Cancels = {"dropAll", "dropTarget", "dropMiddle", "dropForever"}
  Modifies = {"moveAll", "moveTarget", "moveStop"}
  Of <- MCOf
  LegOf <- MCLegOf
  Named <- MCNamed
  Unlisted = {"delisted"}
  Unmapped = {"CLOSED"}
  GatewayFaults = {"text"}
  MaxCalls = 2
INVARIANTS
  TypeOK
  CallsEndTruly
  CancelledAsAsked
  EveryLegIsReported
PROPERTIES
  ExitsMoveAfterTheFill
