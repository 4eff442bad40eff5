SPECIFICATION FairSpec
CONSTANTS
  Orders = {"stop", "limit"}
  Cancels = {"cancel"}
  Sweeps = {"sweep"}
  Modifies = {"reprice", "resize"}
  Target <- MCTarget
  Named <- MCNamed
  InitialTerms <- MCInitialTerms
  GatewayFaults = {"text"}
  MaxCommands = 2
INVARIANTS
  TypeOK
  CanceledIsDead
  RejectedDidNothing
  SettledTermsAgree
PROPERTY SweepsReachAll
CHECK_DEADLOCK FALSE
