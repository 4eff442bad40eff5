SPECIFICATION Spec
CONSTANTS
  Orders = {"stop"}
  Cancels = {}
  Sweeps = {}
  Modifies = {"trail", "reprice"}
  Target <- MCTarget
  Named <- MCNamed
  InitialTerms <- MCInitialTerms
  GatewayFaults = {}
  MaxCommands = 2
PROPERTY UnnamedTermsStay
CHECK_DEADLOCK FALSE
