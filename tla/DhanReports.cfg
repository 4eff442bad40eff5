SPECIFICATION Spec
CONSTANTS
  Ours = {"long", "short"}
  Foreign = {"app"}
  Asked = {"short"}
  Correlation <- MCCorrelation
  Instruments = {"nifty", "bank"}
  InstrumentOf <- MCInstrumentOf
  Unlisted = {"bank"}
  Size = 1
  Faults = {"raises"}
INVARIANTS
  TypeOK
  CompleteOrRaised
  FilledIsExplained
  FillsAreInThePosition
  ReportsAreAttributed
PROPERTY LookUpFindsIt
CHECK_DEADLOCK FALSE
