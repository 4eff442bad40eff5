SPECIFICATION Spec
CONSTANTS
  Ours = {"long"}
  Foreign = {}
  Asked = {"long"}
  Correlation <- MCCorrelation
  Instruments = {"nifty", "bank"}
  InstrumentOf <- MCInstrumentOf
  Unlisted = {}
  Size = 2
  Faults = {"raises"}
PROPERTY LookUpFindsIt
CHECK_DEADLOCK FALSE
