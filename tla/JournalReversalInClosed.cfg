SPECIFICATION Spec
CONSTANTS
  ev1 = ev1
  Entry = {e1, e2}
  Event = {}
  Run = {}
  Doc = {}
  Worker = {}
  Caller = {}
  LastPeriod = 2
  Occurred <- MCOccurred
  Amount = {1}
  NoEntry = NoEntry
  NoSource = NoSource
  NoDoc = NoDoc
SYMMETRY IdSymmetry
PROPERTY ClosedMonthKeepsItsPostings
