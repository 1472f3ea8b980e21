SPECIFICATION Spec
CONSTANTS
  ev1 = ev1
  Entry = {e1, e2, e3}
  Event = {ev1, ev2}
  Run = {r1}
  Doc = {}
  Worker = {w1, w2}
  Caller = {}
  LastPeriod = 2
  Occurred <- MCOccurred
  Amount = {1}
  NoEntry = NoEntry
  NoSource = NoSource
  NoDoc = NoDoc
SYMMETRY IdSymmetry
INVARIANTS
  TypeOK
  OneEntryPerSource
  HandledIsBooked
