SPECIFICATION Spec
CONSTANTS
  ev1 = ev1
  Entry = {e1, e2, e3, e4}
  Event = {}
  Run = {}
  Doc = {d1}
  Worker = {}
  Caller = {c1, c2}
  LastPeriod = 1
  Occurred <- MCOccurred
  Amount = {1}
  NoEntry = NoEntry
  NoSource = NoSource
  NoDoc = NoDoc
SYMMETRY IdSymmetry
INVARIANTS
  OneReversalPerEntry
  ReversalNetsToZero
  SupersededIsDead
  AuditTellsStatus
  PostKeepsItsDraft
PROPERTY PostedIsImmutable
