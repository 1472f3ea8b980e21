SPECIFICATION RelaySpec
CONSTANTS
  Event = {e1, e2}
  Replica = {r1, r2}
  NoReplica = NoReplica
  BatchSize = 2
  MaxAttempts = 2
  Undeliverable = {}
  Document = {{e1, e2}}
  MaxFaults = 1
PROPERTIES DocumentEventsInOrder
