SPECIFICATION RelaySpec
CONSTANTS
  Event = {e1, e2, e3}
  Replica = {r1, r2}
  NoReplica = NoReplica
  BatchSize = 2
  MaxAttempts = 2
  Undeliverable = {e1, e2}
  Document = {{e1, e2}, {e3}}
  MaxFaults = 1
INVARIANTS StampedIsPublished
PROPERTY EveryRowDelivered
