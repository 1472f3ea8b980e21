SPECIFICATION Spec
CONSTANTS
  Event = {e1, bad}
  Replica = {r1}
  NoReplica = NoReplica
  BatchSize = 1
  MaxAttempts = 1
  Undeliverable = {}
  Document = {{e1, bad}}
  Consumer = {c1, c2}
  Nobody = Nobody
  Malformed = {bad}
  Irrelevant = {}
  MaxRetries = 1
  MaxFaults = 1
PROPERTIES PromiseKept
