SPECIFICATION ConsumerSpec
CONSTANTS
  Event = {e1, bad, other}
  Consumer = {c1, c2}
  Nobody = Nobody
  Malformed = {bad}
  Irrelevant = {other}
  MaxRetries = 1
  FreshGroup = FALSE
  MaxLog = 2
  MaxFaults = 2
INVARIANTS BookedAtMostOnce CommittedIsDone
PROPERTY EveryMessageAnswered
