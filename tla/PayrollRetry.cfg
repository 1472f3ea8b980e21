SPECIFICATION Retried
CONSTANTS
  Ref = {r1}
  Caller = {c1}
  NoRef = NoRef
  MaxFaults = 1
PROPERTY RunIsRecorded
