SPECIFICATION Spec
CONSTANTS
  d1 = d1
  d2 = d2
  Devices <- MCDevices
  Conditions <- MCConditions
  Asked <- Requests
  Byte = {0, 1, 2}
  Attr = {1, 2}
  Writable = {1}
  MaxCount = 2
  Intervals = {1, 2}
  LastId = 2
  MaxRules = 0
  MaxEntries = 1
  MaxTime = 1
  MaxJumps = 1
PROPERTY AtomicAllOrNothing
