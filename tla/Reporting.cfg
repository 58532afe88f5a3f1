SPECIFICATION Spec
CONSTANTS
  d1 = d1
  d2 = d2
  Devices <- MCDevices
  Conditions <- MCConditions
  Asked <- MCAsked
  Byte = {0, 1, 2}
  Attr = {1, 2}
  Writable = {1}
  MaxCount = 2
  Intervals = {1, 2}
  LastId = 2
  MaxRules = 2
  MaxEntries = 2
  MaxTime = 4
  MaxJumps = 1
CONSTRAINT Apart
SYMMETRY Symmetry
INVARIANTS
  TypeOK
  RuleIdsUnique
  EntriesOwned
  ReportsInTime
  SubscribersCurrent
  WritesAsAsked
  RefusedChangesNothing
