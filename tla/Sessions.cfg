SPECIFICATION Spec
CONSTANTS
  reader = reader
  other = other
  a1 = a1
  a2 = a2
  Readers <- MCReaders
  Addresses <- MCAddresses
  SourceOf <- MCRegistered
  Slots = {s1, s2}
  NoSlot = NoSlot
  Data = {d1, d2}
  MaxEntries = 2
  MaxCount = 2
INVARIANTS
  TypeOK
  ConsistentRead
PROPERTY
  ReadsAtOnce
