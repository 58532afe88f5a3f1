SPECIFICATION Spec
CONSTANTS
  n1 = n1
  n2 = n2
  b = b
  u1 = u1
  i1 = i1
  any = any
  Nodes <- MCNodes
  Base = b
  Units = {u1}
  Interfaces = {i1}
  Wildcard = any
  Rows <- MCRows
  MaxRows = 2
  MaxInFlight = 2
  MaxEntries = 1
INVARIANT
  TypeOK
PROPERTIES
  AnswersOnce
  RoutedOnce
