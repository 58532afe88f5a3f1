SPECIFICATION Spec
CONSTANTS
  Controllers = {c1, c2}
  Devices = {d1, d2}
  Capable = {d1, d2}
  Units = {u1, u2}
  Names = {north, south}
  MaxGroup = 2
  MaxMembers = 2
  MaxTable = 2
  MaxInFlight = 2
  MaxLost = 1
  Environment <- MCLossy
CONSTRAINT Few
SYMMETRY Symmetry
INVARIANTS
  TypeOK
  NoDuplicates
  MembersReached
  NoLeakedReservation
  NobodyForgotten
PROPERTY
  MembersInStep
