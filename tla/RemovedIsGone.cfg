SPECIFICATION Spec
CONSTANTS
  Controllers = {c1, c2}
  Devices = {d1}
  Capable = {d1}
  Units = {1}
  Names = {north}
  MaxGroup = 1
  MaxMembers = 2
  MaxTable = 2
  MaxInFlight = 2
  MaxLost = 0
  Environment = {}
PROPERTY
  RemovedIsGone
