SPECIFICATION Spec
CONSTANTS
  Nodes = {n1, n2}
  MaxAddress = 2
  UnitIds = {0, 1}
  Configs <- MCConfigs
  BaseUnits <- MCBaseUnits
  Rows <- MCRows
  MaxUnits = 2
  MaxChannel = 2
  MaxInFlight = 2
  MaxBinds = 1
  Environment <- MCEverything
SYMMETRY Symmetry
INVARIANTS
  TypeOK
  UniqueDevices
  BindsResolve
  LinksTagged
PROPERTY
  NobodyEvicted
