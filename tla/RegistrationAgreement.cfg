SPECIFICATION FairSpec
CONSTANTS
  Nodes = {n1, n2, n3}
  MaxAddress = 2
  UnitIds = {0, 1}
  Configs <- MCOneConfig
  BaseUnits <- MCBaseUnits
  Rows <- MCNoRows
  MaxUnits = 2
  MaxChannel = 2
  MaxInFlight = 2
  MaxBinds = 0
  Environment <- MCNobodyLeaves
INVARIANT
  BeliefsHold
PROPERTY
  RegistrationCompletes
