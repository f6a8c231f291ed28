SPECIFICATION FairSpec
CONSTANTS
  Routes = {"none", "a"}
  NoRoutes = "none"
  Relays = {"r"}
  MaxBoots = 1
  MaxChanges = 1
  MaxFaults = 1
PROPERTY RoutesCatchUp
CHECK_DEADLOCK FALSE
