SPECIFICATION Spec
CONSTANTS
  r1 = r1
  r2 = r2
  Requests = {r1, r2}
  Cli = Cli
  Nets = {1, 2}
  Codes = {"c1"}
  MaxName = 2
  BasePort = 4242
  LastPort = 4244
  Busy = {4243}
  InstallRestarts = {FALSE, TRUE}
  MaxNode = 2
  MaxFaults = 1
SYMMETRY Sym
CONSTRAINT NotOverwritten
INVARIANTS AckedSurvive RegisteredHasCredentials
PROPERTIES PortsHealedAtBoot
