SPECIFICATION Spec
CONSTANTS
  Versions = {"V0.1", "V0.2"}
  FirstVersion = "V0.1"
  NoVersion = "none"
  Packets = 2
  SavesMayFail = FALSE
INVARIANTS TypeOK PagesInPlace UpdateIsDriven
PROPERTY UpdatesInOneGo
