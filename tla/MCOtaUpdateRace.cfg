SPECIFICATION Spec
CONSTANTS
  Versions = {"V0.1", "V0.2"}
  FirstVersion = "V0.1"
  NoVersion = "none"
  Packets = 2
  SavesMayFail = TRUE
PROPERTY WrittenWhole
