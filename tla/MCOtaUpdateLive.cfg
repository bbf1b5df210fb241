SPECIFICATION FairSpec
CONSTANTS
  Versions = {"V0.1"}
  FirstVersion = "V0.1"
  NoVersion = "none"
  Packets = 1
  SavesMayFail = TRUE
PROPERTY DownloadEnds
