SPECIFICATION Spec
CONSTANTS
  ImageHeight = 3
  GrabHeight = 1
  CopyOrder = "up"
  InitialFormats = {"Mono8"}
  Mono8Available = TRUE
  MaxLines = 4
INVARIANTS TypeOK ImageIsWindow SnapshotRegular NoWildCopy
PROPERTIES SnapshotNeverGoesBack RefinesWindow
