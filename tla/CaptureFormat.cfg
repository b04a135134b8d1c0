SPECIFICATION Spec
CONSTANTS
  ImageHeight = 2
  GrabHeight = 1
  CopyOrder = "up"
  InitialFormats = {"Mono8", "YUV422"}
  Mono8Available = TRUE
  MaxLines = 1
INVARIANT NoWildCopy
