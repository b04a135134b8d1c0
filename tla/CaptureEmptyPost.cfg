SPECIFICATION Spec
CONSTANTS
  ImageHeight = 2
  GrabHeight = 1
  CopyOrder = "up"
  InitialFormats = {"Mono8"}
  Mono8Available = TRUE
  MaxLines = 1
INVARIANT NeverPostsEmptyImage
