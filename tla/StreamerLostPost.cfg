SPECIFICATION Spec
CONSTANTS
  Pages = {p1, p2}
  p1 = p1
  p2 = p2
  Threads = 1
  Disturbances = {"timeout"}
  Stalled = {}
  MaxPosts = 1
PROPERTY PostReachesWatchers
