SPECIFICATION Spec
CONSTANTS
  Pages = {p1, p2, p3}
  p1 = p1
  p2 = p2
  p3 = p3
  Threads = 2
  Disturbances = {"timeout", "spurious"}
  Stalled = {p1}
  MaxPosts = 2
INVARIANTS TypeOK WatchersExact HandlersNotConcurrent
PROPERTIES RefinesBroadcast
