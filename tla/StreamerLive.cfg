SPECIFICATION FairSpec
CONSTANTS
  Pages = {p1, p2, p3}
  p1 = p1
  p2 = p2
  p3 = p3
  Threads = 2
  Disturbances = {"spurious"}
  Stalled = {p1}
  MaxPosts = 0
PROPERTIES PostReachesWatchers WaitingPageIsServed RequestIsHandled PostReturns
