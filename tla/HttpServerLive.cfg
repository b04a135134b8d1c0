SPECIFICATION FairSpec
CONSTANTS
  Connections = {c1, c2, c3}
  c1 = c1
  c2 = c2
  c3 = c3
  NoConnection = NoConnection
  Threads = {t1, t2}
  t1 = t1
  t2 = t2
  Viewers = {c1}
  Inputs = {"request"}
PROPERTIES GoneIsClosed KeepsAccepting
CHECK_DEADLOCK FALSE
