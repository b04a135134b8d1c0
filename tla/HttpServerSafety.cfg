SPECIFICATION Spec
CONSTANTS
  Connections = {c1, c2, c3}
  c1 = c1
  c2 = c2
  c3 = c3
  NoConnection = NoConnection
  Threads = {t1, t2}
  t1 = t1
  t2 = t2
  Viewers = {c1, c2, c3}
  Inputs = {"more", "request", "bad"}
INVARIANTS TypeOK OneActivity AcceptsIntoClosed ReplyUnchangedWhileWritten
PROPERTIES AnswersOnce
CHECK_DEADLOCK FALSE
