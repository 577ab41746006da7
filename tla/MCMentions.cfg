SPECIFICATION ClientSpec
CONSTANTS
  p1 = p1
  p2 = p2
  t1 = t1
  Peers = {p1, p2}
  Threads = {t1}
  Nothing = Nothing
  Scenarios <- MC_Scenarios
  MaxOpened = 1
  MaxBroken = 1
INVARIANTS HandedOnceInOrder  ThreadsAreClosed
PROPERTIES MentionsReachTheHandler
CHECK_DEADLOCK FALSE
