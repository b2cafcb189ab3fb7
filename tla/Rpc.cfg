\* rpc.cc: two concurrent calls after bind, two workers, two connections
SPECIFICATION BoundSpec
CONSTANTS
  Threads = {t1, t2}
  Workers = {w1, w2}
  Conns = {c1, c2}
  NoConn = NoConn
  MaxXid = 3
  MaxInst = 1
  Deadlines = TRUE
  Teardown = FALSE
SYMMETRY Symmetry
INVARIANTS TypeOK UnansweredRunsAtMostOnce NeededReplyKept OkMeansExecuted ReferencesBalance
CHECK_DEADLOCK FALSE
