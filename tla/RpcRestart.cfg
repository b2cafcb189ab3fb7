\* rpc.cc from the start: bind, a call, breaks and a restart of the server
SPECIFICATION FairSpec
CONSTANTS
  Threads = {t1}
  Workers = {w1}
  Conns = {c1, c2}
  NoConn = NoConn
  MaxXid = 2
  MaxInst = 2
  Deadlines = TRUE
  Teardown = TRUE
INVARIANTS UnansweredRunsAtMostOnce NoUncountedReference NoUpcallAfterDelete
PROPERTIES CallsAreAnswered
CHECK_DEADLOCK FALSE
