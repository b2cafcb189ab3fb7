\* rpc.cc: at most once, also for requests that come late
SPECIFICATION BoundSpec
CONSTANTS
  Threads = {t1}
  Workers = {w1, w2}
  Conns = {c1, c2}
  NoConn = NoConn
  MaxXid = 4
  MaxInst = 1
  Deadlines = FALSE
  Teardown = FALSE
SYMMETRY Symmetry
INVARIANTS AtMostOnce
CHECK_DEADLOCK FALSE
