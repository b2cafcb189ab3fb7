\* rpc.cc, progress with two workers: the reply may go to a stale connection
SPECIFICATION FairBoundSpec
CONSTANTS
  Threads = {t1}
  Workers = {w1, w2}
  Conns = {c1, c2}
  NoConn = NoConn
  MaxXid = 2
  MaxInst = 1
  Deadlines = FALSE
  Teardown = FALSE
PROPERTIES CallsAreAnswered
CHECK_DEADLOCK FALSE
