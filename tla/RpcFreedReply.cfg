\* rpc.cc: the reply of a duplicate is still in the window when it is sent
SPECIFICATION BoundSpec
CONSTANTS
  Threads = {t1}
  Workers = {w1, w2}
  Conns = {c1, c2}
  NoConn = NoConn
  MaxXid = 4
  MaxInst = 1
  Deadlines = FALSE
  Teardown = FALSE
SYMMETRY Symmetry
INVARIANTS ResponseStillHeld
CHECK_DEADLOCK FALSE
