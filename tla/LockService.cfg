\* lock_tester.cc: all five tests with three threads, two rounds; lock_demo.cc
SPECIFICATION FairTestSpec
CONSTANTS
  nt = 3
  Rounds = 2
  Split = 2
  Threads = {t1, t2, t3}
  c0 = c0  c1 = c1  c2 = c2  c3 = c3
  a = a  b = b
  Clients <- MCClients
  LockIds = {a, b}
  lc <- MClc
  NoClt = NoClt
  NoLid = NoLid
  NoTester = NoTester
INVARIANTS ChecksHold MutualExclusion
PROPERTIES TestersFinish
CHECK_DEADLOCK FALSE
