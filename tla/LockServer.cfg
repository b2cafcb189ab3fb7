\* lock_server.cc: three dispatch threads, two clients, two locks
\* (no symmetry: some of the properties are temporal)
SPECIFICATION FairSpec
CONSTANTS
  t1 = t1  t2 = t2  t3 = t3
  c1 = c1  c2 = c2
  a = a  b = b
  Threads <- MCThreads
  Clients <- MCClients
  LockIds <- MCLockIds
  NoClt = NoClt
  NoLid = NoLid
INVARIANTS TypeOK NacquireCountsHeld NoLostWakeup
PROPERTIES FreeLockIsTaken FreedByItsOwner ImplementsAbstractLock
