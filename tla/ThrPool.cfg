\* thr_pool.cc: a pool that refuses jobs when its queue is full, as rpcs makes
\* it, and one whose addJob blocks
SPECIFICATION FairSpec
CONSTANTS
  Workers = {w1, w2, w3}
  Adders = {a1, a2}
  Dtor = dtor
  Jobs = {x1, x2, x3, x4}
  Pill = pill
  max_ = 2
INVARIANTS TypeOK JobsConserved NoJobBehindPill NoLostWakeup
PROPERTIES DtorTerminates AcceptedJobsRun
CHECK_DEADLOCK FALSE
