\* connection.cc and pollmgr.cc: two senders, PDUs of two units, a closer
SPECIFICATION FairSpec
CONSTANTS
  Senders = {s1, s2}
  Closers = {c}
  Removers = {s1, s2, c}
  Nobody = Nobody
  Size = 2
  Cap = 2
  MaxSends = 3
  MaxIn = 3
INVARIANTS TypeOK DeadIsCalledOnlyInRemoval PdusAreWhole SenderHasCallback WaitersHaveWriter HeaderIsThere
PROPERTIES SendReturns CleanBreakIsNoticed
CHECK_DEADLOCK FALSE
