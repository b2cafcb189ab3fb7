\* pollmgr.cc: what block_remove_fd promises its caller
SPECIFICATION FairSpec
CONSTANTS
  Senders = {s1, s2}
  Closers = {c}
  Removers = {s1, s2, c}
  Nobody = Nobody
  Size = 2
  Cap = 2
  MaxSends = 3
  MaxIn = 3
CHECK_DEADLOCK FALSE
INVARIANTS NoCallbackAfterRemove
