\* rpc.h, rpc.cc: one call with its marshalling and its deadlines
SPECIFICATION Spec
CONSTANTS
  Byte = 4
  DefaultSz = 30
  MsPerSec = 4
  NsPerMs = 2
  Calls <- MCCalls
  Ids <- MCIds
  Starts <- MCStarts
  Statuses = {0, 3}
  nonce_ = 100
  ToMin = 4
  Late = 2
  MaxNow = 60
INVARIANTS BuffersHold ArgumentsArrive ResultArrives RpcTestsPass TimeoutInTime
PROPERTIES CallReturns
CHECK_DEADLOCK FALSE
