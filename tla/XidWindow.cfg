\* rpcc::update_xid_rep: five calls, each reported up to twice, in every order
SPECIFICATION Spec
CONSTANTS
  MaxXid = 5
  MaxReports = 2
INVARIANTS WindowIsExact
PROPERTIES ListIsSet
CHECK_DEADLOCK FALSE
