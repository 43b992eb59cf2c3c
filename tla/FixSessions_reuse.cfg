SPECIFICATION Spec
CONSTANTS
  Clients = {c1, c2}
  NoClient = NoClient
  BatchSize = 1
  SequenceNumberValidation = TRUE
  SentKinds = {"LOGON", "ORDER"}
  QuietReconnects = FALSE
  MaxConnections = 2
  MaxSent = 2
  MaxUnread = 1
  MaxFills = 1
  MaxRestarts = 0
SYMMETRY ClientSymmetry
INVARIANT ReportsReachTheirClient
CHECK_DEADLOCK FALSE
