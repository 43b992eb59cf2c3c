SPECIFICATION Spec
CONSTANTS
  Clients = {c1, c2}
  NoClient = NoClient
  BatchSize = 1
  SequenceNumberValidation = TRUE
  SentKinds = {"LOGON", "ORDER", "MALFORMED", "WRONG_TARGET"}
  QuietReconnects = TRUE
  MaxConnections = 2
  MaxSent = 2
  MaxUnread = 1
  MaxFills = 1
  MaxRestarts = 0
INVARIANT ReportsReachTheirClient
CHECK_DEADLOCK FALSE
