SPECIFICATION Spec
CONSTANTS
  Clients = {c1}
  NoClient = NoClient
  BatchSize = 2
  SequenceNumberValidation = TRUE
  SentKinds = {"LOGON", "LOGOFF", "HEARTBEAT", "ORDER", "OTHER"}
  QuietReconnects = FALSE
  MaxConnections = 2
  MaxSent = 4
  MaxUnread = 2
  MaxFills = 0
  MaxRestarts = 1
INVARIANT TypeOK
INVARIANT NumbersNeverRepeat
INVARIANT CleanClientsNotRefused
INVARIANT SlotsAgree
PROPERTY ThreadsReturn
CHECK_DEADLOCK FALSE
