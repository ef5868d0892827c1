SPECIFICATION StreamSpec
CONSTANTS
  Scripts <- Sessions
  Resolved <- Names
  Outgoing <- Sends
  Room = {3, 60}
  TermType <- Type
  Environment <- Variables
  Urls = {"", "ssl:"}
  Certificates <- Servers
  CheckExpiry = TRUE
  VerifyServer = TRUE
INVARIANTS TypeOK PacketsArrive
PROPERTIES RecordsIntact AnswersTheHost
