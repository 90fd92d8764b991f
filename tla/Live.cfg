CONSTANTS
  Conn = {c1, c2}
  NoFd = NoFd
  MaxClients = 2
  SigPipeIgnored = FALSE
  ApiCommand = {"SET_STATUS_TEXT"}
  MaxCalls = 1
  Crashable = {}
  Rows = {2}
  Keys = 1
  Resizes = 0
  Terms = 0
  Stops = 0
  HangUps = 0
  Outputs = 1
  Exits = 0
  Budget <- MCBudget
  Endless = {"output"}
SPECIFICATION FairSpec
PROPERTIES KeysSettle CallsServed
CHECK_DEADLOCK FALSE
