CONSTANTS
  Conn = {c1, c2, c3}
  NoFd = NoFd
  MaxClients = 3
  SigPipeIgnored = FALSE
  ApiCommand = {"SEND_TEXT"}
  MaxCalls = 1
  Crashable = {}
  Rows = {2}
  Keys = 0
  Resizes = 0
  Terms = 0
  Stops = 0
  HangUps = 0
  Outputs = 0
  Exits = 0
  Budget <- MCBudget
  Endless = {}
SPECIFICATION FairSpec
PROPERTIES CallsServed
CHECK_DEADLOCK FALSE
