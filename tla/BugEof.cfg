CONSTANTS
  Conn = {c1}
  NoFd = NoFd
  MaxClients = 2
  SigPipeIgnored = FALSE
  ApiCommand = {"SEND_TEXT"}
  MaxCalls = 0
  Crashable = {}
  Rows = {2}
  Keys = 1
  Resizes = 0
  Terms = 0
  Stops = 0
  HangUps = 1
  Outputs = 0
  Exits = 1
  Budget <- MCBudget
  Endless = {}
SPECIFICATION Spec
INVARIANTS WaitsForExitedChild
CHECK_DEADLOCK FALSE
