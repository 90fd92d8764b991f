CONSTANTS
  Conn = {c1}
  NoFd = NoFd
  MaxClients = 2
  SigPipeIgnored = FALSE
  ApiCommand = {"SEND_TEXT"}
  MaxCalls = 0
  Crashable = {}
  Rows = {2}
  Keys = 2
  Resizes = 0
  Terms = 0
  Stops = 0
  HangUps = 0
  Outputs = 0
  Exits = 0
  Budget <- MCBudget
  Endless = {}
SPECIFICATION Spec
INVARIANTS SurvivesClients
CHECK_DEADLOCK FALSE
