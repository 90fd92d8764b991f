CONSTANTS
  Conn = {c1}
  NoFd = NoFd
  MaxClients = 2
  SigPipeIgnored = FALSE
  ApiCommand = {"SEND_TEXT"}
  MaxCalls = 2
  Crashable = {c1}
  Rows = {2}
  Keys = 3
  Resizes = 0
  Terms = 0
  Stops = 0
  HangUps = 1
  Outputs = 1
  Exits = 1
  Budget <- MCBudget
  Endless = {}
SPECIFICATION Spec
INVARIANTS KeyOnce KeyNotLost KeysInOrder StreamConserved StreamInv KeyPlaceInv KeyTrailInv
CHECK_DEADLOCK FALSE
