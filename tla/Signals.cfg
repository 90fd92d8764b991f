CONSTANTS
  Conn = {c1}
  NoFd = NoFd
  MaxClients = 2
  SigPipeIgnored = FALSE
  ApiCommand = {"SEND_TEXT"}
  MaxCalls = 1
  Crashable = {c1}
  Rows = {0, 3}
  Keys = 0
  Resizes = 1
  Terms = 1
  Stops = 1
  HangUps = 0
  Outputs = 1
  Exits = 1
  Budget <- MCBudget
  Endless = {"resize", "term", "tstp", "output"}
SPECIFICATION FairSpec
INVARIANTS TypeOK SizeFollows SizeInv
PROPERTIES TermEnds
CHECK_DEADLOCK FALSE
