CONSTANTS
  Conn = {c1, c2}
  NoFd = NoFd
  MaxClients = 2
  SigPipeIgnored = TRUE
  ApiCommand = {"SEND_TEXT"}
  MaxCalls = 1
  Crashable = {c1, c2}
  Rows = {2, 3}
  Keys = 1
  Resizes = 1
  Terms = 0
  Stops = 0
  HangUps = 0
  Outputs = 0
  Exits = 0
  Budget <- MCBudget
  Endless = {}
SPECIFICATION Spec
SYMMETRY Symmetry
INVARIANTS TableInv TableExact NoBlockingRead Lockstep IInv
PROPERTIES ExchangeSucceeds
CHECK_DEADLOCK FALSE
