\* The binding, libfep/client.c and libfep/list.c behind FepClient.
CONSTANTS
  Conn = {c1}
  me = c1
  Cell = {1, 2, 3, 4}
  NULL = NULL
  ApiCommand = {"SEND_TEXT"}
  MaxCalls = 3
  Closures <- MCClosures
  Rows = {2}
  MaxRequests = 2
SPECIFICATION Spec
INVARIANTS ListInv CellsOwned AppendSafe HandledConsumed
PROPERTIES ImplementsClient
\* The program may never call anything, and fep may go.
CHECK_DEADLOCK FALSE
