CONSTANTS
  Commands = {"SET_CURSOR_TEXT", "SET_STATUS_TEXT", "SEND_TEXT", "SEND_DATA",
              "FORWARD_KEY_EVENT", "KEY_EVENT", "RESIZE_EVENT", "RESPONSE"}
  Lengths = {1, 130}
  Partial = {65}
  MaxMessages = 2
  CharSigned = FALSE
SPECIFICATION WireFairSpec
INVARIANTS LengthAgrees SocketHolds
PROPERTIES Implements Delivered ReaderReturns
CHECK_DEADLOCK FALSE
