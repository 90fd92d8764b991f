------------------------------- MODULE FepWire -------------------------------
(***************************************************************************)
(* libfep/control.c: control messages as bytes.  One direction of one      *)
(* connection, with the process at each end inside _fep_write_control_-    *)
(* message or _fep_read_control_message; every write() and read() is a     *)
(* step.  A message is a command byte and, for each argument, a 32-bit     *)
(* length and that many bytes.                                             *)
(*                                                                         *)
(* MaxMessages bounds how many messages are written.                       *)
(***************************************************************************)
EXTENDS Integers, Sequences

CONSTANTS
  Commands,      \* the commands that are written
  Lengths,       \* the lengths of texts and data
  Partial,       \* how many bytes a write that is cut short may transfer
  MaxMessages,
  CharSigned     \* char is signed, as it is on x86

ASSUME LengthsAssumption == Lengths \subseteq 1 .. 8191     \* below BUFSIZ
ASSUME PartialAssumption == Partial \subseteq Nat \ {0}
ASSUME WireAssumption == MaxMessages \in Nat /\ CharSigned \in BOOLEAN

VARIABLES
  stream,     \* the bytes in the socket
  wpc,        \* the writer: "idle", "length", "payload", or "closed"
  message,    \* what it is writing
  i,          \* the argument it is at
  total,      \* how many bytes of it are written
  rpc,        \* the reader: "command", "length", "payload", or "failed"
  command,    \* message->command of the reader
  args,       \* the arguments that are complete
  arg,        \* the bytes of the one that is not
  len,        \* its bytes to come, as the int of the same 32 bits
  written,    \* history: messages written to the last byte
  received    \* history: messages that _fep_read_control_message returned

writerVars == <<wpc, message, i, total, written>>
readerVars == <<rpc, command, args, arg, len, received>>
wireVars == <<stream, writerVars, readerVars>>

-----------------------------------------------------------------------------
(* FepControlCommand and commands[]: n_args of each command. *)
Code ==
  [SET_CURSOR_TEXT |-> 1, SET_STATUS_TEXT |-> 2, SEND_TEXT |-> 3,
   SEND_DATA |-> 4, FORWARD_KEY_EVENT |-> 5, KEY_EVENT |-> 6,
   RESIZE_EVENT |-> 7, RESPONSE |-> 8]

NArgs ==
  [SET_CURSOR_TEXT |-> 2, SET_STATUS_TEXT |-> 2, SEND_TEXT |-> 1,
   SEND_DATA |-> 1, FORWARD_KEY_EVENT |-> 2, KEY_EVENT |-> 3,
   RESIZE_EVENT |-> 2, RESPONSE |-> 2]

ASSUME CommandsAssumption == Commands \subseteq DOMAIN Code

(* The lengths of the arguments as the callers build them: 32-bit numbers, *)
(* an attribute of four, the answered command; the second argument of the  *)
(* RESPONSE of a client without a filter is empty.                         *)
ArgLengths ==
  [SET_CURSOR_TEXT |-> <<Lengths, {16}>>, SET_STATUS_TEXT |-> <<Lengths, {16}>>,
   SEND_TEXT |-> <<Lengths>>, SEND_DATA |-> <<Lengths \cup {0}>>,
   FORWARD_KEY_EVENT |-> <<{4}, {4}>>, KEY_EVENT |-> <<{4}, {4}, Lengths>>,
   RESIZE_EVENT |-> <<{4}, {4}>>, RESPONSE |-> <<{1}, {0, 4}>>]

(* The contents of an argument; what the bytes are makes no difference.    *)
Bytes(n) == [k \in 1 .. n |-> k % 256]

Messages ==
  UNION {{[command |-> c, args |-> [a \in 1 .. NArgs[c] |-> Bytes(ls[a])]] :
            ls \in {f \in [1 .. NArgs[c] -> Lengths \cup {0, 1, 4, 16}] :
                      \A a \in 1 .. NArgs[c] : f[a] \in ArgLengths[c][a]}} :
         c \in Commands}

-----------------------------------------------------------------------------
(* Mutant of Word: the most significant byte first. *)
WordBigEndian(n) ==
  <<(n \div 16777216) % 256, (n \div 65536) % 256, (n \div 256) % 256, n % 256>>

(* The length word, least significant byte first. *)
Word(n) ==
  <<n % 256, (n \div 256) % 256, (n \div 65536) % 256, (n \div 16777216) % 256>>

(* Mutant of Char: a char is signed wherever the code is built. *)
CharSignedAnyway(b) == IF b > 127 THEN b - 256 ELSE b

Char(b) == IF CharSigned /\ b > 127 THEN b - 256 ELSE b

(* (buf[3] << 24) | (buf[2] << 16) | (buf[1] << 8) | buf[0]: an operand    *)
(* below 0 sets every bit above its own byte.  The top byte ends in the    *)
(* sign of the int, whatever the sign of a char.                           *)
Decode(b) ==
  IF Char(b[1]) < 0 THEN Char(b[1])
  ELSE IF Char(b[2]) < 0 THEN 256 * Char(b[2]) + b[1]
  ELSE IF Char(b[3]) < 0 THEN 65536 * Char(b[3]) + 256 * b[2] + b[1]
  ELSE 16777216 * (IF b[4] > 127 THEN b[4] - 256 ELSE b[4])
         + 65536 * b[3] + 256 * b[2] + b[1]

-----------------------------------------------------------------------------
(* _fep_write_control_message. *)

NArg == Len(message.args)

(* The writer has come to argument k, or to the end of the message. *)
NextArg(k) ==
  /\ i' = k
  /\ total' = 0
  /\ IF k > NArg THEN wpc' = "idle" /\ written' = Append(written, message)
                 ELSE wpc' = "length" /\ UNCHANGED written
  /\ UNCHANGED message

WriteCommand(m) ==
  /\ wpc = "idle" /\ Len(written) < MaxMessages
  /\ stream' = Append(stream, Code[m.command])
  /\ message' = m
  /\ i' = 1
  /\ wpc' = "length"
  /\ UNCHANGED <<total, written, readerVars>>

WriteLength ==
  /\ wpc = "length"
  /\ stream' = stream \o Word(Len(message.args[i]))
  /\ \/ message.args[i] = <<>> /\ NextArg(i + 1)
     \/ /\ message.args[i] # <<>>
        /\ wpc' = "payload"
        /\ UNCHANGED <<message, i, total, written>>
  /\ UNCHANGED readerVars

(* Mutant of WritePayload: a write that goes on takes its bytes from the   *)
(* beginning of the argument.                                              *)
WritePayloadRestarts ==
  LET a == message.args[i] IN
  /\ wpc = "payload"
  /\ \E n \in Partial \cup {Len(a) - total} :
       /\ total + n <= Len(a)
       /\ stream' = stream \o SubSeq(a, 1, n)
       /\ IF total + n = Len(a) THEN NextArg(i + 1)
          ELSE total' = total + n /\ UNCHANGED <<wpc, message, i, written>>
  /\ UNCHANGED readerVars

WritePayload ==
  LET a == message.args[i] IN
  /\ wpc = "payload"
  /\ \E n \in Partial \cup {Len(a) - total} :
       /\ total + n <= Len(a)
       /\ stream' = stream \o SubSeq(a, total + 1, total + n)
       /\ IF total + n = Len(a) THEN NextArg(i + 1)
          ELSE total' = total + n /\ UNCHANGED <<wpc, message, i, written>>
  /\ UNCHANGED readerVars

(* The writer closes the connection, or dies between two calls of write(). *)
Close ==
  /\ wpc # "closed"
  /\ wpc' = "closed"
  /\ UNCHANGED <<stream, message, i, total, written, readerVars>>

(* A failed reader closes the connection, and writing ends with an error.  *)
Writer ==
  /\ rpc # "failed"
  /\ \/ \E m \in Messages : WriteCommand(m)
     \/ WriteLength
     \/ WritePayload

-----------------------------------------------------------------------------
(* _fep_read_control_message; the reader calls it again and again. *)

EndOfFile == stream = <<>> /\ wpc = "closed"

Fail == rpc' = "failed" /\ UNCHANGED <<stream, command, args, arg, len, received>>

(* What read() returns for a count of n: at least one byte, and all that   *)
(* is there if n is as large as that, which a negative n is.               *)
Count(n) == IF n < 0 \/ n > Len(stream) THEN Len(stream) ELSE n

Take(n) == stream' = SubSeq(stream, n + 1, Len(stream))

(* An argument is complete, and with the last one the message is. *)
ArgDone(a) ==
  LET all == Append(args, a) IN
  IF Len(all) = NArgs[command]
    THEN /\ received' = Append(received, [command |-> command, args |-> all])
         /\ args' = <<>>
         /\ rpc' = "command"
    ELSE args' = all /\ rpc' = "length" /\ UNCHANGED received

(* A byte that is read as a command is one (LengthAgrees keeps the reader  *)
(* and the writer together), so the lookup in commands[] succeeds.         *)
ReadCommand ==
  /\ rpc = "command"
  /\ \/ /\ stream # <<>>
        /\ \E c \in DOMAIN Code : Code[c] = stream[1] /\ command' = c
        /\ Take(1)
        /\ rpc' = "length"
        /\ UNCHANGED <<args, arg, len, received>>
     \/ EndOfFile /\ Fail
  /\ UNCHANGED writerVars

(* Mutant of ReadLength: the end of file within a message is no failure. *)
ReadLengthWaits ==
  /\ rpc = "length"
  /\ Len(stream) >= 4
  /\ Take(4)
  /\ arg' = <<>>
  /\ len' = Decode(SubSeq(stream, 1, 4))
  /\ UNCHANGED command
  /\ \/ len' = 0 /\ ArgDone(<<>>)
     \/ len' # 0 /\ rpc' = "payload" /\ UNCHANGED <<args, received>>
  /\ UNCHANGED writerVars

ReadLength ==
  /\ rpc = "length"
  /\ \/ /\ Len(stream) >= 4
        /\ Take(4)
        /\ arg' = <<>>
        /\ len' = Decode(SubSeq(stream, 1, 4))
        /\ UNCHANGED command
        /\ \/ len' = 0 /\ ArgDone(<<>>)
           \/ len' # 0 /\ rpc' = "payload" /\ UNCHANGED <<args, received>>
     \/ EndOfFile /\ Fail
  /\ UNCHANGED writerVars

(* Mutant of ReadPayload: what the first read() returns is the argument. *)
ReadPayloadOnce ==
  LET n == Count(len) IN
  /\ rpc = "payload" /\ stream # <<>>
  /\ Take(n)
  /\ arg' = arg \o SubSeq(stream, 1, n)
  /\ len' = len - n
  /\ UNCHANGED command
  /\ ArgDone(arg')
  /\ UNCHANGED writerVars

(* One round of the loop.  At end of file read() returns 0, len stays, and *)
(* the loop goes round for ever: there is no step for it here.             *)
ReadPayload ==
  LET n == Count(len) IN
  /\ rpc = "payload" /\ stream # <<>>
  /\ Take(n)
  /\ arg' = arg \o SubSeq(stream, 1, n)
  /\ len' = len - n
  /\ UNCHANGED command
  /\ \/ len' = 0 /\ ArgDone(arg')
     \/ len' # 0 /\ UNCHANGED <<rpc, args, received>>
  /\ UNCHANGED writerVars

Reader == ReadCommand \/ ReadLength \/ ReadPayload

-----------------------------------------------------------------------------
WireInit ==
  /\ stream = <<>>
  /\ wpc = "idle" /\ i = 1 /\ total = 0 /\ written = <<>>
  /\ message = [command |-> "RESPONSE", args |-> <<>>]
  /\ rpc = "command" /\ command = "RESPONSE" /\ args = <<>> /\ arg = <<>>
  /\ len = 0 /\ received = <<>>

WireNext == Writer \/ Close \/ Reader

WireSpec == WireInit /\ [][WireNext]_wireVars

(* The reader runs whenever it is not blocked. *)
WireFairSpec == WireSpec /\ WF_wireVars(Reader)

-----------------------------------------------------------------------------
Channel == INSTANCE FepChannel WITH Message <- Messages

(* The wire protocol implements the channel of whole messages. *)
Implements == Channel!ChannelSpec

(* The reader is where the writer was: while it reads an argument, len is  *)
(* what is missing of that argument of the message it will return next.    *)
LengthAgrees ==
  rpc = "payload" =>
    LET m == Append(written, message)[Len(received) + 1]
    IN  Len(arg) + len = Len(m.args[Len(args) + 1])

(* The bytes of a message: those of argument a come after its first       *)
(* At(m, a) bytes, and no command has more than three arguments.           *)
At(m, a) ==
  1 + (IF a > 1 THEN 4 + Len(m.args[1]) ELSE 0)
    + (IF a > 2 THEN 4 + Len(m.args[2]) ELSE 0)
    + (IF a > 3 THEN 4 + Len(m.args[3]) ELSE 0)

Size(m) == At(m, Len(m.args) + 1)

ByteAt(m, o) ==
  LET a == IF o <= At(m, 2) THEN 1 ELSE IF o <= At(m, 3) THEN 2 ELSE 3
      k == o - At(m, a)
  IN  IF o = 1 THEN Code[m.command]
      ELSE IF k <= 4 THEN Word(Len(m.args[a]))[k]
      ELSE m.args[a][k - 4]

(* The messages that are written, and the one that is being written. *)
Msgs == Append(written, message)

Reading == Len(received) + 1    \* the message that the reader is at

Writing == Len(written) + 1     \* the message that the writer is at

(* How many bytes of its message the reader has taken. *)
Taken ==
  IF rpc = "command" THEN 0
  ELSE At(Msgs[Reading], Len(args) + 1)
         + (IF rpc = "payload" THEN 4 + Len(arg) ELSE 0)

(* The bytes str are those of the messages M[r], ..., M[w]: M[k] begins    *)
(* after the first B[k] of them (before them, if B[k] is negative), and    *)
(* byte n of M[w] is the last one.                                         *)
Placed(str, M, r, w, B, n) ==
  /\ Len(str) = B[w] + n
  /\ \A k \in r .. w - 1 : B[k + 1] = B[k] + Size(M[k])
  /\ \A k \in r .. w : B[k] <= B[w]
  /\ \A k \in r .. w : \A o \in 1 .. Size(M[k]) :
       B[k] + o \in 1 .. Len(str) => str[B[k] + o] = ByteAt(M[k], o)

Layout(B, n) ==
  /\ Reading <= Writing
  /\ B[Reading] = -Taken
  /\ Placed(stream, Msgs, Reading, Writing, B, n)

(* The writer has written n bytes of its message. *)
WriterOK(n) ==
  /\ wpc \in {"idle", "length"} => total = 0
  /\ wpc = "idle" => n = 0
  /\ wpc \in {"length", "payload"} =>
       /\ message \in Messages
       /\ i \in 1 .. NArg
       /\ n = At(message, i) + (IF wpc = "payload" THEN 4 + total ELSE 0)
  /\ wpc = "payload" => total < Len(message.args[i])
  /\ n # 0 => n < Size(message) /\ message \in Messages

(* What the reader has is the beginning of its message. *)
ReaderOK ==
  LET m == Msgs[Reading]
      a == Len(args) + 1
  IN
  /\ rpc = "command" => args = <<>>
  /\ rpc \in {"length", "payload"} =>
       /\ m \in Messages
       /\ command = m.command
       /\ a <= Len(m.args)
       /\ \A k \in 1 .. Len(args) : args[k] = m.args[k]
  /\ rpc = "payload" =>
       /\ len > 0 /\ Len(arg) + len = Len(m.args[a])
       /\ \A k \in 1 .. Len(arg) : arg[k] = m.args[a][k]

WireTypeOK ==
  /\ stream \in Seq(0 .. 255)
  /\ wpc \in {"idle", "length", "payload", "closed"}
  /\ i \in Nat /\ total \in Nat
  /\ written \in Seq(Messages)
  /\ rpc \in {"command", "length", "payload", "failed"}
  /\ command \in DOMAIN Code
  /\ args \in Seq(Seq(0 .. 255)) /\ arg \in Seq(0 .. 255)
  /\ len \in Int
  /\ received \in Seq(Messages)

(* Where the messages begin, counted from the reader. *)
Starts ==
  LET B[k \in Reading .. Writing] ==
        IF k = Reading THEN -Taken ELSE B[k - 1] + Size(Msgs[k - 1])
  IN  B

(* The bytes in the socket are what is between the reader and the writer:  *)
(* the rest of the message that the reader is at, the messages after it,   *)
(* and the beginning of the one that the writer is at, no byte missing,    *)
(* changed or twice, however the calls of read() and write() cut them.     *)
SocketHolds ==
  /\ WireTypeOK
  /\ rpc # "failed" =>
       /\ \E n \in 0 .. Taken + Len(stream) : Layout(Starts, n) /\ WriterOK(n)
       /\ ReaderOK

(* Every message that is written is received some time. *)
Delivered ==
  \A n \in 1 .. MaxMessages : (Len(written) >= n) ~> (Len(received) >= n)

(* When the peer has gone the reader comes to its end and returns -1, what *)
(* the peer was doing notwithstanding, save one case: within an argument   *)
(* it stays in its loop (_fep_read_control_message).                       *)
ReaderReturns ==
  (wpc = "closed") ~> (rpc = "failed" \/ (rpc = "payload" /\ EndOfFile))
=============================================================================
