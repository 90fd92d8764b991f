# A TLA+ model of libfep

libfep puts a *front end processor* between a terminal and the program that
runs in it.  The process `fep` starts a shell on a pty, copies the terminal's
input to it and its output back, and lets *clients* (input methods, for
instance) connect to a UNIX socket.  A client is offered every key before the
shell gets it, may consume it, may send text to the shell, and may show text
at the cursor or at the bottom line of the terminal.

This directory holds TLA+ modules for the protocol between fep and its
clients, fep's main loop, the byte format of the messages, the translation of
keys, what is on the terminal, and the GLib binding with the message queue
below it; TLC configurations that check them on small instances; and TLAPS
proofs.

1. [The system](#1-the-system)
2. [The modules](#2-the-modules)
3. [The model and the code](#3-the-model-and-the-code)
4. [The runs](#4-the-runs)
5. [Fairness](#5-fairness)
6. [What is proved](#6-what-is-proved)
7. [Where the code and its documents disagree](#7-where-the-code-and-its-documents-disagree)
8. [What is not modelled, and what comes next](#8-what-is-not-modelled-and-what-comes-next)

## 1. The system

| Part | Source | State | Operations | Modelled in |
|---|---|---|---|---|
| main loop | `fep/fep.c`, `fep/input.c` | `clients[]`, `n_clients`, `winsize`, the descriptors, the flags of `signal_handler`, `buf` | `fep_run`, `main_loop`, `_fep_pselect`, `handle_*_signal`, `done` | `FepServer`, composed in `FepSystem`; the bytes it reads in `FepInput` and `FepScreen` |
| control | `fep/control.c` | `clients[]`, the messages put aside during an exchange | accept, `_fep_read_control_message_from_fd`, `_fep_dispatch_control_message`, `_fep_transceive_control_message` | `FepServer` |
| client library | `libfep/client.c` | `FepClient`: the socket, the filter, `filter_running`, `messages` | open, five API calls, `fep_client_dispatch`, close | `FepClient` |
| wire protocol | `libfep/control.c`, `libfep/private.h` | none between calls; the bytes in the socket | `_fep_write_control_message`, `_fep_read_control_message` | `FepWire`, promised by `FepChannel`, used by `FepSocket` |
| message queue | `libfep/list.c` | a linked list | append, flush | `FepList`; a sequence in `FepClient` and `FepServer` |
| terminal, child, signals | (the surroundings of `fep/fep.c`) | input typed, size, raw mode, the pty, pending signals | key, resize, signals, hangup, output, exit | `FepTerminal`, external |
| terminal output | `fep/output.c` | `cursor`, `cursor_save`, `cursor_text`, `status_text`, the attributes `attr`, `attr_tty`, `attr_pty` | draw the texts, copy the child's output, scroll region, resize | `FepScreen`, on the terminal `FepTty` |
| attributes, capabilities | `fep/sgr.c`, `fep/csi.c`, `fep/cap.c` | `sgr_codes[]` | parsing and formatting of control sequences | `FepCsi`, `FepSgr` |
| key translation | `fep/key.c`, `libfep/keydefs.h` | none | `_fep_esc_to_key`, `_fep_char_to_key`, `_fep_key_to_string` | `FepKey`, used by `FepInput` |
| strings, logging | `libfep/string.c`, `libfep/logger.c` | buffers | splitting, truncating, logging | splitting and truncating, in `FepCsi` and `FepScreen` |
| GLib binding | `libfep-glib/` | a GObject around a `FepClient` | new, API, dispatch with three signals, finalize | `FepGClient` |
| command line | `fep/main.c`, `tools/cli.c` | none | | no |

### How the parts interact

fep is **one thread**.  It waits in `pselect` for the terminal, the pty, the
listening socket and the clients; signals are blocked everywhere else.  One
round of `main_loop` reads keys from the terminal, then output from the pty,
then accepts at most one connection, then reads at most one message from each
client that `pselect` found readable.

For each key, fep runs an *exchange* with every client in turn
(`_fep_transceive_control_message`): it writes `KEY_EVENT` and blocks until a
`RESPONSE` comes.  Whatever else the client has written comes first and is put
aside; it is executed when the exchange ends.  If no exchange succeeded, fep
writes the key to the child itself.  If one did, the client is responsible for
the key: either its filter has handled it, or the client library *sends the
key back* in a `SEND_DATA`.  A resize runs the same exchange with
`RESIZE_EVENT`.

A client is one thread as well.  It calls the API when it likes; inside
`fep_client_dispatch`, while its filter runs, the same calls only queue their
messages, and these are written after the `RESPONSE`.

### What is hard about it

- A client may come, call the API, close or die between any two of fep's
  system calls, in particular while fep waits for it.
- Both sides write without being asked (requests of fep, API calls of the
  client), and two places of fep read from a client: order must survive that.
- `fds` is computed before the exchanges and used after them.
- The table of clients changes while it is being walked.
- Signals wait for two things: for the end of an exchange, and for `pselect`
  to find no descriptor ready.
- Lengths on the wire are assembled from `char`s, whose sign depends on the
  platform.
- `read()` cuts the input and the child's output anywhere, in the middle of a
  key or of a control sequence, too.
- fep and the child write to one terminal, which has one cursor, one slot for
  a saved cursor, and one current attribute.  fep does not know where the
  child's cursor is.
- A program's handlers run within `fep_client_dispatch` and call back into the
  library; what they queue is freed in the same call.

### What makes each part correct

| Part | Properties |
|---|---|
| exchange | `Lockstep`, `ExchangeSucceeds`: one request, one answer, never mixed up |
| keys | `KeyOnce`, `KeyNotLost`, `KeysInOrder`, `KeysSettle`: once, in order, and lost only with a client that dies owing one |
| API calls | `StreamConserved`, `CallsServed` |
| main loop | `NoBlockingRead`, `TableExact`, `LoopInv`, `TypeOK` |
| signals | `SizeFollows`, `TermEnds` |
| wire | `LengthAgrees`, `SocketHolds`, `Implements` (a channel of whole messages), `Delivered`, `ReaderReturns` |
| input | `SourcesKept`, `KeysWhole`, `ForwardFaithful`: no byte is lost, keys keep their meaning, there and back |
| screen | `StatusShown`, `CursorKept`, `CursorTextShown`, `CursorTextGone`, `ChildTextKept`, `NothingLost`: the child does not notice fep, and fep's texts stay |
| queue, binding | `ListInv`, `CellsOwned`, `AppendSafe`, `HandledConsumed`, `ImplementsClient` |

`PROJECT.json` lists the hazards these are for, each with its line of the
code, and those that no property covers yet.

## 2. The modules

```
  FepChannel <----------- FepWire <------ MCFepWire, FepWireProofs
  (abstract)  refinement
      .
      . promises what FepSocket takes for granted
      .
  FepSocket <---- FepClient <----+<...refinement... FepGClient <--- MCFepGClient,
      ^                          |                   |      |       FepGClientProofs
      +--- FepServer <-----------+---- FepSystem     |      v
      ^       |                            ^         |   FepList
      |       v                            |         |
      |    FepTerminal                     +--- MCFepSystem, FepSystemProofs
      +----------------------------------------------+

  FepSystemProofs <------ FepStreamProofs <------ FepKeyProofs

  FepCsi <--- FepKey <--- FepInput <------ MCFepInput, FepInputProofs
      ^                                                       |
      +------ FepCsiProofs <----------------------------------+
      |                    <--------------------------------------------+
      +------ FepSgr <--- FepTty <--- FepScreen <--- MCFepScreen, FepScreenProofs
```

(Arrows are `EXTENDS`, except the refinements, which are `INSTANCE`s.)

- **FepSocket**: the connections and the listening socket; messages.
- **FepTerminal**: terminal, child and signals.  `Budget` bounds the events, but
  for those in `Endless`, which may happen any number of times.
- **FepClient**: the client library, one client per connection.
- **FepServer**: fep's main loop and its half of the exchange.
- **FepSystem**: the four composed, fairness, and all the properties.
- **FepChannel**: what one direction of a connection promises.
- **FepWire**: the reader and the writer of messages, `read()` by `write()`.
- **FepCsi**: control sequences and the splitting of their parameters.
- **FepKey**: the tables and functions of `fep/key.c`.
- **FepInput**: the terminal's input, from bytes to key events, and back to
  the child's bytes.
- **FepSgr**: attributes of characters and the sequence that sets them;
  `GetSgrCodes` fills `sgr_codes[]`, which is `fep.sgrCodes` in FepScreen.
- **FepTty**: the terminal that fep writes to, external: cells, cursor, scroll
  region, saved cursor, attributes.
- **FepScreen**: `fep/output.c` and the handlers that use it, on that terminal.
- **FepList**: `libfep/list.c`, cell by cell, on a heap.
- **FepGClient**: a program that uses the GLib binding: `libfep-glib`,
  `client.c` and `list.c` in one module, with fep as the environment.
- **MC...**: the constants as TLC needs them, and the symmetry set.
- **...Proofs**: the theorems.  FepSystemProofs has those about the exchange,
  the size and the table, FepStreamProofs and FepKeyProofs those about the
  stream and the keys.  FepCsiProofs has no theorem of its own: it holds
  induction over numbers, folds as sequences of steps, and what FepCsi computes
  of any string, for the proofs about the input and the screen.

`FepClient` is the abstract specification of a client in two senses: FepSystem
composes it with fep, and FepGClient, which has the signals, the handlers and
the cells of the queue, is shown to implement it.  What FepSystem shows of the
protocol therefore holds for programs on the binding, too.

FepInput and FepScreen are not composed with FepSystem.  A numbered key of
FepServer stands for an event of FepInput (`NextKey` there is `NextKey` of
FepServer with its bytes), and one `"SET_STATUS_TEXT"` or
`"SET_CURSOR_TEXT"` that FepServer executes is a step of FepScreen: the main
loop is one thread, which executes them one after the other.

FepSystem treats a message as the unit of transfer.  FepWire is the reason why
it may: it implements FepChannel, whose steps are the writing and the reading
of whole messages.  FepWire does *not* give what FepSystem assumes in two
cases (section 7), so FepSystem's results hold for messages with arguments
whose length bytes are below 128 (or an unsigned `char`), and for clients that
do not die within an argument.

Each module also holds a few operators marked "Mutant of ...": the operator
that follows them, changed as a plausible bug would change it.  No action uses
them.  `PROJECT.json` pairs every property of a passing run with a mutant; with
the mutant in place, TLC must find that property violated.

## 3. The model and the code

`PROJECT.json` maps each definition to the lines it models.  In short:

**State.**

| Variable | Code |
|---|---|
| `clients`, `nClients` | `fep->clients`, `fep->n_clients`; `NoFd` is the -1 of an unused entry |
| `fds` | the `fd_set` that `_fep_pselect` fills; `"tty"`, `"pty"`, `"server"` stand for the three other descriptors |
| `keys`, `isHandled`, `idx` | `buf` and the loops of `main_loop` and `handle_winch_signal` over the clients |
| `req`, `queued`, `retval` | the locals of `_fep_transceive_control_message` |
| `signals`, `pending` | the flags that `signal_handler` has set; the signals the kernel holds |
| `winRows`, `region`, `ptyRows`, `termRows` | `fep->winsize.ws_row`, the scroll region, and the sizes that the kernel keeps for the pty and the terminal |
| `phase`, `request`, `messages` | where a client is in `fep_client_dispatch`, the message it dispatches, `client->messages` |
| `c2s`, `s2c`, `cli`, `srv`, `backlog`, `listening` | the two directions of each connection, its two ends, the accept queue |
| `pc` | where fep is; each value is a place where a client, the child or the user may act before fep does |
| `tty`, `buf`, `sent` (FepInput) | bytes typed and not read; `buf + i` in `main_loop`; what the child got for the last key |
| `tty`, `fep` (FepScreen) | the terminal; the fields of `struct Fep` that `output.c` uses |
| `heap`, `head`, `todo`, `retval` (FepGClient) | the cells of `client->messages` that are allocated, its first one; the handlers still to run and the return value of `event_filter` |
| `effects`, `issued`, `consumed`, `handled`, `plain`, `events`, `taken`, `typed`, ... | histories, read by the properties only: what fep executed, what clients asked for, which keys filters took |

**Actions.**  A step of fep runs from one system call that other processes can
observe to the next.

| Action | Code |
|---|---|
| `PselectReady`, `PselectSignal` | `_fep_pselect`, with or without a descriptor ready |
| `handle_term_signal`, `handle_winch_signal`, `handle_tstp_signal`, `SignalsDone`, `Continue` | the branch of `main_loop` after a signal; `SIGCONT` |
| `ReadTty`, `ReadTtyError`, `NextKey` | the part of `main_loop` for `tty_in` |
| `SendRequest`, `SendFails`, `SendKills` | `_fep_transceive_control_message` up to the read; the write to a closed peer fails, or kills fep if `SIGPIPE` is not ignored |
| `WaitResponse`, `FlushQueued`, `TransceiveReturn`, `RequestDone` | its loop, its end, and the end of the loop over the clients |
| `ReadPty`, `WaitPid`, `AcceptClient` | the parts for the pty and the listening socket, `waitpid` in `fep_run` |
| `ReadClient`, `ClientsDone` | the loop over the clients, with the removal of a client (`RemoveClient`, `Moved`) |
| `fep_client_open`, `Call`, `fep_client_close` | the API; its five requests differ only in the message |
| `Dispatch`, `FilterReturn`, `Flush` | `fep_client_dispatch`, before the filter, after it, and each message of the queue |
| `Die` | a client dies inside a dispatch |
| `Type`, `Read`, `NextKey` (FepInput) | the user; `_fep_read`; one round of the loop over `buf`, with each of the ways the key can go |
| `ChildWrites`, `SetCursorText`, `SetStatusText`, `Winch`, `Done` (FepScreen) | the part of `main_loop` for the pty, two commands of `fep/control.c`, `handle_winch_signal`, `done`; each function of `output.c` is an operator on the terminal and `struct Fep` |
| `fep_g_client_new`, `Call`, `Dispatch`, `ClosureReturns`, `SecondSignal`, `FilterReturn`, `Flush`, `fep_g_client_finalize` (FepGClient) | the binding; a handler returns; the second emission of `event_filter`; its end with the `RESPONSE`; one round of the flush |
| `WriteCommand`, `WriteLength`, `WritePayload`, `Close` | `_fep_write_control_message`, one per `write()`; the writer closes or dies |
| `ReadCommand`, `ReadLength`, `ReadPayload` | `_fep_read_control_message`, one per `read()` |

**Abstractions.**

- A message carries its command, the command it answers, and *one* number: the
  number of the key, the rows of a resize, or the number of the API call.  The
  properties tell messages apart by these and by nothing else.
- In FepSystem keys are whole and numbered; FepInput has their bytes.
- Only rows have a size; columns are copied wherever rows are.
- `RemoveClient` copies entries as `memmove` copies bytes: its count is too
  small by a factor of `sizeof (int)`.  `Moved` says how many entries change,
  and assumes that descriptors are below 256 and that an `int` has four bytes,
  least significant first.
- A descriptor number is never used again for a later connection.  fep
  calls `close` and drops the entry together, so that a reused number could
  matter only for a table that `RemoveClient` has already corrupted.
- A closed descriptor left in the table makes `pselect` fail with `EBADF` for
  ever: `main_loop` goes round without doing anything, which is a state
  without a step of fep.
- After a write past the end of `clients[]` nothing can be said: `pc` becomes
  `"undefined"` and fep takes no further step.
- In FepWire, the sending of the bytes of an argument may be cut short; the
  command byte and the length words are sent whole, as they are by a
  stream socket that has room for four bytes, which is what the code assumes.
- In FepInput the capabilities of the terminal are a constant.  Byte 0 is
  only ever a key of its own.
- In FepScreen characters are one column wide, the number of columns does not
  change, and a resize of the window and its SIGWINCH are one step.  What the
  child writes at once is read at once, as a sequence of tokens, whose sizes in
  bytes matter to `_fep_csi_scan` (`LastSgr`).
- FepTty is an xterm: the restored cursor brings its attribute with it, erased
  cells have no colour, and a resize resets the scroll region.
- `has_cpr` is 0 (`fep/output.c:478`): its branches are not modelled.
- FepGClient gives up the last reference outside of a dispatch only.  `Closures`
  says which handlers GLib runs for a signal, and in which order.

## 4. The runs

`CHECK_DEADLOCK FALSE` stands in every configuration: the user may stop
typing, fep may end, and a client may never call anything, so that a state
without successors is a legal end, not an error.  That fep does not get stuck
before is what the liveness runs check.

**Runs that pass.**

| Run | Instance | Shows |
|---|---|---|
| `Keys` | 1 client that may die, 3 keys, end of input, 2 calls, output, exit | `KeyOnce`, `KeyNotLost`, `KeysInOrder`, `StreamConserved`; the inductive invariants `StreamInv`, `KeyPlaceInv`, `KeyTrailInv` |
| `TwoClients` | 2 clients that may die, 1 call each, a key and a resize, `SIGPIPE` ignored, symmetry | `TableExact`, `NoBlockingRead`, `Lockstep`, `ExchangeSucceeds`; the inductive invariants `IInv`, `TableInv` |
| `Signals` | 1 client that may die; any number of resizes (0 or 3 rows), termination signals, SIGTSTPs and outputs; exit | `TypeOK`, `SizeFollows`, `TermEnds`; the inductive invariant `SizeInv` |
| `Live` | 2 clients, 1 call each, 1 key, any number of outputs | `KeysSettle`, `CallsServed` |
| `Wire` | all 8 commands, arguments of 1 or 130 bytes, 2 messages, writes cut short, unsigned `char` | `LengthAgrees`, `SocketHolds`, `Implements`, `Delivered`, `ReaderReturns` |
| `Input` | 3 strokes of 15, reads of up to 8 bytes, the first two of them cut anywhere | `TypeOK`, `SourcesKept`, `KeysWhole`, `ForwardFaithful` |
| `Screen` | a terminal of 3 or 4 rows and 3 columns, 4 handlers, 11 outputs of the child, 3 texts, 2 attributes | `TypeOK`, `StatusShown`, `CursorKept`, `CursorTextShown`, `CursorTextGone`, `ChildTextKept`, `NothingLost` |
| `GClient` | 4 cells, 3 calls, 2 requests, 2 or 3 handlers for each signal | `ListInv`, `CellsOwned`, `AppendSafe`, `HandledConsumed`, `ImplementsClient` |

**Why these bounds.**

- *Keys.*  Two keys in one read are what it takes for a client to leave
  between two exchanges; three, for one to be answered, one to be sent back,
  and one to be written by fep.
- *Clients.*  Two are enough for one to answer while another is waited for.
  The removal of a client is right for up to two clients and wrong from three
  on: runs about the table use two; `BugTable` shows the fault with three.
  `IInv` does not depend on the table, and is proved for any number.
- *`Keys` has one client*, because with two `KeyOnce` does not hold: each client
  that leaves a key unhandled sends it back (`libfep/client.c:319`).
  `SIGPIPE` has its default there, because when it is ignored `KeysInOrder` does
  not hold: after a failed write nothing of that client is read in the
  exchange, and a key it has sent back comes after the next one
  (`fep/control.c:263`).
- *`TwoClients` ignores `SIGPIPE`*, so that fep lives on after a write to a
  client that has gone, and the exchanges go on with the next client.
- *Calls.*  One call can be written at once or queued; two are needed for the
  two ways to be mixed, and for one to be put aside.
- *Resizes.*  Any number in `Signals`: one more may come between SIGWINCH and
  TIOCGWINSZ, and during the exchanges; 0 rows is the value at which
  `ws_row--` wraps.
- *Output.*  Any number in `Signals` and `Live`.  With a bound the child would
  come to rest, and nothing could starve: `main_loop` looks at the flags of
  `signal_handler` only when `pselect` returns no descriptor (`fep/fep.c:342`),
  so that a child that does not stop writing keeps SIGTERM from fep for ever.
  `TermEnds` therefore has the exception `Starved`: a descriptor is ready in
  `pselect` again and again.  Without it TLC finds such a child.  Keys and API
  calls need no exception, because each round of `main_loop` comes to every
  descriptor.
- *End of input* is left out of `Signals`, because `TermEnds` does not hold
  after it (`BugEof`); `Keys` has it.
- *Crashes.*  A client in `Crashable` may die at each step of a dispatch; every
  client may close when idle.
- *Messages on the wire.*  Two, for a first message to be followed by the
  command byte of another; nothing a reader keeps outlives a message.  130 is
  a length whose low byte is above 127, and two halves of 65 bytes let the
  reader come between two writes of one argument.
- *Strokes.*  Three: one before and one after the key in question.  Longest
  is a sequence of six bytes; with a buffer of eight a read may be full in the
  middle of one, and the first two reads may end anywhere else, so that a key
  may be cut at both ends.  `O`, `[` and `A` are strokes of their own: after an
  Escape in the same read the first two are taken for the introducer of a
  sequence, which `A` may end.  `KeysWhole` exempts what follows in that read
  (`Blurred`).  The keyboard has no key that ends in the middle of a sequence,
  as the ESC [ of a terminal that prefixes ESC for Alt would be; TLC evaluates
  the conditions that the theorems have, `XtermKeys` and `XtermCaps`.
- *The screen.*  Four handlers are enough for a text to be drawn, the child to
  write over it, another to be drawn, and the screen to be resized or left.
  Three columns let a text of two characters fit in one place and one of four
  nowhere; three rows leave two for the child, so that it scrolls.  An
  attribute with an end index of 257 goes through the `uint8_t`.
- *Cells.*  Three calls and the key that is sent back are the most messages
  that can be queued: four cells never run out, and are used again in the
  second dispatch.

What the properties of `Screen` leave out, each by a named condition: the time
between a resize and the next, in which the scroll region is that of the
size before (`RegionRight`); a child that restores the cursor where fep has
saved it (`astray`); a text that runs beyond the last column (`spilled`); a
child that erases the screen with a sequence that is not terminfo's (`erased`);
a text without attribute but with a start index (`Complete`).  The code does
nothing about these; they are listed as hazards.

**Runs that find a violation** are in section 7.

## 5. Fairness

`FairSpec` assumes three things, each for a reason in the code:

- `WF(ServerStep)`: fep is one process and runs when it is not blocked.  Weak
  fairness is for fep as a whole: no choice of what it does is assumed.
- `WF(Resume)`: a stopped fep is resumed some time.  It is an assumption about
  the user; without it nothing can be promised of a stopped process.
- `WF(Answer(c))` for each client: a client that has been sent a request goes
  through `fep_client_dispatch`, and its filter returns.  The code depends on
  it: fep waits for the answer without a timeout.

Nothing is assumed of keys, signals, the child, connections, API calls, or of
clients dying; in particular, not that the child ever stops writing (section 4,
*Output*).  Keys, connections and API calls are bounded in the runs.  A client may die instead of answering; fep then reads end of
file.

`WireFairSpec` assumes `WF(Reader)` only: whoever has called
`_fep_read_control_message` goes on while there is something to read.  A writer
may stop at any byte.

## 6. What is proved

All constants are arbitrary, subject to the named `ASSUME`s of the modules:
any set of connections, any table size above 0, any bounds on keys and on other events, or none on the latter, any API
commands, any set of clients that may die, with and without `SIGPIPE`; any
messages and any cuts on the wire; any handlers, any number of cells.  Where a
theorem needs more, the third column says what.

| Theorem | Says | Provided that |
|---|---|---|
| **The system** | | |
| `Invariance`, `TypeCorrect` | `[]IInv`, `[]TypeOK` | |
| `LockstepHolds` | `[]Lockstep` | |
| `AnswersAccepted` | `ExchangeSucceeds` | |
| `SizeFollowsHolds` | `[]SizeFollows` | |
| `SizeInvariance` | `[]SizeInv` | |
| `StreamInvariance`, `StreamConservation` | `[]StreamInv`, `[]StreamConserved` | |
| `TableInvariance`, `TableExactHolds`, `NoBlockingReadHolds` | `[]TableInv`, `[]TableExact`, `[]NoBlockingRead` | `LateRemovals` |
| `TwoAtATime` | `LateRemovals`, and so the table is exact and no read blocks | at most two clients at a time |
| `KeyPlaceInvariance` | `[]KeyPlaceInv` | `LateRemovals` |
| `KeyNotLostHolds`, `TwoClientsLoseNoKey` | `[]KeyNotLost` | `LateRemovals`; at most two clients at a time |
| `KeyTrailHolds`, `KeyOnceHolds` | `[]KeyTrailInv`, `[]KeyOnce` | one client at a time |
| `KeysInOrderHolds` | `[]KeysInOrder` | one client at a time, `SIGPIPE` not ignored |
| **The wire** | | |
| `WireImplements` | `Implements`: the bytes are a FepChannel of messages | `LengthsSurvive` |
| `SocketAlwaysHolds`, `LengthAgreesHolds` | `[]SocketHolds`, `[]LengthAgrees` | `LengthsSurvive` |
| `LengthRoundTrip`, `ShortLengths` | a length below 2^31 is decoded as it was written where `char` is unsigned or its three low bytes are below 128 | |
| `LongLengthsLost` | where `char` is signed, a length whose low byte is above 127 is decoded as a negative number | |
| **The queue and the binding** | | |
| `BindingImplements` | `ImplementsClient`: a program on the binding is a client as FepSystem has it | |
| `ListHolds`, `CellsStayOwned` | `[]ListInv`, `[]CellsOwned` | |
| `EndOfQueueKnown` | `[]AppendSafe` | |
| `HandledStays` | `[]HandledConsumed` | |
| **The input** | | |
| `NoByteLost`, `InputTypes` | `[]SourcesKept`, `[]TypeOK` of FepInput | |
| `ForwardFaithfulHolds` | `[]ForwardFaithful` | `CapsComplete` |
| `KeysWholeHolds` | `[]KeysWhole` | `KeysKnown`, `KeysComplete` |
| `CharRoundTrip` | a byte read as a key of its own and forwarded is sent as its lower seven bits | |
| **The screen** | | |
| `AttributeRoundTrip`, `WideAttributeLost` | an attribute with fields below 256 arrives as it was sent; an end index of 256 arrives as 0 | |
| `AttributeKnown` | after `apply_attr`, `fep->attr` is what was asked for, and nothing else that fep keeps has changed | |
| `ScreenTypes` | `[]TypeOK` of FepScreen | |
| `StatusShownHolds` | `[]StatusShown` | |
| `CursorTextShownHolds`, `CursorTextGoneHolds` | `[]CursorTextShown`, `[]CursorTextGone` | |
| `CursorKeptHolds`, `ChildTextKeptHolds` | `[]CursorKept`, `[]ChildTextKept` | |
| `NothingLostHolds` | `[]NothingLost` | `EnteringAdds` |

None of the conditions is there for the proof's sake; each one is needed.

- `LateRemovals` says that each client that leaves is one of the last two of
  `clients[]`.  With at most two clients it always is.  Without it the table
  loses a client (`BugTable`).
- *One client at a time*: two clients that both leave a key unhandled both
  send it back, so that `KeyOnce` is false.
- *`SIGPIPE` not ignored*: section 4 says how a key is overtaken otherwise.
- `EnteringAdds` says that the terminal can enter each of the four attributes
  by an SGR that takes nothing away; TLC evaluates it for the xterm of `Screen`
  (`XtermEnters`).  On a terminal without `enter_bold_mode`, TLC finds
  `NothingLost` violated: what the child sets with standout is kept in the bit
  of bold (`BugBold`), which has no parameter there, and `SGR` without
  parameters resets what the child has set.
- `CapsComplete` says that no capability of terminfo ends in the middle of a
  control sequence; `KeysComplete` says the same of what the keyboard sends for
  a key, Escape excepted, and `KeysKnown` that the meaning a key has is the one
  fep finds for its bytes alone.  fep looks for a capability that the sequence
  *begins* with: an ESC [ 1 would be found for every sequence that goes on from
  there, and sent to the child in its place.  A key that ends with ESC [ takes
  the next one into its sequence.  TLC evaluates all three for the xterm of `Input`.
- `LengthsSurvive` holds of every platform with an unsigned `char` and of every
  argument below 128 bytes; `LongLengthsLost` is what happens without it.

**The argument for the exchange.**  `Lockstep` says where the one request that
is under way can be: nowhere; in the socket (`Asked`); with the filter
(`Filtering`); or answered, with exactly one `RESPONSE` among the client's
messages and to that very request (`Answered`); or the client has closed
without an answer (`Gone`).  It is not inductive alone:

- `QueueInv`: a client's queue never holds a `RESPONSE`.  Otherwise
  `Flush` could write a second one.
- `LoopInv`: the entries below `nClients` are connections, and fep's index is
  below `nClients` during an exchange, so that `clients[idx]` is a client; and
  during the exchange about a key, that key is the head of `keys`, which
  `RequestDone` removes.  `RemoveClient` keeps this although it may leave
  duplicates in the table: it moves entries of the used part only.
- `TypeOK`.

`IInv` is the conjunction; TLC checks it in `TwoClients`, and it does not
depend on the table being exact, so that the theorems hold with any number of
clients, the corrupted tables included.  `AnswersAccepted` follows: when
`WaitResponse` meets a `RESPONSE`, `Lockstep` says that it is to `req`, so that
the last check of `_fep_transceive_control_message` accepts it; the only other
way out of the wait is a client that has closed.

In FepSystemProofs each action has a lemma that it preserves types and the
loop invariant, and those that touch a connection have a second one for
`Lockstep`; `ServerIInv`, `NextIInv` and `InitIInv` put them together.  All
later invariants of FepSystem are inductive together with `IInv`.

**The argument for the size.**  A resize makes SIGWINCH pending, and
`handle_winch_signal` clears the flag only with a size read after that.
`SizeInv` adds that a flag is set only in the branch of `main_loop` for
signals, the exchanges of `handle_winch_signal` included.

**The argument for the stream.**  Each action moves a message from one of the
four places of `StreamConserved` to the next.  For the places to be in that
order, nothing may be queued by a client outside of a dispatch, and what is
read from a socket must be a client's message or a `RESPONSE` (`QueuesOK`);
with these, `StreamInv` is inductive for any table, an inexact one included.
`Only`, which picks the effects of one client out of all, is a recursive
function: that it exists, and what it does with an appended element, is proved
first.

**The argument for the table.**  `TableInv` says that the used part of
`clients[]` has no duplicates and is the set of open connections, that the
accept queue holds those still to come, once each, and that what `pselect`
found readable stays readable until it is read, but for the client of the
exchange, whose bit is cleared.  With a count that is too small, `memmove`
moves a byte where it should move an entry.  That is enough for one entry, so
for a client that leaves from the last place but one.

**The argument for the keys.**  `KeyPlaceInv` says that each key is somewhere:
typed and not read, read and not gone through, consumed, asked for by a client,
or written to the child.  When all has come to rest, what a client has asked for
is, by `StreamConserved`, executed, or still queued by a client that has died:
`KeyNotLost`.  `KeyTrailInv` is about one client.  The keys that are on their
way back are put aside, in the socket, and queued in the order they were typed;
all of them come before those not announced yet, and none of them was consumed.
What fep writes itself, after an exchange that failed, overtakes none: such an
exchange has emptied the socket of a client that has closed.

**The argument for the wire.**  `WireInv` is about the layout of the bytes:
there is a sequence of bytes, the concatenation of the messages written, such
that the writer has written a prefix of it, the reader has read a prefix of
that, and the socket holds what is between.  Where the reader is within a
message follows from the number of bytes it has read.  Each `read()` and each
`write()`, however short, moves one of the two marks; a message is complete for
FepChannel when the mark passes its end.

**The argument for the queue.**  `ListInv` says that the allocated cells are a
chain: a sequence of cells, each once, in which `next` leads from each to the
one behind it and ends with the last, and while messages may be appended
`prev` of the first leads to the last.  An append makes a chain with one cell
more at its end, taking the first off makes one without it (`AppendChain`,
`ReleaseChain`), and what `Walk` meets on a chain is the chain
(`ChainIsList`).  Nothing has been taken off when a message is appended, as the
queue is empty when no dispatch is going on.  With the chain for the sequence
`messages` of FepClient, each action maps to an action of FepClient
(`CallMaps`, `DispatchMaps`, `FilterReturnMaps`, `FlushMaps`) or to none: a
closure that returns and the second emission are within FepClient's filter.

**The argument for the answer of a handler.**  `HandledConsumed` alone is not
inductive: while a handler has said TRUE and `event_filter` has not returned,
the emission must be over and `retval` TRUE (`Accepted`), and a key event is
what `filter-key-event` is emitted for.

**The argument for the input.**  A read moves bytes from `tty` to `buf`, a key
from `buf` to `taken`.  So that nothing is lost between them a key must take at
least one byte and at most those of the read: `CSIParse` finds the end of a
sequence within its string (`RunEnd` counts the bytes of a run), and every
other key has one byte.  The rest is about subsequences.

`ForwardFaithful` is about what fep sends to the child for a key, so about two
parses.  A key is read from its own bytes alone: what follows it in `buf` makes
no difference (`SourceAlone`), because a sequence ends at its first final byte
(`CSISame`).  If fep writes the bytes it has read, that is all.  If it writes
`_fep_key_to_string`, there are three cases: a character (`ByteReads`); a cursor
key, where what `_fep_csi_format` makes is parsed back, with the number that
stands for the modifiers (`FormatParse`, `CursorRoundTrip`); and a capability of terminfo,
which is parsed as a whole if it does not break off (`PartBreaksOff`,
`CapAlone`) and then found in the table under its own name.

`KeysWhole` says that a key is announced when all of its bytes are taken.
Inductive is `Whole`, which says so as soon as the first one is: what
`NextKey` takes begins where a key begins, or after a cut or a blur.  For that
the bytes of the strokes must lie one behind the other in what was typed
(`Laid`), and `cuts` be the ends of the reads, the last one at the end of `buf`
(`CutsInv`).  When `NextKey` is at the beginning of a key that is neither cut
nor blurred, it takes that key and no more (`KeyAtStroke`); when it is at
another place, it cannot take a part of one that lies behind
(`KeyAcross`): the only sequence that runs over the end of a complete key
begins with an Escape and an introducer of their own.

**The argument for the screen.**  `CursorKept`, `ChildTextKept` and
`NothingLost` compare the terminal with one that the child has for itself, and
share one inductive invariant, `ScreenInv`.  That the cursors agree is not
inductive: a line feed at the end of the scroll region scrolls, and the child
may go back to what it has saved.  So `Together` also says that the scroll
regions are the same, that the saved positions are the same unless fep has
saved the last one, and that the cells of the child's lines are alike.
`State` is about fep's fields; what matters of them is that `fep->attr` is none
or the child's between two handlers, so that `apply_attr` never resets before
the child's output and sets only what is missing.

A text of fep's goes through `Texted`: whatever the characters are, nothing
below the scroll region changes, the slot and the region stay, and if nothing
wraps only the cursor's line is written.  `Back` is what a complete text of
fep's leaves: the cursor and the attribute it has found, and cells that are
changed by a cursor text at most (`StatusTextBack`, `CursorTextBack`).  What
the child writes is played on both terminals, token by token
(`PlayAllTogether`), and `Follows` joins the two for an output that is cut at
the last clear (`FromPtyFollows`).  The folds of the model are taken apart into
runs, sequences of states each of which follows from the one before
(`PutRuns`, `PlayRuns`, `PartRuns`, `ScanRuns`).

The other three are about fep's own texts, character by character, and follow
from `TextsInv`.  While the scroll region is that of the size, the cursor and
the saved position are in it (`Low`), so that of what the child writes nothing
reaches the last line but `clear_screen` and `clr_eos` (`PlayLow`), behind which
`FromPtyShows` finds it drawn again.  A piece of a text is in the cells from the
cursor on and nowhere else (`Covers`), a text is at most three pieces, each with
its attribute (`ThreeShow`), and it is whole in its place if it has not wrapped
(`StringShows`); the spaces that fill up the last line are such a text, too
(`StatusOver`, `StatusTextBack`).  `Traces` says where a cursor text can be, as
long as the child has not written and the size has not changed while one was
shown (`stray`): only behind the cursor, where it was last drawn, and everything
else of it that is on the screen are spaces.  A new text comes after spaces over
the old one (`SpacesClean`), and those are enough although their number is
computed from a column that is not the cursor's: there are as many as the text
has characters, or as the line has columns.

**On induction.**  The library's induction theorems have an operator for a
parameter, which the provers here cannot instantiate.  Induction over the
length of a sequence or the steps of `Walk` is done with a set of numbers
instead: one that is not empty has a least element (`LeastOf`; `Least` and
`LeastNumber` in modules that do not extend FepCsiProofs), and the least
counterexample is refuted; or one that has 0 and with each number the next has
all of them (`NumberInduction`).  A fold is a recursive function; that it
exists is proved once (`FoldsExist`), and each fold of the model is a
sequence of steps from there.

**Model-checked, not proved.**  The liveness properties (`KeysSettle`,
`CallsServed`, `TermEnds`, `Delivered`, `ReaderReturns`): the prover does not
handle fairness and `ENABLED`.  All other properties of the passing runs are
theorems.

## 7. Where the code and its documents disagree

Each is a run that TLC ends with a counterexample; `PROJECT.json` has the lines
of the code and of the text that it contradicts.

| Run | Property | What happens |
|---|---|---|
| `BugTable` | `CallsServed` | `memmove` is given a number of entries as a number of bytes.  With three clients, when the first leaves, the last one drops out of `clients[]`: what it asks for is never read. |
| `BugSigPipe` | `SurvivesClients` | A client leaves after one event, as `fepcli -e` does, while more keys are in `buf`.  Writing the next `KEY_EVENT` raises SIGPIPE: fep dies and the terminal stays raw. |
| `BugEof` | `WaitsForExitedChild` | End of input on the terminal ends `main_loop` with 0 as the child's exit does; fep then waits, with its signals blocked, for a child that is running. |
| `BugBold` | `BoldStaysBold` | `_fep_sgr_params_to_attr` takes the number of an enumeration, 5, for the bit of bold: when fep has drawn a text, the child's bold characters come out underlined, too. |

`BugTable` is a liveness run under the fairness of section 5: fep runs all the
time and still never gets there.

Three more disagreements have no run of their own:

- `handle_winch_signal` sends the clients the size from before the resize
  (`fep/fep.c:183`), although `libfep/client.h:66` documents the new one; the
  scroll region is set from it as well (`RegionRight` in FepScreen).
- With a signed `char`, a length whose low byte is above 127 is read as a
  negative number (theorem `LongLengthsLost`); `Wire` therefore runs with an
  unsigned one.
- End of file within an argument: `read` returns 0 and the loop in
  `_fep_read_control_message` goes round for ever.  `ReaderReturns` names this
  case as its exception.

## 8. What is not modelled, and what comes next

Not modelled on purpose: log files, growing buffers, the widths of characters,
option parsing, the creation of the socket's directory and file, `fork` and
`termios` but for the raw mode, terminfo padding, `iconv`, the property and the
boxed types of the binding.  They keep no state that other parts depend on.

Known hazards without a property (see `PROJECT.json`): connections beyond
`FEP_MAX_CLIENTS`, which are stored past the end of `clients[]` (`AcceptClient`
then leads to `"undefined"`); two clients that both send a key back; a filter that
never returns; arguments
longer than `BUFSIZ`; the order of keys when `SIGPIPE` is ignored; the raw mode
after a stop; what is left of the screen between a resize and the next; texts
at the cursor that do not fit; SGR parameters that are not decimal; sequences of
`ESC O` that only terminfo knows; Delete, forwarded; attribute fields above
255; an object that is given up within a dispatch.

Planned, in this order:

1. **FepKeyDelivery**: an abstract specification of what a key may become (typed,
   then consumed by a client or delivered to the child, in order), implemented
   by FepSystem with one client.
2. FepScreen with one slot more: what the child sees when it uses the saved
   cursor itself.
