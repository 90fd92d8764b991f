---------------------------- MODULE FepTerminal ----------------------------
(***************************************************************************)
(* What surrounds the fep process and is not under its control: the user's *)
(* terminal, the child process on the pty, and the signals sent to fep.    *)
(* All of it is external; each action is something that may happen at any  *)
(* moment of fep's main loop.                                              *)
(*                                                                         *)
(* Budget bounds how often each thing happens, but for the events that may *)
(* happen for ever: a child need not stop writing.                         *)
(***************************************************************************)
EXTENDS Integers, Sequences

CONSTANTS
  Rows,       \* the numbers of rows the terminal may have
  Budget,     \* Budget[e]: how many times the event e may happen
  Endless     \* if it may at all, these may happen any number of times

Event == {"key", "resize", "term", "tstp", "hangup", "output", "exit"}

Signal == {"TERM", "WINCH", "TSTP"}

UShort == 0 .. 65535      \* unsigned short

ASSUME RowsAssumption == Rows \subseteq UShort /\ Rows # {}
ASSUME BudgetAssumption == Budget \in [Event -> Nat]
ASSUME EndlessAssumption == Endless \subseteq Event \ {"key"}

VARIABLES
  left,       \* left[e]: how many more times e may happen
  ttyin,      \* keys typed and not read by fep yet, by number
  ttyState,   \* "ok", or what a read returns once ttyin is empty
  termRows,   \* rows of the terminal (TIOCGWINSZ on tty_in)
  raw,        \* the terminal is in the raw mode that fep_run sets
  pending,    \* signals sent to fep and not delivered yet
  child,      \* "running" or "exited"
  childOut,   \* the child has written to the pty and fep has not read it
  ptyRows     \* rows of the pty (TIOCSWINSZ on pty)

terminalVars ==
  <<left, ttyin, ttyState, termRows, raw, pending, child, childOut, ptyRows>>

TerminalTypeOK ==
  /\ left \in [Event -> Nat] /\ left["key"] <= Budget["key"]
  /\ ttyin \in Seq(Nat)
  /\ ttyState \in {"ok", "eof", "error"}
  /\ termRows \in Rows
  /\ raw \in BOOLEAN
  /\ pending \subseteq Signal
  /\ child \in {"running", "exited"}
  /\ childOut \in BOOLEAN
  /\ ptyRows \in UShort

(* Mutant of WsRow: computed in an int. *)
WsRowInt(r) == r - 1

(* ws_row is an unsigned short and fep keeps the last row for itself. *)
WsRow(r) == (r - 1) % 65536

TerminalInit ==
  /\ left = Budget
  /\ ttyin = <<>>
  /\ ttyState = "ok"
  /\ termRows \in Rows
  /\ raw = TRUE
  /\ pending = {}
  /\ child = "running"
  /\ childOut = FALSE
  /\ ptyRows = WsRow(termRows)

-----------------------------------------------------------------------------
Spend(e) ==
  /\ left[e] > 0
  /\ left' = IF e \in Endless THEN left ELSE [left EXCEPT ![e] = @ - 1]

(* Keys are numbered 1, 2, ... in the order they are typed. *)
KeysTyped == Budget["key"] - left["key"]

TypeKey ==
  /\ ttyState = "ok"
  /\ Spend("key")
  /\ ttyin' = Append(ttyin, KeysTyped + 1)
  /\ UNCHANGED <<ttyState, termRows, raw, pending, child, childOut, ptyRows>>

ResizeTerminal(r) ==
  /\ r # termRows
  /\ Spend("resize")
  /\ termRows' = r
  /\ pending' = pending \cup {"WINCH"}
  /\ UNCHANGED <<ttyin, ttyState, raw, child, childOut, ptyRows>>

(* SIGHUP, SIGTERM and SIGQUIT are one flag to signal_handler. *)
SendTerm ==
  /\ Spend("term")
  /\ pending' = pending \cup {"TERM"}
  /\ UNCHANGED <<ttyin, ttyState, termRows, raw, child, childOut, ptyRows>>

SendTstp ==
  /\ Spend("tstp")
  /\ pending' = pending \cup {"TSTP"}
  /\ UNCHANGED <<ttyin, ttyState, termRows, raw, child, childOut, ptyRows>>

(* The terminal goes away, or input that is not a tty ends: a read returns *)
(* 0 or an error after what has already been typed.                        *)
EndInput(s) ==
  /\ ttyState = "ok"
  /\ Spend("hangup")
  /\ ttyState' = s
  /\ UNCHANGED <<ttyin, termRows, raw, pending, child, childOut, ptyRows>>

ChildOutput ==
  /\ child = "running"
  /\ Spend("output")
  /\ childOut' = TRUE
  /\ UNCHANGED <<ttyin, ttyState, termRows, raw, pending, child, ptyRows>>

ChildExit ==
  /\ child = "running"
  /\ Spend("exit")
  /\ child' = "exited"
  /\ UNCHANGED <<ttyin, ttyState, termRows, raw, pending, childOut, ptyRows>>

Environment ==
  \/ TypeKey
  \/ \E r \in Rows : ResizeTerminal(r)
  \/ SendTerm
  \/ SendTstp
  \/ \E s \in {"eof", "error"} : EndInput(s)
  \/ ChildOutput
  \/ ChildExit
=============================================================================
