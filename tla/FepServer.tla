----------------------------- MODULE FepServer -----------------------------
(***************************************************************************)
(* fep/fep.c and fep/control.c: the fep process after fep_run has started  *)
(* the child.  It is one thread; every system call that can block, and     *)
(* every point between two system calls where a client, the child or the   *)
(* user may act, is a value of pc.                                         *)
(*                                                                         *)
(*   "pselect"  in _fep_pselect, the only place signals are not blocked    *)
(*   "signals"  the branch of main_loop for a return value <= 0            *)
(*   "tty", "key", "pty", "accept", "clients"   the parts of one round     *)
(*   "send", "wait", "flush"   _fep_transceive_control_message             *)
(*   "stopped"  stopped by the SIGTSTP that handle_tstp_signal sends       *)
(*   "waitpid"  main_loop has returned 0                                   *)
(*   "exited"   through done ();  "killed"  by SIGPIPE                     *)
(*   "undefined"  clients[] has been written past its end                  *)
(***************************************************************************)
EXTENDS FepSocket, FepTerminal

CONSTANTS
  MaxClients,       \* FEP_MAX_CLIENTS
  NoFd,             \* the -1 of an unused entry of clients[]
  SigPipeIgnored    \* fep was started with SIGPIPE ignored

ASSUME MaxClientsAssumption == MaxClients \in Nat \ {0}
ASSUME FdAssumption == NoFd \notin Conn /\ Conn \cap {"tty", "pty", "server"} = {}
ASSUME SigPipeAssumption == SigPipeIgnored \in BOOLEAN

VARIABLES
  pc,
  clients,    \* fep->clients
  nClients,   \* fep->n_clients
  fds,        \* the descriptors pselect found readable
  keys,       \* the keys in buf that main_loop has not gone through
  isHandled,  \* is_key_handled
  idx,        \* i, j: the loop over the clients
  req,        \* the request that goes to every client
  queued,     \* messages that came before the RESPONSE
  retval,     \* _fep_transceive_control_message is to return 0
  signals,    \* the flags set by signal_handler
  winRows,    \* fep->winsize.ws_row
  region,     \* rows in the scroll region of the terminal
  effects     \* history: what fep did for its clients and with the keys

serverVars == <<pc, clients, nClients, fds, keys, isHandled, idx, req, queued,
                retval, signals, winRows, region, effects>>

loopVars == <<keys, isHandled, idx, req, queued, retval>>
tableVars == <<clients, nClients>>
sizeVars == <<winRows, region>>

Slot == 0 .. MaxClients - 1

Fd == Conn \cup {"tty", "pty", "server"}

Pc == {"pselect", "signals", "tty", "key", "send", "wait", "flush", "pty",
       "accept", "clients", "stopped", "waitpid", "exited", "killed",
       "undefined"}

(* An effect: a client's message executed, or a key's input written to the *)
(* pty by main_loop itself.                                                *)
Effect == [from : Conn \cup {"tty"}, cmd : ClientRequest,
           of : ServerRequest \cup {"NONE"}, num : Nat]

ServerTypeOK ==
  /\ pc \in Pc
  /\ clients \in [Slot -> Conn \cup {NoFd}]
  /\ nClients \in 0 .. MaxClients
  /\ fds \subseteq Fd
  /\ keys \in Seq(Nat)
  /\ isHandled \in BOOLEAN
  /\ idx \in 0 .. MaxClients
  /\ req \in Message
  /\ queued \in Seq(Message)
  /\ retval \in BOOLEAN
  /\ signals \subseteq Signal
  /\ winRows \in UShort
  /\ region \in Nat
  /\ effects \in Seq(Effect)

(* fep_new, and fep_run up to main_loop. *)
ServerInit ==
  /\ pc = "pselect"
  /\ clients = [s \in Slot |-> NoFd]
  /\ nClients = 0
  /\ fds = {}
  /\ keys = <<>>
  /\ isHandled = FALSE
  /\ idx = 0
  /\ req = Request("KEY_EVENT", 0)
  /\ queued = <<>>
  /\ retval = FALSE
  /\ signals = {}
  /\ winRows = ptyRows
  /\ region = ptyRows
  /\ effects = <<>>

-----------------------------------------------------------------------------
(* done (), whatever the exit code; the whole terminal scrolls again. *)
Done ==
  /\ pc' = "exited"
  /\ raw' = FALSE
  /\ region' = winRows + 1
  /\ ServerGone
  /\ UNCHANGED <<loopVars, tableVars, fds, winRows, effects, left, ttyin,
                 ttyState, termRows, pending, child, childOut, ptyRows>>

(* The used part of clients[]. *)
Clients == {clients[s] : s \in 0 .. nClients - 1}

Ready ==
  {c \in Clients : Readable(c)}
    \cup (IF ttyin # <<>> \/ ttyState # "ok" THEN {"tty"} ELSE {})
    \cup (IF childOut \/ child = "exited" THEN {"pty"} ELSE {})
    \cup (IF backlog # <<>> THEN {"server"} ELSE {})

(* pselect fails with EBADF, and main_loop calls it again with the same    *)
(* descriptors, as long as a closed descriptor is in the table: nothing    *)
(* changes any more.                                                       *)
PselectOK == pc = "pselect" /\ \A c \in Clients : srv[c] = "open"

PselectReady ==
  /\ PselectOK
  /\ Ready # {}
  /\ fds' = Ready
  /\ pc' = "tty"
  /\ UNCHANGED <<loopVars, tableVars, sizeVars, signals, effects, terminalVars,
                 socketVars>>

(* Mutant of PselectSignal: signal_handler assigns the flag, so that of     *)
(* several signals only the last is remembered.                            *)
PselectSignalLast ==
  /\ PselectOK
  /\ Ready = {} /\ pending # {}
  /\ \E s \in pending : signals' = {s}
  /\ pending' = {}
  /\ pc' = "signals"
  /\ UNCHANGED <<loopVars, tableVars, sizeVars, fds, effects, left, ttyin,
                 ttyState, termRows, raw, child, childOut, ptyRows, socketVars>>

(* Signals are delivered when pselect has nothing to return, and then all  *)
(* the pending ones are.                                                   *)
PselectSignal ==
  /\ PselectOK
  /\ Ready = {} /\ pending # {}
  /\ signals' = pending
  /\ pending' = {}
  /\ pc' = "signals"
  /\ UNCHANGED <<loopVars, tableVars, sizeVars, fds, effects, left, ttyin,
                 ttyState, termRows, raw, child, childOut, ptyRows, socketVars>>

-----------------------------------------------------------------------------
(* Mutant of handle_term_signal: the flag is cleared and done () is not     *)
(* called.                                                                 *)
TermIgnored ==
  /\ pc = "signals" /\ "TERM" \in signals
  /\ signals' = signals \ {"TERM"}
  /\ UNCHANGED <<pc, loopVars, tableVars, sizeVars, fds, effects, terminalVars,
                 socketVars>>

handle_term_signal ==
  /\ pc = "signals" /\ "TERM" \in signals
  /\ signals' = signals \ {"TERM"}
  /\ Done

(* The size that fep had before goes to the terminal and to the clients.   *)
handle_winch_signal ==
  /\ pc = "signals" /\ "TERM" \notin signals /\ "WINCH" \in signals
  /\ signals' = signals \ {"WINCH"}
  /\ winRows' = WsRow(termRows)
  /\ region' = winRows
  /\ ptyRows' = WsRow(termRows)
  /\ req' = Request("RESIZE_EVENT", winRows)
  /\ idx' = 0
  /\ pc' = "send"
  /\ UNCHANGED <<tableVars, fds, keys, isHandled, queued, retval, effects, left,
                 ttyin, ttyState, termRows, raw, pending, child, childOut,
                 socketVars>>

handle_tstp_signal ==
  /\ pc = "signals" /\ signals = {"TSTP"}
  /\ signals' = {}
  /\ raw' = FALSE
  /\ pc' = "stopped"
  /\ UNCHANGED <<loopVars, tableVars, sizeVars, fds, effects, left, ttyin,
                 ttyState, termRows, pending, child, childOut, ptyRows,
                 socketVars>>

(* SIGCONT, which discards a SIGTSTP that is pending; handle_tstp_signal    *)
(* returns without setting the raw mode again.                             *)
Continue ==
  /\ pc = "stopped"
  /\ pending' = pending \ {"TSTP"}
  /\ pc' = "signals"
  /\ UNCHANGED <<loopVars, tableVars, sizeVars, fds, signals, effects, left,
                 ttyin, ttyState, termRows, raw, child, childOut, ptyRows,
                 socketVars>>

SignalsDone ==
  /\ pc = "signals" /\ signals = {}
  /\ pc' = "pselect"
  /\ UNCHANGED <<loopVars, tableVars, sizeVars, fds, signals, effects,
                 terminalVars, socketVars>>

-----------------------------------------------------------------------------
(* The part of main_loop for tty_in.  A read returns what has been typed;  *)
(* 0 ends main_loop with 0, an error ends it with -1.                      *)
ReadTty ==
  /\ pc = "tty"
  /\ \/ /\ "tty" \in fds /\ ttyin # <<>>
        /\ keys' = ttyin
        /\ ttyin' = <<>>
        /\ pc' = "key"
     \/ /\ "tty" \in fds /\ ttyin = <<>> /\ ttyState = "eof"
        /\ pc' = "waitpid"
        /\ UNCHANGED <<keys, ttyin>>
     \/ /\ "tty" \notin fds
        /\ pc' = "pty"
        /\ UNCHANGED <<keys, ttyin>>
  /\ UNCHANGED <<isHandled, idx, req, queued, retval, tableVars, sizeVars, fds,
                 signals, effects, left, ttyState, termRows, raw, pending,
                 child, childOut, ptyRows, socketVars>>

ReadTtyError ==
  /\ pc = "tty" /\ "tty" \in fds
  /\ ttyin = <<>> /\ ttyState = "error"
  /\ Done
  /\ UNCHANGED signals

(* Every key is announced to the clients: _fep_esc_to_key or               *)
(* _fep_char_to_key succeeds for every byte.                               *)
NextKey ==
  /\ pc = "key"
  /\ \/ /\ keys # <<>>
        /\ req' = Request("KEY_EVENT", Head(keys))
        /\ isHandled' = FALSE
        /\ idx' = 0
        /\ pc' = "send"
     \/ /\ keys = <<>>
        /\ pc' = "pty"
        /\ UNCHANGED <<req, isHandled, idx>>
  /\ UNCHANGED <<keys, queued, retval, tableVars, sizeVars, fds, signals,
                 effects, terminalVars, socketVars>>

-----------------------------------------------------------------------------
(* _fep_transceive_control_message with clients[idx]. *)
Peer == clients[idx]

SendRequest ==
  /\ pc = "send" /\ idx < nClients
  /\ ServerWrite(Peer, req)
  /\ queued' = <<>>
  /\ pc' = "wait"
  /\ UNCHANGED <<keys, isHandled, idx, req, retval, tableVars, sizeVars, fds,
                 signals, effects, terminalVars>>

(* Mutant of ClearFd: no FD_CLR. *)
KeepFd == UNCHANGED fds

(* FD_CLR after the exchange of a key. *)
ClearFd == fds' = IF req.cmd = "KEY_EVENT" THEN fds \ {Peer} ELSE fds

(* The peer has closed: EPIPE, if SIGPIPE does not kill fep first. *)
SendFails ==
  /\ pc = "send" /\ idx < nClients
  /\ cli[Peer] = "closed"
  /\ SigPipeIgnored
  /\ ClearFd
  /\ idx' = idx + 1
  /\ UNCHANGED <<pc, keys, isHandled, req, queued, retval, tableVars, sizeVars,
                 signals, effects, terminalVars, socketVars>>

SendKills ==
  /\ pc = "send" /\ idx < nClients
  /\ cli[Peer] = "closed"
  /\ ~SigPipeIgnored
  /\ pc' = "killed"
  /\ ServerGone
  /\ UNCHANGED <<loopVars, tableVars, sizeVars, fds, signals, effects,
                 terminalVars>>

(* Mutant of Accepted: only the answer to a key is. *)
AcceptedKeyOnly(m) == m.of = "KEY_EVENT"

(* The last check of _fep_transceive_control_message. *)
Accepted(m) == m.of = req.cmd

(* Mutant of WaitResponse: a hangup is noticed before what is left to read. *)
WaitResponseHangup ==
  /\ pc = "wait"
  /\ \/ /\ ServerRead(Peer) /\ cli[Peer] = "open"
        /\ LET m == Head(c2s[Peer]) IN
           IF m.cmd = "RESPONSE"
             THEN /\ retval' = Accepted(m)
                  /\ pc' = "flush"
                  /\ UNCHANGED queued
             ELSE /\ queued' = Append(queued, m)
                  /\ UNCHANGED <<pc, retval>>
     \/ /\ cli[Peer] = "closed"
        /\ retval' = FALSE
        /\ pc' = "flush"
        /\ UNCHANGED <<queued, socketVars>>
  /\ UNCHANGED <<keys, isHandled, idx, req, tableVars, sizeVars, fds, signals,
                 effects, terminalVars>>

(* Messages that are not the RESPONSE are put aside. *)
WaitResponse ==
  /\ pc = "wait"
  /\ \/ /\ ServerRead(Peer)
        /\ LET m == Head(c2s[Peer]) IN
           IF m.cmd = "RESPONSE"
             THEN /\ retval' = Accepted(m)
                  /\ pc' = "flush"
                  /\ UNCHANGED queued
             ELSE /\ queued' = Append(queued, m)
                  /\ UNCHANGED <<pc, retval>>
     \/ /\ c2s[Peer] = <<>> /\ cli[Peer] = "closed"
        /\ retval' = FALSE
        /\ pc' = "flush"
        /\ UNCHANGED <<queued, socketVars>>
  /\ UNCHANGED <<keys, isHandled, idx, req, tableVars, sizeVars, fds, signals,
                 effects, terminalVars>>

(* _fep_dispatch_control_message: there are handlers for ClientRequests.   *)
Execute(c, m) ==
  effects' = IF m.cmd \in ClientRequest
               THEN Append(effects, [from |-> c, cmd |-> m.cmd,
                                     of |-> m.of, num |-> m.num])
               ELSE effects

(* Mutant of FlushQueued: an error path returns before the flush. *)
FlushAfterSuccess ==
  /\ pc = "flush" /\ queued # <<>>
  /\ IF retval THEN Execute(Peer, Head(queued)) /\ queued' = Tail(queued)
               ELSE UNCHANGED effects /\ queued' = <<>>
  /\ UNCHANGED <<pc, keys, isHandled, idx, req, retval, tableVars, sizeVars,
                 fds, signals, terminalVars, socketVars>>

FlushQueued ==
  /\ pc = "flush" /\ queued # <<>>
  /\ Execute(Peer, Head(queued))
  /\ queued' = Tail(queued)
  /\ UNCHANGED <<pc, keys, isHandled, idx, req, retval, tableVars, sizeVars,
                 fds, signals, terminalVars, socketVars>>

(* Mutant of TransceiveReturn: a failed exchange counts as handled. *)
TransceiveUnchecked ==
  /\ pc = "flush" /\ queued = <<>>
  /\ isHandled' = (isHandled \/ req.cmd = "KEY_EVENT")
  /\ ClearFd
  /\ idx' = idx + 1
  /\ pc' = "send"
  /\ UNCHANGED <<keys, req, queued, retval, tableVars, sizeVars, signals,
                 effects, terminalVars, socketVars>>

(* Mutant of TransceiveReturn: the answer of a client is not remembered. *)
TransceiveForgets ==
  /\ pc = "flush" /\ queued = <<>>
  /\ ClearFd
  /\ idx' = idx + 1
  /\ pc' = "send"
  /\ UNCHANGED <<keys, isHandled, req, queued, retval, tableVars, sizeVars,
                 signals, effects, terminalVars, socketVars>>

TransceiveReturn ==
  /\ pc = "flush" /\ queued = <<>>
  /\ isHandled' = (isHandled \/ (req.cmd = "KEY_EVENT" /\ retval))
  /\ ClearFd
  /\ idx' = idx + 1
  /\ pc' = "send"
  /\ UNCHANGED <<keys, req, queued, retval, tableVars, sizeVars, signals,
                 effects, terminalVars, socketVars>>

(* All the clients have seen the request. *)
RequestDone ==
  /\ pc = "send" /\ idx = nClients
  /\ \/ /\ req.cmd = "KEY_EVENT"
        /\ effects' = IF isHandled THEN effects
                      ELSE Append(effects, [from |-> "tty", cmd |-> "SEND_DATA",
                                            of |-> "KEY_EVENT", num |-> req.num])
        /\ keys' = Tail(keys)
        /\ pc' = "key"
     \/ /\ req.cmd = "RESIZE_EVENT"
        /\ pc' = "signals"
        /\ UNCHANGED <<effects, keys>>
  /\ UNCHANGED <<isHandled, idx, req, queued, retval, tableVars, sizeVars, fds,
                 signals, terminalVars, socketVars>>

-----------------------------------------------------------------------------
(* The part of main_loop for the pty.  What the child wrote goes to the    *)
(* terminal; end of file, or any error, ends main_loop with 0.             *)
ReadPty ==
  /\ pc = "pty"
  /\ \/ /\ "pty" \in fds /\ childOut
        /\ childOut' = FALSE
        /\ pc' = "accept"
     \/ /\ "pty" \in fds /\ ~childOut
        /\ pc' = "waitpid"
        /\ UNCHANGED childOut
     \/ /\ "pty" \notin fds
        /\ pc' = "accept"
        /\ UNCHANGED childOut
  /\ UNCHANGED <<loopVars, tableVars, sizeVars, fds, signals, effects, left,
                 ttyin, ttyState, termRows, raw, pending, child, ptyRows,
                 socketVars>>

WaitPid ==
  /\ pc = "waitpid" /\ child = "exited"
  /\ Done
  /\ UNCHANGED signals

(* The new descriptor goes to clients[n_clients++], whatever n_clients is. *)
AcceptClient ==
  /\ pc = "accept"
  /\ idx' = 0
  /\ \/ /\ "server" \in fds /\ nClients < MaxClients
        /\ ServerAccept
        /\ clients' = [clients EXCEPT ![nClients] = Head(backlog)]
        /\ nClients' = nClients + 1
        /\ pc' = "clients"
     \/ /\ "server" \in fds /\ nClients = MaxClients
        /\ pc' = "undefined"
        /\ UNCHANGED <<tableVars, socketVars>>
     \/ /\ "server" \notin fds
        /\ pc' = "clients"
        /\ UNCHANGED <<tableVars, socketVars>>
  /\ UNCHANGED <<keys, isHandled, req, queued, retval, sizeVars, fds, signals,
                 effects, terminalVars>>

-----------------------------------------------------------------------------
(* Mutant of Moved: memmove is not called. *)
MovedNone(s) == 0

(* How many entries memmove copies: its count is in bytes, one for each    *)
(* entry behind the one that is removed, and an int has four.  The upper   *)
(* bytes of a descriptor below 256 are all zero, so an entry of which one  *)
(* byte is copied is copied.                                               *)
Moved(s) == (nClients - (s + 1) + 3) \div 4

(* Mutant of RemoveClient: the entry itself is cleared, not the last one. *)
RemoveInPlace(c) ==
  \E s \in 0 .. nClients - 1 :
    /\ clients[s] = c
    /\ \A t \in 0 .. s - 1 : clients[t] # c
    /\ clients' = [clients EXCEPT ![s] = NoFd]
    /\ nClients' = nClients - 1
    /\ ServerClose(c)

(* _fep_read_control_message_from_fd after a failed read: the first entry  *)
(* of the table with the descriptor is removed.                            *)
RemoveClient(c) ==
  \E s \in 0 .. nClients - 1 :
    /\ clients[s] = c
    /\ \A t \in 0 .. s - 1 : clients[t] # c
    /\ clients' = [k \in Slot |->
                     IF k = nClients - 1 THEN NoFd
                     ELSE IF k \in s .. s + Moved(s) - 1 THEN clients[k + 1]
                     ELSE clients[k]]
    /\ nClients' = nClients - 1
    /\ ServerClose(c)

(* One round of the loop over the clients.  A read from a descriptor that  *)
(* is in fds and has nothing to read blocks; the loop index goes on after  *)
(* a removal, too.                                                         *)
ReadClient ==
  /\ pc = "clients" /\ idx < nClients
  /\ idx' = idx + 1
  /\ \/ /\ Peer \in fds /\ srv[Peer] = "open"
        /\ ServerRead(Peer)
        /\ Execute(Peer, Head(c2s[Peer]))
        /\ UNCHANGED tableVars
     \/ /\ Peer \in fds
        /\ srv[Peer] = "closed" \/ (c2s[Peer] = <<>> /\ cli[Peer] = "closed")
        /\ RemoveClient(Peer)
        /\ UNCHANGED effects
     \/ /\ Peer \notin fds
        /\ UNCHANGED <<effects, tableVars, socketVars>>
  /\ UNCHANGED <<pc, keys, isHandled, req, queued, retval, sizeVars, fds,
                 signals, terminalVars>>

(* main_loop calls _fep_pselect again, which starts with FD_ZERO. *)
ClientsDone ==
  /\ pc = "clients" /\ idx >= nClients
  /\ fds' = {}
  /\ pc' = "pselect"
  /\ UNCHANGED <<loopVars, tableVars, sizeVars, signals, effects, terminalVars,
                 socketVars>>

-----------------------------------------------------------------------------
Transceive ==
  \/ SendRequest \/ SendFails \/ SendKills
  \/ WaitResponse \/ FlushQueued \/ TransceiveReturn \/ RequestDone

HandleSignals ==
  handle_term_signal \/ handle_winch_signal \/ handle_tstp_signal \/ SignalsDone

ServerNext ==
  \/ PselectReady \/ PselectSignal
  \/ HandleSignals
  \/ ReadTty \/ ReadTtyError \/ NextKey
  \/ Transceive
  \/ ReadPty \/ WaitPid
  \/ AcceptClient
  \/ ReadClient \/ ClientsDone
=============================================================================
