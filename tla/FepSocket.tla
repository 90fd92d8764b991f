----------------------------- MODULE FepSocket -----------------------------
(***************************************************************************)
(* The control socket between fep and its clients: an AF_UNIX stream       *)
(* socket that fep listens on (LIBFEP_CONTROL_SOCK) and one connection per *)
(* fep_client_open.  The kernel is external; what is modelled is what      *)
(* fep/control.c, fep/fep.c and libfep/client.c rely on: reliable ordered  *)
(* delivery in both directions, bytes that outlive the close of their      *)
(* writer, end of file after them, and an error on writing to a closed     *)
(* peer.                                                                   *)
(*                                                                         *)
(* A message is the unit of transfer: each socket has one writer, and both *)
(* readers block inside _fep_read_control_message until it is complete.    *)
(* So a writer may die between two messages here, and not within one.      *)
(***************************************************************************)
EXTENDS Naturals, Sequences

CONSTANT Conn            \* connections; a connection is never reused

VARIABLES
  c2s,        \* c2s[c]: messages written by the client, not yet read by fep
  s2c,        \* s2c[c]: messages written by fep, not yet read by the client
  cli,        \* cli[c]: the client's end, "none" before connect()
  srv,        \* srv[c]: fep's end, "none" before accept()
  backlog,    \* connections made and not accepted yet, oldest first
  listening   \* fep still has the listening socket

socketVars == <<c2s, s2c, cli, srv, backlog, listening>>

-----------------------------------------------------------------------------
(***************************************************************************)
(* Messages.  cmd is the FepControlCommand; of is the command that a       *)
(* RESPONSE answers (its argument 0), or "KEY_EVENT" in a SEND_DATA that   *)
(* carries an unhandled key back; num identifies the payload: the number   *)
(* of the key, the number of rows, or the number of the client's call.     *)
(***************************************************************************)
ServerRequest == {"KEY_EVENT", "RESIZE_EVENT"}

ToScreen == {"SET_CURSOR_TEXT", "SET_STATUS_TEXT"}

ToChild == {"SEND_TEXT", "SEND_DATA", "FORWARD_KEY_EVENT"}

ClientRequest == ToScreen \cup ToChild

Command == ServerRequest \cup ClientRequest \cup {"RESPONSE"}

Message == [cmd : Command, of : ServerRequest \cup {"NONE"}, num : Nat]

Request(cmd, n) == [cmd |-> cmd, of |-> "NONE", num |-> n]

EndState == {"none", "open", "closed"}

SocketTypeOK ==
  /\ c2s \in [Conn -> Seq(Message)]
  /\ s2c \in [Conn -> Seq(Message)]
  /\ cli \in [Conn -> EndState]
  /\ srv \in [Conn -> EndState]
  /\ backlog \in Seq(Conn)
  /\ listening \in BOOLEAN

SocketInit ==
  /\ c2s = [c \in Conn |-> <<>>]
  /\ s2c = [c \in Conn |-> <<>>]
  /\ cli = [c \in Conn |-> "none"]
  /\ srv = [c \in Conn |-> "none"]
  /\ backlog = <<>>
  /\ listening = TRUE

-----------------------------------------------------------------------------
(* A read of fep's end does not block: there is a message, or end of file. *)
Readable(c) == c2s[c] # <<>> \/ cli[c] = "closed"

Connect(c) ==
  /\ listening
  /\ cli[c] = "none"
  /\ cli' = [cli EXCEPT ![c] = "open"]
  /\ backlog' = Append(backlog, c)
  /\ UNCHANGED <<c2s, s2c, srv, listening>>

ClientWrite(c, m) ==
  /\ srv[c] # "closed"
  /\ c2s' = [c2s EXCEPT ![c] = Append(@, m)]
  /\ UNCHANGED <<s2c, cli, srv, backlog, listening>>

ClientRead(c) ==
  /\ s2c[c] # <<>>
  /\ s2c' = [s2c EXCEPT ![c] = Tail(@)]
  /\ UNCHANGED <<c2s, cli, srv, backlog, listening>>

(* What the client had not read is gone; what it wrote stays readable. *)
ClientClose(c) ==
  /\ cli[c] = "open"
  /\ cli' = [cli EXCEPT ![c] = "closed"]
  /\ s2c' = [s2c EXCEPT ![c] = <<>>]
  /\ UNCHANGED <<c2s, srv, backlog, listening>>

ServerAccept ==
  /\ backlog # <<>>
  /\ srv' = [srv EXCEPT ![Head(backlog)] = "open"]
  /\ backlog' = Tail(backlog)
  /\ UNCHANGED <<c2s, s2c, cli, listening>>

ServerWrite(c, m) ==
  /\ cli[c] = "open"
  /\ s2c' = [s2c EXCEPT ![c] = Append(@, m)]
  /\ UNCHANGED <<c2s, cli, srv, backlog, listening>>

ServerRead(c) ==
  /\ c2s[c] # <<>>
  /\ c2s' = [c2s EXCEPT ![c] = Tail(@)]
  /\ UNCHANGED <<s2c, cli, srv, backlog, listening>>

ServerClose(c) ==
  /\ srv' = [srv EXCEPT ![c] = "closed"]
  /\ UNCHANGED <<c2s, s2c, cli, backlog, listening>>

(* The end of the fep process: the kernel closes every descriptor of it,   *)
(* and the connections that were waiting to be accepted are reset.         *)
ServerGone ==
  /\ srv' = [c \in Conn |-> "closed"]
  /\ backlog' = <<>>
  /\ listening' = FALSE
  /\ UNCHANGED <<c2s, s2c, cli>>
=============================================================================
