----------------------------- MODULE FepClient -----------------------------
(***************************************************************************)
(* libfep/client.c: a client of fep, one per connection.  A client is a    *)
(* single thread: it calls the API while it is idle, and inside            *)
(* fep_client_dispatch its event filter calls the same API, whose messages *)
(* are then queued (filter_running) and written after the RESPONSE.        *)
(***************************************************************************)
EXTENDS FepSocket

CONSTANTS
  ApiCommand,   \* the ClientRequests that the clients make
  MaxCalls,     \* how many API calls a client makes
  Crashable     \* the clients that may die between any two messages

ASSUME ApiAssumption == ApiCommand \subseteq ClientRequest /\ MaxCalls \in Nat
ASSUME CrashableAssumption == Crashable \subseteq Conn

VARIABLES
  phase,      \* phase[c]: where c is in fep_client_dispatch
  request,    \* request[c]: the message that is being dispatched
  messages,   \* messages[c]: client->messages
  told,       \* told[c]: the size in the last RESIZE_EVENT (0: none yet)
  calls,      \* calls[c]: number of API calls made
  issued,     \* history: every message of c, in the order it was asked for
  consumed    \* history: keys that a filter reported as handled

clientVars == <<phase, request, messages, told, calls, issued, consumed>>

NoMessage == [cmd |-> "RESPONSE", of |-> "NONE", num |-> 0]

ClientTypeOK ==
  /\ phase \in [Conn -> {"idle", "filter", "flush"}]
  /\ request \in [Conn -> Message]
  /\ messages \in [Conn -> Seq(Message)]
  /\ told \in [Conn -> Nat]
  /\ calls \in [Conn -> Nat]
  /\ issued \in [Conn -> Seq(Message)]
  /\ consumed \subseteq Nat

ClientInit ==
  /\ phase = [c \in Conn |-> "idle"]
  /\ request = [c \in Conn |-> NoMessage]
  /\ messages = [c \in Conn |-> <<>>]
  /\ told = [c \in Conn |-> 0]
  /\ calls = [c \in Conn |-> 0]
  /\ issued = [c \in Conn |-> <<>>]
  /\ consumed = {}

-----------------------------------------------------------------------------
fep_client_open(c) == Connect(c) /\ UNCHANGED clientVars

(* fep_client_set_cursor_text, set_status_text, send_text, send_data and   *)
(* forward_key_event differ only in the message they build.                *)
Call(c, cmd) ==
  LET m == Request(cmd, calls[c] + 1) IN
  /\ cli[c] = "open"
  /\ calls[c] < MaxCalls
  /\ calls' = [calls EXCEPT ![c] = @ + 1]
  /\ issued' = [issued EXCEPT ![c] = Append(@, m)]
  /\ \/ /\ phase[c] = "idle"
        /\ ClientWrite(c, m)
        /\ UNCHANGED messages
     \/ /\ phase[c] = "filter"
        /\ messages' = [messages EXCEPT ![c] = Append(@, m)]
        /\ UNCHANGED socketVars
  /\ UNCHANGED <<phase, request, told, consumed>>

(* fep_client_dispatch up to the call of the filter.  fep sends nothing    *)
(* but ServerRequests, so the branch for a command without a handler is    *)
(* never taken (Lockstep).                                                 *)
Dispatch(c) ==
  /\ cli[c] = "open" /\ phase[c] = "idle"
  /\ ClientRead(c)
  /\ phase' = [phase EXCEPT ![c] = "filter"]
  /\ request' = [request EXCEPT ![c] = Head(s2c[c])]
  /\ told' = IF Head(s2c[c]).cmd = "RESIZE_EVENT"
               THEN [told EXCEPT ![c] = Head(s2c[c]).num] ELSE told
  /\ UNCHANGED <<messages, calls, issued, consumed>>

(* Mutant of Response: command_resize_event answers as command_key_event. *)
ResponseToKey(m) == [cmd |-> "RESPONSE", of |-> "KEY_EVENT", num |-> 0]

Response(m) == [cmd |-> "RESPONSE", of |-> m.cmd, num |-> 0]

(* The key's own input, sent back because no filter wants it. *)
Echo(m) == [cmd |-> "SEND_DATA", of |-> m.cmd, num |-> m.num]

(* The filter returns, or there is none (not handled).  command_key_event  *)
(* then queues the input of a key that is not handled; the RESPONSE is     *)
(* written before anything that is queued.                                 *)
FilterReturn(c, isHandled) ==
  LET m    == request[c]
      echo == IF m.cmd = "KEY_EVENT" /\ ~isHandled THEN <<Echo(m)>> ELSE <<>>
  IN
  /\ cli[c] = "open" /\ phase[c] = "filter"
  /\ ClientWrite(c, Response(m))
  /\ messages' = [messages EXCEPT ![c] = @ \o echo]
  /\ issued' = [issued EXCEPT ![c] = @ \o echo]
  /\ phase' = [phase EXCEPT ![c] =
                 IF messages[c] \o echo = <<>> THEN "idle" ELSE "flush"]
  /\ consumed' = IF m.cmd = "KEY_EVENT" /\ isHandled
                   THEN consumed \cup {m.num} ELSE consumed
  /\ UNCHANGED <<request, told, calls>>

(* One round of the loop at the end of fep_client_dispatch. *)
Flush(c) ==
  /\ cli[c] = "open" /\ phase[c] = "flush"
  /\ messages[c] # <<>>
  /\ ClientWrite(c, Head(messages[c]))
  /\ messages' = [messages EXCEPT ![c] = Tail(@)]
  /\ phase' = [phase EXCEPT ![c] =
                 IF Tail(messages[c]) = <<>> THEN "idle" ELSE "flush"]
  /\ UNCHANGED <<request, told, calls, issued, consumed>>

fep_client_close(c) ==
  /\ phase[c] = "idle"
  /\ ClientClose(c)
  /\ UNCHANGED clientVars

(* The client dies in any phase; when fep is gone, SIGPIPE kills it. *)
Die(c) ==
  /\ c \in Crashable \/ srv[c] = "closed"
  /\ phase[c] # "idle"
  /\ ClientClose(c)
  /\ UNCHANGED clientVars

(* The part of a dispatch that the client owes once a request has come. *)
Answer(c) ==
  Dispatch(c) \/ (\E h \in BOOLEAN : FilterReturn(c, h)) \/ Flush(c)

ClientNext(c) ==
  \/ fep_client_open(c)
  \/ \E cmd \in ApiCommand : Call(c, cmd)
  \/ Answer(c)
  \/ fep_client_close(c)
  \/ Die(c)
=============================================================================
