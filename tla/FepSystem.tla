----------------------------- MODULE FepSystem -----------------------------
(***************************************************************************)
(* fep, its clients, the terminal and the child process together.  The     *)
(* parts share the sockets of FepSocket; fep reads the terminal and the    *)
(* pty of FepTerminal.                                                     *)
(***************************************************************************)
EXTENDS FepClient, FepServer, FiniteSets

vars == <<socketVars, terminalVars, clientVars, serverVars>>

(* Every variable has its type, and every index into clients[] its range. *)
TypeOK == SocketTypeOK /\ TerminalTypeOK /\ ClientTypeOK /\ ServerTypeOK

Init == SocketInit /\ TerminalInit /\ ClientInit /\ ServerInit

ServerStep == ServerNext /\ UNCHANGED clientVars

Resume == Continue /\ UNCHANGED clientVars

ClientStep(c) == ClientNext(c) /\ UNCHANGED <<serverVars, terminalVars>>

(* As long as there is a fep process. *)
EnvironmentStep ==
  listening /\ Environment /\ UNCHANGED <<socketVars, clientVars, serverVars>>

Next ==
  \/ ServerStep
  \/ Resume
  \/ \E c \in Conn : ClientStep(c)
  \/ EnvironmentStep

Spec == Init /\ [][Next]_vars

(* fep runs whenever it is not blocked; a stopped fep is resumed; a client *)
(* that gets a request goes through its dispatch, so its filter returns.   *)
(* Nothing is assumed of the user, of the child or of the API calls.       *)
Fairness ==
  /\ WF_vars(ServerStep)
  /\ WF_vars(Resume)
  /\ \A c \in Conn : WF_vars(Answer(c) /\ UNCHANGED <<serverVars, terminalVars>>)

FairSpec == Spec /\ Fairness

-----------------------------------------------------------------------------
(* The request-response protocol.                                          *)

Waiting(c) == pc = "wait" /\ Peer = c

NoResponse(s) == \A i \in 1 .. Len(s) : s[i].cmd # "RESPONSE"

OneResponse(s, cmd) ==
  \E k \in 1 .. Len(s) :
    /\ s[k].cmd = "RESPONSE" /\ s[k].of = cmd
    /\ \A i \in 1 .. Len(s) : s[i].cmd = "RESPONSE" => i = k

(* Nothing is asked of c. *)
Unasked(c) ==
  /\ s2c[c] = <<>> /\ NoResponse(c2s[c])
  /\ cli[c] # "closed" => phase[c] # "filter"

(* The request is in the socket. *)
Asked(c) ==
  /\ s2c[c] = <<req>> /\ NoResponse(c2s[c])
  /\ cli[c] = "open" /\ phase[c] # "filter"

(* The request is with the client's filter. *)
Filtering(c) ==
  /\ s2c[c] = <<>> /\ NoResponse(c2s[c])
  /\ cli[c] = "open" /\ phase[c] = "filter" /\ request[c] = req

(* The answer is in the socket, perhaps behind other messages. *)
Answered(c) ==
  /\ s2c[c] = <<>> /\ OneResponse(c2s[c], req.cmd)
  /\ cli[c] # "closed" => phase[c] # "filter"

(* The client has closed without an answer. *)
Gone(c) == s2c[c] = <<>> /\ NoResponse(c2s[c]) /\ cli[c] = "closed"

(* fep and a client are in lockstep: a request is under way to c, and in   *)
(* one place only, just while _fep_transceive_control_message waits for c; *)
(* it is the request that fep waits about, and at most one RESPONSE, to    *)
(* that request, comes of it.  So main_loop never meets a RESPONSE (it has *)
(* no handler for one), none is taken for the answer to another request,   *)
(* and "commands do not match" is never logged.                            *)
Lockstep ==
  \A c \in Conn :
    IF Waiting(c) THEN Asked(c) \/ Filtering(c) \/ Answered(c) \/ Gone(c)
                  ELSE Unasked(c)

(* An exchange fails only with a client that has closed: the checks at the *)
(* end of _fep_transceive_control_message ("too few arguments", "can't     *)
(* extract command", "commands do not match") never reject an answer, so a *)
(* key is written by main_loop only if no client has taken it.             *)
ExchangeSucceeds ==
  [][pc = "wait" /\ pc' = "flush" /\ cli[Peer] = "open" => retval']_vars

(* The loops over the clients stay inside the used part of the table, of   *)
(* which every entry is a connection; so the tests of main_loop for an     *)
(* entry below 0 are never true.  A key that is being announced is the     *)
(* head of keys.                                                           *)
LoopInv ==
  /\ \A s \in 0 .. nClients - 1 : clients[s] \in Conn
  /\ req.cmd \in ServerRequest
  /\ pc \in {"wait", "flush"} => idx < nClients
  /\ pc = "send" => idx <= nClients
  /\ pc \in {"send", "wait", "flush"} /\ req.cmd = "KEY_EVENT" => keys # <<>>

(* The only RESPONSE a client writes is the one of fep_client_dispatch. *)
QueueInv == \A c \in Conn : NoResponse(messages[c])

(* The inductive invariant of FepSystemProofs. *)
IInv == TypeOK /\ LoopInv /\ QueueInv /\ Lockstep

-----------------------------------------------------------------------------
(* The stream of a client's requests.                                      *)

ClientMessage == [cmd : ClientRequest, of : ServerRequest \cup {"NONE"}, num : Nat]

(* The elements of s that are in S, in their order. *)
Only(s, S) ==
  LET only[n \in 0 .. Len(s)] ==
        IF n = 0 THEN <<>>
        ELSE IF s[n] \in S THEN Append(only[n - 1], s[n])
        ELSE only[n - 1]
  IN  only[Len(s)]

EffectOf(c) == [from : {c}, cmd : ClientRequest,
                of : ServerRequest \cup {"NONE"}, num : Nat]

(* The message that an effect comes of. *)
Cause(e) == [cmd |-> e.cmd, of |-> e.of, num |-> e.num]

Executed(c) ==
  LET mine == Only(effects, EffectOf(c))
  IN  [i \in DOMAIN mine |-> Cause(mine[i])]

InSocket(c) == Only(c2s[c], ClientMessage)

PutAside(c) == IF pc \in {"wait", "flush"} /\ Peer = c THEN queued ELSE <<>>

(* What a client asked for is executed in the order it asked, nothing      *)
(* twice and nothing skipped, whichever way it takes: written at once or   *)
(* queued behind a RESPONSE, read by main_loop or put aside by             *)
(* _fep_transceive_control_message, which flushes what it has put aside on *)
(* its error paths too.                                                    *)
StreamConserved ==
  \A c \in Conn :
    Executed(c) \o PutAside(c) \o InSocket(c) \o messages[c] = issued[c]

(* A client whose dispatch is over has written all that was queued, and    *)
(* nothing but the messages of clients is on its way to fep.               *)
QueuesOK ==
  /\ \A c \in Conn :
       /\ phase[c] = "idle" => messages[c] = <<>>
       /\ messages[c] \in Seq(ClientMessage)
       /\ c2s[c] \in Seq({m \in Message : m.cmd \notin ServerRequest})
  /\ queued \in Seq(ClientMessage)

(* StreamConserved is inductive with it, together with IInv. *)
StreamInv == StreamConserved /\ QueuesOK

-----------------------------------------------------------------------------
(* The keys.                                                               *)

KeyEffect(k) == {i \in DOMAIN effects : effects[i].of = "KEY_EVENT"
                                          /\ effects[i].num = k}

Settled(k) == k \in consumed \/ KeyEffect(k) # {}

(* A key reaches the child once, or a filter consumes it: main_loop writes *)
(* it itself only if no client answered, and a client sends it back only   *)
(* if its filter did not handle it.                                        *)
KeyOnce ==
  \A k \in 1 .. KeysTyped :
    Cardinality(KeyEffect(k)) + Cardinality(consumed \cap {k}) <= 1

(* Keys reach the child in the order they are typed, even when one comes   *)
(* back from a client and the next is written by main_loop.                *)
KeysInOrder ==
  \A i, j \in DOMAIN effects :
    i < j /\ effects[i].of = "KEY_EVENT" /\ effects[j].of = "KEY_EVENT"
      => effects[i].num <= effects[j].num

Quiet ==
  /\ pc = "pselect" /\ Ready = {}
  /\ \A c \in Conn : cli[c] = "open" => phase[c] = "idle"

(* A client has answered that the key is not handled, and has died before  *)
(* it could send it back.                                                  *)
DiedWith(k) ==
  \E c \in Conn :
    cli[c] = "closed" /\ \E i \in DOMAIN messages[c] :
      messages[c][i].of = "KEY_EVENT" /\ messages[c][i].num = k

(* No key is lost: when everything has come to rest, every key typed has   *)
(* reached the child or has been consumed; only a client that dies between *)
(* its RESPONSE and its own SEND_DATA takes a key with it.                 *)
KeyNotLost == Quiet => \A k \in 1 .. KeysTyped : Settled(k) \/ DiedWith(k)

(* The keys that messages or effects carry back. *)
KeyOf(m) == IF m.of = "KEY_EVENT" /\ m.cmd # "RESPONSE" THEN {m.num} ELSE {}

KeysIn(s) == UNION {KeyOf(s[i]) : i \in DOMAIN s}

Elements(s) == {s[i] : i \in DOMAIN s}

Announcing == pc \in {"send", "wait", "flush"} /\ req.cmd = "KEY_EVENT"

(* A client has answered to the key that is being announced. *)
Taken ==
  /\ Announcing
  /\ \/ isHandled
     \/ pc = "wait" /\ ~NoResponse(c2s[Peer])
     \/ pc = "flush" /\ retval

(* main_loop goes through all the keys of a read before it reads again,    *)
(* and leaves no exchange with messages put aside.                         *)
KeyLoopInv ==
  /\ Announcing => req.num = Head(keys)
  /\ keys # <<>> => Announcing \/ pc \in {"key", "killed"}
  /\ queued # <<>> => pc \in {"wait", "flush"}

(* Every key is somewhere: not read yet, not gone through yet, consumed,   *)
(* asked by a client to be sent back, or written to the child.  What a     *)
(* client has asked is not left behind in its socket when fep closes it.   *)
(* With this, KeyNotLost holds under LateRemovals, because TableInv and    *)
(* StreamInv do.                                                           *)
KeyPlaceInv ==
  /\ KeyLoopInv
  /\ LET handed == consumed \cup UNION {KeysIn(issued[c]) : c \in Conn} IN
     /\ Taken => req.num \in handed
     /\ 1 .. KeysTyped \subseteq
          Elements(ttyin) \cup Elements(keys) \cup handed \cup KeysIn(effects)
  /\ \A c \in Conn : srv[c] = "none" => KeysIn(issued[c]) = {}
  /\ listening => \A c \in Conn : srv[c] = "closed" => c2s[c] = <<>>

(* The keys on their way back from c; those queued by a client that has    *)
(* died will not come.                                                     *)
Unsent(c) == IF cli[c] = "open" THEN KeysIn(messages[c]) ELSE {}

Returning(c) == KeysIn(c2s[c]) \cup Unsent(c)

Past ==
  consumed \cup KeysIn(effects) \cup KeysIn(queued)
    \cup UNION {Returning(c) : c \in Conn}

Ahead ==
  Elements(ttyin) \cup (IF Taken THEN Elements(Tail(keys)) ELSE Elements(keys))

Below(A, B) == \A a \in A, b \in B : a < b

Rising(s) == \A i, j \in DOMAIN s : i < j => s[i] < s[j]

(* Each of A is another key than each of B and, if a failed write can be   *)
(* no reason to go on without the client's answer, an earlier one.         *)
Before(A, B) == \A a \in A, b \in B : a # b /\ (~SigPipeIgnored => a < b)

InOrder(s) ==
  \A i, j \in DOMAIN s : i < j => Before(KeyOf(s[i]), KeyOf(s[j]))

(* With one client at a time, the keys that come back are those of the     *)
(* client in the table.  They are put aside, in the socket and queued in   *)
(* the order of the keys, none of them was consumed, and they are before   *)
(* all those that are still to be announced.  A key that main_loop writes  *)
(* after an exchange that failed overtakes none, because the exchange has  *)
(* emptied the socket.                                                     *)
KeyTrailInv ==
  /\ KeyLoopInv
  /\ Rising(keys) /\ Rising(ttyin) /\ Below(Elements(keys), Elements(ttyin))
  /\ Past \cup Elements(keys) \cup Elements(ttyin) \subseteq 1 .. KeysTyped
  /\ Below(Past, Ahead)
  /\ Announcing /\ idx = 0 => ~isHandled
  /\ ~SigPipeIgnored /\ Announcing /\ ~isHandled
       /\ \/ pc = "flush" /\ ~retval
          \/ pc = "send" /\ idx > 0
       => c2s[clients[0]] = <<>> /\ cli[clients[0]] = "closed"
  /\ InOrder(effects) /\ InOrder(queued)
  /\ Before(KeysIn(effects), KeysIn(queued))
  /\ consumed \cap (KeysIn(effects) \cup KeysIn(queued)) = {}
  /\ \A c \in Conn :
       /\ Returning(c) # {} => nClients = 1 /\ clients[0] = c
       /\ InOrder(c2s[c]) /\ (cli[c] = "open" => InOrder(messages[c]))
       /\ Before(KeysIn(effects) \cup KeysIn(queued), Returning(c))
       /\ Before(KeysIn(c2s[c]), Unsent(c))
       /\ consumed \cap Returning(c) = {}

-----------------------------------------------------------------------------
(* The main loop.                                                          *)

(* main_loop reads from a client only what pselect promised it: the FD_CLR *)
(* after each exchange keeps the loop over the clients from blocking on a  *)
(* message that _fep_transceive_control_message has already taken.         *)
NoBlockingRead ==
  pc = "clients" /\ idx < nClients /\ Peer \in fds
    => Readable(Peer) \/ srv[Peer] = "closed"

(* Until fep ends, clients[] holds each open connection exactly once and   *)
(* nothing else.                                                           *)
TableExact ==
  listening =>
    \A c \in Conn :
      Cardinality({s \in 0 .. nClients - 1 : clients[s] = c})
        = IF srv[c] = "open" THEN 1 ELSE 0

(* memmove in _fep_read_control_message_from_fd gets a count of entries    *)
(* for a count of bytes; that is enough for one entry (Moved).  So the     *)
(* table survives as long as each client that leaves is one of the last    *)
(* two of it; in particular, with at most two clients at a time.           *)
LateRemovals == [][nClients' < nClients => idx >= nClients - 2]_vars

(* Connections wait to be accepted once each, and after connect ().        *)
BacklogOK ==
  /\ \A i \in DOMAIN backlog :
       srv[backlog[i]] = "none" /\ cli[backlog[i]] # "none"
  /\ \A i, j \in DOMAIN backlog : backlog[i] = backlog[j] => i = j
  /\ \A c \in Conn : cli[c] = "none" => srv[c] = "none"

TableOK ==
  /\ \A s \in 0 .. nClients - 1 : srv[clients[s]] = "open"
  /\ \A s, t \in 0 .. nClients - 1 : clients[s] = clients[t] => s = t
  /\ \A c \in Conn : srv[c] = "open" => c \in Clients

(* What pselect promised holds until the client is read from: by the       *)
(* exchange of a key, which then clears it from fds, or by the loop over   *)
(* the clients, which does not come back to it.                            *)
FdsOK ==
  /\ \/ pc \in {"pselect", "signals", "stopped"}
     \/ pc \in {"send", "wait", "flush"} /\ req.cmd = "RESIZE_EVENT"
     => fds = {}
  /\ \/ pc \in {"tty", "key", "pty", "accept"}
     \/ pc \in {"send", "wait", "flush"} /\ req.cmd = "KEY_EVENT"
     => \A c \in fds \cap Conn :
          Readable(c) \/ (pc \in {"wait", "flush"} /\ c = Peer)
  /\ pc = "clients" =>
       \A s \in idx .. nClients - 1 : clients[s] \in fds => Readable(clients[s])

(* Under LateRemovals, TableInv is inductive, together with IInv.          *)
TableInv ==
  /\ listening \/ pc \in {"exited", "killed"}
  /\ listening => BacklogOK /\ TableOK /\ FdsOK

(* The size of the pty follows the terminal, however resizes and the       *)
(* delivery of SIGWINCH interleave.                                        *)
SizeFollows ==
  "WINCH" \notin pending \cup signals =>
    winRows = WsRow(termRows) /\ ptyRows = WsRow(termRows)

(* The flags of signal_handler are set only while main_loop is in its      *)
(* branch for them, and the exchanges of handle_winch_signal are part of   *)
(* it: none is left over when main_loop calls pselect again.  With this,   *)
(* SizeFollows is inductive.                                               *)
SizeInv ==
  /\ SizeFollows
  /\ signals # {} => \/ pc \in {"signals", "exited", "killed"}
                     \/ /\ pc \in {"send", "wait", "flush"}
                        /\ req.cmd = "RESIZE_EVENT"

-----------------------------------------------------------------------------
(* Liveness.                                                               *)

Ended == pc \in {"waitpid", "exited", "killed", "undefined"}

(* Every key is settled some time, or fep ends. *)
KeysSettle ==
  \A k \in 1 .. Budget["key"] : (KeysTyped >= k) ~> (Settled(k) \/ Ended)

(* pselect finds a descriptor ready again and again, for ever: then it may *)
(* never return for a signal.  A child that does not stop writing is       *)
(* enough.                                                                 *)
Starved == []<>(pc = "pselect" /\ Ready # {})

(* SIGTERM, SIGHUP and SIGQUIT end fep unless the descriptors starve them: *)
(* main_loop looks at signals only when pselect has none to return, and    *)
(* then deals with every one, whatever resizes, stops, outputs, exchanges  *)
(* and dying clients have come before or come in between.                  *)
TermEnds ==
  \/ ("TERM" \in pending) ~> (pc \in {"exited", "killed"})
  \/ Starved

(* "Request to display ...", "Request to send ..." (libfep/client.c): every *)
(* call of a client's API is executed some time, or fep ends.              *)
CallsServed ==
  \A c \in Conn : \A n \in 1 .. MaxCalls :
    (calls[c] >= n) ~> (Ended \/ \E i \in DOMAIN effects :
       effects[i].from = c /\ effects[i].of = "NONE" /\ effects[i].num = n)

-----------------------------------------------------------------------------
(* What comments and documents say and the code does not do; each is the   *)
(* property of a run that shows how.                                       *)

(* "main_loop has terminated as a result of child's exit" (fep/fep.c):     *)
(* fep_run waits only for a child that has exited.                         *)
WaitsForExitedChild == pc = "waitpid" => child = "exited"

(* README: a session goes on after a client that listened to an event has  *)
(* got it and left; no client can make fep die without restoring the       *)
(* terminal.                                                               *)
SurvivesClients == pc # "killed"
=============================================================================
