-------------------------- MODULE FepSystemProofs --------------------------
(***************************************************************************)
(* Proofs about FepSystem, for any number of connections, any FEP_MAX_-    *)
(* CLIENTS, any calls and any number of keys, signals and crashes: first   *)
(* the exchange with a client, then what main_loop relies on between two   *)
(* calls of pselect: the size it has told the pty, the table clients[],    *)
(* and the descriptors that it found readable.                             *)
(***************************************************************************)
EXTENDS FepSystem, SequenceTheorems, FiniteSetTheorems, TLAPS

(* What Append and Tail do to the answers in a socket. *)
LEMMA AppendResponse ==
  ASSUME NEW s \in Seq(Message), NEW m \in Message
  PROVE  /\ Append(s, m) \in Seq(Message)
         /\ m.cmd # "RESPONSE" /\ NoResponse(s) => NoResponse(Append(s, m))
         /\ m.cmd # "RESPONSE" =>
              \A x : OneResponse(s, x) => OneResponse(Append(s, m), x)
         /\ m.cmd = "RESPONSE" /\ NoResponse(s) => OneResponse(Append(s, m), m.of)
<1> DEFINE t == Append(s, m)
<1>1. /\ t \in Seq(Message)
      /\ Len(s) \in Nat /\ Len(t) = Len(s) + 1
      /\ \A i \in 1 .. Len(s) : t[i] = s[i]
      /\ t[Len(t)] = m
  BY AppendProperties
<1>2. \A i \in 1 .. Len(t) : i \in 1 .. Len(s) \/ i = Len(t)
  BY <1>1
<1>3. \A i \in 1 .. Len(s) : i \in 1 .. Len(t)
  BY <1>1
<1>4. Len(t) \in 1 .. Len(t) /\ Len(t) \notin 1 .. Len(s)
  BY <1>1
<1> HIDE DEF t
<1>5. m.cmd # "RESPONSE" /\ NoResponse(s) => NoResponse(t)
  BY <1>1, <1>2 DEF NoResponse
<1>6. ASSUME m.cmd # "RESPONSE", NEW x, OneResponse(s, x)
      PROVE  OneResponse(t, x)
  <2>1. PICK k \in 1 .. Len(s) :
          /\ s[k].cmd = "RESPONSE" /\ s[k].of = x
          /\ \A i \in 1 .. Len(s) : s[i].cmd = "RESPONSE" => i = k
    BY <1>6 DEF OneResponse
  <2>2. t[k].cmd = "RESPONSE" /\ t[k].of = x /\ k \in 1 .. Len(t)
    BY <2>1, <1>1, <1>3
  <2>3. \A i \in 1 .. Len(t) : t[i].cmd = "RESPONSE" => i = k
    BY <2>1, <1>1, <1>2, <1>6
  <2> QED BY <2>2, <2>3 DEF OneResponse
<1>7. ASSUME m.cmd = "RESPONSE", NoResponse(s)
      PROVE  OneResponse(t, m.of)
  BY <1>1, <1>2, <1>4, <1>7 DEF OneResponse, NoResponse
<1> QED BY <1>1, <1>5, <1>6, <1>7 DEF t

(* What taking a message from a socket does to the answers left in it. *)
LEMMA TailResponse ==
  ASSUME NEW s \in Seq(Message), s # <<>>
  PROVE  /\ Head(s) \in Message /\ Tail(s) \in Seq(Message)
         /\ NoResponse(s) => Head(s).cmd # "RESPONSE" /\ NoResponse(Tail(s))
         /\ \A x : OneResponse(s, x) =>
              IF Head(s).cmd = "RESPONSE"
                THEN Head(s).of = x /\ NoResponse(Tail(s))
                ELSE OneResponse(Tail(s), x)
<1> DEFINE t == Tail(s)
<1>1. /\ Head(s) \in Message /\ t \in Seq(Message)
      /\ Head(s) = s[1]
      /\ Len(s) \in Nat /\ Len(s) >= 1 /\ Len(t) = Len(s) - 1
      /\ \A i \in 1 .. Len(t) : t[i] = s[i + 1]
  BY HeadTailProperties, EmptySeq, LenProperties
<1>2. /\ \A i \in 1 .. Len(t) : i + 1 \in 1 .. Len(s) /\ i + 1 # 1
      /\ 1 \in 1 .. Len(s)
      /\ \A k \in 1 .. Len(s) : k # 1 => k - 1 \in 1 .. Len(t) /\ (k - 1) + 1 = k
  BY <1>1
<1> HIDE DEF t
<1>3. NoResponse(s) => Head(s).cmd # "RESPONSE" /\ NoResponse(t)
  BY <1>1, <1>2 DEF NoResponse
<1>4. ASSUME NEW x, OneResponse(s, x)
      PROVE  IF Head(s).cmd = "RESPONSE" THEN Head(s).of = x /\ NoResponse(t)
                                        ELSE OneResponse(t, x)
  <2>1. PICK k \in 1 .. Len(s) :
          /\ s[k].cmd = "RESPONSE" /\ s[k].of = x
          /\ \A i \in 1 .. Len(s) : s[i].cmd = "RESPONSE" => i = k
    BY <1>4 DEF OneResponse
  <2>2. CASE k = 1
    BY <2>1, <2>2, <1>1, <1>2 DEF NoResponse
  <2>3. CASE k # 1
    <3>1. Head(s).cmd # "RESPONSE"
      BY <2>1, <2>3, <1>1, <1>2
    <3>2. k - 1 \in 1 .. Len(t) /\ t[k - 1] = s[k]
      BY <2>3, <1>1, <1>2
    <3>3. \A i \in 1 .. Len(t) : t[i].cmd = "RESPONSE" => i = k - 1
      BY <2>1, <1>1, <1>2
    <3> QED BY <2>1, <3>1, <3>2, <3>3 DEF OneResponse
  <2> QED BY <2>2, <2>3
<1> QED BY <1>1, <1>3, <1>4 DEF t

-----------------------------------------------------------------------------
(* The operations on the sockets keep their types. *)
LEMMA SocketTypes ==
  ASSUME SocketTypeOK, NEW c \in Conn, NEW m \in Message,
         \/ Connect(c) \/ ClientWrite(c, m) \/ ClientRead(c) \/ ClientClose(c)
         \/ ServerAccept \/ ServerWrite(c, m) \/ ServerRead(c)
         \/ ServerClose(c) \/ ServerGone \/ UNCHANGED socketVars
  PROVE  SocketTypeOK'
<1> USE DEF SocketTypeOK, EndState
<1>1. CASE Connect(c)
  BY <1>1, AppendProperties DEF Connect
<1>2. CASE ClientWrite(c, m)
  BY <1>2, AppendResponse DEF ClientWrite
<1>3. CASE ClientRead(c)
  BY <1>3, TailResponse DEF ClientRead
<1>4. CASE ClientClose(c)
  BY <1>4, EmptySeq DEF ClientClose
<1>5. CASE ServerAccept
  BY <1>5, HeadTailProperties DEF ServerAccept
<1>6. CASE ServerWrite(c, m)
  BY <1>6, AppendResponse DEF ServerWrite
<1>7. CASE ServerRead(c)
  BY <1>7, TailResponse DEF ServerRead
<1>8. CASE ServerClose(c)
  BY <1>8 DEF ServerClose
<1>9. CASE ServerGone
  BY <1>9, EmptySeq DEF ServerGone
<1>10. CASE UNCHANGED socketVars
  BY <1>10 DEF socketVars
<1> QED BY <1>1, <1>2, <1>3, <1>4, <1>5, <1>6, <1>7, <1>8, <1>9, <1>10

(* Every event of the environment is within its budget. *)
LEMMA SpendTypes ==
  ASSUME TerminalTypeOK, NEW e \in Event, Spend(e)
  PROVE  left' \in [Event -> Nat] /\ left'["key"] <= Budget["key"]
<1>1. left \in [Event -> Nat] /\ left["key"] <= Budget["key"]
  BY DEF TerminalTypeOK
<1>2. left[e] > 0 /\ left' \in {left, [left EXCEPT ![e] = left[e] - 1]}
  BY DEF Spend
<1>3. "key" \in Event
  BY DEF Event
<1>4. left[e] - 1 \in Nat
  BY <1>1, <1>2
<1>5. left' \in [Event -> Nat]
  BY <1>1, <1>2, <1>4
<1>6. left'["key"] <= left["key"]
  BY <1>1, <1>2, <1>3
<1>7. Budget["key"] \in Nat /\ left["key"] \in Nat /\ left'["key"] \in Nat
  BY <1>1, <1>3, <1>5, BudgetAssumption
<1> QED BY <1>1, <1>5, <1>6, <1>7

(* The number of the last key typed is a natural number. *)
LEMMA KeysTypedType ==
  ASSUME TerminalTypeOK
  PROVE  KeysTyped \in Nat
<1>1. left \in [Event -> Nat] /\ left["key"] <= Budget["key"]
  BY DEF TerminalTypeOK
<1>2. Budget["key"] \in Nat /\ left["key"] \in Nat
  BY <1>1, BudgetAssumption DEF Event
<1> QED BY <1>1, <1>2 DEF KeysTyped

(* The user, the child and signals keep the types of what they change. *)
LEMMA EnvironmentTypes ==
  ASSUME TerminalTypeOK, Environment
  PROVE  TerminalTypeOK'
<1>1. {"key", "resize", "term", "tstp", "hangup", "output", "exit"} \subseteq Event
  BY DEF Event
<1> USE <1>1, SpendTypes DEF TerminalTypeOK
<1>2. CASE TypeKey
  <2>1. KeysTyped + 1 \in Nat
    BY KeysTypedType
  <2>2. ttyin' \in Seq(Nat)
    BY <1>2, <2>1, AppendProperties DEF TypeKey
  <2> QED BY <1>2, <2>2 DEF TypeKey
<1>3. ASSUME NEW r \in Rows, ResizeTerminal(r) PROVE TerminalTypeOK'
  BY <1>3 DEF ResizeTerminal, Signal
<1>4. CASE SendTerm
  BY <1>4 DEF SendTerm, Signal
<1>5. CASE SendTstp
  BY <1>5 DEF SendTstp, Signal
<1>6. ASSUME NEW s \in {"eof", "error"}, EndInput(s) PROVE TerminalTypeOK'
  BY <1>6 DEF EndInput
<1>7. CASE ChildOutput
  BY <1>7 DEF ChildOutput
<1>8. CASE ChildExit
  BY <1>8 DEF ChildExit
<1> QED BY <1>2, <1>3, <1>4, <1>5, <1>6, <1>7, <1>8 DEF Environment

-----------------------------------------------------------------------------
(* The messages that fep and the clients build. *)
LEMMA MessageTypes ==
  /\ NoMessage \in Message
  /\ \A cmd \in ClientRequest \cup ServerRequest, n \in Nat :
       Request(cmd, n) \in Message /\ Request(cmd, n).cmd = cmd
  /\ \A m \in Message : m.cmd \in ServerRequest =>
       /\ Response(m) \in Message /\ Echo(m) \in Message
       /\ Response(m).cmd = "RESPONSE" /\ Response(m).of = m.cmd
       /\ Echo(m).cmd # "RESPONSE"
  /\ "RESPONSE" \notin ClientRequest /\ "RESPONSE" \notin ServerRequest
BY DEF NoMessage, Request, Response, Echo, Message, Command, ClientRequest,
       ServerRequest, ToChild, ToScreen

(* A client whose filter runs has the request that fep waits about. *)
LEMMA FilterRequest ==
  ASSUME IInv, NEW c \in Conn, cli[c] = "open", phase[c] = "filter"
  PROVE  /\ Waiting(c) /\ Filtering(c)
         /\ request[c] \in Message /\ request[c].cmd \in ServerRequest
<1>1. Waiting(c) /\ Filtering(c)
  BY DEF IInv, Lockstep, Unasked, Asked, Answered, Gone
<1>2. request[c] = req
  BY <1>1 DEF Filtering
<1> QED BY <1>1, <1>2 DEF IInv, LoopInv, TypeOK, ServerTypeOK

(* An operation of libfep/client.c keeps the types of socket and client. *)
LEMMA ClientTypes ==
  ASSUME IInv, NEW c \in Conn, ClientNext(c)
  PROVE  SocketTypeOK' /\ ClientTypeOK'
<1>0. SocketTypeOK /\ ClientTypeOK
  BY DEF IInv, TypeOK
<1> USE <1>0 DEF ClientTypeOK
<1>1. CASE fep_client_open(c)
  BY <1>1, SocketTypes, MessageTypes DEF fep_client_open, clientVars
<1>2. ASSUME NEW cmd \in ApiCommand, Call(c, cmd)
      PROVE  SocketTypeOK' /\ ClientTypeOK'
  <2> DEFINE m == Request(cmd, calls[c] + 1)
  <2>0. calls[c] + 1 \in Nat /\ cmd \in ClientRequest
    BY ApiAssumption
  <2>1. m \in Message
    BY <2>0, MessageTypes
  <2> HIDE DEF m
  <2>2. ClientWrite(c, m) \/ UNCHANGED socketVars
    BY <1>2 DEF Call, m
  <2>3. messages' = messages \/ messages' = [messages EXCEPT ![c] = Append(@, m)]
    BY <1>2 DEF Call, m
  <2>4. issued' = [issued EXCEPT ![c] = Append(@, m)]
    BY <1>2 DEF Call, m
  <2>5. calls' = [calls EXCEPT ![c] = @ + 1] /\ UNCHANGED <<phase, request, told, consumed>>
    BY <1>2 DEF Call
  <2>6. messages' \in [Conn -> Seq(Message)] /\ issued' \in [Conn -> Seq(Message)]
    <3>1. /\ Append(messages[c], m) \in Seq(Message)
          /\ Append(issued[c], m) \in Seq(Message)
      BY <2>1, AppendResponse
    <3> QED BY <3>1, <2>3, <2>4
  <2>7. calls' \in [Conn -> Nat]
    BY <2>0, <2>5
  <2>8. SocketTypeOK'
    BY <2>1, <2>2, SocketTypes
  <2> QED BY <2>5, <2>6, <2>7, <2>8
<1>3. CASE Dispatch(c)
  <2>1. SocketTypeOK'
    BY <1>3, SocketTypes, MessageTypes DEF Dispatch
  <2>2. s2c[c] \in Seq(Message) /\ s2c[c] # <<>>
    BY <1>3 DEF Dispatch, ClientRead, SocketTypeOK
  <2>3. Head(s2c[c]) \in Message /\ Head(s2c[c]).num \in Nat
    BY <2>2, TailResponse DEF Message
  <2> QED BY <1>3, <2>1, <2>3 DEF Dispatch
<1>4. ASSUME NEW h \in BOOLEAN, FilterReturn(c, h)
      PROVE  SocketTypeOK' /\ ClientTypeOK'
  <2> DEFINE m == request[c]
             e == IF m.cmd = "KEY_EVENT" /\ ~h THEN <<Echo(m)>> ELSE <<>>
  <2>1. m \in Message /\ m.cmd \in ServerRequest
    BY <1>4, FilterRequest DEF FilterReturn
  <2>2. Response(m) \in Message /\ Echo(m) \in Message /\ m.num \in Nat
    BY <2>1, MessageTypes DEF Message
  <2>3. e \in Seq(Message)
    BY <2>2
  <2>4. messages[c] \o e \in Seq(Message) /\ issued[c] \o e \in Seq(Message)
    BY <2>3, ConcatProperties
  <2> HIDE DEF e
  <2>5. SocketTypeOK'
    BY <1>4, <2>2, SocketTypes DEF FilterReturn
  <2>6. /\ messages' = [messages EXCEPT ![c] = messages[c] \o e]
        /\ issued' = [issued EXCEPT ![c] = issued[c] \o e]
        /\ phase' = [phase EXCEPT ![c] =
                       IF messages[c] \o e = <<>> THEN "idle" ELSE "flush"]
        /\ consumed' = IF m.cmd = "KEY_EVENT" /\ h
                         THEN consumed \cup {m.num} ELSE consumed
        /\ UNCHANGED <<request, told, calls>>
    BY <1>4 DEF FilterReturn, e
  <2>7. consumed' \subseteq Nat
    BY <2>2, <2>6
  <2>8. phase' \in [Conn -> {"idle", "filter", "flush"}]
    BY <2>6
  <2> QED BY <2>4, <2>5, <2>6, <2>7, <2>8
<1>5. CASE Flush(c)
  <2>1. messages[c] \in Seq(Message) /\ messages[c] # <<>>
    BY <1>5 DEF Flush
  <2>2. Head(messages[c]) \in Message /\ Tail(messages[c]) \in Seq(Message)
    BY <2>1, TailResponse
  <2>3. SocketTypeOK'
    BY <1>5, <2>2, SocketTypes DEF Flush
  <2> QED BY <1>5, <2>2, <2>3 DEF Flush
<1>6. CASE fep_client_close(c) \/ Die(c)
  BY <1>6, SocketTypes, MessageTypes DEF fep_client_close, Die, clientVars
<1> QED BY <1>1, <1>2, <1>3, <1>4, <1>5, <1>6 DEF ClientNext, Answer

-----------------------------------------------------------------------------
(* A step of a client c leaves the other clients alone. *)
LEMMA OtherClients ==
  ASSUME IInv, NEW c \in Conn, ClientNext(c), NEW d \in Conn, d # c
  PROVE  /\ c2s'[d] = c2s[d] /\ s2c'[d] = s2c[d] /\ cli'[d] = cli[d]
         /\ phase'[d] = phase[d] /\ request'[d] = request[d]
         /\ messages'[d] = messages[d]
<1> USE DEF IInv, TypeOK, SocketTypeOK, ClientTypeOK
<1>1. CASE fep_client_open(c)
  BY <1>1 DEF fep_client_open, clientVars, Connect
<1>2. ASSUME NEW cmd \in ApiCommand, Call(c, cmd)
      PROVE  /\ c2s'[d] = c2s[d] /\ s2c'[d] = s2c[d] /\ cli'[d] = cli[d]
             /\ phase'[d] = phase[d] /\ request'[d] = request[d]
             /\ messages'[d] = messages[d]
  BY <1>2 DEF Call, ClientWrite, socketVars
<1>3. CASE Dispatch(c)
  BY <1>3 DEF Dispatch, ClientRead
<1>4. ASSUME NEW h \in BOOLEAN, FilterReturn(c, h)
      PROVE  /\ c2s'[d] = c2s[d] /\ s2c'[d] = s2c[d] /\ cli'[d] = cli[d]
             /\ phase'[d] = phase[d] /\ request'[d] = request[d]
             /\ messages'[d] = messages[d]
  BY <1>4 DEF FilterReturn, ClientWrite
<1>5. CASE Flush(c)
  BY <1>5 DEF Flush, ClientWrite
<1>6. CASE fep_client_close(c) \/ Die(c)
  BY <1>6 DEF fep_client_close, Die, ClientClose, clientVars
<1> QED BY <1>1, <1>2, <1>3, <1>4, <1>5, <1>6 DEF ClientNext, Answer

(* A client queues no RESPONSE behind the one it writes itself. *)
LEMMA ClientQueue ==
  ASSUME IInv, NEW c \in Conn, ClientNext(c)
  PROVE  QueueInv'
<1>0. SocketTypeOK /\ ClientTypeOK /\ QueueInv
  BY DEF IInv, TypeOK
<1>a. messages[c] \in Seq(Message) /\ NoResponse(messages[c])
  BY <1>0 DEF ClientTypeOK, QueueInv
<1>b. SUFFICES NoResponse(messages'[c])
  BY <1>0, OtherClients DEF QueueInv
<1> USE <1>0, <1>a DEF ClientTypeOK
<1>1. CASE messages' = messages
  BY <1>1
<1>2. ASSUME NEW cmd \in ApiCommand, Call(c, cmd)
      PROVE  NoResponse(messages'[c])
  <2> DEFINE m == Request(cmd, calls[c] + 1)
  <2>1. calls[c] + 1 \in Nat /\ cmd \in ClientRequest
    BY ApiAssumption
  <2>2. m \in Message /\ m.cmd # "RESPONSE"
    BY <2>1, MessageTypes
  <2>3. messages' = messages \/ messages' = [messages EXCEPT ![c] = Append(@, m)]
    BY <1>2 DEF Call
  <2> HIDE DEF m
  <2> QED BY <2>2, <2>3, AppendResponse
<1>3. ASSUME NEW h \in BOOLEAN, FilterReturn(c, h)
      PROVE  NoResponse(messages'[c])
  <2> DEFINE x == Echo(request[c])
             e == IF request[c].cmd = "KEY_EVENT" /\ ~h THEN <<x>> ELSE <<>>
  <2>1. x \in Message /\ x.cmd # "RESPONSE"
    BY <1>3, FilterRequest, MessageTypes DEF FilterReturn
  <2>2. messages'[c] = messages[c] \o e
    BY <1>3 DEF FilterReturn
  <2>3. e = <<x>> \/ e = <<>>
    OBVIOUS
  <2> HIDE DEF x, e
  <2>4. CASE e = <<>>
    BY <2>2, <2>4, ConcatEmptySeq
  <2>5. CASE e = <<x>>
    <3>1. messages[c] \o <<x>> = Append(messages[c], x)
      BY <2>1, AppendIsConcat
    <3> QED BY <2>1, <2>2, <2>5, <3>1, AppendResponse
  <2> QED BY <2>3, <2>4, <2>5
<1>4. CASE Flush(c)
  BY <1>4, TailResponse DEF Flush
<1> QED
  BY <1>1, <1>2, <1>3, <1>4
     DEF ClientNext, Answer, fep_client_open, Dispatch, fep_client_close, Die,
         clientVars

-----------------------------------------------------------------------------
(* Lockstep is kept by the clients. *)
LEMMA ClientLockstep ==
  ASSUME IInv, NEW c \in Conn, ClientStep(c)
  PROVE  Lockstep'
<1>0. /\ SocketTypeOK /\ ClientTypeOK /\ QueueInv /\ Lockstep
      /\ req \in Message
      /\ ClientNext(c) /\ UNCHANGED <<pc, clients, idx, req>>
  BY DEF IInv, TypeOK, ServerTypeOK, ClientStep, serverVars
<1>1. \A d \in Conn : Waiting(d)' <=> Waiting(d)
  BY <1>0 DEF Waiting, Peer
<1> DEFINE LS(d) == IF Waiting(d) THEN Asked(d) \/ Filtering(d) \/ Answered(d) \/ Gone(d)
                                 ELSE Unasked(d)
<1>2. ASSUME NEW d \in Conn, d # c
      PROVE  LS(d)'
  <2>1. LS(d)
    BY <1>0 DEF Lockstep
  <2>2. /\ c2s'[d] = c2s[d] /\ s2c'[d] = s2c[d] /\ cli'[d] = cli[d]
        /\ phase'[d] = phase[d] /\ request'[d] = request[d]
    BY <1>0, <1>2, OtherClients
  <2> QED BY <1>0, <1>1, <2>1, <2>2
          DEF Asked, Filtering, Answered, Gone, Unasked
<1>s. SUFFICES LS(c)'
  BY <1>2 DEF Lockstep
<1>3. /\ c2s[c] \in Seq(Message) /\ s2c[c] \in Seq(Message)
      /\ messages[c] \in Seq(Message) /\ NoResponse(messages[c])
      /\ LS(c)
  BY <1>0 DEF SocketTypeOK, ClientTypeOK, QueueInv, Lockstep
<1>4. ASSUME NEW m \in Message, m.cmd # "RESPONSE", ClientWrite(c, m),
             phase[c] # "filter", phase'[c] # "filter", cli[c] = "open"
      PROVE  LS(c)'
  <2>1. /\ c2s'[c] = Append(c2s[c], m) /\ s2c' = s2c /\ cli' = cli
    BY <1>0, <1>4 DEF ClientWrite, SocketTypeOK
  <2>2. /\ NoResponse(c2s[c]) => NoResponse(c2s'[c])
        /\ \A x : OneResponse(c2s[c], x) => OneResponse(c2s'[c], x)
    BY <1>3, <1>4, <2>1, AppendResponse
  <2>3. CASE Waiting(c)
    BY <1>0, <1>1, <1>3, <1>4, <2>1, <2>2, <2>3
       DEF Asked, Filtering, Answered, Gone
  <2>4. CASE ~Waiting(c)
    BY <1>0, <1>1, <1>3, <1>4, <2>1, <2>2, <2>4 DEF Unasked
  <2> QED BY <2>3, <2>4
<1>5. ASSUME UNCHANGED <<c2s, s2c, cli, phase, request>>
      PROVE  LS(c)'
  BY <1>0, <1>1, <1>3, <1>5 DEF Asked, Filtering, Answered, Gone, Unasked
<1>6. CASE fep_client_open(c)
  <2>1. /\ c2s' = c2s /\ s2c' = s2c /\ phase' = phase
        /\ cli[c] = "none" /\ cli'[c] = "open"
    BY <1>0, <1>6 DEF fep_client_open, Connect, clientVars, SocketTypeOK
  <2>2. CASE Waiting(c)
    BY <1>0, <1>1, <1>3, <2>1, <2>2 DEF Asked, Filtering, Answered, Gone
  <2>3. CASE ~Waiting(c)
    BY <1>0, <1>1, <1>3, <2>1, <2>3 DEF Unasked
  <2> QED BY <2>2, <2>3
<1>7. ASSUME NEW cmd \in ApiCommand, Call(c, cmd)
      PROVE  LS(c)'
  <2> DEFINE m == Request(cmd, calls[c] + 1)
  <2>1. calls[c] + 1 \in Nat /\ cmd \in ClientRequest
    BY <1>0, ApiAssumption DEF ClientTypeOK
  <2>2. m \in Message /\ m.cmd # "RESPONSE"
    BY <2>1, MessageTypes
  <2>3. /\ cli[c] = "open" /\ UNCHANGED <<phase, request>>
        /\ \/ phase[c] = "idle" /\ ClientWrite(c, m)
           \/ UNCHANGED socketVars
    BY <1>7 DEF Call
  <2> HIDE DEF m
  <2>4. CASE phase[c] = "idle" /\ ClientWrite(c, m)
    BY <1>4, <2>2, <2>3, <2>4
  <2>5. CASE UNCHANGED socketVars
    BY <1>5, <2>3, <2>5 DEF socketVars
  <2> QED BY <2>3, <2>4, <2>5
<1>8. CASE Dispatch(c)
  <2>1. /\ s2c[c] # <<>> /\ cli[c] = "open"
        /\ c2s' = c2s /\ cli' = cli /\ s2c'[c] = Tail(s2c[c])
        /\ phase'[c] = "filter" /\ request'[c] = Head(s2c[c])
    BY <1>0, <1>8 DEF Dispatch, ClientRead, SocketTypeOK, ClientTypeOK
  <2>2. Waiting(c) /\ Asked(c)
    BY <1>3, <2>1 DEF Filtering, Answered, Gone, Unasked
  <2>3. Head(s2c[c]) = req /\ Tail(s2c[c]) = <<>>
    BY <1>0, <2>2 DEF Asked
  <2>4. Filtering(c)'
    BY <1>0, <2>1, <2>2, <2>3 DEF Asked, Filtering
  <2> QED BY <1>1, <2>2, <2>4
<1>9. ASSUME NEW h \in BOOLEAN, FilterReturn(c, h)
      PROVE  LS(c)'
  <2>1. /\ cli[c] = "open" /\ phase[c] = "filter"
        /\ c2s'[c] = Append(c2s[c], Response(request[c]))
        /\ s2c' = s2c /\ cli' = cli /\ phase'[c] # "filter"
    BY <1>0, <1>9 DEF FilterReturn, ClientWrite, SocketTypeOK, ClientTypeOK
  <2>2. Waiting(c) /\ Filtering(c) /\ request[c] \in Message
          /\ request[c].cmd \in ServerRequest
    BY <2>1, FilterRequest
  <2>3. OneResponse(c2s'[c], req.cmd)
    BY <1>3, <2>1, <2>2, MessageTypes, AppendResponse DEF Filtering
  <2>4. Answered(c)'
    BY <1>0, <2>1, <2>2, <2>3 DEF Filtering, Answered
  <2> QED BY <1>1, <2>2, <2>4
<1>10. CASE Flush(c)
  <2>1. /\ messages[c] # <<>> /\ ClientWrite(c, Head(messages[c]))
        /\ cli[c] = "open" /\ phase[c] # "filter" /\ phase'[c] # "filter"
    BY <1>0, <1>10 DEF Flush, ClientTypeOK
  <2>2. Head(messages[c]) \in Message /\ Head(messages[c]).cmd # "RESPONSE"
    BY <1>3, <2>1, TailResponse
  <2> QED BY <1>4, <2>1, <2>2
<1>11. CASE fep_client_close(c) \/ Die(c)
  <2>1. /\ c2s' = c2s /\ s2c'[c] = <<>> /\ cli[c] = "open" /\ cli'[c] = "closed"
    BY <1>0, <1>11 DEF fep_client_close, Die, ClientClose, SocketTypeOK
  <2>2. CASE Waiting(c)
    BY <1>0, <1>1, <1>3, <2>1, <2>2 DEF Asked, Filtering, Answered, Gone
  <2>3. CASE ~Waiting(c)
    BY <1>0, <1>1, <1>3, <2>1, <2>3 DEF Unasked
  <2> QED BY <2>2, <2>3
<1> HIDE DEF LS
<1> QED
  BY <1>0, <1>6, <1>7, <1>8, <1>9, <1>10, <1>11 DEF ClientNext, Answer

-----------------------------------------------------------------------------
(* What a step of fep has to keep beside Lockstep. *)
ServerOK == SocketTypeOK /\ TerminalTypeOK /\ ServerTypeOK /\ LoopInv

(* ws_row stays an unsigned short, for a terminal of 0 rows, too. *)
LEMMA WsRowType == \A r \in UShort : r \in Nat /\ WsRow(r) \in UShort
<1>1. \A i \in Int : i % 65536 \in UShort
  BY SMTT(30) DEF UShort
<1>2. \A r \in UShort : r \in Nat /\ r - 1 \in Int
  BY SMTT(30) DEF UShort
<1>3. \A r \in UShort : (r - 1) % 65536 \in UShort
  BY <1>1, <1>2
<1> QED BY <1>2, <1>3 DEF WsRow

(* done () keeps types, from wherever it is called. *)
LEMMA DoneTypes ==
  ASSUME ServerOK, Done, signals' \subseteq signals
  PROVE  ServerOK'
<1>a. /\ raw' = FALSE
      /\ UNCHANGED <<left, ttyin, ttyState, termRows, pending, child, childOut,
                     ptyRows>>
  BY DEF Done
<1>2. TerminalTypeOK'
  BY <1>a DEF ServerOK, TerminalTypeOK
<1> USE DEF ServerOK, Done, tableVars, loopVars
<1>1. SocketTypeOK'
  BY EmptySeq DEF SocketTypeOK, ServerGone, EndState
<1>3. region' \in Nat
  <2>1. winRows \in Nat
    BY WsRowType DEF ServerTypeOK
  <2> QED BY <2>1
<1>4. ServerTypeOK'
  BY <1>3 DEF ServerTypeOK, Pc
<1>5. LoopInv'
  BY DEF LoopInv
<1> QED BY <1>1, <1>2, <1>4, <1>5

(* _fep_pselect returns descriptors of fep, or signals. *)
LEMMA PselectTypes ==
  ASSUME ServerOK, PselectReady \/ PselectSignal
  PROVE  ServerOK'
<1> USE DEF ServerOK, tableVars, loopVars, sizeVars, terminalVars, socketVars
<1>1. CASE PselectReady
  <2>1. Clients \subseteq Conn
    BY DEF Clients, LoopInv
  <2>2. Ready \subseteq Fd
    BY <2>1 DEF Ready, Fd
  <2>3. ServerTypeOK'
    BY <1>1, <2>2 DEF PselectReady, ServerTypeOK, Pc
  <2>4. SocketTypeOK' /\ TerminalTypeOK' /\ LoopInv'
    BY <1>1 DEF PselectReady, SocketTypeOK, TerminalTypeOK, LoopInv
  <2> QED BY <2>3, <2>4
<1>2. CASE PselectSignal
  <2>1. ServerTypeOK'
    BY <1>2 DEF PselectSignal, ServerTypeOK, TerminalTypeOK, Pc
  <2>2. SocketTypeOK' /\ TerminalTypeOK' /\ LoopInv'
    BY <1>2 DEF PselectSignal, SocketTypeOK, TerminalTypeOK, LoopInv
  <2> QED BY <2>1, <2>2
<1> QED BY <1>1, <1>2

(* The signal handlers of main_loop, and the stop, keep types. *)
LEMMA SignalTypes ==
  ASSUME ServerOK, HandleSignals \/ Continue
  PROVE  ServerOK'
<1> USE DEF ServerOK, tableVars, loopVars, sizeVars, terminalVars, socketVars
<1>1. CASE handle_term_signal
  BY <1>1, DoneTypes DEF handle_term_signal
<1>2. CASE handle_winch_signal
  <2>1. WsRow(termRows) \in UShort
    BY RowsAssumption, WsRowType DEF TerminalTypeOK
  <2>2. winRows \in UShort /\ winRows \in Nat
    BY WsRowType DEF ServerTypeOK
  <2>3. req' \in Message /\ req'.cmd = "RESIZE_EVENT"
    BY <1>2, <2>2, MessageTypes DEF handle_winch_signal, ServerRequest
  <2>4. idx' \in 0 .. MaxClients /\ idx' <= nClients
    BY <1>2, MaxClientsAssumption DEF handle_winch_signal, ServerTypeOK
  <2>5. ServerTypeOK'
    BY <1>2, <2>1, <2>2, <2>3, <2>4 DEF handle_winch_signal, ServerTypeOK, Pc
  <2>6. SocketTypeOK' /\ TerminalTypeOK'
    BY <1>2, <2>1 DEF handle_winch_signal, SocketTypeOK, TerminalTypeOK
  <2>7. LoopInv'
    BY <1>2, <2>3, <2>4 DEF handle_winch_signal, LoopInv, ServerRequest
  <2> QED BY <2>5, <2>6, <2>7
<1>3. CASE handle_tstp_signal
  <2>1. ServerTypeOK'
    BY <1>3 DEF handle_tstp_signal, ServerTypeOK, Pc
  <2>2. SocketTypeOK' /\ TerminalTypeOK' /\ LoopInv'
    BY <1>3 DEF handle_tstp_signal, SocketTypeOK, TerminalTypeOK, LoopInv
  <2> QED BY <2>1, <2>2
<1>4. CASE SignalsDone \/ Continue
  <2>1. ServerTypeOK'
    BY <1>4 DEF SignalsDone, Continue, ServerTypeOK, Pc
  <2>2. SocketTypeOK' /\ LoopInv'
    BY <1>4 DEF SignalsDone, Continue, SocketTypeOK, LoopInv
  <2>3. pending' \subseteq Signal
    BY <1>4 DEF SignalsDone, Continue, TerminalTypeOK
  <2>4. TerminalTypeOK'
    BY <1>4, <2>3 DEF SignalsDone, Continue, TerminalTypeOK
  <2> QED BY <2>1, <2>2, <2>4
<1> QED BY <1>1, <1>2, <1>3, <1>4 DEF HandleSignals

(* Reading and announcing keys keeps types. *)
LEMMA TtyTypes ==
  ASSUME ServerOK, ReadTty \/ ReadTtyError \/ NextKey
  PROVE  ServerOK'
<1>1. CASE ReadTty
  <2>1. /\ \/ keys' = ttyin /\ ttyin' = <<>>
           \/ UNCHANGED <<keys, ttyin>>
        /\ pc' \in {"key", "waitpid", "pty"}
        /\ UNCHANGED <<isHandled, idx, req, queued, retval, tableVars, sizeVars,
                       fds, signals, effects, left, ttyState, termRows, raw,
                       pending, child, childOut, ptyRows, socketVars>>
    BY <1>1 DEF ReadTty
  <2> USE <2>1 DEF ServerOK, tableVars, sizeVars, socketVars
  <2>2. ServerTypeOK'
    BY DEF ServerTypeOK, TerminalTypeOK, Pc
  <2>3. TerminalTypeOK'
    BY EmptySeq DEF TerminalTypeOK
  <2>4. SocketTypeOK' /\ LoopInv'
    BY DEF SocketTypeOK, LoopInv
  <2> QED BY <2>2, <2>3, <2>4
<1>2. CASE ReadTtyError
  BY <1>2, DoneTypes DEF ReadTtyError
<1>3. CASE NextKey
  <2> USE DEF ServerOK, tableVars, sizeVars, terminalVars, socketVars
  <2>1. CASE keys # <<>>
    <3>1. Head(keys) \in Nat
      BY <2>1, HeadTailProperties DEF ServerTypeOK
    <3>2. /\ req' = Request("KEY_EVENT", Head(keys)) /\ isHandled' = FALSE
          /\ idx' = 0 /\ pc' = "send"
      BY <1>3, <2>1 DEF NextKey
    <3>3. req' \in Message /\ req'.cmd = "KEY_EVENT"
      BY <3>1, <3>2, MessageTypes DEF ServerRequest
    <3>4. idx' \in 0 .. MaxClients /\ idx' <= nClients
      BY <3>2, MaxClientsAssumption DEF ServerTypeOK
    <3>5. ServerTypeOK'
      BY <1>3, <3>2, <3>3, <3>4 DEF NextKey, ServerTypeOK, Pc
    <3>6. LoopInv'
      BY <1>3, <2>1, <3>2, <3>3, <3>4 DEF NextKey, LoopInv, ServerRequest
    <3>7. SocketTypeOK' /\ TerminalTypeOK'
      BY <1>3 DEF NextKey, SocketTypeOK, TerminalTypeOK
    <3> QED BY <3>5, <3>6, <3>7
  <2>2. CASE keys = <<>>
    <3>1. /\ pc' = "pty"
          /\ UNCHANGED <<req, isHandled, idx, keys, queued, retval, tableVars,
                         sizeVars, fds, signals, effects, terminalVars,
                         socketVars>>
      BY <1>3, <2>2 DEF NextKey
    <3>2. ServerTypeOK'
      BY <3>1 DEF ServerTypeOK, Pc
    <3>3. SocketTypeOK' /\ TerminalTypeOK' /\ LoopInv'
      BY <3>1 DEF SocketTypeOK, TerminalTypeOK, LoopInv
    <3> QED BY <3>2, <3>3
  <2> QED BY <2>1, <2>2
<1> QED BY <1>1, <1>2, <1>3

(* Between two system calls of an exchange, idx is in the table. *)
LEMMA PeerType ==
  ASSUME ServerOK, idx < nClients
  PROVE  /\ Peer \in Conn /\ idx + 1 \in 0 .. MaxClients
         /\ idx + 1 <= nClients
<1>1. idx \in Nat /\ nClients \in Nat /\ nClients <= MaxClients
  BY MaxClientsAssumption DEF ServerOK, ServerTypeOK
<1>2. idx \in 0 .. nClients - 1
  BY <1>1
<1> QED BY <1>1, <1>2, MaxClientsAssumption DEF ServerOK, LoopInv, Peer

(* Executing a client's message appends a well-formed effect. *)
LEMMA EffectType ==
  ASSUME ServerOK, NEW c \in Conn, NEW m \in Message, Execute(c, m)
  PROVE  effects' \in Seq(Effect)
<1> DEFINE e == [from |-> c, cmd |-> m.cmd, of |-> m.of, num |-> m.num]
<1>1. m.cmd \in ClientRequest => e \in Effect
  BY DEF Message, Effect
<1>2. effects' = IF m.cmd \in ClientRequest THEN Append(effects, e) ELSE effects
  BY DEF Execute
<1>3. effects \in Seq(Effect)
  BY DEF ServerOK, ServerTypeOK
<1> HIDE DEF e
<1> QED BY <1>1, <1>2, <1>3, AppendProperties

(* Writing a request, or failing to, keeps types. *)
LEMMA SendTypes ==
  ASSUME ServerOK, SendRequest \/ SendFails \/ SendKills
  PROVE  ServerOK'
<1> USE DEF ServerOK, tableVars, sizeVars, loopVars, terminalVars
<1>1. CASE SendRequest
  <2>1. SocketTypeOK'
    BY <1>1, PeerType, SocketTypes DEF SendRequest, ServerTypeOK
  <2>2. ServerTypeOK'
    BY <1>1, EmptySeq DEF SendRequest, ServerTypeOK, Pc
  <2>3. TerminalTypeOK' /\ LoopInv'
    BY <1>1 DEF SendRequest, TerminalTypeOK, LoopInv
  <2> QED BY <2>1, <2>2, <2>3
<1>2. CASE SendFails
  <2>1. idx + 1 \in 0 .. MaxClients /\ idx + 1 <= nClients
    BY <1>2, PeerType DEF SendFails
  <2>2. fds' \subseteq Fd
    BY <1>2 DEF SendFails, ClearFd, ServerTypeOK
  <2>3. ServerTypeOK'
    BY <1>2, <2>1, <2>2 DEF SendFails, ServerTypeOK
  <2>4. TerminalTypeOK' /\ SocketTypeOK'
    BY <1>2 DEF SendFails, TerminalTypeOK, SocketTypeOK, socketVars
  <2>5. LoopInv'
    BY <1>2, <2>1 DEF SendFails, LoopInv
  <2> QED BY <2>3, <2>4, <2>5
<1>3. CASE SendKills
  <2>1. SocketTypeOK'
    BY <1>3, PeerType, SocketTypes, MessageTypes DEF SendKills
  <2>2. ServerTypeOK'
    BY <1>3 DEF SendKills, ServerTypeOK, Pc
  <2>3. TerminalTypeOK' /\ LoopInv'
    BY <1>3 DEF SendKills, TerminalTypeOK, LoopInv
  <2> QED BY <2>1, <2>2, <2>3
<1> QED BY <1>1, <1>2, <1>3

(* Reading on the way to a RESPONSE keeps types. *)
LEMMA WaitTypes ==
  ASSUME ServerOK, WaitResponse
  PROVE  ServerOK'
<1> USE DEF ServerOK, tableVars, sizeVars, terminalVars
<1>1. idx < nClients /\ pc = "wait" /\ Peer \in Conn
  BY PeerType DEF WaitResponse, LoopInv
<1>2. /\ UNCHANGED <<keys, isHandled, idx, req, tableVars, sizeVars, fds,
                     signals, effects, terminalVars>>
      /\ pc' \in {"wait", "flush"}
  BY <1>1 DEF WaitResponse
<1>3. SocketTypeOK' /\ queued' \in Seq(Message) /\ retval' \in BOOLEAN
  <2>1. CASE ServerRead(Peer)
    <3>1. SocketTypeOK'
      BY <1>1, <2>1, SocketTypes, MessageTypes
    <3>2. Head(c2s[Peer]) \in Message
      BY <1>1, <2>1, TailResponse DEF ServerRead, SocketTypeOK
    <3>3. Append(queued, Head(c2s[Peer])) \in Seq(Message)
      BY <3>2, AppendProperties DEF ServerTypeOK
    <3>4. c2s[Peer] # <<>>
      BY <2>1 DEF ServerRead
    <3>5. \/ retval' = (Head(c2s[Peer]).of = req.cmd) /\ UNCHANGED queued
          \/ queued' = Append(queued, Head(c2s[Peer])) /\ UNCHANGED retval
      BY <3>4 DEF WaitResponse, Accepted
    <3> QED BY <3>1, <3>3, <3>5 DEF ServerTypeOK
  <2>2. CASE retval' = FALSE /\ UNCHANGED <<queued, socketVars>>
    BY <2>2 DEF SocketTypeOK, socketVars, ServerTypeOK
  <2> QED BY <2>1, <2>2 DEF WaitResponse
<1>4. ServerTypeOK'
  BY <1>2, <1>3 DEF ServerTypeOK, Pc
<1>5. TerminalTypeOK' /\ LoopInv'
  BY <1>1, <1>2 DEF TerminalTypeOK, LoopInv
<1> QED BY <1>3, <1>4, <1>5

(* Executing what has been put aside keeps types. *)
LEMMA FlushTypes ==
  ASSUME ServerOK, FlushQueued \/ TransceiveReturn
  PROVE  ServerOK'
<1> USE DEF ServerOK, tableVars, sizeVars, terminalVars, socketVars
<1>1. idx < nClients /\ pc = "flush" /\ Peer \in Conn
        /\ idx + 1 \in 0 .. MaxClients /\ idx + 1 <= nClients
  <2>1. idx < nClients /\ pc = "flush"
    BY DEF FlushQueued, TransceiveReturn, LoopInv
  <2> QED BY <2>1, PeerType
<1>2. CASE FlushQueued
  <2>1. Head(queued) \in Message /\ Tail(queued) \in Seq(Message)
    BY <1>2, HeadTailProperties DEF FlushQueued, ServerTypeOK
  <2>2. effects' \in Seq(Effect)
    BY <1>1, <1>2, <2>1, EffectType DEF FlushQueued
  <2>3. ServerTypeOK'
    BY <1>2, <2>1, <2>2 DEF FlushQueued, ServerTypeOK
  <2>4. SocketTypeOK' /\ TerminalTypeOK' /\ LoopInv'
    BY <1>2 DEF FlushQueued, SocketTypeOK, TerminalTypeOK, LoopInv
  <2> QED BY <2>3, <2>4
<1>3. CASE TransceiveReturn
  <2>1. fds' \subseteq Fd /\ isHandled' \in BOOLEAN
    BY <1>3 DEF TransceiveReturn, ClearFd, ServerTypeOK
  <2>2. pc' = "send" /\ idx' = idx + 1
    BY <1>3 DEF TransceiveReturn
  <2>3. ServerTypeOK'
    BY <1>1, <1>3, <2>1, <2>2 DEF TransceiveReturn, ServerTypeOK, Pc
  <2>4. SocketTypeOK' /\ TerminalTypeOK'
    BY <1>3 DEF TransceiveReturn, SocketTypeOK, TerminalTypeOK
  <2>5. LoopInv'
    BY <1>1, <1>3, <2>2 DEF TransceiveReturn, LoopInv
  <2> QED BY <2>3, <2>4, <2>5
<1> QED BY <1>2, <1>3

(* The end of a request keeps types. *)
LEMMA RequestDoneTypes ==
  ASSUME ServerOK, RequestDone
  PROVE  ServerOK'
<1> USE DEF ServerOK, tableVars, sizeVars, terminalVars, socketVars
<1> DEFINE e == [from |-> "tty", cmd |-> "SEND_DATA", of |-> "KEY_EVENT",
                 num |-> req.num]
<1>1. e \in Effect
  BY DEF ServerTypeOK, Message, Effect, ClientRequest, ToChild, ServerRequest
<1>2. Append(effects, e) \in Seq(Effect)
  BY <1>1, AppendProperties DEF ServerTypeOK
<1>3. req.cmd = "KEY_EVENT" => Tail(keys) \in Seq(Nat)
  BY HeadTailProperties DEF RequestDone, LoopInv, ServerTypeOK
<1> HIDE DEF e
<1>4. effects' \in Seq(Effect) /\ keys' \in Seq(Nat) /\ pc' \in {"key", "signals"}
  BY <1>2, <1>3 DEF RequestDone, ServerTypeOK, e
<1>5. UNCHANGED <<isHandled, idx, req, queued, retval, tableVars, sizeVars, fds,
                  signals, terminalVars, socketVars>>
  BY DEF RequestDone
<1>6. ServerTypeOK'
  BY <1>4, <1>5 DEF ServerTypeOK, Pc
<1>7. SocketTypeOK' /\ TerminalTypeOK' /\ LoopInv'
  BY <1>4, <1>5 DEF SocketTypeOK, TerminalTypeOK, LoopInv
<1> QED BY <1>6, <1>7

(* Reading the pty, waitpid and the end of a round keep types. *)
LEMMA PtyTypes ==
  ASSUME ServerOK, ReadPty \/ WaitPid
  PROVE  ServerOK'
<1>1. CASE ReadPty
  <2>1. /\ childOut' \in BOOLEAN /\ pc' \in {"accept", "waitpid"}
        /\ UNCHANGED <<loopVars, tableVars, sizeVars, fds, signals, effects,
                       left, ttyin, ttyState, termRows, raw, pending, child,
                       ptyRows, socketVars>>
    BY <1>1 DEF ReadPty, ServerOK, TerminalTypeOK
  <2> USE <2>1 DEF ServerOK, tableVars, sizeVars, loopVars, socketVars
  <2>2. ServerTypeOK' /\ LoopInv'
    BY DEF ServerTypeOK, LoopInv, Pc
  <2>3. TerminalTypeOK' /\ SocketTypeOK'
    BY DEF TerminalTypeOK, SocketTypeOK
  <2> QED BY <2>2, <2>3
<1>2. CASE WaitPid
  BY <1>2, DoneTypes DEF WaitPid
<1> QED BY <1>1, <1>2

(* A new connection is put inside clients[]. *)
LEMMA AcceptTypes ==
  ASSUME ServerOK, AcceptClient
  PROVE  ServerOK'
<1> USE DEF ServerOK, tableVars, sizeVars, terminalVars, socketVars
<1>1. /\ idx' = 0 /\ pc' \in {"clients", "undefined"}
      /\ UNCHANGED <<keys, isHandled, req, queued, retval, sizeVars, fds,
                     signals, effects, terminalVars>>
  BY DEF AcceptClient
<1>2. idx' \in 0 .. MaxClients
  BY <1>1, MaxClientsAssumption
<1>3. TerminalTypeOK'
  BY <1>1 DEF TerminalTypeOK
<1>4. CASE nClients < MaxClients /\ ServerAccept
           /\ clients' = [clients EXCEPT ![nClients] = Head(backlog)]
           /\ nClients' = nClients + 1
  <2>1. Head(backlog) \in Conn
    BY <1>4, HeadTailProperties DEF ServerAccept, SocketTypeOK
  <2>2. /\ nClients \in Nat /\ nClients \in Slot
        /\ nClients' \in 0 .. MaxClients
    BY <1>4, MaxClientsAssumption DEF ServerTypeOK, Slot
  <2>3. clients' \in [Slot -> Conn \cup {NoFd}]
    BY <1>4, <2>1, <2>2 DEF ServerTypeOK
  <2>4. \A s \in 0 .. nClients' - 1 : clients'[s] \in Conn
    <3>1. \A s \in 0 .. nClients' - 1 : s = nClients \/ s \in 0 .. nClients - 1
      BY <1>4, <2>2
    <3>2. \A s \in 0 .. nClients - 1 : s \in Slot /\ s # nClients
      BY <2>2, MaxClientsAssumption, <1>4 DEF Slot
    <3>3. clients \in [Slot -> Conn \cup {NoFd}]
      BY DEF ServerTypeOK
    <3> QED BY <1>4, <2>1, <2>2, <3>1, <3>2, <3>3 DEF LoopInv
  <2>5. SocketTypeOK'
    <3>1. PICK c \in Conn : TRUE
      BY <2>1
    <3> QED BY <1>4, <3>1, SocketTypes, MessageTypes
  <2>6. ServerTypeOK'
    BY <1>1, <1>2, <2>2, <2>3 DEF ServerTypeOK, Pc
  <2>7. LoopInv'
    BY <1>1, <2>4 DEF LoopInv
  <2> QED BY <1>3, <2>5, <2>6, <2>7
<1>5. CASE UNCHANGED <<tableVars, socketVars>>
  <2>1. ServerTypeOK'
    BY <1>1, <1>2, <1>5 DEF ServerTypeOK, Pc
  <2>2. SocketTypeOK' /\ LoopInv'
    BY <1>1, <1>5 DEF SocketTypeOK, LoopInv
  <2> QED BY <1>3, <2>1, <2>2
<1> QED BY <1>4, <1>5 DEF AcceptClient

(* Removing an entry, memmove with its count in bytes and all, leaves only *)
(* connections in the used part of the table.                              *)
LEMMA RemoveTypes ==
  ASSUME ServerOK, NEW c \in Conn, RemoveClient(c)
  PROVE  /\ clients' \in [Slot -> Conn \cup {NoFd}]
         /\ nClients' \in 0 .. MaxClients
         /\ \A s \in 0 .. nClients' - 1 : clients'[s] \in Conn
         /\ SocketTypeOK'
<1>1. PICK s \in 0 .. nClients - 1 :
        /\ clients' = [k \in Slot |->
                         IF k = nClients - 1 THEN NoFd
                         ELSE IF k \in s .. s + Moved(s) - 1 THEN clients[k + 1]
                         ELSE clients[k]]
        /\ nClients' = nClients - 1
        /\ ServerClose(c)
  BY DEF RemoveClient
<1>2. /\ nClients \in Nat /\ nClients <= MaxClients /\ nClients >= 1
      /\ MaxClients \in Nat
  BY <1>1, MaxClientsAssumption DEF ServerOK, ServerTypeOK
<1>3. Moved(s) \in Nat /\ s + Moved(s) - 1 <= nClients - 2
  <2>1. \A n \in Nat : (n + 3) \div 4 \in Nat /\ (n + 3) \div 4 <= n
    OBVIOUS
  <2>2. nClients - (s + 1) \in Nat
    BY <1>1, <1>2
  <2> QED BY <1>1, <1>2, <2>1, <2>2 DEF Moved
<1>4. /\ clients \in [Slot -> Conn \cup {NoFd}]
      /\ \A k \in 0 .. nClients - 1 : clients[k] \in Conn
  BY DEF ServerOK, ServerTypeOK, LoopInv
<1>5. \A k \in Slot : k \in s .. s + Moved(s) - 1 => k + 1 \in 0 .. nClients - 1
  BY <1>1, <1>2, <1>3 DEF Slot
<1>6. clients' \in [Slot -> Conn \cup {NoFd}]
  BY <1>1, <1>4, <1>5
<1>7. nClients' \in 0 .. MaxClients
  BY <1>1, <1>2
<1>8. \A k \in 0 .. nClients' - 1 :
         k \in Slot /\ k # nClients - 1 /\ k \in 0 .. nClients - 1
  BY <1>1, <1>2 DEF Slot
<1>9. \A k \in 0 .. nClients' - 1 : clients'[k] \in Conn
  BY <1>1, <1>4, <1>5, <1>8
<1>10. SocketTypeOK'
  BY <1>1, SocketTypes, MessageTypes DEF ServerOK
<1> QED BY <1>6, <1>7, <1>9, <1>10

(* The loop over the clients keeps types, across removals. *)
LEMMA ReadClientTypes ==
  ASSUME ServerOK, ReadClient \/ ClientsDone
  PROVE  ServerOK'
<1> USE DEF ServerOK, tableVars, sizeVars, terminalVars, socketVars
<1>1. CASE ReadClient
  <2>1. /\ idx < nClients /\ pc = "clients"
        /\ UNCHANGED <<pc, keys, isHandled, req, queued, retval, sizeVars, fds,
                       signals, terminalVars>>
    BY <1>1 DEF ReadClient
  <2>2. idx' = idx + 1
    BY <1>1 DEF ReadClient
  <2>3. Peer \in Conn /\ idx' \in 0 .. MaxClients
    BY <2>1, <2>2, PeerType
  <2>4. TerminalTypeOK'
    BY <2>1 DEF TerminalTypeOK
  <2>5. /\ clients' \in [Slot -> Conn \cup {NoFd}]
        /\ nClients' \in 0 .. MaxClients
        /\ \A s \in 0 .. nClients' - 1 : clients'[s] \in Conn
        /\ SocketTypeOK'
        /\ effects' \in Seq(Effect)
    <3>1. CASE ServerRead(Peer) /\ Execute(Peer, Head(c2s[Peer]))
               /\ UNCHANGED tableVars
      <4>1. Head(c2s[Peer]) \in Message
        BY <2>3, <3>1, TailResponse DEF ServerRead, SocketTypeOK
      <4>2. effects' \in Seq(Effect)
        BY <2>3, <3>1, <4>1, EffectType
      <4>3. SocketTypeOK'
        BY <2>3, <3>1, SocketTypes, MessageTypes
      <4> QED BY <3>1, <4>2, <4>3 DEF ServerTypeOK, LoopInv
    <3>2. CASE RemoveClient(Peer) /\ UNCHANGED effects
      BY <2>3, <3>2, RemoveTypes DEF ServerTypeOK
    <3>3. CASE UNCHANGED <<effects, tableVars, socketVars>>
      BY <3>3 DEF ServerTypeOK, SocketTypeOK, LoopInv
    <3> QED BY <1>1, <3>1, <3>2, <3>3 DEF ReadClient
  <2>6. ServerTypeOK'
    BY <2>1, <2>3, <2>5 DEF ServerTypeOK
  <2>7. LoopInv'
    BY <2>1, <2>5 DEF LoopInv
  <2> QED BY <2>4, <2>5, <2>6, <2>7
<1>2. CASE ClientsDone
  <2> USE DEF loopVars
  <2>1. ServerTypeOK'
    BY <1>2 DEF ClientsDone, ServerTypeOK, Pc
  <2>2. SocketTypeOK' /\ TerminalTypeOK' /\ LoopInv'
    BY <1>2 DEF ClientsDone, SocketTypeOK, TerminalTypeOK, LoopInv
  <2> QED BY <2>1, <2>2
<1> QED BY <1>1, <1>2

-----------------------------------------------------------------------------
(* Lockstep is kept by the steps of fep.  Those outside of an exchange do  *)
(* not touch what it is about.                                             *)
LEMMA OutsideExchange ==
  ASSUME Lockstep, pc # "wait", pc' # "wait",
         UNCHANGED <<c2s, s2c, cli, clientVars>>
  PROVE  Lockstep'
<1>1. UNCHANGED <<phase, request>>
  BY DEF clientVars
<1>2. \A c \in Conn : ~Waiting(c) /\ ~Waiting(c)'
  BY DEF Waiting
<1> QED BY <1>1, <1>2 DEF Lockstep, Unasked

(* A request is written only to a client of which nothing is asked. *)
LEMMA SendLockstep ==
  ASSUME IInv, SendRequest, UNCHANGED clientVars
  PROVE  Lockstep'
<1>0. /\ Lockstep /\ SocketTypeOK /\ pc = "send" /\ pc' = "wait"
      /\ ServerWrite(Peer, req) /\ Peer \in Conn
      /\ UNCHANGED <<clients, idx, req, phase, request>>
  BY PeerType DEF SendRequest, IInv, TypeOK, ServerOK, tableVars, clientVars
<1>1. \A c \in Conn : ~Waiting(c) /\ (Waiting(c)' <=> c = Peer)
  BY <1>0 DEF Waiting, Peer
<1>2. Asked(Peer)'
  <2>1. Unasked(Peer) /\ cli[Peer] = "open"
    BY <1>0, <1>1 DEF Lockstep, ServerWrite
  <2>2. /\ s2c'[Peer] = Append(<<>>, req) /\ c2s' = c2s /\ cli' = cli
    BY <1>0, <2>1 DEF Unasked, ServerWrite, SocketTypeOK
  <2>3. Peer' = Peer
    BY <1>0 DEF Peer
  <2>4. Append(<<>>, req) = <<req>>
    OBVIOUS
  <2> HIDE DEF Peer
  <2> QED BY <1>0, <2>1, <2>2, <2>3, <2>4 DEF Asked, Unasked
<1>3. ASSUME NEW c \in Conn, c # Peer
      PROVE  Unasked(c)'
  <2>1. s2c'[c] = s2c[c] /\ c2s' = c2s /\ cli' = cli
    BY <1>0, <1>3 DEF ServerWrite, SocketTypeOK
  <2> QED BY <1>0, <1>1, <2>1 DEF Lockstep, Unasked
<1>4. Peer' = Peer
  BY <1>0 DEF Peer
<1> QED BY <1>1, <1>2, <1>3, <1>4 DEF Lockstep

(* Reading takes the one RESPONSE, or a message in front of it. *)
LEMMA WaitLockstep ==
  ASSUME IInv, WaitResponse, UNCHANGED clientVars
  PROVE  Lockstep'
<1>0. /\ Lockstep /\ SocketTypeOK /\ pc = "wait" /\ Peer \in Conn
      /\ UNCHANGED <<clients, idx, req, phase, request>> /\ Peer' = Peer
  <2>1. pc = "wait" /\ UNCHANGED <<clients, idx, req>>
    BY DEF WaitResponse, tableVars
  <2>2. idx < nClients
    BY <2>1 DEF IInv, LoopInv
  <2> QED BY <2>1, <2>2, PeerType DEF IInv, TypeOK, ServerOK, clientVars, Peer
<1>p. PICK p \in Conn : p = Peer
  BY <1>0
<1>1. \A c \in Conn : (Waiting(c) <=> c = p) /\ (Waiting(c)' <=> pc' = "wait" /\ c = p)
  BY <1>0, <1>p DEF Waiting
<1>2. /\ c2s[p] \in Seq(Message)
      /\ Asked(p) \/ Filtering(p) \/ Answered(p) \/ Gone(p)
  BY <1>0, <1>1 DEF Lockstep, SocketTypeOK
<1>3. CASE ServerRead(p)
  <2> DEFINE m == Head(c2s[p])
  <2>1. /\ c2s[p] # <<>> /\ c2s'[p] = Tail(c2s[p])
        /\ UNCHANGED <<s2c, cli>>
        /\ \A c \in Conn : c # p => c2s'[c] = c2s[c]
    BY <1>0, <1>3 DEF ServerRead, SocketTypeOK
  <2>2. /\ NoResponse(c2s[p]) => m.cmd # "RESPONSE" /\ NoResponse(c2s'[p])
        /\ \A x : OneResponse(c2s[p], x) =>
             IF m.cmd = "RESPONSE" THEN m.of = x /\ NoResponse(c2s'[p])
                                   ELSE OneResponse(c2s'[p], x)
    BY <1>2, <2>1, TailResponse
  <2>3. IF m.cmd = "RESPONSE" THEN pc' = "flush" ELSE pc' = "wait"
    BY <1>0, <1>p, <2>1 DEF WaitResponse
  <2> HIDE DEF m
  <2>4. ASSUME NEW c \in Conn, c # p
        PROVE  Unasked(c)'
    BY <1>0, <1>1, <2>1, <2>4 DEF Lockstep, Unasked
  <2>5. CASE m.cmd = "RESPONSE"
    <3>1. Answered(p)
      BY <1>2, <2>2, <2>5 DEF Asked, Filtering, Gone
    <3>2. Unasked(p)'
      BY <1>0, <2>1, <2>2, <2>5, <3>1 DEF Answered, Unasked
    <3> QED BY <1>1, <2>3, <2>4, <2>5, <3>2 DEF Lockstep
  <2>6. CASE m.cmd # "RESPONSE"
    <3>1. Asked(p)' \/ Filtering(p)' \/ Answered(p)' \/ Gone(p)'
      BY <1>0, <1>2, <2>1, <2>2, <2>6 DEF Asked, Filtering, Answered, Gone
    <3> QED BY <1>1, <2>3, <2>4, <2>6, <3>1 DEF Lockstep
  <2> QED BY <2>5, <2>6
<1>4. CASE c2s[p] = <<>> /\ cli[p] = "closed" /\ pc' = "flush"
            /\ UNCHANGED socketVars
  <2>1. NoResponse(<<>>) /\ ~OneResponse(<<>>, req.cmd)
    BY EmptySeq DEF NoResponse, OneResponse
  <2>2. UNCHANGED <<c2s, s2c, cli>>
    BY <1>4 DEF socketVars
  <2>3. Gone(p)
    BY <1>2, <1>4, <2>1 DEF Asked, Filtering, Answered
  <2>4. Unasked(p)'
    BY <1>0, <1>4, <2>2, <2>3 DEF Gone, Unasked
  <2>5. ASSUME NEW c \in Conn, c # p
        PROVE  Unasked(c)'
    BY <1>0, <1>1, <2>2, <2>5 DEF Lockstep, Unasked
  <2> QED BY <1>1, <1>4, <2>4, <2>5 DEF Lockstep
<1> QED BY <1>p, <1>3, <1>4 DEF WaitResponse

(* The loop over the clients never meets a RESPONSE. *)
LEMMA ReadClientLockstep ==
  ASSUME IInv, ReadClient, UNCHANGED clientVars
  PROVE  Lockstep'
<1>0. /\ Lockstep /\ SocketTypeOK /\ pc = "clients" /\ pc' = "clients"
      /\ Peer \in Conn
  BY PeerType DEF ReadClient, IInv, TypeOK, ServerOK
<1>1. CASE ServerRead(Peer)
  <2>1. \A c \in Conn : ~Waiting(c) /\ ~Waiting(c)'
    BY <1>0 DEF Waiting
  <2>2. UNCHANGED <<phase, request, s2c, cli>>
    BY <1>1 DEF clientVars, ServerRead
  <2>3. ASSUME NEW c \in Conn
        PROVE  NoResponse(c2s'[c])
    <3>1. NoResponse(c2s[c]) /\ c2s[c] \in Seq(Message)
      BY <1>0, <2>1 DEF Lockstep, Unasked, SocketTypeOK
    <3>2. CASE c = Peer
      <4>1. c2s[c] # <<>> /\ c2s'[c] = Tail(c2s[c])
        BY <1>0, <1>1, <3>2 DEF ServerRead, SocketTypeOK
      <4> QED BY <3>1, <4>1, TailResponse
    <3>3. CASE c # Peer
      BY <1>0, <1>1, <3>1, <3>3 DEF ServerRead, SocketTypeOK
    <3> QED BY <3>2, <3>3
  <2> QED BY <1>0, <2>1, <2>2, <2>3 DEF Lockstep, Unasked
<1>2. CASE UNCHANGED <<c2s, s2c, cli>>
  BY <1>0, <1>2, OutsideExchange
<1> QED BY <1>1, <1>2 DEF ReadClient, RemoveClient, ServerClose, socketVars

-----------------------------------------------------------------------------
(* The invariant is inductive. *)
LEMMA InitIInv == Init => IInv
<1> SUFFICES ASSUME Init PROVE IInv
  OBVIOUS
<1> USE EmptySeq DEF Init, SocketInit, TerminalInit, ClientInit, ServerInit
<1>1. SocketTypeOK
  BY DEF SocketTypeOK, EndState
<1>2. TerminalTypeOK
  <2>1. left \in [Event -> Nat] /\ left["key"] <= Budget["key"]
    <3>1. Budget["key"] \in Nat
      BY BudgetAssumption DEF Event
    <3> QED BY <3>1, BudgetAssumption
  <2>2. ptyRows \in UShort
    BY RowsAssumption, WsRowType
  <2> QED BY <2>1, <2>2 DEF TerminalTypeOK
<1>3. ClientTypeOK
  BY MessageTypes DEF ClientTypeOK
<1>4. ServerTypeOK
  <2>1. ptyRows \in UShort /\ ptyRows \in Nat
    BY RowsAssumption, WsRowType
  <2>2. req \in Message
    BY MessageTypes DEF ServerRequest
  <2>3. nClients \in 0 .. MaxClients /\ idx \in 0 .. MaxClients
    BY MaxClientsAssumption
  <2> QED BY <2>1, <2>2, <2>3 DEF ServerTypeOK, Pc
<1>5. LoopInv
  <2>1. req.cmd \in ServerRequest
    BY MessageTypes DEF ServerRequest
  <2>2. \A s \in 0 .. nClients - 1 : clients[s] \in Conn
    OBVIOUS
  <2> QED BY <2>1, <2>2 DEF LoopInv
<1>6. NoResponse(<<>>)
  BY DEF NoResponse
<1>7. QueueInv /\ Lockstep
  BY <1>6 DEF QueueInv, Lockstep, Waiting, Unasked
<1> QED BY <1>1, <1>2, <1>3, <1>4, <1>5, <1>7 DEF IInv, TypeOK

(* Every step of fep keeps the invariant. *)
LEMMA ServerIInv ==
  ASSUME IInv, ServerStep \/ Resume
  PROVE  IInv'
<1>1. ServerOK /\ ClientTypeOK /\ QueueInv /\ Lockstep
  BY DEF IInv, TypeOK, ServerOK
<1>2. UNCHANGED clientVars
  BY DEF ServerStep, Resume
<1>3. ClientTypeOK' /\ QueueInv'
  BY <1>1, <1>2 DEF ClientTypeOK, QueueInv, clientVars
<1>4. ServerNext \/ Continue
  BY DEF ServerStep, Resume
<1>5. ServerOK'
  BY <1>1, <1>4, PselectTypes, SignalTypes, TtyTypes, SendTypes, WaitTypes,
     FlushTypes, RequestDoneTypes, PtyTypes, AcceptTypes, ReadClientTypes
     DEF ServerNext, Transceive
<1>6. Lockstep'
  <2>1. CASE SendRequest
    BY <1>2, <2>1, SendLockstep
  <2>2. CASE WaitResponse
    BY <1>2, <2>2, WaitLockstep
  <2>3. CASE ReadClient
    BY <1>2, <2>3, ReadClientLockstep
  <2> USE <1>1, <1>2, OutsideExchange
  <2>4. CASE PselectReady \/ PselectSignal
    BY <2>4 DEF PselectReady, PselectSignal, PselectOK, socketVars
  <2>5. CASE HandleSignals \/ Continue
    BY <2>5 DEF HandleSignals, handle_term_signal, handle_winch_signal,
                handle_tstp_signal, SignalsDone, Continue, Done, ServerGone,
                socketVars
  <2>6. CASE ReadTty
    <3>1. pc = "tty" /\ pc' \in {"key", "waitpid", "pty"} /\ UNCHANGED socketVars
      BY <2>6 DEF ReadTty
    <3> QED BY <3>1 DEF socketVars
  <2>7. CASE ReadTtyError \/ WaitPid
    BY <2>7 DEF ReadTtyError, WaitPid, Done, ServerGone
  <2>8. CASE NextKey \/ RequestDone
    <3>1. pc # "wait" /\ pc' # "wait" /\ UNCHANGED socketVars
      BY <2>8 DEF NextKey, RequestDone
    <3> QED BY <3>1 DEF socketVars
  <2>9. CASE SendFails \/ SendKills
    BY <2>9 DEF SendFails, SendKills, ServerGone, socketVars
  <2>10. CASE FlushQueued \/ TransceiveReturn
    BY <2>10 DEF FlushQueued, TransceiveReturn, socketVars
  <2>11. CASE ReadPty \/ ClientsDone
    <3>1. pc # "wait" /\ pc' # "wait" /\ UNCHANGED socketVars
      BY <2>11 DEF ReadPty, ClientsDone
    <3> QED BY <3>1 DEF socketVars
  <2>12. CASE AcceptClient
    <3>1. pc # "wait" /\ pc' # "wait" /\ UNCHANGED <<c2s, s2c, cli>>
      BY <2>12 DEF AcceptClient, ServerAccept, socketVars
    <3> QED BY <3>1
  <2> QED BY <1>4, <2>1, <2>2, <2>3, <2>4, <2>5, <2>6, <2>7, <2>8, <2>9, <2>10,
             <2>11, <2>12 DEF ServerNext, Transceive
<1> QED BY <1>3, <1>5, <1>6 DEF IInv, TypeOK, ServerOK

(* Every step of the system keeps the invariant. *)
LEMMA NextIInv == IInv /\ [Next]_vars => IInv'
<1> SUFFICES ASSUME IInv, [Next]_vars PROVE IInv'
  OBVIOUS
<1>1. ASSUME NEW c \in Conn, ClientStep(c)
      PROVE  IInv'
  <2>1. ClientNext(c) /\ UNCHANGED <<serverVars, terminalVars>>
    BY <1>1 DEF ClientStep
  <2>2. SocketTypeOK' /\ ClientTypeOK' /\ QueueInv' /\ Lockstep'
    BY <1>1, <2>1, ClientTypes, ClientQueue, ClientLockstep
  <2>3. TerminalTypeOK' /\ ServerTypeOK' /\ LoopInv'
    BY <2>1 DEF IInv, TypeOK, TerminalTypeOK, ServerTypeOK, LoopInv,
                serverVars, terminalVars
  <2> QED BY <2>2, <2>3 DEF IInv, TypeOK
<1>2. CASE EnvironmentStep
  <2>1. Environment /\ UNCHANGED <<socketVars, clientVars, serverVars>>
    BY <1>2 DEF EnvironmentStep
  <2>2. TerminalTypeOK'
    BY <2>1, EnvironmentTypes DEF IInv, TypeOK
  <2>3. SocketTypeOK' /\ ClientTypeOK' /\ ServerTypeOK'
    BY <2>1 DEF IInv, TypeOK, SocketTypeOK, ClientTypeOK, ServerTypeOK,
                socketVars, clientVars, serverVars
  <2>4. LoopInv' /\ QueueInv'
    BY <2>1 DEF IInv, LoopInv, QueueInv, clientVars, serverVars
  <2>5. Lockstep'
    BY <2>1 DEF IInv, Lockstep, Waiting, Peer, Unasked, Asked, Filtering,
                Answered, Gone, socketVars, clientVars, serverVars
  <2> QED BY <2>2, <2>3, <2>4, <2>5 DEF IInv, TypeOK
<1>3. CASE UNCHANGED vars
  <2>1. UNCHANGED <<socketVars, terminalVars, clientVars, serverVars>>
    BY <1>3 DEF vars
  <2>2. TerminalTypeOK'
    BY <2>1 DEF IInv, TypeOK, TerminalTypeOK, terminalVars
  <2>3. SocketTypeOK' /\ ClientTypeOK' /\ ServerTypeOK'
    BY <2>1 DEF IInv, TypeOK, SocketTypeOK, ClientTypeOK, ServerTypeOK,
                socketVars, clientVars, serverVars
  <2>4. LoopInv' /\ QueueInv'
    BY <2>1 DEF IInv, LoopInv, QueueInv, clientVars, serverVars
  <2>5. Lockstep'
    BY <2>1 DEF IInv, Lockstep, Waiting, Peer, Unasked, Asked, Filtering,
                Answered, Gone, socketVars, clientVars, serverVars
  <2> QED BY <2>2, <2>3, <2>4, <2>5 DEF IInv, TypeOK
<1> QED BY <1>1, <1>2, <1>3, ServerIInv DEF Next

(* IInv holds in every reachable state. *)
THEOREM Invariance == Spec => []IInv
<1> QED BY InitIInv, NextIInv, PTL DEF Spec

(* Every variable of fep, its clients and their surroundings keeps its     *)
(* type: no index leaves clients[] and nothing but connections is used     *)
(* from it.                                                                *)
THEOREM TypeCorrect == Spec => []TypeOK
<1>1. IInv => TypeOK
  BY DEF IInv
<1> QED BY <1>1, Invariance, PTL

(* fep and its clients stay in lockstep, with any number of clients that   *)
(* come, go and die at any time, and whatever the table of clients has     *)
(* become.                                                                 *)
THEOREM LockstepHolds == Spec => []Lockstep
<1>1. IInv => Lockstep
  BY DEF IInv
<1> QED BY <1>1, Invariance, PTL

(* The answer of a client that is still there is always accepted. *)
THEOREM AnswersAccepted == Spec => ExchangeSucceeds
<1>1. ASSUME IInv, [Next]_vars, pc = "wait", pc' = "flush", cli[Peer] = "open"
      PROVE  retval'
  <2>1. pc' # pc
    BY <1>1
  <2>2. WaitResponse
    BY <1>1, <2>1 DEF Next, ServerStep, Resume, ClientStep, EnvironmentStep,
       vars, serverVars, ServerNext, HandleSignals, Transceive, PselectReady,
       PselectSignal, PselectOK, handle_term_signal, handle_winch_signal,
       handle_tstp_signal, SignalsDone, Continue, ReadTty, ReadTtyError,
       NextKey, SendRequest, SendFails, SendKills, FlushQueued,
       TransceiveReturn, RequestDone, ReadPty, WaitPid, AcceptClient,
       ReadClient, ClientsDone
  <2>3. /\ Peer \in Conn /\ c2s[Peer] \in Seq(Message)
        /\ Asked(Peer) \/ Filtering(Peer) \/ Answered(Peer) \/ Gone(Peer)
    <3>1. Peer \in Conn
      BY <1>1, PeerType DEF IInv, TypeOK, ServerOK, LoopInv
    <3> QED BY <1>1, <3>1 DEF IInv, TypeOK, SocketTypeOK, Lockstep, Waiting
  <2>4. c2s[Peer] # <<>> /\ Head(c2s[Peer]).cmd = "RESPONSE"
          /\ retval' = (Head(c2s[Peer]).of = req.cmd)
    BY <1>1, <2>2 DEF WaitResponse, Accepted, ServerRead
  <2>5. Answered(Peer)
    BY <2>3, <2>4, TailResponse DEF Asked, Filtering, Gone
  <2>6. Head(c2s[Peer]).of = req.cmd
    BY <2>3, <2>4, <2>5, TailResponse DEF Answered
  <2> QED BY <2>4, <2>6
<1>2. IInv /\ [Next]_vars =>
        [pc = "wait" /\ pc' = "flush" /\ cli[Peer] = "open" => retval']_vars
  BY <1>1
<1> QED BY <1>2, Invariance, PTL DEF Spec, ExchangeSucceeds

-----------------------------------------------------------------------------
(* Which steps are about signals and sizes, and what the others leave.     *)
LEMMA SizeUntouched ==
  ASSUME [Next]_vars
  PROVE  \/ UNCHANGED <<winRows, termRows, ptyRows, pending, signals>>
         \/ PselectSignal \/ HandleSignals \/ Continue
         \/ ReadTtyError \/ WaitPid \/ EnvironmentStep
<1>1. CASE UNCHANGED vars
  BY <1>1 DEF vars, serverVars, terminalVars
<1>2. ASSUME NEW c \in Conn, ClientStep(c)
      PROVE  UNCHANGED <<winRows, termRows, ptyRows, pending, signals>>
  BY <1>2 DEF ClientStep, serverVars, terminalVars
<1>3. CASE ServerNext
  BY <1>3 DEF ServerNext, Transceive, PselectReady, ReadTty, NextKey,
       SendRequest, SendFails, SendKills, WaitResponse, FlushQueued,
       TransceiveReturn, RequestDone, ReadPty, AcceptClient, ReadClient,
       ClientsDone, sizeVars, terminalVars
<1> QED BY <1>1, <1>2, <1>3 DEF Next, ServerStep, Resume

(* Only a new size of the terminal can break SizeFollows, and that comes   *)
(* with a SIGWINCH, which stays pending, or flagged, until                 *)
(* handle_winch_signal has read a size at least as new.                    *)
LEMMA SizeStep ==
  ASSUME SizeInv, [Next]_vars
  PROVE  SizeFollows'
<1> USE DEF SizeInv, SizeFollows
<1>1. CASE UNCHANGED <<winRows, termRows, ptyRows, pending, signals>>
  BY <1>1
<1>2. CASE PselectSignal
  BY <1>2 DEF PselectSignal, PselectOK, sizeVars
<1>3. CASE HandleSignals
  BY <1>3 DEF HandleSignals, handle_term_signal, handle_winch_signal,
              handle_tstp_signal, SignalsDone, Done, sizeVars, terminalVars
<1>4. CASE Continue
  BY <1>4 DEF Continue, sizeVars
<1>5. CASE ReadTtyError \/ WaitPid
  BY <1>5 DEF ReadTtyError, WaitPid, Done
<1>6. CASE EnvironmentStep
  BY <1>6 DEF EnvironmentStep, Environment, TypeKey, ResizeTerminal, SendTerm,
              SendTstp, EndInput, ChildOutput, ChildExit, serverVars
<1> QED BY <1>1, <1>2, <1>3, <1>4, <1>5, <1>6, SizeUntouched

(* The flags stay within the branch of main_loop for signals. *)
LEMMA FlagStep ==
  ASSUME SizeInv, IInv, [Next]_vars
  PROVE  SizeInv'
<1>f. /\ signals # {} => \/ pc \in {"signals", "exited", "killed"}
                         \/ pc \in {"send", "wait", "flush"}
                              /\ req.cmd = "RESIZE_EVENT"
      /\ req.cmd \in ServerRequest
  BY DEF SizeInv, IInv, LoopInv
<1> SUFFICES (signals # {} => \/ pc \in {"signals", "exited", "killed"}
                              \/ pc \in {"send", "wait", "flush"}
                                   /\ req.cmd = "RESIZE_EVENT")'
  BY SizeStep DEF SizeInv
<1>1. CASE UNCHANGED <<pc, signals, req>>
  BY <1>f, <1>1
<1>2. CASE PselectReady \/ PselectSignal
  BY <1>f, <1>2 DEF PselectReady, PselectSignal, PselectOK
<1>3. CASE HandleSignals \/ Continue
  BY <1>f, <1>3 DEF HandleSignals, handle_term_signal, handle_winch_signal,
     handle_tstp_signal, SignalsDone, Done, Continue, Request
<1>4. CASE ReadTty
  BY <1>f, <1>4 DEF ReadTty
<1>5. CASE NextKey
  BY <1>f, <1>5 DEF NextKey
<1>6. CASE ReadTtyError \/ WaitPid
  BY <1>f, <1>6 DEF ReadTtyError, WaitPid, Done
<1>7. CASE SendRequest \/ SendFails \/ SendKills
  BY <1>f, <1>7 DEF SendRequest, SendFails, SendKills, loopVars
<1>8. CASE WaitResponse
  BY <1>f, <1>8 DEF WaitResponse
<1>9. CASE FlushQueued \/ TransceiveReturn
  BY <1>f, <1>9 DEF FlushQueued, TransceiveReturn
<1>10. CASE RequestDone
  BY <1>f, <1>10 DEF RequestDone
<1>11. CASE ReadPty
  BY <1>f, <1>11 DEF ReadPty
<1>12. CASE AcceptClient \/ ReadClient \/ ClientsDone
  BY <1>f, <1>12 DEF AcceptClient, ReadClient, ClientsDone
<1>13. UNCHANGED <<pc, signals, req>> \/ ServerNext \/ Continue
  BY DEF Next, ServerStep, Resume, ClientStep, EnvironmentStep, vars, serverVars
<1> QED BY <1>1, <1>2, <1>3, <1>4, <1>5, <1>6, <1>7, <1>8, <1>9, <1>10, <1>11,
           <1>12, <1>13 DEF ServerNext, Transceive

(* A flag that signal_handler has set is reset before main_loop calls      *)
(* pselect again, though the handler of SIGWINCH waits for the clients in  *)
(* between; so no resize is left that neither a flag nor a pending signal  *)
(* stands for.                                                             *)
THEOREM SizeInvariance == Spec => []SizeInv
<1>1. Init => SizeInv
  BY DEF Init, TerminalInit, ServerInit, SizeInv, SizeFollows
<1>2. IInv /\ SizeInv /\ [Next]_vars => SizeInv'
  BY FlagStep
<1> QED BY <1>1, <1>2, Invariance, PTL DEF Spec

(* The size of the pty follows the terminal: once no SIGWINCH is on its    *)
(* way, fep and the child know the size that the terminal has.             *)
THEOREM SizeFollowsHolds == Spec => []SizeFollows
<1>1. SizeInv => SizeFollows
  BY DEF SizeInv
<1> QED BY <1>1, SizeInvariance, PTL

-----------------------------------------------------------------------------
(* What a client does to the sockets. *)
LEMMA ClientSocket ==
  ASSUME NEW c \in Conn, ClientNext(c)
  PROVE  \/ Connect(c) \/ ClientRead(c) \/ ClientClose(c)
         \/ (\E m : ClientWrite(c, m)) \/ UNCHANGED socketVars
BY DEF ClientNext, Answer, fep_client_open, Call, Dispatch, FilterReturn,
       Flush, fep_client_close, Die

(* A client keeps the backlog in order, and what fep can read readable.    *)
LEMMA ClientTable ==
  ASSUME IInv, listening, TableInv, NEW c \in Conn, ClientStep(c)
  PROVE  TableInv'
<1>0. /\ BacklogOK /\ TableOK /\ FdsOK
      /\ SocketTypeOK /\ ServerTypeOK /\ LoopInv
      /\ UNCHANGED serverVars
  BY DEF TableInv, IInv, TypeOK, ClientStep
<1>1. \/ Connect(c) \/ ClientRead(c) \/ ClientClose(c)
      \/ (\E m : ClientWrite(c, m)) \/ UNCHANGED socketVars
  BY ClientSocket DEF ClientStep
<1>2. /\ listening' = listening /\ srv' = srv
      /\ \A d \in Conn : cli[d] # "none" => cli'[d] # "none"
      /\ \A d \in Conn : Readable(d) => Readable(d)'
  <2> USE <1>0 DEF SocketTypeOK, Readable
  <2>1. CASE Connect(c)
    BY <2>1 DEF Connect
  <2>2. CASE ClientRead(c)
    BY <2>2 DEF ClientRead
  <2>3. CASE ClientClose(c)
    BY <2>3 DEF ClientClose
  <2>4. ASSUME NEW m, ClientWrite(c, m)
        PROVE  /\ listening' = listening /\ srv' = srv /\ cli' = cli
               /\ \A d \in Conn : Readable(d) => Readable(d)'
    BY <2>4 DEF ClientWrite
  <2>5. CASE UNCHANGED socketVars
    BY <2>5 DEF socketVars
  <2> QED BY <1>1, <2>1, <2>2, <2>3, <2>4, <2>5
<1>3. BacklogOK'
  <2>1. CASE Connect(c)
    <3>1. /\ backlog \in Seq(Conn) /\ backlog' = Append(backlog, c)
          /\ cli[c] = "none" /\ cli'[c] = "open" /\ srv' = srv
          /\ \A d \in Conn : d # c => cli'[d] = cli[d]
      BY <1>0, <2>1 DEF Connect, SocketTypeOK
    <3>2. /\ Len(backlog') = Len(backlog) + 1 /\ Len(backlog) \in Nat
          /\ DOMAIN backlog = 1 .. Len(backlog)
          /\ DOMAIN backlog' = 1 .. Len(backlog')
          /\ \A i \in 1 .. Len(backlog) : backlog'[i] = backlog[i] /\ backlog[i] \in Conn
          /\ backlog'[Len(backlog')] = c
      BY <3>1, AppendProperties, LenProperties, ElementOfSeq
    <3>3. \A i \in DOMAIN backlog' : i \in DOMAIN backlog \/ i = Len(backlog')
      BY <3>2
    <3>4. \A i \in DOMAIN backlog : backlog'[i] = backlog[i] /\ backlog[i] # c
      BY <1>0, <3>1, <3>2 DEF BacklogOK
    <3>5. srv[c] = "none"
      BY <1>0, <3>1 DEF BacklogOK
    <3>6. \A i \in DOMAIN backlog' : srv'[backlog'[i]] = "none" /\ cli'[backlog'[i]] # "none"
      BY <1>0, <3>1, <3>2, <3>3, <3>4, <3>5 DEF BacklogOK
    <3>7. \A i, j \in DOMAIN backlog' : backlog'[i] = backlog'[j] => i = j
      BY <1>0, <3>2, <3>3, <3>4 DEF BacklogOK
    <3> QED BY <1>0, <3>1, <3>6, <3>7 DEF BacklogOK
  <2>2. CASE ~Connect(c)
    <3>1. backlog' = backlog /\ \A d \in Conn : cli[d] = "none" <=> cli'[d] = "none"
      BY <1>0, <1>1, <2>2 DEF ClientRead, ClientClose, ClientWrite, socketVars,
                              SocketTypeOK
    <3>2. \A i \in DOMAIN backlog : backlog[i] \in Conn
      BY <1>0, LenProperties, ElementOfSeq DEF SocketTypeOK
    <3> QED BY <1>0, <1>2, <3>1, <3>2 DEF BacklogOK
  <2> QED BY <2>1, <2>2
<1>4. TableOK'
  BY <1>0, <1>2 DEF TableOK, Clients, serverVars
<1>5. FdsOK'
  <2>1. UNCHANGED <<pc, req, fds, idx, clients, nClients>>
    BY <1>0 DEF serverVars
  <2>2. \A s \in idx .. nClients - 1 : clients[s] \in Conn
    BY <1>0 DEF LoopInv, ServerTypeOK
  <2>3. \A d \in Conn : Readable(d) => Readable(d)'
    BY <1>2
  <2> HIDE DEF Readable
  <2> QED BY <1>0, <2>1, <2>2, <2>3 DEF FdsOK, Peer
<1> QED BY <1>0, <1>2, <1>3, <1>4, <1>5 DEF TableInv

(* What the steps of fep that neither accept, read nor close a connection  *)
(* leave to show.                                                          *)
LEMMA OnlyFds ==
  ASSUME listening, TableInv, FdsOK', UNCHANGED <<tableVars, socketVars>>
  PROVE  TableInv'
<1>1. BacklogOK' /\ TableOK'
  BY DEF TableInv, BacklogOK, TableOK, Clients, tableVars, socketVars
<1> QED BY <1>1 DEF TableInv, socketVars

(* What is readable stays so, as long as nothing is read. *)
LEMMA ReadableKept ==
  ASSUME UNCHANGED <<c2s, cli>>
  PROVE  \A c : Readable(c)' = Readable(c)
BY DEF Readable

(* pselect, signals, keys and the pty: the descriptors are found anew, or  *)
(* keep what they promise.                                                 *)
LEMMA RoundTable ==
  ASSUME IInv, listening, TableInv,
         \/ PselectReady \/ PselectSignal
         \/ handle_winch_signal \/ handle_tstp_signal \/ SignalsDone \/ Continue
         \/ ReadTty \/ NextKey \/ ReadPty \/ RequestDone \/ ClientsDone
  PROVE  TableInv'
<1>0. FdsOK /\ ServerTypeOK /\ LoopInv
  BY DEF TableInv, IInv, TypeOK
<1>1. UNCHANGED <<tableVars, socketVars>>
  BY DEF PselectReady, PselectSignal, handle_winch_signal, handle_tstp_signal,
         SignalsDone, Continue, ReadTty, NextKey, ReadPty, RequestDone,
         ClientsDone
<1>2. \A c : Readable(c)' = Readable(c)
  BY <1>1, ReadableKept DEF socketVars
<1>3. UNCHANGED <<clients, nClients>>
  BY <1>1 DEF tableVars
<1> HIDE DEF Readable
<1>4. CASE PselectReady
  <2>1. /\ pc' = "tty" /\ fds' = Ready
    BY <1>4 DEF PselectReady
  <2>2. Conn \cap {"tty", "pty", "server"} = {}
    BY FdAssumption
  <2>3. \A c \in fds' \cap Conn : Readable(c)
    BY <2>1, <2>2 DEF Ready
  <2> QED BY <1>1, <1>2, <2>1, <2>3, OnlyFds DEF FdsOK
<1>5. CASE PselectSignal \/ handle_winch_signal \/ handle_tstp_signal
             \/ SignalsDone \/ Continue
  <2>1. fds' = fds /\ pc \in {"pselect", "signals", "stopped"}
    BY <1>5 DEF PselectSignal, PselectOK, handle_winch_signal,
                handle_tstp_signal, SignalsDone, Continue
  <2>2. pc' \in {"pselect", "signals", "stopped"}
          \/ (pc' = "send" /\ req'.cmd = "RESIZE_EVENT")
    BY <1>5 DEF PselectSignal, handle_winch_signal, handle_tstp_signal,
                SignalsDone, Continue, Request
  <2>3. fds' = {}
    BY <1>0, <2>1 DEF FdsOK
  <2> QED BY <1>1, <2>2, <2>3, OnlyFds DEF FdsOK
<1>6. CASE ReadTty \/ NextKey \/ ReadPty
  <2>1. fds' = fds /\ pc \in {"tty", "key", "pty"}
    BY <1>6 DEF ReadTty, NextKey, ReadPty
  <2>2. pc' \in {"key", "pty", "accept", "waitpid"}
          \/ (pc' = "send" /\ req'.cmd = "KEY_EVENT")
    BY <1>6 DEF ReadTty, NextKey, ReadPty, Request
  <2> QED BY <1>0, <1>1, <1>2, <2>1, <2>2, OnlyFds DEF FdsOK
<1>7. CASE RequestDone
  <2>1. fds' = fds /\ pc = "send"
    BY <1>7 DEF RequestDone
  <2>2. \/ pc' = "key" /\ req.cmd = "KEY_EVENT"
        \/ pc' = "signals" /\ req.cmd = "RESIZE_EVENT"
    BY <1>7 DEF RequestDone
  <2> QED BY <1>0, <1>1, <1>2, <2>1, <2>2, OnlyFds DEF FdsOK
<1>8. CASE ClientsDone
  <2>1. fds' = {} /\ pc' = "pselect"
    BY <1>8 DEF ClientsDone
  <2> QED BY <1>1, <2>1, OnlyFds DEF FdsOK
<1> QED BY <1>4, <1>5, <1>6, <1>7, <1>8

(* An exchange takes messages from its peer only, and the descriptor of    *)
(* the peer from fds, if there can be one.                                 *)
LEMMA ExchangeTable ==
  ASSUME IInv, listening, TableInv,
         SendRequest \/ SendFails \/ WaitResponse \/ FlushQueued
           \/ TransceiveReturn
  PROVE  TableInv'
<1>0. /\ BacklogOK /\ TableOK /\ FdsOK
      /\ SocketTypeOK /\ ServerTypeOK /\ LoopInv
  BY DEF TableInv, IInv, TypeOK
<1>1. /\ UNCHANGED <<clients, nClients, req>>
      /\ pc \in {"send", "wait", "flush"} /\ pc' \in {"send", "wait", "flush"}
  BY DEF SendRequest, SendFails, WaitResponse, FlushQueued, TransceiveReturn,
         tableVars
<1>2. UNCHANGED <<cli, srv, backlog, listening>>
  BY DEF SendRequest, ServerWrite, SendFails, WaitResponse, ServerRead,
         FlushQueued, TransceiveReturn, socketVars
<1>3. BacklogOK' /\ TableOK'
  BY <1>0, <1>1, <1>2 DEF BacklogOK, TableOK, Clients
<1>4. CASE SendRequest \/ FlushQueued
  <2>1. /\ UNCHANGED <<fds, idx, c2s>>
        /\ (pc = "send" /\ pc' = "wait") \/ (pc = "flush" /\ pc' = "flush")
    BY <1>4 DEF SendRequest, ServerWrite, FlushQueued, socketVars
  <2>2. Peer' = Peer
    BY <1>1, <2>1 DEF Peer
  <2>3. \A c : Readable(c)' = Readable(c)
    BY <1>2, <2>1, ReadableKept
  <2> HIDE DEF Readable, Peer
  <2>4. FdsOK'
    BY <1>0, <1>1, <2>1, <2>2, <2>3 DEF FdsOK
  <2> QED BY <1>0, <1>2, <1>3, <2>4 DEF TableInv
<1>5. CASE WaitResponse
  <2>1. UNCHANGED <<fds, idx>> /\ pc = "wait" /\ pc' \in {"wait", "flush"}
    BY <1>1, <1>5 DEF WaitResponse, ServerRead
  <2>2. Peer' = Peer /\ Peer \in Conn
    <3>1. idx < nClients
      BY <1>0, <2>1 DEF LoopInv
    <3>2. Peer \in Conn
      BY <3>1, PeerType DEF IInv, TypeOK, ServerOK
    <3> QED BY <1>1, <2>1, <3>2 DEF Peer
  <2>3. \A c \in Conn : c # Peer => Readable(c)' = Readable(c)
    BY <1>0, <1>2, <1>5, <2>2 DEF WaitResponse, ServerRead, Readable, socketVars,
                                  SocketTypeOK
  <2> HIDE DEF Readable, Peer
  <2>4. FdsOK'
    BY <1>0, <1>1, <2>1, <2>2, <2>3 DEF FdsOK
  <2> QED BY <1>0, <1>2, <1>3, <2>4 DEF TableInv
<1>6. CASE SendFails \/ TransceiveReturn
  <2>1. pc' = "send" /\ ClearFd /\ UNCHANGED c2s /\ pc \in {"send", "flush"}
    BY <1>6 DEF SendFails, TransceiveReturn, socketVars
  <2>2. \A c : Readable(c)' = Readable(c)
    BY <1>2, <2>1, ReadableKept
  <2>3. fds' \subseteq fds
    BY <2>1 DEF ClearFd
  <2>4. req.cmd = "KEY_EVENT" => Peer \notin fds'
    BY <2>1 DEF ClearFd
  <2> HIDE DEF Readable, Peer
  <2>5. FdsOK'
    BY <1>0, <1>1, <2>1, <2>2, <2>3, <2>4 DEF FdsOK
  <2> QED BY <1>0, <1>2, <1>3, <2>5 DEF TableInv
<1> QED BY <1>4, <1>5, <1>6

(* A connection enters the table when it leaves the backlog. *)
LEMMA AcceptTable ==
  ASSUME IInv, IInv', listening, TableInv, AcceptClient
  PROVE  TableInv'
<1>0. /\ BacklogOK /\ TableOK /\ FdsOK
      /\ SocketTypeOK /\ ServerTypeOK /\ LoopInv /\ LoopInv'
      /\ pc = "accept" /\ idx' = 0 /\ fds' = fds
  BY DEF TableInv, IInv, TypeOK, AcceptClient
<1>n. nClients \in Nat /\ nClients <= MaxClients /\ MaxClients \in Nat
  BY <1>0, MaxClientsAssumption DEF ServerTypeOK
<1>1. CASE nClients < MaxClients /\ ServerAccept
           /\ clients' = [clients EXCEPT ![nClients] = Head(backlog)]
           /\ nClients' = nClients + 1
           /\ pc' = "clients"
  <2> DEFINE b == Head(backlog)
  <2>1. /\ backlog \in Seq(Conn) /\ backlog # <<>> /\ b \in Conn
        /\ b = backlog[1] /\ backlog' = Tail(backlog)
        /\ srv' = [srv EXCEPT ![b] = "open"]
        /\ UNCHANGED <<c2s, cli, listening>>
    BY <1>0, <1>1, HeadTailProperties DEF ServerAccept, SocketTypeOK
  <2>2. /\ Len(backlog) \in Nat /\ Len(backlog) >= 1
        /\ DOMAIN backlog = 1 .. Len(backlog)
        /\ DOMAIN backlog' = 1 .. Len(backlog) - 1
        /\ \A i \in DOMAIN backlog' : backlog'[i] = backlog[i + 1]
        /\ \A i \in DOMAIN backlog : backlog[i] \in Conn
    <3>1. Tail(backlog) \in Seq(Conn) /\ Len(Tail(backlog)) = Len(backlog) - 1
      BY <2>1, HeadTailProperties
    <3>2. DOMAIN Tail(backlog) = 1 .. Len(Tail(backlog))
      BY <3>1, LenProperties
    <3> QED BY <2>1, <3>1, <3>2, HeadTailProperties, LenProperties, EmptySeq,
               ElementOfSeq
  <2>3. srv[b] = "none" /\ \A i \in DOMAIN backlog' : backlog'[i] # b
    <3>1. 1 \in DOMAIN backlog
      BY <2>2
    <3>2. \A i \in DOMAIN backlog' : i + 1 \in DOMAIN backlog /\ i + 1 # 1
      BY <2>2
    <3> QED BY <1>0, <2>1, <2>2, <3>1, <3>2 DEF BacklogOK
  <2> HIDE DEF b
  <2>4. /\ srv'[b] = "open"
        /\ \A c \in Conn : c # b => srv'[c] = srv[c]
    BY <1>0, <2>1 DEF SocketTypeOK
  <2>5. BacklogOK'
    <3>1. \A i \in DOMAIN backlog' :
            /\ i + 1 \in DOMAIN backlog
            /\ \A j \in DOMAIN backlog' : i + 1 = j + 1 => i = j
      BY <2>2
    <3>2. \A i \in DOMAIN backlog' :
            srv'[backlog'[i]] = "none" /\ cli'[backlog'[i]] # "none"
      BY <1>0, <2>1, <2>2, <2>3, <2>4, <3>1 DEF BacklogOK
    <3>3. \A i, j \in DOMAIN backlog' : backlog'[i] = backlog'[j] => i = j
      BY <1>0, <2>2, <3>1 DEF BacklogOK
    <3>4. \A c \in Conn : cli'[c] = "none" => srv'[c] = "none"
      <4>1. 1 \in DOMAIN backlog
        BY <2>2
      <4>2. cli[b] # "none"
        BY <1>0, <2>1, <4>1 DEF BacklogOK
      <4> QED BY <1>0, <2>1, <2>4, <4>2 DEF BacklogOK
    <3> QED BY <3>2, <3>3, <3>4 DEF BacklogOK
  <2>6. /\ clients'[nClients] = b
        /\ \A s \in 0 .. nClients - 1 : clients'[s] = clients[s] /\ clients[s] # b
        /\ \A s \in 0 .. nClients' - 1 : s \in 0 .. nClients - 1 \/ s = nClients
        /\ \A s \in 0 .. nClients - 1 : s \in 0 .. nClients' - 1
        /\ nClients \in 0 .. nClients' - 1
    <3>1. \A s \in 0 .. nClients - 1 : s # nClients /\ s \in Slot
      BY <1>n DEF Slot
    <3>2. nClients \in Slot
      BY <1>n, <1>1 DEF Slot
    <3>3. \A s \in 0 .. nClients - 1 : clients[s] # b
      BY <1>0, <2>3 DEF TableOK
    <3>4. /\ \A s \in 0 .. nClients' - 1 : s \in 0 .. nClients - 1 \/ s = nClients
          /\ \A s \in 0 .. nClients - 1 : s \in 0 .. nClients' - 1
          /\ nClients \in 0 .. nClients' - 1
      BY <1>n, <1>1
    <3> QED BY <1>0, <1>1, <3>1, <3>2, <3>3, <3>4 DEF ServerTypeOK, b
  <2>7. TableOK'
    <3>1. \A s \in 0 .. nClients' - 1 : srv'[clients'[s]] = "open"
      BY <1>0, <2>4, <2>6 DEF TableOK, LoopInv
    <3>2. \A s, t \in 0 .. nClients' - 1 : clients'[s] = clients'[t] => s = t
      BY <1>0, <2>6 DEF TableOK
    <3>3. \A c \in Conn : srv'[c] = "open" => c \in Clients'
      BY <1>0, <2>4, <2>6 DEF TableOK, Clients
    <3> QED BY <3>1, <3>2, <3>3 DEF TableOK
  <2>8. \A c : Readable(c)' = Readable(c)
    BY <2>1, ReadableKept
  <2> HIDE DEF Readable
  <2>9. FdsOK'
    <3>1. \A s \in idx' .. nClients' - 1 : clients'[s] \in Conn
      BY <1>0 DEF LoopInv
    <3> QED BY <1>0, <1>1, <2>8, <3>1 DEF FdsOK
  <2> QED BY <2>1, <2>5, <2>7, <2>9 DEF TableInv
<1>2. CASE UNCHANGED <<tableVars, socketVars>> /\ pc' \in {"clients", "undefined"}
  <2>1. \A c : Readable(c)' = Readable(c)
    BY <1>2, ReadableKept DEF socketVars
  <2>2. \A s \in idx' .. nClients' - 1 : clients'[s] \in Conn
    BY <1>0 DEF LoopInv
  <2> HIDE DEF Readable
  <2>3. FdsOK'
    BY <1>0, <1>2, <2>1, <2>2 DEF FdsOK
  <2> QED BY <1>2, <2>3, OnlyFds
<1> QED BY <1>1, <1>2 DEF AcceptClient

(* One of the last two entries is removed: what the one after it was, it   *)
(* becomes, and nothing else moves.                                        *)
LEMMA LateRemoval ==
  ASSUME IInv, TableOK, idx < nClients, idx >= nClients - 2, RemoveClient(Peer)
  PROVE  /\ nClients' = nClients - 1
         /\ ServerClose(Peer)
         /\ \A k \in 0 .. nClients - 2 :
              clients'[k] = IF k = idx THEN clients[k + 1] ELSE clients[k]
<1>0. /\ nClients \in Nat /\ nClients <= MaxClients /\ MaxClients \in Nat
      /\ idx \in 0 .. nClients - 1
  BY MaxClientsAssumption DEF IInv, TypeOK, ServerTypeOK
<1>1. PICK s \in 0 .. nClients - 1 :
        /\ clients[s] = Peer
        /\ clients' = [k \in Slot |->
                         IF k = nClients - 1 THEN NoFd
                         ELSE IF k \in s .. s + Moved(s) - 1 THEN clients[k + 1]
                         ELSE clients[k]]
        /\ nClients' = nClients - 1
        /\ ServerClose(Peer)
  BY DEF RemoveClient
<1>2. s = idx
  BY <1>0, <1>1 DEF TableOK, Peer
<1>3. Moved(idx) = nClients - 1 - idx
  <2>1. nClients - (idx + 1) \in {0, 1}
    BY <1>0
  <2>2. (0 + 3) \div 4 = 0 /\ (1 + 3) \div 4 = 1
    OBVIOUS
  <2> QED BY <1>0, <2>1, <2>2 DEF Moved
<1>4. \A k \in 0 .. nClients - 2 :
        /\ k \in Slot /\ k # nClients - 1
        /\ k \in idx .. idx + Moved(idx) - 1 <=> k = idx
  <2>1. \A k \in 0 .. nClients - 2 : k \in Slot /\ k # nClients - 1
    BY <1>0 DEF Slot
  <2>2. \A k \in 0 .. nClients - 2 :
          k \in idx .. idx + (nClients - 1 - idx) - 1 <=> k = idx
    BY <1>0
  <2> QED BY <1>3, <2>1, <2>2
<1> QED BY <1>1, <1>2, <1>4

(* The loop over the clients reads each entry once, and what is removed    *)
(* has been closed.                                                        *)
LEMMA ReadClientTable ==
  ASSUME IInv, IInv', listening, TableInv, ReadClient,
         nClients' < nClients => idx >= nClients - 2
  PROVE  TableInv'
<1>0. /\ BacklogOK /\ TableOK /\ FdsOK
      /\ SocketTypeOK /\ ServerTypeOK /\ LoopInv /\ LoopInv'
      /\ pc = "clients" /\ pc' = "clients" /\ fds' = fds
      /\ idx < nClients /\ idx' = idx + 1
  BY DEF TableInv, IInv, TypeOK, ReadClient
<1>n. /\ nClients \in Nat /\ nClients <= MaxClients /\ MaxClients \in Nat
      /\ idx \in 0 .. nClients - 1
      /\ Peer \in Conn
  BY <1>0, PeerType, MaxClientsAssumption DEF ServerTypeOK, IInv, TypeOK, ServerOK
<1>1. CASE ServerRead(Peer) /\ UNCHANGED tableVars
  <2>1. /\ UNCHANGED <<clients, nClients, srv, cli, backlog, listening>>
        /\ \A c \in Conn : c # Peer => Readable(c)' = Readable(c)
    BY <1>0, <1>1 DEF ServerRead, tableVars, Readable, SocketTypeOK
  <2>2. BacklogOK' /\ TableOK'
    BY <1>0, <2>1 DEF BacklogOK, TableOK, Clients
  <2>3. \A s \in idx' .. nClients - 1 :
          /\ s \in idx .. nClients - 1 /\ s \in 0 .. nClients - 1
          /\ s # idx
    BY <1>0, <1>n
  <2>4. \A s \in idx' .. nClients - 1 : clients[s] \in Conn /\ clients[s] # Peer
    BY <1>0, <1>n, <2>3 DEF TableOK, LoopInv, Peer
  <2> HIDE DEF Readable
  <2>5. FdsOK'
    BY <1>0, <2>1, <2>3, <2>4 DEF FdsOK
  <2> QED BY <1>0, <2>1, <2>2, <2>5 DEF TableInv
<1>2. CASE RemoveClient(Peer)
  <2>1. /\ nClients' = nClients - 1 /\ nClients' < nClients
        /\ ServerClose(Peer)
        /\ \A k \in 0 .. nClients - 2 :
             clients'[k] = IF k = idx THEN clients[k + 1] ELSE clients[k]
    <3>1. nClients' = nClients - 1
      BY <1>2 DEF RemoveClient
    <3>2. idx >= nClients - 2
      BY <1>n, <3>1
    <3> QED BY <1>0, <1>2, <1>n, <3>1, <3>2, LateRemoval
  <2>2. /\ UNCHANGED <<c2s, cli, backlog, listening>>
        /\ srv'[Peer] = "closed" /\ srv[Peer] = "open"
        /\ \A c \in Conn : c # Peer => srv'[c] = srv[c]
    <3>1. srv[Peer] = "open"
      BY <1>0, <1>n DEF TableOK, Peer
    <3> QED BY <1>0, <1>n, <2>1, <3>1 DEF ServerClose, SocketTypeOK
  <2> DEFINE old(k) == IF k = idx THEN k + 1 ELSE k
  <2>3. \A k \in 0 .. nClients' - 1 :
          /\ old(k) \in 0 .. nClients - 1 /\ old(k) # idx
          /\ clients'[k] = clients[old(k)]
    <3>1. \A k \in 0 .. nClients' - 1 :
            k \in 0 .. nClients - 2 /\ old(k) \in 0 .. nClients - 1 /\ old(k) # idx
      BY <1>n, <2>1
    <3> QED BY <2>1, <3>1
  <2>4. \A k, l \in 0 .. nClients' - 1 : old(k) = old(l) => k = l
    <3>1. nClients <= idx + 2
      BY <1>n, <2>1
    <3> QED BY <1>n, <2>1, <3>1
  <2>5. \A s \in 0 .. nClients - 1 :
          s # idx => \E k \in 0 .. nClients' - 1 : old(k) = s
    <3>1. ASSUME NEW s \in 0 .. nClients - 1, s # idx
          PROVE  \E k \in 0 .. nClients' - 1 : old(k) = s
      <4>1. nClients <= idx + 2
        BY <1>n, <2>1
      <4>2. CASE s < idx
        <5>1. s \in 0 .. nClients' - 1 /\ old(s) = s
          BY <1>n, <2>1, <4>2
        <5> QED BY <5>1
      <4>3. CASE s = idx + 1
        <5>1. idx \in 0 .. nClients' - 1 /\ old(idx) = s
          BY <1>n, <2>1, <4>3
        <5> QED BY <5>1
      <4> QED BY <1>n, <3>1, <4>1, <4>2, <4>3
    <3> QED BY <3>1
  <2>6. BacklogOK'
    <3>1. \A i \in DOMAIN backlog : backlog[i] # Peer /\ backlog[i] \in Conn
      BY <1>0, <2>2, LenProperties, ElementOfSeq DEF BacklogOK, SocketTypeOK
    <3> QED BY <1>0, <1>n, <2>2, <3>1 DEF BacklogOK
  <2> HIDE DEF old
  <2>7. TableOK'
    <3>1. \A k \in 0 .. nClients' - 1 : clients'[k] \in Conn /\ clients'[k] # Peer
      BY <1>0, <1>n, <2>3 DEF TableOK, LoopInv, Peer
    <3>2. \A k \in 0 .. nClients' - 1 : srv'[clients'[k]] = "open"
      BY <1>0, <2>2, <2>3, <3>1 DEF TableOK
    <3>3. \A k, l \in 0 .. nClients' - 1 : clients'[k] = clients'[l] => k = l
      BY <1>0, <2>3, <2>4 DEF TableOK
    <3>4. ASSUME NEW c \in Conn, srv'[c] = "open"
          PROVE  c \in Clients'
      <4>1. c # Peer /\ srv[c] = "open"
        BY <2>2, <3>4
      <4>2. PICK s \in 0 .. nClients - 1 : clients[s] = c
        BY <1>0, <4>1 DEF TableOK, Clients
      <4>3. s # idx
        BY <4>1, <4>2 DEF Peer
      <4>4. PICK k \in 0 .. nClients' - 1 : old(k) = s
        BY <2>5, <4>3
      <4> QED BY <2>3, <4>2, <4>4 DEF Clients
    <3> QED BY <3>2, <3>3, <3>4 DEF TableOK
  <2>8. FdsOK'
    <3>1. \A c : Readable(c)' = Readable(c)
      BY <2>2, ReadableKept
    <3>2. \A k \in idx' .. nClients' - 1 : FALSE
      BY <1>0, <1>n, <2>1
    <3> QED BY <1>0, <3>2 DEF FdsOK
  <2> QED BY <2>2, <2>6, <2>7, <2>8, <1>0 DEF TableInv
<1>3. CASE UNCHANGED <<tableVars, socketVars>>
  <2>1. \A c : Readable(c)' = Readable(c)
    BY <1>3, ReadableKept DEF socketVars
  <2>2. \A s \in idx' .. nClients - 1 : s \in idx .. nClients - 1
    BY <1>0, <1>n
  <2> HIDE DEF Readable
  <2>3. FdsOK'
    BY <1>0, <1>3, <2>1, <2>2 DEF FdsOK, tableVars
  <2> QED BY <1>3, <2>3, OnlyFds
<1> QED BY <1>1, <1>2, <1>3 DEF ReadClient

(* Once the process has ended, it takes no step. *)
LEMMA EndedStays ==
  ASSUME pc \in {"exited", "killed"}, [Next]_vars
  PROVE  pc' = pc /\ (~listening => ~listening')
<1>1. ~ServerNext /\ ~Continue
  BY DEF ServerNext, HandleSignals, Transceive, PselectReady, PselectSignal,
     PselectOK, handle_term_signal, handle_winch_signal, handle_tstp_signal,
     SignalsDone, Continue, ReadTty, ReadTtyError, NextKey, SendRequest,
     SendFails, SendKills, WaitResponse, FlushQueued, TransceiveReturn,
     RequestDone, ReadPty, WaitPid, AcceptClient, ReadClient, ClientsDone
<1>2. ASSUME NEW c \in Conn, ClientStep(c)
      PROVE  pc' = pc /\ listening' = listening
  BY <1>2, ClientSocket DEF ClientStep, serverVars, Connect, ClientRead,
     ClientClose, ClientWrite, socketVars
<1>3. CASE EnvironmentStep \/ UNCHANGED vars
  BY <1>3 DEF EnvironmentStep, vars, socketVars, serverVars
<1> QED BY <1>1, <1>2, <1>3 DEF Next, ServerStep, Resume

(* TableInv is inductive as long as removals are late. *)
LEMMA TableStep ==
  ASSUME IInv, IInv', TableInv, [Next]_vars,
         nClients' < nClients => idx >= nClients - 2
  PROVE  TableInv'
<1>1. CASE ~listening
  BY <1>1, EndedStays DEF TableInv
<1>2. ASSUME listening, NEW c \in Conn, ClientStep(c)
      PROVE  TableInv'
  BY <1>2, ClientTable
<1>3. CASE listening /\ (EnvironmentStep \/ UNCHANGED vars)
  <2>1. UNCHANGED <<socketVars, serverVars>>
    BY <1>3 DEF EnvironmentStep, vars
  <2>2. FdsOK'
    BY <1>3, <2>1 DEF TableInv, FdsOK, Peer, Readable, socketVars, serverVars
  <2> QED BY <1>3, <2>1, <2>2, OnlyFds DEF serverVars, tableVars
<1>4. CASE handle_term_signal \/ ReadTtyError \/ WaitPid \/ SendKills
  BY <1>4 DEF handle_term_signal, ReadTtyError, WaitPid, SendKills, Done,
              ServerGone, TableInv
<1> QED BY <1>1, <1>2, <1>3, <1>4, RoundTable, ExchangeTable, AcceptTable,
           ReadClientTable
        DEF Next, ServerStep, Resume, ServerNext, HandleSignals, Transceive

(* As long as removals are late, TableInv holds. *)
THEOREM TableInvariance == Spec /\ LateRemovals => []TableInv
<1>1. Init => TableInv
  <2> SUFFICES ASSUME Init PROVE TableInv
    OBVIOUS
  <2> USE DEF Init, SocketInit, ServerInit
  <2>1. BacklogOK
    BY DEF BacklogOK
  <2>2. TableOK
    <3>1. 0 .. nClients - 1 = {}
      OBVIOUS
    <3> QED BY <3>1 DEF TableOK
  <2>3. FdsOK
    BY DEF FdsOK
  <2> QED BY <2>1, <2>2, <2>3 DEF TableInv
<1>2. /\ IInv /\ IInv' /\ TableInv /\ [Next]_vars
      /\ [nClients' < nClients => idx >= nClients - 2]_vars
      => TableInv'
  <2> SUFFICES ASSUME IInv, IInv', TableInv, [Next]_vars,
                      [nClients' < nClients => idx >= nClients - 2]_vars
               PROVE  TableInv'
    OBVIOUS
  <2>1. nClients \in Nat
    BY DEF IInv, TypeOK, ServerTypeOK
  <2>2. UNCHANGED vars => nClients' = nClients
    BY DEF vars, serverVars
  <2>3. nClients' < nClients => idx >= nClients - 2
    BY <2>1, <2>2
  <2> QED BY <2>3, TableStep
<1> QED BY <1>1, <1>2, Invariance, PTL DEF Spec, LateRemovals

(* clients[] holds each open connection exactly once and nothing else, as  *)
(* long as each client that leaves is one of the last two of the table.    *)
THEOREM TableExactHolds == Spec /\ LateRemovals => []TableExact
<1>1. IInv /\ TableInv => TableExact
  <2> SUFFICES ASSUME IInv, TableInv, listening, NEW c \in Conn
               PROVE  Cardinality({s \in 0 .. nClients - 1 : clients[s] = c})
                        = IF srv[c] = "open" THEN 1 ELSE 0
    BY DEF TableExact
  <2> DEFINE S == {s \in 0 .. nClients - 1 : clients[s] = c}
  <2>1. TableOK
    BY DEF TableInv
  <2>2. CASE srv[c] = "open"
    <3>1. PICK s \in 0 .. nClients - 1 : clients[s] = c
      BY <2>1, <2>2 DEF TableOK, Clients
    <3>2. S = {s}
      BY <2>1, <3>1 DEF TableOK
    <3>3. Cardinality({s}) = 1
      BY FS_Singleton
    <3> QED BY <2>2, <3>2, <3>3
  <2>3. CASE srv[c] # "open"
    <3>1. S = {}
      BY <2>1, <2>3 DEF TableOK
    <3>2. Cardinality({}) = 0
      BY FS_EmptySet
    <3> QED BY <2>3, <3>1, <3>2
  <2> QED BY <2>2, <2>3
<1> QED BY <1>1, Invariance, TableInvariance, PTL

(* main_loop blocks in no read from a client, as long as each client that  *)
(* leaves is one of the last two of the table.                             *)
THEOREM NoBlockingReadHolds == Spec /\ LateRemovals => []NoBlockingRead
<1>1. IInv /\ TableInv => NoBlockingRead
  <2> SUFFICES ASSUME IInv, TableInv, pc = "clients", idx < nClients, Peer \in fds
               PROVE  Readable(Peer)
    BY DEF NoBlockingRead
  <2>1. idx \in idx .. nClients - 1
    BY DEF IInv, TypeOK, ServerTypeOK
  <2> QED BY <2>1 DEF TableInv, FdsOK, Peer
<1> QED BY <1>1, Invariance, TableInvariance, PTL

(* With at most two clients at a time, whatever they do, every removal is  *)
(* late; so the table is exact and no read blocks.                         *)
THEOREM TwoAtATime ==
  Spec /\ [](nClients <= 2) => LateRemovals /\ []TableExact /\ []NoBlockingRead
<1>1. IInv /\ nClients <= 2
        => [nClients' < nClients => idx >= nClients - 2]_vars
  BY DEF IInv, TypeOK, ServerTypeOK
<1>2. Spec /\ [](nClients <= 2) => LateRemovals
  BY <1>1, Invariance, PTL DEF LateRemovals
<1> QED BY <1>2, TableExactHolds, NoBlockingReadHolds, PTL
=============================================================================
