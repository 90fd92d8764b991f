---------------------------- MODULE FepKeyProofs ----------------------------
(***************************************************************************)
(* Proofs about the keys in FepSystem: none is lost, none reaches the      *)
(* child twice, and they reach it in the order they are typed, for any     *)
(* number of keys and of calls.                                            *)
(***************************************************************************)
EXTENDS FepStreamProofs

(* The keys of a sequence to which a message is appended. *)
LEMMA KeysAppend ==
  ASSUME NEW T, NEW s \in Seq(T), NEW m \in T
  PROVE  /\ KeysIn(Append(s, m)) = KeysIn(s) \cup KeyOf(m)
         /\ InOrder(s) /\ Before(KeysIn(s), KeyOf(m)) => InOrder(Append(s, m))
<1> DEFINE t == Append(s, m)
<1>1. /\ Len(s) \in Nat /\ Len(t) = Len(s) + 1
      /\ \A i \in 1 .. Len(s) : t[i] = s[i]
      /\ t[Len(s) + 1] = m
  BY AppendProperties, LenProperties
<1>2. DOMAIN s = 1 .. Len(s) /\ DOMAIN t = 1 .. Len(s) + 1
  BY <1>1, AppendProperties, LenProperties
<1> HIDE DEF t
<1>3. \A i \in DOMAIN t : i \in DOMAIN s \/ i = Len(s) + 1
  BY <1>1, <1>2
<1>4. /\ \A i \in DOMAIN s : i \in DOMAIN t /\ t[i] = s[i] /\ i < Len(s) + 1
      /\ Len(s) + 1 \in DOMAIN t
  BY <1>1, <1>2
<1>5. KeysIn(t) = KeysIn(s) \cup KeyOf(m)
  BY <1>1, <1>3, <1>4 DEF KeysIn
<1>6. ASSUME InOrder(s), Before(KeysIn(s), KeyOf(m))
      PROVE  InOrder(t)
  <2>1. ASSUME NEW i \in DOMAIN t, NEW j \in DOMAIN t, i < j
        PROVE  Before(KeyOf(t[i]), KeyOf(t[j]))
    <3>1. i \in DOMAIN s
      BY <1>1, <1>2, <2>1
    <3>2. CASE j \in DOMAIN s
      BY <1>4, <1>6, <2>1, <3>1, <3>2 DEF InOrder
    <3>3. CASE j = Len(s) + 1
      <4>1. KeyOf(t[i]) \subseteq KeysIn(s) /\ t[j] = m
        BY <1>1, <1>4, <3>1, <3>3 DEF KeysIn
      <4> QED BY <1>6, <4>1 DEF Before
    <3> QED BY <1>3, <3>2, <3>3
  <2> QED BY <2>1 DEF InOrder
<1> QED BY <1>5, <1>6 DEF t

(* And of one of which the first message is taken. *)
LEMMA KeysTail ==
  ASSUME NEW T, NEW s \in Seq(T), s # <<>>
  PROVE  /\ KeysIn(s) = KeyOf(Head(s)) \cup KeysIn(Tail(s))
         /\ InOrder(s) => /\ InOrder(Tail(s))
                          /\ Before(KeyOf(Head(s)), KeysIn(Tail(s)))
<1> DEFINE t == Tail(s)
<1>1. /\ Head(s) = s[1] /\ Len(s) \in Nat /\ Len(s) >= 1
      /\ \A i \in DOMAIN t : t[i] = s[i + 1]
      /\ DOMAIN s = 1 .. Len(s) /\ DOMAIN t = 1 .. Len(s) - 1
  <2>1. Len(s) \in Nat /\ Len(s) # 0
    BY LenProperties, EmptySeq
  <2>2. Len(t) = Len(s) - 1 /\ t \in Seq(T) /\ \A i \in 1 .. Len(t) : t[i] = s[i + 1]
    BY HeadTailProperties
  <2>3. DOMAIN s = 1 .. Len(s) /\ DOMAIN t = 1 .. Len(t)
    BY <2>2, LenProperties
  <2> QED BY <2>1, <2>2, <2>3, HeadTailProperties
<1> HIDE DEF t
<1>2. /\ 1 \in DOMAIN s
      /\ \A i \in DOMAIN t : i + 1 \in DOMAIN s /\ 1 < i + 1
      /\ \A i \in DOMAIN s : i = 1 \/ (i - 1 \in DOMAIN t /\ (i - 1) + 1 = i)
  BY <1>1
<1>3. KeysIn(s) = KeyOf(Head(s)) \cup KeysIn(t)
  <2>1. KeysIn(s) \subseteq KeyOf(Head(s)) \cup KeysIn(t)
    BY <1>1, <1>2 DEF KeysIn
  <2>2. KeyOf(Head(s)) \cup KeysIn(t) \subseteq KeysIn(s)
    BY <1>1, <1>2 DEF KeysIn
  <2> QED BY <2>1, <2>2
<1>4. ASSUME InOrder(s)
      PROVE  InOrder(t) /\ Before(KeyOf(Head(s)), KeysIn(t))
  <2>1. ASSUME NEW i \in DOMAIN t, NEW j \in DOMAIN t, i < j
        PROVE  Before(KeyOf(t[i]), KeyOf(t[j]))
    <3>1. i + 1 \in DOMAIN s /\ j + 1 \in DOMAIN s /\ i + 1 < j + 1
      BY <1>1, <1>2, <2>1
    <3>2. t[i] = s[i + 1] /\ t[j] = s[j + 1]
      BY <1>1
    <3> QED BY <1>4, <3>1, <3>2 DEF InOrder
  <2>2. ASSUME NEW j \in DOMAIN t
        PROVE  Before(KeyOf(Head(s)), KeyOf(t[j]))
    BY <1>1, <1>2, <1>4 DEF InOrder
  <2>3. Before(KeyOf(Head(s)), KeysIn(t))
    BY <2>2 DEF Before, KeysIn
  <2> QED BY <2>1, <2>3 DEF InOrder
<1> QED BY <1>3, <1>4 DEF t

(* And of two sequences one behind the other. *)
LEMMA KeysConcat ==
  ASSUME NEW T, NEW s \in Seq(T), NEW u \in Seq(T)
  PROVE  KeysIn(s \o u) = KeysIn(s) \cup KeysIn(u)
<1> DEFINE t == s \o u
<1>1. /\ Len(s) \in Nat /\ Len(u) \in Nat /\ t \in Seq(T) /\ Len(t) = Len(s) + Len(u)
      /\ \A i \in 1 .. Len(t) : t[i] = IF i <= Len(s) THEN s[i] ELSE u[i - Len(s)]
  BY ConcatProperties, LenProperties
<1>2. DOMAIN s = 1 .. Len(s) /\ DOMAIN u = 1 .. Len(u) /\ DOMAIN t = 1 .. Len(s) + Len(u)
  BY <1>1, LenProperties
<1> HIDE DEF t
<1>3. \A i \in DOMAIN t : \/ i \in DOMAIN s /\ t[i] = s[i]
                          \/ i - Len(s) \in DOMAIN u /\ t[i] = u[i - Len(s)]
  BY <1>1, <1>2
<1>4. \A i \in DOMAIN s : i \in DOMAIN t /\ t[i] = s[i]
  BY <1>1, <1>2
<1>5. \A i \in DOMAIN u : i + Len(s) \in DOMAIN t /\ t[i + Len(s)] = u[i]
  <2>1. ASSUME NEW i \in DOMAIN u
        PROVE  i + Len(s) \in DOMAIN t /\ t[i + Len(s)] = u[i]
    <3>1. i \in Nat /\ 1 <= i /\ i <= Len(u)
      BY <1>1, <1>2
    <3>2. i + Len(s) \in 1 .. Len(t) /\ ~(i + Len(s) <= Len(s)) /\ (i + Len(s)) - Len(s) = i
      BY <1>1, <3>1
    <3> QED BY <1>1, <1>2, <3>2
  <2> QED BY <2>1
<1>6. KeysIn(t) \subseteq KeysIn(s) \cup KeysIn(u)
  BY <1>3 DEF KeysIn
<1>7. KeysIn(s) \cup KeysIn(u) \subseteq KeysIn(t)
  BY <1>4, <1>5 DEF KeysIn
<1> QED BY <1>6, <1>7 DEF t

LEMMA NoKeys == KeysIn(<<>>) = {} /\ InOrder(<<>>)
BY DEF KeysIn, InOrder

(* The numbers of the keys that are to be announced. *)
LEMMA ElementsAppend ==
  ASSUME NEW s \in Seq(Nat), NEW k \in Nat
  PROVE  /\ Elements(Append(s, k)) = Elements(s) \cup {k}
         /\ Rising(s) /\ (\A i \in Elements(s) : i < k) => Rising(Append(s, k))
<1> DEFINE t == Append(s, k)
<1>1. /\ Len(s) \in Nat /\ Len(t) = Len(s) + 1
      /\ \A i \in 1 .. Len(s) : t[i] = s[i]
      /\ t[Len(s) + 1] = k
  BY AppendProperties, LenProperties
<1>2. DOMAIN s = 1 .. Len(s) /\ DOMAIN t = 1 .. Len(s) + 1
  BY <1>1, AppendProperties, LenProperties
<1> HIDE DEF t
<1>3. \A i \in DOMAIN t : i \in DOMAIN s \/ i = Len(s) + 1
  BY <1>1, <1>2
<1>4. /\ \A i \in DOMAIN s : i \in DOMAIN t /\ t[i] = s[i]
      /\ Len(s) + 1 \in DOMAIN t
      /\ \A i, j \in DOMAIN t : i < j => i \in DOMAIN s
  BY <1>1, <1>2
<1>5. Elements(t) = Elements(s) \cup {k}
  BY <1>1, <1>3, <1>4 DEF Elements
<1>6. ASSUME Rising(s), \A i \in Elements(s) : i < k
      PROVE  Rising(t)
  BY <1>1, <1>3, <1>4, <1>6 DEF Rising, Elements
<1> QED BY <1>5, <1>6 DEF t

LEMMA ElementsTail ==
  ASSUME NEW s \in Seq(Nat), s # <<>>
  PROVE  /\ Elements(s) = {Head(s)} \cup Elements(Tail(s))
         /\ Rising(s) => /\ Rising(Tail(s))
                         /\ \A k \in Elements(Tail(s)) : Head(s) < k
<1> DEFINE t == Tail(s)
<1>1. /\ Head(s) = s[1] /\ Len(s) \in Nat /\ Len(s) >= 1
      /\ \A i \in DOMAIN t : t[i] = s[i + 1]
      /\ DOMAIN s = 1 .. Len(s) /\ DOMAIN t = 1 .. Len(s) - 1
  <2>1. Len(s) \in Nat /\ Len(s) # 0
    BY LenProperties, EmptySeq
  <2>2. Len(t) = Len(s) - 1 /\ t \in Seq(Nat) /\ \A i \in 1 .. Len(t) : t[i] = s[i + 1]
    BY HeadTailProperties
  <2>3. DOMAIN s = 1 .. Len(s) /\ DOMAIN t = 1 .. Len(t)
    BY <2>2, LenProperties
  <2> QED BY <2>1, <2>2, <2>3, HeadTailProperties
<1> HIDE DEF t
<1>2. /\ 1 \in DOMAIN s
      /\ \A i \in DOMAIN t : i + 1 \in DOMAIN s /\ 1 < i + 1
      /\ \A i \in DOMAIN s : i = 1 \/ (i - 1 \in DOMAIN t /\ (i - 1) + 1 = i)
      /\ \A i, j \in DOMAIN t : i < j => i + 1 < j + 1
  BY <1>1
<1>3. Elements(s) = {Head(s)} \cup Elements(t)
  BY <1>1, <1>2 DEF Elements
<1>4. ASSUME Rising(s)
      PROVE  Rising(t) /\ \A k \in Elements(t) : Head(s) < k
  <2>1. \A i, j \in DOMAIN t : i < j => t[i] < t[j]
    BY <1>1, <1>2, <1>4 DEF Rising
  <2>2. \A i \in DOMAIN t : Head(s) < t[i]
    BY <1>1, <1>2, <1>4 DEF Rising
  <2> QED BY <2>1, <2>2 DEF Rising, Elements
<1> QED BY <1>3, <1>4 DEF t

-----------------------------------------------------------------------------
(* main_loop goes through its keys one by one. *)
LEMMA KeyLoopStep == IInv /\ KeyLoopInv /\ [Next]_vars => KeyLoopInv'
<1> SUFFICES ASSUME IInv, KeyLoopInv, [Next]_vars PROVE KeyLoopInv'
  OBVIOUS
<1> USE DEF KeyLoopInv, Announcing
<1>1. CASE UNCHANGED serverVars
  BY <1>1 DEF serverVars
<1>2. CASE ServerNext \/ Continue
  <2>1. CASE PselectReady \/ PselectSignal \/ HandleSignals \/ Continue
    BY <2>1 DEF PselectReady, PselectSignal, PselectOK, HandleSignals,
                handle_term_signal, handle_winch_signal, handle_tstp_signal,
                SignalsDone, Continue, Done, loopVars, Request
  <2>2. CASE ReadTty
    <3>1. pc = "tty" /\ keys = <<>> /\ queued = <<>>
      BY <2>2 DEF ReadTty
    <3>2. \/ pc' = "key" /\ UNCHANGED queued
          \/ pc' \in {"waitpid", "pty"} /\ UNCHANGED <<keys, queued>>
      BY <2>2 DEF ReadTty
    <3> QED BY <3>1, <3>2
  <2>3. CASE ReadTtyError \/ WaitPid
    BY <2>3 DEF ReadTtyError, WaitPid, Done, loopVars
  <2>4. CASE NextKey
    <3>1. pc = "key" /\ queued = <<>> /\ UNCHANGED <<keys, queued>>
      BY <2>4 DEF NextKey
    <3>2. \/ /\ keys # <<>> /\ pc' = "send" /\ req' = Request("KEY_EVENT", Head(keys))
          \/ keys = <<>> /\ pc' = "pty"
      BY <2>4 DEF NextKey
    <3>3. \A k : Request("KEY_EVENT", k).cmd = "KEY_EVENT" /\ Request("KEY_EVENT", k).num = k
      BY DEF Request
    <3> QED BY <3>1, <3>2, <3>3
  <2>5. CASE SendRequest \/ SendFails \/ SendKills
    BY <2>5 DEF SendRequest, SendFails, SendKills, loopVars
  <2>6. CASE WaitResponse
    <3>1. pc = "wait" /\ pc' \in {"wait", "flush"} /\ UNCHANGED <<keys, req>>
      BY <2>6 DEF WaitResponse
    <3> QED BY <3>1
  <2>7. CASE FlushQueued \/ TransceiveReturn
    BY <2>7 DEF FlushQueued, TransceiveReturn
  <2>8. CASE RequestDone
    <3>1. pc = "send" /\ UNCHANGED queued
      BY <2>8 DEF RequestDone
    <3>2. \/ pc' = "key"
          \/ req.cmd = "RESIZE_EVENT" /\ pc' = "signals" /\ UNCHANGED keys
      BY <2>8 DEF RequestDone
    <3> QED BY <3>1, <3>2
  <2>9. CASE ReadPty \/ ClientsDone
    <3>1. pc \in {"pty", "clients"} /\ pc' \in {"accept", "waitpid", "pselect"}
            /\ UNCHANGED <<keys, queued>>
      BY <2>9 DEF ReadPty, ClientsDone, loopVars
    <3> QED BY <3>1
  <2>10. CASE AcceptClient \/ ReadClient
    <3>1. pc \in {"accept", "clients"} /\ pc' \in {"clients", "undefined"}
            /\ UNCHANGED <<keys, queued>>
      BY <2>10 DEF AcceptClient, ReadClient
    <3> QED BY <3>1
  <2> QED BY <1>2, <2>1, <2>2, <2>3, <2>4, <2>5, <2>6, <2>7, <2>8, <2>9, <2>10
             DEF ServerNext, Transceive
<1> QED BY <1>1, <1>2
           DEF Next, ServerStep, Resume, ClientStep, EnvironmentStep, vars

-----------------------------------------------------------------------------
(* The parts of KeyPlaceInv. *)
Handed == consumed \cup UNION {KeysIn(issued[c]) : c \in Conn}

TakenHanded == Taken => req.num \in Handed

AllPlaced ==
  1 .. KeysTyped \subseteq
    Elements(ttyin) \cup Elements(keys) \cup Handed \cup KeysIn(effects)

NoneEarly == \A c \in Conn : srv[c] = "none" => KeysIn(issued[c]) = {}

Drained == listening => \A c \in Conn : srv[c] = "closed" => c2s[c] = <<>>

LEMMA PlaceParts ==
  KeyPlaceInv <=> KeyLoopInv /\ TakenHanded /\ AllPlaced /\ NoneEarly /\ Drained
BY DEF KeyPlaceInv, TakenHanded, AllPlaced, NoneEarly, Drained, Handed

(* What filters have handled and what clients have asked for only grows.   *)
LEMMA IssuedSame ==
  ASSUME UNCHANGED <<issued, consumed>>
  PROVE  /\ Handed' = Handed
         /\ \A d \in Conn : KeysIn(issued'[d]) = KeysIn(issued[d])
BY DEF Handed

LEMMA IssuedGrows ==
  ASSUME consumed \subseteq consumed',
         \A d \in Conn : KeysIn(issued[d]) \subseteq KeysIn(issued'[d])
  PROVE  Handed \subseteq Handed'
BY DEF Handed

LEMMA CallHands ==
  ASSUME IInv, NEW c \in Conn, NEW cmd \in ApiCommand, Call(c, cmd)
  PROVE  /\ consumed' = consumed
         /\ \A d \in Conn : KeysIn(issued'[d]) = KeysIn(issued[d])
<1> DEFINE m == Request(cmd, calls[c] + 1)
<1>0. calls \in [Conn -> Nat] /\ issued \in [Conn -> Seq(Message)]
  BY DEF IInv, TypeOK, ClientTypeOK
<1>1. calls[c] + 1 \in Nat /\ cmd \in ClientRequest
  BY <1>0, ApiAssumption
<1>2. m \in Message /\ KeyOf(m) = {}
  BY <1>1, MessageTypes DEF KeyOf, Request
<1>3. issued' = [issued EXCEPT ![c] = Append(issued[c], m)] /\ UNCHANGED consumed
  BY DEF Call
<1> HIDE DEF m
<1>4. KeysIn(Append(issued[c], m)) = KeysIn(issued[c])
  BY ZenonT(40), <1>0, <1>2, KeysAppend
<1> QED BY <1>0, <1>3, <1>4

(* The key of which a filter returns is consumed or sent back. *)
LEMMA FilterHands ==
  ASSUME IInv, NEW c \in Conn, NEW h \in BOOLEAN, FilterReturn(c, h)
  PROVE  /\ consumed \subseteq consumed'
         /\ \A d \in Conn : KeysIn(issued[d]) \subseteq KeysIn(issued'[d])
         /\ \A d \in Conn : d # c => KeysIn(issued'[d]) = KeysIn(issued[d])
         /\ req.cmd = "KEY_EVENT" => req.num \in consumed' \cup KeysIn(issued'[c])
<1> DEFINE x == Echo(req)
           y == IF req.cmd = "KEY_EVENT" /\ ~h THEN <<x>> ELSE <<>>
<1>0. issued \in [Conn -> Seq(Message)]
  BY DEF IInv, TypeOK, ClientTypeOK
<1>1. request[c] = req /\ req \in Message /\ req.cmd \in ServerRequest
  BY FilterRequest DEF FilterReturn, Filtering
<1>2. x \in Message /\ (req.cmd = "KEY_EVENT" => KeyOf(x) = {req.num})
  BY <1>1, MessageTypes DEF Echo, KeyOf
<1>3. /\ issued' = [issued EXCEPT ![c] = issued[c] \o y]
      /\ consumed' = IF req.cmd = "KEY_EVENT" /\ h
                       THEN consumed \cup {req.num} ELSE consumed
  BY <1>1 DEF FilterReturn
<1>4. <<x>> \in Seq(Message) /\ KeysIn(<<x>>) = KeyOf(x)
  BY <1>2 DEF KeysIn
<1>5. y \in Seq(Message)
  BY <1>4, EmptySeq
<1>6. req.cmd = "KEY_EVENT" /\ ~h => req.num \in KeysIn(y)
  BY <1>2, <1>4
<1> HIDE DEF x, y
<1>7. issued[c] \in Seq(Message)
  BY <1>0
<1>8. KeysIn(issued[c] \o y) = KeysIn(issued[c]) \cup KeysIn(y)
  BY <1>5, <1>7, KeysConcat
<1> QED BY <1>0, <1>3, <1>6, <1>8

-----------------------------------------------------------------------------
(* As long as an exchange is under way, its client is in the table, and    *)
(* fep has not closed the connection.                                      *)
LEMMA WaitingOpen ==
  ASSUME IInv, TableInv, NEW c \in Conn, Waiting(c)
  PROVE  listening /\ srv[c] = "open" /\ idx \in 0 .. nClients - 1 /\ clients[idx] = c
<1>1. pc = "wait" /\ clients[idx] = c
  BY DEF Waiting, Peer
<1>2. listening /\ TableOK
  BY <1>1 DEF TableInv
<1>3. idx \in 0 .. nClients - 1
  BY <1>1, MaxClientsAssumption DEF IInv, LoopInv, TypeOK, ServerTypeOK
<1> QED BY <1>1, <1>2, <1>3 DEF TableOK

(* A client that is not in the table yet has not been asked anything. *)
LEMMA NoneEarlyStep ==
  ASSUME IInv, TableInv, NoneEarly, [Next]_vars
  PROVE  NoneEarly'
<1>0. srv \in [Conn -> EndState]
  BY DEF IInv, TypeOK, SocketTypeOK
<1>1. ASSUME NEW c \in Conn, ClientStep(c)
      PROVE  NoneEarly'
  <2>1. ClientNext(c)
    BY <1>1 DEF ClientStep
  <2>2. UNCHANGED srv
    BY <2>1 DEF ClientNext, Answer, fep_client_open, Connect, Call, ClientWrite,
                Dispatch, ClientRead, FilterReturn, Flush, fep_client_close, Die,
                ClientClose, socketVars
  <2>3. CASE UNCHANGED <<issued, consumed>>
    BY <2>2, <2>3, IssuedSame DEF NoneEarly
  <2>4. ASSUME NEW cmd \in ApiCommand, Call(c, cmd)
        PROVE  NoneEarly'
    BY <2>2, <2>4, CallHands DEF NoneEarly
  <2>5. ASSUME NEW h \in BOOLEAN, FilterReturn(c, h)
        PROVE  NoneEarly'
    <3>1. Waiting(c)
      BY <2>5, FilterRequest DEF FilterReturn
    <3>2. srv[c] = "open"
      BY <3>1, WaitingOpen
    <3> QED BY <2>2, <2>5, <3>2, FilterHands DEF NoneEarly
  <2> QED
    BY <2>1, <2>3, <2>4, <2>5
       DEF ClientNext, Answer, fep_client_open, Dispatch, fep_client_close, Die,
           Flush, clientVars
<1>2. CASE UNCHANGED <<issued, consumed>> /\ \A c \in Conn : srv'[c] = "none" => srv[c] = "none"
  BY <1>2, IssuedSame DEF NoneEarly
<1>3. CASE EnvironmentStep \/ UNCHANGED vars
  BY <1>2, <1>3 DEF EnvironmentStep, vars, socketVars, clientVars
<1>4. CASE ServerStep \/ Resume
  <2>1. UNCHANGED <<issued, consumed>> /\ (ServerNext \/ Continue)
    BY <1>4 DEF ServerStep, Resume, clientVars
  <2>2. \A c \in Conn : srv'[c] = "none" => srv[c] = "none"
    <3>1. CASE UNCHANGED srv
      BY <3>1
    <3>2. CASE ServerGone
      BY <3>2 DEF ServerGone
    <3>3. CASE ServerAccept
      BY <1>0, <3>3 DEF ServerAccept
    <3>4. ASSUME NEW c, ServerClose(c) PROVE \A d \in Conn : srv'[d] = "none" => srv[d] = "none"
      BY <1>0, <3>4 DEF ServerClose
    <3> USE <3>1, <3>2, <3>3, <3>4
    <3>5. CASE PselectReady \/ PselectSignal \/ HandleSignals \/ Continue
      BY <3>5 DEF PselectReady, PselectSignal, PselectOK, HandleSignals,
                  handle_term_signal, handle_winch_signal, handle_tstp_signal,
                  SignalsDone, Continue, Done, socketVars
    <3>6. CASE ReadTty \/ ReadTtyError \/ NextKey \/ WaitPid \/ ReadPty \/ ClientsDone
      BY <3>6 DEF ReadTty, ReadTtyError, NextKey, WaitPid, ReadPty, ClientsDone,
                  Done, socketVars
    <3>7. CASE Transceive
      BY <3>7 DEF Transceive, SendRequest, SendFails, SendKills, WaitResponse,
                  FlushQueued, TransceiveReturn, RequestDone, ServerWrite,
                  ServerRead, socketVars
    <3>8. CASE AcceptClient
      BY <3>8 DEF AcceptClient, socketVars
    <3>9. CASE ReadClient
      BY <3>9 DEF ReadClient, ServerRead, RemoveClient, socketVars
    <3> QED BY <2>1, <3>5, <3>6, <3>7, <3>8, <3>9 DEF ServerNext
  <2> QED BY <1>2, <2>1, <2>2
<1> QED BY <1>1, <1>3, <1>4 DEF Next

(* fep closes a connection when it has read all of it. *)
LEMMA DrainedStep ==
  ASSUME IInv, TableInv, Drained, [Next]_vars
  PROVE  Drained'
<1>0. srv \in [Conn -> EndState] /\ c2s \in [Conn -> Seq(Message)]
  BY DEF IInv, TypeOK, SocketTypeOK
<1>1. CASE UNCHANGED <<srv, listening, c2s>> \/ ServerGone
  BY <1>1 DEF Drained, ServerGone
<1>2. ASSUME NEW c \in Conn, NEW m, ClientWrite(c, m)
      PROVE  Drained'
  BY <1>0, <1>2 DEF Drained, ClientWrite
<1>3. ASSUME NEW c \in Conn, ServerRead(c)
      PROVE  Drained'
  BY <1>0, <1>3 DEF Drained, ServerRead
<1>4. CASE ServerAccept
  BY <1>0, <1>4 DEF Drained, ServerAccept
<1>5. ASSUME NEW c \in Conn, ServerClose(c), srv[c] = "closed" \/ c2s[c] = <<>>
      PROVE  Drained'
  BY <1>0, <1>5 DEF Drained, ServerClose
<1>6. ASSUME NEW c \in Conn, ClientNext(c)
      PROVE  Drained'
  <2>1. \/ UNCHANGED <<srv, listening, c2s>>
        \/ \E m : ClientWrite(c, m)
    BY <1>6 DEF ClientNext, Answer, fep_client_open, Connect, Call,
                Dispatch, ClientRead, FilterReturn, Flush, fep_client_close, Die,
                ClientClose, socketVars
  <2> QED BY <1>1, <1>2, <2>1
<1>7. CASE ServerNext \/ Continue
  <2>1. CASE PselectReady \/ PselectSignal \/ HandleSignals \/ Continue
    BY <1>1, <2>1
       DEF PselectReady, PselectSignal, PselectOK, HandleSignals,
           handle_term_signal, handle_winch_signal, handle_tstp_signal,
           SignalsDone, Continue, Done, socketVars
  <2>2. CASE ReadTty \/ ReadTtyError \/ NextKey \/ WaitPid \/ ReadPty \/ ClientsDone
    BY <1>1, <2>2 DEF ReadTty, ReadTtyError, NextKey, WaitPid, ReadPty, ClientsDone,
                      Done, socketVars
  <2>3. CASE SendRequest \/ SendFails \/ SendKills \/ FlushQueued
             \/ TransceiveReturn \/ RequestDone
    BY <1>1, <2>3 DEF SendRequest, SendFails, SendKills, FlushQueued,
                      TransceiveReturn, RequestDone, ServerWrite, socketVars
  <2>4. CASE WaitResponse
    <3>1. Peer \in Conn
      <4>1. pc = "wait"
        BY <2>4 DEF WaitResponse
      <4> QED BY <4>1, PeerType DEF IInv, LoopInv, TypeOK, ServerOK
    <3>2. ServerRead(Peer) \/ UNCHANGED socketVars
      BY <2>4 DEF WaitResponse
    <3> QED BY <1>1, <1>3, <3>1, <3>2 DEF socketVars
  <2>5. CASE AcceptClient
    BY <1>1, <1>4, <2>5 DEF AcceptClient, socketVars
  <2>6. CASE ReadClient
    <3>1. Peer \in Conn
      <4>1. idx < nClients
        BY <2>6 DEF ReadClient
      <4> QED BY <4>1, PeerType DEF IInv, TypeOK, ServerOK
    <3>2. \/ ServerRead(Peer) \/ UNCHANGED socketVars
          \/ ServerClose(Peer) /\ (srv[Peer] = "closed" \/ c2s[Peer] = <<>>)
      BY <2>6 DEF ReadClient, RemoveClient
    <3> QED BY <1>1, <1>3, <1>5, <3>1, <3>2 DEF socketVars
  <2> QED BY <1>7, <2>1, <2>2, <2>3, <2>4, <2>5, <2>6 DEF ServerNext, Transceive
<1> QED BY <1>1, <1>6, <1>7
           DEF Next, ServerStep, Resume, ClientStep, EnvironmentStep, vars, socketVars

-----------------------------------------------------------------------------
(* fep itself does not make an answer to a key: it only reads it, and      *)
(* remembers it until the key is done.                                     *)
LEMMA TakenKept ==
  ASSUME IInv, ServerNext \/ Continue, Taken'
  PROVE  Taken /\ UNCHANGED <<req, keys>>
<1> USE DEF Taken, Announcing
<1>0. /\ c2s \in [Conn -> Seq(Message)]
      /\ idx < nClients => Peer \in Conn
  BY PeerType DEF IInv, TypeOK, SocketTypeOK, ServerOK
<1>1. CASE SendRequest
  <2>1. /\ pc = "send" /\ Peer \in Conn /\ pc' = "wait" /\ Peer' = Peer
        /\ UNCHANGED <<c2s, isHandled, req, keys>>
    BY <1>0, <1>1 DEF SendRequest, ServerWrite, tableVars, Peer
  <2>2. NoResponse(c2s[Peer])
    BY <2>1 DEF IInv, Lockstep, Waiting, Unasked
  <2> QED BY <2>1, <2>2
<1>2. CASE WaitResponse
  <2>1. /\ pc = "wait" /\ Peer \in Conn /\ pc' \in {"wait", "flush"} /\ Peer' = Peer
        /\ UNCHANGED <<isHandled, req, keys>>
    BY <1>0, <1>2 DEF WaitResponse, tableVars, Peer, IInv, LoopInv
  <2>2. CASE UNCHANGED c2s /\ retval' = FALSE
    BY <2>1, <2>2
  <2>3. CASE ServerRead(Peer)
    <3>1. c2s[Peer] # <<>> /\ c2s'[Peer] = Tail(c2s[Peer])
      BY <1>0, <2>1, <2>3 DEF ServerRead
    <3>2. Head(c2s[Peer]).cmd # "RESPONSE" => pc' = "wait"
      BY <1>2, <3>1 DEF WaitResponse
    <3>3. CASE NoResponse(c2s[Peer])
      <4>1. Head(c2s[Peer]).cmd # "RESPONSE" /\ NoResponse(Tail(c2s[Peer]))
        BY <1>0, <2>1, <3>1, <3>3, TailResponse
      <4> QED BY <2>1, <3>1, <3>2, <4>1
    <3> QED BY <2>1, <3>3
  <2> QED BY <1>2, <2>2, <2>3 DEF WaitResponse, socketVars
<1>3. CASE SendFails \/ FlushQueued \/ TransceiveReturn
  BY <1>3 DEF SendFails, FlushQueued, TransceiveReturn
<1>4. CASE handle_winch_signal \/ NextKey
  BY <1>4 DEF handle_winch_signal, NextKey, Request
<1>5. CASE PselectReady \/ PselectSignal \/ handle_term_signal \/ handle_tstp_signal
           \/ SignalsDone \/ Continue
  BY <1>5 DEF PselectReady, PselectSignal, handle_term_signal, handle_tstp_signal,
              SignalsDone, Continue, Done
<1>6. CASE ReadTty \/ ReadTtyError \/ WaitPid \/ ReadPty \/ ClientsDone
  BY <1>6 DEF ReadTty, ReadTtyError, WaitPid, ReadPty, ClientsDone, Done
<1>7. CASE SendKills \/ RequestDone \/ AcceptClient \/ ReadClient
  BY <1>7 DEF SendKills, RequestDone, AcceptClient, ReadClient
<1> QED BY <1>1, <1>2, <1>3, <1>4, <1>5, <1>6, <1>7
           DEF ServerNext, Transceive, HandleSignals

(* Only the return of the filter writes a RESPONSE. *)
LEMMA OnlyFilterAnswers ==
  ASSUME IInv, NEW c \in Conn, ClientNext(c), NEW d \in Conn,
         \A h \in BOOLEAN : ~FilterReturn(c, h), NoResponse(c2s[d])
  PROVE  NoResponse(c2s'[d])
<1>0. /\ c2s \in [Conn -> Seq(Message)] /\ messages \in [Conn -> Seq(Message)]
      /\ calls \in [Conn -> Nat]
  BY DEF IInv, TypeOK, SocketTypeOK, ClientTypeOK
<1>1. CASE UNCHANGED c2s
  BY <1>1
<1>2. ASSUME NEW m \in Message, m.cmd # "RESPONSE", ClientWrite(c, m)
      PROVE  NoResponse(c2s'[d])
  <2>1. c2s'[d] = IF d = c THEN Append(c2s[d], m) ELSE c2s[d]
    BY <1>0, <1>2 DEF ClientWrite
  <2> QED BY <1>0, <1>2, <2>1, AppendResponse
<1>3. ASSUME NEW cmd \in ApiCommand, Call(c, cmd)
      PROVE  NoResponse(c2s'[d])
  <2> DEFINE m == Request(cmd, calls[c] + 1)
  <2>1. calls[c] + 1 \in Nat /\ cmd \in ClientRequest
    BY <1>0, ApiAssumption
  <2>2. m \in Message /\ m.cmd # "RESPONSE"
    BY <2>1, MessageTypes
  <2>3. ClientWrite(c, m) \/ UNCHANGED c2s
    BY <1>3 DEF Call, socketVars
  <2> HIDE DEF m
  <2> QED BY <1>1, <1>2, <2>2, <2>3
<1>4. CASE Flush(c)
  <2>1. messages[c] # <<>> /\ ClientWrite(c, Head(messages[c]))
    BY <1>4 DEF Flush
  <2>2. Head(messages[c]) \in Message /\ Head(messages[c]).cmd # "RESPONSE"
    BY <1>0, <2>1, TailResponse DEF IInv, QueueInv
  <2> QED BY <1>2, <2>1, <2>2
<1> QED
  BY <1>1, <1>3, <1>4
     DEF ClientNext, Answer, fep_client_open, Connect, Dispatch, ClientRead,
         fep_client_close, Die, ClientClose

(* A client answers to a key when its filter has handled it, or when it    *)
(* asks to have it sent back.                                              *)
LEMMA TakenStep ==
  ASSUME IInv, TakenHanded, [Next]_vars
  PROVE  TakenHanded'
<1>1. CASE ServerStep \/ Resume
  <2>1. UNCHANGED clientVars /\ (ServerNext \/ Continue)
    BY <1>1 DEF ServerStep, Resume
  <2>2. Handed' = Handed
    BY <2>1, IssuedSame DEF clientVars
  <2> QED BY <2>1, <2>2, TakenKept DEF TakenHanded
<1>2. ASSUME NEW c \in Conn, ClientStep(c), Taken'
      PROVE  (req.num \in Handed)'
  <2>1. ClientNext(c) /\ UNCHANGED <<pc, req, isHandled, retval, clients, idx>>
    BY <1>2 DEF ClientStep, serverVars
  <2>2. ASSUME NEW h \in BOOLEAN, FilterReturn(c, h)
        PROVE  (req.num \in Handed)'
    <3>1. req.cmd = "KEY_EVENT"
      BY <1>2, <2>1 DEF Taken, Announcing
    <3> QED BY <2>1, <2>2, <3>1, FilterHands DEF Handed
  <2>3. ASSUME \A h \in BOOLEAN : ~FilterReturn(c, h)
        PROVE  (req.num \in Handed)'
    <3>1. Taken
      <4>1. pc = "wait" => Peer \in Conn
        BY PeerType DEF IInv, LoopInv, TypeOK, ServerOK
      <4>2. Peer' = Peer
        BY <2>1 DEF Peer
      <4>3. pc = "wait" /\ NoResponse(c2s[Peer]) => NoResponse(c2s'[Peer])
        BY <2>1, <2>3, <4>1, OnlyFilterAnswers
      <4> QED BY <1>2, <2>1, <4>2, <4>3 DEF Taken, Announcing
    <3>2. CASE UNCHANGED <<issued, consumed>>
      BY <2>1, <3>1, <3>2, IssuedSame DEF TakenHanded
    <3>3. ASSUME NEW cmd \in ApiCommand, Call(c, cmd)
          PROVE  (req.num \in Handed)'
      BY <2>1, <3>1, <3>3, CallHands DEF TakenHanded, Handed
    <3> QED
      BY <2>1, <2>3, <3>2, <3>3
         DEF ClientNext, Answer, fep_client_open, Dispatch, fep_client_close, Die,
             Flush, clientVars
  <2> QED BY <2>2, <2>3
<1>3. CASE EnvironmentStep \/ UNCHANGED vars
  <2>1. UNCHANGED <<socketVars, clientVars, serverVars>>
    BY <1>3 DEF EnvironmentStep, vars
  <2>2. Taken' = Taken /\ req' = req /\ Handed' = Handed
    BY <2>1, IssuedSame
       DEF Taken, Announcing, Peer, NoResponse, socketVars, clientVars, serverVars
  <2> QED BY <2>2 DEF TakenHanded
<1> QED BY <1>1, <1>2, <1>3 DEF Next, TakenHanded

(* What fep does is added to its history. *)
LEMMA EffectsGrow ==
  ASSUME IInv, ServerNext \/ Continue
  PROVE  KeysIn(effects) \subseteq KeysIn(effects')
<1>0. effects \in Seq(Effect)
  BY DEF IInv, TypeOK, ServerTypeOK
<1>1. ASSUME NEW e \in Effect, effects' = Append(effects, e)
      PROVE  KeysIn(effects) \subseteq KeysIn(effects')
  BY <1>0, <1>1, KeysAppend
<1>2. CASE UNCHANGED effects
  BY <1>2
<1>3. ASSUME NEW c \in Conn, NEW m \in Message, Execute(c, m)
      PROVE  KeysIn(effects) \subseteq KeysIn(effects')
  <2> DEFINE e == [from |-> c, cmd |-> m.cmd, of |-> m.of, num |-> m.num]
  <2>1. m.cmd \in ClientRequest => e \in Effect
    BY DEF Message, Effect
  <2>2. effects' = IF m.cmd \in ClientRequest THEN Append(effects, e) ELSE effects
    BY <1>3 DEF Execute
  <2> HIDE DEF e
  <2> QED BY <1>1, <1>2, <2>1, <2>2
<1>4. CASE FlushQueued
  <2>1. Peer \in Conn /\ Head(queued) \in Message
    <3>1. pc = "flush" /\ queued # <<>> /\ queued \in Seq(Message)
      BY <1>4 DEF FlushQueued, IInv, TypeOK, ServerTypeOK
    <3> QED BY <3>1, PeerType, HeadTailProperties DEF IInv, LoopInv, TypeOK, ServerOK
  <2> QED BY <1>3, <1>4, <2>1 DEF FlushQueued
<1>5. CASE ReadClient
  <2>1. Peer \in Conn
    BY <1>5, PeerType DEF ReadClient, IInv, TypeOK, ServerOK
  <2>2. ServerRead(Peer) => Head(c2s[Peer]) \in Message
    BY <2>1, HeadTailProperties DEF ServerRead, IInv, TypeOK, SocketTypeOK
  <2> QED BY <1>2, <1>3, <1>5, <2>1, <2>2 DEF ReadClient
<1>6. CASE RequestDone
  <2> DEFINE e == [from |-> "tty", cmd |-> "SEND_DATA", of |-> "KEY_EVENT",
                   num |-> req.num]
  <2>1. e \in Effect
    BY DEF IInv, TypeOK, ServerTypeOK, Message, Effect, ClientRequest, ToChild,
           ServerRequest
  <2>2. effects' = Append(effects, e) \/ UNCHANGED effects
    BY <1>6 DEF RequestDone
  <2> HIDE DEF e
  <2> QED BY <1>1, <1>2, <2>1, <2>2
<1>7. CASE PselectReady \/ PselectSignal \/ HandleSignals \/ Continue
  BY <1>2, <1>7 DEF PselectReady, PselectSignal, HandleSignals,
                    handle_term_signal, handle_winch_signal, handle_tstp_signal,
                    SignalsDone, Continue, Done
<1>8. CASE ReadTty \/ ReadTtyError \/ NextKey \/ WaitPid \/ ReadPty \/ ClientsDone
  BY <1>2, <1>8 DEF ReadTty, ReadTtyError, NextKey, WaitPid, ReadPty, ClientsDone, Done
<1>9. CASE SendRequest \/ SendFails \/ SendKills \/ WaitResponse
           \/ TransceiveReturn \/ AcceptClient
  BY <1>2, <1>9 DEF SendRequest, SendFails, SendKills, WaitResponse,
                    TransceiveReturn, AcceptClient
<1> QED BY <1>4, <1>5, <1>6, <1>7, <1>8, <1>9 DEF ServerNext, Transceive

-----------------------------------------------------------------------------
(* A key is typed behind those that have been. *)
LEMMA Typed ==
  ASSUME TerminalTypeOK, Environment
  PROVE  /\ KeysTyped \in Nat
         /\ \/ UNCHANGED <<KeysTyped, ttyin>>
            \/ KeysTyped' = KeysTyped + 1 /\ ttyin' = Append(ttyin, KeysTyped + 1)
<1>1. left \in [Event -> Nat] /\ Budget["key"] \in Nat /\ KeysTyped \in Nat
        /\ left["key"] \in Nat /\ "key" \in Event
  BY BudgetAssumption, KeysTypedType DEF TerminalTypeOK, Event
<1>2. CASE TypeKey
  <2>1. left'["key"] = left["key"] - 1 /\ ttyin' = Append(ttyin, KeysTyped + 1)
    BY <1>1, <1>2, EndlessAssumption DEF TypeKey, Spend
  <2>2. KeysTyped' = KeysTyped + 1
    BY <1>1, <2>1 DEF KeysTyped
  <2> QED BY <1>1, <2>1, <2>2
<1>3. ASSUME NEW e \in Event, e # "key", Spend(e), UNCHANGED ttyin
      PROVE  UNCHANGED <<KeysTyped, ttyin>>
  BY <1>1, <1>3 DEF Spend, KeysTyped
<1>4. {"resize", "term", "tstp", "hangup", "output", "exit"} \subseteq Event
  BY DEF Event
<1> QED
  BY <1>1, <1>2, <1>3, <1>4
     DEF Environment, ResizeTerminal, SendTerm, SendTstp, EndInput, ChildOutput,
         ChildExit

(* The keys that main_loop reads, announces and is done with. *)
LEMMA KeysGone ==
  ASSUME IInv, KeyLoopInv, ServerNext \/ Continue
  PROVE  /\ UNCHANGED KeysTyped
         /\ \/ UNCHANGED <<keys, ttyin>>
            \/ keys = <<>> /\ keys' = ttyin /\ ttyin' = <<>> /\ UNCHANGED effects
                 /\ ReadTty
            \/ /\ RequestDone /\ Announcing /\ keys # <<>> /\ req.num = Head(keys)
               /\ keys' = Tail(keys) /\ UNCHANGED ttyin
<1> USE DEF KeysTyped
<1>1. CASE PselectReady \/ PselectSignal \/ HandleSignals \/ Continue
  BY <1>1 DEF PselectReady, PselectSignal, HandleSignals, terminalVars, loopVars,
              handle_term_signal, handle_winch_signal, handle_tstp_signal,
              SignalsDone, Continue, Done
<1>2. CASE ReadTty
  <2>1. keys = <<>>
    BY <1>2 DEF ReadTty, KeyLoopInv, Announcing
  <2> QED BY <1>2, <2>1 DEF ReadTty
<1>3. CASE ReadTtyError \/ NextKey \/ WaitPid \/ ReadPty \/ ClientsDone
  BY <1>3 DEF ReadTtyError, NextKey, WaitPid, ReadPty, ClientsDone, Done,
              terminalVars, loopVars
<1>4. CASE RequestDone
  <2>1. req.cmd = "KEY_EVENT" => Announcing /\ keys # <<>> /\ req.num = Head(keys)
    BY <1>4 DEF RequestDone, KeyLoopInv, Announcing, IInv, LoopInv
  <2> QED BY <1>4, <2>1 DEF RequestDone, terminalVars
<1>5. CASE SendRequest \/ SendFails \/ SendKills \/ WaitResponse \/ FlushQueued
           \/ TransceiveReturn \/ AcceptClient \/ ReadClient
  BY <1>5 DEF SendRequest, SendFails, SendKills, WaitResponse, FlushQueued,
              TransceiveReturn, AcceptClient, ReadClient, terminalVars, loopVars
<1> QED BY <1>1, <1>2, <1>3, <1>4, <1>5 DEF ServerNext, Transceive

(* A key that main_loop is done with has been taken, or it has written it. *)
LEMMA AllPlacedStep ==
  ASSUME IInv, KeyLoopInv, TakenHanded, AllPlaced, [Next]_vars
  PROVE  AllPlaced'
<1>0. /\ ttyin \in Seq(Nat) /\ keys \in Seq(Nat) /\ effects \in Seq(Effect)
      /\ TerminalTypeOK
  BY DEF IInv, TypeOK, TerminalTypeOK, ServerTypeOK
<1>1. ASSUME NEW c \in Conn, ClientStep(c)
      PROVE  AllPlaced'
  <2>1. ClientNext(c) /\ UNCHANGED <<keys, effects, ttyin, KeysTyped>>
    BY <1>1 DEF ClientStep, serverVars, terminalVars, KeysTyped
  <2>2. Handed \subseteq Handed'
    <3>1. CASE UNCHANGED <<issued, consumed>>
      BY <3>1, IssuedSame
    <3>2. ASSUME NEW cmd \in ApiCommand, Call(c, cmd)
          PROVE  Handed \subseteq Handed'
      BY <3>2, CallHands, IssuedGrows
    <3>3. ASSUME NEW h \in BOOLEAN, FilterReturn(c, h)
          PROVE  Handed \subseteq Handed'
      <4>1. consumed \subseteq consumed'
        BY <3>3, FilterHands
      <4>2. ASSUME NEW d \in Conn
            PROVE  KeysIn(issued[d]) \subseteq KeysIn(issued'[d])
        BY <3>3, FilterHands
      <4> QED BY <4>1, <4>2, IssuedGrows
    <3> QED
      BY <2>1, <3>1, <3>2, <3>3
         DEF ClientNext, Answer, fep_client_open, Dispatch, fep_client_close, Die,
             Flush, clientVars
  <2> QED BY <2>1, <2>2 DEF AllPlaced
<1>2. CASE EnvironmentStep
  <2>1. /\ UNCHANGED <<clientVars, keys, effects>> /\ Environment
    BY <1>2 DEF EnvironmentStep, serverVars
  <2>2. Handed' = Handed
    BY <2>1, IssuedSame DEF clientVars
  <2>3. CASE UNCHANGED <<KeysTyped, ttyin>>
    BY <2>1, <2>2, <2>3 DEF AllPlaced
  <2>4. CASE KeysTyped' = KeysTyped + 1 /\ ttyin' = Append(ttyin, KeysTyped + 1)
    <3>1. KeysTyped \in Nat
      BY <1>0, KeysTypedType
    <3>2. Elements(ttyin') = Elements(ttyin) \cup {KeysTyped + 1}
      BY <1>0, <2>4, <3>1, ElementsAppend
    <3>3. 1 .. KeysTyped' = (1 .. KeysTyped) \cup {KeysTyped + 1}
      BY <2>4, <3>1
    <3> QED BY <2>1, <2>2, <3>2, <3>3 DEF AllPlaced
  <2> QED BY <1>0, <2>1, <2>3, <2>4, Typed
<1>3. CASE ServerStep \/ Resume
  <2>1. UNCHANGED clientVars /\ (ServerNext \/ Continue)
    BY <1>3 DEF ServerStep, Resume
  <2>2. Handed' = Handed /\ KeysIn(effects) \subseteq KeysIn(effects')
    BY <2>1, IssuedSame, EffectsGrow DEF clientVars
  <2>3. UNCHANGED KeysTyped
    BY <2>1, KeysGone
  <2>4. CASE UNCHANGED <<keys, ttyin>>
    BY <2>2, <2>3, <2>4 DEF AllPlaced
  <2>5. CASE keys = <<>> /\ keys' = ttyin /\ ttyin' = <<>>
    <3>1. Elements(keys) \cup Elements(ttyin) = Elements(keys') \cup Elements(ttyin')
      BY <2>5 DEF Elements
    <3> QED BY <2>2, <2>3, <3>1 DEF AllPlaced
  <2>6. CASE RequestDone /\ Announcing /\ keys # <<>> /\ req.num = Head(keys)
               /\ keys' = Tail(keys) /\ UNCHANGED ttyin
    <3>1. Elements(keys) = {req.num} \cup Elements(keys')
      BY <1>0, <2>6, ElementsTail
    <3>2. req.num \in Handed \cup KeysIn(effects')
      <4>1. CASE isHandled
        BY <2>6, <4>1 DEF TakenHanded, Taken
      <4>2. CASE ~isHandled
        <5> DEFINE e == [from |-> "tty", cmd |-> "SEND_DATA", of |-> "KEY_EVENT",
                         num |-> req.num]
        <5>1. e \in Effect
          BY DEF IInv, TypeOK, ServerTypeOK, Message, Effect, ClientRequest,
                 ToChild, ServerRequest
        <5>2. effects' = Append(effects, e) /\ KeyOf(e) = {req.num}
          BY <2>6, <4>2 DEF RequestDone, KeyOf, Announcing
        <5> HIDE DEF e
        <5> QED BY <1>0, <5>1, <5>2, KeysAppend
      <4> QED BY <4>1, <4>2
    <3> QED BY <2>2, <2>3, <2>6, <3>1, <3>2 DEF AllPlaced
  <2> QED BY <2>1, <2>4, <2>5, <2>6, KeysGone
<1>4. CASE UNCHANGED vars
  <2>1. UNCHANGED <<clientVars, keys, effects, ttyin, KeysTyped>>
    BY <1>4 DEF vars, serverVars, terminalVars, KeysTyped
  <2>2. Handed' = Handed
    BY <2>1, IssuedSame DEF clientVars
  <2> QED BY <2>1, <2>2 DEF AllPlaced
<1> QED BY <1>1, <1>2, <1>3, <1>4 DEF Next

(* KeyPlaceInv is inductive, together with IInv and TableInv. *)
LEMMA PlaceStep == IInv /\ TableInv /\ KeyPlaceInv /\ [Next]_vars => KeyPlaceInv'
<1> SUFFICES ASSUME IInv, TableInv, KeyPlaceInv, [Next]_vars PROVE KeyPlaceInv'
  OBVIOUS
<1>1. KeyLoopInv /\ TakenHanded /\ AllPlaced /\ NoneEarly /\ Drained
  BY PlaceParts
<1>2. KeyLoopInv'
  BY <1>1, KeyLoopStep
<1>3. TakenHanded'
  BY <1>1, TakenStep
<1>4. AllPlaced'
  BY <1>1, AllPlacedStep
<1>5. NoneEarly'
  BY <1>1, NoneEarlyStep
<1>6. Drained'
  BY <1>1, DrainedStep
<1> QED
  BY <1>2, <1>3, <1>4, <1>5, <1>6
     DEF KeyPlaceInv, TakenHanded, AllPlaced, NoneEarly, Drained, Handed

LEMMA InitPlace == Init => KeyPlaceInv
<1> SUFFICES ASSUME Init PROVE KeyPlaceInv
  OBVIOUS
<1>1. /\ pc = "pselect" /\ keys = <<>> /\ queued = <<>> /\ left = Budget
      /\ issued = [c \in Conn |-> <<>>]
      /\ c2s = [c \in Conn |-> <<>>]
  BY DEF Init, SocketInit, ClientInit, TerminalInit, ServerInit
<1>2. KeyLoopInv /\ TakenHanded
  BY <1>1 DEF KeyLoopInv, Announcing, TakenHanded, Taken
<1>3. NoneEarly /\ Drained
  BY <1>1, NoKeys DEF NoneEarly, Drained
<1>4. KeysTyped = 0
  BY <1>1, BudgetAssumption DEF KeysTyped, Event
<1>5. AllPlaced
  BY <1>4 DEF AllPlaced
<1> QED BY <1>2, <1>3, <1>5, PlaceParts

-----------------------------------------------------------------------------
LEMMA OnlyNothing == \A S : Only(<<>>, S) = <<>>
<1>1. ASSUME NEW S PROVE Only(<<>>, S) = <<>>
  <2>1. <<>> \in Seq(Nat) /\ Len(<<>>) = 0
    BY EmptySeq
  <2>2. PICK h : Picks(h, <<>>, S, 0) /\ Only(<<>>, S) = h[0]
    BY <2>1, OnlyPicks
  <2> QED BY <2>2 DEF Picks
<1> QED BY <1>1

LEMMA OneMoreElement ==
  ASSUME NEW T, NEW v \in Seq(T), NEW x \in T, NEW S
  PROVE  KeysIn(Only(v, S)) \subseteq KeysIn(v)
           => KeysIn(Only(Append(v, x), S)) \subseteq KeysIn(Append(v, x))
<1>1. Only(v, S) \in Seq(T \cap S)
  BY OnlyAppend
<1>2. Only(v, S) \in Seq(T)
  BY <1>1, SeqMonotonic
<1>3. \/ Only(Append(v, x), S) = Append(Only(v, S), x)
      \/ Only(Append(v, x), S) = Only(v, S)
  BY OnlyEither
<1>4. KeysIn(Append(Only(v, S), x)) = KeysIn(Only(v, S)) \cup KeyOf(x)
  BY <1>2, KeysAppend
<1>5. KeysIn(Append(v, x)) = KeysIn(v) \cup KeyOf(x)
  BY KeysAppend
<1> QED BY <1>3, <1>4, <1>5

(* What is in a part of a sequence is in the sequence. *)
LEMMA OnlyElements ==
  ASSUME NEW T, NEW S
  PROVE  \A s \in Seq(T) : KeysIn(Only(s, S)) \subseteq KeysIn(s)
<1> DEFINE I == {n \in Nat : \A s \in Seq(T) :
                               Len(s) = n => KeysIn(Only(s, S)) \subseteq KeysIn(s)}
<1>1. ASSUME NEW s \in Seq(T), s # <<>>
      PROVE  \E v \in Seq(T), x \in T :
               s = Append(v, x) /\ Len(v) \in Nat /\ Len(s) = Len(v) + 1
  <2>1. PICK v \in Seq(T), x \in T : s = Append(v, x)
    BY <1>1, SequenceEmptyOrAppend
  <2> QED BY <2>1, AppendProperties, LenProperties
<1>2. ASSUME NEW v \in Seq(T), NEW x \in T, KeysIn(Only(v, S)) \subseteq KeysIn(v)
      PROVE  KeysIn(Only(Append(v, x), S)) \subseteq KeysIn(Append(v, x))
  BY <1>2, OneMoreElement
<1> HIDE DEF I
<1>3. 0 \in I
  <2>1. ASSUME NEW s \in Seq(T), Len(s) = 0
        PROVE  KeysIn(Only(s, S)) \subseteq KeysIn(s)
    <3>1. s = <<>>
      BY <2>1, EmptySeq
    <3> QED BY <3>1, OnlyNothing, NoKeys
  <2> QED BY <2>1 DEF I
<1>4. ASSUME NEW n \in I
      PROVE  n + 1 \in I
  <2>1. n \in Nat
    BY DEF I
  <2>2. ASSUME NEW s \in Seq(T), Len(s) = n + 1
        PROVE  KeysIn(Only(s, S)) \subseteq KeysIn(s)
    <3>1. s # <<>>
      BY <2>1, <2>2, EmptySeq
    <3>2. PICK v \in Seq(T), x \in T :
            s = Append(v, x) /\ Len(v) \in Nat /\ Len(s) = Len(v) + 1
      BY <1>1, <3>1
    <3>3. Len(v) = n
      BY <2>1, <2>2, <3>2
    <3>4. KeysIn(Only(v, S)) \subseteq KeysIn(v)
      BY <3>3 DEF I
    <3> QED BY <1>2, <3>2, <3>4
  <2> QED BY <2>1, <2>2 DEF I
<1>5. I = Nat
  <2>1. I \in SUBSET Nat
    BY DEF I
  <2> QED BY <1>3, <1>4, <2>1, Induct
<1> QED BY <1>5, LenProperties DEF I

(* The keys that a client has asked to be sent back have been, or are in   *)
(* one of the places of its stream.                                        *)
LEMMA StreamKeys ==
  ASSUME IInv, StreamInv, NEW c \in Conn
  PROVE  /\ KeysIn(issued[c]) \subseteq
              KeysIn(effects) \cup KeysIn(PutAside(c)) \cup KeysIn(InSocket(c))
                \cup KeysIn(messages[c])
         /\ KeysIn(messages[c]) \subseteq KeysIn(issued[c])
<1>1. /\ Executed(c) \in Seq(ClientMessage) /\ PutAside(c) \in Seq(ClientMessage)
      /\ InSocket(c) \in Seq(ClientMessage) /\ messages[c] \in Seq(ClientMessage)
  BY StreamPieces DEF StreamInv
<1>2. PICK e \in Seq(ClientMessage), p \in Seq(ClientMessage),
           i \in Seq(ClientMessage), q \in Seq(ClientMessage) :
        e = Executed(c) /\ p = PutAside(c) /\ i = InSocket(c) /\ q = messages[c]
  BY <1>1
<1>3. issued[c] = e \o p \o i \o q
  BY <1>2 DEF StreamInv, StreamConserved
<1>4. KeysIn(issued[c]) = KeysIn(e) \cup KeysIn(p) \cup KeysIn(i) \cup KeysIn(q)
  <2>1. PICK ep \in Seq(ClientMessage) : ep = e \o p
    BY ConcatProperties
  <2>2. PICK epi \in Seq(ClientMessage) : epi = ep \o i
    BY ConcatProperties
  <2>3. KeysIn(ep) = KeysIn(e) \cup KeysIn(p)
    BY <2>1, KeysConcat
  <2>4. KeysIn(epi) = KeysIn(ep) \cup KeysIn(i)
    BY <2>2, KeysConcat
  <2>5. KeysIn(epi \o q) = KeysIn(epi) \cup KeysIn(q)
    BY KeysConcat
  <2> QED BY <1>3, <2>1, <2>2, <2>3, <2>4, <2>5
<1>5. KeysIn(e) \subseteq KeysIn(effects)
  <2> DEFINE mine == Only(effects, EffectOf(c))
  <2>1. effects \in Seq(Effect)
    BY DEF IInv, TypeOK, ServerTypeOK
  <2>2. KeysIn(mine) \subseteq KeysIn(effects)
    BY <2>1, OnlyElements
  <2>3. e = [j \in DOMAIN mine |-> Cause(mine[j])]
    BY <1>2 DEF Executed
  <2> HIDE DEF mine
  <2>4. DOMAIN e = DOMAIN mine /\ \A j \in DOMAIN mine : e[j] = Cause(mine[j])
    BY <2>3
  <2>5. \A x : KeyOf(Cause(x)) = KeyOf(x)
    BY DEF KeyOf, Cause
  <2>6. KeysIn(e) = KeysIn(mine)
    BY <2>4, <2>5 DEF KeysIn
  <2> QED BY <2>2, <2>6
<1> QED BY <1>2, <1>4, <1>5

(* When everything has come to rest, no key is on its way back; a client   *)
(* that has died may have kept one.                                        *)
LEMMA NoneOnTheWay ==
  ASSUME IInv, TableInv, StreamInv, KeyPlaceInv, Quiet,
         NEW c \in Conn, KeysIn(issued[c]) # {}
  PROVE  /\ PutAside(c) = <<>> /\ InSocket(c) = <<>>
         /\ messages[c] = <<>> \/ cli[c] = "closed"
<1>1. /\ pc = "pselect" /\ Ready = {} /\ (cli[c] = "open" => phase[c] = "idle")
      /\ listening /\ TableOK /\ BacklogOK
  BY DEF Quiet, TableInv
<1>2. srv[c] \in {"open", "closed"} /\ cli[c] \in EndState
  <2>1. NoneEarly
    BY PlaceParts
  <2> QED BY <2>1 DEF NoneEarly, EndState, IInv, TypeOK, SocketTypeOK
<1>3. PutAside(c) = <<>>
  BY <1>1 DEF PutAside
<1>4. c2s[c] = <<>>
  <2>1. CASE srv[c] = "closed"
    <3>1. Drained
      BY PlaceParts
    <3> QED BY <1>1, <2>1, <3>1 DEF Drained
  <2>2. CASE srv[c] = "open"
    BY <1>1, <2>2 DEF TableOK, Ready, Readable
  <2> QED BY <1>2, <2>1, <2>2
<1>5. InSocket(c) = <<>>
  BY <1>4, OnlyNothing DEF InSocket
<1>6. messages[c] = <<>> \/ cli[c] = "closed"
  <2>1. cli[c] # "none"
    BY <1>1, <1>2 DEF BacklogOK
  <2> QED BY <1>1, <1>2, <2>1 DEF StreamInv, QueuesOK, EndState
<1> QED BY <1>3, <1>5, <1>6

LEMMA PlacedSettled ==
  ASSUME IInv, TableInv, StreamInv, KeyPlaceInv, Quiet,
         NEW k \in 1 .. KeysTyped
  PROVE  Settled(k) \/ DiedWith(k)
<1>1. k \in consumed \/ k \in KeysIn(effects) \/ \E c \in Conn : k \in KeysIn(issued[c])
  <2>1. pc = "pselect" /\ Ready = {} /\ KeyLoopInv /\ AllPlaced
    BY PlaceParts DEF Quiet
  <2>2. keys = <<>> /\ ttyin = <<>>
    BY <2>1 DEF KeyLoopInv, Announcing, Ready
  <2>3. Elements(keys) = {} /\ Elements(ttyin) = {}
    BY <2>2 DEF Elements
  <2> QED BY <2>1, <2>3 DEF AllPlaced, Handed
<1>2. CASE k \in consumed
  BY <1>2 DEF Settled
<1>3. CASE k \in KeysIn(effects)
  BY <1>3 DEF Settled, KeyEffect, KeysIn, KeyOf
<1>4. ASSUME NEW c \in Conn, k \in KeysIn(issued[c]), k \notin KeysIn(effects)
      PROVE  DiedWith(k)
  <2>1. /\ PutAside(c) = <<>> /\ InSocket(c) = <<>>
        /\ messages[c] = <<>> \/ cli[c] = "closed"
    BY <1>4, NoneOnTheWay
  <2>2. k \in KeysIn(messages[c]) /\ messages[c] # <<>>
    BY <1>4, <2>1, StreamKeys, NoKeys
  <2> QED BY <2>1, <2>2 DEF DiedWith, KeysIn, KeyOf
<1> QED BY <1>1, <1>2, <1>3, <1>4

(* Every key typed is somewhere at any time, in the middle of an exchange, *)
(* too: in front of main_loop, in its hands, in a socket, with a client,   *)
(* with the child, consumed, or with a client that has died; as long as    *)
(* each client that leaves is one of the last two of the table.            *)
THEOREM KeyPlaceInvariance == Spec /\ LateRemovals => []KeyPlaceInv
BY InitPlace, PlaceStep, Invariance, TableInvariance, PTL DEF Spec

(* No key is lost, as long as each client that leaves is one of the last   *)
(* two of the table: when everything has come to rest, every key typed has *)
(* reached the child, has been consumed, or is with a client that has died *)
(* between its answer and the message in which it would send it back.      *)
THEOREM KeyNotLostHolds == Spec /\ LateRemovals => []KeyNotLost
<1>1. IInv /\ TableInv /\ StreamInv /\ KeyPlaceInv => KeyNotLost
  BY PlacedSettled DEF KeyNotLost
<1> QED BY <1>1, Invariance, TableInvariance, StreamInvariance, KeyPlaceInvariance, PTL

(* With at most two clients at a time every removal is late. *)
THEOREM TwoClientsLoseNoKey == Spec /\ [](nClients <= 2) => []KeyNotLost
BY TwoAtATime, KeyNotLostHolds, PTL

-----------------------------------------------------------------------------
(* The parts of KeyTrailInv. *)
Numbered ==
  /\ Rising(keys) /\ Rising(ttyin) /\ Below(Elements(keys), Elements(ttyin))
  /\ Past \cup Elements(keys) \cup Elements(ttyin) \subseteq 1 .. KeysTyped

NotHandledYet == Announcing /\ idx = 0 => ~isHandled

FailedLast ==
  /\ ~SigPipeIgnored /\ Announcing /\ ~isHandled
  /\ \/ pc = "flush" /\ ~retval
     \/ pc = "send" /\ idx > 0

Emptied == FailedLast => c2s[clients[0]] = <<>> /\ cli[clients[0]] = "closed"

Arrived ==
  /\ InOrder(effects) /\ InOrder(queued)
  /\ Before(KeysIn(effects), KeysIn(queued))
  /\ consumed \cap (KeysIn(effects) \cup KeysIn(queued)) = {}

Held(c) == Returning(c) # {} => nClients = 1 /\ clients[0] = c

Lane(c) ==
  /\ InOrder(c2s[c]) /\ (cli[c] = "open" => InOrder(messages[c]))
  /\ Before(KeysIn(effects) \cup KeysIn(queued), Returning(c))
  /\ Before(KeysIn(c2s[c]), Unsent(c))
  /\ consumed \cap Returning(c) = {}

LEMMA TrailParts ==
  KeyTrailInv <=> /\ KeyLoopInv /\ Numbered /\ Below(Past, Ahead)
                  /\ NotHandledYet /\ Emptied /\ Arrived
                  /\ \A c \in Conn : Held(c) /\ Lane(c)
BY DEF KeyTrailInv, Numbered, NotHandledYet, Emptied, FailedLast, Arrived, Held, Lane

(* The client of the one exchange that there can be is the only client.    *)
LEMMA OnlyPeer ==
  ASSUME IInv, nClients <= 1, pc \in {"wait", "flush"} \/ idx < nClients
  PROVE  idx = 0 /\ nClients = 1 /\ Peer \in Conn /\ clients[0] = Peer
BY PeerType DEF IInv, LoopInv, TypeOK, ServerTypeOK, ServerOK, Peer

(* The RESPONSE that an exchange reads is to the request of the exchange.  *)
LEMMA AnswerIsToRequest ==
  ASSUME IInv, pc = "wait", c2s[Peer] # <<>>, Head(c2s[Peer]).cmd = "RESPONSE"
  PROVE  Head(c2s[Peer]).of = req.cmd
<1>1. Peer \in Conn /\ Waiting(Peer)
  BY PeerType DEF IInv, LoopInv, TypeOK, ServerOK, Waiting
<1>2. c2s[Peer] \in Seq(Message)
  BY <1>1 DEF IInv, TypeOK, SocketTypeOK
<1>3. 1 \in 1 .. Len(c2s[Peer]) /\ Head(c2s[Peer]) = c2s[Peer][1]
  <2>1. Len(c2s[Peer]) \in Nat /\ Len(c2s[Peer]) # 0
    BY <1>2, LenProperties, EmptySeq
  <2> QED BY <1>2, <2>1, HeadTailProperties
<1>4. OneResponse(c2s[Peer], req.cmd)
  <2>1. ~NoResponse(c2s[Peer])
    BY <1>3 DEF NoResponse
  <2> QED BY <1>1, <2>1 DEF IInv, Lockstep, Asked, Filtering, Answered, Gone
<1> QED BY <1>3, <1>4 DEF OneResponse

(* A key is not handled before a client has handled it, and one for which  *)
(* the exchange has failed leaves an empty socket behind.                  *)
LEMMA HandledStep ==
  ASSUME IInv, nClients <= 1, NotHandledYet, [Next]_vars
  PROVE  NotHandledYet'
<1> USE DEF NotHandledYet, Announcing
<1>0. idx \in Nat
  BY DEF IInv, TypeOK, ServerTypeOK
<1>1. CASE UNCHANGED serverVars
  BY <1>1 DEF serverVars
<1>2. CASE ServerNext \/ Continue
  <2>1. CASE PselectReady \/ PselectSignal \/ HandleSignals \/ Continue
    BY <2>1 DEF PselectReady, PselectSignal, PselectOK, HandleSignals,
                handle_term_signal, handle_winch_signal, handle_tstp_signal,
                SignalsDone, Continue, Done, loopVars, Request
  <2>2. CASE ReadTty \/ ReadTtyError \/ NextKey \/ WaitPid
    BY <2>2 DEF ReadTty, ReadTtyError, NextKey, WaitPid, Done, loopVars
  <2>3. CASE SendRequest \/ SendKills \/ WaitResponse \/ FlushQueued
    BY <2>3 DEF SendRequest, SendKills, WaitResponse, FlushQueued, loopVars
  <2>4. CASE SendFails \/ TransceiveReturn
    BY <1>0, <2>4 DEF SendFails, TransceiveReturn
  <2>5. CASE RequestDone \/ ReadPty \/ ClientsDone \/ AcceptClient \/ ReadClient
    BY <2>5 DEF RequestDone, ReadPty, ClientsDone, AcceptClient, ReadClient, loopVars
  <2> QED BY <1>2, <2>1, <2>2, <2>3, <2>4, <2>5 DEF ServerNext, Transceive
<1> QED BY <1>1, <1>2
           DEF Next, ServerStep, Resume, ClientStep, EnvironmentStep, vars

LEMMA EmptiedStep ==
  ASSUME IInv, nClients <= 1, NotHandledYet, Emptied, [Next]_vars
  PROVE  Emptied'
<1> SUFFICES ASSUME FailedLast'
             PROVE  c2s'[clients'[0]] = <<>> /\ cli'[clients'[0]] = "closed"
  BY DEF Emptied
<1> USE DEF FailedLast, Announcing
<1>0. /\ idx \in Nat /\ c2s \in [Conn -> Seq(Message)]
      /\ cli \in [Conn -> EndState]
  BY DEF IInv, TypeOK, ServerTypeOK, SocketTypeOK
<1>1. ASSUME NEW c \in Conn, ClientStep(c)
      PROVE  c2s'[clients'[0]] = <<>> /\ cli'[clients'[0]] = "closed"
  <2>1. ClientNext(c) /\ UNCHANGED serverVars
    BY <1>1 DEF ClientStep
  <2>2. FailedLast /\ clients'[0] = clients[0]
    BY <2>1 DEF serverVars
  <2>3. c2s[clients[0]] = <<>> /\ cli[clients[0]] = "closed"
    BY <2>2 DEF Emptied
  <2>4. cli[c] # "closed"
    BY <2>1 DEF ClientNext, Answer, fep_client_open, Connect, Call, Dispatch,
                FilterReturn, Flush, fep_client_close, Die, ClientClose
  <2>5. /\ \A d \in Conn : d # c => c2s'[d] = c2s[d] /\ cli'[d] = cli[d]
    BY <1>0, <2>1 DEF ClientNext, Answer, fep_client_open, Connect, Call, ClientWrite,
                Dispatch, ClientRead, FilterReturn, Flush, fep_client_close, Die,
                ClientClose, socketVars
  <2>6. clients[0] \in Conn
    <3>1. nClients >= 1
      BY <2>2 DEF IInv, LoopInv, TypeOK, ServerTypeOK
    <3> QED BY <3>1 DEF IInv, LoopInv, TypeOK, ServerTypeOK
  <2> QED BY <2>2, <2>3, <2>4, <2>5, <2>6
<1>2. CASE EnvironmentStep \/ UNCHANGED vars
  BY <1>2 DEF EnvironmentStep, vars, serverVars, socketVars, Emptied
<1>3. CASE ServerNext \/ Continue
  <2>1. CASE PselectReady \/ PselectSignal \/ HandleSignals \/ Continue
    BY <2>1 DEF PselectReady, PselectSignal, PselectOK, HandleSignals,
                handle_term_signal, handle_winch_signal, handle_tstp_signal,
                SignalsDone, Continue, Done, loopVars, Request
  <2>2. CASE ReadTty \/ ReadTtyError \/ NextKey \/ WaitPid
    BY <2>2 DEF ReadTty, ReadTtyError, NextKey, WaitPid, Done, loopVars
  <2>3. CASE SendRequest \/ SendKills \/ SendFails
    BY <2>3 DEF SendRequest, SendKills, SendFails, loopVars
  <2>4. CASE WaitResponse
    <3>1. pc = "wait" /\ UNCHANGED clients
      BY <2>4 DEF WaitResponse, tableVars
    <3>2. clients[0] = Peer
      BY <3>1, OnlyPeer
    <3>3. Peer \in Conn /\ pc' = "flush" /\ retval' = FALSE /\ ~isHandled
            /\ req.cmd = "KEY_EVENT" /\ UNCHANGED <<req, isHandled>>
      BY <2>4, <3>1, OnlyPeer DEF WaitResponse, IInv, TypeOK, ServerTypeOK
    <3>4. CASE c2s[Peer] = <<>> /\ cli[Peer] = "closed" /\ UNCHANGED socketVars
      BY <3>1, <3>2, <3>4 DEF socketVars
    <3>5. CASE ServerRead(Peer) /\ Head(c2s[Peer]).cmd = "RESPONSE"
                 /\ retval' = Accepted(Head(c2s[Peer]))
      <4>1. Head(c2s[Peer]).of = req.cmd
        BY <3>1, <3>3, <3>5, AnswerIsToRequest DEF ServerRead
      <4> QED BY <3>3, <3>5, <4>1 DEF Accepted
    <3> QED BY <2>4, <3>1, <3>3, <3>4, <3>5 DEF WaitResponse
  <2>5. CASE FlushQueued \/ TransceiveReturn
    BY <2>5 DEF FlushQueued, TransceiveReturn, Emptied, tableVars, socketVars
  <2>6. CASE RequestDone \/ ReadPty \/ ClientsDone \/ AcceptClient \/ ReadClient
    BY <2>6 DEF RequestDone, ReadPty, ClientsDone, AcceptClient, ReadClient, loopVars
  <2> QED BY <1>3, <2>1, <2>2, <2>3, <2>4, <2>5, <2>6 DEF ServerNext, Transceive
<1> QED BY <1>1, <1>2, <1>3 DEF Next, ServerStep, Resume

-----------------------------------------------------------------------------
LEMMA ResponseInTail ==
  ASSUME NEW s \in Seq(Message), s # <<>>, Head(s).cmd # "RESPONSE", ~NoResponse(s)
  PROVE  ~NoResponse(Tail(s))
<1>1. PICK i \in 1 .. Len(s) : s[i].cmd = "RESPONSE"
  BY DEF NoResponse
<1>2. /\ Len(s) \in Nat /\ Head(s) = s[1] /\ Len(Tail(s)) = Len(s) - 1
      /\ \A j \in 1 .. Len(Tail(s)) : Tail(s)[j] = s[j + 1]
  BY HeadTailProperties, LenProperties
<1>3. i - 1 \in 1 .. Len(Tail(s)) /\ (i - 1) + 1 = i
  BY <1>1, <1>2
<1> QED BY <1>1, <1>2, <1>3 DEF NoResponse

(* An answer that has come stays until the key is done. *)
LEMMA TakenStays ==
  ASSUME IInv, nClients <= 1, NotHandledYet, ServerNext \/ Continue, Taken
  PROVE  \/ Taken' /\ UNCHANGED keys
         \/ RequestDone /\ isHandled /\ req.cmd = "KEY_EVENT"
<1> USE DEF Taken, Announcing
<1>1. CASE SendRequest \/ SendFails \/ SendKills
  <2>1. pc = "send" /\ idx < nClients
    BY <1>1 DEF SendRequest, SendFails, SendKills
  <2>2. idx = 0
    BY <2>1, OnlyPeer
  <2> QED BY <2>1, <2>2 DEF NotHandledYet
<1>2. CASE WaitResponse
  <2>1. /\ pc = "wait" /\ Peer \in Conn /\ pc' \in {"wait", "flush"} /\ Peer' = Peer
        /\ UNCHANGED <<isHandled, req, keys>> /\ c2s[Peer] \in Seq(Message)
        /\ req.cmd = "KEY_EVENT"
    <3>1. pc = "wait"
      BY <1>2 DEF WaitResponse
    <3>2. Peer \in Conn
      BY <3>1, OnlyPeer
    <3> QED BY <1>2, <3>1, <3>2
            DEF WaitResponse, tableVars, Peer, IInv, TypeOK, SocketTypeOK
  <2>2. CASE c2s[Peer] = <<>>
    <3>1. NoResponse(c2s[Peer])
      BY <2>2, EmptySeq DEF NoResponse
    <3> QED BY <2>1, <3>1
  <2>3. CASE c2s[Peer] # <<>> /\ Head(c2s[Peer]).cmd = "RESPONSE"
    <3>1. Accepted(Head(c2s[Peer]))
      BY <2>1, <2>3, AnswerIsToRequest DEF Accepted
    <3>2. retval' = Accepted(Head(c2s[Peer])) /\ pc' = "flush"
      BY <1>2, <2>3 DEF WaitResponse
    <3> QED BY <2>1, <3>1, <3>2
  <2>4. CASE c2s[Peer] # <<>> /\ Head(c2s[Peer]).cmd # "RESPONSE"
    <3>1. c2s'[Peer] = Tail(c2s[Peer]) /\ pc' = "wait"
      BY <1>2, <2>1, <2>4 DEF WaitResponse, ServerRead, IInv, TypeOK, SocketTypeOK
    <3>2. CASE NoResponse(c2s[Peer])
      BY <2>1, <3>1, <3>2
    <3>3. CASE ~NoResponse(c2s[Peer])
      <4>1. ~NoResponse(Tail(c2s[Peer]))
        BY <2>1, <2>4, <3>3, ResponseInTail
      <4> QED BY <2>1, <3>1, <4>1
    <3> QED BY <3>2, <3>3
  <2> QED BY <2>2, <2>3, <2>4
<1>3. CASE FlushQueued \/ TransceiveReturn
  BY <1>3 DEF FlushQueued, TransceiveReturn, IInv, TypeOK, ServerTypeOK
<1>4. CASE RequestDone
  BY <1>4 DEF RequestDone
<1>5. CASE PselectReady \/ PselectSignal \/ HandleSignals \/ Continue
  BY <1>5 DEF PselectReady, PselectSignal, PselectOK, HandleSignals,
              handle_term_signal, handle_winch_signal, handle_tstp_signal,
              SignalsDone, Continue
<1>6. CASE ReadTty \/ ReadTtyError \/ NextKey \/ WaitPid \/ ReadPty
             \/ AcceptClient \/ ReadClient \/ ClientsDone
  BY <1>6 DEF ReadTty, ReadTtyError, NextKey, WaitPid, ReadPty, AcceptClient,
              ReadClient, ClientsDone
<1> QED BY <1>1, <1>2, <1>3, <1>4, <1>5, <1>6 DEF ServerNext, Transceive

(* So fep never has more keys before it than it had. *)
LEMMA AheadShrinks ==
  ASSUME IInv, KeyLoopInv, nClients <= 1, NotHandledYet, ServerNext \/ Continue
  PROVE  Ahead' \subseteq Ahead
<1>0. keys \in Seq(Nat) /\ ttyin \in Seq(Nat)
  BY DEF IInv, TypeOK, TerminalTypeOK, ServerTypeOK
<1>1. keys # <<>> => Elements(keys) = {Head(keys)} \cup Elements(Tail(keys))
  BY <1>0, ElementsTail
<1>2. Taken => keys # <<>>
  BY DEF Taken, Announcing, IInv, LoopInv
<1>3. CASE RequestDone /\ req.cmd = "KEY_EVENT"
  <2>1. keys' = Tail(keys) /\ UNCHANGED ttyin /\ pc = "send" /\ pc' = "key"
    BY <1>3 DEF RequestDone, terminalVars
  <2>2. keys # <<>> /\ ~Taken'
    BY <1>3, <2>1 DEF IInv, LoopInv, Taken, Announcing
  <2>3. Ahead' = Elements(ttyin) \cup Elements(Tail(keys))
    BY <2>1, <2>2 DEF Ahead
  <2> QED BY <1>1, <2>2, <2>3 DEF Ahead
<1>4. CASE UNCHANGED <<keys, ttyin>> /\ ~(RequestDone /\ req.cmd = "KEY_EVENT")
  <2>1. Taken => Taken'
    BY <1>4, TakenStays
  <2>2. Taken' => Taken
    BY TakenKept
  <2> QED BY <1>4, <2>1, <2>2 DEF Ahead
<1>5. CASE keys = <<>> /\ keys' = ttyin /\ ttyin' = <<>>
  <2>1. ~Taken /\ ~Taken'
    BY <1>2, <1>5, TakenKept
  <2>2. Elements(<<>>) = {}
    BY DEF Elements
  <2> QED BY <1>5, <2>1, <2>2 DEF Ahead
<1> QED BY <1>3, <1>4, <1>5, KeysGone DEF Announcing

-----------------------------------------------------------------------------
(* Sets of keys, one before the other. *)
LEMMA BeforeParts ==
  /\ \A A, B, C : Before(A \cup B, C) <=> Before(A, C) /\ Before(B, C)
  /\ \A A, B, C : Before(C, A \cup B) <=> Before(C, A) /\ Before(C, B)
  /\ \A A : Before(A, {}) /\ Before({}, A)
BY DEF Before

LEMMA SameLanes ==
  ASSUME UNCHANGED <<effects, queued, consumed, c2s, messages, cli>>
  PROVE  /\ Past' = Past
         /\ Arrived => Arrived'
         /\ \A c \in Conn : Returning(c)' = Returning(c)
         /\ \A c \in Conn : Lane(c) => Lane(c)'
<1>1. ASSUME NEW c \in Conn
      PROVE  Unsent(c)' = Unsent(c) /\ Returning(c)' = Returning(c)
  BY DEF Unsent, Returning
<1>2. Past' = Past
  BY <1>1 DEF Past
<1>3. ASSUME NEW c \in Conn, Lane(c)
      PROVE  Lane(c)'
  BY <1>1, <1>3 DEF Lane
<1> QED BY <1>1, <1>2, <1>3 DEF Arrived

LEMMA SameTrail ==
  ASSUME UNCHANGED <<effects, queued, consumed, c2s, messages, cli>>,
         UNCHANGED tableVars,
         Arrived, \A c \in Conn : Held(c) /\ Lane(c)
  PROVE  Past' \subseteq Past /\ Arrived' /\ \A c \in Conn : Held(c)' /\ Lane(c)'
<1>1. Past' = Past /\ Arrived'
  BY SameLanes
<1>2. \A c \in Conn : Lane(c)'
  BY SameLanes
<1>3. \A c \in Conn : Returning(c)' = Returning(c)
  BY SameLanes
<1>4. \A c \in Conn : Held(c)'
  BY <1>3 DEF Held, tableVars
<1> QED BY <1>1, <1>2, <1>4

(* A message that is read from the socket goes where its keys are behind   *)
(* those that have been read before.                                       *)
LEMMA ReadLanes ==
  ASSUME IInv, Arrived, \A c \in Conn : Held(c) /\ Lane(c),
         NEW p \in Conn, ServerRead(p),
         UNCHANGED <<consumed, messages, nClients, clients>>,
         KeysIn(effects') \cup KeysIn(queued')
           = KeysIn(effects) \cup KeysIn(queued) \cup KeyOf(Head(c2s[p]))
  PROVE  /\ Past' \subseteq Past
         /\ \A c \in Conn : Held(c)' /\ Lane(c)'
         /\ Before(KeysIn(effects) \cup KeysIn(queued), KeyOf(Head(c2s[p])))
         /\ consumed' \cap (KeysIn(effects') \cup KeysIn(queued')) = {}
<1> DEFINE h == KeyOf(Head(c2s[p]))
           A == KeysIn(effects) \cup KeysIn(queued)
           B == KeysIn(effects') \cup KeysIn(queued')
<1>0. c2s \in [Conn -> Seq(Message)]
  BY DEF IInv, TypeOK, SocketTypeOK
<1>1. /\ c2s[p] # <<>> /\ c2s'[p] = Tail(c2s[p]) /\ UNCHANGED cli
      /\ \A d \in Conn : d # p => c2s'[d] = c2s[d]
  BY <1>0 DEF ServerRead
<1>2. KeysIn(c2s[p]) = h \cup KeysIn(c2s'[p])
  BY <1>0, <1>1, KeysTail
<1>3. InOrder(c2s'[p]) /\ Before(h, KeysIn(c2s'[p]))
  <2>1. InOrder(c2s[p])
    BY DEF Lane
  <2> QED BY <1>0, <1>1, <2>1, KeysTail
<1>4. \A c \in Conn : Unsent(c)' = Unsent(c)
  BY <1>1 DEF Unsent
<1>5. /\ Returning(p) = h \cup KeysIn(c2s'[p]) \cup Unsent(p)
      /\ Returning(p)' = KeysIn(c2s'[p]) \cup Unsent(p)
      /\ \A d \in Conn : d # p => Returning(d)' = Returning(d)
  BY <1>1, <1>2, <1>4 DEF Returning
<1>6. h # {} => \A d \in Conn : d # p => Returning(d) = {}
  BY <1>5 DEF Held
<1> HIDE DEF h
<1>7. B = A \cup h
  BY DEF h
<1> HIDE DEF A, B
<1>8. Before(A, Returning(p)) /\ Before(KeysIn(c2s[p]), Unsent(p))
        /\ consumed \cap Returning(p) = {} /\ consumed \cap A = {}
  BY DEF Lane, Arrived, A
<1>9. Past' \subseteq Past
  <2>1. \A d \in Conn : Returning(d)' \subseteq Returning(d)
    BY <1>5
  <2>2. Past = consumed \cup A \cup UNION {Returning(d) : d \in Conn}
    BY DEF Past, A
  <2>3. Past' = consumed \cup B \cup UNION {Returning(d)' : d \in Conn}
    BY DEF Past, B
  <2>4. h \subseteq UNION {Returning(d) : d \in Conn}
    BY <1>5
  <2> QED BY <1>7, <2>1, <2>2, <2>3, <2>4
<1>10. \A c \in Conn : Held(c)'
  BY <1>5 DEF Held
<1>11. Lane(p)'
  <2>1. Before(B, Returning(p)')
    <3>1. Before(h, Unsent(p))
      BY <1>2, <1>8, BeforeParts
    <3>2. Before(h, KeysIn(c2s'[p]) \cup Unsent(p))
      BY <1>3, <3>1, BeforeParts
    <3>3. Before(A, h \cup KeysIn(c2s'[p]) \cup Unsent(p))
      BY <1>5, <1>8
    <3>4. Before(A, KeysIn(c2s'[p]) \cup Unsent(p))
      BY <3>3 DEF Before
    <3>5. Before(A \cup h, KeysIn(c2s'[p]) \cup Unsent(p))
      BY <3>2, <3>4, BeforeParts
    <3> QED BY <1>5, <1>7, <3>5
  <2>2. Before(KeysIn(c2s'[p]), Unsent(p)) /\ consumed \cap Returning(p)' = {}
    BY <1>2, <1>5, <1>8, BeforeParts
  <2>3. cli'[p] = "open" => InOrder(messages'[p])
    BY <1>1 DEF Lane
  <2> QED BY <1>3, <1>4, <2>1, <2>2, <2>3 DEF Lane, B
<1>12. ASSUME NEW d \in Conn, d # p
       PROVE  Lane(d)'
  <2>1. Before(B, Returning(d)')
    <3>1. Before(A, Returning(d))
      BY DEF Lane, A
    <3>2. CASE h = {}
      BY <1>5, <1>7, <1>12, <3>1, <3>2
    <3>3. CASE Returning(d) = {}
      BY <1>5, <1>12, <3>3, BeforeParts
    <3> QED BY <1>6, <1>12, <3>2, <3>3
  <2> QED BY <1>1, <1>4, <1>5, <1>12, <2>1 DEF Lane, B
<1>13. Before(A, h) /\ consumed \cap B = {}
  BY <1>5, <1>7, <1>8, BeforeParts
<1> QED BY <1>9, <1>10, <1>11, <1>12, <1>13 DEF A, B, h

(* What is put aside is behind what has been. *)
LEMMA WaitTrail ==
  ASSUME IInv, nClients <= 1, Arrived, \A c \in Conn : Held(c) /\ Lane(c),
         WaitResponse, UNCHANGED clientVars
  PROVE  Past' \subseteq Past /\ Arrived' /\ \A c \in Conn : Held(c)' /\ Lane(c)'
<1>1. pc = "wait" /\ UNCHANGED <<effects, consumed, messages, nClients, clients>>
  BY DEF WaitResponse, tableVars, clientVars
<1>2. Peer \in Conn
  BY <1>1, OnlyPeer
<1> DEFINE m == Head(c2s[Peer])
<1>3. CASE UNCHANGED <<queued, socketVars>>
  <2>1. UNCHANGED <<effects, queued, consumed, c2s, messages, cli>>
    BY <1>1, <1>3 DEF socketVars
  <2>2. UNCHANGED tableVars
    BY <1>1 DEF tableVars
  <2> QED BY <2>1, <2>2, SameTrail
<1>4. CASE ServerRead(Peer) /\ m.cmd = "RESPONSE" /\ UNCHANGED queued
  <2>1. KeyOf(m) = {}
    BY <1>4 DEF KeyOf
  <2>2. KeysIn(effects') \cup KeysIn(queued')
          = KeysIn(effects) \cup KeysIn(queued) \cup KeyOf(m)
    BY <1>1, <1>4, <2>1
  <2>3. Arrived'
    BY <1>1, <1>4 DEF Arrived
  <2> QED BY <1>1, <1>2, <1>4, <2>2, <2>3, ReadLanes
<1>5. CASE ServerRead(Peer) /\ queued' = Append(queued, m)
  <2>1. m \in Message /\ queued \in Seq(Message)
    BY <1>2, <1>5, HeadTailProperties
       DEF ServerRead, IInv, TypeOK, SocketTypeOK, ServerTypeOK
  <2>2. KeysIn(queued') = KeysIn(queued) \cup KeyOf(m)
    BY <1>5, <2>1, KeysAppend
  <2>3. KeysIn(effects') \cup KeysIn(queued')
          = KeysIn(effects) \cup KeysIn(queued) \cup KeyOf(m)
    BY <1>1, <2>2
  <2> HIDE DEF m
  <2>4. /\ Past' \subseteq Past
        /\ \A c \in Conn : Held(c)' /\ Lane(c)'
        /\ Before(KeysIn(effects) \cup KeysIn(queued), KeyOf(m))
        /\ consumed' \cap (KeysIn(effects') \cup KeysIn(queued')) = {}
    BY <1>1, <1>2, <1>5, <2>3, ReadLanes DEF m
  <2>5. Before(KeysIn(effects), KeyOf(m)) /\ Before(KeysIn(queued), KeyOf(m))
    BY <2>4, BeforeParts
  <2>6. InOrder(queued')
    BY <1>5, <2>1, <2>5, KeysAppend DEF Arrived
  <2>7. Before(KeysIn(effects'), KeysIn(queued'))
    BY <1>1, <2>2, <2>5, BeforeParts DEF Arrived
  <2> QED BY <1>1, <2>4, <2>6, <2>7 DEF Arrived
<1> QED BY <1>1, <1>3, <1>4, <1>5 DEF WaitResponse

(* The keys of an effect are those of its message. *)
LEMMA ExecuteKeys ==
  ASSUME IInv, NEW c \in Conn, NEW m \in FromClient, Execute(c, m)
  PROVE  /\ KeysIn(effects') = KeysIn(effects) \cup KeyOf(m)
         /\ InOrder(effects) /\ Before(KeysIn(effects), KeyOf(m)) => InOrder(effects')
<1> DEFINE e == [from |-> c, cmd |-> m.cmd, of |-> m.of, num |-> m.num]
<1>1. effects \in Seq(Effect)
  BY DEF IInv, TypeOK, ServerTypeOK
<1>2. CASE m.cmd \in ClientRequest
  <2>1. m \in Message /\ m.cmd # "RESPONSE"
    BY <1>2, FromClientCmd
  <2>2. e \in Effect /\ KeyOf(e) = KeyOf(m)
    BY <1>2, <2>1 DEF Effect, Message, KeyOf
  <2>3. effects' = Append(effects, e)
    BY <1>2 DEF Execute
  <2> HIDE DEF e
  <2> QED BY <1>1, <2>2, <2>3, KeysAppend
<1>3. CASE m.cmd \notin ClientRequest
  <2>1. KeyOf(m) = {}
    BY <1>3, FromClientCmd DEF KeyOf
  <2>2. effects' = effects
    BY <1>3 DEF Execute
  <2> QED BY <2>1, <2>2
<1> QED BY <1>2, <1>3

(* What was put aside is executed before what is in the socket. *)
LEMMA FlushTrail ==
  ASSUME IInv, QueuesOK, Arrived, \A c \in Conn : Held(c) /\ Lane(c), FlushQueued,
         UNCHANGED clientVars
  PROVE  Past' \subseteq Past /\ Arrived' /\ \A c \in Conn : Held(c)' /\ Lane(c)'
<1> DEFINE m == Head(queued)
           h == KeyOf(m)
<1>1. /\ pc = "flush" /\ queued # <<>> /\ Execute(Peer, m) /\ queued' = Tail(queued)
      /\ UNCHANGED <<consumed, messages, c2s, cli, nClients, clients>>
  BY DEF FlushQueued, tableVars, socketVars, clientVars
<1>2. Peer \in Conn
  BY <1>1, PeerType DEF IInv, LoopInv, TypeOK, ServerOK
<1>3. queued \in Seq(FromClient)
  <2>1. queued \in Seq(ClientMessage)
    BY DEF QueuesOK
  <2> QED BY <2>1, ClientMessageFrom, SeqMonotonic
<1>4. m \in FromClient
  BY <1>1, <1>3, HeadTailProperties
<1>5. KeysIn(queued) = h \cup KeysIn(queued')
  BY <1>1, <1>3, KeysTail
<1>6. InOrder(queued') /\ Before(h, KeysIn(queued'))
  BY <1>1, <1>3, KeysTail DEF Arrived
<1>7. Before(KeysIn(effects), h) /\ Before(KeysIn(effects), KeysIn(queued'))
  BY <1>5, BeforeParts DEF Arrived
<1>8. KeysIn(effects') = KeysIn(effects) \cup h /\ InOrder(effects')
  BY <1>1, <1>2, <1>4, <1>7, ExecuteKeys DEF Arrived
<1> HIDE DEF m, h
<1>9. KeysIn(effects') \cup KeysIn(queued') = KeysIn(effects) \cup KeysIn(queued)
  BY <1>5, <1>8
<1>10. Before(KeysIn(effects'), KeysIn(queued'))
  BY <1>6, <1>7, <1>8, BeforeParts
<1>11. Arrived'
  BY <1>1, <1>6, <1>8, <1>9, <1>10 DEF Arrived
<1>12. \A c \in Conn : Unsent(c)' = Unsent(c) /\ Returning(c)' = Returning(c)
  BY <1>1 DEF Unsent, Returning
<1>13. Past' \subseteq Past
  BY <1>1, <1>9, <1>12 DEF Past
<1>14. \A c \in Conn : Held(c)' /\ Lane(c)'
  BY <1>1, <1>9, <1>12 DEF Held, Lane
<1> QED BY <1>11, <1>13, <1>14

(* main_loop executes what it reads at once; a client that has closed is   *)
(* removed when it has nothing left.                                       *)
LEMMA ReadClientTrail ==
  ASSUME IInv, TableInv, QueuesOK, KeyLoopInv, nClients <= 1,
         Arrived, \A c \in Conn : Held(c) /\ Lane(c), ReadClient,
         UNCHANGED clientVars
  PROVE  Past' \subseteq Past /\ Arrived' /\ \A c \in Conn : Held(c)' /\ Lane(c)'
<1>1. /\ pc = "clients" /\ idx < nClients /\ queued = <<>>
      /\ UNCHANGED <<queued, consumed, messages>>
  BY DEF ReadClient, KeyLoopInv, Announcing, clientVars
<1>2. Peer \in Conn /\ nClients = 1 /\ clients[0] = Peer
  BY <1>1, OnlyPeer
<1> DEFINE m == Head(c2s[Peer])
<1>3. CASE ServerRead(Peer) /\ Execute(Peer, m) /\ UNCHANGED tableVars
  <2>1. m \in FromClient
    BY <1>2, <1>3, HeadTailProperties DEF ServerRead, QueuesOK, FromClient
  <2> HIDE DEF m
  <2>2. KeysIn(effects') = KeysIn(effects) \cup KeyOf(m)
    BY <1>2, <1>3, <2>1, ExecuteKeys
  <2>3. /\ KeysIn(queued') = {} /\ KeysIn(queued) = {}
        /\ KeysIn(effects') \cup KeysIn(queued')
              = KeysIn(effects) \cup KeysIn(queued) \cup KeyOf(m)
    BY <1>1, <2>2, NoKeys
  <2>4. /\ Past' \subseteq Past
        /\ \A c \in Conn : Held(c)' /\ Lane(c)'
        /\ Before(KeysIn(effects) \cup KeysIn(queued), KeyOf(m))
        /\ consumed' \cap (KeysIn(effects') \cup KeysIn(queued')) = {}
    BY <1>1, <1>2, <1>3, <2>3, ReadLanes DEF m, tableVars
  <2>5. InOrder(effects')
    BY <1>2, <1>3, <2>1, <2>4, BeforeParts, ExecuteKeys DEF Arrived
  <2>6. Before(KeysIn(effects'), KeysIn(queued')) /\ InOrder(queued')
    BY <1>1, <2>3, BeforeParts DEF Arrived
  <2> QED BY <2>4, <2>5, <2>6 DEF Arrived
<1>4. CASE /\ RemoveClient(Peer) /\ UNCHANGED effects
           /\ srv[Peer] = "closed" \/ (c2s[Peer] = <<>> /\ cli[Peer] = "closed")
  <2>1. UNCHANGED <<c2s, cli>>
    BY <1>4 DEF RemoveClient, ServerClose
  <2>2. srv[Peer] = "open"
    <3>1. TableOK
      BY <1>1 DEF TableInv
    <3>2. 0 \in 0 .. nClients - 1
      BY <1>2
    <3> QED BY <1>2, <3>1, <3>2 DEF TableOK
  <2>3. Returning(Peer) = {}
    BY <1>4, <2>2, NoKeys DEF Returning, Unsent
  <2>4. \A c \in Conn : Returning(c) = {}
    BY <1>2, <2>3 DEF Held
  <2>5. UNCHANGED <<effects, queued, consumed, c2s, messages, cli>>
    BY <1>1, <1>4, <2>1
  <2>6. \A c \in Conn : Returning(c)' = {}
    BY <2>4, <2>5, SameLanes
  <2>7. \A c \in Conn : Held(c)'
    BY <2>6 DEF Held
  <2>8. Past' = Past /\ Arrived'
    BY <2>5, SameLanes
  <2>9. \A c \in Conn : Lane(c)'
    BY <2>5, SameLanes
  <2> QED BY <2>7, <2>8, <2>9
<1>5. CASE UNCHANGED <<effects, tableVars, socketVars>>
  <2>1. UNCHANGED <<effects, queued, consumed, c2s, messages, cli>>
    BY <1>1, <1>5 DEF socketVars
  <2> QED BY <1>5, <2>1, SameTrail
<1> QED BY <1>3, <1>4, <1>5 DEF ReadClient

(* A key that main_loop writes comes behind all that has been: no client   *)
(* has answered, and a client that might have is gone with all it had sent.*)
LEMMA RequestDoneTrail ==
  ASSUME IInv, KeyLoopInv, nClients <= 1, Emptied, Below(Past, Ahead), Numbered,
         Arrived, \A c \in Conn : Held(c) /\ Lane(c), RequestDone,
         UNCHANGED clientVars
  PROVE  /\ \/ Past' \subseteq Past
            \/ Announcing /\ ~isHandled /\ Past' = Past \cup {Head(keys)}
         /\ Arrived' /\ \A c \in Conn : Held(c)' /\ Lane(c)'
<1>1. /\ pc = "send" /\ idx = nClients /\ queued = <<>>
      /\ UNCHANGED <<queued, consumed, messages, c2s, cli, nClients, clients>>
  BY DEF RequestDone, KeyLoopInv, tableVars, socketVars, clientVars
<1>2. CASE UNCHANGED effects
  <2>1. UNCHANGED <<effects, queued, consumed, c2s, messages, cli>>
    BY <1>1, <1>2
  <2>2. UNCHANGED tableVars
    BY <1>1 DEF tableVars
  <2>3. Past' \subseteq Past /\ Arrived' /\ \A c \in Conn : Held(c)' /\ Lane(c)'
    BY <2>1, <2>2, SameTrail
  <2> QED BY <2>3
<1>3. CASE ~UNCHANGED effects
  <2> DEFINE k == req.num
             e == [from |-> "tty", cmd |-> "SEND_DATA", of |-> "KEY_EVENT", num |-> k]
  <2>1. /\ effects' = Append(effects, e) /\ ~isHandled /\ Announcing
        /\ keys # <<>> /\ k = Head(keys) /\ k \in Nat
    BY <1>1, <1>3 DEF RequestDone, Announcing, KeyLoopInv, IInv, LoopInv, TypeOK,
                      ServerTypeOK, Message
  <2>2. e \in Effect /\ KeyOf(e) = {k} /\ effects \in Seq(Effect)
    BY <2>1 DEF Effect, ClientRequest, ToChild, ServerRequest, KeyOf, IInv, TypeOK,
                ServerTypeOK
  <2> HIDE DEF e
  <2>3. k \in Elements(keys) /\ Elements(keys) \subseteq Ahead
    <3>1. ~Taken
      BY <1>1, <2>1 DEF Taken
    <3>2. keys \in Seq(Nat)
      BY DEF IInv, TypeOK, ServerTypeOK
    <3> QED BY <2>1, <3>1, <3>2, ElementsTail DEF Ahead
  <2>4. \A x \in Past : x < k /\ x \in Nat
    BY <2>3 DEF Below, Numbered
  <2>5. Before(Past, {k}) /\ k \notin Past
    BY <2>1, <2>4 DEF Before
  <2>6. /\ KeysIn(effects) \subseteq Past /\ KeysIn(queued) = {}
        /\ consumed \subseteq Past /\ \A c \in Conn : Returning(c) \subseteq Past
    BY <1>1, NoKeys DEF Past
  <2>7. KeysIn(effects') = KeysIn(effects) \cup {k}
    BY <2>1, <2>2, KeysAppend
  <2>8. InOrder(effects')
    <3>1. Before(KeysIn(effects), KeyOf(e))
      BY <2>2, <2>5, <2>6 DEF Before
    <3> QED BY <2>1, <2>2, <3>1, KeysAppend DEF Arrived
  <2>9. Arrived'
    <3>1. Before(KeysIn(effects'), KeysIn(queued')) /\ InOrder(queued')
      BY <1>1, <2>6, BeforeParts DEF Arrived
    <3>2. consumed' \cap (KeysIn(effects') \cup KeysIn(queued')) = {}
      BY <1>1, <2>5, <2>6, <2>7 DEF Arrived
    <3> QED BY <2>8, <3>1, <3>2 DEF Arrived
  <2>10. \A c \in Conn : Returning(c)' = Returning(c) /\ Unsent(c)' = Unsent(c)
    BY <1>1 DEF Returning, Unsent
  <2>11. ASSUME ~SigPipeIgnored, NEW c \in Conn
         PROVE  Returning(c) = {}
    <3>1. CASE nClients = 1 /\ clients[0] = c
      <4>1. c2s[c] = <<>> /\ cli[c] = "closed"
        BY <1>1, <2>1, <2>11, <3>1 DEF Emptied, FailedLast
      <4> QED BY <4>1, NoKeys DEF Returning, Unsent
    <3> QED BY <3>1 DEF Held
  <2>12. ASSUME NEW c \in Conn
         PROVE  Before({k}, Returning(c))
    BY <2>5, <2>6, <2>11 DEF Before
  <2>13. \A c \in Conn : Held(c)'
    BY <1>1, <2>10 DEF Held
  <2>14. ASSUME NEW c \in Conn
         PROVE  Lane(c)'
    <3>1. Before(KeysIn(effects) \cup KeysIn(queued), Returning(c)) /\ Lane(c)
      BY DEF Lane
    <3>2. Before(KeysIn(effects') \cup KeysIn(queued'), Returning(c))
      BY <1>1, <2>6, <2>7, <2>12, <3>1, BeforeParts
    <3> QED BY <1>1, <2>10, <3>1, <3>2 DEF Lane
  <2>15. Past' = Past \cup {k}
    BY <1>1, <2>7, <2>10 DEF Past
  <2> QED BY <2>1, <2>9, <2>13, <2>14, <2>15
<1> QED BY <1>2, <1>3

(* Of the steps of fep only the end of an announcement adds to the keys    *)
(* that have passed, and then the one that was announced.                  *)
LEMMA ServerTrail ==
  ASSUME IInv, TableInv, QueuesOK, KeyLoopInv, nClients <= 1, nClients' <= 1, Emptied,
         Below(Past, Ahead), Numbered, Arrived, \A c \in Conn : Held(c) /\ Lane(c),
         ServerNext \/ Continue, UNCHANGED clientVars
  PROVE  /\ \/ Past' \subseteq Past
            \/ RequestDone /\ Announcing /\ ~isHandled /\ Past' = Past \cup {Head(keys)}
         /\ Arrived' /\ \A c \in Conn : Held(c)' /\ Lane(c)'
<1>0. UNCHANGED <<consumed, messages>>
  BY DEF clientVars
<1>1. CASE PselectReady \/ PselectSignal \/ HandleSignals \/ Continue
  <2>1. UNCHANGED <<effects, queued, consumed, c2s, messages, cli>>
    BY <1>0, <1>1
       DEF PselectReady, PselectSignal, HandleSignals, handle_term_signal,
           handle_winch_signal, handle_tstp_signal, SignalsDone, Continue, Done,
           loopVars, socketVars, ServerGone
  <2>2. UNCHANGED tableVars
    BY <1>1
       DEF PselectReady, PselectSignal, HandleSignals, handle_term_signal,
           handle_winch_signal, handle_tstp_signal, SignalsDone, Continue, Done
  <2>3. Past' \subseteq Past /\ Arrived' /\ \A c \in Conn : Held(c)' /\ Lane(c)'
    BY <2>1, <2>2, SameTrail
  <2> QED BY <2>3
<1>2. CASE ReadTty \/ ReadTtyError \/ NextKey \/ WaitPid \/ ReadPty \/ ClientsDone
  <2>1. UNCHANGED <<effects, queued, consumed, c2s, messages, cli>>
    BY <1>0, <1>2
       DEF ReadTty, ReadTtyError, NextKey, WaitPid, ReadPty, ClientsDone, Done,
           loopVars, socketVars, ServerGone
  <2>2. UNCHANGED tableVars
    BY <1>2
       DEF ReadTty, ReadTtyError, NextKey, WaitPid, ReadPty, ClientsDone, Done
  <2>3. Past' \subseteq Past /\ Arrived' /\ \A c \in Conn : Held(c)' /\ Lane(c)'
    BY <2>1, <2>2, SameTrail
  <2> QED BY <2>3
<1>3. CASE SendRequest \/ SendFails \/ SendKills \/ TransceiveReturn
  <2>1. UNCHANGED <<effects, queued, consumed, c2s, messages, cli>>
    BY <1>0, <1>3
       DEF SendRequest, SendFails, SendKills, TransceiveReturn, ServerWrite,
           loopVars, socketVars, ServerGone, KeyLoopInv
  <2>2. UNCHANGED tableVars
    BY <1>3 DEF SendRequest, SendFails, SendKills, TransceiveReturn
  <2>3. Past' \subseteq Past /\ Arrived' /\ \A c \in Conn : Held(c)' /\ Lane(c)'
    BY <2>1, <2>2, SameTrail
  <2> QED BY <2>3
<1>4. CASE WaitResponse \/ FlushQueued \/ ReadClient
  <2>1. Past' \subseteq Past /\ Arrived' /\ \A c \in Conn : Held(c)' /\ Lane(c)'
    BY <1>4, WaitTrail, FlushTrail, ReadClientTrail
  <2> QED BY <2>1
<1>5. CASE RequestDone
  <2>1. /\ \/ Past' \subseteq Past
           \/ Announcing /\ ~isHandled /\ Past' = Past \cup {Head(keys)}
        /\ Arrived' /\ \A c \in Conn : Held(c)' /\ Lane(c)'
    BY <1>5, RequestDoneTrail
  <2> QED BY <1>5, <2>1
<1>6. CASE AcceptClient
  <2>1. UNCHANGED <<effects, queued, consumed, c2s, messages, cli>>
    BY <1>0, <1>6 DEF AcceptClient, ServerAccept, socketVars
  <2>2. CASE UNCHANGED tableVars
    <3>1. Past' \subseteq Past /\ Arrived' /\ \A c \in Conn : Held(c)' /\ Lane(c)'
      BY <2>1, <2>2, SameTrail
    <3> QED BY <3>1
  <2>3. CASE nClients' = nClients + 1
    <3>1. nClients # 1
      BY <2>3 DEF IInv, TypeOK, ServerTypeOK
    <3>2. \A c \in Conn : Returning(c) = {}
      BY <3>1 DEF Held
    <3>3. Past' = Past /\ Arrived'
      BY <2>1, SameLanes
    <3>4. \A c \in Conn : Lane(c)'
      BY <2>1, SameLanes
    <3>5. \A c \in Conn : Returning(c)' = Returning(c)
      BY <2>1, SameLanes
    <3>6. \A c \in Conn : Held(c)'
      BY <3>2, <3>5 DEF Held
    <3> QED BY <3>3, <3>4, <3>6
  <2> QED BY <1>6, <2>2, <2>3 DEF AcceptClient
<1> QED BY <1>1, <1>2, <1>3, <1>4, <1>5, <1>6 DEF ServerNext, Transceive

LEMMA ServerBelow ==
  ASSUME IInv, KeyLoopInv, nClients <= 1, NotHandledYet, Below(Past, Ahead), Numbered,
         ServerNext \/ Continue,
         \/ Past' \subseteq Past
         \/ RequestDone /\ Announcing /\ ~isHandled /\ Past' = Past \cup {Head(keys)}
  PROVE  Below(Past', Ahead') /\ Numbered'
<1>0. keys \in Seq(Nat) /\ ttyin \in Seq(Nat)
  BY DEF IInv, TypeOK, TerminalTypeOK, ServerTypeOK
<1>1. Ahead' \subseteq Ahead
  BY AheadShrinks
<1>2. keys # <<>> => /\ Elements(keys) = {Head(keys)} \cup Elements(Tail(keys))
                     /\ Rising(Tail(keys))
                     /\ \A k \in Elements(Tail(keys)) : Head(keys) < k
  BY <1>0, ElementsTail DEF Numbered
<1>3. Announcing => keys # <<>>
  BY DEF Announcing, IInv, LoopInv
<1>4. Below(Past', Ahead')
  <2>1. CASE Past' \subseteq Past
    BY <1>1, <2>1 DEF Below
  <2>2. CASE RequestDone /\ Announcing /\ ~isHandled /\ Past' = Past \cup {Head(keys)}
    <3>1. keys' = Tail(keys) /\ ttyin' = ttyin /\ pc' = "key"
      BY <2>2 DEF RequestDone, terminalVars, Announcing
    <3>2. Ahead' = Elements(ttyin) \cup Elements(Tail(keys))
      BY <3>1 DEF Ahead, Taken, Announcing
    <3>3. \A b \in Ahead' : Head(keys) < b
      BY <1>2, <1>3, <2>2, <3>2 DEF Numbered, Below
    <3> QED BY <1>1, <2>2, <3>3 DEF Below
  <2> QED BY <2>1, <2>2
<1>5. Past' \subseteq Past \cup Elements(keys)
  BY <1>2, <1>3
<1>6. UNCHANGED KeysTyped
  BY KeysGone
<1>7. ASSUME Elements(keys') \cup Elements(ttyin') \subseteq Elements(keys) \cup Elements(ttyin),
             Rising(keys'), Rising(ttyin'), Below(Elements(keys'), Elements(ttyin'))
      PROVE  Numbered'
  <2>1. Past' \cup Elements(keys') \cup Elements(ttyin')
          \subseteq Past \cup Elements(keys) \cup Elements(ttyin)
    BY <1>5, <1>7
  <2>2. Past' \cup Elements(keys') \cup Elements(ttyin') \subseteq 1 .. KeysTyped'
    BY <1>6, <2>1 DEF Numbered
  <2> QED BY <1>7, <2>2 DEF Numbered
<1>8. CASE UNCHANGED <<keys, ttyin>>
  <2>1. Rising(keys) /\ Rising(ttyin) /\ Below(Elements(keys), Elements(ttyin))
    BY DEF Numbered
  <2> QED BY <1>4, <1>7, <1>8, <2>1
<1>9. CASE keys = <<>> /\ keys' = ttyin /\ ttyin' = <<>>
  <2>1. Elements(<<>>) = {} /\ Rising(<<>>)
    BY DEF Elements, Rising
  <2>2. Below(Elements(ttyin), {})
    BY DEF Below
  <2>3. Rising(ttyin)
    BY DEF Numbered
  <2> QED BY <1>4, <1>7, <1>9, <2>1, <2>2, <2>3
<1>10. CASE keys # <<>> /\ keys' = Tail(keys) /\ UNCHANGED ttyin
  <2>1. Elements(keys') \subseteq Elements(keys) /\ Rising(keys')
    BY <1>2, <1>10
  <2>2. Below(Elements(keys'), Elements(ttyin'))
    BY <1>10, <2>1 DEF Numbered, Below
  <2>3. Rising(ttyin)
    BY DEF Numbered
  <2> QED BY <1>4, <1>7, <1>10, <2>1, <2>2, <2>3
<1> QED BY <1>8, <1>9, <1>10, KeysGone

-----------------------------------------------------------------------------
LEMMA Keyless ==
  ASSUME NEW s, KeysIn(s) = {}
  PROVE  InOrder(s)
<1>1. \A i \in DOMAIN s : KeyOf(s[i]) = {}
  BY DEF KeysIn
<1> QED BY <1>1 DEF InOrder, Before

(* A step of one client: N are the keys to which its filter has returned.  *)
LEMMA ClientLane ==
  ASSUME Arrived, \A d \in Conn : Held(d) /\ Lane(d), NEW c \in Conn,
         UNCHANGED <<effects, queued, nClients, clients>>,
         \A d \in Conn : d # c => /\ c2s'[d] = c2s[d] /\ messages'[d] = messages[d]
                                  /\ cli'[d] = cli[d],
         InOrder(c2s'[c]), cli'[c] = "open" => InOrder(messages'[c]),
         Before(KeysIn(c2s'[c]), Unsent(c)'),
         NEW N, Before(Past, N), N \cap Past = {},
         N # {} => nClients = 1 /\ clients[0] = c,
         \/ consumed' = consumed \cup N /\ Returning(c)' \subseteq Returning(c)
         \/ consumed' = consumed /\ Returning(c)' \subseteq Returning(c) \cup N
  PROVE  Past' \subseteq Past \cup N /\ Arrived' /\ \A d \in Conn : Held(d)' /\ Lane(d)'
<1> DEFINE A == KeysIn(effects) \cup KeysIn(queued)
<1>1. /\ consumed \subseteq Past /\ A \subseteq Past
      /\ \A d \in Conn : Returning(d) \subseteq Past
  BY DEF Past
<1>2. \A d \in Conn : d # c => Unsent(d)' = Unsent(d) /\ Returning(d)' = Returning(d)
  BY DEF Returning, Unsent
<1>3. consumed' \subseteq consumed \cup N /\ Returning(c)' \subseteq Returning(c) \cup N
  OBVIOUS
<1>4. \A d \in Conn : Returning(d)' \subseteq Past \cup N
  BY <1>1, <1>2, <1>3
<1>5. KeysIn(effects') \cup KeysIn(queued') = A
  OBVIOUS
<1> HIDE DEF A
<1>6. Past' \subseteq Past \cup N
  <2>1. Past' = consumed' \cup A \cup UNION {Returning(d)' : d \in Conn}
    BY <1>5 DEF Past
  <2> QED BY <1>1, <1>3, <1>4, <2>1
<1>7. \A d \in Conn : Held(d)'
  BY <1>2, <1>3 DEF Held
<1>8. Before(A, N) /\ consumed' \cap A = {}
  <2>1. consumed \cap A = {}
    BY DEF Arrived, A
  <2> QED BY <1>1, <1>3, <2>1 DEF Before
<1>9. Arrived'
  BY <1>5, <1>8 DEF Arrived
<1>10. Lane(c)'
  <2>1. Before(A, Returning(c)) /\ consumed \cap Returning(c) = {}
    BY DEF Lane, A
  <2>2. Before(A, Returning(c)')
    BY <1>3, <1>8, <2>1 DEF Before
  <2>3. consumed' \cap Returning(c)' = {}
    BY <1>1, <2>1
  <2> QED BY <1>5, <2>2, <2>3 DEF Lane
<1>11. ASSUME NEW d \in Conn, d # c
       PROVE  Lane(d)'
  <2>1. Before(A, Returning(d)) /\ consumed \cap Returning(d) = {} /\ Lane(d)
    BY DEF Lane, A
  <2>2. consumed' \cap Returning(d)' = {}
    BY <1>1, <1>2, <1>3, <1>11, <2>1
  <2> QED BY <1>2, <1>5, <1>11, <2>1, <2>2 DEF Lane
<1> QED BY <1>6, <1>7, <1>9, <1>10, <1>11

(* When nothing is handled, only the order of what is on its way matters.  *)
LEMMA PlainLane ==
  ASSUME Arrived, \A d \in Conn : Held(d) /\ Lane(d), NEW c \in Conn,
         UNCHANGED <<effects, queued, nClients, clients, consumed>>,
         \A d \in Conn : d # c => /\ c2s'[d] = c2s[d] /\ messages'[d] = messages[d]
                                  /\ cli'[d] = cli[d],
         InOrder(c2s'[c]), cli'[c] = "open" => InOrder(messages'[c]),
         Before(KeysIn(c2s'[c]), Unsent(c)'), Returning(c)' \subseteq Returning(c)
  PROVE  Past' \subseteq Past /\ Arrived' /\ \A d \in Conn : Held(d)' /\ Lane(d)'
<1>1. PICK N : N = {}
  OBVIOUS
<1>2. Before(Past, N) /\ N \cap Past = {} /\ consumed' = consumed \cup N
  BY <1>1, BeforeParts
<1>3. N # {} => nClients = 1 /\ clients[0] = c
  BY <1>1
<1>4. Past' \subseteq Past \cup N /\ Arrived' /\ \A d \in Conn : Held(d)' /\ Lane(d)'
  BY <1>2, <1>3, ClientLane
<1> QED BY <1>1, <1>4

(* An API call outside a filter, and inside: its message carries no key.   *)
LEMMA CallTrail ==
  ASSUME IInv, Arrived, \A d \in Conn : Held(d) /\ Lane(d), NEW c \in Conn,
         NEW cmd \in ApiCommand, Call(c, cmd), UNCHANGED serverVars
  PROVE  Past' \subseteq Past /\ Arrived' /\ \A d \in Conn : Held(d)' /\ Lane(d)'
<1> DEFINE m == Request(cmd, calls[c] + 1)
<1>0. /\ c2s \in [Conn -> Seq(Message)] /\ messages \in [Conn -> Seq(Message)]
      /\ calls \in [Conn -> Nat] /\ Lane(c)
      /\ UNCHANGED <<effects, queued, nClients, clients, consumed>>
  BY DEF IInv, TypeOK, SocketTypeOK, ClientTypeOK, serverVars, Call
<1>1. m \in Message /\ KeyOf(m) = {}
  <2>1. calls[c] + 1 \in Nat /\ cmd \in ClientRequest
    BY <1>0, ApiAssumption
  <2> QED BY <2>1, MessageTypes DEF KeyOf, Request
<1>2. \/ ClientWrite(c, m) /\ UNCHANGED messages
      \/ messages' = [messages EXCEPT ![c] = Append(messages[c], m)]
           /\ UNCHANGED <<c2s, cli>>
  BY DEF Call, socketVars
<1> HIDE DEF m
<1>3. ASSUME NEW s \in Seq(Message), InOrder(s)
      PROVE  KeysIn(Append(s, m)) = KeysIn(s) /\ InOrder(Append(s, m))
  <2>1. KeysIn(Append(s, m)) = KeysIn(s) \cup KeyOf(m)
    BY <1>1, KeysAppend
  <2>2. Before(KeysIn(s), KeyOf(m))
    BY <1>1, BeforeParts
  <2>3. InOrder(Append(s, m))
    BY <1>1, <1>3, <2>2, KeysAppend
  <2> QED BY <1>1, <2>1, <2>3
<1>4. CASE ClientWrite(c, m) /\ UNCHANGED messages
  <2>1. /\ c2s'[c] = Append(c2s[c], m) /\ UNCHANGED <<cli, messages>>
        /\ \A d \in Conn : d # c => c2s'[d] = c2s[d]
    BY <1>0, <1>4 DEF ClientWrite
  <2>2. InOrder(c2s'[c]) /\ KeysIn(c2s'[c]) = KeysIn(c2s[c])
    BY <1>0, <1>3, <2>1 DEF Lane
  <2>3. Unsent(c)' = Unsent(c) /\ Returning(c)' = Returning(c)
    BY <2>1, <2>2 DEF Unsent, Returning
  <2>4. Before(KeysIn(c2s'[c]), Unsent(c)') /\ (cli'[c] = "open" => InOrder(messages'[c]))
    BY <1>0, <2>1, <2>2, <2>3 DEF Lane
  <2> QED BY <1>0, <2>1, <2>2, <2>3, <2>4, PlainLane
<1>5. CASE messages' = [messages EXCEPT ![c] = Append(messages[c], m)]
             /\ UNCHANGED <<c2s, cli>>
  <2>1. /\ messages'[c] = Append(messages[c], m) /\ cli[c] = "open"
        /\ \A d \in Conn : d # c => messages'[d] = messages[d]
    BY <1>0, <1>5 DEF Call
  <2>2. InOrder(messages'[c]) /\ KeysIn(messages'[c]) = KeysIn(messages[c])
    BY <1>0, <1>3, <2>1 DEF Lane
  <2>3. Unsent(c)' = Unsent(c) /\ Returning(c)' = Returning(c)
    BY <1>5, <2>2 DEF Unsent, Returning
  <2>4. Before(KeysIn(c2s'[c]), Unsent(c)') /\ InOrder(c2s'[c])
    BY <1>0, <1>5, <2>3 DEF Lane
  <2> QED BY <1>0, <1>5, <2>1, <2>2, <2>3, <2>4, PlainLane
<1> QED BY <1>2, <1>4, <1>5

(* What was queued behind the RESPONSE goes to the socket in its order. *)
LEMMA FlushLane ==
  ASSUME IInv, Arrived, \A d \in Conn : Held(d) /\ Lane(d), NEW c \in Conn,
         Flush(c), UNCHANGED serverVars
  PROVE  Past' \subseteq Past /\ Arrived' /\ \A d \in Conn : Held(d)' /\ Lane(d)'
<1> DEFINE m == Head(messages[c])
<1>0. /\ c2s \in [Conn -> Seq(Message)] /\ messages \in [Conn -> Seq(Message)]
      /\ Lane(c) /\ UNCHANGED <<effects, queued, nClients, clients, consumed>>
      /\ cli[c] = "open" /\ messages[c] # <<>>
  BY DEF IInv, TypeOK, SocketTypeOK, ClientTypeOK, serverVars, Flush
<1>1. /\ c2s'[c] = Append(c2s[c], m) /\ messages'[c] = Tail(messages[c])
      /\ UNCHANGED cli
      /\ \A d \in Conn : d # c => c2s'[d] = c2s[d] /\ messages'[d] = messages[d]
  BY <1>0 DEF Flush, ClientWrite
<1>2. m \in Message
  BY <1>0, HeadTailProperties
<1>3. KeysIn(messages[c]) = KeyOf(m) \cup KeysIn(messages'[c])
  BY <1>0, <1>1, KeysTail
<1>4. InOrder(messages'[c]) /\ Before(KeyOf(m), KeysIn(messages'[c]))
  BY <1>0, <1>1, KeysTail DEF Lane
<1> HIDE DEF m
<1>5. Unsent(c) = KeysIn(messages[c]) /\ Unsent(c)' = KeysIn(messages'[c])
  BY <1>0, <1>1 DEF Unsent
<1>6. Before(KeysIn(c2s[c]), KeyOf(m)) /\ Before(KeysIn(c2s[c]), KeysIn(messages'[c]))
  <2>1. Before(KeysIn(c2s[c]), Unsent(c))
    BY <1>0 DEF Lane
  <2>2. Before(KeysIn(c2s[c]), KeyOf(m) \cup KeysIn(messages'[c]))
    BY <1>3, <1>5, <2>1
  <2> QED BY <2>2, BeforeParts
<1>7. KeysIn(c2s'[c]) = KeysIn(c2s[c]) \cup KeyOf(m)
  BY <1>0, <1>1, <1>2, KeysAppend
<1>8. InOrder(c2s'[c])
  BY <1>0, <1>1, <1>2, <1>6, KeysAppend DEF Lane
<1>9. Before(KeysIn(c2s'[c]), Unsent(c)')
  BY <1>4, <1>5, <1>6, <1>7, BeforeParts
<1>10. Returning(c)' = Returning(c)
  BY <1>3, <1>5, <1>7 DEF Returning
<1> QED BY <1>0, <1>1, <1>4, <1>8, <1>9, <1>10, PlainLane

(* A client that dies takes along what it had queued. *)
LEMMA CloseLane ==
  ASSUME IInv, Arrived, \A d \in Conn : Held(d) /\ Lane(d), NEW c \in Conn,
         ClientClose(c), UNCHANGED <<clientVars, serverVars>>
  PROVE  Past' \subseteq Past /\ Arrived' /\ \A d \in Conn : Held(d)' /\ Lane(d)'
<1>0. /\ cli \in [Conn -> EndState] /\ Lane(c)
      /\ UNCHANGED <<effects, queued, nClients, clients, consumed, messages>>
  BY DEF IInv, TypeOK, SocketTypeOK, serverVars, clientVars
<1>1. UNCHANGED c2s /\ cli'[c] = "closed" /\ \A d \in Conn : d # c => cli'[d] = cli[d]
  BY <1>0 DEF ClientClose
<1>2. Unsent(c)' = {} /\ Returning(c)' \subseteq Returning(c)
  BY <1>1 DEF Unsent, Returning
<1>3. Before(KeysIn(c2s'[c]), Unsent(c)') /\ InOrder(c2s'[c])
  BY <1>0, <1>1, <1>2, BeforeParts DEF Lane
<1> QED BY <1>0, <1>1, <1>2, <1>3, PlainLane

(* A client that connects has nothing to send back yet. *)
LEMMA OpenLane ==
  ASSUME IInv, TableInv, StreamInv, NoneEarly,
         Arrived, \A d \in Conn : Held(d) /\ Lane(d), NEW c \in Conn,
         fep_client_open(c), UNCHANGED serverVars
  PROVE  Past' \subseteq Past /\ Arrived' /\ \A d \in Conn : Held(d)' /\ Lane(d)'
<1>0. /\ cli \in [Conn -> EndState] /\ Lane(c) /\ listening /\ cli[c] = "none"
      /\ UNCHANGED <<effects, queued, nClients, clients, consumed, messages, c2s>>
      /\ \A d \in Conn : d # c => cli'[d] = cli[d]
  BY DEF IInv, TypeOK, SocketTypeOK, serverVars, clientVars, fep_client_open, Connect
<1>1. KeysIn(messages[c]) = {}
  <2>1. srv[c] = "none"
    BY <1>0 DEF TableInv, BacklogOK
  <2>2. KeysIn(issued[c]) = {}
    BY <2>1 DEF NoneEarly
  <2> QED BY <2>2, StreamKeys
<1>2. InOrder(messages'[c]) /\ KeysIn(messages'[c]) = {}
  BY <1>0, <1>1, Keyless
<1>3. Unsent(c)' = {} /\ Returning(c)' \subseteq Returning(c)
  BY <1>0, <1>2 DEF Unsent, Returning
<1>4. Before(KeysIn(c2s'[c]), Unsent(c)') /\ InOrder(c2s'[c])
  BY <1>0, <1>3, BeforeParts DEF Lane
<1> QED BY <1>0, <1>2, <1>3, <1>4, PlainLane

LEMMA DispatchLane ==
  ASSUME Arrived, \A d \in Conn : Held(d) /\ Lane(d), NEW c \in Conn,
         Dispatch(c), UNCHANGED serverVars
  PROVE  Past' \subseteq Past /\ Arrived' /\ \A d \in Conn : Held(d)' /\ Lane(d)'
<1>1. /\ UNCHANGED <<effects, queued, consumed, c2s, messages, cli>>
      /\ UNCHANGED tableVars
  BY DEF Dispatch, ClientRead, serverVars, tableVars
<1> QED BY <1>1, SameTrail

(* A filter returns only to the key that is being announced, and no other  *)
(* client has answered to it.                                              *)
LEMMA FilterTaken ==
  ASSUME IInv, nClients <= 1, NotHandledYet, NEW c \in Conn, NEW h \in BOOLEAN,
         FilterReturn(c, h), UNCHANGED serverVars
  PROVE  /\ request[c] = req /\ nClients = 1 /\ clients[0] = c
         /\ req.cmd = "KEY_EVENT" => Announcing /\ ~Taken /\ Taken'
<1>1. Waiting(c) /\ Filtering(c) /\ request[c] = req
  BY FilterRequest DEF FilterReturn, Filtering
<1>2. pc = "wait" /\ Peer = c /\ nClients = 1 /\ clients[0] = c /\ idx = 0
  BY <1>1, OnlyPeer DEF Waiting
<1>3. NoResponse(c2s[c])
  BY <1>1 DEF Filtering
<1>4. ~NoResponse(c2s'[c])
  <2>1. c2s'[c] = Append(c2s[c], Response(req)) /\ Response(req).cmd = "RESPONSE"
    BY <1>1 DEF FilterReturn, ClientWrite, Response, IInv, TypeOK, SocketTypeOK
  <2>2. c2s[c] \in Seq(Message)
    BY DEF IInv, TypeOK, SocketTypeOK
  <2> HIDE DEF Response
  <2>3. /\ Len(c2s'[c]) = Len(c2s[c]) + 1 /\ Len(c2s[c]) \in Nat
        /\ c2s'[c][Len(c2s[c]) + 1] = Response(req)
    BY <2>1, <2>2, AppendProperties, LenProperties
  <2>4. Len(c2s[c]) + 1 \in 1 .. Len(c2s'[c])
    BY <2>3
  <2> QED BY <2>1, <2>3, <2>4 DEF NoResponse
<1> QED BY <1>1, <1>2, <1>3, <1>4
        DEF Announcing, Taken, NotHandledYet, Peer, serverVars

(* The answer of a filter goes into the socket, ahead of what is queued;   *)
(* a key that is not handled is queued last.                               *)
LEMMA FilterLane ==
  ASSUME IInv, KeyLoopInv, nClients <= 1, NotHandledYet, Numbered,
         Below(Past, Ahead), Arrived, \A d \in Conn : Held(d) /\ Lane(d),
         NEW c \in Conn, NEW h \in BOOLEAN, FilterReturn(c, h), UNCHANGED serverVars
  PROVE  /\ Past' \subseteq Past \cup (IF req.cmd = "KEY_EVENT" THEN {req.num} ELSE {})
         /\ Arrived' /\ \A d \in Conn : Held(d)' /\ Lane(d)'
<1> DEFINE N == IF req.cmd = "KEY_EVENT" THEN {req.num} ELSE {}
           r == Response(req)
<1>0. /\ c2s \in [Conn -> Seq(Message)] /\ messages \in [Conn -> Seq(Message)]
      /\ Lane(c) /\ cli[c] = "open" /\ req \in Message /\ request[c] = req
      /\ UNCHANGED <<effects, queued, nClients, clients, cli>>
  BY FilterTaken DEF IInv, TypeOK, SocketTypeOK, ClientTypeOK, ServerTypeOK,
                     serverVars, FilterReturn, ClientWrite
<1>1. N # {} => nClients = 1 /\ clients[0] = c
  BY FilterTaken
<1>2. /\ c2s'[c] = Append(c2s[c], r)
      /\ \A d \in Conn : d # c => c2s'[d] = c2s[d] /\ messages'[d] = messages[d]
  BY <1>0 DEF FilterReturn, ClientWrite
<1>3. r \in Message /\ KeyOf(r) = {}
  BY <1>0, MessageTypes DEF Response, KeyOf, IInv, LoopInv
<1>4. N \subseteq Ahead
  <2>1. CASE req.cmd = "KEY_EVENT"
    <3>1. Announcing /\ ~Taken
      BY <2>1, FilterTaken
    <3>2. keys \in Seq(Nat) /\ keys # <<>> /\ req.num = Head(keys)
      BY <3>1 DEF KeyLoopInv, Announcing, IInv, LoopInv, TypeOK, ServerTypeOK
    <3>3. req.num \in Elements(keys)
      BY <3>2, ElementsTail
    <3> QED BY <2>1, <3>1, <3>3 DEF Ahead
  <2> QED BY <2>1
<1>5. Before(Past, N) /\ N \cap Past = {}
  <2>1. \A a \in Past, b \in N : a < b /\ a \in Nat /\ b \in Nat
    <3>1. Past \subseteq Nat
      BY KeysTypedType DEF Numbered, IInv, TypeOK
    <3>2. N \subseteq Nat
      BY <1>0 DEF Message
    <3> QED BY <1>4, <3>1, <3>2 DEF Below
  <2>2. \A a \in Past, b \in N : a # b
    BY <2>1
  <2> HIDE DEF N
  <2> QED BY <2>1, <2>2 DEF Before
<1>6. KeysIn(c2s'[c]) = KeysIn(c2s[c]) /\ InOrder(c2s'[c])
  <2> HIDE DEF r
  <2>0. c2s[c] \in Seq(Message)
    BY <1>0
  <2>1. KeysIn(c2s'[c]) = KeysIn(c2s[c]) \cup KeyOf(r)
    BY ZenonT(40), <2>0, <1>2, <1>3, KeysAppend
  <2>2. Before(KeysIn(c2s[c]), KeyOf(r))
    BY <1>3, BeforeParts
  <2>3. InOrder(c2s[c])
    BY <1>0 DEF Lane
  <2>4. InOrder(c2s'[c])
    BY <2>0, <1>2, <1>3, <2>2, <2>3, KeysAppend
  <2> QED BY <1>3, <2>1, <2>4
<1>7. /\ Unsent(c) = KeysIn(messages[c]) /\ Unsent(c)' = KeysIn(messages'[c])
      /\ Returning(c) = KeysIn(c2s[c]) \cup KeysIn(messages[c])
      /\ Returning(c)' = KeysIn(c2s[c]) \cup KeysIn(messages'[c])
  BY <1>0, <1>6 DEF Unsent, Returning
<1>8. InOrder(messages[c]) /\ Before(KeysIn(c2s[c]), KeysIn(messages[c]))
  BY <1>0, <1>7 DEF Lane
<1>9. Returning(c) \subseteq Past
  BY DEF Past
<1>10. CASE req.cmd = "KEY_EVENT" /\ ~h
  <2> DEFINE e == Echo(req)
  <2>1. e \in Message /\ KeyOf(e) = N
    BY <1>0, <1>10, MessageTypes DEF Echo, KeyOf, Message, ClientRequest, IInv, LoopInv
  <2>2. messages'[c] = Append(messages[c], e) /\ consumed' = consumed
    <3>1. messages'[c] = messages[c] \o <<e>>
      BY <1>0, <1>10 DEF FilterReturn
    <3>2. messages[c] \in Seq(Message)
      BY <1>0
    <3> HIDE DEF e
    <3>3. messages[c] \o <<e>> = Append(messages[c], e)
      BY <2>1, <3>2, AppendIsConcat
    <3> QED BY <1>0, <1>10, <3>1, <3>3 DEF FilterReturn
  <2> HIDE DEF e, N
  <2>3. KeysIn(messages'[c]) = KeysIn(messages[c]) \cup N
    BY <1>0, <2>1, <2>2, KeysAppend
  <2>4. Before(KeysIn(messages[c]), N) /\ Before(KeysIn(c2s[c]), N)
    BY <1>5, <1>7, <1>9 DEF Before
  <2>5. InOrder(messages'[c])
    BY <1>0, <1>8, <2>1, <2>2, <2>4, KeysAppend
  <2>6. Before(KeysIn(c2s'[c]), Unsent(c)')
    BY <1>6, <1>7, <1>8, <2>3, <2>4 DEF Before
  <2>7. Returning(c)' \subseteq Returning(c) \cup N
    BY <1>7, <2>3
  <2>8. Past' \subseteq Past \cup N /\ Arrived' /\ \A d \in Conn : Held(d)' /\ Lane(d)'
    BY <1>0, <1>1, <1>2, <1>5, <1>6, <2>2, <2>5, <2>6, <2>7, ClientLane
  <2> QED BY <2>8 DEF N
<1>11. CASE ~(req.cmd = "KEY_EVENT" /\ ~h)
  <2>1. messages'[c] = messages[c]
    <3>1. messages'[c] = messages[c] \o <<>> /\ messages[c] \in Seq(Message)
      BY <1>0, <1>11 DEF FilterReturn
    <3> QED BY <3>1, ConcatEmptySeq
  <2>2. consumed' = consumed \cup N
    BY <1>0, <1>11 DEF FilterReturn
  <2> HIDE DEF N
  <2>3. InOrder(messages'[c]) /\ Before(KeysIn(c2s'[c]), Unsent(c)')
    BY <1>6, <1>7, <1>8, <2>1
  <2>4. Returning(c)' \subseteq Returning(c)
    BY <1>7, <2>1
  <2>5. Past' \subseteq Past \cup N /\ Arrived' /\ \A d \in Conn : Held(d)' /\ Lane(d)'
    BY <1>0, <1>1, <1>2, <1>5, <1>6, <2>2, <2>3, <2>4, ClientLane
  <2> QED BY <2>5 DEF N
<1> QED BY <1>10, <1>11

(* A client takes no RESPONSE back. *)
LEMMA TakenLasts ==
  ASSUME IInv, NEW c \in Conn, ClientNext(c), UNCHANGED serverVars, Taken
  PROVE  Taken'
<1>0. /\ c2s \in [Conn -> Seq(Message)] /\ messages \in [Conn -> Seq(Message)]
      /\ calls \in [Conn -> Nat] /\ request \in [Conn -> Message]
  BY DEF IInv, TypeOK, SocketTypeOK, ClientTypeOK
<1>1. ASSUME NEW m \in Message, ClientWrite(c, m), NEW d \in Conn, ~NoResponse(c2s[d])
      PROVE  ~NoResponse(c2s'[d])
  <2>1. c2s'[d] = c2s[d] \/ c2s'[d] = Append(c2s[d], m)
    BY <1>0, <1>1 DEF ClientWrite
  <2>2. PICK i \in 1 .. Len(c2s[d]) : c2s[d][i].cmd = "RESPONSE"
    BY <1>1 DEF NoResponse
  <2>3. /\ Len(Append(c2s[d], m)) = Len(c2s[d]) + 1 /\ Len(c2s[d]) \in Nat
        /\ Append(c2s[d], m)[i] = c2s[d][i]
    BY <1>0, <2>2, AppendProperties, LenProperties
  <2>4. i \in 1 .. Len(Append(c2s[d], m))
    BY <2>2, <2>3
  <2> QED BY <2>1, <2>2, <2>3, <2>4 DEF NoResponse
<1>2. UNCHANGED c2s \/ \E m \in Message : ClientWrite(c, m)
  <2>1. ASSUME NEW cmd \in ApiCommand, Call(c, cmd)
        PROVE  UNCHANGED c2s \/ \E m \in Message : ClientWrite(c, m)
    <3>1. cmd \in ClientRequest /\ calls[c] + 1 \in Nat
      BY <1>0, ApiAssumption
    <3>2. Request(cmd, calls[c] + 1) \in Message
      BY <3>1, MessageTypes
    <3> QED BY <2>1, <3>2 DEF Call, socketVars
  <2>2. ASSUME NEW h \in BOOLEAN, FilterReturn(c, h)
        PROVE  \E m \in Message : ClientWrite(c, m)
    <3>1. request[c] = req /\ req.cmd \in ServerRequest
      BY <2>2, FilterRequest DEF FilterReturn, Filtering, IInv, LoopInv
    <3>2. Response(request[c]) \in Message
      BY <1>0, <3>1, MessageTypes
    <3> QED BY <2>2, <3>2 DEF FilterReturn
  <2>3. CASE Flush(c)
    <3>1. Head(messages[c]) \in Message
      BY <1>0, <2>3, HeadTailProperties DEF Flush
    <3> QED BY <2>3, <3>1 DEF Flush
  <2> QED
    BY <2>1, <2>2, <2>3
       DEF ClientNext, Answer, fep_client_open, Connect, Dispatch, ClientRead,
           fep_client_close, Die, ClientClose
<1>3. \A d \in Conn : ~NoResponse(c2s[d]) => ~NoResponse(c2s'[d])
  BY <1>1, <1>2
<1>4. pc = "wait" => Peer \in Conn
  BY PeerType DEF IInv, LoopInv, TypeOK, ServerOK
<1>5. Peer' = Peer
  BY DEF Peer, serverVars
<1> QED BY <1>3, <1>4, <1>5 DEF Taken, Announcing, serverVars

(* A step of a client. *)
LEMMA ClientTrail ==
  ASSUME IInv, TableInv, StreamInv, NoneEarly, KeyLoopInv, nClients <= 1,
         NotHandledYet, Numbered, Below(Past, Ahead),
         Arrived, \A d \in Conn : Held(d) /\ Lane(d), NEW c \in Conn, ClientStep(c)
  PROVE  /\ Numbered' /\ Below(Past', Ahead')
         /\ Arrived' /\ \A d \in Conn : Held(d)' /\ Lane(d)'
<1>0. /\ ClientNext(c) /\ UNCHANGED serverVars
      /\ UNCHANGED <<keys, ttyin, KeysTyped, req>>
      /\ keys \in Seq(Nat) /\ ttyin \in Seq(Nat)
  BY DEF ClientStep, serverVars, terminalVars, KeysTyped, IInv, TypeOK,
         TerminalTypeOK, ServerTypeOK
<1>1. Taken => Taken'
  BY <1>0, TakenLasts
<1>2. Taken => keys # <<>>
  BY DEF Taken, Announcing, IInv, LoopInv
<1>3. keys # <<>> => /\ Elements(keys) = {Head(keys)} \cup Elements(Tail(keys))
                     /\ \A k \in Elements(Tail(keys)) : Head(keys) < k
  BY <1>0, ElementsTail DEF Numbered
<1>4. Ahead' \subseteq Ahead
  <2>1. Taken' => keys # <<>>
    BY <1>0 DEF Taken, Announcing, IInv, LoopInv, serverVars
  <2> QED BY <1>0, <1>1, <1>3, <2>1 DEF Ahead
<1>5. CASE Past' \subseteq Past /\ Arrived' /\ \A d \in Conn : Held(d)' /\ Lane(d)'
  <2>1. Below(Past', Ahead')
    BY <1>4, <1>5 DEF Below
  <2>2. Numbered'
    BY <1>0, <1>5 DEF Numbered
  <2> QED BY <1>5, <2>1, <2>2
<1>6. ASSUME NEW h \in BOOLEAN, FilterReturn(c, h)
      PROVE  /\ Numbered' /\ Below(Past', Ahead')
             /\ Arrived' /\ \A d \in Conn : Held(d)' /\ Lane(d)'
  <2>1. /\ Past' \subseteq Past \cup (IF req.cmd = "KEY_EVENT" THEN {req.num} ELSE {})
        /\ Arrived' /\ \A d \in Conn : Held(d)' /\ Lane(d)'
    BY <1>0, <1>6, FilterLane
  <2>2. CASE req.cmd # "KEY_EVENT"
    BY <1>5, <2>1, <2>2
  <2>3. CASE req.cmd = "KEY_EVENT"
    <3>1. Announcing /\ Taken'
      BY <1>0, <1>6, <2>3, FilterTaken
    <3>2. keys # <<>> /\ req.num = Head(keys)
      BY <3>1 DEF KeyLoopInv, Announcing, IInv, LoopInv
    <3>3. Past' \subseteq Past \cup {Head(keys)}
      BY <2>1, <2>3, <3>2
    <3>4. \A b \in Ahead' : Head(keys) < b
      BY <1>0, <1>3, <3>1, <3>2 DEF Ahead, Numbered, Below
    <3>5. Below(Past', Ahead')
      BY <1>4, <3>3, <3>4 DEF Below
    <3>6. Past' \cup Elements(keys) \cup Elements(ttyin) \subseteq 1 .. KeysTyped
      BY <1>3, <3>2, <3>3 DEF Numbered
    <3>7. Numbered'
      BY <1>0, <3>6 DEF Numbered
    <3> QED BY <2>1, <3>5, <3>7
  <2> QED BY <2>2, <2>3
<1>7. ASSUME NEW cmd \in ApiCommand, Call(c, cmd)
      PROVE  Past' \subseteq Past /\ Arrived' /\ \A d \in Conn : Held(d)' /\ Lane(d)'
  BY <1>0, <1>7, CallTrail
<1>8. CASE Flush(c)
  BY <1>0, <1>5, <1>8, FlushLane
<1>9. CASE Dispatch(c)
  BY <1>0, <1>5, <1>9, DispatchLane
<1>10. CASE fep_client_open(c)
  BY <1>0, <1>5, <1>10, OpenLane
<1>11. CASE fep_client_close(c) \/ Die(c)
  <2>1. ClientClose(c) /\ UNCHANGED clientVars
    BY <1>11 DEF fep_client_close, Die
  <2> QED BY <1>0, <1>5, <2>1, CloseLane
<1> QED BY <1>0, <1>5, <1>6, <1>7, <1>8, <1>9, <1>10, <1>11 DEF ClientNext, Answer

(* A key that is typed comes after all the others. *)
LEMMA TypedTrail ==
  ASSUME IInv, Numbered, Below(Past, Ahead),
         Arrived, \A d \in Conn : Held(d) /\ Lane(d), EnvironmentStep
  PROVE  /\ Numbered' /\ Below(Past', Ahead')
         /\ Arrived' /\ \A d \in Conn : Held(d)' /\ Lane(d)'
<1>0. /\ UNCHANGED <<effects, queued, consumed, c2s, messages, cli>>
      /\ UNCHANGED tableVars /\ UNCHANGED <<keys, pc, req, isHandled, retval>>
      /\ Environment /\ TerminalTypeOK /\ ttyin \in Seq(Nat) /\ keys \in Seq(Nat)
      /\ UNCHANGED serverVars
  BY DEF EnvironmentStep, socketVars, clientVars, serverVars, tableVars, IInv,
         TypeOK, TerminalTypeOK, ServerTypeOK
<1>1. Past' = Past /\ Arrived' /\ \A d \in Conn : Held(d)' /\ Lane(d)'
  BY <1>0, SameTrail, SameLanes
<1>2. Taken' <=> Taken
  BY <1>0 DEF Taken, Announcing, Peer, serverVars
<1>3. CASE UNCHANGED <<KeysTyped, ttyin>>
  <2>1. Ahead' = Ahead
    BY <1>0, <1>2, <1>3 DEF Ahead
  <2>2. Numbered'
    BY <1>0, <1>1, <1>3 DEF Numbered
  <2> QED BY <1>1, <2>1, <2>2 DEF Below
<1>4. CASE KeysTyped' = KeysTyped + 1 /\ ttyin' = Append(ttyin, KeysTyped + 1)
  <2> DEFINE k == KeysTyped + 1
  <2>1. KeysTyped \in Nat /\ k \in Nat /\ \A i \in 1 .. KeysTyped : i < k
    BY <1>0, KeysTypedType
  <2>2. \A i \in Past \cup Elements(keys) \cup Elements(ttyin) : i < k
    BY <2>1 DEF Numbered
  <2>3. Elements(ttyin') = Elements(ttyin) \cup {k} /\ Rising(ttyin')
    <3>1. Elements(Append(ttyin, k)) = Elements(ttyin) \cup {k}
      BY <1>0, <2>1, ElementsAppend
    <3>2. Rising(ttyin) => Rising(Append(ttyin, k))
      BY <1>0, <2>1, <2>2, ElementsAppend
    <3> QED BY <1>4, <3>1, <3>2 DEF Numbered
  <2>4. 1 .. KeysTyped' = (1 .. KeysTyped) \cup {k}
    BY <1>4, <2>1
  <2> HIDE DEF k
  <2>5. Ahead' = Ahead \cup {k}
    BY <1>0, <1>2, <2>3 DEF Ahead
  <2>6. Below(Past', Ahead')
    BY <1>1, <2>2, <2>5 DEF Below
  <2>7. Below(Elements(keys'), Elements(ttyin'))
    BY <1>0, <2>2, <2>3 DEF Below, Numbered
  <2>8. Past' \cup Elements(keys') \cup Elements(ttyin') \subseteq 1 .. KeysTyped'
    BY <1>0, <1>1, <2>3, <2>4 DEF Numbered
  <2> QED BY <1>0, <1>1, <2>3, <2>6, <2>7, <2>8 DEF Numbered
<1> QED BY <1>0, <1>3, <1>4, Typed

(* KeyTrailInv is inductive while there is at most one client, together    *)
(* with the invariants of the table, the streams and the places of keys.   *)
LEMMA TrailStep ==
  ASSUME IInv, TableInv, StreamInv, KeyPlaceInv, KeyTrailInv,
         nClients <= 1, nClients' <= 1, [Next]_vars
  PROVE  KeyTrailInv'
<1>0. /\ KeyLoopInv /\ Numbered /\ Below(Past, Ahead) /\ NotHandledYet /\ Emptied
      /\ Arrived /\ (\A c \in Conn : Held(c) /\ Lane(c)) /\ NoneEarly /\ QueuesOK
  BY TrailParts, PlaceParts DEF StreamInv
<1>1. KeyLoopInv' /\ NotHandledYet' /\ Emptied'
  BY <1>0, KeyLoopStep, HandledStep, EmptiedStep
<1>2. /\ Numbered' /\ Below(Past', Ahead')
      /\ Arrived' /\ \A c \in Conn : Held(c)' /\ Lane(c)'
  <2>1. CASE ServerStep \/ Resume
    <3>1. (ServerNext \/ Continue) /\ UNCHANGED clientVars
      BY <2>1 DEF ServerStep, Resume
    <3>2. /\ \/ Past' \subseteq Past
             \/ RequestDone /\ Announcing /\ ~isHandled /\ Past' = Past \cup {Head(keys)}
          /\ Arrived' /\ \A c \in Conn : Held(c)' /\ Lane(c)'
      BY <1>0, <3>1, ServerTrail
    <3>3. Below(Past', Ahead') /\ Numbered'
      BY <1>0, <3>1, <3>2, ServerBelow
    <3> QED BY <3>2, <3>3
  <2>2. ASSUME NEW c \in Conn, ClientStep(c)
        PROVE  /\ Numbered' /\ Below(Past', Ahead')
               /\ Arrived' /\ \A d \in Conn : Held(d)' /\ Lane(d)'
    BY <1>0, <2>2, ClientTrail
  <2>3. CASE EnvironmentStep
    BY <1>0, <2>3, TypedTrail
  <2>4. CASE UNCHANGED vars
    <3>1. /\ UNCHANGED <<effects, queued, consumed, c2s, messages, cli>>
          /\ UNCHANGED tableVars /\ UNCHANGED <<keys, ttyin>> /\ UNCHANGED KeysTyped
          /\ UNCHANGED <<pc, req, isHandled, retval, idx>>
      <4>1. UNCHANGED socketVars /\ UNCHANGED clientVars /\ UNCHANGED serverVars
              /\ UNCHANGED terminalVars
        BY <2>4 DEF vars
      <4>2. UNCHANGED <<c2s, cli>>
        BY <4>1 DEF socketVars
      <4>3. UNCHANGED <<consumed, messages>>
        BY <4>1 DEF clientVars
      <4>4. UNCHANGED <<effects, queued, keys, pc, req, isHandled, retval, idx>>
              /\ UNCHANGED tableVars
        BY <4>1 DEF serverVars, tableVars
      <4>5. UNCHANGED ttyin /\ UNCHANGED KeysTyped
        BY <4>1 DEF terminalVars, KeysTyped
      <4> QED BY <4>2, <4>3, <4>4, <4>5
    <3>2. Past' = Past /\ Arrived' /\ \A d \in Conn : Held(d)' /\ Lane(d)'
      BY <1>0, <3>1, SameTrail, SameLanes
    <3>3. Ahead' = Ahead
      BY <3>1 DEF Ahead, Taken, Announcing, Peer, tableVars
    <3>4. Below(Past', Ahead')
      BY <1>0, <3>2, <3>3 DEF Below
    <3>5. Numbered'
      BY <1>0, <3>1, <3>2 DEF Numbered
    <3> QED BY <3>2, <3>4, <3>5
  <2> QED BY <2>1, <2>2, <2>3, <2>4 DEF Next
<1> QED
  BY <1>1, <1>2
     DEF KeyTrailInv, Numbered, NotHandledYet, Emptied, FailedLast, Arrived, Held, Lane

LEMMA InitTrail == Init => KeyTrailInv
<1> SUFFICES ASSUME Init PROVE KeyTrailInv
  OBVIOUS
<1>1. /\ pc = "pselect" /\ keys = <<>> /\ queued = <<>> /\ ttyin = <<>>
      /\ effects = <<>> /\ consumed = {}
      /\ messages = [c \in Conn |-> <<>>] /\ c2s = [c \in Conn |-> <<>>]
  BY DEF Init, SocketInit, ClientInit, TerminalInit, ServerInit
<1>2. KeyLoopInv /\ ~Announcing /\ Elements(<<>>) = {} /\ Rising(<<>>)
  BY <1>1 DEF KeyLoopInv, Announcing, Elements, Rising
<1>3. KeysIn(<<>>) = {} /\ InOrder(<<>>)
  BY NoKeys
<1>4. \A c \in Conn : Unsent(c) = {} /\ Returning(c) = {}
  BY <1>1, <1>3 DEF Unsent, Returning
<1>5. Past = {}
  BY <1>1, <1>3, <1>4 DEF Past
<1>6. Numbered /\ Below(Past, Ahead)
  BY <1>1, <1>2, <1>5 DEF Numbered, Below
<1>7. NotHandledYet /\ Emptied
  BY <1>2 DEF NotHandledYet, Emptied, FailedLast
<1>8. Arrived
  BY <1>1, <1>3, BeforeParts DEF Arrived
<1>9. \A c \in Conn : Held(c) /\ Lane(c)
  BY <1>1, <1>3, <1>4, BeforeParts DEF Held, Lane
<1> QED BY <1>2, <1>6, <1>7, <1>8, <1>9, TrailParts

LEMMA DomainOfEffects == IInv => DOMAIN effects \subseteq Nat
<1> SUFFICES ASSUME IInv PROVE DOMAIN effects \subseteq Nat
  OBVIOUS
<1>1. effects \in Seq(Effect)
  BY DEF IInv, TypeOK, ServerTypeOK
<1>2. DOMAIN effects = 1 .. Len(effects) /\ Len(effects) \in Nat
  BY <1>1, LenProperties
<1> QED BY <1>2

LEMMA EffectIsNoAnswer ==
  ASSUME IInv
  PROVE  \A i \in DOMAIN effects :
           effects[i].cmd # "RESPONSE" /\ effects[i].num \in Nat
<1>1. effects \in Seq(Effect)
  BY DEF IInv, TypeOK, ServerTypeOK
<1>2. \A i \in DOMAIN effects : effects[i] \in Effect
  BY <1>1, ElementOfSeq, LenProperties
<1>3. "RESPONSE" \notin ClientRequest
  BY MessageTypes
<1> QED BY <1>2, <1>3 DEF Effect

(* With one client at a time, where a key can be on its way is never in    *)
(* doubt: it comes back on one way only, behind the keys before it.        *)
THEOREM KeyTrailHolds == Spec /\ [](nClients <= 1) => []KeyTrailInv
<1>1. IInv /\ nClients <= 1 => nClients <= 2
  BY DEF IInv, TypeOK, ServerTypeOK
<1>2. Spec /\ [](nClients <= 1) => LateRemovals
  BY <1>1, TwoAtATime, Invariance, PTL
<1>3. Spec /\ [](nClients <= 1) => []TableInv /\ []KeyPlaceInv
  BY <1>2, TableInvariance, KeyPlaceInvariance, PTL
<1>4. /\ IInv /\ TableInv /\ StreamInv /\ KeyPlaceInv /\ KeyTrailInv
      /\ nClients <= 1 /\ (nClients <= 1)' /\ [Next]_vars
      => KeyTrailInv'
  BY TrailStep
<1> QED
  BY <1>3, <1>4, InitTrail, Invariance, StreamInvariance, PTL DEF Spec

(* With one client at a time, a key reaches the child at most once, and    *)
(* not at all if a filter has consumed it.  (Two clients that both leave a *)
(* key unhandled both send it back.)                                       *)
THEOREM KeyOnceHolds == Spec /\ [](nClients <= 1) => []KeyOnce
<1>1. IInv /\ KeyTrailInv => KeyOnce
  <2> SUFFICES ASSUME IInv, KeyTrailInv, NEW k \in 1 .. KeysTyped
               PROVE  Cardinality(KeyEffect(k)) + Cardinality(consumed \cap {k}) <= 1
    BY DEF KeyOnce
  <2>1. \A i \in KeyEffect(k) : k \in KeyOf(effects[i]) /\ k \in KeysIn(effects)
    BY EffectIsNoAnswer DEF KeyEffect, KeyOf, KeysIn
  <2>2. \A i, j \in KeyEffect(k) : i = j
    <3>1. \A i, j \in KeyEffect(k) : ~(i < j)
      BY <2>1 DEF KeyEffect, KeyTrailInv, InOrder, Before
    <3>2. KeyEffect(k) \subseteq Nat
      BY DomainOfEffects DEF KeyEffect
    <3> QED BY <3>1, <3>2
  <2>3. KeyEffect(k) = {} \/ \E i : KeyEffect(k) = {i}
    BY <2>2
  <2>4. consumed \cap {k} = {} \/ (KeyEffect(k) = {} /\ consumed \cap {k} = {k})
    <3>1. KeyEffect(k) # {} => k \in KeysIn(effects)
      BY <2>1
    <3>2. k \in KeysIn(effects) => k \notin consumed
      BY DEF KeyTrailInv
    <3>3. CASE k \in consumed
      <4>1. consumed \cap {k} = {k}
        BY <3>3
      <4> QED BY <3>1, <3>2, <3>3, <4>1
    <3>4. CASE k \notin consumed
      <4>1. consumed \cap {k} = {}
        BY <3>4
      <4> QED BY <4>1
    <3> QED BY <3>3, <3>4
  <2>5. Cardinality({}) = 0 /\ Cardinality({k}) = 1
    BY FS_EmptySet, FS_Singleton
  <2>6. KeyEffect(k) = {} \/ Cardinality(KeyEffect(k)) = 1
    BY <2>3, FS_Singleton
  <2> QED BY <2>4, <2>5, <2>6
<1> QED BY <1>1, Invariance, KeyTrailHolds, PTL

(* With one client at a time, and unless SIGPIPE is ignored, keys reach    *)
(* the child in the order they are typed, whoever writes them to it.       *)
THEOREM KeysInOrderHolds ==
  ASSUME ~SigPipeIgnored
  PROVE  Spec /\ [](nClients <= 1) => []KeysInOrder
<1>1. IInv /\ KeyTrailInv => KeysInOrder
  <2> SUFFICES ASSUME IInv, KeyTrailInv, NEW i \in DOMAIN effects,
                      NEW j \in DOMAIN effects, i < j,
                      effects[i].of = "KEY_EVENT", effects[j].of = "KEY_EVENT"
               PROVE  effects[i].num <= effects[j].num
    BY DEF KeysInOrder
  <2>1. effects[i].num \in KeyOf(effects[i]) /\ effects[j].num \in KeyOf(effects[j])
    BY EffectIsNoAnswer DEF KeyOf
  <2>2. effects[i].num < effects[j].num
    BY <2>1 DEF KeyTrailInv, InOrder, Before
  <2>3. effects[i].num \in Nat /\ effects[j].num \in Nat
    BY EffectIsNoAnswer
  <2> QED BY <2>2, <2>3
<1> QED BY <1>1, Invariance, KeyTrailHolds, PTL
=============================================================================
