-------------------------- MODULE FepGClientProofs --------------------------
(* Proofs about FepGClient, for any handlers that a program connects and   *)
(* any number of cells: the answer of a handler that takes a key counts,   *)
(* _fep_list_append never follows a pointer to a freed cell, no cell leaks *)
(* and the whole is a client of fep as FepClient describes one.            *)
EXTENDS FepGClient, FiniteSetTheorems, SequenceTheorems, TLAPS

(* A handler has said that it has handled the key of this dispatch: then   *)
(* the emission is over, and event_filter is going to return TRUE.         *)
Accepted(k) ==
  /\ pc \in {"filter-event", "filter-key-event"} /\ todo = <<>> /\ retval
  /\ request.cmd = "KEY_EVENT" /\ request.num = k

(* The inductive invariant. *)
HInv ==
  /\ \A k \in handled : k \in consumed \/ Accepted(k)
  /\ pc = "filter-key-event" => request.cmd = "KEY_EVENT"

LEMMA InitHInv == Init => HInv
BY DEF Init, HInv

(* What does not run a closure and does not end a dispatch leaves it as it *)
(* is.                                                                     *)
LEMMA OthersKeep ==
  ASSUME HInv, UNCHANGED <<pc, todo, retval, request, handled, consumed>>
  PROVE  HInv'
BY DEF HInv, Accepted

LEMMA DispatchKeeps ==
  ASSUME HInv, Dispatch
  PROVE  HInv'
<1>1. pc = "idle" /\ pc' = "filter-event" /\ handled' = handled /\ consumed' = consumed
  BY DEF Dispatch, Emit
<1> QED BY <1>1 DEF HInv, Accepted

LEMMA ClosureKeeps ==
  ASSUME HInv, NEW r \in BOOLEAN, ClosureReturns(r)
  PROVE  HInv'
<1>1. /\ todo # <<>> /\ pc' = pc /\ request' = request /\ consumed' = consumed
  BY DEF ClosureReturns
<1>2. \A k \in handled : k \in consumed
  BY <1>1 DEF HInv, Accepted
<1>3. CASE request.cmd = "KEY_EVENT" /\ r
  <2>1. handled' = handled \cup {request.num}
    BY <1>3 DEF ClosureReturns
  <2>2. pc \in {"filter-event", "filter-key-event"}
    BY <1>3 DEF ClosureReturns, Signal
  <2>3. retval' = TRUE /\ todo' = <<>>
    BY <1>3, <2>2 DEF ClosureReturns, Accumulate
  <2> QED BY <1>1, <1>2, <1>3, <2>1, <2>2, <2>3 DEF HInv, Accepted
<1>4. CASE ~(request.cmd = "KEY_EVENT" /\ r)
  <2>1. handled' = handled
    BY <1>4 DEF ClosureReturns
  <2> QED BY <1>1, <1>2, <2>1 DEF HInv, Accepted
<1> QED BY <1>3, <1>4

LEMMA SecondSignalKeeps ==
  ASSUME HInv, SecondSignal
  PROVE  HInv'
<1>1. /\ pc = "filter-event" /\ request' = request
      /\ handled' = handled /\ consumed' = consumed
  BY DEF SecondSignal
<1>2. pc' = IF request.cmd = "KEY_EVENT" THEN "filter-key-event" ELSE "resized"
  BY DEF SecondSignal, Emit
<1>3. \A k \in handled : k \in consumed
  BY DEF SecondSignal, HInv, Accepted
<1> QED BY <1>1, <1>2, <1>3 DEF HInv

LEMMA FilterReturnKeeps ==
  ASSUME HInv, FilterReturn
  PROVE  HInv'
<1>1. /\ pc' \in {"idle", "flush"} /\ handled' = handled
      /\ consumed' = IF request.cmd = "KEY_EVENT" /\ retval
                       THEN consumed \cup {request.num} ELSE consumed
  BY DEF FilterReturn
<1>2. \A k \in handled : k \in consumed'
  BY <1>1 DEF HInv, Accepted
<1> QED BY <1>1, <1>2 DEF HInv, Accepted

LEMMA FlushKeeps ==
  ASSUME HInv, Flush
  PROVE  HInv'
<1>1. /\ pc = "flush" /\ pc' \in {"idle", "flush"}
      /\ handled' = handled /\ consumed' = consumed
  BY DEF Flush
<1> QED BY <1>1 DEF HInv, Accepted

LEMMA NextHInv == HInv /\ [Next]_gclientVars => HInv'
<1> SUFFICES ASSUME HInv, [Next]_gclientVars PROVE HInv'
  OBVIOUS
<1>1. CASE UNCHANGED gclientVars
  BY <1>1, OthersKeep DEF gclientVars, clientVars
<1>2. CASE fep_g_client_new \/ fep_g_client_finalize \/ Die \/ Fep
  BY <1>2, OthersKeep DEF fep_g_client_new, fep_g_client_finalize, Die, Fep, clientVars
<1>3. ASSUME NEW cmd \in ApiCommand, Call(cmd) PROVE HInv'
  BY <1>3, OthersKeep DEF Call
<1> QED BY <1>1, <1>2, <1>3, DispatchKeeps, ClosureKeeps, SecondSignalKeeps,
           FilterReturnKeeps, FlushKeeps DEF Next

(* Whatever closures GLib runs for the signals, in whatever order, and     *)
(* whatever the handlers and fep do in between: a key that a handler has   *)
(* handled is not sent back.                                               *)
THEOREM HandledStays == Spec => []HandledConsumed
<1>1. HInv => HandledConsumed
  BY DEF HInv, Accepted, HandledConsumed, Signal
<1> QED BY InitHInv, NextHInv, <1>1, PTL DEF Spec

-----------------------------------------------------------------------------
(* Nothing is queued when a dispatch begins, and from there to its         *)
(* RESPONSE the end of the queue is known.                                 *)
LInv ==
  /\ AppendSafe
  /\ pc \in Signal /\ head # NULL => head \in DOMAIN heap
  /\ pc = "idle" => head = NULL

LEMMA InitLInv == Init => LInv
BY DEF Init, LInv, AppendSafe, Signal

LEMMA OthersKeepList ==
  ASSUME LInv, UNCHANGED <<heap, head>>, pc' \in Signal => pc \in Signal,
         pc' = "idle" => pc = "idle"
  PROVE  LInv'
BY DEF LInv, AppendSafe, Last

(* _fep_list_append, on a list whose end is known: the new cell is the     *)
(* end, and it is known.                                                   *)
LEMMA AppendKeepsEnd ==
  ASSUME NEW m, Queue(m),
         head # NULL => /\ head \in DOMAIN heap
                        /\ Last(heap, head) \in DOMAIN heap
  PROVE  /\ head' # NULL /\ head' \in DOMAIN heap'
         /\ Last(heap', head') \in DOMAIN heap'
         /\ heap'[Last(heap', head')].next = NULL
<1>1. PICK cell \in Cell \ DOMAIN heap :
        /\ heap' = ListAppend(heap, head, cell, m)
        /\ head' = IF head = NULL THEN cell ELSE head
  BY DEF Queue
<1>2. cell # NULL /\ cell \notin DOMAIN heap
  BY CellAssumption
<1> DEFINE last == IF head = NULL THEN NULL ELSE Last(heap, head)
<1>3. /\ DOMAIN heap' = DOMAIN heap \cup {cell}
      /\ heap'[cell] = New(m, last)
  BY <1>1 DEF ListAppend
<1>4. heap'[cell].next = NULL /\ heap'[cell].prev = last
  BY <1>3 DEF New
<1>5. CASE head = NULL
  <2>1. head' = cell /\ heap'[cell].prev = NULL
    BY <1>1, <1>4, <1>5
  <2>2. Last(heap', head') = cell
    BY <2>1 DEF Last
  <2> QED BY <1>2, <1>3, <1>4, <2>1, <2>2
<1>6. CASE head # NULL
  <2>1. head' = head /\ head \in DOMAIN heap /\ head # cell
    BY <1>1, <1>2, <1>6
  <2>2. heap'[head].prev = cell
    BY <1>1, <2>1 DEF ListAppend
  <2>3. Last(heap', head') = cell
    BY <1>2, <2>1, <2>2 DEF Last
  <2> QED BY <1>3, <1>4, <1>6, <2>1, <2>3
<1> QED BY <1>5, <1>6

LEMMA CallKeepsList ==
  ASSUME LInv, NEW cmd \in ApiCommand, Call(cmd)
  PROVE  LInv'
<1> DEFINE m == Request(cmd, calls + 1)
<1>1. pc' = pc
  BY DEF Call
<1>2. CASE UNCHANGED <<heap, head>>
  BY <1>1, <1>2, OthersKeepList
<1>3. CASE pc \in Signal /\ Queue(m)
  <2>1. pc # "idle"
    BY <1>3 DEF Signal
  <2>2. /\ head' # NULL /\ head' \in DOMAIN heap'
        /\ Last(heap', head') \in DOMAIN heap'
        /\ heap'[Last(heap', head')].next = NULL
    BY <1>3, AppendKeepsEnd DEF LInv, AppendSafe
  <2> QED BY <1>1, <2>1, <2>2 DEF LInv, AppendSafe
<1> QED BY <1>2, <1>3 DEF Call

LEMMA NextLInv == LInv /\ [Next]_gclientVars => LInv'
<1> SUFFICES ASSUME LInv, [Next]_gclientVars PROVE LInv'
  OBVIOUS
<1>1. CASE UNCHANGED gclientVars
  BY <1>1, OthersKeepList DEF gclientVars, clientVars
<1>2. CASE fep_g_client_new \/ fep_g_client_finalize \/ Die \/ Fep
  BY <1>2, OthersKeepList
  DEF fep_g_client_new, fep_g_client_finalize, Die, Fep, clientVars
<1>3. CASE Dispatch
  <2>1. head' = NULL /\ pc' = "filter-event"
    BY <1>3 DEF Dispatch, Emit, LInv
  <2> QED BY <2>1 DEF LInv, AppendSafe
<1>4. ASSUME NEW r \in BOOLEAN, ClosureReturns(r) PROVE LInv'
  BY <1>4, OthersKeepList DEF ClosureReturns
<1>5. CASE SecondSignal
  <2>1. pc \in Signal /\ pc' \in Signal /\ pc' # "idle"
    BY <1>5 DEF SecondSignal, Emit, Signal
  <2> QED BY <1>5, <2>1, OthersKeepList DEF SecondSignal
<1>6. CASE FilterReturn
  <2>1. pc' = (IF head' = NULL THEN "idle" ELSE "flush") /\ pc' \notin Signal
    BY <1>6 DEF FilterReturn, Signal
  <2> QED BY <2>1 DEF LInv, AppendSafe
<1>7. CASE Flush
  <2>1. pc' = (IF head' = NULL THEN "idle" ELSE "flush") /\ pc' \notin Signal
    BY <1>7 DEF Flush, Signal
  <2> QED BY <2>1 DEF LInv, AppendSafe
<1> QED BY <1>1, <1>2, <1>3, <1>4, <1>5, <1>6, <1>7, CallKeepsList DEF Next

(* Whatever the handlers ask for and whenever the client or fep dies: when *)
(* a message is queued, the last cell of the queue is found and is         *)
(* allocated.                                                              *)
THEOREM EndOfQueueKnown == Spec => []AppendSafe
<1>1. LInv => AppendSafe
  BY DEF LInv
<1> QED BY InitLInv, NextLInv, <1>1, PTL DEF Spec

-----------------------------------------------------------------------------
(* Lists as chains of cells. *)

LEMMA LeastOf ==
  ASSUME NEW T \in SUBSET Nat, T # {}
  PROVE  \E m \in T : \A k \in T : m <= k
<1>1. PICK m \in T : \A y \in T : ~(<<y, m>> \in OpToRel(<, Nat))
  BY NatLessThanWellFounded, WFMin
<1>2. \A y \in T : ~(y < m)
  BY <1>1 DEF OpToRel
<1> QED BY <1>2

(* There are as many cells allocated as the list is long. *)
LEMMA ChainLength ==
  ASSUME NEW h, NEW hd, NEW s \in Seq(Cell), Chain(h, hd, s)
  PROVE  /\ Len(s) \in Nat /\ Cardinality(Cell) \in Nat
         /\ Len(s) <= Cardinality(Cell)
         /\ DOMAIN s = 1 .. Len(s)
         /\ Cardinality(DOMAIN h) = Len(s)
<1>1. /\ Len(s) \in Nat /\ DOMAIN s = 1 .. Len(s)
      /\ \A i \in DOMAIN s : s[i] \in Cell
  BY LenProperties, ElementOfSeq
<1> DEFINE D == DOMAIN h
           n == Len(s)
           f == [i \in 1 .. n |-> s[i]]
<1>2. D = {s[i] : i \in 1 .. n} /\ D \subseteq Cell
      /\ \A i, j \in 1 .. n : s[i] = s[j] => i = j
  BY <1>1 DEF Chain
<1>3. f \in Bijection(1 .. n, D)
  <2>1. f \in [1 .. n -> D]
    BY <1>2
  <2>2. \A i, j \in 1 .. n : f[i] = f[j] => i = j
    BY <1>2
  <2>3. \A d \in D : \E i \in 1 .. n : f[i] = d
    BY <1>2
  <2> HIDE DEF f, D
  <2> QED BY <2>1, <2>2, <2>3 DEF Bijection, Injection, Surjection, IsInjective
<1>4. ExistsBijection(1 .. n, D)
  BY <1>3 DEF ExistsBijection
<1> HIDE DEF D, n, f
<1>5. Cardinality(D) = n
  BY <1>1, <1>4, FS_CountingElements DEF n
<1>6. Cardinality(Cell) \in Nat /\ Cardinality(D) <= Cardinality(Cell)
  BY <1>2, CellAssumption, FS_CardinalityType, FS_Subset
<1> QED BY <1>1, <1>5, <1>6 DEF n, D

(* Following next goes through the cells of the chain. *)
LEMMA WalkAlong ==
  ASSUME NEW h, NEW hd, NEW s \in Seq(Cell), Chain(h, hd, s)
  PROVE  \A n \in 0 .. Cardinality(Cell) :
           Walk(h, hd)[n] = IF n < Len(s) THEN s[n + 1] ELSE NULL
<1> DEFINE N == Cardinality(Cell)
           L == Len(s)
           At(n) == IF n < L THEN s[n + 1] ELSE NULL
           Step(f) == [n \in 0 .. N |->
                         IF n = 0 THEN hd
                         ELSE IF f[n - 1] \notin DOMAIN h THEN NULL
                         ELSE h[f[n - 1]].next]
           F == [n \in 0 .. N |-> At(n)]
<1>1. L \in Nat /\ N \in Nat /\ L <= N /\ DOMAIN s = 1 .. L
  BY ChainLength
<1>2. /\ DOMAIN h = {s[i] : i \in 1 .. L}
      /\ hd = IF s = <<>> THEN NULL ELSE s[1]
      /\ \A i \in 1 .. L : h[s[i]].next = IF i = L THEN NULL ELSE s[i + 1]
      /\ NULL \notin DOMAIN h
  BY <1>1, CellAssumption DEF Chain
<1>3. s = <<>> <=> L = 0
  BY EmptySeq
<1>4. Walk(h, hd) = CHOOSE f : f = Step(f)
  BY Zenon DEF Walk
<1> HIDE DEF N, L
<1>5. At(0) = hd
  <2>1. CASE L = 0
    <3>1. ~(0 < L)
      BY SMT, <2>1
    <3> QED BY Zenon, <1>2, <1>3, <2>1, <3>1
  <2>2. CASE L # 0
    <3>1. 0 < L /\ 0 + 1 = 1
      BY SMT, <1>1, <2>2
    <3> QED BY Zenon, <1>2, <1>3, <2>2, <3>1
  <2> QED BY <2>1, <2>2
<1>6. ASSUME NEW n \in 0 .. N, n # 0
      PROVE  At(n) = IF At(n - 1) \notin DOMAIN h THEN NULL ELSE h[At(n - 1)].next
  <2>1. CASE n - 1 < L
    <3>1. /\ (n - 1) + 1 = n /\ n \in 1 .. L
          /\ n = L => ~(n < L)
          /\ n # L => n < L
      BY SMT, <1>1, <1>6, <2>1
    <3>2. At(n - 1) = s[n]
      BY Zenon, <2>1, <3>1
    <3>3. s[n] \in DOMAIN h /\ h[s[n]].next = IF n = L THEN NULL ELSE s[n + 1]
      BY Zenon, <1>2, <3>1
    <3> QED BY Zenon, <3>1, <3>2, <3>3
  <2>2. CASE ~(n - 1 < L)
    <3>1. ~(n < L)
      BY SMT, <1>1, <1>6, <2>2
    <3> QED BY Zenon, <1>2, <2>2, <3>1
  <2> QED BY <2>1, <2>2
<1> HIDE DEF At
<1>7. F = Step(F)
  <2>1. \A n \in 0 .. N : n # 0 => n - 1 \in 0 .. N
    BY SMT, <1>1
  <2>2. \A n \in 0 .. N : At(n) = IF n = 0 THEN hd
                                  ELSE IF F[n - 1] \notin DOMAIN h THEN NULL
                                  ELSE h[F[n - 1]].next
    BY Zenon, <1>5, <1>6, <2>1
  <2> HIDE DEF F
  <2>3. Step(F) = [n \in 0 .. N |-> At(n)]
    BY Zenon, <2>2
  <2> QED BY <2>3 DEF F
<1>8. PICK C : C = Walk(h, hd)
  OBVIOUS
<1>9. C = Step(C)
  <2>1. \E f : f = Step(f)
    BY <1>7
  <2> HIDE DEF Step
  <2> QED BY Zenon, <1>4, <1>8, <2>1
<1>10. \A n \in 0 .. N : C[n] = IF n = 0 THEN hd
                               ELSE IF C[n - 1] \notin DOMAIN h THEN NULL
                               ELSE h[C[n - 1]].next
  BY Zenon, <1>9
<1> DEFINE T == {n \in 0 .. N : C[n] # At(n)}
<1>11. ASSUME T # {} PROVE FALSE
  <2>1. T \in SUBSET Nat
    BY SMT, <1>1
  <2>2. PICK m \in T : \A k \in T : m <= k
    BY <1>11, <2>1, LeastOf
  <2>3. m \in 0 .. N /\ C[m] # At(m)
    BY Zenon, <2>2
  <2>4. m # 0
    BY Zenon, <1>5, <1>10, <2>3
  <2>5. m - 1 \in 0 .. N /\ ~(m <= m - 1)
    BY SMT, <1>1, <2>3, <2>4
  <2>6. C[m - 1] = At(m - 1)
    BY Zenon, <2>2, <2>5
  <2> QED BY Zenon, <1>6, <1>10, <2>3, <2>4, <2>6
<1>12. \A n \in 0 .. N : C[n] = At(n)
  BY Zenon, <1>11
<1> QED BY Zenon, <1>8, <1>12 DEF At, N, L

(* The chain is the list: what can be reached, in its order. *)
LEMMA ChainIsList ==
  ASSUME NEW h, NEW hd, NEW s \in Seq(Cell), Chain(h, hd, s)
  PROVE  /\ Owned(h, hd)
         /\ Cells(h, hd) = s
         /\ Elements(h, hd) = [i \in 1 .. Len(s) |-> h[s[i]].data]
<1> DEFINE N == Cardinality(Cell)
           L == Len(s)
           W == Walk(h, hd)
<1>1. /\ L \in Nat /\ N \in Nat /\ L <= N /\ DOMAIN s = 1 .. L
      /\ Cardinality(DOMAIN h) = L
  BY ChainLength
<1>2. \A n \in 0 .. N : W[n] = IF n < L THEN s[n + 1] ELSE NULL
  BY WalkAlong
<1>3. DOMAIN h = {s[i] : i \in 1 .. L} /\ NULL \notin DOMAIN h
  BY <1>1, CellAssumption DEF Chain
<1>4. Reachable(h, hd) = {W[n] : n \in 0 .. N} \ {NULL}
  BY Zenon DEF Reachable
<1> HIDE DEF N, L, W
<1>5. \A n \in 0 .. N : W[n] # NULL => W[n] \in DOMAIN h
  <2> SUFFICES ASSUME NEW n \in 0 .. N, W[n] # NULL PROVE W[n] \in DOMAIN h
    OBVIOUS
  <2>1. n < L /\ W[n] = s[n + 1]
    BY Zenon, <1>2
  <2>2. n + 1 \in 1 .. L
    BY SMT, <1>1, <2>1
  <2> QED BY Zenon, <1>3, <2>1, <2>2
<1>6. \A i \in 1 .. L : i - 1 \in 0 .. N /\ W[i - 1] = s[i]
  <2>1. \A i \in 1 .. L : i - 1 \in 0 .. N /\ i - 1 < L /\ (i - 1) + 1 = i
    BY SMT, <1>1
  <2> QED BY Zenon, <1>2, <2>1
<1>7. Reachable(h, hd) = DOMAIN h
  <2>1. Reachable(h, hd) \subseteq DOMAIN h
    BY Zenon, <1>4, <1>5
  <2>2. DOMAIN h \subseteq Reachable(h, hd)
    BY Zenon, <1>3, <1>4, <1>6
  <2> QED BY <2>1, <2>2
<1>8. Cells(h, hd) = s
  <2>1. Cells(h, hd) = [i \in 1 .. L |-> W[i - 1]]
    BY Zenon, <1>1, <1>7 DEF Cells, W
  <2>2. [i \in 1 .. L |-> W[i - 1]] = [i \in 1 .. L |-> s[i]]
    BY Zenon, <1>6
  <2>3. s = [i \in 1 .. L |-> s[i]]
    BY <1>1
  <2> QED BY Zenon, <2>1, <2>2, <2>3
<1>9. Elements(h, hd) = [i \in 1 .. L |-> h[s[i]].data]
  BY Zenon, <1>1, <1>8 DEF Elements
<1> QED BY Zenon, <1>7, <1>8, <1>9 DEF Owned, L

(* What a chain says, for the indices in 1 .. Len(s). *)
Links(h, hd, s) ==
  /\ Len(s) \in Nat /\ DOMAIN s = 1 .. Len(s) /\ (s = <<>> <=> Len(s) = 0)
  /\ DOMAIN h = {s[i] : i \in 1 .. Len(s)} /\ DOMAIN h \subseteq Cell
  /\ NULL \notin DOMAIN h
  /\ \A i \in 1 .. Len(s) : s[i] \in DOMAIN h
  /\ \A i, j \in 1 .. Len(s) : s[i] = s[j] => i = j
  /\ hd = IF s = <<>> THEN NULL ELSE s[1]
  /\ hd = NULL <=> s = <<>>
  /\ \A i \in 1 .. Len(s) : h[s[i]].next = IF i = Len(s) THEN NULL ELSE s[i + 1]

LEMMA ChainFacts ==
  ASSUME NEW h, NEW hd, NEW s \in Seq(Cell), Chain(h, hd, s)
  PROVE  Links(h, hd, s)
<1>1. Len(s) \in Nat /\ DOMAIN s = 1 .. Len(s) /\ (s = <<>> <=> Len(s) = 0)
  BY EmptySeq, LenProperties
<1>2. /\ DOMAIN h = {s[i] : i \in 1 .. Len(s)} /\ DOMAIN h \subseteq Cell
      /\ \A i, j \in 1 .. Len(s) : s[i] = s[j] => i = j
      /\ hd = IF s = <<>> THEN NULL ELSE s[1]
      /\ \A i \in 1 .. Len(s) : h[s[i]].next = IF i = Len(s) THEN NULL ELSE s[i + 1]
  BY Zenon, <1>1 DEF Chain
<1>3. NULL \notin DOMAIN h
  BY <1>2, CellAssumption
<1>4. \A i \in 1 .. Len(s) : s[i] \in DOMAIN h
  BY Zenon, <1>2
<1>5. s # <<>> => 1 \in 1 .. Len(s)
  BY SMT, <1>1
<1>6. hd = NULL <=> s = <<>>
  BY Zenon, <1>2, <1>3, <1>4, <1>5
<1> QED BY Zenon, <1>1, <1>2, <1>3, <1>4, <1>6 DEF Links

Contents(h, s) == [i \in 1 .. Len(s) |-> h[s[i]].data]

(* _fep_list_append, when the end of the list is known: the new cell is    *)
(* the last one and it is known, and nothing else moves.                   *)
LEMMA AppendChain ==
  ASSUME NEW h, NEW hd, NEW s \in Seq(Cell), Chain(h, hd, s),
         NEW cell \in Cell \ DOMAIN h, NEW m,
         s # <<>> => Last(h, hd) = s[Len(s)],
         NEW h2, h2 = ListAppend(h, hd, cell, m),
         NEW hd2, hd2 = IF hd = NULL THEN cell ELSE hd
  PROVE  /\ Append(s, cell) \in Seq(Cell)
         /\ Chain(h2, hd2, Append(s, cell))
         /\ Last(h2, hd2) = cell
         /\ Contents(h2, Append(s, cell)) = Append(Contents(h, s), m)
<1> DEFINE L == Len(s)
           last == IF hd = NULL THEN NULL ELSE Last(h, hd)
           D == DOMAIN h
<1>1. /\ L \in Nat /\ DOMAIN s = 1 .. L /\ (s = <<>> <=> L = 0)
      /\ D = {s[i] : i \in 1 .. L} /\ D \subseteq Cell /\ NULL \notin D
      /\ \A i \in 1 .. L : s[i] \in D
      /\ \A i, j \in 1 .. L : s[i] = s[j] => i = j
      /\ hd = IF s = <<>> THEN NULL ELSE s[1]
      /\ hd = NULL <=> s = <<>>
      /\ \A i \in 1 .. L : h[s[i]].next = IF i = L THEN NULL ELSE s[i + 1]
  <2>1. Links(h, hd, s)
    BY Zenon, ChainFacts
  <2> QED BY Zenon, <2>1 DEF Links
<1>2. PICK z : z = Append(s, cell)
  OBVIOUS
<1>3. /\ z \in Seq(Cell) /\ Len(z) = L + 1 /\ DOMAIN z = 1 .. (L + 1)
      /\ \A i \in 1 .. L : z[i] = s[i]
      /\ z[L + 1] = cell
  BY <1>2, AppendProperties, LenProperties
<1>4. cell # NULL /\ cell \notin D /\ cell \in Cell
  BY CellAssumption
<1>5. /\ DOMAIN h2 = D \cup {cell}
      /\ h2[cell] = New(m, last)
      /\ \A c \in D : h2[c] = [data |-> h[c].data,
                               prev |-> IF c = hd THEN cell ELSE h[c].prev,
                               next |-> IF c = last THEN cell ELSE h[c].next]
  BY Zenon, <1>4 DEF ListAppend
<1>6. /\ h2[cell].next = NULL /\ h2[cell].prev = last /\ h2[cell].data = m
      /\ \A c \in D : /\ h2[c].data = h[c].data
                      /\ h2[c].prev = IF c = hd THEN cell ELSE h[c].prev
                      /\ h2[c].next = IF c = last THEN cell ELSE h[c].next
  BY <1>5 DEF New
<1>7. last = IF s = <<>> THEN NULL ELSE s[L]
  BY Zenon, <1>1
<1> HIDE DEF L, last, D
<1>8. /\ \A i \in 1 .. (L + 1) : i \in 1 .. L \/ i = L + 1
      /\ \A i \in 1 .. L : i \in 1 .. (L + 1) /\ i # L + 1 /\ (i # L => i + 1 \in 1 .. L)
      /\ L + 1 \in 1 .. (L + 1) /\ L # L + 1
      /\ L # 0 => L \in 1 .. L /\ 1 \in 1 .. L
  BY SMT, <1>1
<1>9. Chain(h2, hd2, z)
  <2>1. DOMAIN h2 = {z[i] : i \in 1 .. (L + 1)}
    <3>1. {z[i] : i \in 1 .. (L + 1)} \subseteq D \cup {cell}
      <4>1. \A i \in 1 .. (L + 1) : z[i] \in D \cup {cell}
        BY Zenon, <1>1, <1>3, <1>8
      <4> QED BY Zenon, <4>1
    <3>2. D \subseteq {z[i] : i \in 1 .. (L + 1)}
      <4> SUFFICES ASSUME NEW c \in D PROVE c \in {z[i] : i \in 1 .. (L + 1)}
        BY Zenon
      <4>1. PICK i \in 1 .. L : c = s[i]
        BY Zenon, <1>1
      <4> QED BY Zenon, <1>3, <1>8, <4>1
    <3>3. cell \in {z[i] : i \in 1 .. (L + 1)}
      BY Zenon, <1>3, <1>8
    <3> QED BY Zenon, <1>5, <3>1, <3>2, <3>3
  <2>2. DOMAIN h2 \subseteq Cell
    BY Zenon, <1>1, <1>4, <1>5
  <2>3. \A i, j \in 1 .. (L + 1) : z[i] = z[j] => i = j
    <3> SUFFICES ASSUME NEW i \in 1 .. (L + 1), NEW j \in 1 .. (L + 1), z[i] = z[j]
                 PROVE  i = j
      OBVIOUS
    <3>1. \A k \in 1 .. L : z[k] = s[k] /\ s[k] \in D /\ s[k] # cell
      BY Zenon, <1>1, <1>3, <1>4
    <3>2. CASE i \in 1 .. L /\ j \in 1 .. L
      BY Zenon, <1>1, <3>1, <3>2
    <3>3. CASE i = L + 1 \/ j = L + 1
      BY Zenon, <1>3, <1>8, <3>1, <3>3
    <3> QED BY Zenon, <1>8, <3>2, <3>3
  <2>4. hd2 = IF z = <<>> THEN NULL ELSE z[1]
    <3>1. z # <<>>
      BY SMT, <1>1, <1>3
    <3>2. CASE s = <<>>
      <4>1. L + 1 = 1
        BY SMT, <1>1, <3>2
      <4> QED BY Zenon, <1>1, <1>3, <3>1, <3>2, <4>1
    <3>3. CASE s # <<>>
      BY Zenon, <1>1, <1>3, <1>8, <3>1, <3>3
    <3> QED BY <3>2, <3>3
  <2>5. \A i \in 1 .. (L + 1) : h2[z[i]].next = IF i = L + 1 THEN NULL ELSE z[i + 1]
    <3>1. ASSUME NEW i \in 1 .. L, i # L
          PROVE  h2[z[i]].next = z[i + 1]
      <4>1. i + 1 \in 1 .. L /\ L # 0
        BY SMT, <1>1, <1>8, <3>1
      <4>2. s[i] \in D /\ s[i] # last /\ h[s[i]].next = s[i + 1]
        BY Zenon, <1>1, <1>7, <1>8, <3>1, <4>1
      <4> QED BY SMT, <1>3, <1>6, <4>1, <4>2
    <3>2. L # 0 => h2[z[L]].next = z[L + 1]
      BY SMT, <1>1, <1>3, <1>6, <1>7, <1>8
    <3>3. h2[z[L + 1]].next = NULL
      BY Zenon, <1>3, <1>6
    <3>4. \A i \in 1 .. L : L # 0
      BY SMT, <1>1
    <3> QED BY Zenon, <1>8, <3>1, <3>2, <3>3, <3>4
  <2>6. DOMAIN z = 1 .. (L + 1) /\ Len(z) = L + 1
    BY <1>3
  <2> QED BY Zenon, <2>1, <2>2, <2>3, <2>4, <2>5, <2>6 DEF Chain
<1>10. Last(h2, hd2) = cell
  <2>1. CASE s = <<>>
    BY Zenon, <1>1, <1>6, <1>7, <2>1 DEF Last
  <2>2. CASE s # <<>>
    <3>1. hd2 = hd /\ hd \in D
      BY Zenon, <1>1, <1>8, <2>2
    <3> QED BY Zenon, <1>4, <1>6, <3>1 DEF Last
  <2> QED BY <2>1, <2>2
<1>11. Contents(h2, z) = Append(Contents(h, s), m)
  <2>1. PICK e : e = [i \in 1 .. L |-> h[s[i]].data]
    OBVIOUS
  <2>2. PICK b : b = [i \in 1 .. (L + 1) |-> h2[z[i]].data]
    OBVIOUS
  <2>3. PICK R : R = {h[s[i]].data : i \in 1 .. L} \cup {m}
    OBVIOUS
  <2>4. /\ \A i \in 1 .. L : e[i] \in R /\ b[i] = e[i] /\ b[i] \in R
        /\ b[L + 1] = m /\ m \in R
    <3>1. b[L + 1] = m /\ m \in R
      BY Zenon, <1>3, <1>6, <1>8, <2>2, <2>3
    <3>2. ASSUME NEW i \in 1 .. L
          PROVE  e[i] \in R /\ b[i] = e[i] /\ b[i] \in R
      <4>1. e[i] = h[s[i]].data /\ e[i] \in R
        BY Zenon, <2>1, <2>3
      <4>2. z[i] = s[i] /\ s[i] \in D /\ i \in 1 .. (L + 1)
        BY Zenon, <1>1, <1>3, <1>8
      <4>3. b[i] = h[s[i]].data
        BY Zenon, <1>6, <2>2, <4>2
      <4> QED BY Zenon, <4>1, <4>3
    <3> QED BY Zenon, <3>1, <3>2
  <2>5. e \in [1 .. L -> R] /\ b \in [1 .. (L + 1) -> R]
    BY Zenon, <1>8, <2>1, <2>2, <2>4
  <2>6. e \in Seq(R) /\ Len(e) = L /\ b \in Seq(R) /\ Len(b) = L + 1
    <3>1. L \in Nat /\ L + 1 \in Nat
      BY SMT, <1>1
    <3>2. e \in Seq(R) /\ Len(e) = L
      BY SMT, <2>5, <3>1
    <3>3. b \in Seq(R) /\ Len(b) = L + 1
      BY SMT, <2>5, <3>1
    <3> QED BY <3>2, <3>3
  <2>7. /\ Append(e, m) \in Seq(R) /\ Len(Append(e, m)) = L + 1
        /\ \A i \in 1 .. L : Append(e, m)[i] = e[i]
        /\ Append(e, m)[L + 1] = m
    BY <2>4, <2>6, AppendProperties
  <2>8. \A i \in 1 .. Len(b) : b[i] = Append(e, m)[i]
    BY Zenon, <1>8, <2>4, <2>6, <2>7
  <2>9. b = Append(e, m)
    BY <2>6, <2>7, <2>8, SeqEqual
  <2>10. b = Contents(h2, z) /\ e = Contents(h, s)
    BY <1>3, <2>1, <2>2 DEF Contents, L
  <2> QED BY Zenon, <2>9, <2>10
<1> QED BY Zenon, <1>2, <1>3, <1>9, <1>10, <1>11

(* The first cell is taken off and freed. *)
LEMMA ReleaseChain ==
  ASSUME NEW h, NEW hd, NEW s \in Seq(Cell), Chain(h, hd, s), s # <<>>,
         NEW h2, h2 = Release(h, hd)
  PROVE  /\ Tail(s) \in Seq(Cell)
         /\ Chain(h2, h[hd].next, Tail(s))
         /\ Contents(h, s) # <<>>
         /\ Head(Contents(h, s)) = h[hd].data
         /\ Contents(h2, Tail(s)) = Tail(Contents(h, s))
<1> DEFINE L == Len(s)
           D == DOMAIN h
<1>1. /\ L \in Nat /\ DOMAIN s = 1 .. L /\ (s = <<>> <=> L = 0)
      /\ D = {s[i] : i \in 1 .. L} /\ D \subseteq Cell /\ NULL \notin D
      /\ \A i \in 1 .. L : s[i] \in D
      /\ \A i, j \in 1 .. L : s[i] = s[j] => i = j
      /\ hd = IF s = <<>> THEN NULL ELSE s[1]
      /\ hd = NULL <=> s = <<>>
      /\ \A i \in 1 .. L : h[s[i]].next = IF i = L THEN NULL ELSE s[i + 1]
  <2>1. Links(h, hd, s)
    BY Zenon, ChainFacts
  <2> QED BY Zenon, <2>1 DEF Links
<1>2. PICK z : z = Tail(s)
  OBVIOUS
<1>3. /\ z \in Seq(Cell) /\ Len(z) = L - 1 /\ DOMAIN z = 1 .. (L - 1)
      /\ \A i \in 1 .. (L - 1) : z[i] = s[i + 1]
  BY <1>2, HeadTailProperties, LenProperties
<1>4. hd = s[1] /\ L # 0
  BY <1>1
<1>5. DOMAIN h2 = D \ {hd} /\ \A c \in D \ {hd} : h2[c] = h[c]
  BY Zenon DEF Release
<1> HIDE DEF L, D
<1>6. /\ 1 \in 1 .. L
      /\ \A i \in 1 .. (L - 1) : i + 1 \in 1 .. L /\ i + 1 # 1 /\ (i = L - 1 <=> i + 1 = L)
                                 /\ (i # L - 1 => i + 1 \in 1 .. (L - 1))
      /\ \A i \in 1 .. L : i # 1 => i - 1 \in 1 .. (L - 1) /\ (i - 1) + 1 = i
      /\ L # 1 => 1 \in 1 .. (L - 1) /\ 1 + 1 = 2 /\ L - 1 # 0
      /\ L = 1 => L - 1 = 0
      /\ \A i, j \in 1 .. (L - 1) : i + 1 = j + 1 => i = j
  BY SMT, <1>1, <1>4
<1>7. \A i \in 1 .. (L - 1) : z[i] \in D \ {hd} /\ h2[z[i]] = h[s[i + 1]]
  <2> SUFFICES ASSUME NEW i \in 1 .. (L - 1)
               PROVE  z[i] \in D \ {hd} /\ h2[z[i]] = h[s[i + 1]]
    OBVIOUS
  <2>1. z[i] = s[i + 1] /\ s[i + 1] \in D /\ s[i + 1] # s[1]
    BY Zenon, <1>1, <1>3, <1>6
  <2>2. z[i] \in D \ {hd}
    BY Zenon, <1>4, <2>1
  <2> QED BY Zenon, <1>5, <2>1, <2>2
<1>8. Chain(h2, h[hd].next, z)
  <2>1. DOMAIN h2 = {z[i] : i \in 1 .. (L - 1)}
    <3>1. {z[i] : i \in 1 .. (L - 1)} \subseteq D \ {hd}
      BY Zenon, <1>7
    <3>2. D \ {hd} \subseteq {z[i] : i \in 1 .. (L - 1)}
      <4> SUFFICES ASSUME NEW c \in D, c # hd PROVE c \in {z[i] : i \in 1 .. (L - 1)}
        BY Zenon
      <4>1. PICK i \in 1 .. L : c = s[i]
        BY Zenon, <1>1
      <4>2. i - 1 \in 1 .. (L - 1) /\ z[i - 1] = s[i]
        BY Zenon, <1>3, <1>4, <1>6, <4>1
      <4> QED BY Zenon, <4>1, <4>2
    <3> QED BY Zenon, <1>5, <3>1, <3>2
  <2>2. DOMAIN h2 \subseteq Cell
    BY Zenon, <1>1, <1>5
  <2>3. \A i, j \in 1 .. (L - 1) : z[i] = z[j] => i = j
    <3> SUFFICES ASSUME NEW i \in 1 .. (L - 1), NEW j \in 1 .. (L - 1), z[i] = z[j]
                 PROVE  i = j
      OBVIOUS
    <3>1. s[i + 1] = s[j + 1] /\ i + 1 \in 1 .. L /\ j + 1 \in 1 .. L
      BY Zenon, <1>3, <1>6
    <3> QED BY Zenon, <1>1, <1>6, <3>1
  <2>4. z = <<>> <=> L = 1
    BY SMT, <1>1, <1>3
  <2>5. h[hd].next = IF z = <<>> THEN NULL ELSE z[1]
    <3>1. h[hd].next = IF 1 = L THEN NULL ELSE s[1 + 1]
      BY Zenon, <1>1, <1>4, <1>6
    <3>2. L # 1 => z[1] = s[1 + 1]
      BY Zenon, <1>3, <1>6
    <3> QED BY Zenon, <2>4, <3>1, <3>2
  <2>6. \A i \in 1 .. (L - 1) : h2[z[i]].next = IF i = L - 1 THEN NULL ELSE z[i + 1]
    <3> SUFFICES ASSUME NEW i \in 1 .. (L - 1)
                 PROVE  h2[z[i]].next = IF i = L - 1 THEN NULL ELSE z[i + 1]
      OBVIOUS
    <3>1. h2[z[i]].next = IF i + 1 = L THEN NULL ELSE s[(i + 1) + 1]
      BY Zenon, <1>1, <1>6, <1>7
    <3>2. i # L - 1 => z[i + 1] = s[(i + 1) + 1]
      BY Zenon, <1>3, <1>6
    <3> QED BY Zenon, <1>6, <3>1, <3>2
  <2>7. DOMAIN z = 1 .. (L - 1) /\ Len(z) = L - 1
    BY <1>3
  <2> QED BY Zenon, <2>1, <2>2, <2>3, <2>5, <2>6, <2>7 DEF Chain
<1> DEFINE e == [i \in 1 .. L |-> h[s[i]].data]
<1>9. e # <<>> /\ Head(e) = e[1] /\ Tail(e) = [i \in 1 .. (L - 1) |-> e[i + 1]]
  <2>1. L \in Nat /\ L # 0
    BY <1>1, <1>4
  <2>2. PICK R : R = {e[i] : i \in 1 .. L}
    OBVIOUS
  <2>3. e \in [1 .. L -> R]
    BY Zenon, <2>2
  <2> HIDE DEF e
  <2>4. e \in Seq(R) /\ Len(e) = L /\ e # <<>>
    BY SMT, <2>1, <2>3
  <2>5. Head(e) = e[1]
    BY SMT, <2>4
  <2>6. /\ Tail(e) \in Seq(R) /\ Len(Tail(e)) = L - 1
        /\ \A i \in 1 .. (L - 1) : Tail(e)[i] = e[i + 1]
    BY <2>4, HeadTailProperties
  <2>7. PICK x : x = Tail(e)
    OBVIOUS
  <2>8. x = [i \in 1 .. (L - 1) |-> x[i]] /\ \A i \in 1 .. (L - 1) : x[i] = e[i + 1]
    <3>1. x \in [1 .. Len(x) -> R] /\ Len(x) = L - 1
      BY <2>6, <2>7, LenProperties
    <3>2. x = [i \in 1 .. (L - 1) |-> x[i]]
      BY Zenon, <3>1
    <3> QED BY Zenon, <2>6, <2>7, <3>2
  <2>9. x = [i \in 1 .. (L - 1) |-> e[i + 1]]
    BY Zenon, <2>8
  <2> QED BY Zenon, <2>4, <2>5, <2>7, <2>9
<1>10. e[1] = h[hd].data /\ \A i \in 1 .. (L - 1) : e[i + 1] = h2[z[i]].data
  BY Zenon, <1>4, <1>6, <1>7
<1> HIDE DEF e
<1>11. Contents(h2, z) = Tail(e)
  BY Zenon, <1>3, <1>9, <1>10 DEF Contents
<1>12. e = Contents(h, s)
  BY DEF e, Contents, L
<1> QED BY Zenon, <1>2, <1>3, <1>8, <1>9, <1>10, <1>11, <1>12

-----------------------------------------------------------------------------
(* The inductive invariant: ListInv, for some sequence of cells instead of *)
(* the one that Cells finds.                                               *)
Held(s) ==
  /\ Chain(heap, head, s)
  /\ pc \in Signal /\ s # <<>> => Last(heap, head) = s[Len(s)]
  /\ pc = "idle" => s = <<>>
  /\ pc = "flush" => s # <<>>

QInv ==
  /\ \E s \in Seq(Cell) : Held(s)
  /\ heap = [c \in DOMAIN heap |-> heap[c]]
  /\ retval \in BOOLEAN /\ pc \in Signal \cup {"idle", "flush"}

LEMMA NoChain == /\ <<>> \in Seq(Cell) /\ Chain(NoCells, NULL, <<>>)
                 /\ NoCells = [c \in DOMAIN NoCells |-> NoCells[c]]
<1>1. <<>> \in Seq(Cell) /\ DOMAIN <<>> = {}
  BY EmptySeq
<1>2. DOMAIN NoCells = {} /\ NoCells = [c \in DOMAIN NoCells |-> NoCells[c]]
  BY DEF NoCells
<1>3. {(<<>>)[i] : i \in DOMAIN <<>>} = {}
  BY Zenon, <1>1
<1>4. Chain(NoCells, NULL, <<>>)
  BY Zenon, <1>1, <1>2, <1>3 DEF Chain
<1> QED BY <1>1, <1>2, <1>4

LEMMA InitQInv == Init => QInv
<1> SUFFICES ASSUME Init PROVE QInv
  OBVIOUS
<1>1. heap = NoCells /\ head = NULL /\ pc = "idle" /\ retval = FALSE
  BY DEF Init
<1>2. Held(<<>>)
  BY Zenon, <1>1, NoChain DEF Held, Signal
<1> QED BY Zenon, <1>1, <1>2, NoChain DEF QInv

(* The elements of a chain, and when there are none. *)
LEMMA ChainElements ==
  ASSUME NEW h, NEW hd, NEW s \in Seq(Cell), Chain(h, hd, s)
  PROVE  /\ Elements(h, hd) = Contents(h, s)
         /\ Contents(h, s) = <<>> <=> s = <<>>
         /\ hd = NULL <=> s = <<>>
<1>1. Elements(h, hd) = Contents(h, s)
  BY Zenon, ChainIsList DEF Contents
<1>2. Links(h, hd, s)
  BY Zenon, ChainFacts
<1>3. Len(s) \in Nat /\ (s = <<>> <=> Len(s) = 0) /\ (hd = NULL <=> s = <<>>)
  BY Zenon, <1>2 DEF Links
<1>4. Contents(h, s) = <<>> <=> Len(s) = 0
  BY SMT, <1>3 DEF Contents
<1> QED BY Zenon, <1>1, <1>3, <1>4

(* A message that is queued goes behind the others. *)
LEMMA QueueStep ==
  ASSUME QInv, pc \in Signal, NEW m, Queue(m)
  PROVE  /\ heap' = [c \in DOMAIN heap' |-> heap'[c]]
         /\ \E t \in Seq(Cell) : /\ t # <<>> /\ Chain(heap', head', t)
                                 /\ Last(heap', head') = t[Len(t)]
         /\ head' # NULL
         /\ Elements(heap', head') = Append(Elements(heap, head), m)
<1>1. PICK s \in Seq(Cell) : Held(s)
  BY Zenon DEF QInv
<1>2. Chain(heap, head, s) /\ (s # <<>> => Last(heap, head) = s[Len(s)])
  BY Zenon, <1>1 DEF Held
<1>3. PICK cell \in Cell \ DOMAIN heap :
        /\ heap' = ListAppend(heap, head, cell, m)
        /\ head' = IF head = NULL THEN cell ELSE head
  BY DEF Queue
<1>4. PICK h2, hd2 : h2 = heap' /\ hd2 = head'
  OBVIOUS
<1>5. PICK h, hd : h = heap /\ hd = head
  OBVIOUS
<1>6. /\ Append(s, cell) \in Seq(Cell)
      /\ Chain(h2, hd2, Append(s, cell))
      /\ Last(h2, hd2) = cell
      /\ Contents(h2, Append(s, cell)) = Append(Contents(h, s), m)
  <2>1. /\ Chain(h, hd, s) /\ (s # <<>> => Last(h, hd) = s[Len(s)])
        /\ cell \in Cell \ DOMAIN h /\ h2 = ListAppend(h, hd, cell, m)
        /\ hd2 = IF hd = NULL THEN cell ELSE hd
    BY Zenon, <1>2, <1>3, <1>4, <1>5
  <2> QED BY <1>1, <2>1, AppendChain
<1>7. PICK t : t = Append(s, cell)
  OBVIOUS
<1>8. t # <<>> /\ t[Len(t)] = cell
  BY <1>7, AppendProperties
<1>9. /\ Elements(h2, hd2) = Contents(h2, t) /\ hd2 # NULL
      /\ Elements(h, hd) = Contents(h, s)
  BY Zenon, <1>1, <1>2, <1>5, <1>6, <1>7, <1>8, ChainElements
<1>10. heap' = [c \in DOMAIN heap' |-> heap'[c]]
  BY Zenon, <1>3 DEF ListAppend
<1> QED BY Zenon, <1>4, <1>5, <1>6, <1>7, <1>8, <1>9, <1>10

(* The message that is sent and freed is the oldest. *)
LEMMA FlushStep ==
  ASSUME QInv, pc = "flush", head' = heap[head].next, heap' = Release(heap, head)
  PROVE  /\ heap' = [c \in DOMAIN heap' |-> heap'[c]]
         /\ \E t \in Seq(Cell) : /\ Chain(heap', head', t)
                                 /\ head' = NULL <=> t = <<>>
         /\ Elements(heap, head) # <<>>
         /\ heap[head].data = Head(Elements(heap, head))
         /\ Elements(heap', head') = Tail(Elements(heap, head))
         /\ head' = NULL <=> Elements(heap', head') = <<>>
<1>1. PICK s \in Seq(Cell) : Held(s)
  BY Zenon DEF QInv
<1>2. Chain(heap, head, s) /\ s # <<>>
  BY Zenon, <1>1 DEF Held
<1>4. PICK h2, hd2 : h2 = heap' /\ hd2 = head'
  OBVIOUS
<1>5. PICK h, hd : h = heap /\ hd = head
  OBVIOUS
<1>6. /\ Tail(s) \in Seq(Cell)
      /\ Chain(h2, h[hd].next, Tail(s))
      /\ Contents(h, s) # <<>>
      /\ Head(Contents(h, s)) = h[hd].data
      /\ Contents(h2, Tail(s)) = Tail(Contents(h, s))
  <2>1. Chain(h, hd, s) /\ s # <<>> /\ h2 = Release(h, hd)
    BY Zenon, <1>2, <1>4, <1>5
  <2> QED BY <1>1, <2>1, ReleaseChain
<1>7. PICK t : t = Tail(s)
  OBVIOUS
<1>8. Chain(h2, hd2, t)
  BY Zenon, <1>4, <1>5, <1>6, <1>7
<1>9. /\ Elements(h2, hd2) = Contents(h2, t) /\ Elements(h, hd) = Contents(h, s)
      /\ hd2 = NULL <=> t = <<>>
      /\ Contents(h2, t) = <<>> <=> t = <<>>
  BY Zenon, <1>1, <1>2, <1>5, <1>6, <1>7, <1>8, ChainElements
<1>10. heap' = [c \in DOMAIN heap' |-> heap'[c]]
  BY Zenon DEF Release
<1> QED BY Zenon, <1>4, <1>5, <1>6, <1>7, <1>8, <1>9, <1>10

LEMMA QueueUnchanged ==
  ASSUME QInv, UNCHANGED <<heap, head>>,
         retval' \in BOOLEAN, pc' \in Signal \cup {"idle", "flush"},
         \/ pc' = pc
         \/ pc \in Signal /\ pc' \in Signal
         \/ pc = "idle" /\ pc' \in Signal
         \/ pc \in Signal /\ pc' = IF head = NULL THEN "idle" ELSE "flush"
  PROVE  QInv'
<1>1. PICK s \in Seq(Cell) : Held(s)
  BY Zenon DEF QInv
<1>2. Chain(heap, head, s)
  BY Zenon, <1>1 DEF Held
<1>3. head = NULL <=> s = <<>>
  <2>1. /\ Elements(heap, head) = Contents(heap, s)
        /\ Contents(heap, s) = <<>> <=> s = <<>>
        /\ head = NULL <=> s = <<>>
    BY <1>1, <1>2, ChainElements
  <2> QED BY Zenon, <2>1
<1>4. heap' = heap /\ head' = head
  OBVIOUS
<1>5. "idle" \notin Signal /\ "flush" \notin Signal /\ "idle" # "flush"
  BY DEF Signal
<1>6. Chain(heap', head', s) /\ Last(heap', head') = Last(heap, head)
  BY Zenon, <1>2, <1>4
<1>7. /\ pc' \in Signal /\ s # <<>> => Last(heap, head) = s[Len(s)]
      /\ pc' = "idle" => s = <<>>
      /\ pc' = "flush" => s # <<>>
  BY Zenon, <1>1, <1>3, <1>5 DEF Held
<1>8. Held(s)'
  BY Zenon, <1>6, <1>7 DEF Held
<1>9. heap' = [c \in DOMAIN heap' |-> heap'[c]]
  BY Zenon, <1>4 DEF QInv
<1> QED BY Zenon, <1>8, <1>9 DEF QInv

LEMMA AfterQueue ==
  ASSUME QInv, pc \in Signal, NEW m, Queue(m),
         retval' \in BOOLEAN, pc' = pc \/ pc' = "flush"
  PROVE  QInv'
<1>1. /\ heap' = [c \in DOMAIN heap' |-> heap'[c]]
      /\ \E t \in Seq(Cell) : /\ t # <<>> /\ Chain(heap', head', t)
                              /\ Last(heap', head') = t[Len(t)]
  BY Zenon, QueueStep
<1>2. PICK t \in Seq(Cell) : /\ t # <<>> /\ Chain(heap', head', t)
                             /\ Last(heap', head') = t[Len(t)]
  BY Zenon, <1>1
<1>3. "idle" \notin Signal /\ "flush" # "idle"
  BY DEF Signal
<1>4. pc' # "idle" /\ pc' \in Signal \cup {"idle", "flush"}
  BY Zenon, <1>3
<1>5. Held(t)'
  BY Zenon, <1>2, <1>4 DEF Held
<1> QED BY Zenon, <1>1, <1>2, <1>4, <1>5 DEF QInv

LEMMA AfterFlush ==
  ASSUME QInv, Flush
  PROVE  QInv'
<1>1. /\ pc = "flush" /\ head' = heap[head].next /\ heap' = Release(heap, head)
      /\ pc' = (IF head' = NULL THEN "idle" ELSE "flush") /\ retval' = retval
  BY DEF Flush
<1>2. /\ heap' = [c \in DOMAIN heap' |-> heap'[c]]
      /\ \E t \in Seq(Cell) : /\ Chain(heap', head', t)
                              /\ head' = NULL <=> t = <<>>
  BY Zenon, <1>1, FlushStep
<1>3. PICK t \in Seq(Cell) : /\ Chain(heap', head', t)
                             /\ head' = NULL <=> t = <<>>
  BY Zenon, <1>2
<1>4. /\ pc' \notin Signal /\ pc' \in {"idle", "flush"}
      /\ pc' = "idle" <=> head' = NULL
      /\ pc' = "flush" <=> head' # NULL
  BY <1>1 DEF Signal
<1>5. Held(t)'
  BY Zenon, <1>3, <1>4 DEF Held
<1> QED BY Zenon, <1>1, <1>2, <1>3, <1>4, <1>5 DEF QInv

LEMMA NextQInv == QInv /\ [Next]_gclientVars => QInv'
<1> SUFFICES ASSUME QInv, [Next]_gclientVars PROVE QInv'
  OBVIOUS
<1>0. retval \in BOOLEAN /\ pc \in Signal \cup {"idle", "flush"}
  BY DEF QInv
<1>1. CASE UNCHANGED gclientVars
  BY <1>0, <1>1, QueueUnchanged DEF gclientVars, clientVars
<1>2. CASE fep_g_client_new \/ fep_g_client_finalize \/ Die \/ Fep
  BY <1>0, <1>2, QueueUnchanged
  DEF fep_g_client_new, fep_g_client_finalize, Die, Fep, clientVars
<1>3. ASSUME NEW cmd \in ApiCommand, Call(cmd) PROVE QInv'
  <2>1. pc' = pc /\ retval' = retval
    BY <1>3 DEF Call
  <2>2. CASE UNCHANGED <<heap, head>>
    BY <1>0, <2>1, <2>2, QueueUnchanged
  <2>3. CASE pc \in Signal /\ Queue(Request(cmd, calls + 1))
    BY <1>0, <2>1, <2>3, AfterQueue
  <2> QED BY <1>3, <2>2, <2>3 DEF Call
<1>4. CASE Dispatch
  <2>1. /\ pc = "idle" /\ pc' = "filter-event" /\ retval' = FALSE
        /\ UNCHANGED <<heap, head>>
    BY <1>4 DEF Dispatch, Emit
  <2>2. "filter-event" \in Signal
    BY DEF Signal
  <2> QED BY <1>0, <2>1, <2>2, QueueUnchanged
<1>5. ASSUME NEW r \in BOOLEAN, ClosureReturns(r) PROVE QInv'
  <2>1. pc' = pc /\ UNCHANGED <<heap, head>>
    BY <1>5 DEF ClosureReturns
  <2>2. retval' \in BOOLEAN
    BY <1>0, <1>5 DEF ClosureReturns, Accumulate
  <2> QED BY <1>0, <2>1, <2>2, QueueUnchanged
<1>6. CASE SecondSignal
  <2>1. /\ pc \in Signal /\ pc' \in Signal /\ retval' = retval
        /\ UNCHANGED <<heap, head>>
    BY <1>6 DEF SecondSignal, Emit, Signal
  <2> QED BY <1>0, <2>1, QueueUnchanged
<1>7. CASE FilterReturn
  <2>1. /\ pc \in Signal /\ retval' = retval
        /\ pc' = IF head' = NULL THEN "idle" ELSE "flush"
    BY <1>7 DEF FilterReturn
  <2>2. CASE Queue(Echo)
    <3>1. head' # NULL
      BY Zenon, <2>1, <2>2, QueueStep
    <3> QED BY Zenon, <1>0, <2>1, <2>2, <3>1, AfterQueue
  <2>3. CASE UNCHANGED <<heap, head>>
    <3>1. pc' = IF head = NULL THEN "idle" ELSE "flush"
      BY <2>1, <2>3
    <3> QED BY <1>0, <2>1, <2>3, <3>1, QueueUnchanged
  <2> QED BY <1>7, <2>2, <2>3 DEF FilterReturn
<1> QED BY <1>1, <1>2, <1>3, <1>4, <1>5, <1>6, <1>7, AfterFlush DEF Next

LEMMA QInvGives == QInv => ListInv /\ CellsOwned
<1> SUFFICES ASSUME QInv PROVE ListInv /\ CellsOwned
  OBVIOUS
<1>1. PICK s \in Seq(Cell) : Held(s)
  BY Zenon DEF QInv
<1>2. Chain(heap, head, s)
  BY Zenon, <1>1 DEF Held
<1>3. Owned(heap, head) /\ Cells(heap, head) = s
  BY <1>1, <1>2, ChainIsList
<1>4. ListInv
  BY Zenon, <1>1, <1>2, <1>3 DEF ListInv, Held, QInv
<1>5. ASSUME pc = "idle" PROVE heap = NoCells
  <2>1. s = <<>> /\ DOMAIN s = {}
    BY <1>1, <1>5, EmptySeq DEF Held
  <2>2. DOMAIN heap = {}
    BY <1>2, <2>1 DEF Chain
  <2>3. heap = [c \in {} |-> heap[c]]
    BY Zenon, <2>2 DEF QInv
  <2> QED BY <2>3 DEF NoCells
<1> QED BY <1>3, <1>4, <1>5 DEF CellsOwned

(* The shape of client->messages, for any number of messages and cells:    *)
(* next leads from each cell that is allocated to another, in one line.    *)
THEOREM ListHolds == Spec => []ListInv
<1>1. QInv => ListInv
  BY QInvGives
<1> QED BY InitQInv, NextQInv, <1>1, PTL DEF Spec

(* Whatever the handlers ask for, no cell of libfep/list.c leaks and none  *)
(* is reached after it is freed.                                           *)
THEOREM CellsStayOwned == Spec => []CellsOwned
<1>1. QInv => CellsOwned
  BY QInvGives
<1> QED BY InitQInv, NextQInv, <1>1, PTL DEF Spec

-----------------------------------------------------------------------------
(* The refinement.  There is one connection, so each variable of FepClient *)
(* is a function with one value.                                           *)
LEMMA One ==
  /\ me \in Conn /\ Conn = {me}
  /\ \A x : [c \in Conn |-> x][me] = x
  /\ \A x, y : [[c \in Conn |-> x] EXCEPT ![me] = y] = [c \in Conn |-> y]
BY MeAssumption

LEMMA CallMaps ==
  ASSUME QInv, NEW cmd \in ApiCommand, Call(cmd)
  PROVE  Client!Call(me, cmd)
<1> DEFINE m == Request(cmd, calls + 1)
<1>1. /\ cli[me] = "open" /\ calls < MaxCalls
      /\ calls' = calls + 1 /\ issued' = Append(issued, m)
      /\ UNCHANGED <<pc, request, told, consumed>>
  BY DEF Call
<1>2. Client!Request(cmd, [c \in Conn |-> calls][me] + 1) = m
  BY One DEF Client!Request, Request
<1>3. CASE pc = "idle" /\ ClientWrite(me, m) /\ UNCHANGED <<heap, head>>
  <2>1. Client!ClientWrite(me, m)
    BY <1>3 DEF ClientWrite, Client!ClientWrite
  <2> HIDE DEF m
  <2>2. pc \notin Signal
    BY <1>3 DEF Signal
  <2> QED BY <1>1, <1>2, <1>3, <2>1, <2>2, One DEF Client!Call
<1>4. CASE pc \in Signal /\ Queue(m) /\ UNCHANGED socketVars
  <2>1. Elements(heap', head') = Append(Elements(heap, head), m)
    BY Zenon, <1>4, QueueStep
  <2> HIDE DEF m
  <2> QED BY <1>1, <1>2, <1>4, <2>1, One DEF Client!Call, socketVars, Client!socketVars
<1> QED BY <1>3, <1>4 DEF Call

LEMMA DispatchMaps ==
  ASSUME QInv, Dispatch
  PROVE  Client!Dispatch(me)
<1>1. /\ cli[me] = "open" /\ pc = "idle" /\ ClientRead(me)
      /\ request' = Head(s2c[me])
      /\ told' = IF request'.cmd = "RESIZE_EVENT" THEN request'.num ELSE told
      /\ pc' = "filter-event"
      /\ UNCHANGED <<heap, head, calls, issued, consumed>>
  BY DEF Dispatch, Emit
<1>2. Client!ClientRead(me)
  BY <1>1 DEF ClientRead, Client!ClientRead
<1>3. pc' \in Signal /\ pc \notin Signal
  BY <1>1 DEF Signal
<1> QED BY <1>1, <1>2, <1>3, One DEF Client!Dispatch

LEMMA FlushMaps ==
  ASSUME QInv, Flush
  PROVE  Client!Flush(me)
<1>1. /\ cli[me] = "open" /\ pc = "flush"
      /\ ClientWrite(me, heap[head].data)
      /\ head' = heap[head].next /\ heap' = Release(heap, head)
      /\ pc' = IF head' = NULL THEN "idle" ELSE "flush"
      /\ UNCHANGED <<request, told, calls, issued, consumed>>
  BY DEF Flush
<1>2. /\ heap' = [c \in DOMAIN heap' |-> heap'[c]]
      /\ \E t \in Seq(Cell) : /\ Chain(heap', head', t)
                              /\ head' = NULL <=> t = <<>>
      /\ Elements(heap, head) # <<>>
      /\ heap[head].data = Head(Elements(heap, head))
      /\ Elements(heap', head') = Tail(Elements(heap, head))
      /\ head' = NULL <=> Elements(heap', head') = <<>>
  BY Zenon, <1>1, FlushStep
<1>3. Client!ClientWrite(me, Head(Elements(heap, head)))
  BY <1>1, <1>2 DEF ClientWrite, Client!ClientWrite
<1>4. /\ pc \notin Signal /\ pc' \notin Signal
      /\ pc' = IF Tail(Elements(heap, head)) = <<>> THEN "idle" ELSE "flush"
  BY <1>1, <1>2 DEF Signal
<1> QED BY <1>1, <1>2, <1>3, <1>4, One DEF Client!Flush

LEMMA AppendIsConcatAny ==
  ASSUME NEW R, NEW e \in Seq(R), NEW m
  PROVE  /\ Append(e, m) = e \o <<m>> /\ e \o <<>> = e
         /\ Append(e, m) \in Seq(R \cup {m})
<1>1. e \in Seq(R \cup {m}) /\ m \in R \cup {m}
  <2>1. R \subseteq R \cup {m}
    OBVIOUS
  <2> QED BY <2>1, SeqMonotonic
<1>2. Append(e, m) = e \o <<m>>
  BY <1>1, AppendIsConcat
<1>3. e \o <<>> = e
  BY ConcatEmptySeq
<1>4. Append(e, m) \in Seq(R \cup {m})
  BY <1>1, AppendProperties
<1> QED BY <1>2, <1>3, <1>4

LEMMA ElementsSeq ==
  ASSUME QInv
  PROVE  \E R : Elements(heap, head) \in Seq(R)
<1>1. PICK s \in Seq(Cell) : Held(s)
  BY Zenon DEF QInv
<1>2. Chain(heap, head, s)
  BY Zenon, <1>1 DEF Held
<1>3. Elements(heap, head) = [i \in 1 .. Len(s) |-> heap[s[i]].data]
  BY <1>1, <1>2, ChainIsList
<1>4. Len(s) \in Nat
  BY <1>1
<1>5. PICK R : R = {heap[s[i]].data : i \in 1 .. Len(s)}
  OBVIOUS
<1>6. Elements(heap, head) \in [1 .. Len(s) -> R]
  BY Zenon, <1>3, <1>5
<1>7. Elements(heap, head) \in Seq(R)
  BY SMT, <1>4, <1>6
<1> QED BY Zenon, <1>7

(* What has been asked for is a sequence. *)
SInv == \E R : issued \in Seq(R)

LEMMA SequenceKept == SInv /\ [Next]_gclientVars => SInv'
<1> SUFFICES ASSUME SInv, [Next]_gclientVars PROVE SInv'
  OBVIOUS
<1>1. ASSUME NEW m, issued' = Append(issued, m) PROVE SInv'
  <2>1. PICK R : issued \in Seq(R)
    BY DEF SInv
  <2>2. issued' \in Seq(R \cup {m})
    BY Zenon, <1>1, <2>1, AppendIsConcatAny
  <2> QED BY Zenon, <2>2 DEF SInv
<1>2. CASE UNCHANGED issued
  BY <1>2 DEF SInv
<1>3. ASSUME NEW cmd \in ApiCommand, Call(cmd) PROVE SInv'
  BY <1>1, <1>3 DEF Call
<1>4. CASE FilterReturn
  BY <1>1, <1>2, <1>4 DEF FilterReturn
<1>5. CASE \/ UNCHANGED gclientVars \/ fep_g_client_new \/ Dispatch
           \/ (\E r \in BOOLEAN : ClosureReturns(r)) \/ SecondSignal \/ Flush
           \/ fep_g_client_finalize \/ Die \/ Fep
  BY <1>2, <1>5 DEF gclientVars, clientVars, fep_g_client_new, Dispatch,
     ClosureReturns, SecondSignal, Flush, fep_g_client_finalize, Die, Fep
<1> QED BY <1>3, <1>4, <1>5 DEF Next

LEMMA FilterReturnMaps ==
  ASSUME QInv, SInv, FilterReturn
  PROVE  Client!FilterReturn(me, retval)
<1> DEFINE r == [cmd |-> "RESPONSE", of |-> request.cmd, num |-> 0]
           E == Elements(heap, head)
           E2 == Elements(heap', head')
           isEcho == request.cmd = "KEY_EVENT" /\ ~retval
           echo == IF isEcho THEN <<Echo>> ELSE <<>>
<1>1. /\ cli[me] = "open" /\ pc \in Signal /\ ClientWrite(me, r)
      /\ IF isEcho THEN Queue(Echo) /\ issued' = Append(issued, Echo)
                   ELSE UNCHANGED <<heap, head, issued>>
      /\ pc' = IF head' = NULL THEN "idle" ELSE "flush"
      /\ consumed' = IF request.cmd = "KEY_EVENT" /\ retval
                       THEN consumed \cup {request.num} ELSE consumed
      /\ UNCHANGED <<request, calls, told>>
  BY DEF FilterReturn
<1>2. pc' \notin Signal
  BY <1>1 DEF Signal
<1>3. Client!ClientWrite(me, r) /\ Client!Response(request) = r
  BY <1>1 DEF ClientWrite, Client!ClientWrite, Client!Response
<1>4. isEcho => Client!Echo(request) = Echo
  BY DEF Client!Echo, Echo
<1> HIDE DEF r, isEcho
<1>5. PICK R : E \in Seq(R)
  BY ElementsSeq
<1>6. PICK R2 : issued \in Seq(R2)
  BY DEF SInv
<1>7. PICK x : x = Echo
  OBVIOUS
<1>8. /\ Append(E, x) = E \o <<x>> /\ E \o <<>> = E
      /\ Append(issued, x) = issued \o <<x>> /\ issued \o <<>> = issued
  BY <1>5, <1>6, AppendIsConcatAny
<1>9. E2 = E \o echo /\ issued' = issued \o echo /\ (head' = NULL <=> E2 = <<>>)
  <2>1. CASE isEcho
    <3>1. /\ heap' = [c \in DOMAIN heap' |-> heap'[c]]
          /\ \E t \in Seq(Cell) : /\ t # <<>> /\ Chain(heap', head', t)
                                  /\ Last(heap', head') = t[Len(t)]
          /\ head' # NULL
          /\ Elements(heap', head') = Append(Elements(heap, head), Echo)
      BY Zenon, <1>1, <2>1, QueueStep
    <3>2. E2 = Append(E, x) /\ issued' = Append(issued, x) /\ echo = <<x>>
      BY Zenon, <1>1, <1>7, <2>1, <3>1
    <3>3. Append(E, x) # <<>>
      BY <1>5, AppendProperties
    <3> QED BY Zenon, <1>8, <3>1, <3>2, <3>3
  <2>2. CASE ~isEcho
    <3>1. E2 = E /\ issued' = issued /\ head' = head /\ echo = <<>>
      BY Zenon, <1>1, <2>2
    <3>2. PICK s \in Seq(Cell) : Held(s)
      BY Zenon DEF QInv
    <3>3. Chain(heap, head, s)
      BY Zenon, <3>2 DEF Held
    <3>4. head = NULL <=> E = <<>>
      BY <3>2, <3>3, ChainElements
    <3> QED BY Zenon, <1>8, <3>1, <3>4
  <2> QED BY <2>1, <2>2
<1>10. echo = IF request.cmd = "KEY_EVENT" /\ ~retval THEN <<Client!Echo(request)>> ELSE <<>>
  BY Zenon, <1>4 DEF isEcho
<1>11. PICK k : k = echo
  OBVIOUS
<1> HIDE DEF echo, E, E2
<1>12. pc' = IF E \o k = <<>> THEN "idle" ELSE "flush"
  BY Zenon, <1>1, <1>9, <1>11
<1> QED BY <1>1, <1>2, <1>3, <1>9, <1>10, <1>11, <1>12, One
        DEF Client!FilterReturn, E, E2

LEMMA InitMaps == Init => Client!ClientInit /\ SInv
<1> SUFFICES ASSUME Init PROVE Client!ClientInit /\ SInv
  OBVIOUS
<1>1. /\ pc = "idle" /\ heap = NoCells /\ head = NULL
      /\ request = [cmd |-> "RESPONSE", of |-> "NONE", num |-> 0]
      /\ calls = 0 /\ told = 0 /\ issued = <<>> /\ consumed = {}
  BY DEF Init
<1>2. Elements(NoCells, NULL) = <<>>
  BY NoChain, ChainElements
<1>3. Elements(heap, head) = <<>> /\ pc \notin Signal
  BY <1>1, <1>2 DEF Signal
<1>4. SInv
  BY <1>1, EmptySeq DEF SInv
<1> QED BY <1>1, <1>3, <1>4 DEF Client!ClientInit, Client!NoMessage

(* What is no step of the client, or one within a dispatch that FepClient  *)
(* does not see. *)
LEMMA NoStep ==
  ASSUME pc' = pc \/ (pc \in Signal /\ pc' \in Signal),
         UNCHANGED <<request, heap, head, calls, told, issued, consumed>>
  PROVE  UNCHANGED Client!clientVars
BY DEF Client!clientVars

LEMMA NextMaps ==
  QInv /\ SInv /\ [Next]_gclientVars => [Client!ClientNext(me)]_(Client!clientVars)
<1> SUFFICES ASSUME QInv, SInv, [Next]_gclientVars
             PROVE  Client!ClientNext(me) \/ UNCHANGED Client!clientVars
  OBVIOUS
<1>1. CASE UNCHANGED gclientVars
  BY <1>1, NoStep DEF gclientVars, clientVars
<1>2. CASE fep_g_client_new \/ fep_g_client_finalize \/ Die \/ Fep
  BY <1>2, NoStep
  DEF fep_g_client_new, fep_g_client_finalize, Die, Fep, clientVars
<1>3. ASSUME NEW cmd \in ApiCommand, Call(cmd) PROVE Client!ClientNext(me)
  BY <1>3, CallMaps DEF Client!ClientNext
<1>4. CASE Dispatch
  BY <1>4, DispatchMaps DEF Client!ClientNext, Client!Answer
<1>5. ASSUME NEW r \in BOOLEAN, ClosureReturns(r) PROVE UNCHANGED Client!clientVars
  BY <1>5, NoStep DEF ClosureReturns
<1>6. CASE SecondSignal
  <2>1. pc \in Signal /\ pc' \in Signal
    BY <1>6 DEF SecondSignal, Emit, Signal
  <2> QED BY <1>6, <2>1, NoStep DEF SecondSignal
<1>7. CASE FilterReturn
  <2>1. retval \in BOOLEAN
    BY DEF QInv
  <2> QED BY <1>7, <2>1, FilterReturnMaps DEF Client!ClientNext, Client!Answer
<1>8. CASE Flush
  BY <1>8, FlushMaps DEF Client!ClientNext, Client!Answer
<1> QED BY <1>1, <1>2, <1>3, <1>4, <1>5, <1>6, <1>7, <1>8 DEF Next

(* A program that uses the binding is a client as FepSystem has it, for    *)
(* any handlers, any number of calls and any number of cells: the linked   *)
(* list of libfep/list.c is a queue, and the second emission and the       *)
(* accumulator of event_filter are one answer of one filter.               *)
THEOREM BindingImplements == Spec => ImplementsClient
<1>1. Init => QInv /\ SInv /\ Client!ClientInit
  BY InitQInv, InitMaps
<1> QED BY <1>1, NextQInv, SequenceKept, NextMaps, PTL DEF Spec, ImplementsClient
=============================================================================
