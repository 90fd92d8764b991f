-------------------------- MODULE FepStreamProofs --------------------------
(***************************************************************************)
(* Proofs about the stream of requests of each client: what it asks for is *)
(* executed in the order it asked, nothing twice and nothing skipped.      *)
(***************************************************************************)
EXTENDS FepSystemProofs, WellFoundedInduction

(* A set of numbers that is not empty has a least element, which is what   *)
(* makes induction over the length of a sequence a matter of first order.  *)
LEMMA Least ==
  ASSUME NEW T \in SUBSET Nat, T # {}
  PROVE  \E m \in T : \A k \in T : m <= k
<1>1. PICK m \in T : \A y \in T : ~(<<y, m>> \in OpToRel(<, Nat))
  BY NatLessThanWellFounded, WFMin
<1>2. \A y \in T : ~(y < m)
  BY <1>1 DEF OpToRel
<1> QED BY <1>2

(* Induction over the natural numbers, for a set in place of a predicate.  *)
LEMMA Induct ==
  ASSUME NEW S \in SUBSET Nat, 0 \in S, \A n \in S : n + 1 \in S
  PROVE  S = Nat
<1> SUFFICES ASSUME Nat \ S # {} PROVE FALSE
  OBVIOUS
<1>1. PICK m \in Nat \ S : \A k \in Nat \ S : m <= k
  BY Least
<1>2. m # 0 /\ m - 1 \in Nat
  BY <1>1
<1>3. m - 1 \in S
  BY <1>1, <1>2
<1> QED BY <1>3

-----------------------------------------------------------------------------
(* f goes through s and picks the elements in S, up to the n-th. *)
Picks(f, s, S, n) ==
  /\ f[0] = <<>>
  /\ \A k \in 1 .. n : f[k] = IF s[k] \in S THEN Append(f[k - 1], s[k])
                                            ELSE f[k - 1]

(* There is such a function. *)
LEMMA PicksExists ==
  ASSUME NEW T, NEW s \in Seq(T), NEW S
  PROVE  \E f \in [0 .. Len(s) -> Seq(T \cap S)] : Picks(f, s, S, Len(s))
<1> DEFINE I == {n \in Nat : n <= Len(s) =>
                   \E f \in [0 .. n -> Seq(T \cap S)] : Picks(f, s, S, n)}
<1>1. Len(s) \in Nat /\ \A k \in 1 .. Len(s) : s[k] \in T
  BY LenProperties, ElementOfSeq
<1>2. 0 \in I
  <2>1. [i \in 0 .. 0 |-> <<>>] \in [0 .. 0 -> Seq(T \cap S)]
    BY EmptySeq
  <2>2. Picks([i \in 0 .. 0 |-> <<>>], s, S, 0)
    BY DEF Picks
  <2> QED BY <2>1, <2>2
<1>3. ASSUME NEW n \in I
      PROVE  n + 1 \in I
  <2> SUFFICES ASSUME n + 1 <= Len(s)
               PROVE  \E f \in [0 .. n + 1 -> Seq(T \cap S)] : Picks(f, s, S, n + 1)
    OBVIOUS
  <2>1. n \in Nat /\ n <= Len(s) /\ n + 1 \in 1 .. Len(s)
    BY <1>1
  <2>2. PICK f \in [0 .. n -> Seq(T \cap S)] : Picks(f, s, S, n)
    BY <2>1
  <2> DEFINE new == IF s[n + 1] \in S THEN Append(f[n], s[n + 1]) ELSE f[n]
             g == [i \in 0 .. n + 1 |-> IF i = n + 1 THEN new ELSE f[i]]
  <2>3. f[n] \in Seq(T \cap S)
    BY <2>1
  <2>4. new \in Seq(T \cap S)
    <3>1. CASE s[n + 1] \in S
      <4>1. s[n + 1] \in T \cap S
        BY <1>1, <2>1, <3>1
      <4> QED BY <2>3, <3>1, <4>1, AppendProperties
    <3> QED BY <2>3, <3>1
  <2>5. g \in [0 .. n + 1 -> Seq(T \cap S)]
    <3>1. \A i \in 0 .. n + 1 : i # n + 1 => i \in 0 .. n
      BY <2>1
    <3> HIDE DEF new
    <3> QED BY <2>4, <3>1
  <2>6. Picks(g, s, S, n + 1)
    <3>1. /\ g[n + 1] = new
          /\ \A i \in 0 .. n : g[i] = f[i]
      BY <2>1
    <3>2. /\ \A k \in 1 .. n : k \in 0 .. n /\ k - 1 \in 0 .. n
          /\ \A k \in 1 .. n + 1 : k \in 1 .. n \/ k = n + 1
          /\ 0 \in 0 .. n /\ n \in 0 .. n /\ (n + 1) - 1 = n
      BY <2>1
    <3> HIDE DEF g
    <3> QED BY <2>2, <3>1, <3>2 DEF Picks
  <2> QED BY <2>5, <2>6
<1> HIDE DEF I
<1>4. I = Nat
  <2>1. I \in SUBSET Nat
    BY DEF I
  <2> QED BY <1>2, <1>3, <2>1, Induct
<1> QED BY <1>1, <1>4 DEF I

(* Two of them agree as far as their sequences do. *)
LEMMA PicksUnique ==
  ASSUME NEW s, NEW t, NEW S, NEW f, NEW g, NEW m \in Nat,
         Picks(f, s, S, m), Picks(g, t, S, m),
         \A k \in 1 .. m : s[k] = t[k]
  PROVE  f[m] = g[m]
<1> DEFINE I == {n \in Nat : n <= m => f[n] = g[n]}
<1>1. 0 \in I
  BY DEF Picks
<1>2. ASSUME NEW n \in I
      PROVE  n + 1 \in I
  <2> SUFFICES ASSUME n + 1 <= m PROVE f[n + 1] = g[n + 1]
    OBVIOUS
  <2>1. n + 1 \in 1 .. m /\ (n + 1) - 1 = n /\ f[n] = g[n]
    OBVIOUS
  <2> QED BY <2>1 DEF Picks
<1>3. I = Nat
  BY <1>1, <1>2, Induct
<1> QED BY <1>3

(* Only is the last value of such a function. *)
LEMMA OnlyPicks ==
  ASSUME NEW T, NEW s \in Seq(T), NEW S
  PROVE  \E f : /\ Picks(f, s, S, Len(s))
                /\ Only(s, S) = f[Len(s)] /\ Only(s, S) \in Seq(T \cap S)
<1> DEFINE body(f) == [n \in 0 .. Len(s) |->
                         IF n = 0 THEN <<>>
                         ELSE IF s[n] \in S THEN Append(f[n - 1], s[n])
                         ELSE f[n - 1]]
           only == CHOOSE f : f = body(f)
<1>0. Len(s) \in Nat
  BY LenProperties
<1>1. PICK f \in [0 .. Len(s) -> Seq(T \cap S)] : Picks(f, s, S, Len(s))
  BY PicksExists
<1>2. f = body(f)
  <2>1. ASSUME NEW n \in 0 .. Len(s)
        PROVE  f[n] = IF n = 0 THEN <<>>
                      ELSE IF s[n] \in S THEN Append(f[n - 1], s[n])
                      ELSE f[n - 1]
    <3>1. n = 0 \/ n \in 1 .. Len(s)
      BY <1>0
    <3> QED BY <1>1, <3>1 DEF Picks
  <2> QED BY <1>1, <2>1
<1>3. only = body(only)
  BY <1>2
<1>4. Picks(only, s, S, Len(s))
  <2>1. \A n \in 0 .. Len(s) : only[n] = body(only)[n]
    BY <1>3
  <2> HIDE DEF only
  <2> QED BY <1>0, <2>1 DEF Picks
<1>5. Only(s, S) = only[Len(s)]
  BY DEF Only
<1> HIDE DEF only
<1>6. only[Len(s)] = f[Len(s)]
  BY <1>0, <1>1, <1>4, PicksUnique
<1> QED BY <1>0, <1>1, <1>5, <1>6

(* What is picked of nothing, and of one element more. *)
LEMMA OnlyAppend ==
  ASSUME NEW T, NEW s \in Seq(T), NEW e \in T, NEW S
  PROVE  /\ Only(<<>>, S) = <<>>
         /\ Only(s, S) \in Seq(T \cap S)
         /\ Only(Append(s, e), S) =
              IF e \in S THEN Append(Only(s, S), e) ELSE Only(s, S)
<1> DEFINE t == Append(s, e)
           n == Len(s)
<1>1. /\ t \in Seq(T) /\ n \in Nat /\ Len(t) = n + 1 /\ t[n + 1] = e
      /\ \A i \in 1 .. n : t[i] = s[i]
  BY AppendProperties, LenProperties
<1>2. PICK f : /\ Picks(f, s, S, n)
               /\ Only(s, S) = f[n] /\ Only(s, S) \in Seq(T \cap S)
  BY OnlyPicks
<1>3. PICK g : Picks(g, t, S, n + 1) /\ Only(t, S) = g[n + 1]
  <2> HIDE DEF t, n
  <2>1. \E g : Picks(g, t, S, Len(t)) /\ Only(t, S) = g[Len(t)]
    BY <1>1, OnlyPicks
  <2> QED BY <1>1, <2>1
<1>4. PICK h : Picks(h, <<>>, S, 0) /\ Only(<<>>, S) = h[0]
  <2>1. <<>> \in Seq(T) /\ Len(<<>>) = 0
    BY EmptySeq
  <2> QED BY <2>1, OnlyPicks
<1> HIDE DEF t, n
<1>5. Picks(g, t, S, n)
  <2>1. \A k \in 1 .. n : k \in 1 .. n + 1
    BY <1>1
  <2> QED BY <1>3, <2>1 DEF Picks
<1>6. g[n] = f[n]
  BY <1>1, <1>2, <1>5, PicksUnique
<1>7. g[n + 1] = IF e \in S THEN Append(g[n], e) ELSE g[n]
  <2>1. n + 1 \in 1 .. n + 1 /\ (n + 1) - 1 = n
    BY <1>1
  <2> QED BY <1>1, <1>3, <2>1 DEF Picks
<1>8. h[0] = <<>>
  BY <1>4 DEF Picks
<1> QED BY <1>2, <1>3, <1>4, <1>6, <1>7, <1>8 DEF t

LEMMA OnlyEither ==
  ASSUME NEW T, NEW s \in Seq(T), NEW e \in T, NEW S
  PROVE  \/ e \in S /\ Only(Append(s, e), S) = Append(Only(s, S), e)
         \/ e \notin S /\ Only(Append(s, e), S) = Only(s, S)
<1>1. CASE s # <<>>
  BY ZenonT(40), <1>1, OnlyAppend
<1>2. CASE s = <<>>
  BY <1>2, OnlyAppend
<1> QED BY <1>1, <1>2

(* A sequence is its head, and then its tail. *)
LEMMA HeadThenTail ==
  ASSUME NEW T, NEW s \in Seq(T), s # <<>>
  PROVE  /\ Head(s) \in T /\ Tail(s) \in Seq(T) /\ <<Head(s)>> \in Seq(T)
         /\ s = <<Head(s)>> \o Tail(s)
<1>1. /\ Head(s) \in T /\ Tail(s) \in Seq(T) /\ Len(Tail(s)) = Len(s) - 1
      /\ \A i \in 1 .. Len(Tail(s)) : Tail(s)[i] = s[i + 1]
      /\ Len(s) \in Nat /\ Len(s) # 0 /\ Head(s) = s[1]
  BY HeadTailProperties, LenProperties, EmptySeq
<1>2. PICK h \in Seq(T) : h = <<Head(s)>>
  <2>1. <<Head(s)>> \in Seq(T)
    BY <1>1
  <2> QED BY <2>1, Zenon
<1>3. PICK t \in Seq(T) : t = Tail(s)
  BY <1>1
<1>4. /\ Len(h) = 1 /\ h[1] = s[1] /\ Len(t) = Len(s) - 1
      /\ \A i \in 1 .. Len(t) : t[i] = s[i + 1]
  BY <1>1, <1>2, <1>3
<1>5. /\ h \o t \in Seq(T) /\ Len(h \o t) = Len(h) + Len(t)
      /\ \A i \in 1 .. Len(h) + Len(t) :
           (h \o t)[i] = IF i <= Len(h) THEN h[i] ELSE t[i - Len(h)]
  BY ConcatProperties
<1>6. \A i \in 1 .. Len(s) : (h \o t)[i] = s[i]
  <2>1. \A i \in 1 .. Len(s) :
          i = 1 \/ (i - 1 \in 1 .. Len(t) /\ (i - 1) + 1 = i /\ i > 1)
    BY <1>1, <1>4
  <2>2. Len(h) + Len(t) = Len(s)
    BY <1>1, <1>4
  <2> QED BY <1>4, <1>5, <2>1, <2>2
<1>7. s = h \o t
  <2>1. Len(h \o t) = Len(s)
    BY <1>1, <1>4, <1>5
  <2> QED BY <1>5, <1>6, <2>1, SeqEqual
<1> QED BY <1>1, <1>2, <1>3, <1>7

(* What is picked of a sequence starts with its head, if that is picked.   *)
StartsWithHead(s, S) ==
  Only(s, S) = IF Head(s) \in S THEN <<Head(s)>> \o Only(Tail(s), S)
                                ELSE Only(Tail(s), S)

LEMMA OnlyOne ==
  ASSUME NEW T, NEW x \in T, NEW S
  PROVE  StartsWithHead(Append(<<>>, x), S)
<1>1. <<>> \in Seq(T)
  BY EmptySeq
<1>2. /\ Only(Append(<<>>, x), S) = IF x \in S THEN Append(<<>>, x) ELSE <<>>
      /\ Only(<<>>, S) = <<>>
  BY <1>1, OnlyAppend
<1>3. Head(Append(<<>>, x)) = x /\ Tail(Append(<<>>, x)) = <<>>
  BY <1>1, HeadTailAppend
<1>4. Append(<<>>, x) = <<x>> /\ <<x>> \o <<>> = <<x>>
  BY ConcatEmptySeq
<1> QED BY <1>2, <1>3, <1>4 DEF StartsWithHead

LEMMA OnlyMore ==
  ASSUME NEW T, NEW u \in Seq(T), u # <<>>, NEW x \in T, NEW S,
         StartsWithHead(u, S)
  PROVE  StartsWithHead(Append(u, x), S)
<1>1. Head(u) \in T /\ Tail(u) \in Seq(T)
  BY HeadTailProperties
<1>2. PICK o \in Seq(T) : o = Only(Tail(u), S)
  <2>1. Only(Tail(u), S) \in Seq(T \cap S)
    BY <1>1, OnlyAppend
  <2> QED BY <2>1, SeqMonotonic
<1>3. PICK h \in Seq(T) : h = <<Head(u)>>
  <2>1. <<Head(u)>> \in Seq(T)
    BY <1>1
  <2> QED BY <2>1, Zenon
<1>4. h \o o \in Seq(T) /\ <<x>> \in Seq(T)
  BY ConcatProperties
<1>5. Append(h \o o, x) = h \o Append(o, x)
  <2>1. Append(h \o o, x) = (h \o o) \o <<x>>
    BY <1>4, AppendIsConcat
  <2>2. Append(o, x) = o \o <<x>>
    BY AppendIsConcat
  <2>3. (h \o o) \o <<x>> = h \o (o \o <<x>>)
    BY <1>4, ConcatAssociative
  <2> QED BY <2>1, <2>2, <2>3
<1>6. /\ Only(Append(u, x), S) =
           IF x \in S THEN Append(Only(u, S), x) ELSE Only(u, S)
      /\ Only(Append(Tail(u), x), S) = IF x \in S THEN Append(o, x) ELSE o
  <2>1. Only(Append(u, x), S) = IF x \in S THEN Append(Only(u, S), x)
                                            ELSE Only(u, S)
    BY OnlyAppend
  <2>2. Only(Append(Tail(u), x), S) = IF x \in S
                                        THEN Append(Only(Tail(u), S), x)
                                        ELSE Only(Tail(u), S)
    BY ZenonT(40), <1>1, OnlyAppend
  <2> QED BY <1>2, <2>1, <2>2
<1>7. Head(Append(u, x)) = Head(u) /\ Tail(Append(u, x)) = Append(Tail(u), x)
  BY HeadTailAppend
<1>8. Only(u, S) = IF Head(u) \in S THEN h \o o ELSE o
  BY <1>2, <1>3 DEF StartsWithHead
<1> QED BY <1>3, <1>5, <1>6, <1>7, <1>8 DEF StartsWithHead

LEMMA OnlyTail ==
  ASSUME NEW T, NEW s \in Seq(T), s # <<>>, NEW S
  PROVE  StartsWithHead(s, S)
<1>1. ASSUME NEW u \in Seq(T), u # <<>>
      PROVE  \E v \in Seq(T), x \in T :
               u = Append(v, x) /\ Len(v) \in Nat /\ Len(u) = Len(v) + 1
                 /\ (Len(v) = 0 => v = <<>>)
  <2>1. PICK v \in Seq(T), x \in T : u = Append(v, x)
    BY <1>1, SequenceEmptyOrAppend
  <2> QED BY <2>1, AppendProperties, LenProperties, EmptySeq
<1> DEFINE I == {n \in Nat : \A u \in Seq(T) :
                               Len(u) = n + 1 => StartsWithHead(u, S)}
<1>2. 0 \in I
  <2>1. ASSUME NEW u \in Seq(T), Len(u) = 1
        PROVE  StartsWithHead(u, S)
    <3>1. u # <<>>
      <4>1. Len(u) # Len(<<>>)
        BY <2>1, EmptySeq
      <4> QED BY <4>1
    <3>2. PICK v \in Seq(T), x \in T :
            u = Append(v, x) /\ Len(v) \in Nat /\ Len(u) = Len(v) + 1
              /\ (Len(v) = 0 => v = <<>>)
      BY <1>1, <3>1
    <3>3. v = <<>>
      BY <2>1, <3>2
    <3> QED BY <3>2, <3>3, OnlyOne
  <2> QED BY <2>1
<1>3. ASSUME NEW n \in I
      PROVE  n + 1 \in I
  <2>1. ASSUME NEW u \in Seq(T), Len(u) = (n + 1) + 1
        PROVE  StartsWithHead(u, S)
    <3>1. u # <<>>
      BY <2>1
    <3>2. PICK v \in Seq(T), x \in T :
            u = Append(v, x) /\ Len(v) \in Nat /\ Len(u) = Len(v) + 1
              /\ (Len(v) = 0 => v = <<>>)
      BY <1>1, <3>1
    <3>3. Len(v) = n + 1 /\ v # <<>>
      BY <2>1, <3>2
    <3>4. StartsWithHead(v, S)
      BY <3>3
    <3> QED BY <3>2, <3>3, <3>4, OnlyMore
  <2> QED BY <2>1
<1> HIDE DEF I
<1>4. I = Nat
  <2>1. I \in SUBSET Nat
    BY DEF I
  <2> QED BY <1>2, <1>3, <2>1, Induct
<1>5. Len(s) - 1 \in Nat /\ Len(s) = (Len(s) - 1) + 1
  BY LenProperties, EmptySeq
<1> QED BY <1>4, <1>5 DEF I

-----------------------------------------------------------------------------
(* Messages of clients, and which of what is on the sockets are. *)
LEMMA ClientMessages ==
  /\ ClientMessage \subseteq Message
  /\ \A m \in Message : m \in ClientMessage <=> m.cmd \in ClientRequest
  /\ \A c \in Conn : EffectOf(c) \subseteq Effect
  /\ \A c \in Conn : \A e \in Effect : e \in EffectOf(c) <=> e.from = c
  /\ \A e \in Effect : Cause(e) \in ClientMessage
<1>1. ClientRequest \subseteq Command
  BY DEF Command
<1> QED
  BY <1>1 DEF ClientMessage, Message, EffectOf, Effect, Cause

(* The messages of a sequence of effects. *)
Causes(s) == [i \in DOMAIN s |-> Cause(s[i])]

LEMMA CausesAppend ==
  ASSUME NEW s \in Seq(Effect), NEW e \in Effect
  PROVE  /\ Causes(s) \in Seq(ClientMessage)
         /\ Causes(Append(s, e)) = Append(Causes(s), Cause(e))
<1>1. ASSUME NEW t \in Seq(Effect)
      PROVE  /\ Causes(t) \in Seq(ClientMessage) /\ Len(Causes(t)) = Len(t)
             /\ Len(t) \in Nat
             /\ \A i \in 1 .. Len(t) : Causes(t)[i] = Cause(t[i])
  <2>1. Len(t) \in Nat /\ DOMAIN t = 1 .. Len(t)
          /\ \A i \in 1 .. Len(t) : t[i] \in Effect
    BY LenProperties, ElementOfSeq
  <2>2. \A i \in 1 .. Len(t) : Cause(t[i]) \in ClientMessage
    BY <2>1, ClientMessages
  <2>3. Causes(t) = [i \in 1 .. Len(t) |-> Cause(t[i])]
    BY <2>1 DEF Causes
  <2> HIDE DEF Causes, Cause
  <2>4. Causes(t) \in Seq(ClientMessage) /\ DOMAIN Causes(t) = 1 .. Len(t)
    BY <2>1, <2>2, <2>3, SeqDef
  <2>5. Len(Causes(t)) = Len(t)
    BY <2>1, <2>4, LenProperties
  <2> QED BY <2>1, <2>3, <2>4, <2>5
<1>2. /\ Append(s, e) \in Seq(Effect) /\ Len(Append(s, e)) = Len(s) + 1
      /\ \A i \in 1 .. Len(s) : Append(s, e)[i] = s[i]
      /\ Append(s, e)[Len(s) + 1] = e
  BY AppendProperties
<1>3. PICK a \in Seq(Effect) : a = Append(s, e)
  BY <1>2
<1>4. /\ Causes(s) \in Seq(ClientMessage) /\ Len(Causes(s)) = Len(s)
      /\ Len(s) \in Nat
      /\ \A i \in 1 .. Len(s) : Causes(s)[i] = Cause(s[i])
  BY <1>1
<1>5. Cause(e) \in ClientMessage
  BY ClientMessages
<1>6. PICK b \in Seq(ClientMessage) : b = Append(Causes(s), Cause(e))
  BY <1>4, <1>5, AppendProperties
<1>7. /\ Len(b) = Len(s) + 1
      /\ \A i \in 1 .. Len(s) : b[i] = Cause(s[i])
      /\ b[Len(s) + 1] = Cause(e)
  BY <1>4, <1>5, <1>6, AppendProperties
<1>8. /\ Causes(a) \in Seq(ClientMessage) /\ Len(Causes(a)) = Len(s) + 1
      /\ \A i \in 1 .. Len(s) + 1 : Causes(a)[i] = Cause(a[i])
  BY <1>1, <1>2, <1>3
<1>9. \A i \in 1 .. Len(s) + 1 : Causes(a)[i] = b[i]
  <2>1. \A i \in 1 .. Len(s) + 1 : i \in 1 .. Len(s) \/ i = Len(s) + 1
    BY <1>4
  <2> HIDE DEF Causes, Cause
  <2> QED BY <1>2, <1>3, <1>7, <1>8, <2>1
<1>10. Causes(a) = b
  BY <1>7, <1>8, <1>9, SeqEqual
<1> QED BY <1>3, <1>4, <1>6, <1>10

LEMMA NoEffect == \E e \in Effect : TRUE
<1>1. [from |-> "tty", cmd |-> "SEND_DATA", of |-> "NONE", num |-> 0] \in Effect
  BY DEF Effect, ClientRequest, ToChild
<1> QED BY <1>1

(* What _fep_dispatch_control_message adds to the history of its client.   *)
LEMMA ExecutedAppend ==
  ASSUME effects \in Seq(Effect), NEW e \in Effect,
         effects' = Append(effects, e), NEW c \in Conn
  PROVE  /\ Executed(c) \in Seq(ClientMessage)
         /\ Executed(c)' = IF e.from = c THEN Append(Executed(c), Cause(e))
                                         ELSE Executed(c)
<1> DEFINE mine == Only(effects, EffectOf(c))
<1>1. /\ mine \in Seq(Effect \cap EffectOf(c))
      /\ Only(effects', EffectOf(c)) =
           IF e \in EffectOf(c) THEN Append(mine, e) ELSE mine
  BY OnlyAppend
<1>2. mine \in Seq(Effect)
  BY <1>1, SeqMonotonic
<1>3. e \in EffectOf(c) <=> e.from = c
  BY ClientMessages
<1>4. /\ Executed(c) = Causes(mine)
      /\ Executed(c)' = Causes(Only(effects', EffectOf(c)))
  BY DEF Executed, Causes
<1> HIDE DEF mine
<1> QED BY <1>1, <1>2, <1>3, <1>4, CausesAppend

(* The same message, wherever it is between two parts of the stream.       *)
LEMMA Regroup ==
  ASSUME NEW T, NEW a \in Seq(T), NEW b \in Seq(T), NEW c \in Seq(T)
  PROVE  (a \o b) \o c = a \o (b \o c)
BY SMT

(* Concatenation by a name of its own, of which the proofs below know only *)
(* that it is associative.                                                 *)
Then(a, b) == a \o b

LEMMA ThenAssociative ==
  ASSUME NEW T
  PROVE  /\ \A a, b \in Seq(T) : Then(a, b) \in Seq(T)
         /\ \A a, b, c \in Seq(T) : Then(Then(a, b), c) = Then(a, Then(b, c))
         /\ \A a \in Seq(T) : Then(a, <<>>) = a
<1>1. ASSUME NEW a \in Seq(T), NEW b \in Seq(T)
      PROVE  Then(a, b) \in Seq(T)
  BY ConcatProperties DEF Then
<1>2. ASSUME NEW a \in Seq(T), NEW b \in Seq(T), NEW c \in Seq(T)
      PROVE  Then(Then(a, b), c) = Then(a, Then(b, c))
  BY Regroup, SMT DEF Then
<1>3. ASSUME NEW a \in Seq(T)
      PROVE  Then(a, <<>>) = a
  BY ConcatEmptySeq DEF Then
<1> QED BY <1>1, <1>2, <1>3

(* The four parts of a stream. *)
Joined(e, p, i, q) == e \o p \o i \o q

Strings == Seq(ClientMessage)

LEMMA PartsOfStream ==
  \A e, p, i, q, x \in Strings :
    /\ Joined(e, p, Then(i, x), <<>>) = Then(Joined(e, p, i, <<>>), x)
    /\ Joined(e, p, i, Then(q, x)) = Then(Joined(e, p, i, q), x)
    /\ Joined(e, p, Then(i, x), q) = Joined(e, p, i, Then(x, q))
    /\ Joined(e, Then(p, x), i, q) = Joined(e, p, Then(x, i), q)
    /\ Joined(Then(e, x), p, i, q) = Joined(e, Then(x, p), i, q)
    /\ Joined(Then(e, x), <<>>, i, q) = Joined(e, <<>>, Then(x, i), q)
<1>1. /\ \A a, b \in Strings : Then(a, b) \in Strings
      /\ \A a, b, c \in Strings : Then(Then(a, b), c) = Then(a, Then(b, c))
      /\ \A a \in Strings : Then(a, <<>>) = a
  BY ThenAssociative, Zenon DEF Strings
<1>2. \A e, p, i, q : Joined(e, p, i, q) = Then(Then(Then(e, p), i), q)
  BY Zenon DEF Joined, Then
<1> TAKE e, p, i, q, x \in Strings
<1> DEFINE ep == Then(e, p)
           epi == Then(ep, i)
           ex == Then(e, x)
<1>3. ep \in Strings /\ epi \in Strings /\ ex \in Strings
  BY <1>1
<1>4. /\ Then(Then(ep, Then(i, x)), <<>>) = Then(Then(epi, <<>>), x)
      /\ Then(epi, Then(q, x)) = Then(Then(epi, q), x)
      /\ Then(Then(ep, Then(i, x)), q) = Then(epi, Then(x, q))
  BY SMTT(30), <1>1, <1>3
<1>5. /\ Then(Then(Then(e, Then(p, x)), i), q) = Then(Then(ep, Then(x, i)), q)
      /\ Then(Then(Then(ex, p), i), q) = Then(Then(Then(e, Then(x, p)), i), q)
      /\ Then(Then(Then(ex, <<>>), i), q) = Then(Then(Then(e, <<>>), Then(x, i)), q)
  BY <1>1, <1>3
<1> QED BY <1>2, <1>4, <1>5

-----------------------------------------------------------------------------
(* What is on its way from a client. *)
FromClient == {m \in Message : m.cmd \notin ServerRequest}

LEMMA FromClientCmd ==
  ASSUME NEW m \in FromClient
  PROVE  /\ m \in Message
         /\ m \in ClientMessage <=> m.cmd # "RESPONSE"
         /\ m.cmd \in ClientRequest <=> m.cmd # "RESPONSE"
<1>1. m \in Message /\ m.cmd \notin ServerRequest /\ m.cmd \in Command
  BY DEF FromClient, Message
<1> QED BY <1>1, ClientMessages, MessageTypes DEF Command

LEMMA ClientMessageFrom == ClientMessage \subseteq FromClient
<1>1. ClientRequest \cap ServerRequest = {}
  BY DEF ClientRequest, ToScreen, ToChild, ServerRequest
<1> QED BY <1>1, ClientMessages DEF FromClient

(* Every part of the stream is a sequence of messages of clients. *)
LEMMA StreamPieces ==
  ASSUME IInv, QueuesOK, NEW c \in Conn
  PROVE  /\ Executed(c) \in Seq(ClientMessage)
         /\ PutAside(c) \in Seq(ClientMessage)
         /\ InSocket(c) \in Seq(ClientMessage)
         /\ messages[c] \in Seq(ClientMessage)
         /\ c2s[c] \in Seq(FromClient)
<1>1. /\ messages[c] \in Seq(ClientMessage) /\ queued \in Seq(ClientMessage)
      /\ c2s[c] \in Seq(FromClient)
  BY DEF QueuesOK, FromClient
<1>2. PutAside(c) \in Seq(ClientMessage)
  BY <1>1, EmptySeq DEF PutAside
<1>3. InSocket(c) \in Seq(ClientMessage)
  <2>1. PICK e \in Message : e = NoMessage
    BY MessageTypes
  <2>2. c2s[c] \in Seq(Message)
    BY DEF IInv, TypeOK, SocketTypeOK
  <2>3. InSocket(c) \in Seq(Message \cap ClientMessage)
    BY <2>1, <2>2, OnlyAppend DEF InSocket
  <2>4. Message \cap ClientMessage = ClientMessage
    BY ClientMessages
  <2> QED BY <2>3, <2>4
<1>4. Executed(c) \in Seq(ClientMessage)
  <2>1. effects \in Seq(Effect)
    BY DEF IInv, TypeOK, ServerTypeOK
  <2>2. Only(effects, EffectOf(c)) \in Seq(Effect)
    <3>1. PICK e \in Effect : TRUE
      BY NoEffect
    <3>2. Only(effects, EffectOf(c)) \in Seq(Effect \cap EffectOf(c))
      BY <2>1, <3>1, OnlyAppend
    <3> QED BY <3>2, SeqMonotonic
  <2>3. Executed(c) = Causes(Only(effects, EffectOf(c)))
    BY DEF Executed, Causes
  <2> QED BY <2>2, <2>3, NoEffect, CausesAppend
<1> QED BY <1>1, <1>2, <1>3, <1>4

(* A message is written behind what is in the socket already. *)
LEMMA SocketAppend ==
  ASSUME NEW s \in Seq(FromClient), NEW m \in FromClient
  PROVE  /\ Append(s, m) \in Seq(FromClient)
         /\ Only(Append(s, m), ClientMessage) =
              IF m.cmd = "RESPONSE" THEN Only(s, ClientMessage)
              ELSE Only(s, ClientMessage) \o <<m>>
<1>1. /\ Only(s, ClientMessage) \in Seq(FromClient \cap ClientMessage)
      /\ Only(Append(s, m), ClientMessage) =
           IF m \in ClientMessage THEN Append(Only(s, ClientMessage), m)
                                  ELSE Only(s, ClientMessage)
  BY OnlyAppend
<1>2. Only(s, ClientMessage) \in Seq(FromClient)
  BY <1>1, SeqMonotonic
<1>3. Append(Only(s, ClientMessage), m) = Only(s, ClientMessage) \o <<m>>
  BY <1>2, AppendIsConcat
<1>4. Append(s, m) \in Seq(FromClient)
  BY AppendProperties
<1> QED BY <1>1, <1>3, <1>4, FromClientCmd

(* And read from the front of it. *)
LEMMA SocketTail ==
  ASSUME NEW s \in Seq(FromClient), s # <<>>
  PROVE  /\ Head(s) \in FromClient /\ Tail(s) \in Seq(FromClient)
         /\ Only(Tail(s), ClientMessage) \in Seq(ClientMessage)
         /\ Only(s, ClientMessage) =
              IF Head(s).cmd = "RESPONSE" THEN Only(Tail(s), ClientMessage)
              ELSE <<Head(s)>> \o Only(Tail(s), ClientMessage)
<1>1. Head(s) \in FromClient /\ Tail(s) \in Seq(FromClient)
  BY HeadTailProperties
<1>2. StartsWithHead(s, ClientMessage)
  BY OnlyTail
<1>3. Only(Tail(s), ClientMessage) \in Seq(ClientMessage)
  <2>1. Only(Tail(s), ClientMessage) \in Seq(FromClient \cap ClientMessage)
    BY <1>1, OnlyAppend
  <2> QED BY <2>1, SeqMonotonic
<1> QED BY <1>1, <1>2, <1>3, FromClientCmd DEF StartsWithHead

-----------------------------------------------------------------------------
(* The stream of one client. *)
Conserved(c) ==
  Joined(Executed(c), PutAside(c), InSocket(c), messages[c]) = issued[c]

(* A step that leaves what a stream is made of. *)
LEMMA Untouched ==
  ASSUME NEW c \in Conn, Conserved(c),
         Executed(c)' = Executed(c), PutAside(c)' = PutAside(c),
         c2s'[c] = c2s[c], messages'[c] = messages[c], issued'[c] = issued[c]
  PROVE  Conserved(c)'
BY DEF Conserved, InSocket

(* A step of a client leaves what fep has of it. *)
LEMMA FepUntouched ==
  ASSUME UNCHANGED serverVars, NEW c \in Conn
  PROVE  Executed(c)' = Executed(c) /\ PutAside(c)' = PutAside(c)
BY DEF serverVars, Executed, PutAside, Peer

(* fep_client_set_cursor_text and the other requests, outside of a         *)
(* dispatch and from a filter.                                             *)
LEMMA CallStream ==
  ASSUME IInv, StreamInv, NEW c \in Conn, NEW cmd \in ApiCommand, Call(c, cmd),
         UNCHANGED serverVars
  PROVE  Conserved(c)' /\ QueuesOK'
<1> DEFINE m == Request(cmd, calls[c] + 1)
<1>0. /\ Conserved(c) /\ QueuesOK
      /\ SocketTypeOK /\ ClientTypeOK
  BY DEF StreamInv, StreamConserved, Conserved, Joined, IInv, TypeOK
<1>1. m \in ClientMessage /\ m \in FromClient /\ m.cmd # "RESPONSE"
  <2>1. calls[c] + 1 \in Nat /\ cmd \in ClientRequest
    BY <1>0, ApiAssumption DEF ClientTypeOK
  <2>2. m \in Message /\ m.cmd = cmd
    BY <2>1, MessageTypes
  <2>3. m \in ClientMessage
    BY <2>1, <2>2, ClientMessages
  <2> QED BY <2>1, <2>2, <2>3, ClientMessageFrom, MessageTypes
<1> DEFINE e == Executed(c)
           p == PutAside(c)
           i == InSocket(c)
           q == messages[c]
<1>2. /\ e \in Seq(ClientMessage) /\ p \in Seq(ClientMessage)
      /\ i \in Seq(ClientMessage) /\ q \in Seq(ClientMessage)
      /\ <<m>> \in Seq(ClientMessage)
      /\ c2s[c] \in Seq(FromClient)
  BY <1>0, <1>1, StreamPieces
<1>3. /\ issued'[c] = issued[c] \o <<m>>
      /\ UNCHANGED phase /\ cli[c] = "open"
  <2>1. issued'[c] = Append(issued[c], m) /\ UNCHANGED phase /\ cli[c] = "open"
    BY <1>0 DEF Call, ClientTypeOK
  <2>2. issued[c] \in Seq(Message) /\ m \in Message
    BY <1>0, <1>1, ClientMessages DEF ClientTypeOK
  <2>3. Append(issued[c], m) = issued[c] \o <<m>>
    BY <2>2, AppendIsConcat
  <2> QED BY <2>1, <2>3
<1>4. Executed(c)' = e /\ PutAside(c)' = p
  BY FepUntouched
<1>5. CASE phase[c] = "idle" /\ ClientWrite(c, m) /\ UNCHANGED messages
  <2>1. q = <<>> /\ messages'[c] = <<>>
    BY <1>0, <1>5 DEF QueuesOK
  <2>2. c2s' = [c2s EXCEPT ![c] = Append(c2s[c], m)]
    BY <1>5 DEF ClientWrite
  <2>3. c2s'[c] = Append(c2s[c], m)
    BY <1>0, <2>2 DEF SocketTypeOK
  <2>4. InSocket(c)' = i \o <<m>> /\ c2s'[c] \in Seq(FromClient)
    BY <1>1, <1>2, <2>3, SocketAppend DEF InSocket
  <2>a. /\ e \in Strings /\ p \in Strings /\ i \in Strings /\ <<m>> \in Strings
        /\ <<>> \in Strings
    BY <1>2, EmptySeq DEF Strings
  <2> HIDE DEF e, p, i, m
  <2>5. Joined(e, p, Then(i, <<m>>), <<>>) = Then(Joined(e, p, i, <<>>), <<m>>)
    BY <2>a, PartsOfStream, SMT
  <2>6. Conserved(c)'
    BY <1>0, <1>3, <1>4, <2>1, <2>4, <2>5 DEF Conserved, Then, e, p, i, q, m
  <2>7. QueuesOK'
    BY <1>0, <1>3, <1>5, <2>2, <2>4 DEF QueuesOK, FromClient, SocketTypeOK, serverVars
  <2> QED BY <2>6, <2>7
<1>6. CASE /\ phase[c] = "filter" /\ UNCHANGED socketVars
           /\ messages' = [messages EXCEPT ![c] = Append(@, m)]
  <2>1. messages'[c] = Append(q, m)
    BY <1>0, <1>6 DEF ClientTypeOK
  <2>2. Append(q, m) = q \o <<m>> /\ Append(q, m) \in Seq(ClientMessage)
    BY <1>1, <1>2, AppendIsConcat, AppendProperties
  <2>3. InSocket(c)' = i /\ c2s' = c2s
    BY <1>6 DEF InSocket, socketVars
  <2>a. /\ e \in Strings /\ p \in Strings /\ i \in Strings /\ <<m>> \in Strings
        /\ q \in Strings
    BY <1>2 DEF Strings
  <2> HIDE DEF e, p, i, q, m
  <2>4. Joined(e, p, i, Then(q, <<m>>)) = Then(Joined(e, p, i, q), <<m>>)
    BY <2>a, PartsOfStream, SMT
  <2>5. Conserved(c)'
    BY <1>0, <1>3, <1>4, <2>1, <2>2, <2>3, <2>4 DEF Conserved, Then, e, p, i, q, m
  <2>6. QueuesOK'
    BY <1>0, <1>3, <1>6, <2>1, <2>2, <2>3 DEF QueuesOK, serverVars, ClientTypeOK
  <2> QED BY <2>5, <2>6
<1> QED BY <1>5, <1>6 DEF Call

(* The filter returns: the RESPONSE is not in the stream, the input of an  *)
(* unhandled key is the last of it.                                        *)
LEMMA FilterStream ==
  ASSUME IInv, StreamInv, NEW c \in Conn, NEW h \in BOOLEAN, FilterReturn(c, h),
         UNCHANGED serverVars
  PROVE  Conserved(c)' /\ QueuesOK'
<1> DEFINE r == request[c]
           x == Echo(r)
           y == IF r.cmd = "KEY_EVENT" /\ ~h THEN <<x>> ELSE <<>>
           e == Executed(c)
           p == PutAside(c)
           i == InSocket(c)
           q == messages[c]
<1>0. /\ Conserved(c) /\ QueuesOK
      /\ SocketTypeOK /\ ClientTypeOK
  BY DEF StreamInv, StreamConserved, Conserved, Joined, IInv, TypeOK
<1>1. r \in Message /\ r.cmd \in ServerRequest
  BY FilterRequest DEF FilterReturn
<1>2. /\ Response(r) \in FromClient /\ Response(r).cmd = "RESPONSE"
      /\ x \in ClientMessage
  <2>1. Response(r) \in Message /\ x \in Message /\ Response(r).cmd = "RESPONSE"
    BY <1>1, MessageTypes
  <2>2. x.cmd \in ClientRequest
    BY DEF Echo, ClientRequest, ToChild
  <2> QED BY <2>1, <2>2, MessageTypes, ClientMessages DEF FromClient
<1>3. y \in Seq(ClientMessage)
  BY <1>2, EmptySeq
<1> HIDE DEF y
<1>4. /\ e \in Seq(ClientMessage) /\ p \in Seq(ClientMessage)
      /\ i \in Seq(ClientMessage) /\ q \in Seq(ClientMessage)
      /\ c2s[c] \in Seq(FromClient)
  BY <1>0, StreamPieces
<1>5. /\ ClientWrite(c, Response(r))
      /\ messages' = [messages EXCEPT ![c] = q \o y]
      /\ issued' = [issued EXCEPT ![c] = issued[c] \o y]
      /\ phase' = [phase EXCEPT ![c] = IF q \o y = <<>> THEN "idle" ELSE "flush"]
  BY DEF FilterReturn, y
<1>6. /\ messages'[c] = q \o y /\ issued'[c] = issued[c] \o y
      /\ phase'[c] = "idle" => messages'[c] = <<>>
  BY <1>0, <1>5 DEF ClientTypeOK
<1>7. c2s' = [c2s EXCEPT ![c] = Append(c2s[c], Response(r))]
  BY <1>5 DEF ClientWrite
<1>8. c2s'[c] = Append(c2s[c], Response(r))
  BY <1>0, <1>7 DEF SocketTypeOK
<1>9. InSocket(c)' = i /\ c2s'[c] \in Seq(FromClient)
  BY <1>2, <1>4, <1>8, SocketAppend DEF InSocket
<1>10. Executed(c)' = e /\ PutAside(c)' = p
  BY FepUntouched
<1>a. /\ e \in Strings /\ p \in Strings /\ i \in Strings /\ q \in Strings
      /\ y \in Strings
  BY <1>3, <1>4 DEF Strings
<1> HIDE DEF e, p, i, q
<1>11. Joined(e, p, i, Then(q, y)) = Then(Joined(e, p, i, q), y)
  BY <1>a, PartsOfStream, SMT
<1>12. Conserved(c)'
  BY <1>0, <1>6, <1>9, <1>10, <1>11 DEF Conserved, Then, e, p, i, q
<1>13. q \o y \in Seq(ClientMessage)
  BY <1>3, <1>4, ConcatProperties
<1>14. QueuesOK'
  <2>1. ASSUME NEW d \in Conn, d # c
        PROVE  /\ phase'[d] = phase[d] /\ messages'[d] = messages[d]
               /\ c2s'[d] = c2s[d]
    BY <1>0, <1>5, <1>7, <2>1 DEF ClientTypeOK, SocketTypeOK
  <2>2. UNCHANGED queued
    BY DEF serverVars
  <2> QED BY <1>0, <1>6, <1>9, <1>13, <2>1, <2>2 DEF QueuesOK, FromClient
<1> QED BY <1>12, <1>14

(* A queued message is written at the end of the dispatch. *)
LEMMA FlushStream ==
  ASSUME IInv, StreamInv, NEW c \in Conn, Flush(c), UNCHANGED serverVars
  PROVE  Conserved(c)' /\ QueuesOK'
<1> DEFINE m == Head(messages[c])
           t == Tail(messages[c])
           e == Executed(c)
           p == PutAside(c)
           i == InSocket(c)
<1>0. /\ Conserved(c) /\ QueuesOK
      /\ SocketTypeOK /\ ClientTypeOK
  BY DEF StreamInv, StreamConserved, Conserved, Joined, IInv, TypeOK
<1>1. /\ e \in Seq(ClientMessage) /\ p \in Seq(ClientMessage)
      /\ i \in Seq(ClientMessage) /\ messages[c] \in Seq(ClientMessage)
      /\ c2s[c] \in Seq(FromClient)
  BY <1>0, StreamPieces
<1>2. /\ m \in ClientMessage /\ t \in Seq(ClientMessage)
      /\ <<m>> \in Seq(ClientMessage) /\ messages[c] = <<m>> \o t
  BY <1>1, HeadThenTail DEF Flush
<1>3. m \in FromClient /\ m.cmd # "RESPONSE"
  BY <1>2, ClientMessageFrom, FromClientCmd
<1>4. /\ c2s' = [c2s EXCEPT ![c] = Append(c2s[c], m)]
      /\ messages' = [messages EXCEPT ![c] = t]
      /\ phase' = [phase EXCEPT ![c] = IF t = <<>> THEN "idle" ELSE "flush"]
      /\ UNCHANGED issued
  BY DEF Flush, ClientWrite
<1> HIDE DEF m, t
<1>5. /\ c2s'[c] = Append(c2s[c], m) /\ messages'[c] = t
      /\ phase'[c] = "idle" => t = <<>>
  BY <1>0, <1>4 DEF SocketTypeOK, ClientTypeOK
<1>6. InSocket(c)' = i \o <<m>> /\ c2s'[c] \in Seq(FromClient)
  BY <1>1, <1>3, <1>5, SocketAppend DEF InSocket
<1>7. Executed(c)' = e /\ PutAside(c)' = p
  BY FepUntouched
<1>8. /\ e \in Strings /\ p \in Strings /\ i \in Strings
      /\ <<m>> \in Strings /\ t \in Strings
  BY <1>1, <1>2 DEF Strings
<1> HIDE DEF e, p, i
<1>9. Joined(e, p, Then(i, <<m>>), t) = Joined(e, p, i, Then(<<m>>, t))
  BY <1>8, PartsOfStream, SMT
<1>10. Conserved(c)'
  BY <1>0, <1>2, <1>4, <1>5, <1>6, <1>7, <1>9 DEF Conserved, Then, e, p, i
<1>11. QueuesOK'
  <2>1. ASSUME NEW d \in Conn, d # c
        PROVE  /\ phase'[d] = phase[d] /\ messages'[d] = messages[d]
               /\ c2s'[d] = c2s[d]
    BY <1>0, <1>4, <2>1 DEF ClientTypeOK, SocketTypeOK
  <2>2. UNCHANGED queued
    BY DEF serverVars
  <2> QED BY <1>0, <1>2, <1>5, <1>6, <2>1, <2>2 DEF QueuesOK, FromClient
<1> QED BY <1>10, <1>11

(* Every step of a client. *)
LEMMA ClientStream ==
  ASSUME IInv, StreamInv, NEW c \in Conn, ClientStep(c)
  PROVE  StreamInv'
<1>0. /\ ClientNext(c) /\ UNCHANGED serverVars /\ QueuesOK
      /\ SocketTypeOK /\ ClientTypeOK
      /\ \A d \in Conn : Conserved(d)
  BY DEF ClientStep, StreamInv, StreamConserved, Conserved, Joined, IInv, TypeOK
<1>1. Conserved(c)' /\ QueuesOK'
  <2>1. CASE /\ UNCHANGED <<c2s, messages, issued, queued>>
             /\ phase' = phase \/ phase' = [phase EXCEPT ![c] = "filter"]
    <3>1. Conserved(c)'
      BY <1>0, <2>1, FepUntouched, Untouched
    <3>2. QueuesOK'
      BY <1>0, <2>1 DEF QueuesOK, ClientTypeOK
    <3> QED BY <3>1, <3>2
  <2>2. CASE fep_client_open(c) \/ fep_client_close(c) \/ Die(c) \/ Dispatch(c)
    BY <1>0, <2>1, <2>2
       DEF fep_client_open, Connect, fep_client_close, Die, ClientClose,
           Dispatch, ClientRead, clientVars, serverVars
  <2>3. ASSUME NEW cmd \in ApiCommand, Call(c, cmd)
        PROVE  Conserved(c)' /\ QueuesOK'
    BY <1>0, <2>3, CallStream
  <2>4. ASSUME NEW h \in BOOLEAN, FilterReturn(c, h)
        PROVE  Conserved(c)' /\ QueuesOK'
    BY <1>0, <2>4, FilterStream
  <2>5. CASE Flush(c)
    BY <1>0, <2>5, FlushStream
  <2> QED BY <1>0, <2>2, <2>3, <2>4, <2>5 DEF ClientNext, Answer
<1>2. ASSUME NEW d \in Conn, d # c
      PROVE  Conserved(d)'
  <2>1. c2s'[d] = c2s[d] /\ messages'[d] = messages[d]
    BY <1>0, <1>2, OtherClients
  <2>2. issued'[d] = issued[d]
    BY <1>0, <1>2
       DEF ClientNext, Answer, fep_client_open, fep_client_close, Die, Dispatch,
           Call, FilterReturn, Flush, clientVars, ClientTypeOK
  <2> QED BY <1>0, <2>1, <2>2, FepUntouched, Untouched
<1> QED BY <1>1, <1>2 DEF StreamInv, StreamConserved, Conserved, Joined

-----------------------------------------------------------------------------
(* _fep_dispatch_control_message appends to the history of one client.     *)
LEMMA ExecuteStream ==
  ASSUME IInv, NEW c \in Conn, NEW m \in ClientMessage, Execute(c, m)
  PROVE  /\ Executed(c)' = Executed(c) \o <<m>>
         /\ \A d \in Conn : d # c => Executed(d)' = Executed(d)
<1> DEFINE x == [from |-> c, cmd |-> m.cmd, of |-> m.of, num |-> m.num]
<1>1. effects \in Seq(Effect)
  BY DEF IInv, TypeOK, ServerTypeOK
<1>2. m.cmd \in ClientRequest
  BY DEF ClientMessage
<1>3. x \in Effect /\ x.from = c /\ Cause(x) = m
  BY DEF ClientMessage, Effect, Cause
<1>4. effects' = Append(effects, x)
  BY <1>2 DEF Execute
<1> HIDE DEF x
<1>5. \A d \in Conn :
        /\ Executed(d) \in Seq(ClientMessage)
        /\ Executed(d)' = IF d = c THEN Append(Executed(d), m) ELSE Executed(d)
  BY <1>1, <1>3, <1>4, ExecutedAppend
<1>6. Append(Executed(c), m) = Executed(c) \o <<m>>
  BY <1>5, AppendIsConcat
<1> QED BY <1>5, <1>6

(* A message that is not the RESPONSE is put aside, at the end. *)
LEMMA WaitStream ==
  ASSUME IInv, StreamInv, WaitResponse, UNCHANGED clientVars
  PROVE  StreamInv'
<1>0. /\ QueuesOK /\ SocketTypeOK /\ ClientTypeOK
      /\ \A d \in Conn : Conserved(d)
  BY DEF StreamInv, StreamConserved, Conserved, Joined, IInv, TypeOK
<1>1. /\ pc = "wait" /\ idx < nClients /\ Peer \in Conn
      /\ pc' \in {"wait", "flush"} /\ Peer' = Peer
      /\ UNCHANGED <<effects, phase, messages, issued>>
  <2>1. pc = "wait" /\ idx < nClients /\ ServerOK
    BY DEF WaitResponse, IInv, LoopInv, TypeOK, ServerOK
  <2>2. UNCHANGED <<clients, idx, effects>>
    BY DEF WaitResponse, tableVars
  <2>3. pc' \in {"wait", "flush"}
    BY <2>1 DEF WaitResponse
  <2> QED BY <2>1, <2>2, <2>3, PeerType DEF Peer, clientVars
<1>2. \A d \in Conn : Executed(d)' = Executed(d)
  BY <1>1 DEF Executed
<1>3. /\ PutAside(Peer) = queued /\ PutAside(Peer)' = queued'
      /\ \A d \in Conn : d # Peer => PutAside(d)' = PutAside(d)
  BY <1>1 DEF PutAside
<1>4. CASE UNCHANGED <<c2s, queued>>
  <2>1. \A d \in Conn : Conserved(d)'
    BY <1>0, <1>1, <1>2, <1>3, <1>4, Untouched
  <2>2. QueuesOK'
    BY <1>0, <1>1, <1>4 DEF QueuesOK
  <2> QED BY <2>1, <2>2 DEF StreamInv, StreamConserved, Conserved, Joined
<1>5. CASE ServerRead(Peer)
  <2> DEFINE m == Head(c2s[Peer])
             e == Executed(Peer)
             p == PutAside(Peer)
             i == Only(Tail(c2s[Peer]), ClientMessage)
             q == messages[Peer]
  <2>1. /\ c2s[Peer] # <<>> /\ c2s' = [c2s EXCEPT ![Peer] = Tail(c2s[Peer])]
    BY <1>5 DEF ServerRead
  <2>2. c2s'[Peer] = Tail(c2s[Peer])
    BY <1>0, <1>1, <2>1 DEF SocketTypeOK
  <2>3. /\ e \in Seq(ClientMessage) /\ p \in Seq(ClientMessage)
        /\ q \in Seq(ClientMessage) /\ c2s[Peer] \in Seq(FromClient)
    BY <1>0, <1>1, StreamPieces
  <2>4. /\ m \in FromClient /\ c2s'[Peer] \in Seq(FromClient)
        /\ InSocket(Peer) = IF m.cmd = "RESPONSE" THEN i ELSE <<m>> \o i
        /\ InSocket(Peer)' = i /\ i \in Seq(ClientMessage)
    BY <1>1, <2>1, <2>2, <2>3, SocketTail DEF InSocket
  <2>5. /\ m.cmd = "RESPONSE" => UNCHANGED queued
        /\ m.cmd # "RESPONSE" => queued' = Append(queued, m)
    BY <2>1 DEF WaitResponse
  <2> HIDE DEF m
  <2>6. ASSUME NEW d \in Conn, d # Peer
        PROVE  Conserved(d)' /\ c2s'[d] = c2s[d]
    <3>1. c2s'[d] = c2s[d]
      BY <1>0, <1>1, <2>1, <2>6 DEF SocketTypeOK
    <3> QED BY <1>0, <1>1, <1>2, <1>3, <2>6, <3>1, Untouched
  <2>7. CASE m.cmd = "RESPONSE"
    <3>1. Conserved(Peer)'
      BY <1>0, <1>1, <1>2, <1>3, <2>4, <2>5, <2>7 DEF Conserved
    <3>2. \A d \in Conn : c2s'[d] \in Seq(FromClient)
      BY <1>0, <2>4, <2>6 DEF QueuesOK, FromClient
    <3>3. QueuesOK'
      BY <1>0, <1>1, <2>5, <2>7, <3>2 DEF QueuesOK, FromClient
    <3> QED BY <1>1, <2>6, <3>1, <3>3 DEF StreamInv, StreamConserved, Conserved, Joined
  <2>8. CASE m.cmd # "RESPONSE"
    <3>1. m \in ClientMessage
      BY <2>4, <2>8, FromClientCmd
    <3>2. queued' = p \o <<m>> /\ queued' \in Seq(ClientMessage)
            /\ <<m>> \in Seq(ClientMessage)
      <4>1. queued \in Seq(ClientMessage) /\ queued' = Append(queued, m) /\ p = queued
        BY <1>0, <1>3, <2>5, <2>8 DEF QueuesOK
      <4>2. Append(queued, m) = queued \o <<m>>
        BY <3>1, <4>1, AppendIsConcat
      <4>3. Append(queued, m) \in Seq(ClientMessage)
        BY <3>1, <4>1, AppendProperties
      <4> QED BY <3>1, <4>1, <4>2, <4>3
    <3>3. /\ e \in Strings /\ p \in Strings /\ i \in Strings
          /\ <<m>> \in Strings /\ q \in Strings
      BY <2>3, <2>4, <3>2 DEF Strings
    <3> HIDE DEF e, p, i, q
    <3>4. Joined(e, Then(p, <<m>>), i, q) = Joined(e, p, Then(<<m>>, i), q)
      BY <3>3, PartsOfStream, SMT
    <3>5. Conserved(Peer)'
      BY <1>0, <1>1, <1>2, <1>3, <2>4, <2>8, <3>2, <3>4
         DEF Conserved, Then, e, p, i, q
    <3>6. \A d \in Conn : c2s'[d] \in Seq(FromClient)
      BY <1>0, <2>4, <2>6 DEF QueuesOK, FromClient
    <3>7. QueuesOK'
      BY <1>0, <1>1, <3>2, <3>6 DEF QueuesOK, FromClient
    <3> QED BY <1>1, <2>6, <3>5, <3>7 DEF StreamInv, StreamConserved, Conserved, Joined
  <2> QED BY <2>7, <2>8
<1> QED BY <1>4, <1>5 DEF WaitResponse, socketVars

(* What was put aside is executed from its front. *)
LEMMA FlushQueuedStream ==
  ASSUME IInv, StreamInv, FlushQueued, UNCHANGED clientVars
  PROVE  StreamInv'
<1> DEFINE m == Head(queued)
           t == Tail(queued)
           e == Executed(Peer)
           i == InSocket(Peer)
           q == messages[Peer]
<1>0. /\ QueuesOK
      /\ \A d \in Conn : Conserved(d)
  BY DEF StreamInv, StreamConserved, Conserved, Joined
<1>1. /\ pc = "flush" /\ Peer \in Conn /\ queued # <<>>
      /\ Execute(Peer, m) /\ queued' = t /\ pc' = pc /\ Peer' = Peer
      /\ UNCHANGED <<c2s, phase, messages, issued>>
  <2>1. pc = "flush" /\ idx < nClients /\ ServerOK
    BY DEF FlushQueued, IInv, LoopInv, TypeOK, ServerOK
  <2>2. UNCHANGED <<clients, idx, c2s, pc>>
    BY DEF FlushQueued, tableVars, socketVars
  <2> QED BY <2>1, <2>2, PeerType DEF Peer, clientVars, FlushQueued
<1>2. /\ m \in ClientMessage /\ t \in Seq(ClientMessage)
      /\ <<m>> \in Seq(ClientMessage) /\ queued = <<m>> \o t
  BY <1>0, <1>1, HeadThenTail DEF QueuesOK
<1>3. /\ e \in Seq(ClientMessage) /\ i \in Seq(ClientMessage)
      /\ q \in Seq(ClientMessage)
  BY <1>0, <1>1, StreamPieces
<1> HIDE DEF m, t
<1>4. /\ Executed(Peer)' = e \o <<m>>
      /\ \A d \in Conn : d # Peer => Executed(d)' = Executed(d)
  BY <1>1, <1>2, ExecuteStream
<1>5. /\ PutAside(Peer) = queued /\ PutAside(Peer)' = t
      /\ InSocket(Peer)' = i
      /\ \A d \in Conn : d # Peer => PutAside(d)' = PutAside(d)
  BY <1>1 DEF PutAside, InSocket
<1>6. ASSUME NEW d \in Conn, d # Peer
      PROVE  Conserved(d)'
  BY <1>0, <1>1, <1>4, <1>5, <1>6, Untouched
<1>7. Conserved(Peer)'
  <2>1. /\ e \in Strings /\ t \in Strings /\ i \in Strings
        /\ <<m>> \in Strings /\ q \in Strings
    BY <1>2, <1>3 DEF Strings
  <2> HIDE DEF e, i, q
  <2>2. Joined(Then(e, <<m>>), t, i, q) = Joined(e, Then(<<m>>, t), i, q)
    BY <2>1, PartsOfStream, SMT
  <2> QED BY <1>0, <1>1, <1>2, <1>4, <1>5, <2>2 DEF Conserved, Then, e, i, q
<1>8. QueuesOK'
  BY <1>0, <1>1, <1>2 DEF QueuesOK
<1> QED BY <1>1, <1>6, <1>7, <1>8 DEF StreamInv, StreamConserved, Conserved, Joined

(* main_loop executes what it reads from a client, outside of exchanges. *)
LEMMA ReadClientStream ==
  ASSUME IInv, StreamInv, ReadClient, UNCHANGED clientVars
  PROVE  StreamInv'
<1>0. /\ QueuesOK /\ SocketTypeOK
      /\ \A d \in Conn : Conserved(d)
  BY DEF StreamInv, StreamConserved, Conserved, Joined, IInv, TypeOK
<1>1. /\ pc = "clients" /\ Peer \in Conn /\ pc' = "clients"
      /\ UNCHANGED <<queued, phase, messages, issued>>
  <2>1. pc = "clients" /\ idx < nClients /\ ServerOK
    BY DEF ReadClient, IInv, TypeOK, ServerOK
  <2> QED BY <2>1, PeerType DEF clientVars, ReadClient
<1>2. \A d \in Conn : PutAside(d) = <<>> /\ PutAside(d)' = <<>>
  BY <1>1 DEF PutAside
<1>3. CASE UNCHANGED <<c2s, effects>>
  <2>1. \A d \in Conn : Executed(d)' = Executed(d)
    BY <1>3 DEF Executed
  <2>2. \A d \in Conn : Conserved(d)'
    BY <1>0, <1>1, <1>2, <1>3, <2>1, Untouched
  <2>3. QueuesOK'
    BY <1>0, <1>1, <1>3 DEF QueuesOK
  <2> QED BY <2>2, <2>3 DEF StreamInv, StreamConserved, Conserved, Joined
<1>4. CASE ServerRead(Peer) /\ Execute(Peer, Head(c2s[Peer]))
  <2>0. PICK c \in Conn : c = Peer
    BY <1>1
  <2> DEFINE m == Head(c2s[c])
             e == Executed(c)
             i == Only(Tail(c2s[c]), ClientMessage)
             q == messages[c]
  <2>1. /\ c2s[c] # <<>> /\ c2s' = [c2s EXCEPT ![c] = Tail(c2s[c])]
        /\ Execute(c, m)
    BY <1>4, <2>0 DEF ServerRead
  <2>2. c2s'[c] = Tail(c2s[c])
    BY <1>0, <1>1, <2>1 DEF SocketTypeOK
  <2>3. /\ e \in Seq(ClientMessage) /\ q \in Seq(ClientMessage)
        /\ c2s[c] \in Seq(FromClient)
    BY <1>0, <1>1, StreamPieces
  <2>4. m.cmd # "RESPONSE"
    <3>1. NoResponse(c2s[c])
      BY <1>1 DEF IInv, Lockstep, Waiting, Unasked
    <3>2. c2s[c] \in Seq(Message)
      BY <1>0, <1>1 DEF SocketTypeOK
    <3> QED BY <2>1, <3>1, <3>2, TailResponse
  <2>5. /\ m \in ClientMessage /\ c2s'[c] \in Seq(FromClient)
        /\ InSocket(c) = <<m>> \o i
        /\ InSocket(c)' = i /\ i \in Seq(ClientMessage)
    BY <2>1, <2>2, <2>3, <2>4, SocketTail, FromClientCmd DEF InSocket
  <2> HIDE DEF m
  <2>6. /\ Executed(c)' = e \o <<m>>
        /\ \A d \in Conn : d # c => Executed(d)' = Executed(d)
    BY <1>1, <2>1, <2>5, ExecuteStream
  <2>7. ASSUME NEW d \in Conn, d # c
        PROVE  Conserved(d)' /\ c2s'[d] = c2s[d]
    <3>1. c2s'[d] = c2s[d]
      BY <1>0, <1>1, <2>1, <2>7 DEF SocketTypeOK
    <3> QED BY <1>0, <1>1, <1>2, <2>6, <2>7, <3>1, Untouched
  <2>8. Conserved(c)'
    <3>1. <<>> \in Strings /\ e \in Strings /\ i \in Strings
            /\ <<m>> \in Strings /\ q \in Strings
      BY <2>3, <2>5, EmptySeq DEF Strings
    <3> HIDE DEF e, i, q
    <3>2. Joined(Then(e, <<m>>), <<>>, i, q) = Joined(e, <<>>, Then(<<m>>, i), q)
      BY <3>1, PartsOfStream, SMT
    <3>3. /\ Executed(c)' = Then(e, <<m>>) /\ PutAside(c)' = <<>>
          /\ InSocket(c)' = i /\ messages'[c] = q /\ issued'[c] = issued[c]
      BY <1>1, <1>2, <2>5, <2>6 DEF Then, e, i, q
    <3>4. Joined(e, <<>>, Then(<<m>>, i), q) = issued[c]
      BY <1>0, <1>1, <1>2, <2>5 DEF Conserved, Then, e, i, q
    <3> QED BY <3>2, <3>3, <3>4 DEF Conserved
  <2>9. QueuesOK'
    <3>1. \A d \in Conn : c2s'[d] \in Seq(FromClient)
      BY <1>0, <2>5, <2>7 DEF QueuesOK, FromClient
    <3> QED BY <1>0, <1>1, <3>1 DEF QueuesOK, FromClient
  <2> QED BY <1>1, <2>7, <2>8, <2>9 DEF StreamInv, StreamConserved, Conserved, Joined
<1>5. CASE RemoveClient(Peer) /\ UNCHANGED effects
  BY <1>3, <1>5 DEF RemoveClient, ServerClose
<1> QED BY <1>3, <1>4, <1>5 DEF ReadClient, socketVars

(* The key that main_loop writes itself is in no client's stream. *)
LEMMA RequestDoneStream ==
  ASSUME IInv, StreamInv, RequestDone, UNCHANGED clientVars
  PROVE  StreamInv'
<1>0. /\ QueuesOK
      /\ \A d \in Conn : Conserved(d)
  BY DEF StreamInv, StreamConserved, Conserved, Joined
<1>1. /\ pc = "send" /\ pc' \in {"key", "signals"}
      /\ UNCHANGED <<c2s, queued, phase, messages, issued>>
  BY DEF RequestDone, clientVars, socketVars
<1>2. \A d \in Conn : PutAside(d)' = PutAside(d)
  BY <1>1 DEF PutAside
<1>3. \A d \in Conn : Executed(d)' = Executed(d)
  <2>1. CASE UNCHANGED effects
    BY <2>1 DEF Executed
  <2> DEFINE x == [from |-> "tty", cmd |-> "SEND_DATA", of |-> "KEY_EVENT",
                   num |-> req.num]
  <2>2. CASE effects' = Append(effects, x)
    <3>1. effects \in Seq(Effect) /\ req \in Message
      BY DEF IInv, TypeOK, ServerTypeOK
    <3>2. x \in Effect
      BY <3>1 DEF Message, Effect, ClientRequest, ToChild, ServerRequest
    <3>3. \A d \in Conn : x.from # d
      BY FdAssumption
    <3> HIDE DEF x
    <3> QED BY <2>2, <3>1, <3>2, <3>3, ExecutedAppend
  <2> QED BY <2>1, <2>2 DEF RequestDone
<1>4. \A d \in Conn : Conserved(d)'
  BY <1>0, <1>1, <1>2, <1>3, Untouched
<1>5. QueuesOK'
  BY <1>0, <1>1 DEF QueuesOK
<1> QED BY <1>4, <1>5 DEF StreamInv, StreamConserved, Conserved, Joined

(* The rest of main_loop does not touch what the streams are made of.      *)
LEMMA OutsideStream ==
  ASSUME StreamInv, UNCHANGED <<c2s, effects, clientVars>>,
         \A c \in Conn : PutAside(c)' = PutAside(c),
         queued' = queued \/ queued' = <<>>
  PROVE  StreamInv'
<1>0. /\ QueuesOK
      /\ \A c \in Conn : Conserved(c)
  BY DEF StreamInv, StreamConserved, Conserved, Joined
<1>1. UNCHANGED <<phase, messages, issued>>
  BY DEF clientVars
<1>2. \A c \in Conn : Executed(c)' = Executed(c)
  BY DEF Executed
<1>3. \A c \in Conn : Conserved(c)'
  BY <1>0, <1>1, <1>2, Untouched
<1>4. queued' \in Seq(ClientMessage)
  BY <1>0, EmptySeq DEF QueuesOK
<1>5. QueuesOK'
  BY <1>0, <1>1, <1>4 DEF QueuesOK
<1> QED BY <1>3, <1>5 DEF StreamInv, StreamConserved, Conserved, Joined

LEMMA OutsideExchangeStream ==
  ASSUME StreamInv, UNCHANGED <<c2s, effects, queued, clientVars>>,
         pc \notin {"wait", "flush"}, pc' \notin {"wait", "flush"}
  PROVE  StreamInv'
<1>1. \A c \in Conn : PutAside(c)' = PutAside(c)
  BY DEF PutAside
<1> QED BY <1>1, OutsideStream

LEMMA ServerStream ==
  ASSUME IInv, StreamInv, ServerStep \/ Resume
  PROVE  StreamInv'
<1>1. UNCHANGED clientVars /\ (ServerNext \/ Continue)
  BY DEF ServerStep, Resume
<1> USE <1>1, OutsideExchangeStream
<1>2. CASE SendRequest
  <2>1. /\ pc = "send" /\ queued' = <<>> /\ UNCHANGED <<c2s, effects>>
    BY <1>2 DEF SendRequest, ServerWrite
  <2>2. \A c \in Conn : PutAside(c)' = PutAside(c)
    BY <2>1 DEF PutAside
  <2> QED BY <2>1, <2>2, OutsideStream
<1>3. CASE TransceiveReturn
  <2>1. /\ pc' = "send" /\ queued = <<>> /\ UNCHANGED <<c2s, effects, queued>>
    BY <1>3 DEF TransceiveReturn, socketVars
  <2>2. \A c \in Conn : PutAside(c)' = PutAside(c)
    BY <2>1 DEF PutAside
  <2> QED BY <2>1, <2>2, OutsideStream
<1>4. CASE WaitResponse
  BY <1>4, WaitStream
<1>5. CASE FlushQueued
  BY <1>5, FlushQueuedStream
<1>6. CASE RequestDone
  BY <1>6, RequestDoneStream
<1>7. CASE ReadClient
  BY <1>7, ReadClientStream
<1>8. CASE PselectReady \/ PselectSignal
  BY <1>8 DEF PselectReady, PselectSignal, PselectOK, socketVars, loopVars
<1>9. CASE HandleSignals \/ Continue
  BY <1>9 DEF HandleSignals, handle_term_signal, handle_winch_signal, loopVars,
              handle_tstp_signal, SignalsDone, Continue, Done, ServerGone,
              socketVars
<1>10. CASE ReadTty
  <2>1. pc = "tty" /\ pc' \in {"key", "waitpid", "pty"}
          /\ UNCHANGED <<socketVars, effects, queued>>
    BY <1>10 DEF ReadTty
  <2> QED BY <2>1 DEF socketVars
<1>11. CASE ReadTtyError \/ WaitPid
  BY <1>11 DEF ReadTtyError, WaitPid, Done, ServerGone, loopVars
<1>12. CASE NextKey
  <2>1. pc = "key" /\ pc' \in {"send", "pty"} /\ UNCHANGED <<socketVars, effects, queued>>
    BY <1>12 DEF NextKey
  <2> QED BY <2>1 DEF socketVars
<1>13. CASE SendFails \/ SendKills
  BY <1>13 DEF SendFails, SendKills, ServerGone, socketVars, loopVars
<1>14. CASE ReadPty \/ ClientsDone
  <2>1. /\ pc \in {"pty", "clients"} /\ pc' \in {"accept", "waitpid", "pselect"}
        /\ UNCHANGED <<socketVars, effects, queued>>
    BY <1>14 DEF ReadPty, ClientsDone, loopVars
  <2> QED BY <2>1 DEF socketVars
<1>15. CASE AcceptClient
  <2>1. /\ pc = "accept" /\ pc' \in {"clients", "undefined"}
        /\ UNCHANGED <<c2s, effects, queued>>
    BY <1>15 DEF AcceptClient, ServerAccept, socketVars
  <2> QED BY <2>1
<1> QED BY <1>2, <1>3, <1>4, <1>5, <1>6, <1>7, <1>8, <1>9, <1>10, <1>11, <1>12,
           <1>13, <1>14, <1>15 DEF ServerNext, Transceive

(* StreamInv is inductive, together with IInv. *)
LEMMA StreamStep == IInv /\ StreamInv /\ [Next]_vars => StreamInv'
<1> SUFFICES ASSUME IInv, StreamInv, [Next]_vars PROVE StreamInv'
  OBVIOUS
<1>1. ASSUME NEW c \in Conn, ClientStep(c)
      PROVE  StreamInv'
  BY <1>1, ClientStream
<1>2. CASE EnvironmentStep \/ UNCHANGED vars
  <2>1. UNCHANGED <<socketVars, clientVars, serverVars>>
    BY <1>2 DEF EnvironmentStep, vars
  <2>2. UNCHANGED <<c2s, effects, queued>> /\ \A c \in Conn : PutAside(c)' = PutAside(c)
    BY <2>1 DEF socketVars, serverVars, PutAside, Peer
  <2> QED BY <2>1, <2>2, OutsideStream
<1> QED BY <1>1, <1>2, ServerStream DEF Next

(* Before the first step, all the streams are empty. *)
LEMMA InitStream == Init => StreamInv
<1> SUFFICES ASSUME Init PROVE StreamInv
  OBVIOUS
<1>1. /\ effects = <<>> /\ queued = <<>> /\ pc = "pselect"
      /\ \A c \in Conn : /\ c2s[c] = <<>> /\ messages[c] = <<>>
                          /\ issued[c] = <<>>
  BY DEF Init, SocketInit, ClientInit, ServerInit
<1>2. <<>> \in Seq(ClientMessage) /\ <<>> \in Seq(FromClient)
        /\ <<>> \in Seq(Effect)
  BY EmptySeq
<1>3. QueuesOK
  BY <1>1, <1>2 DEF QueuesOK, FromClient
<1>4. ASSUME NEW c \in Conn
      PROVE  Executed(c) = <<>> /\ PutAside(c) = <<>> /\ InSocket(c) = <<>>
  <2>1. PICK x \in Effect : TRUE
    BY NoEffect
  <2>2. NoMessage \in FromClient
    BY MessageTypes DEF FromClient, NoMessage, ServerRequest
  <2>3. Only(<<>>, EffectOf(c)) = <<>> /\ Only(<<>>, ClientMessage) = <<>>
    BY <1>2, <2>1, <2>2, OnlyAppend
  <2>4. Executed(c) = Causes(<<>>) /\ InSocket(c) = <<>>
    BY <1>1, <2>3 DEF Executed, Causes, InSocket
  <2>5. Causes(<<>>) = <<>>
    BY DEF Causes
  <2> QED BY <1>1, <2>4, <2>5 DEF PutAside
<1>5. <<>> \o <<>> = <<>>
  BY <1>2, ConcatEmptySeq
<1> QED BY <1>1, <1>3, <1>4, <1>5 DEF StreamInv, StreamConserved

(* A client that is not in the middle of a dispatch has nothing left to    *)
(* write, so that what it writes next cannot overtake; nothing but clients'*)
(* messages is put aside or on its way to fep; and the streams are whole.  *)
THEOREM StreamInvariance == Spec => []StreamInv
BY InitStream, StreamStep, Invariance, PTL DEF Spec

(* What a client asked for is executed in the order it asked, nothing      *)
(* twice and nothing skipped, with any number of clients that come, go and *)
(* die at any time, whatever the table of clients has become: it is        *)
(* executed, put aside, in the socket or queued, in this order.            *)
THEOREM StreamConservation == Spec => []StreamConserved
<1>1. StreamInv => StreamConserved
  BY DEF StreamInv
<1> QED BY <1>1, StreamInvariance, PTL
=============================================================================
