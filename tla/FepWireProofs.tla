---------------------------- MODULE FepWireProofs ----------------------------
(* Proofs about FepWire: which lengths survive the length word, and that   *)
(* where all of them do, the bytes in the socket carry whole messages.     *)
EXTENDS FepWire, SequenceTheorems, WellFoundedInduction, TLAPS

(* The bytes of a length word are bytes, and are the number in base 256.   *)
LEMMA WordBytes ==
  ASSUME NEW n \in Nat, n < 2147483648
  PROVE  /\ \A k \in 1 .. 4 : Word(n)[k] \in 0 .. 255
         /\ Word(n)[4] <= 127
         /\ n = 16777216 * Word(n)[4] + 65536 * Word(n)[3]
                  + 256 * Word(n)[2] + Word(n)[1]
<1> DEFINE b1 == n % 256
           q1 == n \div 256
           b2 == q1 % 256
           q2 == n \div 65536
           b3 == q2 % 256
           q3 == n \div 16777216
           b4 == q3 % 256
<1>1. /\ n = 256 * q1 + b1 /\ b1 \in 0 .. 255 /\ q1 \in Nat
      /\ q2 = q1 \div 256 /\ q3 = q2 \div 256
      /\ q3 \in 0 .. 127
  BY SMTT(30)
<1>2. q1 = 256 * q2 + b2 /\ b2 \in 0 .. 255 /\ q2 \in Nat
  BY SMTT(30), <1>1
<1>3. q2 = 256 * q3 + b3 /\ b3 \in 0 .. 255
  BY SMTT(30), <1>1, <1>2
<1>4. b4 = q3 /\ b4 \in 0 .. 127
  BY SMTT(30), <1>1
<1>5. n = 16777216 * b4 + 65536 * b3 + 256 * b2 + b1
  BY SMTT(30), <1>1, <1>2, <1>3, <1>4
<1>6. /\ Word(n)[1] = b1 /\ Word(n)[2] = b2 /\ Word(n)[3] = b3 /\ Word(n)[4] = b4
      /\ \A k \in 1 .. 4 : k = 1 \/ k = 2 \/ k = 3 \/ k = 4
  BY SMTT(30) DEF Word
<1> HIDE DEF b1, b2, b3, b4, q1, q2, q3
<1>7. \A k \in 1 .. 4 : Word(n)[k] \in 0 .. 255
  BY SMTT(30), <1>1, <1>2, <1>3, <1>4, <1>6
<1> QED BY SMT, <1>4, <1>5, <1>6, <1>7

(* The reader's length is the writer's, for every length below 2^31, where *)
(* char is unsigned; where it is signed, if none of the three low bytes of *)
(* the word is above 127.                                                  *)
THEOREM LengthRoundTrip ==
  ASSUME NEW n \in Nat, n < 2147483648,
         CharSigned => \A k \in 1 .. 3 : Word(n)[k] <= 127
  PROVE  Decode(Word(n)) = n
<1> DEFINE b == Word(n)
<1>1. /\ \A k \in 1 .. 4 : b[k] \in 0 .. 255
      /\ b[4] <= 127
      /\ n = 16777216 * b[4] + 65536 * b[3] + 256 * b[2] + b[1]
  BY SMT, WordBytes
<1>2. \A k \in 1 .. 3 : Char(b[k]) = b[k] /\ b[k] \in Nat
  BY SMTT(30), <1>1 DEF Char
<1>3. ~(Char(b[1]) < 0) /\ ~(Char(b[2]) < 0) /\ ~(Char(b[3]) < 0)
  BY SMT, <1>2
<1> HIDE DEF b
<1>4. Decode(b) = 16777216 * b[4] + 65536 * b[3] + 256 * b[2] + b[1]
  BY SMT, <1>1, <1>3 DEF Decode
<1> QED BY SMT, <1>1, <1>4 DEF b

(* Texts and data shorter than 128 bytes have their length read right on   *)
(* every platform: this is the case in which a client of fep can rely on   *)
(* its messages being delivered.                                           *)
THEOREM ShortLengths ==
  ASSUME NEW n \in 0 .. 127
  PROVE  Decode(Word(n)) = n
<1>1. /\ Word(n)[1] = n /\ Word(n)[2] = 0 /\ Word(n)[3] = 0
  BY SMTT(30) DEF Word
<1>2. \A k \in 1 .. 3 : Word(n)[k] <= 127
  <2>1. \A k \in 1 .. 3 : k = 1 \/ k = 2 \/ k = 3
    BY SMT
  <2> QED BY SMT, <1>1, <2>1
<1>3. n \in Nat /\ n < 2147483648
  BY SMT
<1> QED BY SMT, <1>2, <1>3, LengthRoundTrip

(* Where char is signed, no length with a low byte above 127 is read right *)
(* (the first is 128): the decoded number is negative, and as a uint32_t   *)
(* at least 2^32 - 128.                                                    *)
THEOREM LongLengthsLost ==
  ASSUME NEW n \in Nat, n < 2147483648, CharSigned = TRUE, Word(n)[1] > 127
  PROVE  Decode(Word(n)) \in -128 .. -1
<1> DEFINE b == Word(n)
<1>1. b[1] \in 128 .. 255
  BY SMTT(30) DEF Word
<1>2. Char(b[1]) = b[1] - 256 /\ Char(b[1]) < 0
  BY SMT, <1>1 DEF Char
<1> HIDE DEF b
<1>3. Decode(b) = b[1] - 256
  BY SMT, <1>2 DEF Decode
<1> QED BY SMT, <1>1, <1>3 DEF b

-----------------------------------------------------------------------------
(* The messages and their bytes. *)

Byte == 0 .. 255

LEMMA FunctionIsSeq ==
  ASSUME NEW S, NEW n \in Nat, NEW f \in [1 .. n -> S]
  PROVE  f \in Seq(S) /\ Len(f) = n
<1>1. f \in Seq(S)
  BY Zenon, SeqDef
<1>2. Len(f) \in Nat /\ DOMAIN f = 1 .. Len(f)
  BY Zenon, <1>1, LenProperties
<1>3. DOMAIN f = 1 .. n
  BY Zenon
<1> QED BY SMT, <1>1, <1>2, <1>3

LEMMA BytesAre ==
  ASSUME NEW n \in Nat
  PROVE  Bytes(n) \in Seq(Byte) /\ Len(Bytes(n)) = n
<1>1. \A k \in 1 .. n : k % 256 \in Byte
  BY SMT DEF Byte
<1>2. Bytes(n) \in [1 .. n -> Byte]
  BY Zenon, <1>1 DEF Bytes
<1> QED BY Zenon, <1>2, FunctionIsSeq

(* What the writer is given: a command and its arguments, each of which is *)
(* bytes of an ordinary length.                                            *)
IsMessage(m) ==
  /\ m = [command |-> m.command, args |-> m.args]
  /\ m.command \in Commands /\ m.command \in DOMAIN Code
  /\ m.args \in Seq(Seq(Byte))
  /\ Len(m.args) = NArgs[m.command] /\ Len(m.args) \in 1 .. 3
  /\ \A a \in 1 .. Len(m.args) :
       /\ m.args[a] \in Seq(Byte)
       /\ Len(m.args[a]) \in Lengths \cup {0, 1, 4, 16}

LEMMA MessageShape ==
  ASSUME NEW m \in Messages
  PROVE  IsMessage(m)
<1> DEFINE L == Lengths \cup {0, 1, 4, 16}
<1>1. PICK c \in Commands :
        m \in {[command |-> c, args |-> [a \in 1 .. NArgs[c] |-> Bytes(ls[a])]] :
                ls \in {f \in [1 .. NArgs[c] -> L] :
                          \A a \in 1 .. NArgs[c] : f[a] \in ArgLengths[c][a]}}
  BY SMT DEF Messages
<1>2. PICK ls \in [1 .. NArgs[c] -> L] :
        m = [command |-> c, args |-> [a \in 1 .. NArgs[c] |-> Bytes(ls[a])]]
  BY Zenon, <1>1
<1>3. c \in DOMAIN Code /\ NArgs[c] \in 1 .. 3
  <2>1. c \in DOMAIN Code
    BY Zenon, CommandsAssumption
  <2> QED BY SMT, <2>1 DEF Code, NArgs
<1> DEFINE n == NArgs[c]
<1>4. m.command = c /\ m.args = [a \in 1 .. n |-> Bytes(ls[a])]
  BY Zenon, <1>2
<1>5. ls \in [1 .. n -> L] /\ n \in 1 .. 3
  BY Zenon, <1>2, <1>3
<1>6. m = [command |-> m.command, args |-> m.args]
  BY Zenon, <1>2, <1>4
<1> HIDE DEF n
<1>7. \A l \in L : l \in Nat
  BY SMTT(30), LengthsAssumption
<1>8. \A a \in 1 .. n : ls[a] \in L /\ ls[a] \in Nat
  BY Zenon, <1>5, <1>7
<1> HIDE DEF L
<1>9. \A a \in 1 .. n : /\ m.args[a] \in Seq(Byte)
                        /\ Len(m.args[a]) = ls[a]
  BY Zenon, <1>4, <1>8, BytesAre
<1>10. m.args \in [1 .. n -> Seq(Byte)]
  BY Zenon, <1>4, <1>9
<1>11. n \in Nat
  BY SMT, <1>5
<1>12. m.args \in Seq(Seq(Byte))
  BY Zenon, <1>10, <1>11, FunctionIsSeq
<1>13. Len(m.args) = n
  BY Zenon, <1>10, <1>11, FunctionIsSeq
<1>14. \A a \in 1 .. Len(m.args) : m.args[a] \in Seq(Byte) /\ Len(m.args[a]) \in L
  BY Zenon, <1>8, <1>9, <1>13
<1>15. Len(m.args) = NArgs[m.command] /\ Len(m.args) \in 1 .. 3
  BY Zenon, <1>4, <1>5, <1>13 DEF n
<1> QED BY Zenon, <1>3, <1>4, <1>6, <1>12, <1>14, <1>15 DEF IsMessage, L

(* Where the arguments begin. *)
LEMMA Offsets ==
  ASSUME NEW m, IsMessage(m)
  PROVE  /\ At(m, 1) = 1
         /\ \A a \in 1 .. Len(m.args) :
              /\ Len(m.args[a]) \in Nat
              /\ At(m, a) \in Nat /\ At(m, a) >= 1
              /\ At(m, a + 1) = At(m, a) + 4 + Len(m.args[a])
              /\ At(m, a + 1) <= Size(m)
         /\ Size(m) \in Nat /\ Size(m) >= 5
<1> DEFINE n == Len(m.args)
           l(a) == Len(m.args[a])
<1>1. n \in 1 .. 3
  BY DEF IsMessage
<1>2. \A a \in 1 .. n : l(a) \in Nat
  BY Zenon, LenProperties DEF IsMessage
<1>3. \A a : At(m, a) = 1 + (IF a > 1 THEN 4 + l(1) ELSE 0)
                         + (IF a > 2 THEN 4 + l(2) ELSE 0)
                         + (IF a > 3 THEN 4 + l(3) ELSE 0)
  BY Zenon DEF At
<1>4. Size(m) = At(m, n + 1)
  BY DEF Size
<1> HIDE DEF n, l
<1>5. At(m, 1) = 1
  BY SMT, <1>3
<1>6. n >= 1 => l(1) \in Nat
  BY SMT, <1>1, <1>2
<1>7. n >= 2 => l(2) \in Nat
  BY SMT, <1>1, <1>2
<1>8. n >= 3 => l(3) \in Nat
  BY SMT, <1>1, <1>2
<1>9. At(m, 2) = 5 + l(1)
  BY SMT, <1>1, <1>3, <1>6
<1>10. n >= 2 => At(m, 3) = 9 + l(1) + l(2)
  BY SMT, <1>3, <1>6, <1>7, <1>1
<1>11. n >= 3 => At(m, 4) = 13 + l(1) + l(2) + l(3)
  BY SMT, <1>3, <1>6, <1>7, <1>8, <1>1
<1>12. n = 1 \/ n = 2 \/ n = 3
  BY SMT, <1>1
<1>13. \A a \in 1 .. n :
         /\ l(a) \in Nat
         /\ At(m, a) \in Nat /\ At(m, a) >= 1
         /\ At(m, a + 1) = At(m, a) + 4 + l(a)
         /\ At(m, a + 1) <= Size(m)
  <2>1. CASE n = 1
    BY SMT, <2>1, <1>2, <1>4, <1>5, <1>6, <1>9
  <2>2. CASE n = 2
    BY SMT, <2>2, <1>2, <1>4, <1>5, <1>6, <1>7, <1>9, <1>10
  <2>3. CASE n = 3
    BY SMT, <2>3, <1>2, <1>4, <1>5, <1>6, <1>7, <1>8, <1>9, <1>10, <1>11
  <2> QED BY <1>12, <2>1, <2>2, <2>3
<1>14. Size(m) \in Nat /\ Size(m) >= 5
  BY SMT, <1>12, <1>4, <1>6, <1>7, <1>8, <1>9, <1>10, <1>11
<1> QED BY <1>5, <1>13, <1>14 DEF l, n

LEMMA ByteOfArg ==
  ASSUME NEW m, NEW o, NEW a, o # 1,
         (IF o <= At(m, 2) THEN 1 ELSE IF o <= At(m, 3) THEN 2 ELSE 3) = a
  PROVE  ByteAt(m, o) = IF o - At(m, a) <= 4 THEN Word(Len(m.args[a]))[o - At(m, a)]
                        ELSE m.args[a][o - At(m, a) - 4]
BY Zenon DEF ByteAt

(* A byte of a message by its argument. *)
LEMMA BytesInPlace ==
  ASSUME NEW m, IsMessage(m), NEW a \in 1 .. Len(m.args)
  PROVE  /\ \A k \in 1 .. 4 : ByteAt(m, At(m, a) + k) = Word(Len(m.args[a]))[k]
         /\ \A k \in 1 .. Len(m.args[a]) : ByteAt(m, At(m, a) + 4 + k) = m.args[a][k]
<1> DEFINE l == Len(m.args[a])
           at(x) == At(m, x)
           argOf(o) == IF o <= at(2) THEN 1 ELSE IF o <= at(3) THEN 2 ELSE 3
<1>1. /\ at(1) = 1
      /\ \A x \in 1 .. Len(m.args) :
           /\ Len(m.args[x]) \in Nat
           /\ at(x) \in Nat /\ at(x) >= 1
           /\ at(x + 1) = at(x) + 4 + Len(m.args[x])
           /\ at(x + 1) <= Size(m)
  BY Offsets
<1>2. Len(m.args) \in 1 .. 3
  BY DEF IsMessage
<1>4. l \in Nat /\ at(a) \in Nat /\ at(a) >= 1 /\ at(a + 1) = at(a) + 4 + l
  BY Zenon, <1>1
<1>5. a = 1 \/ (a = 2 /\ at(2) \in Nat) \/ (a = 3 /\ at(2) \in Nat /\ at(3) \in Nat /\ at(2) <= at(3))
  <2> DEFINE N == Len(m.args)
  <2>0. N \in 1 .. 3 /\ a \in 1 .. N
    BY <1>2
  <2> HIDE DEF N
  <2>1. a = 1 \/ a = 2 \/ a = 3
    BY SMT, <2>0
  <2>2. a = 3 => 2 \in 1 .. Len(m.args)
    BY SMT, <1>2
  <2> HIDE DEF at
  <2>3. a = 3 => /\ Len(m.args[2]) \in Nat /\ at(2) \in Nat
                 /\ at(2 + 1) = at(2) + 4 + Len(m.args[2])
    BY Zenon, <1>1, <2>2
  <2> QED BY SMT, <1>4, <2>1, <2>3
<1> HIDE DEF at, l
<1>6. \A k \in 1 .. 4 + l : argOf(at(a) + k) = a /\ at(a) + k # 1
  <2>1. CASE a = 1
    BY SMT, <1>1, <1>4, <2>1
  <2>2. CASE a = 2 /\ at(2) \in Nat
    BY SMT, <1>1, <1>4, <2>2
  <2>3. CASE a = 3 /\ at(2) \in Nat /\ at(3) \in Nat /\ at(2) <= at(3)
    BY SMT, <1>4, <2>3
  <2> QED BY <1>5, <2>1, <2>2, <2>3
<1> HIDE DEF argOf
<1>7. ASSUME NEW k \in 1 .. 4 + l, NEW o, o = at(a) + k
      PROVE  /\ k <= 4 => ByteAt(m, o) = Word(Len(m.args[a]))[k]
             /\ ~(k <= 4) => ByteAt(m, o) = m.args[a][k - 4]
  <2>1. argOf(o) = a /\ o # 1
    BY <1>6, <1>7
  <2>2. ByteAt(m, o) = IF o - at(a) <= 4 THEN Word(Len(m.args[a]))[o - at(a)]
                       ELSE m.args[a][o - at(a) - 4]
    BY Zenon, <2>1, ByteOfArg DEF argOf, at
  <2>3. o - at(a) = k
    BY SMT, <1>4, <1>7
  <2> QED BY Zenon, <2>2, <2>3
<1>8. ASSUME NEW k \in 1 .. 4
      PROVE  ByteAt(m, at(a) + k) = Word(Len(m.args[a]))[k]
  <2>1. k \in 1 .. 4 + l /\ k <= 4
    BY SMT, <1>4
  <2> QED BY Zenon, <1>7, <2>1
<1>9. ASSUME NEW k \in 1 .. l
      PROVE  ByteAt(m, at(a) + 4 + k) = m.args[a][k]
  <2> DEFINE j == 4 + k
  <2>1. /\ j \in 1 .. 4 + l /\ ~(j <= 4) /\ j - 4 = k
        /\ at(a) + 4 + k = at(a) + j
    BY SMT, <1>4
  <2> HIDE DEF j
  <2>2. ByteAt(m, at(a) + j) = m.args[a][j - 4]
    BY Zenon, <1>7, <2>1
  <2> QED BY Zenon, <2>1, <2>2
<1> QED BY <1>8, <1>9 DEF at, l

LEMMA CommandByte ==
  ASSUME NEW m
  PROVE  ByteAt(m, 1) = Code[m.command]
BY DEF ByteAt

(* The commands are told apart by their byte. *)
LEMMA CodeInjective ==
  /\ \A c, d \in DOMAIN Code : Code[c] = Code[d] => c = d
  /\ \A c \in DOMAIN Code : Code[c] \in Byte
<1>1. \A c \in DOMAIN Code : Code[c] \in Byte
  BY SMT DEF Code, Byte
<1>2. \A c, d \in DOMAIN Code : Code[c] = Code[d] => c = d
  BY SMT DEF Code
<1> QED BY <1>1, <1>2

-----------------------------------------------------------------------------
(* The layout of a stream of bytes, as it is written and read. *)

(* Bytes are added to the last message. *)
LEMMA PlacedLonger ==
  ASSUME NEW str \in Seq(Byte), NEW s \in Seq(Byte), NEW M, NEW N,
         NEW r \in Nat, NEW w \in Nat, r <= w,
         NEW B \in [Nat -> Int], NEW n \in Nat,
         Placed(str, M, r, w, B, n),
         \A k \in r .. w - 1 : N[k] = M[k] /\ Size(M[k]) \in Nat,
         n = 0 \/ N[w] = M[w],
         \A k \in 1 .. Len(s) : s[k] = ByteAt(N[w], n + k)
  PROVE  Placed(str \o s, N, r, w, B, n + Len(s))
<1>1. /\ Len(str) \in Nat /\ Len(s) \in Nat
      /\ Len(str \o s) = Len(str) + Len(s)
  BY LenProperties, ConcatProperties
<1>2. \A x \in 1 .. Len(str) + Len(s) :
        (str \o s)[x] = IF x <= Len(str) THEN str[x] ELSE s[x - Len(str)]
  BY ConcatProperties
<1>3. /\ Len(str) = B[w] + n
      /\ \A k \in r .. w - 1 : B[k + 1] = B[k] + Size(M[k])
      /\ \A k \in r .. w : B[k] <= B[w]
  BY DEF Placed
<1>4. \A k \in r .. w : \A o \in 1 .. Size(M[k]) :
        B[k] + o \in 1 .. Len(str) => str[B[k] + o] = ByteAt(M[k], o)
  BY DEF Placed
<1>5. \A k \in r .. w : k \in Nat /\ B[k] \in Int
  BY SMT
<1> DEFINE t == str \o s
<1>6. Len(t) = B[w] + (n + Len(s))
  BY SMTT(30), <1>1, <1>3, <1>5
<1>7. \A k \in r .. w - 1 : B[k + 1] = B[k] + Size(N[k])
  BY Zenon, <1>3
<1> HIDE DEF t
<1>8. ASSUME NEW k \in r .. w, NEW o \in 1 .. Size(N[k]), B[k] + o \in 1 .. Len(t)
      PROVE  t[B[k] + o] = ByteAt(N[k], o)
  <2>0. k \in Nat /\ B[k] \in Int /\ B[w] \in Int /\ o \in Int /\ o >= 1
    BY SMT, <1>5
  <2>a. /\ Len(str) \in Nat /\ Len(s) \in Nat /\ Len(str) = B[w] + n
        /\ Len(t) = Len(str) + Len(s)
        /\ B[k] + o \in 1 .. Len(t)
    BY <1>1, <1>3, <1>8 DEF t
  <2>1. CASE k # w
    <3>1. k \in r .. w - 1 /\ k + 1 \in r .. w
      BY SMT, <2>1
    <3>2. N[k] = M[k] /\ Size(M[k]) \in Nat /\ B[k + 1] = B[k] + Size(M[k]) /\ B[k + 1] <= B[w]
      BY Zenon, <1>3, <3>1
    <3>3. o \in 1 .. Size(M[k])
      BY Zenon, <3>2
    <3> DEFINE z == Size(M[k])
               b == B[k]
    <3>4. z \in Nat /\ b \in Int /\ b + z <= B[w] /\ o \in 1 .. z
      BY Zenon, <3>2, <3>3, <2>0
    <3>5. b + o \in 1 .. Len(str) /\ b + o <= Len(str) /\ b + o \in 1 .. Len(str) + Len(s)
      <4> DEFINE L == Len(str)
                 S == Len(s)
                 W == B[w]
      <4>1. /\ b + o \in 1 .. L + S /\ L \in Nat /\ S \in Nat /\ L = W + n /\ W \in Int
            /\ z \in Nat /\ b \in Int /\ b + z <= W /\ o \in 1 .. z
        BY <2>a, <2>0, <3>4
      <4> HIDE DEF z, b, L, S, W
      <4>2. b + o \in 1 .. L /\ b + o <= L
        BY SMT, <4>1
      <4> QED BY <4>1, <4>2 DEF L, S, W, b
    <3>6. t[b + o] = str[b + o]
      BY Zenon, <1>2, <3>5 DEF t
    <3> QED BY Zenon, <1>4, <3>2, <3>3, <3>5, <3>6
  <2>2. CASE k = w /\ B[w] + o <= Len(str)
    <3>1. o <= n /\ n # 0
      BY SMTT(30), <1>3, <2>0, <2>2
    <3>2. N[w] = M[w]
      BY <3>1
    <3>3. B[w] + o \in 1 .. Len(str) /\ B[w] + o \in 1 .. Len(str) + Len(s)
      BY SMT, <1>1, <1>8, <2>0, <2>2
    <3>4. t[B[w] + o] = str[B[w] + o]
      BY Zenon, <1>2, <2>2, <3>3 DEF t
    <3> QED BY Zenon, <1>4, <2>2, <3>2, <3>3, <3>4
  <2>3. CASE k = w /\ ~(B[w] + o <= Len(str))
    <3> DEFINE x == B[w] + o
               y == x - Len(str)
    <3>0. B[w] + o \in 1 .. Len(t)
      BY Zenon, <2>a, <2>3
    <3>1. x \in 1 .. Len(str) + Len(s) /\ ~(x <= Len(str)) /\ y \in 1 .. Len(s) /\ n + y = o
      <4> DEFINE L == Len(str)
                 S == Len(s)
                 W == B[w]
      <4>1. /\ L \in Nat /\ S \in Nat /\ L = W + n /\ W \in Int /\ o \in Int
            /\ W + o \in 1 .. L + S /\ ~(W + o <= L)
        BY Zenon, <2>a, <2>0, <2>3, <3>0
      <4> HIDE DEF L, S, W
      <4>2. (W + o) - L \in 1 .. S /\ n + ((W + o) - L) = o
        BY SMT, <4>1
      <4> QED BY Zenon, <4>1, <4>2 DEF L, S, W
    <3> HIDE DEF x
    <3>2. t[x] = s[y]
      BY Zenon, <1>2, <3>1 DEF t
    <3>3. s[y] = ByteAt(N[w], n + y)
      BY Zenon, <3>1
    <3> QED BY Zenon, <2>3, <3>1, <3>2, <3>3 DEF x
  <2> QED BY <2>1, <2>2, <2>3
<1> QED BY Zenon, <1>3, <1>6, <1>7, <1>8 DEF Placed, t

(* The last message is complete, and another begins. *)
LEMMA PlacedNext ==
  ASSUME NEW str \in Seq(Byte), NEW M, NEW N,
         NEW r \in Nat, NEW w \in Nat, r <= w,
         NEW B \in [Nat -> Int], NEW n \in Nat,
         Placed(str, M, r, w, B, n),
         \A k \in r .. w : N[k] = M[k],
         n = Size(M[w])
  PROVE  Placed(str, N, r, w + 1, [B EXCEPT ![w + 1] = B[w] + n], 0)
<1> DEFINE C == [B EXCEPT ![w + 1] = B[w] + n]
<1>1. /\ Len(str) = B[w] + n /\ Len(str) \in Nat
      /\ \A k \in r .. w - 1 : B[k + 1] = B[k] + Size(M[k])
      /\ \A k \in r .. w : B[k] <= B[w]
  BY LenProperties DEF Placed
<1>2. \A k \in r .. w : \A o \in 1 .. Size(M[k]) :
        B[k] + o \in 1 .. Len(str) => str[B[k] + o] = ByteAt(M[k], o)
  BY DEF Placed
<1>3. w + 1 \in Nat /\ B[w] \in Int
  BY SMT
<1>4. C[w + 1] = Len(str)
  BY Zenon, <1>1, <1>3
<1>5. \A k \in r .. w : k \in Nat /\ k # w + 1 /\ B[k] \in Int
  BY SMT
<1>6. \A k \in r .. w : C[k] = B[k]
  BY Zenon, <1>5
<1> HIDE DEF C
<1>7. ASSUME NEW k \in r .. w PROVE C[k + 1] = C[k] + Size(N[k])
  <2>1. CASE k = w
    BY Zenon, <1>1, <1>4, <1>6, <2>1
  <2>2. CASE k # w
    <3>1. k \in r .. w - 1 /\ k + 1 \in r .. w
      BY SMT, <2>2
    <3> QED BY Zenon, <1>1, <1>6, <3>1
  <2> QED BY <2>1, <2>2
<1>8. \A k \in r .. w + 1 : k \in r .. w \/ k = w + 1
  BY SMT
<1>9. \A k \in r .. w + 1 : C[k] <= C[w + 1]
  <2>1. ASSUME NEW k \in r .. w PROVE C[k] <= C[w + 1]
    <3>1. C[k] = B[k] /\ B[k] <= B[w] /\ B[k] \in Int
      BY Zenon, <1>1, <1>5, <1>6
    <3>2. B[w] <= Len(str) /\ Len(str) \in Int
      BY SMT, <1>1, <1>3
    <3>3. B[k] <= Len(str)
      BY SMT, <1>3, <3>1, <3>2
    <3> QED BY Zenon, <1>4, <3>1, <3>3
  <2>2. C[w + 1] <= C[w + 1]
    BY SMT, <1>1, <1>4
  <2> QED BY Zenon, <1>8, <2>1, <2>2
<1>10. ASSUME NEW k \in r .. w + 1, NEW o \in 1 .. Size(N[k]), C[k] + o \in 1 .. Len(str)
       PROVE  str[C[k] + o] = ByteAt(N[k], o)
  <2>1. CASE k = w + 1
    <3>1. Len(str) + o \in 1 .. Len(str)
      BY Zenon, <1>4, <1>10, <2>1
    <3>2. FALSE
      BY SMTT(30), <1>1, <3>1
    <3> QED BY <3>2
  <2>2. CASE k \in r .. w
    BY Zenon, <1>2, <1>6, <1>10, <2>2
  <2> QED BY <1>8, <2>1, <2>2
<1>11. Len(str) = C[w + 1] + 0
  BY SMT, <1>1, <1>4
<1>12. \A k \in r .. (w + 1) - 1 : k \in r .. w
  BY SMT
<1>13. \A k \in r .. (w + 1) - 1 : C[k + 1] = C[k] + Size(N[k])
  BY Zenon, <1>7, <1>12
<1> QED BY Zenon, <1>9, <1>10, <1>11, <1>13 DEF Placed, C

(* Bytes are taken from the front. *)
LEMMA PlacedTaken ==
  ASSUME NEW str \in Seq(Byte), NEW M, NEW r \in Nat, NEW w \in Nat,
         NEW q \in r .. w, NEW B \in [Nat -> Int], NEW n \in Nat,
         NEW c \in 0 .. Len(str),
         Placed(str, M, r, w, B, n),
         \A k \in r .. w - 1 : Size(M[k]) \in Nat
  PROVE  /\ SubSeq(str, c + 1, Len(str)) \in Seq(Byte)
         /\ Placed(SubSeq(str, c + 1, Len(str)), M, q, w, [k \in Nat |-> B[k] - c], n)
<1> DEFINE t == SubSeq(str, c + 1, Len(str))
           C == [k \in Nat |-> B[k] - c]
<1>1. /\ Len(str) = B[w] + n
      /\ \A k \in r .. w - 1 : B[k + 1] = B[k] + Size(M[k])
      /\ \A k \in r .. w : B[k] <= B[w]
  BY DEF Placed
<1>2. \A k \in r .. w : \A o \in 1 .. Size(M[k]) :
        B[k] + o \in 1 .. Len(str) => str[B[k] + o] = ByteAt(M[k], o)
  BY DEF Placed
<1>3. Len(str) \in Nat /\ c \in Int /\ c >= 0
  BY SMT, LenProperties
<1>4. \A x \in c + 1 .. Len(str) : str[x] \in Byte
  <2>1. \A x \in c + 1 .. Len(str) : x \in 1 .. Len(str)
    BY SMT, <1>3
  <2> QED BY <2>1, ElementOfSeq
<1>5. /\ t \in Seq(Byte)
      /\ Len(t) = IF c + 1 <= Len(str) THEN Len(str) - (c + 1) + 1 ELSE 0
      /\ \A x \in 1 .. Len(str) - (c + 1) + 1 : t[x] = str[c + 1 + x - 1]
  <2>1. c + 1 \in Int /\ Len(str) \in Int
    BY SMT, <1>3
  <2> QED BY <1>4, <2>1, SubSeqProperties
<1>6. Len(t) = Len(str) - c
  BY SMT, <1>3, <1>5
<1>7. ASSUME NEW x \in 1 .. Len(t) PROVE t[x] = str[c + x] /\ c + x \in 1 .. Len(str)
  <2>1. /\ x \in 1 .. Len(str) - (c + 1) + 1
        /\ c + 1 + x - 1 = c + x
        /\ c + x \in 1 .. Len(str)
    BY SMT, <1>3, <1>6, <1>7
  <2> QED BY Zenon, <1>5, <2>1
<1> HIDE DEF t
<1>8. \A k \in q .. w : k \in r .. w /\ k \in Nat
  BY SMT
<1>9. \A k \in q .. w - 1 : k \in r .. w - 1 /\ k \in Nat /\ k + 1 \in Nat
  BY SMT
<1>10. \A k \in Nat : C[k] = B[k] - c /\ B[k] \in Int
  OBVIOUS
<1> HIDE DEF C
<1>11. Len(t) = C[w] + n
  <2>1. C[w] = B[w] - c /\ B[w] \in Int
    BY Zenon, <1>10
  <2>2. Len(str) = B[w] + n
    BY <1>1
  <2> QED BY SMT, <1>3, <1>6, <2>1, <2>2
<1>12. ASSUME NEW k \in q .. w - 1 PROVE C[k + 1] = C[k] + Size(M[k])
  <2> DEFINE z == Size(M[k])
  <2>1. B[k + 1] = B[k] + z
    BY Zenon, <1>1, <1>9
  <2>2. B[k + 1] \in Int /\ B[k] \in Int /\ C[k + 1] = B[k + 1] - c /\ C[k] = B[k] - c
    BY Zenon, <1>9, <1>10
  <2>3. z \in Nat
    BY Zenon, <1>9
  <2> HIDE DEF z
  <2>4. C[k + 1] = C[k] + z
    BY SMTT(30), <1>3, <2>1, <2>2, <2>3
  <2> QED BY <2>4 DEF z
<1>13. ASSUME NEW k \in q .. w PROVE C[k] <= C[w]
  <2>1. B[k] <= B[w] /\ B[k] \in Int /\ B[w] \in Int /\ C[k] = B[k] - c /\ C[w] = B[w] - c
    BY Zenon, <1>1, <1>8, <1>10
  <2> QED BY SMT, <1>3, <2>1
<1>14. ASSUME NEW k \in q .. w, NEW o \in 1 .. Size(M[k]), C[k] + o \in 1 .. Len(t)
       PROVE  t[C[k] + o] = ByteAt(M[k], o)
  <2>0. B[k] \in Int /\ C[k] = B[k] - c
    BY Zenon, <1>8, <1>10
  <2>1. o \in Int /\ B[k] \in Int /\ C[k] = B[k] - c
    BY SMT, <2>0
  <2>2. c + (C[k] + o) = B[k] + o
    BY SMTT(30), <1>3, <2>1
  <2>3. t[C[k] + o] = str[B[k] + o] /\ B[k] + o \in 1 .. Len(str)
    BY Zenon, <1>7, <1>14, <2>2
  <2> QED BY Zenon, <1>2, <1>8, <2>3
<1> QED BY Zenon, <1>5, <1>11, <1>12, <1>13, <1>14 DEF Placed, t, C

-----------------------------------------------------------------------------
(* What is known in every state: as long as the reader has not failed, the *)
(* bytes in the socket are what is between it and the writer.              *)

WireInv ==
  /\ WireTypeOK
  /\ rpc # "failed" =>
       /\ \E B \in [Nat -> Int], n \in Nat : Layout(B, n) /\ WriterOK(n)
       /\ ReaderOK

(* The messages by their number. *)
LEMMA AppendAny ==
  ASSUME NEW S, NEW ms \in Seq(S), NEW m
  PROVE  /\ Len(ms) \in Nat
         /\ \A k \in 1 .. Len(ms) : Append(ms, m)[k] = ms[k] /\ ms[k] \in S
         /\ Append(ms, m)[Len(ms) + 1] = m
<1> DEFINE T == S \cup {m}
<1>1. Len(ms) \in Nat
  BY Zenon, LenProperties
<1>2. \A k \in 1 .. Len(ms) : ms[k] \in S
  BY Zenon, ElementOfSeq
<1>3. ms \in Seq(T) /\ m \in T
  <2>1. S \subseteq T
    OBVIOUS
  <2> QED BY Zenon, <2>1, SeqMonotonic
<1> HIDE DEF T
<1>4. /\ Append(ms, m) \in Seq(T)
      /\ Append(ms, m) # << >>
      /\ Len(Append(ms, m)) = Len(ms) + 1
      /\ \A k \in 1 .. Len(ms) : Append(ms, m)[k] = ms[k]
      /\ Append(ms, m)[Len(ms) + 1] = m
  BY <1>3, AppendProperties
<1> QED BY <1>1, <1>2, <1>4

LEMMA Numbered ==
  ASSUME WireTypeOK
  PROVE  /\ Len(written) \in Nat /\ Len(received) \in Nat
         /\ Reading \in Nat /\ Writing \in Nat
         /\ \A k \in 1 .. Len(written) :
              Msgs[k] = written[k] /\ Msgs[k] \in Messages
         /\ Msgs[Writing] = message
<1>1. written \in Seq(Messages) /\ received \in Seq(Messages)
  BY DEF WireTypeOK
<1>2. Len(written) \in Nat /\ Len(received) \in Nat
  BY Zenon, <1>1, LenProperties
<1>3. Reading \in Nat /\ Writing \in Nat
  BY SMT, <1>2 DEF Reading, Writing
<1>4. /\ Len(written) \in Nat
      /\ \A k \in 1 .. Len(written) :
           Append(written, message)[k] = written[k] /\ written[k] \in Messages
      /\ Append(written, message)[Len(written) + 1] = message
  BY <1>1, AppendAny
<1> QED BY Zenon, <1>2, <1>3, <1>4 DEF Msgs, Writing

(* The messages that the reader has before it, but for the last, have been *)
(* written.                                                                *)
LEMMA Whole ==
  ASSUME WireTypeOK
  PROVE  \A k \in Reading .. Writing - 1 :
           /\ k \in 1 .. Len(written)
           /\ Msgs[k] \in Messages /\ IsMessage(Msgs[k])
           /\ Size(Msgs[k]) \in Nat
<1>1. \A k \in Reading .. Writing - 1 : k \in 1 .. Len(written)
  <2>1. Len(written) \in Nat /\ Len(received) \in Nat
    BY Numbered
  <2> QED BY SMT, <2>1 DEF Reading, Writing
<1>2. \A k \in 1 .. Len(written) : Msgs[k] \in Messages
  BY Numbered
<1>3. \A k \in 1 .. Len(written) : IsMessage(Msgs[k])
  BY Zenon, <1>2, MessageShape
<1>4. \A k \in 1 .. Len(written) : Size(Msgs[k]) \in Nat
  BY Zenon, <1>3, Offsets
<1> QED BY Zenon, <1>1, <1>2, <1>3, <1>4

(* In the middle of a message the reader has taken at least a byte. *)
LEMMA MidMessage ==
  ASSUME WireTypeOK, ReaderOK, rpc \in {"length", "payload"}
  PROVE  /\ Msgs[Reading] \in Messages /\ IsMessage(Msgs[Reading])
         /\ Len(args) + 1 \in 1 .. Len(Msgs[Reading].args)
         /\ Taken \in Nat /\ Taken >= 1
<1> DEFINE m == Msgs[Reading]
           a == Len(args) + 1
<1>1. m \in Messages /\ a <= Len(m.args)
  BY DEF ReaderOK
<1>2. IsMessage(m)
  BY <1>1, MessageShape
<1>3. Len(args) \in Nat /\ Len(arg) \in Nat
  BY LenProperties DEF WireTypeOK
<1>4. Len(m.args) \in Nat
  <2>1. Len(m.args) \in 1 .. 3
    BY <1>2 DEF IsMessage
  <2> QED BY SMT, <2>1
<1>5. a \in 1 .. Len(m.args)
  <2> DEFINE N == Len(m.args)
             l == Len(args)
  <2>1. N \in Nat /\ l \in Nat /\ l + 1 <= N
    BY <1>1, <1>3, <1>4
  <2> HIDE DEF N, l
  <2>2. l + 1 \in 1 .. N
    BY SMT, <2>1
  <2> QED BY <2>2 DEF N, l
<1>6. At(m, a) \in Nat /\ At(m, a) >= 1
  BY <1>2, <1>5, Offsets
<1>7. Taken = At(m, a) + (IF rpc = "payload" THEN 4 + Len(arg) ELSE 0)
  BY DEF Taken
<1> HIDE DEF m, a
<1>8. Taken \in Nat /\ Taken >= 1
  BY SMT, <1>3, <1>6, <1>7
<1> QED BY <1>1, <1>2, <1>5, <1>8 DEF m, a

(* A step of the writer does not move the reader. *)
LEMMA ReaderKept ==
  ASSUME WireTypeOK, ReaderOK, rpc # "failed", UNCHANGED readerVars,
         NEW B \in [Nat -> Int], NEW n \in Nat, Layout(B, n),
         \A k \in 1 .. Len(written) : Msgs'[k] = Msgs[k],
         n = 0 \/ Msgs'[Writing] = Msgs[Writing]
  PROVE  Taken' = Taken /\ ReaderOK' /\ Reading' = Reading
<1>1. /\ rpc' = rpc /\ command' = command /\ args' = args /\ arg' = arg
      /\ len' = len /\ received' = received
  BY DEF readerVars
<1>2. Reading' = Reading
  BY <1>1 DEF Reading
<1>3. CASE rpc = "command"
  <2>1. Taken = 0 /\ Taken' = 0
    BY <1>1, <1>3 DEF Taken
  <2>2. args = <<>>
    BY <1>3 DEF ReaderOK
  <2> QED BY Zenon, <1>1, <1>2, <1>3, <2>1, <2>2 DEF ReaderOK
<1>4. CASE rpc \in {"length", "payload"}
  <2>1. Taken \in Nat /\ Taken >= 1
    BY <1>4, MidMessage
  <2>2. /\ Len(written) \in Nat /\ Len(received) \in Nat
        /\ Reading \in Nat /\ Writing \in Nat
    BY Numbered
  <2>3. Reading <= Writing /\ B[Reading] = -Taken /\ Len(stream) = B[Writing] + n
    BY DEF Layout, Placed
  <2>4. Len(stream) \in Nat
    BY LenProperties DEF WireTypeOK
  <2>5. Msgs'[Reading] = Msgs[Reading]
    <3>1. CASE Reading = Writing
      <4>1. n # 0
        BY SMT, <2>1, <2>3, <2>4, <3>1
      <4> QED BY <3>1, <4>1
    <3>2. CASE Reading # Writing
      <4>1. Reading \in 1 .. Len(written)
        BY SMTT(30), <2>2, <2>3, <3>2 DEF Reading, Writing
      <4> QED BY <4>1
    <3> QED BY <3>1, <3>2
  <2>6. Msgs'[Reading'] = Msgs[Reading]
    BY Zenon, <1>2, <2>5
  <2>7. Taken' = Taken
    BY Zenon, <1>1, <2>6 DEF Taken
  <2>8. ReaderOK'
    BY Zenon, <1>1, <2>6 DEF ReaderOK
  <2> QED BY <1>2, <2>7, <2>8
<1>5. rpc \in {"command", "length", "payload", "failed"}
  BY DEF WireTypeOK
<1> QED BY <1>3, <1>4, <1>5

(* The writer writes bytes of its message, or the first one of another. *)
LEMMA WritesOn ==
  ASSUME WireInv, rpc # "failed", UNCHANGED <<written, readerVars>>,
         NEW B \in [Nat -> Int], NEW n \in Nat, Layout(B, n),
         NEW s \in Seq(Byte), stream' = stream \o s,
         n = 0 \/ message' = message,
         \A k \in 1 .. Len(s) : s[k] = ByteAt(message', n + k),
         WriterOK(n + Len(s))',
         wpc' \in {"idle", "length", "payload", "closed"}, i' \in Nat, total' \in Nat
  PROVE  WireInv'
<1>1. WireTypeOK /\ ReaderOK
  BY DEF WireInv
<1>2. /\ rpc' = rpc /\ command' = command /\ args' = args /\ arg' = arg
      /\ len' = len /\ received' = received /\ written' = written
  BY DEF readerVars
<1>3. /\ Len(written) \in Nat /\ Len(received) \in Nat
      /\ Reading \in Nat /\ Writing \in Nat
      /\ \A k \in 1 .. Len(written) :
           Msgs[k] = written[k] /\ Msgs[k] \in Messages
      /\ Msgs[Writing] = message
  BY <1>1, Numbered
<1>4. Writing' = Writing /\ Msgs' = Append(written, message')
  BY <1>2 DEF Writing, Msgs
<1>5. /\ \A k \in 1 .. Len(written) : Msgs'[k] = Msgs[k]
      /\ Msgs'[Writing] = message'
  <2>1. written \in Seq(Messages)
    BY <1>1 DEF WireTypeOK
  <2>2. /\ Len(written) \in Nat
        /\ \A k \in 1 .. Len(written) :
             Append(written, message')[k] = written[k] /\ written[k] \in Messages
        /\ Append(written, message')[Len(written) + 1] = message'
    BY SMTT(30), <2>1, AppendAny
  <2> QED BY Zenon, <1>3, <1>4, <2>2 DEF Writing
<1>6. Taken' = Taken /\ ReaderOK' /\ Reading' = Reading
  <2>1. n = 0 \/ Msgs'[Writing] = Msgs[Writing]
    BY Zenon, <1>3, <1>5
  <2> QED BY Zenon, <1>1, <1>5, <2>1, ReaderKept
<1>7. stream \in Seq(Byte)
  BY <1>1 DEF WireTypeOK, Byte
<1>8. /\ stream' \in Seq(Byte)
      /\ Len(s) \in Nat
  BY <1>7, ConcatProperties, LenProperties
<1>9. Reading <= Writing /\ B[Reading] = -Taken /\ Placed(stream, Msgs, Reading, Writing, B, n)
  BY DEF Layout
<1>10. \A k \in Reading .. Writing - 1 : Msgs'[k] = Msgs[k] /\ Size(Msgs[k]) \in Nat
  <2>1. \A k \in Reading .. Writing - 1 : k \in 1 .. Len(written) /\ Size(Msgs[k]) \in Nat
    BY Zenon, <1>1, Whole
  <2> QED BY Zenon, <1>5, <2>1
<1>11. \A k \in 1 .. Len(s) : s[k] = ByteAt(Msgs'[Writing], n + k)
  BY Zenon, <1>5
<1>12. n = 0 \/ Msgs'[Writing] = Msgs[Writing]
  BY Zenon, <1>3, <1>5
<1>13. Placed(stream \o s, Msgs', Reading, Writing, B, n + Len(s))
  BY <1>3, <1>7, <1>9, <1>10, <1>11, <1>12, PlacedLonger
<1>14. Layout(B, n + Len(s))'
  BY Zenon, <1>4, <1>6, <1>9, <1>13 DEF Layout
<1>15. WireTypeOK'
  BY Zenon, <1>1, <1>2, <1>8 DEF WireTypeOK, Byte
<1>16. n + Len(s) \in Nat
  BY SMT, <1>8
<1> QED BY Zenon, <1>6, <1>14, <1>15, <1>16 DEF WireInv

(* The writer writes the last bytes of its message. *)
LEMMA WritesLast ==
  ASSUME WireInv, rpc # "failed", UNCHANGED <<message, readerVars>>,
         written' = Append(written, message), message \in Messages,
         NEW B \in [Nat -> Int], NEW n \in Nat, Layout(B, n),
         NEW s \in Seq(Byte), stream' = stream \o s,
         \A k \in 1 .. Len(s) : s[k] = ByteAt(message, n + k),
         n + Len(s) = Size(message),
         WriterOK(0)', wpc' = "idle", i' \in Nat, total' \in Nat
  PROVE  WireInv'
<1>1. WireTypeOK /\ ReaderOK
  BY DEF WireInv
<1>2. /\ rpc' = rpc /\ command' = command /\ args' = args /\ arg' = arg
      /\ len' = len /\ received' = received /\ message' = message
  BY DEF readerVars
<1>3. /\ Len(written) \in Nat /\ Len(received) \in Nat
      /\ Reading \in Nat /\ Writing \in Nat
      /\ \A k \in 1 .. Len(written) :
           Msgs[k] = written[k] /\ Msgs[k] \in Messages
      /\ Msgs[Writing] = message
  BY <1>1, Numbered
<1>4. written \in Seq(Messages)
  BY <1>1 DEF WireTypeOK
<1>5. /\ written' \in Seq(Messages)
      /\ Len(written') = Len(written) + 1
      /\ \A k \in 1 .. Len(written) : written'[k] = written[k]
      /\ written'[Len(written) + 1] = message
  <2>1. /\ Append(written, message) \in Seq(Messages)
        /\ Append(written, message) # << >>
        /\ Len(Append(written, message)) = Len(written) + 1
        /\ \A k \in 1 .. Len(written) : Append(written, message)[k] = written[k]
        /\ Append(written, message)[Len(written) + 1] = message
    BY <1>4, AppendProperties
  <2> QED BY <2>1
<1>6. Writing' = Writing + 1 /\ Msgs' = Append(written', message)
  BY <1>2, <1>5 DEF Writing, Msgs
<1>7. /\ \A k \in 1 .. Len(written) : Msgs'[k] = Msgs[k]
      /\ Msgs'[Writing] = Msgs[Writing]
  <2>0. written' \in Seq(Messages)
    BY <1>5
  <2>1. /\ Len(written') \in Nat
        /\ \A k \in 1 .. Len(written') :
             Append(written', message)[k] = written'[k] /\ written'[k] \in Messages
        /\ Append(written', message)[Len(written') + 1] = message
    <3>1. \A ws \in Seq(Messages) :
            /\ Len(ws) \in Nat
            /\ \A k \in 1 .. Len(ws) :
                 Append(ws, message)[k] = ws[k] /\ ws[k] \in Messages
            /\ Append(ws, message)[Len(ws) + 1] = message
      <4> TAKE ws \in Seq(Messages)
      <4> QED BY SMTT(30), AppendAny
    <3> QED BY Zenon, <2>0, <3>1
  <2> DEFINE L == Len(written)
  <2>2. /\ \A k \in 1 .. L : k \in 1 .. L + 1
        /\ L + 1 \in 1 .. L + 1
    <3>1. L \in Nat
      BY <1>3
    <3> HIDE DEF L
    <3> QED BY SMT, <3>1
  <2> QED BY Zenon, <1>3, <1>5, <1>6, <2>1, <2>2 DEF Writing
<1>8. Taken' = Taken /\ ReaderOK' /\ Reading' = Reading
  <2>1. UNCHANGED readerVars
    OBVIOUS
  <2> QED BY Zenon, <1>1, <1>7, <2>1, ReaderKept
<1>9. stream \in Seq(Byte)
  BY <1>1 DEF WireTypeOK, Byte
<1>10. /\ stream' \in Seq(Byte)
       /\ Len(s) \in Nat
  BY <1>9, ConcatProperties, LenProperties
<1>11. Reading <= Writing /\ B[Reading] = -Taken /\ Placed(stream, Msgs, Reading, Writing, B, n)
  BY DEF Layout
<1>12. \A k \in Reading .. Writing - 1 : Msgs'[k] = Msgs[k] /\ Size(Msgs[k]) \in Nat
  <2>1. \A k \in Reading .. Writing - 1 : k \in 1 .. Len(written) /\ Size(Msgs[k]) \in Nat
    BY Zenon, <1>1, Whole
  <2> QED BY Zenon, <1>7, <2>1
<1>13. \A k \in 1 .. Len(s) : s[k] = ByteAt(Msgs'[Writing], n + k)
  BY Zenon, <1>3, <1>7
<1>14. Placed(stream', Msgs', Reading, Writing, B, n + Len(s))
  <2>1. n = 0 \/ Msgs'[Writing] = Msgs[Writing]
    BY <1>7
  <2>2. Placed(stream \o s, Msgs', Reading, Writing, B, n + Len(s))
    BY <1>3, <1>9, <1>11, <1>12, <1>13, <2>1, PlacedLonger
  <2> QED BY Zenon, <2>2
<1>15. PICK C \in [Nat -> Int] :
         C[Reading] = B[Reading] /\ Placed(stream', Msgs', Reading, Writing + 1, C, 0)
  <2> DEFINE p == n + Len(s)
             D == [B EXCEPT ![Writing + 1] = B[Writing] + p]
  <2>1. p \in Nat
    BY SMT, <1>10
  <2>2. p = Size(Msgs'[Writing])
    BY Zenon, <1>3, <1>7
  <2>3. \A k \in Reading .. Writing : Msgs'[k] = Msgs'[k]
    OBVIOUS
  <2> HIDE DEF p
  <2>4. Placed(stream', Msgs', Reading, Writing + 1, D, 0)
    <3>1. Placed(stream', Msgs', Reading, Writing, B, p)
      BY <1>14 DEF p
    <3> QED BY <1>3, <1>10, <1>11, <2>1, <2>2, <2>3, <3>1, PlacedNext
  <2>5. Writing + 1 \in Nat /\ Reading # Writing + 1 /\ Reading \in Nat
    BY SMT, <1>3, <1>11
  <2>6. B[Writing] + p \in Int
    <3> DEFINE b == B[Writing]
    <3>1. b \in Int
      BY <1>3
    <3> HIDE DEF b
    <3>2. b + p \in Int
      BY SMT, <2>1, <3>1
    <3> QED BY <3>2 DEF b
  <2>7. D \in [Nat -> Int] /\ D[Reading] = B[Reading]
    BY Zenon, <2>5, <2>6
  <2> QED BY Zenon, <2>4, <2>7
<1>16. Reading <= Writing + 1
  <2>1. Reading <= Writing
    BY <1>11
  <2> QED BY SMT, <1>3, <2>1
<1>17. Layout(C, 0)'
  BY Zenon, <1>6, <1>8, <1>11, <1>15, <1>16 DEF Layout
<1>18. WireTypeOK'
  BY Zenon, <1>1, <1>2, <1>5, <1>10 DEF WireTypeOK, Byte
<1>19. 0 \in Nat
  BY SMT
<1> QED BY Zenon, <1>8, <1>17, <1>18, <1>19 DEF WireInv

-----------------------------------------------------------------------------
(* The steps of the writer. *)

WordMax == 2147483648

LEMMA WordSeq ==
  ASSUME NEW n \in Nat, n < WordMax
  PROVE  Word(n) \in Seq(Byte) /\ Len(Word(n)) = 4
<1>1. /\ \A k \in 1 .. 4 : Word(n)[k] \in 0 .. 255
      /\ Word(n)[4] <= 127
      /\ n = 16777216 * Word(n)[4] + 65536 * Word(n)[3]
               + 256 * Word(n)[2] + Word(n)[1]
  BY SMT, WordBytes DEF WordMax
<1> DEFINE b1 == n % 256
           b2 == (n \div 256) % 256
           b3 == (n \div 65536) % 256
           b4 == (n \div 16777216) % 256
<1>2. Word(n) = <<b1, b2, b3, b4>>
  BY SMT DEF Word
<1> HIDE DEF b1, b2, b3, b4
<1>3. b1 \in Byte /\ b2 \in Byte /\ b3 \in Byte /\ b4 \in Byte
  BY SMT, <1>1, <1>2 DEF Byte
<1>4. <<b1, b2, b3, b4>> \in Seq(Byte) /\ Len(<<b1, b2, b3, b4>>) = 4
  BY SMT, <1>3
<1> QED BY SMT, <1>2, <1>4

LEMMA MidWriting ==
  ASSUME NEW n, WriterOK(n), wpc \in {"length", "payload"}
  PROVE  /\ message \in Messages /\ IsMessage(message)
         /\ i \in Nat /\ NArg \in Nat
         /\ i \in 1 .. Len(message.args)
         /\ message.args[i] \in Seq(Byte) /\ Len(message.args[i]) \in Nat
         /\ Len(message.args[i]) < WordMax
         /\ At(message, i) \in Nat /\ At(message, i) >= 1
         /\ At(message, i + 1) = At(message, i) + 4 + Len(message.args[i])
         /\ Size(message) \in Nat /\ At(message, i + 1) <= Size(message)
         /\ i + 1 > NArg => At(message, i + 1) = Size(message)
         /\ ~(i + 1 > NArg) => /\ i + 1 \in 1 .. NArg
                               /\ At(message, i + 1) < Size(message)
<1> DEFINE N == Len(message.args)
<1>1. message \in Messages /\ i \in 1 .. N
  BY DEF WriterOK, NArg
<1>2. IsMessage(message)
  BY <1>1, MessageShape
<1>3. /\ N \in 1 .. 3
      /\ message.args[i] \in Seq(Byte)
      /\ Len(message.args[i]) \in Lengths \cup {0, 1, 4, 16}
  BY Zenon, <1>1, <1>2 DEF IsMessage
<1>4. Len(message.args[i]) \in Nat /\ Len(message.args[i]) < WordMax
  <2>1. \A l \in Lengths \cup {0, 1, 4, 16} : l \in Nat /\ l < WordMax
    BY SMTT(30), LengthsAssumption DEF WordMax
  <2> QED BY Zenon, <1>3, <2>1
<1>5. \A a \in 1 .. N :
        /\ Len(message.args[a]) \in Nat
        /\ At(message, a) \in Nat /\ At(message, a) >= 1
        /\ At(message, a + 1) = At(message, a) + 4 + Len(message.args[a])
        /\ At(message, a + 1) <= Size(message)
  BY <1>2, Offsets
<1>6. Size(message) \in Nat
  BY <1>2, Offsets
<1>7. Size(message) = At(message, N + 1)
  BY DEF Size
<1> HIDE DEF N
<1>8. i \in Nat /\ N \in Nat
  BY SMT, <1>1, <1>3
<1>9. i + 1 > N => At(message, i + 1) = Size(message)
  <2>1. i + 1 > N => i + 1 = N + 1
    BY SMT, <1>1, <1>8
  <2> QED BY Zenon, <1>7, <2>1
<1>10. ASSUME ~(i + 1 > N)
       PROVE  i + 1 \in 1 .. N /\ At(message, i + 1) < Size(message)
  <2>1. i + 1 \in 1 .. N
    BY SMT, <1>1, <1>8, <1>10
  <2> DEFINE j == i + 1
  <2> HIDE DEF j
  <2>2. /\ Len(message.args[j]) \in Nat
        /\ At(message, j) \in Nat
        /\ At(message, j + 1) = At(message, j) + 4 + Len(message.args[j])
        /\ At(message, j + 1) <= Size(message)
    BY Zenon, <1>5, <2>1 DEF j
  <2>3. At(message, j) < Size(message)
    BY SMT, <1>6, <2>2
  <2> QED BY <2>1, <2>3 DEF j
<1> QED BY Zenon, <1>1, <1>2, <1>3, <1>4, <1>5, <1>6, <1>8, <1>9, <1>10 DEF N, NArg

(* The writer has come to the end of an argument. *)
LEMMA NextArgKeeps ==
  ASSUME WireInv, rpc # "failed", UNCHANGED readerVars,
         NEW B \in [Nat -> Int], NEW n \in Nat, Layout(B, n), WriterOK(n),
         wpc \in {"length", "payload"},
         NEW s \in Seq(Byte), stream' = stream \o s,
         \A k \in 1 .. Len(s) : s[k] = ByteAt(message, n + k),
         n + Len(s) = At(message, i + 1),
         NextArg(i + 1)
  PROVE  WireInv'
<1>1. /\ message \in Messages /\ i \in Nat
      /\ i + 1 > NArg => At(message, i + 1) = Size(message)
      /\ ~(i + 1 > NArg) => /\ i + 1 \in 1 .. NArg
                            /\ At(message, i + 1) < Size(message)
  BY Zenon, MidWriting
<1>2. i' = i + 1 /\ total' = 0 /\ message' = message
  BY DEF NextArg
<1>3. i' \in Nat /\ total' \in Nat
  BY SMT, <1>1, <1>2
<1>4. CASE i + 1 > NArg
  <2>1. wpc' = "idle" /\ written' = Append(written, message)
    BY <1>4 DEF NextArg
  <2>2. WriterOK(0)'
    BY Zenon, <1>2, <2>1 DEF WriterOK
  <2>3. n + Len(s) = Size(message)
    BY <1>1, <1>4
  <2> QED BY <1>1, <1>2, <1>3, <2>1, <2>2, <2>3, WritesLast
<1>5. CASE ~(i + 1 > NArg)
  <2>1. wpc' = "length" /\ written' = written
    BY <1>5 DEF NextArg
  <2>2. /\ At(message', i') = n + Len(s) /\ i' \in 1 .. Len(message'.args)
        /\ n + Len(s) < Size(message') /\ message' \in Messages
    BY Zenon, <1>1, <1>2, <1>5 DEF NArg
  <2>3. n + Len(s) + 0 = n + Len(s)
    <3>1. n + Len(s) \in Nat
      BY SMT, LenProperties
    <3> QED BY SMT, <3>1
  <2>4. WriterOK(n + Len(s))'
    BY Zenon, <1>2, <2>1, <2>2, <2>3 DEF WriterOK, NArg
  <2>5. \A k \in 1 .. Len(s) : s[k] = ByteAt(message', n + k)
    BY <1>2
  <2> QED BY <1>1, <1>2, <1>3, <2>1, <2>4, <2>5, WritesOn
<1> QED BY <1>4, <1>5

LEMMA WriteCommandKeeps ==
  ASSUME WireInv, rpc # "failed", NEW m \in Messages, WriteCommand(m)
  PROVE  WireInv'
<1>1. PICK B \in [Nat -> Int], n \in Nat : Layout(B, n) /\ WriterOK(n)
  BY DEF WireInv
<1>2. wpc = "idle" /\ n = 0 /\ total = 0
  BY <1>1 DEF WriteCommand, WriterOK
<1>3. /\ stream' = Append(stream, Code[m.command]) /\ message' = m /\ i' = 1
      /\ wpc' = "length" /\ total' = total /\ written' = written
      /\ UNCHANGED readerVars
  BY DEF WriteCommand
<1>4. IsMessage(m)
  BY MessageShape
<1>5. Code[m.command] \in Byte
  BY <1>4, CodeInjective DEF IsMessage
<1> DEFINE s == <<Code[m.command]>>
<1>6. s \in Seq(Byte) /\ Len(s) = 1 /\ s[1] = Code[m.command]
  BY <1>5
<1>7. stream \in Seq(Byte)
  BY DEF WireInv, WireTypeOK, Byte
<1>8. stream' = stream \o s
  BY <1>3, <1>5, <1>7, AppendIsConcat
<1>9. \A k \in 1 .. Len(s) : s[k] = ByteAt(message', n + k)
  <2>1. \A k \in 1 .. 1 : k = 1 /\ n + k = 1
    BY SMT, <1>2
  <2> HIDE DEF s
  <2> QED BY Zenon, <1>3, <1>6, <2>1, CommandByte
<1>10. /\ At(m, 1) = 1 /\ Size(m) \in Nat /\ Size(m) >= 5
  BY <1>4, Offsets
<1>11. 1 \in 1 .. Len(m.args)
  <2> DEFINE N == Len(m.args)
  <2>1. N \in 1 .. 3
    BY <1>4 DEF IsMessage
  <2> HIDE DEF N
  <2>2. 1 \in 1 .. N
    BY SMT, <2>1
  <2> QED BY <2>2 DEF N
<1>12. n + Len(s) = 1 /\ 1 < Size(m) /\ At(m, 1) + 0 = 1
  BY SMT, <1>2, <1>6, <1>10
<1>13. WriterOK(n + Len(s))'
  BY Zenon, <1>2, <1>3, <1>11, <1>12 DEF WriterOK, NArg
<1>14. i' \in Nat /\ total' \in Nat
  BY SMT, <1>2, <1>3
<1> HIDE DEF s
<1> QED BY <1>1, <1>2, <1>3, <1>6, <1>8, <1>9, <1>13, <1>14, WritesOn

LEMMA WriteLengthKeeps ==
  ASSUME WireInv, rpc # "failed", WriteLength
  PROVE  WireInv'
<1>1. PICK B \in [Nat -> Int], n \in Nat : Layout(B, n) /\ WriterOK(n)
  BY DEF WireInv
<1>2. wpc = "length" /\ UNCHANGED readerVars
  BY DEF WriteLength
<1>3. /\ message \in Messages /\ IsMessage(message)
      /\ i \in Nat /\ NArg \in Nat
      /\ i \in 1 .. Len(message.args)
      /\ message.args[i] \in Seq(Byte) /\ Len(message.args[i]) \in Nat
      /\ Len(message.args[i]) < WordMax
      /\ At(message, i) \in Nat /\ At(message, i) >= 1
      /\ At(message, i + 1) = At(message, i) + 4 + Len(message.args[i])
      /\ Size(message) \in Nat /\ At(message, i + 1) <= Size(message)
      /\ i + 1 > NArg => At(message, i + 1) = Size(message)
      /\ ~(i + 1 > NArg) => /\ i + 1 \in 1 .. NArg
                            /\ At(message, i + 1) < Size(message)
  BY <1>1, <1>2, MidWriting
<1>4. n = At(message, i) /\ total = 0
  <2>1. n = At(message, i) + 0 /\ total = 0
    BY Zenon, <1>1, <1>2 DEF WriterOK
  <2> QED BY SMT, <1>3, <2>1
<1>5. PICK s \in Seq(Byte) : s = Word(Len(message.args[i]))
  BY Zenon, <1>3, WordSeq
<1>6. Len(s) = 4
  BY Zenon, <1>3, <1>5, WordSeq
<1>7. stream' = stream \o s
  BY Zenon, <1>5 DEF WriteLength
<1>8. \A k \in 1 .. Len(s) : s[k] = ByteAt(message, n + k)
  <2>1. \A k \in 1 .. 4 : ByteAt(message, At(message, i) + k) = Word(Len(message.args[i]))[k]
    BY Zenon, <1>3, BytesInPlace
  <2> QED BY Zenon, <1>4, <1>5, <1>6, <2>1
<1>9. CASE message.args[i] = <<>> /\ NextArg(i + 1)
  <2>1. Len(message.args[i]) = 0
    BY <1>9
  <2>2. n + Len(s) = At(message, i + 1)
    BY SMT, <1>3, <1>4, <1>6, <2>1
  <2> QED BY <1>1, <1>2, <1>7, <1>8, <1>9, <2>2, NextArgKeeps
<1>10. CASE message.args[i] # <<>> /\ wpc' = "payload" /\ UNCHANGED <<message, i, total, written>>
  <2>1. Len(message.args[i]) # 0
    <3> DEFINE a == message.args[i]
    <3>1. a \in Seq(Byte) /\ a # <<>>
      BY <1>3, <1>10
    <3> HIDE DEF a
    <3>2. Len(a) # 0
      BY <3>1, EmptySeq
    <3> QED BY <3>2 DEF a
  <2> DEFINE l == Len(message.args[i])
             at == At(message, i)
             z == Size(message)
  <2>2. l \in Nat /\ l # 0 /\ at \in Nat /\ z \in Nat /\ at + 4 + l <= z
    BY <1>3, <2>1
  <2> HIDE DEF l, at, z
  <2>3. 0 < l /\ at + 4 + 0 = at + 4 /\ at + 4 < z
    BY SMT, <2>2
  <2>4. /\ n + Len(s) = At(message, i) + (4 + total)
        /\ total < Len(message.args[i])
        /\ n + Len(s) < Size(message)
    <3>1. n + Len(s) = at + 4 /\ at + (4 + total) = at + 4
      BY SMT, <1>4, <1>6, <2>2 DEF at
    <3> QED BY Zenon, <1>4, <2>3, <3>1 DEF l, at, z
  <2>5. WriterOK(n + Len(s))'
    <3>1. /\ message' = message /\ i' = i /\ total' = total /\ wpc' = "payload"
      BY <1>10
    <3>2. i \in 1 .. NArg
      BY <1>3 DEF NArg
    <3> QED BY Zenon, <1>3, <1>4, <2>4, <3>1, <3>2 DEF WriterOK, NArg
  <2>6. \A k \in 1 .. Len(s) : s[k] = ByteAt(message', n + k)
    BY <1>8, <1>10
  <2>7. i' \in Nat /\ total' \in Nat
    BY SMT, <1>3, <1>4, <1>10
  <2>8. UNCHANGED <<written, readerVars>>
    BY <1>2, <1>10
  <2> QED BY <1>1, <1>7, <1>10, <2>5, <2>6, <2>7, <2>8, WritesOn
<1> QED BY <1>9, <1>10 DEF WriteLength

LEMMA Piece ==
  ASSUME NEW a \in Seq(Byte), NEW t \in Nat, NEW q \in Nat, q >= 1, t + q <= Len(a)
  PROVE  /\ SubSeq(a, t + 1, t + q) \in Seq(Byte)
         /\ Len(SubSeq(a, t + 1, t + q)) = q
         /\ \A k \in 1 .. q : SubSeq(a, t + 1, t + q)[k] = a[t + k]
<1> DEFINE lo == t + 1
           hi == t + q
           l == Len(a)
<1>1. /\ lo \in Int /\ hi \in Int /\ lo <= hi /\ hi - lo + 1 = q
      /\ \A k \in 1 .. q : lo + k - 1 = t + k
  BY SMT
<1>2. \A x \in lo .. hi : x \in 1 .. l
  <2>1. l \in Nat /\ t + q <= l
    BY LenProperties
  <2> HIDE DEF l
  <2> QED BY SMT, <2>1
<1>3. \A x \in lo .. hi : a[x] \in Byte
  BY Zenon, <1>2, ElementOfSeq
<1> HIDE DEF lo, hi
<1>4. /\ SubSeq(a, lo, hi) \in Seq(Byte)
      /\ Len(SubSeq(a, lo, hi)) = IF lo <= hi THEN hi - lo + 1 ELSE 0
      /\ \A k \in 1 .. hi - lo + 1 : SubSeq(a, lo, hi)[k] = a[lo + k - 1]
  BY <1>1, <1>3, SubSeqProperties
<1>5. Len(SubSeq(a, lo, hi)) = q
  BY Zenon, <1>1, <1>4
<1>6. \A k \in 1 .. q : SubSeq(a, lo, hi)[k] = a[t + k]
  BY Zenon, <1>1, <1>4
<1> QED BY <1>4, <1>5, <1>6 DEF lo, hi

LEMMA WritePayloadKeeps ==
  ASSUME WireInv, rpc # "failed", WritePayload
  PROVE  WireInv'
<1>1. PICK B \in [Nat -> Int], n \in Nat : Layout(B, n) /\ WriterOK(n)
  BY DEF WireInv
<1>2. wpc = "payload" /\ UNCHANGED readerVars
  BY DEF WritePayload
<1>3. /\ message \in Messages /\ IsMessage(message)
      /\ i \in Nat /\ NArg \in Nat
      /\ i \in 1 .. Len(message.args)
      /\ message.args[i] \in Seq(Byte) /\ Len(message.args[i]) \in Nat
      /\ Len(message.args[i]) < WordMax
      /\ At(message, i) \in Nat /\ At(message, i) >= 1
      /\ At(message, i + 1) = At(message, i) + 4 + Len(message.args[i])
      /\ Size(message) \in Nat /\ At(message, i + 1) <= Size(message)
      /\ i + 1 > NArg => At(message, i + 1) = Size(message)
      /\ ~(i + 1 > NArg) => /\ i + 1 \in 1 .. NArg
                            /\ At(message, i + 1) < Size(message)
  BY <1>1, <1>2, MidWriting
<1>4. n = At(message, i) + (4 + total) /\ total < Len(message.args[i])
  BY Zenon, <1>1, <1>2 DEF WriterOK
<1>5. PICK a \in Seq(Byte) : a = message.args[i]
  BY Zenon, <1>3
<1>6. PICK t \in Nat : t = total
  BY DEF WireInv, WireTypeOK
<1>7. PICK q \in Partial \cup {Len(a) - t} :
        /\ t + q <= Len(a)
        /\ stream' = stream \o SubSeq(a, t + 1, t + q)
        /\ IF t + q = Len(a) THEN NextArg(i + 1)
           ELSE total' = t + q /\ UNCHANGED <<wpc, message, i, written>>
  BY Zenon, <1>5, <1>6 DEF WritePayload
<1>8. Len(a) \in Nat /\ t < Len(a)
  BY Zenon, <1>3, <1>4, <1>5, <1>6
<1> DEFINE l == Len(a)
<1>9. q \in Nat /\ q >= 1
  <2>1. l \in Nat /\ t < l /\ q \in Partial \cup {l - t}
    BY <1>7, <1>8
  <2> HIDE DEF l
  <2> QED BY SMT, <2>1, PartialAssumption
<1>10. PICK s \in Seq(Byte) : /\ s = SubSeq(a, t + 1, t + q)
                              /\ Len(s) = q
                              /\ \A k \in 1 .. q : s[k] = a[t + k]
  BY <1>7, <1>9, Piece
<1>11. stream' = stream \o s
  BY Zenon, <1>7, <1>10
<1> DEFINE at == At(message, i)
           z == Size(message)
<1>12. /\ at \in Nat /\ z \in Nat /\ n = at + (4 + t) /\ l \in Nat /\ t + q <= l
       /\ At(message, i + 1) = at + 4 + l /\ at + 4 + l <= z
  BY Zenon, <1>3, <1>4, <1>5, <1>6, <1>7, <1>8
<1>13. \A k \in 1 .. Len(s) : s[k] = ByteAt(message, n + k)
  <2>1. \A k \in 1 .. l : ByteAt(message, at + 4 + k) = a[k]
    BY Zenon, <1>3, <1>5, BytesInPlace
  <2> HIDE DEF at, l, z
  <2>2. \A k \in 1 .. q : t + k \in 1 .. l /\ at + 4 + (t + k) = n + k
    BY SMT, <1>9, <1>12
  <2> QED BY Zenon, <1>10, <2>1, <2>2
<1>14. CASE t + q = l
  <2>1. NextArg(i + 1)
    BY <1>7, <1>14
  <2>2. n + Len(s) = at + 4 + l
    <3> DEFINE ls == Len(s)
    <3>1. ls = q /\ at \in Nat /\ n = at + (4 + t) /\ t + q = l
      BY Zenon, <1>10, <1>12, <1>14
    <3> HIDE DEF l, at, z, ls
    <3>2. n + ls = at + 4 + l
      BY SMT, <1>9, <3>1
    <3> QED BY <3>2 DEF ls
  <2>3. n + Len(s) = At(message, i + 1)
    BY Zenon, <1>12, <2>2
  <2> HIDE DEF at, l, z
  <2> QED BY <1>1, <1>2, <1>11, <1>13, <2>1, <2>3, NextArgKeeps
<1>15. CASE t + q # l
  <2>1. /\ total' = t + q /\ wpc' = wpc /\ message' = message /\ i' = i
        /\ written' = written
    BY <1>7, <1>15
  <2>2. /\ n + Len(s) = at + (4 + (t + q)) /\ t + q < l /\ n + Len(s) < z
        /\ t + q \in Nat
    <3> HIDE DEF l, at, z
    <3> QED BY SMT, <1>9, <1>10, <1>12, <1>15
  <2>3. WriterOK(n + Len(s))'
    <3>1. i \in 1 .. NArg /\ message \in Messages
      BY <1>3 DEF NArg
    <3> QED BY Zenon, <1>2, <1>5, <2>1, <2>2, <3>1 DEF WriterOK, NArg
  <2>4. \A k \in 1 .. Len(s) : s[k] = ByteAt(message', n + k)
    BY <1>13, <2>1
  <2>5. i' \in Nat /\ total' \in Nat
    BY <1>3, <2>1, <2>2
  <2>6. UNCHANGED <<written, readerVars>>
    BY <1>2, <2>1
  <2>7. wpc' \in {"idle", "length", "payload", "closed"}
    BY <1>2, <2>1
  <2>8. message' = message
    BY <2>1
  <2> HIDE DEF at, l, z
  <2> QED BY <1>1, <1>11, <2>3, <2>4, <2>5, <2>6, <2>7, <2>8, WritesOn
<1> QED BY <1>14, <1>15

LEMMA CloseKeeps ==
  ASSUME WireInv, Close
  PROVE  WireInv'
<1>1. /\ wpc' = "closed" /\ stream' = stream /\ message' = message /\ i' = i
      /\ total' = total /\ written' = written
      /\ rpc' = rpc /\ command' = command /\ args' = args /\ arg' = arg
      /\ len' = len /\ received' = received
  BY DEF Close, readerVars
<1>2. WireTypeOK'
  BY Zenon, <1>1 DEF WireInv, WireTypeOK
<1>3. Reading' = Reading /\ Writing' = Writing /\ Msgs' = Msgs
  BY Zenon, <1>1 DEF Reading, Writing, Msgs
<1>4. Taken' = Taken
  BY Zenon, <1>1, <1>3 DEF Taken
<1>5. CASE rpc # "failed"
  <2>1. ReaderOK'
    <3>1. ReaderOK
      BY <1>5 DEF WireInv
    <3> QED BY Zenon, <1>1, <1>3, <3>1 DEF ReaderOK
  <2>2. PICK B \in [Nat -> Int], n \in Nat : Layout(B, n) /\ WriterOK(n)
    BY <1>5 DEF WireInv
  <2>3. Layout(B, n)'
    BY Zenon, <1>1, <1>3, <1>4, <2>2 DEF Layout
  <2>4. WriterOK(n)'
    BY Zenon, <1>1, <2>2 DEF WriterOK
  <2> QED BY Zenon, <1>2, <2>1, <2>3, <2>4 DEF WireInv
<1>6. CASE rpc = "failed"
  BY Zenon, <1>1, <1>2, <1>6 DEF WireInv
<1> QED BY <1>5, <1>6

-----------------------------------------------------------------------------
(* The steps of the reader. *)

(* The lengths that the reader decodes as they were written. *)
LengthsSurvive ==
  CharSigned => \A n \in Lengths : \A k \in 1 .. 3 : Word(n)[k] <= 127

LEMMA DecodesRight ==
  ASSUME LengthsSurvive, NEW n \in Lengths \cup {0, 1, 4, 16}
  PROVE  Decode(Word(n)) = n
<1>1. CASE n \in Lengths
  <2>1. n \in Nat /\ n < 2147483648
    BY SMTT(30), <1>1, LengthsAssumption
  <2>2. CharSigned => \A k \in 1 .. 3 : Word(n)[k] <= 127
    BY SMT, <1>1 DEF LengthsSurvive
  <2> QED BY SMT, <2>1, <2>2, LengthRoundTrip
<1>2. CASE n \in {0, 1, 4, 16}
  <2>1. n \in 0 .. 127
    BY SMT, <1>2
  <2> QED BY SMT, <2>1, ShortLengths
<1> QED BY SMT, <1>1, <1>2

LEMMA DecodeSame ==
  ASSUME NEW b, NEW c, \A k \in 1 .. 4 : b[k] = c[k]
  PROVE  Decode(b) = Decode(c)
<1>1. b[1] = c[1] /\ b[2] = c[2] /\ b[3] = c[3] /\ b[4] = c[4]
  BY SMT
<1> QED BY SMT, <1>1 DEF Decode

(* The next byte in the socket is the one that the reader is at. *)
LEMMA NextBytes ==
  ASSUME WireTypeOK, ReaderOK, rpc # "failed",
         NEW B \in [Nat -> Int], NEW n \in Nat, Layout(B, n)
  PROVE  /\ Taken \in Nat
         /\ \A k \in 1 .. Len(stream) :
              Taken + k \in 1 .. Size(Msgs[Reading]) =>
                stream[k] = ByteAt(Msgs[Reading], Taken + k)
<1>1. Taken \in Nat
  <2>1. CASE rpc = "command"
    BY <2>1 DEF Taken
  <2>2. CASE rpc \in {"length", "payload"}
    BY <2>2, MidMessage
  <2> QED BY <2>1, <2>2 DEF WireTypeOK
<1>2. Reading \in Nat /\ Writing \in Nat
  BY Numbered
<1>3. Reading <= Writing /\ B[Reading] = -Taken
  BY DEF Layout
<1>4. \A k \in Reading .. Writing : \A o \in 1 .. Size(Msgs[k]) :
        B[k] + o \in 1 .. Len(stream) => stream[B[k] + o] = ByteAt(Msgs[k], o)
  BY DEF Layout, Placed
<1>5. Reading \in Reading .. Writing
  BY SMT, <1>2, <1>3
<1>6. ASSUME NEW k \in 1 .. Len(stream), Taken + k \in 1 .. Size(Msgs[Reading])
      PROVE  stream[k] = ByteAt(Msgs[Reading], Taken + k)
  <2>1. -Taken + (Taken + k) = k
    BY SMT, <1>1
  <2> DEFINE o == Taken + k
  <2>2. o \in 1 .. Size(Msgs[Reading]) /\ B[Reading] + o = k
    BY Zenon, <1>3, <1>6, <2>1
  <2> HIDE DEF o
  <2>3. B[Reading] + o \in 1 .. Len(stream)
    BY <2>2
  <2>4. stream[B[Reading] + o] = ByteAt(Msgs[Reading], o)
    BY Zenon, <1>4, <1>5, <2>2, <2>3
  <2> QED BY Zenon, <2>2, <2>4 DEF o
<1> QED BY <1>1, <1>6

(* What the writer keeps. *)
LEMMA WriterKept ==
  ASSUME UNCHANGED writerVars, NEW n, WriterOK(n)
  PROVE  WriterOK(n)' /\ Msgs' = Msgs /\ Writing' = Writing
<1>1. /\ wpc' = wpc /\ message' = message /\ i' = i /\ total' = total
      /\ written' = written
  BY DEF writerVars
<1> QED BY Zenon, <1>1 DEF WriterOK, Msgs, Writing, NArg

(* The reader takes bytes of its message. *)
LEMMA ReadsOn ==
  ASSUME WireInv, rpc # "failed", UNCHANGED <<writerVars, received>>,
         NEW B \in [Nat -> Int], NEW n \in Nat, Layout(B, n), WriterOK(n),
         NEW c \in 0 .. Len(stream), Take(c),
         Taken' = Taken + c, ReaderOK',
         rpc' \in {"command", "length", "payload", "failed"},
         command' \in DOMAIN Code, args' \in Seq(Seq(Byte)), arg' \in Seq(Byte),
         len' \in Int
  PROVE  WireInv'
<1>1. WireTypeOK /\ ReaderOK
  BY DEF WireInv
<1>2. WriterOK(n)' /\ Msgs' = Msgs /\ Writing' = Writing
  BY WriterKept
<1>3. Reading' = Reading
  BY DEF Reading
<1>4. Taken \in Nat
  BY <1>1, NextBytes
<1>5. Reading \in Nat /\ Writing \in Nat
  BY <1>1, Numbered
<1>6. stream \in Seq(Byte)
  BY <1>1 DEF WireTypeOK, Byte
<1>7. Reading <= Writing /\ B[Reading] = -Taken /\ Placed(stream, Msgs, Reading, Writing, B, n)
  BY DEF Layout
<1>8. Reading \in Reading .. Writing
  BY SMT, <1>5, <1>7
<1>9. \A k \in Reading .. Writing - 1 : Size(Msgs[k]) \in Nat
  BY Zenon, <1>1, Whole
<1> DEFINE t == SubSeq(stream, c + 1, Len(stream))
           C == [k \in Nat |-> B[k] - c]
<1>10. t \in Seq(Byte) /\ Placed(t, Msgs, Reading, Writing, C, n)
  BY <1>5, <1>6, <1>7, <1>8, <1>9, PlacedTaken
<1>11. stream' = t
  BY DEF Take
<1> HIDE DEF t
<1>12. C \in [Nat -> Int] /\ C[Reading] = B[Reading] - c
  <2>1. \A k \in Nat : B[k] - c \in Int
    BY SMT
  <2> QED BY Zenon, <1>5, <2>1
<1> HIDE DEF C
<1>13. C[Reading] = -(Taken + c)
  <2>1. -Taken - c = -(Taken + c)
    BY SMT, <1>4
  <2> QED BY Zenon, <1>7, <1>12, <2>1
<1>14. PICK D \in [Nat -> Int] : D = C
  BY <1>12
<1>15. Layout(D, n)'
  BY Zenon, <1>2, <1>3, <1>7, <1>10, <1>11, <1>13, <1>14 DEF Layout
<1>16. WireTypeOK'
  <2>1. /\ wpc' = wpc /\ message' = message /\ i' = i /\ total' = total
        /\ written' = written
    BY DEF writerVars
  <2> QED BY Zenon, <1>1, <1>10, <1>11, <2>1 DEF WireTypeOK, Byte
<1> QED BY Zenon, <1>2, <1>15, <1>16 DEF WireInv

(* The reader takes the last bytes of its message: it has been written.    *)
LEMMA ReadsLast ==
  ASSUME WireInv, rpc \in {"length", "payload"}, UNCHANGED writerVars,
         NEW B \in [Nat -> Int], NEW n \in Nat, Layout(B, n), WriterOK(n),
         NEW c \in 0 .. Len(stream), Take(c),
         Taken + c = Size(Msgs[Reading]),
         received' = Append(received, Msgs[Reading]),
         rpc' = "command", args' = <<>>, command' \in DOMAIN Code,
         arg' \in Seq(Byte), len' \in Int
  PROVE  WireInv' /\ Channel!Read
<1>1. WireTypeOK /\ ReaderOK
  BY DEF WireInv
<1>2. WriterOK(n)' /\ Msgs' = Msgs /\ Writing' = Writing
  BY WriterKept
<1>3. Taken \in Nat /\ Taken >= 1
  BY <1>1, MidMessage
<1>4. /\ Len(written) \in Nat /\ Len(received) \in Nat
      /\ Reading \in Nat /\ Writing \in Nat
      /\ \A k \in 1 .. Len(written) :
           Msgs[k] = written[k] /\ Msgs[k] \in Messages
      /\ Msgs[Writing] = message
  BY <1>1, Numbered
<1>5. stream \in Seq(Byte) /\ Len(stream) \in Nat
  BY <1>1, LenProperties DEF WireTypeOK, Byte
<1>6. Reading <= Writing /\ B[Reading] = -Taken /\ Placed(stream, Msgs, Reading, Writing, B, n)
  BY DEF Layout
<1>7. Reading # Writing
  <2> SUFFICES ASSUME Reading = Writing PROVE FALSE
    OBVIOUS
  <2>1. Len(stream) = B[Writing] + n
    BY <1>6 DEF Placed
  <2> DEFINE L == Len(stream)
             z == Size(message)
  <2>2. L = -Taken + n /\ Taken + c = z /\ L \in Nat /\ c \in 0 .. L
    BY Zenon, <1>4, <1>5, <1>6, <2>1
  <2>3. n # 0 => n < z
    BY DEF WriterOK
  <2> HIDE DEF L, z
  <2> QED BY SMT, <1>3, <2>2, <2>3
<1>8. /\ Reading \in 1 .. Len(written) /\ Len(received) < Len(written)
      /\ Reading \in Reading .. Writing - 1
      /\ Reading + 1 \in Reading .. Writing
      /\ Reading + 1 \in Nat /\ Reading + 1 <= Writing
  <2> DEFINE v == Len(written)
             u == Len(received)
  <2>1. Reading = u + 1 /\ Writing = v + 1 /\ u \in Nat /\ v \in Nat
    BY <1>4 DEF Reading, Writing
  <2> HIDE DEF u, v
  <2>2. /\ Reading \in 1 .. v /\ u < v
        /\ Reading \in Reading .. Writing - 1
        /\ Reading + 1 \in Reading .. Writing
        /\ Reading + 1 \in Nat /\ Reading + 1 <= Writing
    BY SMT, <1>6, <1>7, <2>1
  <2> QED BY <2>2 DEF u, v
<1>9. Msgs[Reading] = written[Reading] /\ Msgs[Reading] \in Messages
  BY Zenon, <1>4, <1>8
<1>10. received \in Seq(Messages)
  BY <1>1 DEF WireTypeOK
<1>11. received' \in Seq(Messages) /\ Len(received') = Len(received) + 1
  BY <1>9, <1>10, AppendProperties
<1>12. Reading' = Reading + 1
  BY <1>11 DEF Reading
<1>13. Channel!Read
  <2>1. received' = Append(received, written[Len(received) + 1])
    BY Zenon, <1>9 DEF Reading
  <2> QED BY <1>8, <2>1 DEF Channel!Read, writerVars
<1>14. \A k \in Reading .. Writing - 1 : Size(Msgs[k]) \in Nat
  BY Zenon, <1>1, Whole
<1> DEFINE t == SubSeq(stream, c + 1, Len(stream))
           C == [k \in Nat |-> B[k] - c]
<1>15. t \in Seq(Byte) /\ Placed(t, Msgs, Reading + 1, Writing, C, n)
  <2> DEFINE q == Reading + 1
             M == Msgs
             r == Reading
             w == Writing
  <2>1. /\ q \in r .. w /\ r \in Nat /\ w \in Nat
        /\ Placed(stream, M, r, w, B, n)
        /\ \A k \in r .. w - 1 : Size(M[k]) \in Nat
        /\ stream \in Seq(Byte)
    BY <1>4, <1>5, <1>6, <1>8, <1>14
  <2> HIDE DEF q, M, r, w
  <2>2. t \in Seq(Byte) /\ Placed(t, M, q, w, C, n)
    BY <2>1, PlacedTaken DEF t, C
  <2> QED BY <2>2 DEF q, M, w
<1>16. stream' = t
  BY DEF Take
<1> HIDE DEF t
<1>17. C \in [Nat -> Int] /\ C[Reading + 1] = B[Reading + 1] - c
  <2>1. \A k \in Nat : B[k] - c \in Int
    BY SMT
  <2> QED BY Zenon, <1>8, <2>1
<1> HIDE DEF C
<1>18. C[Reading + 1] = 0
  <2> DEFINE z == Size(Msgs[Reading])
  <2>1. B[Reading + 1] = B[Reading] + z
    BY Zenon, <1>6, <1>8 DEF Placed
  <2>2. z \in Nat /\ Taken + c = z
    BY Zenon, <1>8, <1>14
  <2> HIDE DEF z
  <2>3. (-Taken + z) - c = 0
    BY SMT, <1>3, <2>2
  <2> QED BY Zenon, <1>6, <1>17, <2>1, <2>3
<1>19. Taken' = 0 /\ ReaderOK'
  BY Zenon DEF Taken, ReaderOK
<1>20. PICK D \in [Nat -> Int] : D = C
  BY <1>17
<1>21. D[Reading'] = -0
  <2>1. 0 = -0
    <3>1. \A x, y \in Int : x + y = 0 => y = -x
      BY SMT
    <3>2. 0 \in Int /\ 0 + 0 = 0
      BY SMT
    <3> QED BY Zenon, <3>1, <3>2
  <2> QED BY Zenon, <1>12, <1>18, <1>20, <2>1
<1>22. Layout(D, n)'
  BY Zenon, <1>2, <1>8, <1>12, <1>15, <1>16, <1>19, <1>20, <1>21 DEF Layout
<1>23. WireTypeOK'
  <2>1. /\ wpc' = wpc /\ message' = message /\ i' = i /\ total' = total
        /\ written' = written
    BY DEF writerVars
  <2>2. <<>> \in Seq(Seq(Byte))
    BY EmptySeq
  <2> QED BY Zenon, <1>1, <1>11, <1>15, <1>16, <2>1, <2>2 DEF WireTypeOK, Byte
<1> QED BY Zenon, <1>2, <1>13, <1>19, <1>22, <1>23 DEF WireInv

(* What the reader has taken when it is between arguments, or within one.  *)
LEMMA ReaderAt ==
  ASSUME WireTypeOK, ReaderOK, rpc \in {"length", "payload"},
         NEW m, m = Msgs[Reading], NEW a, a = Len(args) + 1
  PROVE  /\ m \in Messages /\ IsMessage(m) /\ command = m.command
         /\ a \in Nat /\ a \in 1 .. Len(m.args) /\ Len(args) \in Nat /\ Len(m.args) \in Nat
         /\ m.args[a] \in Seq(Byte) /\ Len(m.args[a]) \in Nat
         /\ Len(m.args[a]) \in Lengths \cup {0, 1, 4, 16}
         /\ At(m, a) \in Nat /\ At(m, a) >= 1
         /\ At(m, a + 1) = At(m, a) + 4 + Len(m.args[a])
         /\ At(m, a + 1) <= Size(m) /\ Size(m) \in Nat
         /\ Taken \in Nat
         /\ Taken = At(m, a) + (IF rpc = "payload" THEN 4 + Len(arg) ELSE 0)
<1>1. /\ Msgs[Reading] \in Messages /\ IsMessage(Msgs[Reading])
      /\ Len(args) + 1 \in 1 .. Len(Msgs[Reading].args)
      /\ Taken \in Nat /\ Taken >= 1
  BY MidMessage
<1>2. m \in Messages /\ IsMessage(m) /\ a \in 1 .. Len(m.args)
  BY Zenon, <1>1
<1>3. command = m.command
  BY Zenon DEF ReaderOK
<1>4. Len(args) \in Nat
  BY LenProperties DEF WireTypeOK
<1>5. a \in Nat
  BY SMT, <1>4
<1>6. /\ m.args[a] \in Seq(Byte)
      /\ Len(m.args[a]) \in Lengths \cup {0, 1, 4, 16}
  BY Zenon, <1>2 DEF IsMessage
<1>7. /\ Len(m.args[a]) \in Nat
      /\ At(m, a) \in Nat /\ At(m, a) >= 1
      /\ At(m, a + 1) = At(m, a) + 4 + Len(m.args[a])
      /\ At(m, a + 1) <= Size(m)
  BY Zenon, <1>2, Offsets
<1>8. Size(m) \in Nat
  BY Zenon, <1>2, Offsets
<1>9. Taken = At(m, a) + (IF rpc = "payload" THEN 4 + Len(arg) ELSE 0)
  <2>1. rpc # "command"
    OBVIOUS
  <2> QED BY Zenon, <2>1 DEF Taken
<1>10. Len(m.args) \in Nat
  <2> DEFINE N == Len(m.args)
  <2>1. N \in 1 .. 3
    BY <1>2 DEF IsMessage
  <2> HIDE DEF N
  <2>2. N \in Nat
    BY SMT, <2>1
  <2> QED BY <2>2 DEF N
<1> QED BY Zenon, <1>1, <1>2, <1>3, <1>4, <1>5, <1>6, <1>7, <1>8, <1>9, <1>10

(* The reader has an argument as it was written. *)
LEMMA ArgDoneKeeps ==
  ASSUME WireInv, rpc \in {"length", "payload"}, UNCHANGED <<writerVars, command>>,
         NEW B \in [Nat -> Int], NEW n \in Nat, Layout(B, n), WriterOK(n),
         NEW c \in 0 .. Len(stream), Take(c),
         NEW m, m = Msgs[Reading], NEW a, a = Len(args) + 1,
         Taken + c = At(m, a + 1), ArgDone(m.args[a]),
         arg' \in Seq(Byte), len' \in Int
  PROVE  /\ WireInv'
         /\ Channel!Read \/ UNCHANGED <<written, received>>
<1>1. WireTypeOK /\ ReaderOK
  BY DEF WireInv
<1>2. /\ m \in Messages /\ IsMessage(m) /\ command = m.command
      /\ a \in Nat /\ a \in 1 .. Len(m.args) /\ Len(args) \in Nat /\ Len(m.args) \in Nat
      /\ m.args[a] \in Seq(Byte) /\ Len(m.args[a]) \in Nat
      /\ Len(m.args[a]) \in Lengths \cup {0, 1, 4, 16}
      /\ At(m, a) \in Nat /\ At(m, a) >= 1
      /\ At(m, a + 1) = At(m, a) + 4 + Len(m.args[a])
      /\ At(m, a + 1) <= Size(m) /\ Size(m) \in Nat
      /\ Taken \in Nat
      /\ Taken = At(m, a) + (IF rpc = "payload" THEN 4 + Len(arg) ELSE 0)
  BY <1>1, ReaderAt
<1> DEFINE all == Append(args, m.args[a])
<1>3. args \in Seq(Seq(Byte)) /\ \A k \in 1 .. Len(args) : args[k] = m.args[k]
  BY Zenon, <1>1 DEF WireTypeOK, ReaderOK, Byte
<1>4. /\ all \in Seq(Seq(Byte)) /\ Len(all) = a
      /\ \A k \in 1 .. a : all[k] = m.args[k]
  <2>1. /\ all \in Seq(Seq(Byte))
        /\ all # << >>
        /\ Len(all) = Len(args) + 1
        /\ \A k \in 1 .. Len(args) : all[k] = args[k]
        /\ all[Len(args) + 1] = m.args[a]
    <3> DEFINE S == Seq(Byte)
               e == m.args[a]
    <3>1. args \in Seq(S) /\ e \in S
      BY <1>2, <1>3
    <3> HIDE DEF S, e
    <3>2. /\ Append(args, e) \in Seq(S)
          /\ Append(args, e) # << >>
          /\ Len(Append(args, e)) = Len(args) + 1
          /\ \A k \in 1 .. Len(args) : Append(args, e)[k] = args[k]
          /\ Append(args, e)[Len(args) + 1] = e
      BY <3>1, AppendProperties
    <3> QED BY <3>2 DEF S, e
  <2>2. \A k \in 1 .. a : k \in 1 .. Len(args) \/ k = Len(args) + 1
    <3> DEFINE l == Len(args)
    <3>1. l \in Nat /\ a = l + 1
      BY <1>2
    <3> HIDE DEF l
    <3>2. \A k \in 1 .. a : k \in 1 .. l \/ k = l + 1
      BY SMT, <3>1
    <3> QED BY <3>2 DEF l
  <2> HIDE DEF all
  <2> QED BY Zenon, <1>3, <2>1, <2>2
<1>5. Len(m.args) = NArgs[command] /\ m.args \in Seq(Seq(Byte))
  BY <1>2 DEF IsMessage
<1>6. IF Len(all) = NArgs[command]
        THEN /\ received' = Append(received, [command |-> command, args |-> all])
             /\ args' = <<>>
             /\ rpc' = "command"
        ELSE args' = all /\ rpc' = "length" /\ UNCHANGED received
  BY Zenon DEF ArgDone
<1> HIDE DEF all
<1>7. rpc # "failed" /\ command' \in DOMAIN Code
  BY <1>1 DEF WireTypeOK
<1>8. CASE a = Len(m.args)
  <2>1. all = m.args
    <3>1. Len(all) = Len(m.args) /\ \A k \in 1 .. Len(all) : all[k] = m.args[k]
      BY Zenon, <1>4, <1>8
    <3> QED BY <1>4, <1>5, <3>1, SeqEqual
  <2>2. m = [command |-> command, args |-> all]
    BY Zenon, <1>2, <2>1 DEF IsMessage
  <2>3. /\ received' = Append(received, Msgs[Reading]) /\ args' = <<>> /\ rpc' = "command"
    BY Zenon, <1>4, <1>5, <1>6, <1>8, <2>2
  <2>4. Taken + c = Size(Msgs[Reading])
    BY Zenon, <1>8 DEF Size
  <2>5. UNCHANGED writerVars
    OBVIOUS
  <2>6. WireInv' /\ Channel!Read
    BY <1>7, <2>3, <2>4, <2>5, ReadsLast
  <2> QED BY <2>6
<1>9. CASE a # Len(m.args)
  <2>1. args' = all /\ rpc' = "length" /\ received' = received
    BY Zenon, <1>4, <1>5, <1>6, <1>9
  <2>2. Msgs' = Msgs /\ Reading' = Reading /\ written' = written
    <3>1. Msgs' = Msgs
      BY WriterKept
    <3> QED BY <2>1, <3>1 DEF Reading, writerVars
  <2>3. Len(args') + 1 = a + 1
    BY Zenon, <1>4, <2>1
  <2>4. Taken' = Taken + c
    <3>0. Msgs'[Reading'] = m
      BY Zenon, <2>2
    <3>1. Taken' = At(m, a + 1) + 0
      BY Zenon, <2>1, <2>3, <3>0 DEF Taken
    <3>2. At(m, a + 1) + 0 = At(m, a + 1)
      <4> DEFINE at == At(m, a)
                 l == Len(m.args[a])
      <4>1. at \in Nat /\ l \in Nat /\ At(m, a + 1) = at + 4 + l
        BY <1>2
      <4> HIDE DEF at, l
      <4>2. (at + 4 + l) + 0 = at + 4 + l
        BY SMTT(30), <4>1
      <4> QED BY Zenon, <4>1, <4>2
    <3> QED BY Zenon, <3>1, <3>2
  <2>5. ReaderOK'
    <3>1. a + 1 <= Len(m.args)
      <4> DEFINE N == Len(m.args)
      <4>1. a \in Nat /\ N \in Nat /\ a \in 1 .. N /\ a # N
        BY <1>2, <1>9
      <4> HIDE DEF N
      <4>2. a + 1 <= N
        BY SMT, <4>1
      <4> QED BY <4>2 DEF N
    <3>2. /\ Msgs'[Reading'] = m /\ command' = m.command
          /\ Len(args') + 1 <= Len(m.args)
          /\ \A k \in 1 .. Len(args') : args'[k] = m.args[k]
      BY Zenon, <1>2, <1>4, <2>1, <2>2, <2>3, <3>1
    <3> QED BY Zenon, <1>2, <2>1, <3>2 DEF ReaderOK
  <2>6. args' \in Seq(Seq(Byte)) /\ rpc' \in {"command", "length", "payload", "failed"}
    BY Zenon, <1>4, <2>1
  <2>7. UNCHANGED <<writerVars, received>>
    BY <2>1
  <2>8. WireInv'
    BY <1>7, <2>4, <2>5, <2>6, <2>7, ReadsOn
  <2> QED BY <2>1, <2>2, <2>8
<1> QED BY <1>8, <1>9

LEMMA FailKeeps ==
  ASSUME WireInv, Fail, UNCHANGED writerVars
  PROVE  WireInv' /\ UNCHANGED <<written, received>>
<1>1. /\ wpc' = wpc /\ message' = message /\ i' = i /\ total' = total
      /\ written' = written /\ stream' = stream /\ command' = command
      /\ args' = args /\ arg' = arg /\ len' = len /\ received' = received
      /\ rpc' = "failed"
  BY DEF Fail, writerVars
<1> QED BY Zenon, <1>1 DEF WireInv, WireTypeOK

LEMMA ReadCommandKeeps ==
  ASSUME WireInv, ReadCommand
  PROVE  /\ WireInv'
         /\ Channel!Read \/ UNCHANGED <<written, received>>
<1>1. UNCHANGED writerVars /\ rpc = "command" /\ rpc # "failed"
  BY DEF ReadCommand
<1>2. CASE EndOfFile /\ Fail
  BY <1>1, <1>2, FailKeeps
<1>3. CASE /\ stream # <<>>
           /\ \E d \in DOMAIN Code : Code[d] = stream[1] /\ command' = d
           /\ Take(1)
           /\ rpc' = "length"
           /\ UNCHANGED <<args, arg, len, received>>
  <2>1. PICK B \in [Nat -> Int], n \in Nat : Layout(B, n) /\ WriterOK(n)
    BY <1>1 DEF WireInv
  <2>2. WireTypeOK /\ ReaderOK
    BY <1>1 DEF WireInv
  <2>3. /\ Len(written) \in Nat /\ Len(received) \in Nat
        /\ Reading \in Nat /\ Writing \in Nat
        /\ \A k \in 1 .. Len(written) :
             Msgs[k] = written[k] /\ Msgs[k] \in Messages
        /\ Msgs[Writing] = message
    BY <2>2, Numbered
  <2>4. Taken = 0 /\ args = <<>>
    BY <1>1, <2>2 DEF Taken, ReaderOK
  <2>5. Reading <= Writing /\ B[Reading] = -Taken /\ Len(stream) = B[Writing] + n
    BY <2>1 DEF Layout, Placed
  <2>6. Len(stream) \in Nat /\ Len(stream) >= 1
    <3>1. stream \in Seq(Byte)
      BY <2>2 DEF WireTypeOK, Byte
    <3>2. Len(stream) \in Nat \ {0}
      BY <1>3, <3>1, EmptySeq
    <3> QED BY SMT, <3>2
  <2>7. Msgs[Reading] \in Messages
    <3>1. CASE Reading = Writing
      <4>1. n # 0
        <5> DEFINE L == Len(stream)
                   T == Taken
        <5>1. L \in Nat /\ L >= 1 /\ L = -T + n /\ T = 0
          BY Zenon, <2>4, <2>5, <2>6, <3>1
        <5>2. \A x, y, z \in Int : x >= 1 /\ x = -y + z /\ y = 0 => z # 0
          BY SMT
        <5>3. L \in Int /\ T \in Int /\ n \in Int
          <6> HIDE DEF L, T
          <6> QED BY SMT, <5>1
        <5> HIDE DEF L, T
        <5> QED BY Zenon, <5>1, <5>2, <5>3
      <4> QED BY Zenon, <2>1, <2>3, <3>1, <4>1 DEF WriterOK
    <3>2. CASE Reading # Writing
      <4>1. Reading \in 1 .. Len(written)
        <5> DEFINE u == Len(received)
                   v == Len(written)
        <5>1. u \in Nat /\ v \in Nat /\ Reading = u + 1 /\ Writing = v + 1
          BY <2>3 DEF Reading, Writing
        <5> HIDE DEF u, v
        <5>2. Reading \in 1 .. v
          BY SMT, <2>5, <3>2, <5>1
        <5> QED BY <5>2 DEF v
      <4> QED BY <2>3, <4>1
    <3> QED BY <3>1, <3>2
  <2>8. PICK m : m = Msgs[Reading]
    OBVIOUS
  <2>9. IsMessage(m) /\ m \in Messages
    BY <2>7, <2>8, MessageShape
  <2>10. At(m, 1) = 1 /\ Size(m) \in Nat /\ Size(m) >= 5
    BY <2>9, Offsets
  <2>11. stream[1] = Code[m.command]
    <3>1. \A k \in 1 .. Len(stream) :
            Taken + k \in 1 .. Size(Msgs[Reading]) =>
              stream[k] = ByteAt(Msgs[Reading], Taken + k)
      BY <1>1, <2>1, <2>2, NextBytes
    <3>2. 1 \in 1 .. Len(stream) /\ 0 + 1 = 1 /\ 1 \in 1 .. Size(m)
      BY SMT, <2>6, <2>10
    <3>3. stream[1] = ByteAt(m, 1)
      BY Zenon, <2>4, <2>8, <3>1, <3>2
    <3> QED BY <3>3, CommandByte
  <2>12. command' = m.command /\ command' \in DOMAIN Code
    <3>1. m.command \in DOMAIN Code
      BY <2>9 DEF IsMessage
    <3> QED BY Zenon, <1>3, <2>11, <3>1, CodeInjective
  <2>13. Msgs' = Msgs /\ Reading' = Reading
    <3>1. Msgs' = Msgs
      BY <1>1, <2>1, WriterKept
    <3> QED BY <1>3, <3>1 DEF Reading
  <2>14. Len(args') = 0 /\ args' = <<>>
    BY <1>3, <2>4
  <2>15. Taken' = Taken + 1
    <3>1. Len(args') + 1 = 1 /\ 1 + 0 = 0 + 1
      BY SMT, <2>14
    <3>2. Taken' = At(m, 1) + 0
      BY Zenon, <1>3, <2>8, <2>13, <3>1 DEF Taken
    <3> QED BY Zenon, <2>4, <2>10, <3>1, <3>2
  <2>16. ReaderOK'
    <3>1. 0 + 1 <= Len(m.args) /\ \A k \in 1 .. 0 : FALSE
      <4> DEFINE N == Len(m.args)
      <4>1. N \in 1 .. 3
        BY <2>9 DEF IsMessage
      <4> HIDE DEF N
      <4>2. 0 + 1 <= N /\ \A k \in 1 .. 0 : FALSE
        BY SMT, <4>1
      <4> QED BY <4>2 DEF N
    <3>2. /\ Msgs'[Reading'] = m
          /\ Len(args') + 1 <= Len(m.args)
          /\ \A k \in 1 .. Len(args') : args'[k] = m.args[k]
      BY Zenon, <2>8, <2>13, <2>14, <3>1
    <3> QED BY Zenon, <1>3, <2>9, <2>12, <3>2 DEF ReaderOK
  <2>17. /\ args' \in Seq(Seq(Byte)) /\ arg' \in Seq(Byte) /\ len' \in Int
         /\ rpc' \in {"command", "length", "payload", "failed"}
    BY Zenon, <1>3, <2>2 DEF WireTypeOK, Byte
  <2>18. 1 \in 0 .. Len(stream)
    BY SMT, <2>6
  <2>19. UNCHANGED <<writerVars, received>>
    BY <1>1, <1>3
  <2>20. WireInv'
    BY <1>1, <1>3, <2>1, <2>12, <2>15, <2>16, <2>17, <2>18, <2>19, ReadsOn
  <2> QED BY <2>19, <2>20 DEF writerVars
<1> QED BY <1>2, <1>3 DEF ReadCommand

LEMMA ReadLengthKeeps ==
  ASSUME LengthsSurvive, WireInv, ReadLength
  PROVE  /\ WireInv'
         /\ Channel!Read \/ UNCHANGED <<written, received>>
<1>1. UNCHANGED writerVars /\ rpc = "length" /\ rpc # "failed"
  BY DEF ReadLength
<1>2. CASE EndOfFile /\ Fail
  BY <1>1, <1>2, FailKeeps
<1>3. CASE /\ Len(stream) >= 4
           /\ Take(4)
           /\ arg' = <<>>
           /\ len' = Decode(SubSeq(stream, 1, 4))
           /\ UNCHANGED command
           /\ \/ len' = 0 /\ ArgDone(<<>>)
              \/ len' # 0 /\ rpc' = "payload" /\ UNCHANGED <<args, received>>
  <2>1. PICK B \in [Nat -> Int], n \in Nat : Layout(B, n) /\ WriterOK(n)
    BY <1>1 DEF WireInv
  <2>2. WireTypeOK /\ ReaderOK
    BY <1>1 DEF WireInv
  <2>3. PICK m : m = Msgs[Reading]
    OBVIOUS
  <2>4. PICK a : a = Len(args) + 1
    OBVIOUS
  <2>5. /\ m \in Messages /\ IsMessage(m) /\ command = m.command
        /\ a \in Nat /\ a \in 1 .. Len(m.args) /\ Len(args) \in Nat /\ Len(m.args) \in Nat
        /\ m.args[a] \in Seq(Byte) /\ Len(m.args[a]) \in Nat
        /\ Len(m.args[a]) \in Lengths \cup {0, 1, 4, 16}
        /\ At(m, a) \in Nat /\ At(m, a) >= 1
        /\ At(m, a + 1) = At(m, a) + 4 + Len(m.args[a])
        /\ At(m, a + 1) <= Size(m) /\ Size(m) \in Nat
        /\ Taken \in Nat
        /\ Taken = At(m, a) + (IF rpc = "payload" THEN 4 + Len(arg) ELSE 0)
    BY <1>1, <2>2, <2>3, <2>4, ReaderAt
  <2> DEFINE at == At(m, a)
             l == Len(m.args[a])
             z == Size(m)
             L == Len(stream)
  <2>6. /\ at \in Nat /\ l \in Nat /\ z \in Nat /\ L \in Nat /\ L >= 4
        /\ at >= 1 /\ At(m, a + 1) = at + 4 + l /\ at + 4 + l <= z /\ Taken = at + 0
    <3>1. L \in Nat
      BY <2>2, LenProperties DEF WireTypeOK
    <3>2. Taken = at + 0
      BY Zenon, <1>1, <2>5
    <3> QED BY Zenon, <1>3, <2>5, <3>1, <3>2
  <2> HIDE DEF at, l, z, L
  <2>7. Taken = at /\ at + 4 = Taken + 4 /\ 4 \in 0 .. L
    BY SMT, <2>6
  <2>8. stream \in Seq(Byte)
    BY <2>2 DEF WireTypeOK, Byte
  <2>9. \A k \in 1 .. 4 : SubSeq(stream, 1, 4)[k] = stream[k]
    <3>1. 0 \in Nat /\ 4 \in Nat /\ 4 >= 1 /\ 0 + 4 <= L /\ 0 + 1 = 1 /\ 0 + 4 = 4
          /\ \A k \in 1 .. 4 : 0 + k = k
      BY SMT, <2>6
    <3>2. \A k \in 1 .. 4 : SubSeq(stream, 0 + 1, 0 + 4)[k] = stream[0 + k]
      BY <2>8, <3>1, Piece DEF L
    <3> QED BY Zenon, <3>1, <3>2
  <2>10. \A k \in 1 .. 4 : stream[k] = Word(l)[k]
    <3>1. \A k \in 1 .. L : Taken + k \in 1 .. Size(Msgs[Reading]) =>
            stream[k] = ByteAt(Msgs[Reading], Taken + k)
      BY <1>1, <2>1, <2>2, NextBytes DEF L
    <3>2. \A k \in 1 .. 4 : k \in 1 .. L /\ at + k \in 1 .. z
      BY SMT, <2>6
    <3>3. \A k \in 1 .. 4 : stream[k] = ByteAt(m, at + k)
      BY Zenon, <2>3, <2>7, <3>1, <3>2 DEF z
    <3>4. \A k \in 1 .. 4 : ByteAt(m, at + k) = Word(l)[k]
      BY ZenonT(40), <2>5, BytesInPlace DEF at, l
    <3> QED BY Zenon, <3>3, <3>4
  <2>11. len' = l
    <3> DEFINE b == SubSeq(stream, 1, 4)
               w == Word(l)
    <3>1. \A k \in 1 .. 4 : b[k] = w[k]
      BY Zenon, <2>9, <2>10
    <3>2. l \in Lengths \cup {0, 1, 4, 16}
      BY <2>5 DEF l
    <3>3. Decode(w) = l
      BY <3>2, DecodesRight
    <3>4. len' = Decode(b)
      BY <1>3
    <3> HIDE DEF b, w
    <3>5. Decode(b) = Decode(w)
      BY <3>1, DecodeSame
    <3> QED BY Zenon, <3>3, <3>4, <3>5
  <2>12. arg' \in Seq(Byte) /\ len' \in Int
    <3>1. <<>> \in Seq(Byte)
      BY EmptySeq
    <3>2. len' \in Int
      BY SMT, <2>6, <2>11
    <3> QED BY <1>3, <3>1, <3>2
  <2>13. Take(4) /\ UNCHANGED command
    BY <1>3
  <2>14. CASE len' = 0 /\ ArgDone(<<>>)
    <3>1. m.args[a] = <<>>
      <4> DEFINE e == m.args[a]
      <4>1. e \in Seq(Byte) /\ Len(e) = 0
        BY <2>5, <2>11, <2>14 DEF l
      <4> HIDE DEF e
      <4>2. e = <<>>
        BY <4>1, EmptySeq
      <4> QED BY <4>2 DEF e
    <3>2. ArgDone(m.args[a])
      BY Zenon, <2>14, <3>1
    <3>3. Taken + 4 = At(m, a + 1)
      <4>1. Taken + 4 = at + 4 + l
        BY SMT, <2>6, <2>7, <2>11, <2>14
      <4> QED BY Zenon, <2>6, <4>1
    <3>4. UNCHANGED <<writerVars, command>> /\ rpc \in {"length", "payload"}
      BY <1>1, <2>13
    <3>5. 4 \in 0 .. Len(stream)
      BY <2>7 DEF L
    <3> QED BY <2>1, <2>3, <2>4, <2>12, <2>13, <3>2, <3>3, <3>4, <3>5, ArgDoneKeeps
  <2>15. CASE len' # 0 /\ rpc' = "payload" /\ UNCHANGED <<args, received>>
    <3>1. Msgs' = Msgs /\ Reading' = Reading
      <4>1. Msgs' = Msgs
        BY <1>1, <2>1, WriterKept
      <4> QED BY <2>15, <4>1 DEF Reading
    <3>2. Len(arg') = 0 /\ arg' = <<>>
      BY <1>3
    <3>3. /\ Msgs'[Reading'] = m /\ args' = args /\ Len(args') + 1 = a /\ command' = command
      BY Zenon, <2>3, <2>4, <2>13, <2>15, <3>1
    <3>4. Taken' = Taken + 4
      <4>1. rpc' # "command" /\ rpc' = "payload"
        BY <2>15
      <4>2. Taken' = at + (4 + 0)
        BY Zenon, <3>2, <3>3, <4>1 DEF Taken, at
      <4>3. at + (4 + 0) = at + 4
        BY SMT, <2>6
      <4> QED BY Zenon, <2>7, <4>2, <4>3
    <3>5. ReaderOK'
      <4>1. a <= Len(m.args) /\ \A k \in 1 .. Len(args) : args[k] = m.args[k]
        BY Zenon, <1>1, <2>2, <2>3, <2>4 DEF ReaderOK
      <4>2. len' > 0 /\ 0 + len' = l /\ \A k \in 1 .. 0 : FALSE
        BY SMT, <2>6, <2>11, <2>15
      <4>3. rpc' = "payload" /\ rpc' # "command"
        BY <2>15
      <4>4. /\ len' > 0 /\ Len(arg') + len' = Len(m.args[Len(args') + 1])
            /\ \A k \in 1 .. Len(arg') : arg'[k] = m.args[Len(args') + 1][k]
        BY Zenon, <3>2, <3>3, <4>2 DEF l
      <4>5. /\ Msgs'[Reading'] \in Messages /\ command' = Msgs'[Reading'].command
            /\ Len(args') + 1 <= Len(Msgs'[Reading'].args)
            /\ \A k \in 1 .. Len(args') : args'[k] = Msgs'[Reading'].args[k]
        BY Zenon, <2>5, <3>3, <4>1
      <4> QED BY Zenon, <3>3, <4>3, <4>4, <4>5 DEF ReaderOK
    <3>6. UNCHANGED <<writerVars, received>> /\ rpc' \in {"command", "length", "payload", "failed"}
      BY <1>1, <2>15
    <3>7. args' \in Seq(Seq(Byte)) /\ command' \in DOMAIN Code
      BY Zenon, <2>2, <3>3 DEF WireTypeOK, Byte
    <3>8. 4 \in 0 .. Len(stream)
      BY <2>7 DEF L
    <3>9. WireInv'
      BY <1>1, <2>1, <2>12, <2>13, <3>4, <3>5, <3>6, <3>7, <3>8, ReadsOn
    <3> QED BY <3>6, <3>9 DEF writerVars
  <2> QED BY <1>3, <2>14, <2>15
<1> QED BY <1>2, <1>3 DEF ReadLength

LEMMA ReadPayloadKeeps ==
  ASSUME WireInv, ReadPayload
  PROVE  /\ WireInv'
         /\ Channel!Read \/ UNCHANGED <<written, received>>
<1>1. UNCHANGED writerVars /\ rpc = "payload" /\ rpc # "failed" /\ stream # <<>>
  BY DEF ReadPayload
<1>2. PICK B \in [Nat -> Int], n \in Nat : Layout(B, n) /\ WriterOK(n)
  BY <1>1 DEF WireInv
<1>3. WireTypeOK /\ ReaderOK
  BY <1>1 DEF WireInv
<1>4. PICK m : m = Msgs[Reading]
  OBVIOUS
<1>5. PICK a : a = Len(args) + 1
  OBVIOUS
<1>6. /\ m \in Messages /\ IsMessage(m) /\ command = m.command
      /\ a \in Nat /\ a \in 1 .. Len(m.args) /\ Len(args) \in Nat /\ Len(m.args) \in Nat
      /\ m.args[a] \in Seq(Byte) /\ Len(m.args[a]) \in Nat
      /\ Len(m.args[a]) \in Lengths \cup {0, 1, 4, 16}
      /\ At(m, a) \in Nat /\ At(m, a) >= 1
      /\ At(m, a + 1) = At(m, a) + 4 + Len(m.args[a])
      /\ At(m, a + 1) <= Size(m) /\ Size(m) \in Nat
      /\ Taken \in Nat
      /\ Taken = At(m, a) + (IF rpc = "payload" THEN 4 + Len(arg) ELSE 0)
  BY <1>1, <1>3, <1>4, <1>5, ReaderAt
<1>7. PICK c : c = Count(len)
  OBVIOUS
<1>8. /\ Take(c) /\ arg' = arg \o SubSeq(stream, 1, c) /\ len' = len - c /\ command' = command
      /\ \/ len' = 0 /\ ArgDone(arg')
         \/ len' # 0 /\ UNCHANGED <<rpc, args, received>>
  BY Zenon, <1>7 DEF ReadPayload
<1> DEFINE at == At(m, a)
           l == Len(m.args[a])
           z == Size(m)
           L == Len(stream)
           p == Len(arg)
<1>9. /\ at \in Nat /\ at >= 1 /\ l \in Nat /\ z \in Nat
      /\ At(m, a + 1) = at + 4 + l /\ at + 4 + l <= z /\ Taken = at + (4 + p)
  BY Zenon, <1>1, <1>6
<1>10. /\ len > 0 /\ p + len = l /\ len \in Int
       /\ \A k \in 1 .. p : arg[k] = m.args[a][k]
  BY Zenon, <1>1, <1>3, <1>4, <1>5 DEF ReaderOK, WireTypeOK
<1>11. stream \in Seq(Byte) /\ arg \in Seq(Byte)
  BY <1>3 DEF WireTypeOK, Byte
<1>12. L \in Nat /\ L >= 1 /\ p \in Nat
  <2>1. L \in Nat \ {0}
    BY <1>1, <1>11, EmptySeq
  <2>2. p \in Nat
    BY <1>11, LenProperties
  <2> HIDE DEF L, p
  <2> QED BY SMT, <2>1, <2>2
<1>13. c = IF len < 0 \/ len > L THEN L ELSE len
  BY Zenon, <1>7 DEF Count
<1> HIDE DEF at, l, z, L, p
<1>14. c \in Nat /\ c >= 1 /\ c \in 0 .. L /\ c <= len /\ c <= L
  BY SMT, <1>10, <1>12, <1>13
<1>15. /\ SubSeq(stream, 1, c) \in Seq(Byte)
       /\ Len(SubSeq(stream, 1, c)) = c
       /\ \A k \in 1 .. c : SubSeq(stream, 1, c)[k] = stream[k]
  <2>1. 0 \in Nat /\ 0 + c <= L /\ 0 + 1 = 1 /\ 0 + c = c /\ \A k \in 1 .. c : 0 + k = k
    BY SMT, <1>12, <1>14
  <2>2. /\ SubSeq(stream, 0 + 1, 0 + c) \in Seq(Byte)
        /\ Len(SubSeq(stream, 0 + 1, 0 + c)) = c
        /\ \A k \in 1 .. c : SubSeq(stream, 0 + 1, 0 + c)[k] = stream[0 + k]
    BY <1>11, <1>14, <2>1, Piece DEF L
  <2> QED BY Zenon, <2>1, <2>2
<1>16. \A k \in 1 .. c : stream[k] = m.args[a][p + k]
  <2>1. \A k \in 1 .. L : Taken + k \in 1 .. Size(Msgs[Reading]) =>
          stream[k] = ByteAt(Msgs[Reading], Taken + k)
    BY <1>1, <1>2, <1>3, NextBytes DEF L
  <2>2. \A k \in 1 .. c : /\ k \in 1 .. L /\ Taken + k \in 1 .. z
                          /\ Taken + k = at + 4 + (p + k) /\ p + k \in 1 .. l
    BY SMT, <1>9, <1>10, <1>12, <1>14
  <2>3. \A k \in 1 .. c : stream[k] = ByteAt(m, at + 4 + (p + k))
    BY Zenon, <1>4, <2>1, <2>2 DEF z
  <2>4. \A k \in 1 .. l : ByteAt(m, at + 4 + k) = m.args[a][k]
    BY ZenonT(40), <1>6, BytesInPlace DEF at, l
  <2> QED BY Zenon, <2>2, <2>3, <2>4
<1>17. PICK b : b = arg'
  OBVIOUS
<1>18. /\ b \in Seq(Byte) /\ Len(b) = p + c
       /\ \A k \in 1 .. p + c : b[k] = m.args[a][k]
  <2> DEFINE s == SubSeq(stream, 1, c)
  <2>1. s \in Seq(Byte) /\ Len(s) = c /\ \A k \in 1 .. c : s[k] = m.args[a][p + k]
    BY Zenon, <1>15, <1>16
  <2>2. b = arg \o s
    BY <1>8, <1>17
  <2> HIDE DEF s
  <2>3. /\ arg \o s \in Seq(Byte)
        /\ Len(arg \o s) = Len(arg) + Len(s)
        /\ \A k \in 1 .. Len(arg) + Len(s) : (arg \o s)[k] =
                     IF k <= Len(arg) THEN arg[k] ELSE s[k - Len(arg)]
    BY <1>11, <2>1, ConcatProperties
  <2>4. /\ b \in Seq(Byte) /\ Len(b) = p + c
        /\ \A k \in 1 .. p + c : b[k] = IF k <= p THEN arg[k] ELSE s[k - p]
    BY Zenon, <2>1, <2>2, <2>3 DEF p
  <2>5. ASSUME NEW k \in 1 .. p + c PROVE b[k] = m.args[a][k]
    <3>1. CASE k <= p
      <4>1. k \in 1 .. p
        BY SMT, <1>12, <1>14, <3>1
      <4> QED BY Zenon, <1>10, <2>4, <3>1, <4>1
    <3>2. CASE ~(k <= p)
      <4>1. k - p \in 1 .. c /\ p + (k - p) = k
        BY SMT, <1>12, <1>14, <3>2
      <4>2. b[k] = s[k - p]
        BY Zenon, <2>4, <3>2
      <4>3. s[k - p] = m.args[a][p + (k - p)]
        BY Zenon, <2>1, <4>1
      <4> QED BY Zenon, <4>1, <4>2, <4>3
    <3> QED BY <3>1, <3>2
  <2> QED BY <2>4, <2>5
<1>19. /\ len' \in Int /\ arg' \in Seq(Byte) /\ c \in 0 .. Len(stream)
       /\ UNCHANGED <<writerVars, command>> /\ rpc \in {"length", "payload"}
  <2>1. len - c \in Int
    BY SMT, <1>10, <1>14
  <2>2. c \in 0 .. Len(stream)
    BY <1>14 DEF L
  <2> QED BY <1>1, <1>8, <1>17, <1>18, <2>1, <2>2
<1>20. CASE len' = 0 /\ ArgDone(arg')
  <2>1. p + c = l
    <3>1. len - c = 0
      BY Zenon, <1>8, <1>20
    <3>2. p + len = l /\ len \in Int
      BY <1>10
    <3> QED BY SMT, <1>12, <1>14, <3>1, <3>2
  <2>2. b = m.args[a]
    <3> DEFINE e == m.args[a]
    <3>1. /\ b \in Seq(Byte) /\ e \in Seq(Byte) /\ Len(b) = Len(e)
          /\ \A k \in 1 .. Len(b) : b[k] = e[k]
      BY Zenon, <1>6, <1>18, <2>1 DEF l
    <3> HIDE DEF e
    <3>2. b = e
      BY <3>1, SeqEqual
    <3> QED BY <3>2 DEF e
  <2>3. ArgDone(m.args[a])
    BY Zenon, <1>17, <1>20, <2>2
  <2>4. Taken + c = At(m, a + 1)
    <3>1. Taken + c = at + 4 + l
      BY SMT, <1>9, <1>12, <1>14, <2>1
    <3> QED BY Zenon, <1>9, <3>1
  <2>5. Take(c)
    BY <1>8
  <2> QED BY <1>2, <1>4, <1>5, <1>19, <2>3, <2>4, <2>5, ArgDoneKeeps
<1>21. CASE len' # 0 /\ UNCHANGED <<rpc, args, received>>
  <2>1. Msgs' = Msgs /\ Reading' = Reading
    <3>1. Msgs' = Msgs
      BY <1>1, <1>2, WriterKept
    <3> QED BY <1>21, <3>1 DEF Reading
  <2>2. /\ Msgs'[Reading'] = m /\ args' = args /\ Len(args') + 1 = a /\ command' = command
        /\ rpc' = "payload" /\ rpc' # "command" /\ arg' = b
    <3>1. rpc' = "payload"
      BY <1>1, <1>21
    <3> QED BY Zenon, <1>4, <1>5, <1>8, <1>17, <1>21, <2>1, <3>1
  <2>3. Taken' = Taken + c
    <3>1. Taken' = at + (4 + (p + c))
      BY Zenon, <1>18, <2>2 DEF Taken, at
    <3>2. at + (4 + (p + c)) = at + (4 + p) + c
      BY SMT, <1>9, <1>12, <1>14
    <3> QED BY Zenon, <1>9, <3>1, <3>2
  <2>4. ReaderOK'
    <3>1. a <= Len(m.args) /\ \A k \in 1 .. Len(args) : args[k] = m.args[k]
      BY Zenon, <1>1, <1>3, <1>4, <1>5 DEF ReaderOK
    <3>2. len' > 0 /\ (p + c) + len' = l
      <4>1. p + len = l /\ len \in Int
        BY <1>10
      <4>2. len - c # 0
        BY Zenon, <1>8, <1>21
      <4>3. len - c > 0 /\ (p + c) + (len - c) = l
        BY SMT, <1>12, <1>14, <4>1, <4>2
      <4> QED BY Zenon, <1>8, <4>3
    <3>3. /\ len' > 0 /\ Len(arg') + len' = Len(m.args[Len(args') + 1])
          /\ \A k \in 1 .. Len(arg') : arg'[k] = m.args[Len(args') + 1][k]
      BY Zenon, <1>18, <2>2, <3>2 DEF l
    <3>4. /\ Msgs'[Reading'] \in Messages /\ command' = Msgs'[Reading'].command
          /\ Len(args') + 1 <= Len(Msgs'[Reading'].args)
          /\ \A k \in 1 .. Len(args') : args'[k] = Msgs'[Reading'].args[k]
      BY Zenon, <1>6, <2>2, <3>1
    <3> QED BY Zenon, <2>2, <3>3, <3>4 DEF ReaderOK
  <2>5. /\ args' \in Seq(Seq(Byte)) /\ command' \in DOMAIN Code
        /\ rpc' \in {"command", "length", "payload", "failed"}
    BY Zenon, <1>3, <2>2 DEF WireTypeOK, Byte
  <2>6. UNCHANGED <<writerVars, received>> /\ Take(c)
    BY <1>1, <1>8, <1>21
  <2>7. WireInv'
    BY <1>1, <1>2, <1>19, <2>3, <2>4, <2>5, <2>6, ReadsOn
  <2> QED BY <2>6, <2>7 DEF writerVars
<1> QED BY <1>8, <1>20, <1>21

-----------------------------------------------------------------------------
(* The invariant holds to begin with, and every step keeps it.  A step of  *)
(* the wire is one of the channel, or none.                                *)

LEMMA InitWireInv ==
  ASSUME WireInit
  PROVE  WireInv
<1>1. /\ stream = <<>> /\ wpc = "idle" /\ i = 1 /\ total = 0 /\ written = <<>>
      /\ message = [command |-> "RESPONSE", args |-> <<>>]
      /\ rpc = "command" /\ command = "RESPONSE" /\ args = <<>> /\ arg = <<>>
      /\ len = 0 /\ received = <<>>
  BY DEF WireInit
<1>2. WireTypeOK
  <2>1. "RESPONSE" \in DOMAIN Code
    BY DEF Code
  <2>2. /\ <<>> \in Seq(0 .. 255) /\ <<>> \in Seq(Messages)
        /\ <<>> \in Seq(Seq(0 .. 255))
    OBVIOUS
  <2>3. 1 \in Nat /\ 0 \in Nat /\ 0 \in Int
    OBVIOUS
  <2> QED BY Zenon, <1>1, <2>1, <2>2, <2>3 DEF WireTypeOK
<1>3. ReaderOK
  BY Zenon, <1>1 DEF ReaderOK
<1>4. WriterOK(0)
  BY Zenon, <1>1 DEF WriterOK
<1> DEFINE B == [k \in Nat |-> 0]
<1>5. B \in [Nat -> Int] /\ \A k \in Nat : B[k] = 0
  OBVIOUS
<1>6. Reading = 1 /\ Writing = 1
  BY <1>1 DEF Reading, Writing
<1>7. Taken = 0
  BY <1>1 DEF Taken
<1>8. Len(stream) = 0
  BY <1>1
<1> HIDE DEF B
<1>9. B[Reading] = -Taken /\ Reading <= Writing
  BY SMT, <1>5, <1>6, <1>7
<1>10. /\ B[1] + 0 = 0
       /\ \A k \in 1 .. 1 - 1 : FALSE
       /\ \A k \in 1 .. 1 : B[k] <= B[1]
       /\ \A x : x \in 1 .. 0 => FALSE
  BY SMT, <1>5
<1>11. Placed(stream, Msgs, Reading, Writing, B, 0)
  BY Zenon, <1>6, <1>8, <1>10 DEF Placed
<1>12. Layout(B, 0)
  BY Zenon, <1>9, <1>11 DEF Layout
<1>13. 0 \in Nat
  OBVIOUS
<1> QED BY Zenon, <1>2, <1>3, <1>4, <1>5, <1>12, <1>13 DEF WireInv

LEMMA WriterKeeps ==
  ASSUME WireInv, Writer
  PROVE  /\ WireInv'
         /\ (\E m \in Messages : Channel!Write(m)) \/ UNCHANGED <<written, received>>
<1>1. rpc # "failed"
  BY DEF Writer
<1>2. CASE \E m \in Messages : WriteCommand(m)
  <2>1. PICK m \in Messages : WriteCommand(m)
    BY <1>2
  <2>2. UNCHANGED <<written, received>>
    BY <2>1 DEF WriteCommand, readerVars
  <2> QED BY <1>1, <2>1, <2>2, WriteCommandKeeps
<1>3. ASSUME wpc \in {"length", "payload"}, UNCHANGED readerVars,
             NextArg(i + 1) \/ UNCHANGED written
      PROVE  (\E m \in Messages : Channel!Write(m)) \/ UNCHANGED <<written, received>>
  <2>1. message \in Messages
    <3>1. PICK n \in Nat : WriterOK(n)
      BY <1>1 DEF WireInv
    <3> QED BY <1>3, <3>1 DEF WriterOK
  <2>2. received' = received
    BY <1>3 DEF readerVars
  <2>3. written' = Append(written, message) \/ written' = written
    BY <1>3 DEF NextArg
  <2> QED BY <2>1, <2>2, <2>3 DEF Channel!Write
<1>4. CASE WriteLength
  <2>1. /\ wpc \in {"length", "payload"} /\ UNCHANGED readerVars
        /\ NextArg(i + 1) \/ UNCHANGED written
    BY <1>4 DEF WriteLength
  <2> QED BY <1>1, <1>3, <1>4, <2>1, WriteLengthKeeps
<1>5. CASE WritePayload
  <2>1. /\ wpc \in {"length", "payload"} /\ UNCHANGED readerVars
        /\ NextArg(i + 1) \/ UNCHANGED written
    BY <1>5 DEF WritePayload
  <2> QED BY <1>1, <1>3, <1>5, <2>1, WritePayloadKeeps
<1> QED BY <1>2, <1>4, <1>5 DEF Writer

LEMMA WireNextKeeps ==
  ASSUME LengthsSurvive, WireInv, [WireNext]_wireVars
  PROVE  /\ WireInv'
         /\ [Channel!ChannelNext]_<<written, received>>
<1>1. CASE Writer
  <2>1. /\ WireInv'
        /\ (\E m \in Messages : Channel!Write(m)) \/ UNCHANGED <<written, received>>
    BY <1>1, WriterKeeps
  <2> QED BY <2>1 DEF Channel!ChannelNext
<1>2. CASE Close
  <2>1. UNCHANGED <<written, received>>
    BY <1>2 DEF Close, readerVars
  <2> QED BY <1>2, <2>1, CloseKeeps
<1>3. CASE Reader
  <2>1. /\ WireInv'
        /\ Channel!Read \/ UNCHANGED <<written, received>>
    BY <1>3, ReadCommandKeeps, ReadLengthKeeps, ReadPayloadKeeps DEF Reader
  <2> QED BY <2>1 DEF Channel!ChannelNext
<1>4. CASE UNCHANGED wireVars
  <2>1. stream' = stream /\ UNCHANGED writerVars /\ UNCHANGED readerVars
    BY <1>4 DEF wireVars
  <2>2. /\ wpc' = wpc /\ message' = message /\ i' = i /\ total' = total
        /\ written' = written
    BY <2>1 DEF writerVars
  <2>3. /\ rpc' = rpc /\ command' = command /\ args' = args /\ arg' = arg
        /\ len' = len /\ received' = received
    BY <2>1 DEF readerVars
  <2>4. WireTypeOK'
    BY Zenon, <2>1, <2>2, <2>3 DEF WireInv, WireTypeOK
  <2>5. Reading' = Reading /\ Writing' = Writing /\ Msgs' = Msgs
    BY Zenon, <2>2, <2>3 DEF Reading, Writing, Msgs
  <2>6. Taken' = Taken
    BY Zenon, <2>3, <2>5 DEF Taken
  <2>7. CASE rpc # "failed"
    <3>1. ReaderOK'
      <4>1. ReaderOK
        BY <2>7 DEF WireInv
      <4> QED BY Zenon, <2>3, <2>5, <4>1 DEF ReaderOK
    <3>2. PICK B \in [Nat -> Int], n \in Nat : Layout(B, n) /\ WriterOK(n)
      BY <2>7 DEF WireInv
    <3>3. Layout(B, n)'
      BY Zenon, <2>1, <2>5, <2>6, <3>2 DEF Layout
    <3>4. WriterOK(n)'
      BY <2>1, <3>2, WriterKept
    <3> QED BY Zenon, <2>2, <2>3, <2>4, <3>1, <3>2, <3>3, <3>4 DEF WireInv
  <2>8. CASE rpc = "failed"
    <3>1. rpc' = "failed"
      BY <2>3, <2>8
    <3> QED BY Zenon, <2>2, <2>3, <2>4, <3>1 DEF WireInv
  <2> QED BY <2>2, <2>3, <2>7, <2>8
<1> QED BY <1>1, <1>2, <1>3, <1>4 DEF WireNext

-----------------------------------------------------------------------------
(* WireInv holds in every state, for any lengths below BUFSIZ that survive *)
(* the shifts of _fep_read_control_message: all of them where a char is    *)
(* unsigned, and those without a byte above 127 in the lower three where   *)
(* it is signed (LongLengthsLost says what becomes of the others).         *)
LEMMA WireInvariance ==
  ASSUME LengthsSurvive
  PROVE  WireSpec => []WireInv
<1>1. WireInit => WireInv
  BY InitWireInv
<1>2. WireInv /\ [WireNext]_wireVars => WireInv'
  BY WireNextKeeps
<1> QED BY <1>1, <1>2, PTL DEF WireSpec

(* While the reader is in the loop of read() over an argument, what it has *)
(* and what it still asks for are together that argument of the message    *)
(* that was written, whatever messages, cuts and steps there were.         *)
THEOREM LengthAgreesHolds ==
  ASSUME LengthsSurvive
  PROVE  WireSpec => []LengthAgrees
<1>1. WireInv => LengthAgrees
  <2>1. SUFFICES ASSUME WireInv, rpc = "payload"
                 PROVE  Len(arg) + len = Len(Msgs[Reading].args[Len(args) + 1])
    BY DEF LengthAgrees, Msgs, Reading
  <2> QED BY <2>1 DEF WireInv, ReaderOK
<1> QED BY <1>1, WireInvariance, PTL

(* The bytes implement the channel of whole messages: the reader returns   *)
(* the messages that were written to the last byte, each once, in their    *)
(* order and with their contents, however write() and read() cut the bytes *)
(* and wherever the writer dies.                                           *)
THEOREM WireImplements ==
  ASSUME LengthsSurvive
  PROVE  WireSpec => Implements
<1>1. WireInit => Channel!ChannelInit
  BY DEF WireInit, Channel!ChannelInit
<1>2. WireInv /\ [WireNext]_wireVars => [Channel!ChannelNext]_<<written, received>>
  BY WireNextKeeps
<1> QED BY <1>1, <1>2, WireInvariance, PTL DEF WireSpec, Implements, Channel!ChannelSpec

-----------------------------------------------------------------------------
(* Where the messages begin.  Starts is defined by recursion; any function *)
(* that obeys its equations is it, and WireInv says there is one.          *)

LEMMA LeastNumber ==
  ASSUME NEW T \in SUBSET Nat, T # {}
  PROVE  \E m \in T : \A k \in T : m <= k
<1>1. PICK m \in T : \A y \in T : ~(<<y, m>> \in OpToRel(<, Nat))
  BY NatLessThanWellFounded, WFMin
<1>2. \A y \in T : ~(y < m)
  BY <1>1 DEF OpToRel
<1> QED BY <1>2

LEMMA StartsAre ==
  ASSUME WireTypeOK, NEW B \in [Nat -> Int], NEW n \in Nat, Layout(B, n)
  PROVE  \A k \in Reading .. Writing : Starts[k] = B[k]
<1> DEFINE r == Reading
           w == Writing
           t == Taken
           Step(f) == [k \in r .. w |-> IF k = r THEN -t ELSE f[k - 1] + Size(Msgs[k - 1])]
           F == [k \in r .. w |-> B[k]]
<1>1. r \in Nat /\ w \in Nat /\ r <= w
  BY Numbered DEF Layout
<1>2. B[r] = -t /\ \A k \in r .. w - 1 : B[k + 1] = B[k] + Size(Msgs[k])
  BY Zenon DEF Layout, Placed
<1>3. Starts = CHOOSE f : f = Step(f)
  BY Zenon DEF Starts
<1> HIDE DEF r, w, t
<1>4. F = Step(F)
  <2>1. ASSUME NEW k \in r .. w
        PROVE  B[k] = IF k = r THEN -t ELSE F[k - 1] + Size(Msgs[k - 1])
    <3>1. CASE k = r
      BY Zenon, <1>2, <3>1
    <3>2. CASE k # r
      <4>1. k - 1 \in r .. w - 1 /\ k - 1 \in r .. w /\ (k - 1) + 1 = k
        BY SMT, <1>1, <3>2
      <4>2. F[k - 1] = B[k - 1]
        BY Zenon, <4>1
      <4>3. B[k] = B[k - 1] + Size(Msgs[k - 1])
        BY Zenon, <1>2, <4>1
      <4> QED BY Zenon, <3>2, <4>2, <4>3
    <3> QED BY <3>1, <3>2
  <2> HIDE DEF F
  <2>2. Step(F) = [k \in r .. w |-> B[k]]
    BY Zenon, <2>1
  <2> QED BY <2>2 DEF F
<1>5. PICK C : C = Starts
  OBVIOUS
<1>6. C = Step(C)
  <2>1. \E f : f = Step(f)
    BY <1>4
  <2> HIDE DEF Step
  <2> QED BY Zenon, <1>3, <1>5, <2>1
<1>7. \A k \in r .. w : C[k] = IF k = r THEN -t ELSE C[k - 1] + Size(Msgs[k - 1])
  BY Zenon, <1>6
<1>8. C[r] = B[r]
  <2>1. r \in r .. w
    BY SMT, <1>1
  <2> QED BY Zenon, <1>2, <1>7, <2>1
<1> DEFINE T == {k \in r .. w : C[k] # B[k]}
<1>9. ASSUME T # {} PROVE FALSE
  <2>1. PICK S : S = T
    OBVIOUS
  <2>2. S \in SUBSET Nat /\ S # {}
    BY SMT, <1>1, <1>9, <2>1
  <2>3. PICK m \in S : \A k \in S : m <= k
    BY <2>2, LeastNumber
  <2>4. m \in r .. w /\ C[m] # B[m]
    BY Zenon, <2>1, <2>3
  <2>5. m # r
    BY Zenon, <1>8, <2>4
  <2>6. /\ m - 1 \in r .. w - 1 /\ m - 1 \in r .. w /\ (m - 1) + 1 = m
        /\ ~(m <= m - 1)
    BY SMT, <1>1, <2>4, <2>5
  <2>7. C[m - 1] = B[m - 1]
    BY Zenon, <2>1, <2>3, <2>6
  <2>8. C[m] = C[m - 1] + Size(Msgs[m - 1])
    BY Zenon, <1>7, <2>4, <2>5
  <2>9. B[m] = B[m - 1] + Size(Msgs[m - 1])
    BY Zenon, <1>2, <2>6
  <2> QED BY Zenon, <2>4, <2>7, <2>8, <2>9
<1>10. \A k \in r .. w : C[k] = B[k]
  BY Zenon, <1>9
<1> QED BY Zenon, <1>5, <1>10 DEF r, w

(* The bytes in the socket are always those between the reader and the     *)
(* writer: the rest of the message that is read, the messages after it,    *)
(* and what the writer has written of its own; and what the two keep of    *)
(* their places in those messages is right.  This holds for any number of  *)
(* messages on the way and any cuts of read() and write().                 *)
THEOREM SocketAlwaysHolds ==
  ASSUME LengthsSurvive
  PROVE  WireSpec => []SocketHolds
<1>1. WireInv => SocketHolds
  <2>1. SUFFICES ASSUME WireInv, rpc # "failed"
                 PROVE  \E n \in 0 .. Taken + Len(stream) : Layout(Starts, n) /\ WriterOK(n)
    BY Zenon DEF WireInv, SocketHolds
  <2>2. PICK B \in [Nat -> Int], n \in Nat : Layout(B, n) /\ WriterOK(n)
    BY <2>1 DEF WireInv
  <2>3. WireTypeOK /\ ReaderOK
    BY <2>1 DEF WireInv
  <2>4. Reading \in Nat /\ Writing \in Nat /\ Reading <= Writing
    BY <2>2, <2>3, Numbered DEF Layout
  <2>5. \A k \in Reading .. Writing : Starts[k] = B[k]
    BY <2>2, <2>3, StartsAre
  <2>6. Taken \in Nat
    BY <2>1, <2>2, <2>3, NextBytes
  <2>7. /\ B[Reading] = -Taken
        /\ Len(stream) = B[Writing] + n
        /\ \A k \in Reading .. Writing - 1 : B[k + 1] = B[k] + Size(Msgs[k])
        /\ \A k \in Reading .. Writing : B[k] <= B[Writing]
        /\ \A k \in Reading .. Writing : \A o \in 1 .. Size(Msgs[k]) :
             B[k] + o \in 1 .. Len(stream) => stream[B[k] + o] = ByteAt(Msgs[k], o)
    BY Zenon, <2>2 DEF Layout, Placed
  <2>8. /\ Reading \in Reading .. Writing /\ Writing \in Reading .. Writing
        /\ \A k \in Reading .. Writing - 1 :
             k \in Reading .. Writing /\ k + 1 \in Reading .. Writing
    BY SMT, <2>4
  <2>9. Layout(Starts, n)
    <3>1. Placed(stream, Msgs, Reading, Writing, Starts, n)
      BY Zenon, <2>5, <2>7, <2>8 DEF Placed
    <3> QED BY Zenon, <2>4, <2>5, <2>7, <2>8, <3>1 DEF Layout
  <2>10. n \in 0 .. Taken + Len(stream)
    <3> DEFINE L == Len(stream)
               b == B[Writing]
               t == Taken
    <3>1. /\ L = b + n /\ -t <= b /\ t \in Nat /\ n \in Nat /\ b \in Int
      BY Zenon, <2>2, <2>4, <2>6, <2>7, <2>8
    <3> HIDE DEF L, b, t
    <3>2. n \in 0 .. t + L
      BY SMT, <3>1
    <3> QED BY <3>2 DEF t, L
  <2> QED BY <2>2, <2>9, <2>10
<1> QED BY <1>1, WireInvariance, PTL
=============================================================================
