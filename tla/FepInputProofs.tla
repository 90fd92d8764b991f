--------------------------- MODULE FepInputProofs ---------------------------
(* Proofs about FepInput: for every terminal, whatever its capabilities    *)
(* are, and for every keyboard, the bytes typed are cut into keys without  *)
(* loss.                                                                   *)
EXTENDS FepInput, FepCsiProofs

(* What a sequence stands for takes all of its bytes, or none. *)
LEMMA CursorKeyLen ==
  ASSUME NEW csi
  PROVE  CursorKey(csi).len \in {0, csi.len}
BY DEF CursorKey, Key, NoKey

LEMMA CSIKeyLen ==
  ASSUME NEW csi
  PROVE  CSIToKey(csi).len \in {0, csi.len}
<1>1. CASE csi.final \in DOMAIN CursorKeyval
  BY <1>1, CursorKeyLen DEF CSIToKey
<1>2. CASE csi.final \notin DOMAIN CursorKeyval
  <2> DEFINE caps == CapsOf(CSIFormat(csi))
             i == CHOOSE k \in caps : \A j \in caps : k <= j
  <2>1. CSIToKey(csi) = IF caps = {} THEN NoKey
                        ELSE Key(CapKeyvals[i].keyval, {}, csi.len)
    BY <1>2 DEF CSIToKey
  <2> HIDE DEF caps, i
  <2> QED BY <2>1 DEF Key, NoKey
<1> QED BY <1>1, <1>2

LEMMA EtermKeyLen ==
  ASSUME NEW csi
  PROVE  EtermKey(csi).len \in {0, csi.len}
BY DEF EtermKey, Key, NoKey

LEMMA EscKeyLen ==
  ASSUME NEW s \in Seq(Byte)
  PROVE  EscToKey(s).len \in 0 .. Len(s)
<1> DEFINE ss3 == CSIParse(s, 79)
           eterm == CSIParse(s, 111)
           csi == CSIParse(s, 91)
<1>1. 79 \in Byte /\ 111 \in Byte /\ 91 \in Byte
  BY SMT DEF Byte
<1>2. ss3.len \in 0 .. Len(s) /\ eterm.len \in 0 .. Len(s) /\ csi.len \in 0 .. Len(s)
  BY <1>1, CSIWithin
<1>3. EscToKey(s) \in {CursorKey(ss3), EtermKey(eterm), CSIToKey(csi), NoKey}
  BY DEF EscToKey
<1>4. 0 \in 0 .. Len(s)
  BY SMT, LenProperties
<1>5. NoKey.len = 0
  BY DEF NoKey
<1> HIDE DEF ss3, eterm, csi
<1>6. CursorKey(ss3).len \in 0 .. Len(s)
  BY <1>2, <1>4, CursorKeyLen
<1>7. EtermKey(eterm).len \in 0 .. Len(s)
  BY <1>2, <1>4, EtermKeyLen
<1>8. CSIToKey(csi).len \in 0 .. Len(s)
  BY <1>2, <1>4, CSIKeyLen
<1> QED BY <1>3, <1>4, <1>5, <1>6, <1>7, <1>8

(* A byte is always a key of its own. *)
LEMMA CharKeyLen ==
  ASSUME NEW b \in Byte
  PROVE  CharToKey(b).len = 1
<1>1. \A c, meta : Char7ToKey(c, meta).len = 1
  BY DEF Char7ToKey, Key
<1> QED BY <1>1 DEF CharToKey

(* The next key takes no more bytes than there are. *)
LEMMA KeyWithin ==
  ASSUME NEW s \in Seq(Byte), s # <<>>
  PROVE  NextKeyOf(s).len \in 0 .. Len(s)
<1>1. Len(s) \in Nat /\ Len(s) # 0 /\ s[1] \in Byte
  BY SMT, LenProperties, EmptySeq, ElementOfSeq
<1>2. 1 \in 0 .. Len(s)
  BY SMT, <1>1
<1>3. CharToKey(s[1]).len \in 0 .. Len(s)
  BY <1>1, <1>2, CharKeyLen
<1> QED BY <1>3, EscKeyLen DEF NextKeyOf

-----------------------------------------------------------------------------
(* The inductive invariant: the bytes typed are those of the keys, those   *)
(* of the read that is being cut, and those not read.                      *)
IInv ==
  /\ tty \in Seq(Byte) /\ buf \in Seq(Byte)
  /\ taken \in Seq(Byte) /\ typed \in Seq(Byte)
  /\ SourcesKept

LEMMA InitIInv == Init => IInv
BY SMT DEF Init, IInv, SourcesKept

LEMMA Associative ==
  ASSUME NEW s \in Seq(Byte), NEW t \in Seq(Byte), NEW u \in Seq(Byte)
  PROVE  (s \o t) \o u = s \o (t \o u)
<1>1. \A S : \A a, b, c \in Seq(S) : (a \o b) \o c = a \o (b \o c)
  BY ConcatAssociative
<1> QED BY <1>1

LEMMA TypeKeeps ==
  ASSUME IInv, NEW k \in Strokes, Type(k)
  PROVE  IInv'
<1>1. k.bytes \in Seq(Byte)
  BY StrokesAssumption DEF Stroke
<1>2. /\ tty' = tty \o k.bytes /\ typed' = typed \o k.bytes
      /\ buf' = buf /\ taken' = taken
  BY DEF Type
<1>3. tty' \in Seq(Byte) /\ typed' \in Seq(Byte) /\ taken \o buf \in Seq(Byte)
  BY <1>1, <1>2, ConcatProperties DEF IInv
<1>4. (taken \o buf) \o (tty \o k.bytes) = ((taken \o buf) \o tty) \o k.bytes
  <2> DEFINE front == taken \o buf
  <2>1. front \in Seq(Byte) /\ tty \in Seq(Byte)
    BY <1>3 DEF IInv
  <2> HIDE DEF front
  <2>2. front \o (tty \o k.bytes) = (front \o tty) \o k.bytes
    BY <1>1, <2>1, Associative
  <2> QED BY <2>2 DEF front
<1> QED BY <1>2, <1>3, <1>4 DEF IInv, SourcesKept

(* Cutting a sequence in two. *)
LEMMA Cutting ==
  ASSUME NEW s \in Seq(Byte), NEW n \in 0 .. Len(s)
  PROVE  /\ SubSeq(s, 1, n) \in Seq(Byte)
         /\ SubSeq(s, n + 1, Len(s)) \in Seq(Byte)
         /\ SubSeq(s, 1, n) \o SubSeq(s, n + 1, Len(s)) = s
<1>1. /\ Len(s) \in Nat /\ n \in Int /\ n + 1 \in Int /\ Len(s) \in Int /\ 1 \in Int
      /\ 1 .. n \subseteq 1 .. Len(s) /\ n + 1 .. Len(s) \subseteq 1 .. Len(s)
      /\ 1 \in 1 .. Len(s) + 1 /\ n \in 1 - 1 .. Len(s) /\ Len(s) \in n .. Len(s)
  BY SMT, LenProperties
<1>2. \A j \in 1 .. Len(s) : s[j] \in Byte
  BY ElementOfSeq
<1>3. SubSeq(s, 1, n) \in Seq(Byte)
  BY <1>1, <1>2, SubSeqProperties
<1>4. SubSeq(s, n + 1, Len(s)) \in Seq(Byte)
  BY <1>1, <1>2, SubSeqProperties
<1>5. SubSeq(s, 1, n) \o SubSeq(s, n + 1, Len(s)) = SubSeq(s, 1, Len(s))
  BY <1>1, ConcatAdjacentSubSeq
<1>6. SubSeq(s, 1, Len(s)) = s
  BY SubSeqFull
<1> QED BY <1>3, <1>4, <1>5, <1>6

LEMMA ReadKeeps ==
  ASSUME IInv, NEW n \in 1 .. Len(tty), Read(n)
  PROVE  IInv'
<1>1. n \in 0 .. Len(tty)
  BY SMT, LenProperties DEF IInv
<1>2. /\ buf = <<>> /\ buf' = SubSeq(tty, 1, n)
      /\ tty' = SubSeq(tty, n + 1, Len(tty))
      /\ taken' = taken /\ typed' = typed
  BY DEF Read
<1>3. /\ buf' \in Seq(Byte) /\ tty' \in Seq(Byte)
      /\ buf' \o tty' = tty
  BY <1>1, <1>2, Cutting DEF IInv
<1>4. (taken \o buf') \o tty' = taken \o (buf' \o tty')
  BY ZenonT(40), <1>3, Associative DEF IInv
<1>5. taken \o buf = taken
  BY <1>2, ConcatEmptySeq DEF IInv
<1> QED BY <1>2, <1>3, <1>4, <1>5 DEF IInv, SourcesKept

LEMMA NextKeyKeeps ==
  ASSUME IInv, NextKey
  PROVE  IInv'
<1> DEFINE n == NextKeyOf(buf).len
<1>1. n \in 0 .. Len(buf)
  BY KeyWithin DEF IInv, NextKey
<1>2. /\ taken' = taken \o SubSeq(buf, 1, n)
      /\ buf' = SubSeq(buf, n + 1, Len(buf))
      /\ tty' = tty /\ typed' = typed
  BY DEF NextKey
<1> HIDE DEF n
<1>3. /\ SubSeq(buf, 1, n) \in Seq(Byte) /\ buf' \in Seq(Byte)
      /\ SubSeq(buf, 1, n) \o buf' = buf
  BY <1>1, <1>2, Cutting DEF IInv
<1>4. taken' \o buf' = taken \o buf
  <2> DEFINE source == SubSeq(buf, 1, n)
  <2>1. source \in Seq(Byte) /\ taken \in Seq(Byte) /\ buf' \in Seq(Byte)
    BY <1>3 DEF IInv
  <2>2. taken' = taken \o source /\ source \o buf' = buf
    BY <1>2, <1>3
  <2> HIDE DEF source
  <2>3. (taken \o source) \o buf' = taken \o (source \o buf')
    BY <2>1, Associative
  <2> QED BY <2>2, <2>3
<1>5. taken' \in Seq(Byte)
  BY <1>2, <1>3, ConcatProperties DEF IInv
<1> QED BY <1>2, <1>3, <1>4, <1>5 DEF IInv, SourcesKept

LEMMA NextIInv == IInv /\ [Next]_inputVars => IInv'
<1> SUFFICES ASSUME IInv, [Next]_inputVars PROVE IInv'
  OBVIOUS
<1>1. CASE UNCHANGED inputVars
  BY <1>1 DEF IInv, SourcesKept, inputVars
<1>2. CASE Next
  BY <1>2, TypeKeeps, ReadKeeps, NextKeyKeeps DEF Next
<1> QED BY <1>1, <1>2

(* Whatever sequences the terminal has for its keys, whatever keys are     *)
(* typed and wherever reads end, the sources of the events are the bytes   *)
(* typed: a key nobody handles reaches the child as it was typed.          *)
THEOREM NoByteLost == Spec => []SourcesKept
<1>1. IInv => SourcesKept
  BY DEF IInv
<1> QED BY InitIInv, NextIInv, <1>1, PTL DEF Spec

-----------------------------------------------------------------------------
(* A key below 128 that is not the space bar is sent as its character.     *)
LEMMA StringOfChar ==
  ASSUME NEW c \in 33 .. 127, NEW state, CharString(c, state) # <<>>
  PROVE  KeyToString(c, state) = CharString(c, state)
<1>1. c \notin {Left, Up, Right, Down, Delete, Home, End}
  BY SMT DEF Left, Up, Right, Down, Delete, Home, End
<1>2. c # 32 /\ c # Return /\ c # BackSpace /\ c # Escape /\ c # Tab
  BY SMT DEF Return, BackSpace, Escape, Tab
<1> QED BY Zenon, <1>1, <1>2 DEF KeyToString

LEMMA ControlString ==
  ASSUME NEW c \in 97 .. 122 \cup 92 .. 95, NEW meta
  PROVE  KeyToString(c, meta \cup {"CONTROL"}) = <<IF c >= 97 THEN c - 96 ELSE c - 64>>
<1>1. "CONTROL" \in meta \cup {"CONTROL"}
  OBVIOUS
<1>2. c \in 33 .. 127
  BY SMT
<1>3. CASE c \in 97 .. 122
  <2>1. c \notin 92 .. 95 /\ c >= 97
    BY SMT, <1>3
  <2>2. CharString(c, meta \cup {"CONTROL"}) = <<c - 96>>
    BY Zenon, <1>1, <1>3, <2>1 DEF CharString
  <2>3. <<c - 96>> # <<>>
    OBVIOUS
  <2> QED BY <1>2, <2>1, <2>2, <2>3, StringOfChar
<1>4. CASE c \in 92 .. 95
  <2>1. c \notin 97 .. 122 /\ ~(c >= 97)
    BY SMT, <1>4
  <2>2. CharString(c, meta \cup {"CONTROL"}) = <<c - 64>>
    BY Zenon, <1>1, <1>4, <2>1 DEF CharString
  <2>3. <<c - 64>> # <<>>
    OBVIOUS
  <2> QED BY <1>2, <2>1, <2>2, <2>3, StringOfChar
<1> QED BY <1>3, <1>4

LEMMA PlainString ==
  ASSUME NEW c \in 33 .. 126, NEW state, "CONTROL" \notin state,
         "SHIFT" \in state => c \in 65 .. 90
  PROVE  KeyToString(c, state) = <<c>>
<1>1. c \in 65 .. 90 => c \notin 97 .. 122
  BY SMT
<1>2. CharString(c, state) = <<c>>
  BY SMTT(30), <1>1 DEF CharString
<1>3. <<c>> # <<>>
  OBVIOUS
<1>4. c \in 33 .. 127
  BY SMT
<1> QED BY <1>2, <1>3, <1>4, StringOfChar

(* The keys with a case of their own in the switch of _fep_key_to_string. *)
LEMMA NamedString ==
  ASSUME NEW state
  PROVE  /\ KeyToString(Tab, state) = <<9>>
         /\ KeyToString(Return, state) = <<13>>
         /\ KeyToString(Escape, state) = <<27>>
         /\ KeyToString(BackSpace, state) = <<127>>
         /\ KeyToString(32, state) = IF "CONTROL" \in state THEN <<0>> ELSE <<32>>
<1> DEFINE Cursor == {Left, Up, Right, Down, Delete, Home, End}
<1>1. /\ Tab \notin Cursor /\ Return \notin Cursor /\ Escape \notin Cursor
      /\ BackSpace \notin Cursor /\ 32 \notin Cursor
  BY SMT DEF Left, Up, Right, Down, Delete, Home, End, Tab, Return, Escape, BackSpace
<1>2. /\ Tab # 32 /\ Tab # Return /\ Tab # BackSpace /\ Tab # Escape
      /\ Escape # 32 /\ Escape # Return /\ Escape # BackSpace
      /\ BackSpace # 32 /\ BackSpace # Return /\ Return # 32
  BY SMT DEF Tab, Return, Escape, BackSpace
<1>3. KeyToString(Tab, state) = <<9>>
  BY Zenon, <1>1, <1>2 DEF KeyToString
<1>4. KeyToString(Return, state) = <<13>>
  BY Zenon, <1>1, <1>2 DEF KeyToString
<1>5. KeyToString(Escape, state) = <<27>>
  BY Zenon, <1>1, <1>2 DEF KeyToString, ESC
<1>6. KeyToString(BackSpace, state) = <<127>>
  BY Zenon, <1>1, <1>2 DEF KeyToString
<1>7. KeyToString(32, state) = IF "CONTROL" \in state THEN <<0>> ELSE <<32>>
  BY Zenon, <1>1, <1>2 DEF KeyToString
<1> QED BY <1>3, <1>4, <1>5, <1>6, <1>7

LEMMA SentBack ==
  ASSUME NEW c, NEW meta, NEW keyval, NEW state, NEW string,
         Char7ToKey(c, meta) = Key(keyval, state, 1),
         KeyToString(keyval, state) = string
  PROVE  KeyToString(Char7ToKey(c, meta).keyval, Char7ToKey(c, meta).state) = string
<1>1. Char7ToKey(c, meta).keyval = keyval /\ Char7ToKey(c, meta).state = state
  BY DEF Key
<1> QED BY <1>1

LEMMA Char7RoundTrip ==
  ASSUME NEW c \in 0 .. 127, NEW meta \in SUBSET {"META"}
  PROVE  KeyToString(Char7ToKey(c, meta).keyval, Char7ToKey(c, meta).state) = <<c>>
<1>1. "CONTROL" \notin meta \cup {"SHIFT"} /\ "CONTROL" \in meta \cup {"CONTROL"}
  OBVIOUS
<1>2. CASE c = 0
  <2>1. /\ c # 9 /\ c # 13 /\ c # 27 /\ c # 127
        /\ c \notin 1 .. 26 \ {9, 13} /\ c \notin 28 .. 31 /\ c \notin 65 .. 90
    BY SMT, <1>2
  <2>2. Char7ToKey(c, meta) = Key(32, meta \cup {"CONTROL"}, 1)
    BY Zenon, <1>2, <2>1 DEF Char7ToKey, ESC
  <2>3. KeyToString(32, meta \cup {"CONTROL"}) = <<0>>
    BY <1>1, NamedString
  <2> QED BY <1>2, <2>2, <2>3, SentBack
<1>3. CASE c \in {9, 13, 27, 127}
  <2>1. /\ c # 0
        /\ c \notin 1 .. 26 \ {9, 13} /\ c \notin 28 .. 31 /\ c \notin 65 .. 90
    BY SMT, <1>3
  <2>2. CASE c = 9
    <3>1. c # 13 /\ c # 27 /\ c # 127
      BY SMT, <2>2
    <3>2. Char7ToKey(c, meta) = Key(Tab, meta, 1)
      BY SMT, <2>1, <2>2, <3>1 DEF Char7ToKey, ESC
    <3> QED BY <2>2, <3>2, NamedString, SentBack
  <2>3. CASE c = 13
    <3>1. c # 9 /\ c # 27 /\ c # 127
      BY SMT, <2>3
    <3>2. Char7ToKey(c, meta) = Key(Return, meta, 1)
      BY SMT, <2>1, <2>3, <3>1 DEF Char7ToKey, ESC
    <3> QED BY <2>3, <3>2, NamedString, SentBack
  <2>4. CASE c = 27
    <3>1. c # 9 /\ c # 13 /\ c # 127
      BY SMT, <2>4
    <3>2. Char7ToKey(c, meta) = Key(Escape, meta, 1)
      BY Zenon, <2>1, <2>4, <3>1 DEF Char7ToKey, ESC
    <3> QED BY <2>4, <3>2, NamedString, SentBack
  <2>5. CASE c = 127
    <3>1. c # 9 /\ c # 13 /\ c # 27
      BY SMT, <2>5
    <3>2. Char7ToKey(c, meta) = Key(BackSpace, meta, 1)
      BY SMT, <2>1, <2>5, <3>1 DEF Char7ToKey, ESC
    <3> QED BY <2>5, <3>2, NamedString, SentBack
  <2> QED BY <1>3, <2>2, <2>3, <2>4, <2>5
<1>4. CASE c \in 1 .. 26 \ {9, 13}
  <2>1. /\ c # 0 /\ c # 9 /\ c # 13 /\ c # 27 /\ c # 127
        /\ c \notin 28 .. 31 /\ c \notin 65 .. 90
    BY SMT, <1>4
  <2>2. Char7ToKey(c, meta) = Key(c + 96, meta \cup {"CONTROL"}, 1)
    BY Zenon, <1>4, <2>1 DEF Char7ToKey, ESC
  <2>3. /\ c + 96 \in 97 .. 122 \cup 92 .. 95
        /\ (IF c + 96 >= 97 THEN (c + 96) - 96 ELSE (c + 96) - 64) = c
    BY SMT, <1>4
  <2>4. KeyToString(c + 96, meta \cup {"CONTROL"}) = <<c>>
    BY Zenon, <2>3, ControlString
  <2> QED BY <2>2, <2>4, SentBack
<1>5. CASE c \in 28 .. 31
  <2>1. /\ c # 0 /\ c # 9 /\ c # 13 /\ c # 27 /\ c # 127
        /\ c \notin 1 .. 26 \ {9, 13} /\ c \notin 65 .. 90
    BY SMT, <1>5
  <2>2. Char7ToKey(c, meta) = Key(c + 64, meta \cup {"CONTROL"}, 1)
    BY Zenon, <1>5, <2>1 DEF Char7ToKey, ESC
  <2>3. /\ c + 64 \in 97 .. 122 \cup 92 .. 95
        /\ (IF c + 64 >= 97 THEN (c + 64) - 96 ELSE (c + 64) - 64) = c
    BY SMT, <1>5
  <2>4. KeyToString(c + 64, meta \cup {"CONTROL"}) = <<c>>
    BY Zenon, <2>3, ControlString
  <2> QED BY <2>2, <2>4, SentBack
<1>6. CASE c \in 65 .. 90
  <2>1. /\ c # 0 /\ c # 9 /\ c # 13 /\ c # 27 /\ c # 127
        /\ c \notin 1 .. 26 \ {9, 13} /\ c \notin 28 .. 31 /\ c \in 33 .. 126
    BY SMT, <1>6
  <2>2. Char7ToKey(c, meta) = Key(c, meta \cup {"SHIFT"}, 1)
    BY SMTT(30), <1>6, <2>1 DEF Char7ToKey, ESC
  <2>3. KeyToString(c, meta \cup {"SHIFT"}) = <<c>>
    BY <1>1, <1>6, <2>1, PlainString
  <2> QED BY <2>2, <2>3, SentBack
<1>7. CASE c \in 32 .. 126 \ 65 .. 90
  <2>1. /\ c # 0 /\ c # 9 /\ c # 13 /\ c # 27 /\ c # 127
        /\ c \notin 1 .. 26 \ {9, 13} /\ c \notin 28 .. 31 /\ c \notin 65 .. 90
        /\ c = 32 \/ c \in 33 .. 126
    BY SMT, <1>7
  <2>2. Char7ToKey(c, meta) = Key(c, {}, 1)
    BY SMT, <2>1 DEF Char7ToKey, ESC
  <2>3. KeyToString(32, {}) = <<32>>
    BY NamedString
  <2>4. c \in 33 .. 126 => KeyToString(c, {}) = <<c>>
    BY PlainString
  <2>5. KeyToString(c, {}) = <<c>>
    BY SMT, <2>1, <2>3, <2>4
  <2> QED BY <2>2, <2>5, SentBack
<1>8. \/ c = 0 \/ c \in {9, 13, 27, 127} \/ c \in 1 .. 26 \ {9, 13}
       \/ c \in 28 .. 31 \/ c \in 65 .. 90 \/ c \in 32 .. 126 \ 65 .. 90
  BY SMT
<1> QED BY <1>2, <1>3, <1>4, <1>5, <1>6, <1>7, <1>8

(* A byte that is read as a key and sent back for that key                 *)
(* (_fep_char_to_key, _fep_key_to_string) is the same byte, if it is below *)
(* 128; of the others the highest bit is lost, and with it META.           *)
THEOREM CharRoundTrip ==
  ASSUME NEW b \in Byte
  PROVE  KeyToString(CharToKey(b).keyval, CharToKey(b).state) = <<b % 128>>
<1>1. b % 128 \in 0 .. 127
  BY SMT DEF Byte
<1>2. (IF b >= 128 THEN {"META"} ELSE {}) \in SUBSET {"META"}
  OBVIOUS
<1> QED BY Zenon, <1>1, <1>2, Char7RoundTrip DEF CharToKey

-----------------------------------------------------------------------------
(* Keyvals and modifiers, whatever is read. *)
Meant(k) == k.keyval \in Nat /\ k.state \subseteq Modifier

LEMMA KeyMeant ==
  ASSUME NEW v \in Nat, NEW state \in SUBSET Modifier, NEW n
  PROVE  Meant(Key(v, state, n))
BY DEF Meant, Key

LEMMA NoKeyMeant == Meant(NoKey)
BY DEF Meant, NoKey

LEMMA CursorMeant ==
  ASSUME NEW csi
  PROVE  Meant(CursorKey(csi)) /\ Meant(EtermKey(csi))
<1>1. StateFromCursor(csi) \in SUBSET Modifier
  <2> DEFINE params == StrSplit(csi.params, SEMI)
  <2>1. StateFromCursor(csi) =
          IF Len(params) # 2 THEN {}
          ELSE CASE Number(params[2]) = 2 -> {"SHIFT"}
                 [] Number(params[2]) = 5 -> {"CONTROL"}
                 [] OTHER -> {}
    BY DEF StateFromCursor
  <2> HIDE DEF params
  <2>2. StateFromCursor(csi) \in {{}, {"SHIFT"}, {"CONTROL"}}
    BY <2>1
  <2> QED BY <2>2 DEF Modifier
<1>2. \A f \in {65, 66, 67, 68, 70, 72} : CursorKeyval[f] \in Nat
  BY DEF CursorKeyval, Up, Down, Right, Left, End, Home
<1>3. DOMAIN CursorKeyval = {65, 66, 67, 68, 70, 72}
  BY DEF CursorKeyval
<1>4. csi.final \in 97 .. 100 => csi.final - 32 \in {65, 66, 67, 68, 70, 72}
  BY SMT
<1>5. Meant(CursorKey(csi))
  BY <1>1, <1>2, <1>3, KeyMeant, NoKeyMeant DEF CursorKey
<1>6. Meant(EtermKey(csi))
  BY <1>1, <1>2, <1>4, KeyMeant, NoKeyMeant DEF EtermKey
<1> QED BY <1>5, <1>6

(* The table of the keys that terminfo names. *)
LEMMA CapTable ==
  \A i \in DOMAIN CapKeyvals : CapKeyvals[i].keyval \in Nat
BY DEF CapKeyvals, BackSpace, Delete, Prior, PageDown, Home, End, Insert, F1

LEMMA CSIMeant ==
  ASSUME NEW csi
  PROVE  Meant(CSIToKey(csi))
<1> DEFINE caps == CapsOf(CSIFormat(csi))
           i == CHOOSE k \in caps : \A j \in caps : k <= j
<1>1. CASE csi.final \in DOMAIN CursorKeyval
  BY <1>1, CursorMeant DEF CSIToKey
<1>2. CASE csi.final \notin DOMAIN CursorKeyval /\ caps = {}
  BY <1>2, NoKeyMeant DEF CSIToKey
<1>3. CASE csi.final \notin DOMAIN CursorKeyval /\ caps # {}
  <2>1. CSIToKey(csi) = Key(CapKeyvals[i].keyval, {}, csi.len)
    BY <1>3 DEF CSIToKey
  <2>2. caps \subseteq 1 .. 19 /\ caps \subseteq DOMAIN CapKeyvals
    BY DEF CapsOf, CapKeyvals
  <2>3. i \in caps
    <3> HIDE DEF caps
    <3>1. \E k \in caps : \A j \in caps : k <= j
      <4>1. caps \in SUBSET Nat
        BY <2>2
      <4> QED BY <1>3, <4>1, LeastOf
    <3> QED BY <3>1
  <2> HIDE DEF i, caps
  <2>4. CapKeyvals[i].keyval \in Nat
    BY <2>2, <2>3, CapTable
  <2> QED BY <2>1, <2>4, KeyMeant
<1> QED BY <1>1, <1>2, <1>3

LEMMA CharMeant ==
  ASSUME NEW b \in Byte
  PROVE  Meant(CharToKey(b))
<1> DEFINE c == b % 128
           meta == IF b >= 128 THEN {"META"} ELSE {}
<1>1. c \in Nat /\ c + 96 \in Nat /\ c + 64 \in Nat /\ 32 \in Nat
  BY SMT DEF Byte
<1>2. /\ meta \in SUBSET Modifier /\ {} \in SUBSET Modifier
      /\ meta \cup {"CONTROL"} \in SUBSET Modifier
      /\ meta \cup {"SHIFT"} \in SUBSET Modifier
  BY DEF Modifier
<1>3. Tab \in Nat /\ Return \in Nat /\ Escape \in Nat /\ BackSpace \in Nat
  BY DEF Tab, Return, Escape, BackSpace
<1>4. CharToKey(b) = Char7ToKey(c, meta)
  BY DEF CharToKey
<1> HIDE DEF c, meta
<1>5. \E v \in {32, Tab, Return, Escape, BackSpace, c + 96, c + 64, c},
        state \in {meta, {}, meta \cup {"CONTROL"}, meta \cup {"SHIFT"}} :
        Char7ToKey(c, meta) = Key(v, state, 1)
  <2> DEFINE control == c \in 1 .. 26 \ {9, 13}
             rest == ~(control \/ c \in {0, 9, 13, 27, 127} \/ c \in 28 .. 31
                         \/ c \in 65 .. 90)
  <2>1. CASE c = 0
    BY SMT, <2>1 DEF Char7ToKey, ESC
  <2>2. CASE c = 9
    BY SMT, <2>2 DEF Char7ToKey, ESC
  <2>3. CASE c = 13
    BY SMT, <2>3 DEF Char7ToKey, ESC
  <2>4. CASE c = 27
    BY SMT, <2>4 DEF Char7ToKey, ESC
  <2>5. CASE c = 127
    BY SMT, <2>5 DEF Char7ToKey, ESC
  <2>6. CASE control
    <3>1. c \notin {0, 9, 13, 27, 127} /\ c \notin 28 .. 31 /\ c \notin 65 .. 90
      BY SMT, <2>6
    <3>2. Char7ToKey(c, meta) = Key(c + 96, meta \cup {"CONTROL"}, 1)
      BY Zenon, <2>6, <3>1 DEF Char7ToKey, ESC
    <3> QED BY <3>2
  <2>7. CASE c \in 28 .. 31
    <3>1. c \notin {0, 9, 13, 27, 127} /\ ~control /\ c \notin 65 .. 90
      BY SMT, <2>7
    <3>2. Char7ToKey(c, meta) = Key(c + 64, meta \cup {"CONTROL"}, 1)
      BY Zenon, <2>7, <3>1 DEF Char7ToKey, ESC
    <3> QED BY <3>2
  <2>8. CASE c \in 65 .. 90
    <3>1. c \notin {0, 9, 13, 27, 127} /\ ~control /\ c \notin 28 .. 31
      BY SMT, <2>8
    <3>2. Char7ToKey(c, meta) = Key(c, meta \cup {"SHIFT"}, 1)
      BY Zenon, <2>8, <3>1 DEF Char7ToKey, ESC
    <3> QED BY <3>2
  <2>9. CASE rest
    <3>1. Char7ToKey(c, meta) = Key(c, {}, 1)
      BY Zenon, <2>9 DEF Char7ToKey, ESC
    <3> QED BY <3>1
  <2> QED BY <2>1, <2>2, <2>3, <2>4, <2>5, <2>6, <2>7, <2>8, <2>9
<1> QED BY <1>1, <1>2, <1>3, <1>4, <1>5, KeyMeant

LEMMA NextKeyMeant ==
  ASSUME NEW s \in Seq(Byte), s # <<>>
  PROVE  Meant(NextKeyOf(s))
<1> DEFINE ss3 == CSIParse(s, 79)
           eterm == CSIParse(s, 111)
           csi == CSIParse(s, 91)
<1>1. EscToKey(s) \in {CursorKey(ss3), EtermKey(eterm), CSIToKey(csi), NoKey}
  BY DEF EscToKey
<1> HIDE DEF ss3, eterm, csi
<1>2. Meant(CursorKey(ss3)) /\ Meant(EtermKey(eterm)) /\ Meant(CSIToKey(csi))
  BY CursorMeant, CSIMeant
<1>3. Meant(EscToKey(s))
  BY <1>1, <1>2, NoKeyMeant
<1>4. s[1] \in Byte
  <2>1. Len(s) \in Nat /\ Len(s) # 0
    BY LenProperties, EmptySeq
  <2>2. 1 \in 1 .. Len(s)
    BY <2>1
  <2> QED BY <2>2, ElementOfSeq
<1>5. Meant(CharToKey(s[1]))
  BY <1>4, CharMeant
<1> QED BY <1>3, <1>5 DEF NextKeyOf

(* What _fep_key_to_string returns are bytes. *)
LEMMA StringOfBytes ==
  ASSUME NEW v \in Nat, NEW state
  PROVE  KeyToString(v, state) \in Seq(Byte)
<1>0. \A b \in Byte : <<b>> \in Seq(Byte)
  OBVIOUS
<1>1. CursorString(v, state) \in Seq(Byte)
  <2> DEFINE finals == {f \in DOMAIN CursorKeyval : CursorKeyval[f] = v}
             final == IF finals = {} THEN 0 ELSE CHOOSE f \in finals : TRUE
             params == CursorParams(state)
             csi == [params |-> params, intermediate |-> <<>>, final |-> final]
             end == IF final = 0 THEN <<>> ELSE <<final>>
  <2>1. final \in Byte
    <3>1. finals \subseteq Byte
      BY DEF CursorKeyval, Byte
    <3>2. 0 \in Byte
      BY DEF Byte
    <3> QED BY <3>1, <3>2
  <2>2. params \in Seq(Byte)
    <3>1. <<48, 59, 50>> \in Seq(Byte) /\ <<48, 59, 53>> \in Seq(Byte)
      BY DEF Byte
    <3>2. params \in {<<48, 59, 50>>, <<48, 59, 53>>, <<>>}
      BY DEF CursorParams, SEMI
    <3> QED BY <3>1, <3>2, EmptySeq
  <2>3. <<27, 91>> \in Seq(Byte) /\ <<>> \in Seq(Byte)
    BY EmptySeq DEF Byte
  <2>4. end \in Seq(Byte)
    BY <1>0, <2>1, <2>3
  <2>5. CursorString(v, state) = <<27, 91>> \o params \o <<>> \o end
    <3>1. CursorString(v, state) = CSIFormat(csi)
      BY DEF CursorString
    <3>2. csi.params = params /\ csi.intermediate = <<>> /\ csi.final = final
      OBVIOUS
    <3> HIDE DEF params, final, csi
    <3> QED BY <3>1, <3>2 DEF CSIFormat, ESC
  <2> HIDE DEF params, end
  <2>6. <<27, 91>> \o params \in Seq(Byte)
    BY <2>2, <2>3, ConcatProperties
  <2>7. <<27, 91>> \o params \o <<>> \in Seq(Byte)
    BY <2>3, <2>6, ConcatProperties
  <2>8. <<27, 91>> \o params \o <<>> \o end \in Seq(Byte)
    BY <2>4, <2>7, ConcatProperties
  <2> QED BY <2>5, <2>8
<1>2. CapString(v) \in Seq(Byte)
  <2> DEFINE caps == {i \in DOMAIN CapKeyvals :
                        CapKeyvals[i].keyval = v /\ CapKeyvals[i].name \in CapKeys}
  <2>1. CASE caps = {}
    BY <2>1, EmptySeq DEF CapString
  <2>2. CASE caps # {}
    <3>1. PICK i \in caps : CapString(v) = Cap[CapKeyvals[i].name]
      BY <2>2 DEF CapString
    <3> QED BY <3>1, CapAssumption
  <2> QED BY <2>1, <2>2
<1>3. CharString(v, state) \in Seq(Byte)
  <2>1. /\ v \in 97 .. 122 => v - 96 \in Byte /\ v - 32 \in Byte
        /\ v \in 92 .. 95 => v - 64 \in Byte
        /\ v \in 33 .. 126 => v \in Byte
    BY SMT DEF Byte
  <2>2. v \in 97 .. 122 => v \notin 92 .. 95
    BY SMT
  <2>3. CASE "CONTROL" \in state
    <3>1. CASE v \in 97 .. 122
      <4>1. CharString(v, state) = <<v - 96>>
        BY Zenon, <2>2, <2>3, <3>1 DEF CharString
      <4> QED BY <1>0, <2>1, <3>1, <4>1
    <3>2. CASE v \in 92 .. 95
      <4>1. CharString(v, state) = <<v - 64>>
        BY Zenon, <2>2, <2>3, <3>2 DEF CharString
      <4> QED BY <1>0, <2>1, <3>2, <4>1
    <3>3. CASE v \notin 97 .. 122 /\ v \notin 92 .. 95
      <4>1. CharString(v, state) = <<>>
        BY Zenon, <2>3, <3>3 DEF CharString
      <4> QED BY <4>1, EmptySeq
    <3> QED BY <3>1, <3>2, <3>3
  <2>4. CASE "CONTROL" \notin state
    <3>1. CASE "SHIFT" \in state /\ v \in 97 .. 122
      <4>1. CharString(v, state) = <<v - 32>>
        BY Zenon, <2>4, <3>1 DEF CharString
      <4> QED BY <1>0, <2>1, <3>1, <4>1
    <3>2. CASE ~("SHIFT" \in state /\ v \in 97 .. 122) /\ v \in 33 .. 126
      <4>1. CharString(v, state) = <<v>>
        BY Zenon, <2>4, <3>2 DEF CharString
      <4> QED BY <1>0, <2>1, <3>2, <4>1
    <3>3. CASE ~("SHIFT" \in state /\ v \in 97 .. 122) /\ v \notin 33 .. 126
      <4>1. CharString(v, state) = <<>>
        BY Zenon, <2>4, <3>3 DEF CharString
      <4> QED BY <4>1, EmptySeq
    <3> QED BY <3>1, <3>2, <3>3
  <2> QED BY <2>3, <2>4
<1>4. {0, 32, 13, 127, 27, 9} \subseteq Byte
  BY DEF Byte
<1>5. \/ KeyToString(v, state) \in {CursorString(v, state), CharString(v, state),
                                     CapString(v)}
      \/ KeyToString(v, state) \in {<<0>>, <<32>>, <<13>>, <<127>>, <<27>>, <<9>>}
  BY SMT DEF KeyToString, ESC
<1> QED BY ZenonT(40), <1>0, <1>1, <1>2, <1>3, <1>4, <1>5

(* The inductive invariant for the types. *)
LEMMA NextKeyTypes ==
  ASSUME IInv, TypeOK, NextKey
  PROVE  events' \in Seq(Event) /\ sent' \in Seq(Byte)
<1> DEFINE k == NextKeyOf(buf)
           source == SubSeq(buf, 1, k.len)
           e == [keyval |-> k.keyval, state |-> k.state,
                 source |-> source, at |-> Len(taken)]
<1>1. /\ buf \in Seq(Byte) /\ buf # <<>>
      /\ events' = Append(events, e)
      /\ sent' \in {<<>>, source, KeyToString(k.keyval, k.state)}
  BY DEF NextKey, TypeOK
<1>2. k.len \in 0 .. Len(buf) /\ Meant(k)
  BY <1>1, KeyWithin, NextKeyMeant
<1> HIDE DEF k
<1>3. source \in Seq(Byte)
  BY <1>1, <1>2, Cutting
<1> HIDE DEF source
<1>4. e \in Event
  BY <1>2, <1>3, LenProperties DEF Event, Meant, TypeOK
<1> HIDE DEF e
<1>5. events' \in Seq(Event)
  BY <1>1, <1>4, AppendProperties DEF TypeOK
<1>6. KeyToString(k.keyval, k.state) \in Seq(Byte)
  BY <1>2, StringOfBytes DEF Meant
<1> QED BY <1>1, <1>3, <1>5, <1>6, EmptySeq

(* Every key that is announced has a keyval of the unsigned kind and known *)
(* modifiers, and what the child is sent for a forwarded one are bytes,    *)
(* whatever is typed and whatever the terminal's capabilities are.         *)
THEOREM InputTypes == Spec => []TypeOK
<1>1. Init => TypeOK
  BY SMT, EmptySeq DEF Init, TypeOK
<1>2. IInv /\ IInv' /\ TypeOK /\ [Next]_inputVars => TypeOK'
  <2> SUFFICES ASSUME IInv, IInv', TypeOK, [Next]_inputVars PROVE TypeOK'
    OBVIOUS
  <2>1. ASSUME NEW k \in Strokes, Type(k) PROVE TypeOK'
    <3>1. strokes' \in Seq(Strokes)
      BY <2>1, AppendProperties DEF TypeOK, Type
    <3> QED BY <2>1, <3>1 DEF TypeOK, Type, IInv
  <2>2. ASSUME NEW n \in 1 .. Len(tty), Read(n) PROVE TypeOK'
    <3>1. Len(taken) + n \in Nat
      BY LenProperties DEF TypeOK
    <3> QED BY <2>2, <3>1 DEF TypeOK, Read, IInv
  <2>3. CASE NextKey
    BY <2>3, NextKeyTypes DEF NextKey, TypeOK, IInv
  <2>4. CASE UNCHANGED inputVars
    BY <2>4 DEF inputVars, TypeOK
  <2> QED BY <2>1, <2>2, <2>3, <2>4 DEF Next
<1> QED BY <1>1, <1>2, InitIInv, NextIInv, PTL DEF Spec

-----------------------------------------------------------------------------
(* What a key is read from: a sequence with one of three introducers, or a *)
(* byte.                                                                   *)
Introducer == {79, 91, 111}

SequenceKey(d, csi) ==
  CASE d = 79 -> CursorKey(csi) [] d = 111 -> EtermKey(csi) [] d = 91 -> CSIToKey(csi)

LEMMA OneIntroducer ==
  ASSUME NEW s \in Seq(Byte), NEW d, CSIParse(s, d) # NoCSI
  PROVE  /\ Len(s) >= 3 /\ s[1] = ESC /\ s[2] = d
         /\ CSIParse(s, d).len \in 3 .. Len(s)
<1>1. PICK i, f : Begins(s, d, i, f)
  BY CSIBegins
<1>2. CSIParse(s, d) = Sequence(s, i, f)
  BY <1>1, CSIFound
<1>3. Sequence(s, i, f).len = f /\ f \in 3 .. Len(s)
  BY <1>1, SequenceFound
<1> QED BY <1>1, <1>2, <1>3 DEF Begins

LEMMA EscOf ==
  ASSUME NEW s \in Seq(Byte), NEW d \in Introducer, CSIParse(s, d) # NoCSI
  PROVE  EscToKey(s) = SequenceKey(d, CSIParse(s, d))
<1>1. s[2] = d
  BY OneIntroducer
<1>2. \A c \in Introducer : c # d => CSIParse(s, c) = NoCSI
  BY <1>1, OneIntroducer
<1>3. CASE d = 79
  <2>1. CSIParse(s, 111) = NoCSI /\ CSIParse(s, 91) = NoCSI /\ 79 # 111 /\ 79 # 91
    BY <1>2, <1>3 DEF Introducer
  <2> QED BY Zenon, <1>3, <2>1 DEF EscToKey, SequenceKey
<1>4. CASE d = 111
  <2>1. CSIParse(s, 79) = NoCSI /\ CSIParse(s, 91) = NoCSI /\ 111 # 79 /\ 111 # 91
    BY <1>2, <1>4 DEF Introducer
  <2> QED BY Zenon, <1>4, <2>1 DEF EscToKey, SequenceKey
<1>5. CASE d = 91
  <2>1. CSIParse(s, 79) = NoCSI /\ CSIParse(s, 111) = NoCSI /\ 91 # 79 /\ 91 # 111
    BY <1>2, <1>5 DEF Introducer
  <2> QED BY Zenon, <1>5, <2>1 DEF EscToKey, SequenceKey
<1> QED BY <1>3, <1>4, <1>5 DEF Introducer

LEMMA EscNone ==
  ASSUME NEW s, \A d \in Introducer : CSIParse(s, d) = NoCSI
  PROVE  EscToKey(s) = NoKey
<1>1. CSIParse(s, 79) = NoCSI /\ CSIParse(s, 111) = NoCSI /\ CSIParse(s, 91) = NoCSI
  BY DEF Introducer
<1> QED BY Zenon, <1>1 DEF EscToKey

LEMMA SequenceKeyLen ==
  ASSUME NEW d \in Introducer, NEW csi, SequenceKey(d, csi).read
  PROVE  SequenceKey(d, csi).len = csi.len
<1>1. ~NoKey.read /\ \A v, state : Key(v, state, csi.len).len = csi.len
  BY DEF NoKey, Key
<1>2. CursorKey(csi).read => CursorKey(csi).len = csi.len
  BY Zenon, <1>1 DEF CursorKey
<1>3. EtermKey(csi).read => EtermKey(csi).len = csi.len
  BY Zenon, <1>1 DEF EtermKey
<1>4. CSIToKey(csi).read => CSIToKey(csi).len = csi.len
  <2>1. CASE csi.final \in DOMAIN CursorKeyval
    BY Zenon, <1>2, <2>1 DEF CSIToKey
  <2>2. CASE csi.final \notin DOMAIN CursorKeyval
    BY Zenon, <1>1, <2>2 DEF CSIToKey
  <2> QED BY <2>1, <2>2
<1>5. 111 # 79 /\ 91 # 79 /\ 91 # 111
  OBVIOUS
<1>6. SequenceKey(d, csi) = IF d = 79 THEN CursorKey(csi)
                            ELSE IF d = 111 THEN EtermKey(csi) ELSE CSIToKey(csi)
  BY Zenon, <1>5 DEF SequenceKey, Introducer
<1> QED BY Zenon, <1>2, <1>3, <1>4, <1>6

(* k is read from the sequence with introducer d that begins s. *)
FromSequence(s, d, k) ==
  /\ d \in Introducer /\ CSIParse(s, d) # NoCSI
  /\ k = SequenceKey(d, CSIParse(s, d)) /\ k.read
  /\ k.len = CSIParse(s, d).len /\ k.len \in 3 .. Len(s)

LEMMA NextOf ==
  ASSUME NEW s \in Seq(Byte), s # <<>>
  PROVE  \/ \E d : FromSequence(s, d, NextKeyOf(s))
         \/ ~EscToKey(s).read /\ NextKeyOf(s) = CharToKey(s[1]) /\ NextKeyOf(s).len = 1
<1>1. CASE EscToKey(s).read
  <2>1. NextKeyOf(s) = EscToKey(s)
    BY <1>1 DEF NextKeyOf
  <2>2. ~NoKey.read
    BY DEF NoKey
  <2>3. PICK d \in Introducer : CSIParse(s, d) # NoCSI
    BY <1>1, <2>2, EscNone
  <2>4. EscToKey(s) = SequenceKey(d, CSIParse(s, d))
    BY <2>3, EscOf
  <2>5. EscToKey(s).len = CSIParse(s, d).len
    BY <1>1, <2>4, SequenceKeyLen
  <2>6. CSIParse(s, d).len \in 3 .. Len(s)
    BY <2>3, OneIntroducer
  <2> QED BY Zenon, <1>1, <2>1, <2>3, <2>4, <2>5, <2>6 DEF FromSequence
<1>2. CASE ~EscToKey(s).read
  <2>1. NextKeyOf(s) = CharToKey(s[1])
    BY <1>2 DEF NextKeyOf
  <2>2. s[1] \in Byte
    <3>1. Len(s) \in Nat /\ Len(s) # 0
      BY LenProperties, EmptySeq
    <3>2. 1 \in 1 .. Len(s)
      BY <3>1
    <3> QED BY <3>2, ElementOfSeq
  <2> QED BY <1>2, <2>1, <2>2, CharKeyLen
<1> QED BY <1>1, <1>2

(* What begins with the bytes of such a key is that key. *)
LEMMA SameSequence ==
  ASSUME NEW s \in Seq(Byte), NEW t \in Seq(Byte), NEW d, NEW k,
         FromSequence(s, d, k), Len(t) >= k.len, \A j \in 1 .. k.len : t[j] = s[j]
  PROVE  NextKeyOf(t) = k
<1>1. d \in Introducer /\ CSIParse(s, d) # NoCSI /\ k.len = CSIParse(s, d).len
  BY DEF FromSequence
<1>2. CSIParse(t, d) = CSIParse(s, d)
  BY <1>1, CSISame
<1>3. EscToKey(t) = SequenceKey(d, CSIParse(t, d))
  BY <1>1, <1>2, EscOf
<1> QED BY Zenon, <1>2, <1>3 DEF FromSequence, NextKeyOf

LEMMA ByteAlone ==
  ASSUME NEW b \in Byte
  PROVE  NextKeyOf(<<b>>) = CharToKey(b)
<1>1. <<b>> \in Seq(Byte) /\ Len(<<b>>) = 1 /\ <<b>>[1] = b
  OBVIOUS
<1>2. \A d \in Introducer : CSIParse(<<b>>, d) = NoCSI
  <2> SUFFICES ASSUME NEW d \in Introducer, CSIParse(<<b>>, d) # NoCSI PROVE FALSE
    OBVIOUS
  <2>1. Len(<<b>>) >= 3
    BY Zenon, <1>1, OneIntroducer
  <2> QED BY <1>1, <2>1
<1>3. EscToKey(<<b>>) = NoKey
  BY <1>2, EscNone
<1> QED BY <1>1, <1>3 DEF NextKeyOf, NoKey

(* The bytes of a key are that key when they are alone. *)
LEMMA SourceAlone ==
  ASSUME NEW s \in Seq(Byte), s # <<>>, NEW k, k = NextKeyOf(s)
  PROVE  /\ k.len \in 1 .. Len(s)
         /\ SubSeq(s, 1, k.len) \in Seq(Byte) /\ Len(SubSeq(s, 1, k.len)) = k.len
         /\ SubSeq(s, 1, k.len)[1] = s[1]
         /\ NextKeyOf(SubSeq(s, 1, k.len)) = k
<1>1. Len(s) \in Nat /\ Len(s) # 0
  BY LenProperties, EmptySeq
<1>2. k.len \in 1 .. Len(s)
  <2>1. CASE \E d : FromSequence(s, d, k)
    BY SMT, <1>1, <2>1 DEF FromSequence
  <2>2. CASE k.len = 1
    BY SMT, <1>1, <2>2
  <2> QED BY <2>1, <2>2, NextOf
<1>3. PICK t : t = SubSeq(s, 1, k.len)
  OBVIOUS
<1>4. t \in Seq(Byte) /\ Len(t) = k.len /\ \A j \in 1 .. k.len : t[j] = s[j]
  <2>1. \A j \in 1 .. k.len : s[j] \in Byte
    BY <1>1, <1>2, ElementOfSeq
  <2>2. 1 \in Int /\ k.len \in Int /\ 1 <= k.len
    BY <1>2
  <2> QED BY <1>3, <2>1, <2>2, SubSeqProperties
<1>5. t[1] = s[1]
  BY <1>2, <1>4
<1>6. NextKeyOf(t) = k
  <2>1. CASE \E d : FromSequence(s, d, k)
    <3>1. k.len \in Nat
      BY <1>2
    <3> QED BY <1>4, <2>1, <3>1, SameSequence
  <2>2. CASE k = CharToKey(s[1]) /\ k.len = 1
    <3>1. t = <<s[1]>>
      BY <1>4, <2>2
    <3>2. s[1] \in Byte
      BY <1>1, ElementOfSeq
    <3> QED BY <2>2, <3>1, <3>2, ByteAlone
  <2> QED BY <2>1, <2>2, NextOf
<1> QED BY <1>2, <1>3, <1>4, <1>5, <1>6

(* The keys that _fep_key_to_string knows a final byte for. *)
CursorKeys == {Left, Up, Right, Down, Home, End}

CursorStates == {{}, {"SHIFT"}, {"CONTROL"}}

LEMMA CursorFinals ==
  /\ DOMAIN CursorKeyval = {65, 66, 67, 68, 70, 72}
  /\ \A f \in DOMAIN CursorKeyval : CursorKeyval[f] \in CursorKeys
  /\ \A f, g \in DOMAIN CursorKeyval : CursorKeyval[f] = CursorKeyval[g] => f = g
  /\ \A v \in CursorKeys : \E f \in DOMAIN CursorKeyval : CursorKeyval[f] = v
BY DEF CursorKeyval, CursorKeys, Left, Up, Right, Down, Home, End

(* Parameters and a final byte are taken apart into these. *)
LEMMA BytesParse ==
  ASSUME NEW p \in Seq(Byte), \A j \in 1 .. Len(p) : p[j] \in PBytes,
         NEW f \in 64 .. 126, NEW s \in Seq(Byte), Len(s) = Len(p) + 3,
         s[1] = ESC, s[2] = 91, \A j \in 1 .. Len(p) : s[2 + j] = p[j],
         s[Len(p) + 3] = f
  PROVE  CSIParse(s, 91) = [params |-> p, intermediate |-> <<>>, final |-> f,
                            len |-> Len(p) + 3]
<1>1. Len(p) \in Nat
  BY LenProperties
<1>2. PICK e : e = Len(p) + 3
  OBVIOUS
<1>3. /\ e \in 3 .. Len(s) /\ e \in e .. Len(s) /\ Len(s) >= 3
      /\ e \in 3 .. Len(s) + 1 /\ e \in e .. Len(s) + 1
  <2>1. e \in Nat /\ e >= 3 /\ Len(s) = e
    BY <1>1, <1>2
  <2> QED BY <2>1
<1>4. \A j \in 3 .. e - 1 : s[j] \in PBytes
  <2> SUFFICES ASSUME NEW j \in 3 .. e - 1 PROVE s[j] \in PBytes
    OBVIOUS
  <2>1. j - 2 \in 1 .. Len(p) /\ 2 + (j - 2) = j
    <3>1. 3 <= j /\ j <= Len(p) + 2 /\ j \in Int
      BY <1>1, <1>2
    <3> QED BY <1>1, <3>1
  <2>2. s[2 + (j - 2)] = p[j - 2]
    BY <2>1
  <2> QED BY <2>1, <2>2
<1>5. Begins(s, 91, e, e)
  <2>1. f \notin PBytes /\ f \notin IBytes /\ s[e] = f
    BY <1>2 DEF PBytes, IBytes
  <2>2. Run(s, 3, PBytes, e)
    BY <1>3, <1>4, <2>1 DEF Run
  <2>3. Run(s, e, IBytes, e)
    <3>1. \A j \in e .. e - 1 : s[j] \in IBytes
      BY <1>3
    <3>2. s[e] \notin IBytes
      BY Zenon, <2>1
    <3> QED BY Zenon, <1>3, <3>1, <3>2 DEF Run
  <2> QED BY Zenon, <1>3, <2>2, <2>3 DEF Begins
<1>6. CSIParse(s, 91) = Sequence(s, e, e)
  BY <1>5, CSIFound
<1>7. SubSeq(s, 3, e - 1) = p
  <2>1. 3 \in Int /\ e - 1 \in Int /\ e - 1 - 3 + 1 = Len(p) /\ (3 <= e - 1 <=> Len(p) # 0)
    BY <1>1, <1>2
  <2>2. \A j \in 3 .. e - 1 : s[j] \in Byte
    <3>1. PBytes \subseteq Byte
      BY DEF PBytes, Byte
    <3> QED BY <1>4, <3>1
  <2>3. PICK t : t = SubSeq(s, 3, e - 1)
    OBVIOUS
  <2>4. /\ t \in Seq(Byte) /\ Len(t) = Len(p)
        /\ \A j \in 1 .. Len(p) : t[j] = s[3 + j - 1]
    BY <1>1, <2>1, <2>2, <2>3, SubSeqProperties
  <2>5. \A j \in 1 .. Len(p) : 3 + j - 1 = 2 + j
    BY SMT, <1>1
  <2>6. \A j \in 1 .. Len(t) : t[j] = p[j]
    <3> SUFFICES ASSUME NEW j \in 1 .. Len(p) PROVE t[j] = p[j]
      BY <2>4
    <3>1. t[j] = s[3 + j - 1] /\ 3 + j - 1 = 2 + j /\ s[2 + j] = p[j]
      BY <2>4, <2>5
    <3> QED BY Zenon, <3>1
  <2>7. t = p
    BY <2>4, <2>6, SeqEqual
  <2> QED BY <2>3, <2>7
<1>8. SubSeq(s, e, e - 1) = <<>>
  <2>1. e \in Int /\ e - 1 \in Int /\ e - 1 < e
    BY <1>1, <1>2
  <2> QED BY <2>1, SubSeqEmpty
<1>9. Sequence(s, e, e) = [params |-> p, intermediate |-> <<>>, final |-> f, len |-> e]
  BY Zenon, <1>2, <1>7, <1>8 DEF Sequence
<1> QED BY Zenon, <1>2, <1>6, <1>9

(* What _fep_csi_format makes of parameters and a final byte is taken      *)
(* apart into these.                                                       *)
LEMMA FormatParse ==
  ASSUME NEW p \in Seq(Byte), \A j \in 1 .. Len(p) : p[j] \in PBytes,
         NEW f \in 64 .. 126, NEW s, s = <<ESC, 91>> \o p \o <<>> \o <<f>>
  PROVE  /\ s \in Seq(Byte) /\ Len(s) = Len(p) + 3
         /\ CSIParse(s, 91) = [params |-> p, intermediate |-> <<>>, final |-> f,
                               len |-> Len(p) + 3]
<1>0. Len(p) \in Nat
  BY LenProperties
<1>1. f \in Byte /\ ESC \in Byte /\ 91 \in Byte
  BY SMT DEF Byte, ESC
<1>2. /\ <<ESC, 91>> \in Seq(Byte) /\ Len(<<ESC, 91>>) = 2
      /\ <<ESC, 91>>[1] = ESC /\ <<ESC, 91>>[2] = 91
      /\ <<f>> \in Seq(Byte) /\ Len(<<f>>) = 1 /\ <<f>>[1] = f
  BY <1>1
<1>3. PICK head : head = <<ESC, 91>> \o p
  OBVIOUS
<1>4. /\ head \in Seq(Byte) /\ Len(head) = Len(p) + 2
      /\ \A i \in 1 .. Len(p) + 2 : head[i] = IF i <= 2 THEN <<ESC, 91>>[i] ELSE p[i - 2]
  <2>1. /\ head \in Seq(Byte) /\ Len(head) = 2 + Len(p)
        /\ \A i \in 1 .. 2 + Len(p) : head[i] = IF i <= 2 THEN <<ESC, 91>>[i] ELSE p[i - 2]
    BY <1>2, <1>3, ConcatProperties
  <2>2. 2 + Len(p) = Len(p) + 2
    BY <1>0
  <2> QED BY <2>1, <2>2
<1>5. s = head \o <<f>>
  <2>1. head \o <<>> = head
    BY <1>4, ConcatEmptySeq
  <2> QED BY <1>3, <2>1
<1>6. /\ s \in Seq(Byte) /\ Len(s) = Len(p) + 3
      /\ \A i \in 1 .. Len(p) + 3 : s[i] = IF i <= Len(p) + 2 THEN head[i]
                                           ELSE <<f>>[i - (Len(p) + 2)]
  <2>1. /\ s \in Seq(Byte) /\ Len(s) = Len(head) + 1
        /\ \A i \in 1 .. Len(head) + 1 : s[i] = IF i <= Len(head) THEN head[i]
                                                ELSE <<f>>[i - Len(head)]
    BY <1>2, <1>4, <1>5, ConcatProperties
  <2>2. Len(head) + 1 = Len(p) + 3
    BY <1>0, <1>4
  <2> QED BY <1>4, <2>1, <2>2
<1>7. s[1] = ESC /\ s[2] = 91
  <2>1. /\ 1 \in 1 .. Len(p) + 3 /\ 1 \in 1 .. Len(p) + 2 /\ 1 <= Len(p) + 2 /\ 1 <= 2
        /\ 2 \in 1 .. Len(p) + 3 /\ 2 \in 1 .. Len(p) + 2 /\ 2 <= Len(p) + 2 /\ 2 <= 2
    BY SMT, <1>0
  <2> QED BY Zenon, <1>2, <1>4, <1>6, <2>1
<1>8. \A j \in 1 .. Len(p) : s[2 + j] = p[j]
  <2> SUFFICES ASSUME NEW j \in 1 .. Len(p) PROVE s[2 + j] = p[j]
    OBVIOUS
  <2>1. /\ 2 + j \in 1 .. Len(p) + 3 /\ 2 + j \in 1 .. Len(p) + 2
        /\ 2 + j <= Len(p) + 2 /\ ~(2 + j <= 2) /\ (2 + j) - 2 = j
    BY SMT, <1>0
  <2> QED BY Zenon, <1>4, <1>6, <2>1
<1>9. s[Len(p) + 3] = f
  <2>1. /\ Len(p) + 3 \in 1 .. Len(p) + 3 /\ ~(Len(p) + 3 <= Len(p) + 2)
        /\ (Len(p) + 3) - (Len(p) + 2) = 1
    BY SMT, <1>0
  <2> QED BY Zenon, <1>2, <1>6, <2>1
<1> QED BY Zenon, <1>6, <1>7, <1>8, <1>9, BytesParse

LEMMA ParamsOfState ==
  ASSUME NEW state
  PROVE  /\ CursorParams(state) \in Seq(Byte)
         /\ \A j \in 1 .. Len(CursorParams(state)) : CursorParams(state)[j] \in PBytes
<1>1. ASSUME NEW c \in {50, 53}
      PROVE  /\ <<48, SEMI, c>> \in Seq(Byte)
             /\ \A j \in 1 .. Len(<<48, SEMI, c>>) : <<48, SEMI, c>>[j] \in PBytes
  <2>1. /\ 48 \in PBytes /\ SEMI \in PBytes /\ c \in PBytes
        /\ 48 \in Byte /\ SEMI \in Byte /\ c \in Byte
    BY SMT DEF PBytes, Byte, SEMI
  <2>2. \A j \in 1 .. 3 : j = 1 \/ j = 2 \/ j = 3
    BY SMT
  <2>3. \A x, y, z : /\ Len(<<x, y, z>>) = 3
                     /\ <<x, y, z>>[1] = x /\ <<x, y, z>>[2] = y /\ <<x, y, z>>[3] = z
    OBVIOUS
  <2>4. <<48, SEMI, c>> \in Seq(Byte)
    BY <2>1
  <2>5. PICK p : p = <<48, SEMI, c>>
    OBVIOUS
  <2>6. Len(p) = 3 /\ p[1] = 48 /\ p[2] = SEMI /\ p[3] = c
    BY <2>3, <2>5
  <2> QED BY Zenon, <2>1, <2>2, <2>4, <2>5, <2>6
<1>2. <<>> \in Seq(Byte) /\ \A j \in 1 .. Len(<<>>) : FALSE
  BY EmptySeq
<1>3. CursorParams(state) \in {<<>>, <<48, SEMI, 50>>, <<48, SEMI, 53>>}
  BY DEF CursorParams
<1> QED BY Zenon, <1>1, <1>2, <1>3

LEMMA StateOfParams ==
  ASSUME NEW state \in CursorStates, NEW csi, csi.params = CursorParams(state)
  PROVE  StateFromCursor(csi) = state
<1>1. CASE state = {}
  <2>1. csi.params = <<>>
    BY <1>1 DEF CursorParams
  <2>2. StrSplit(csi.params, SEMI) = <<>> /\ Len(<<>>) # 2
    BY <2>1, SplitNothing
  <2> QED BY Zenon, <1>1, <2>2 DEF StateFromCursor
<1>2. ASSUME NEW c \in {50, 53}, csi.params = <<48, SEMI, c>>
      PROVE  StateFromCursor(csi) = CASE c - 48 = 2 -> {"SHIFT"} [] c - 48 = 5 -> {"CONTROL"}
                                      [] OTHER -> {}
  <2>1. 48 \in Byte /\ SEMI \in Byte /\ c \in Byte /\ 48 # SEMI /\ c # SEMI /\ c \in Int
    BY SMT DEF Byte, SEMI
  <2>2. StrSplit(<<48, SEMI, c>>, SEMI) = <<<<48>>, <<c>>>>
    BY <2>1, SplitTwo
  <2>3. PICK params : params = StrSplit(csi.params, SEMI)
    OBVIOUS
  <2>4. \A x, y : Len(<<x, y>>) = 2 /\ <<x, y>>[2] = y
    OBVIOUS
  <2>5. Len(params) = 2 /\ params[2] = <<c>>
    <3>1. params = <<<<48>>, <<c>>>>
      BY Zenon, <1>2, <2>2, <2>3
    <3>2. Len(<<<<48>>, <<c>>>>) = 2 /\ <<<<48>>, <<c>>>>[2] = <<c>>
      BY <2>4
    <3> QED BY Zenon, <3>1, <3>2
  <2>6. Number(params[2]) = c - 48
    BY <2>1, <2>5, NumberOfDigit
  <2>7. StateFromCursor(csi) =
          IF Len(params) # 2 THEN {}
          ELSE CASE Number(params[2]) = 2 -> {"SHIFT"}
                 [] Number(params[2]) = 5 -> {"CONTROL"}
                 [] OTHER -> {}
    BY <2>3 DEF StateFromCursor
  <2> QED BY Zenon, <2>5, <2>6, <2>7
<1>3. CASE state = {"SHIFT"}
  <2>1. csi.params = <<48, SEMI, 50>>
    BY <1>3 DEF CursorParams
  <2>2. 50 \in {50, 53} /\ 50 - 48 = 2 /\ 2 # 5
    OBVIOUS
  <2> QED BY Zenon, <1>2, <1>3, <2>1, <2>2
<1>4. CASE state = {"CONTROL"}
  <2>1. csi.params = <<48, SEMI, 53>>
    BY <1>4 DEF CursorParams
  <2>2. 53 \in {50, 53} /\ 53 - 48 = 5 /\ 2 # 5
    OBVIOUS
  <2> QED BY Zenon, <1>2, <1>4, <2>1, <2>2
<1> QED BY <1>1, <1>3, <1>4 DEF CursorStates

(* What _fep_key_to_string makes of a cursor key is read as that key. *)
LEMMA CursorRoundTrip ==
  ASSUME NEW v \in CursorKeys, NEW state \in CursorStates
  PROVE  NextKeyOf(KeyToString(v, state)) = Key(v, state, Len(KeyToString(v, state)))
<1>1. KeyToString(v, state) = CursorString(v, state)
  <2>1. v \in {Left, Up, Right, Down, Delete, Home, End}
    BY DEF CursorKeys
  <2>2. v # 32 /\ v # Return /\ v # BackSpace /\ v # Escape /\ v # Tab
    BY SMT DEF CursorKeys, Left, Up, Right, Down, Home, End, Return, BackSpace, Escape, Tab
  <2> QED BY Zenon, <2>1, <2>2 DEF KeyToString
<1>2. PICK f \in DOMAIN CursorKeyval : CursorKeyval[f] = v
  BY CursorFinals
<1>3. CursorString(v, state) = CSIFormat([params |-> CursorParams(state),
                                          intermediate |-> <<>>, final |-> f])
  <2> DEFINE finals == {g \in DOMAIN CursorKeyval : CursorKeyval[g] = v}
  <2>1. finals = {f}
    BY <1>2, CursorFinals
  <2>2. (CHOOSE g \in {f} : TRUE) = f /\ {f} # {}
    OBVIOUS
  <2> QED BY Zenon, <2>1, <2>2 DEF CursorString
<1>4. f # 0 /\ f \in 64 .. 126
  BY SMT, CursorFinals
<1>5. PICK s : s = CursorString(v, state)
  OBVIOUS
<1>6. s = <<ESC, 91>> \o CursorParams(state) \o <<>> \o <<f>>
  <2>1. \A p : CSIFormat([params |-> p, intermediate |-> <<>>, final |-> f])
                 = <<ESC, 91>> \o p \o <<>> \o <<f>>
    BY <1>4 DEF CSIFormat
  <2> QED BY Zenon, <1>3, <1>5, <2>1
<1>7. PICK csi : csi = [params |-> CursorParams(state), intermediate |-> <<>>, final |-> f,
                        len |-> Len(CursorParams(state)) + 3]
  OBVIOUS
<1>8. s \in Seq(Byte) /\ Len(s) = Len(CursorParams(state)) + 3 /\ CSIParse(s, 91) = csi
  BY <1>4, <1>6, <1>7, ParamsOfState, FormatParse
<1>9. csi.final = f /\ csi.params = CursorParams(state) /\ csi.len = Len(s) /\ csi # NoCSI
  <2>1. csi.final = f /\ csi.params = CursorParams(state)
    BY <1>7
  <2>2. csi.len = Len(s)
    BY <1>7, <1>8
  <2>3. csi # NoCSI
    BY <1>4, <2>1 DEF NoCSI
  <2> QED BY <2>1, <2>2, <2>3
<1>10. NextKeyOf(s) = Key(v, state, Len(s))
  <2>1. 91 \in Introducer /\ 79 # 91 /\ 111 # 91
    BY DEF Introducer
  <2>2. EscToKey(s) = SequenceKey(91, csi)
    BY <1>8, <1>9, <2>1, EscOf
  <2>3. SequenceKey(91, csi) = CSIToKey(csi)
    BY Zenon, <2>1 DEF SequenceKey
  <2>4. StateFromCursor(csi) = state
    BY <1>9, StateOfParams
  <2>5. CSIToKey(csi) = Key(v, state, Len(s))
    BY Zenon, <1>2, <1>9, <2>4 DEF CSIToKey, CursorKey
  <2>6. Key(v, state, Len(s)).read
    BY DEF Key
  <2> QED BY Zenon, <2>2, <2>3, <2>5, <2>6 DEF NextKeyOf
<1> QED BY <1>1, <1>5, <1>10

-----------------------------------------------------------------------------
(* t is the first m bytes of s. *)
IsFront(S, t, s, m) ==
  t \in Seq(S) /\ Len(t) = m /\ \A j \in 1 .. m : t[j] = s[j]

LEMMA FrontOf ==
  ASSUME NEW S, NEW s \in Seq(S), NEW m \in 0 .. Len(s)
  PROVE  IsFront(S, SubSeq(s, 1, m), s, m)
<1>1. Len(s) \in Nat /\ m \in Nat
  BY LenProperties
<1>2. /\ 1 \in Int /\ m \in Int /\ \A j \in 1 .. m : s[j] \in S
      /\ (IF 1 <= m THEN m - 1 + 1 ELSE 0) = m /\ m - 1 + 1 = m
      /\ \A j \in 1 .. m : 1 + j - 1 = j
  BY <1>1, ElementOfSeq
<1>3. PICK t : t = SubSeq(s, 1, m)
  OBVIOUS
<1>4. /\ t \in Seq(S) /\ Len(t) = IF 1 <= m THEN m - 1 + 1 ELSE 0
      /\ \A j \in 1 .. m - 1 + 1 : t[j] = s[1 + j - 1]
  BY <1>2, <1>3, SubSeqProperties
<1>5. Len(t) = m
  BY Zenon, <1>2, <1>4
<1>6. \A j \in 1 .. m : t[j] = s[j]
  <2> SUFFICES ASSUME NEW j \in 1 .. m PROVE t[j] = s[j]
    OBVIOUS
  <2>1. j \in 1 .. m - 1 + 1
    BY Zenon, <1>2
  <2>2. t[j] = s[1 + j - 1] /\ 1 + j - 1 = j
    BY Zenon, <1>2, <1>4, <2>1
  <2> QED BY Zenon, <2>2
<1> QED BY Zenon, <1>3, <1>4, <1>5, <1>6 DEF IsFront

(* _fep_csi_format makes of a sequence the bytes it was read from, but for *)
(* a final byte 0.                                                         *)
LEMMA FormatOfSequence ==
  ASSUME NEW s \in Seq(Byte), NEW i, NEW f, Begins(s, 91, i, f)
  PROVE  CSIFormat(Sequence(s, i, f)) = SubSeq(s, 1, IF s[f] = 0 THEN f - 1 ELSE f)
<1>0. Len(s) \in Nat
  BY LenProperties
<1>1. /\ i \in 3 .. Len(s) /\ f \in i .. Len(s) /\ s[1] = 27 /\ s[2] = 91
      /\ i \in Nat /\ f \in Nat
  BY <1>0 DEF Begins, ESC
<1>2. SubSeq(s, 1, 2) = <<27, 91>>
  <2>1. 2 \in 0 .. Len(s)
    BY <1>0, <1>1
  <2>2. PICK t : t = SubSeq(s, 1, 2)
    OBVIOUS
  <2>3. t \in Seq(Byte) /\ Len(t) = 2 /\ \A j \in 1 .. 2 : t[j] = s[j]
    <3>1. IsFront(Byte, t, s, 2)
      BY <2>1, <2>2, FrontOf
    <3> QED BY <3>1 DEF IsFront
  <2>4. t[1] = 27 /\ t[2] = 91
    BY <1>1, <2>3
  <2>5. t = <<27, 91>>
    BY <2>3, <2>4
  <2> QED BY <2>2, <2>5
<1>3. SubSeq(s, f, f) = <<s[f]>>
  <2>1. f \in Int /\ \A j \in f .. f : s[j] \in Byte
    BY <1>0, <1>1, ElementOfSeq
  <2>2. PICK t : t = SubSeq(s, f, f)
    OBVIOUS
  <2>3. f <= f /\ f - f + 1 = 1 /\ f + 1 - 1 = f /\ 1 \in 1 .. f - f + 1
    BY <1>1
  <2>4. t \in Seq(Byte) /\ Len(t) = IF f <= f THEN f - f + 1 ELSE 0
    BY <2>1, <2>2, SubSeqProperties
  <2>5. Len(t) = 1
    BY <2>3, <2>4
  <2>6. t[1] = s[f + 1 - 1]
    <3>1. \A j \in 1 .. f - f + 1 : t[j] = s[f + j - 1]
      BY <2>1, <2>2, SubSeqProperties
    <3> QED BY Zenon, <2>3, <3>1
  <2>7. t = <<s[f]>>
    BY <2>3, <2>4, <2>5, <2>6
  <2> QED BY <2>2, <2>7
<1>4. SubSeq(s, 1, 2) \o SubSeq(s, 3, i - 1) = SubSeq(s, 1, i - 1)
  <2>1. /\ 1 \in 1 .. Len(s) + 1 /\ 2 \in 1 - 1 .. Len(s) /\ i - 1 \in 2 .. Len(s) /\ 2 + 1 = 3
    BY <1>0, <1>1
  <2> QED BY Zenon, <2>1, ConcatAdjacentSubSeq
<1>5. SubSeq(s, 1, i - 1) \o SubSeq(s, i, f - 1) = SubSeq(s, 1, f - 1)
  <2>1. /\ 1 \in 1 .. Len(s) + 1 /\ i - 1 \in 1 - 1 .. Len(s) /\ f - 1 \in i - 1 .. Len(s)
        /\ (i - 1) + 1 = i
    BY <1>0, <1>1
  <2> QED BY Zenon, <2>1, ConcatAdjacentSubSeq
<1>6. SubSeq(s, 1, f - 1) \o SubSeq(s, f, f) = SubSeq(s, 1, f)
  <2>1. /\ 1 \in 1 .. Len(s) + 1 /\ f - 1 \in 1 - 1 .. Len(s) /\ f \in f - 1 .. Len(s)
        /\ (f - 1) + 1 = f
    BY <1>0, <1>1
  <2> QED BY Zenon, <2>1, ConcatAdjacentSubSeq
<1>7. SubSeq(s, 1, f - 1) \o <<>> = SubSeq(s, 1, f - 1)
  <2>1. f - 1 \in 0 .. Len(s)
    BY <1>0, <1>1
  <2>2. SubSeq(s, 1, f - 1) \in Seq(Byte)
    <3>1. IsFront(Byte, SubSeq(s, 1, f - 1), s, f - 1)
      BY <2>1, FrontOf
    <3> QED BY Zenon, <3>1 DEF IsFront
  <2> QED BY <2>2, ConcatEmptySeq
<1>8. CSIFormat(Sequence(s, i, f)) =
        <<27, 91>> \o SubSeq(s, 3, i - 1) \o SubSeq(s, i, f - 1)
          \o (IF s[f] = 0 THEN <<>> ELSE <<s[f]>>)
  <2>1. PICK r : r = Sequence(s, i, f)
    OBVIOUS
  <2>2. PICK p, n, c : p = SubSeq(s, 3, i - 1) /\ n = SubSeq(s, i, f - 1) /\ c = s[f]
    OBVIOUS
  <2>3. r.params = p /\ r.intermediate = n /\ r.final = c
    BY Zenon, <2>1, <2>2 DEF Sequence
  <2>4. CSIFormat(r) = <<27, 91>> \o p \o n \o (IF c = 0 THEN <<>> ELSE <<c>>)
    BY Zenon, <2>3 DEF CSIFormat, ESC
  <2> QED BY Zenon, <2>1, <2>2, <2>4
<1> QED BY Zenon, <1>2, <1>3, <1>4, <1>5, <1>6, <1>7, <1>8

(* What begins with a sequence that is complete begins with that one; so a *)
(* part of a sequence breaks off.                                          *)
LEMMA PartBreaksOff ==
  ASSUME NEW s \in Seq(Byte), NEW d \in Introducer, CSIParse(s, d) # NoCSI,
         NEW c \in Seq(Byte), c # <<>>, Len(c) < CSIParse(s, d).len,
         \A j \in 1 .. Len(c) : c[j] = s[j]
  PROVE  BreaksOff(c)
<1>1. Len(s) \in Nat /\ Len(c) \in Nat /\ Len(c) # 0
  BY LenProperties, EmptySeq
<1>2. Len(s) >= 3 /\ s[1] = ESC /\ s[2] = d /\ CSIParse(s, d).len \in 3 .. Len(s)
  BY OneIntroducer
<1>3. c[1] = ESC
  <2>1. 1 \in 1 .. Len(c)
    BY <1>1
  <2> QED BY Zenon, <1>2, <2>1
<1>4. Len(c) # 1 => c[2] = d
  <2> SUFFICES ASSUME Len(c) # 1 PROVE c[2] = d
    OBVIOUS
  <2>1. PICK n \in Nat : n = Len(c)
    BY <1>1
  <2>2. 2 \in 1 .. n
    BY <1>1, <2>1
  <2>3. c[2] = s[2]
    BY Zenon, <2>1, <2>2
  <2> QED BY Zenon, <1>2, <2>3
<1>5. CSIParse(c, d) = NoCSI
  <2> SUFFICES ASSUME CSIParse(c, d) # NoCSI PROVE FALSE
    OBVIOUS
  <2>1. CSIParse(c, d).len \in 3 .. Len(c)
    BY OneIntroducer
  <2>2. PICK n : n = CSIParse(c, d).len
    OBVIOUS
  <2>3. n \in Nat /\ n <= Len(c) /\ Len(s) >= n
    BY <1>1, <1>2, <2>1, <2>2
  <2>4. \A j \in 1 .. n : s[j] = c[j]
    BY <1>1, <2>3
  <2>5. CSIParse(s, d) = CSIParse(c, d)
    BY <2>2, <2>3, <2>4, CSISame
  <2> QED BY <1>1, <1>2, <2>2, <2>3, <2>5
<1> QED BY Zenon, <1>3, <1>4, <1>5 DEF BreaksOff, Introducer


(* t is read as the key k, and to its end. *)
ReadsAs(t, k) ==
  LET n == NextKeyOf(t) IN
  n.keyval = k.keyval /\ n.state = k.state /\ n.len = Len(t)

(* The keys that only terminfo has bytes for. *)
CapOnly == {Prior, PageDown, Insert} \cup F1 .. F1 + 11

LEMMA CapTableKeys ==
  ASSUME NEW i \in DOMAIN CapKeyvals
  PROVE  CapKeyvals[i].keyval \in {BackSpace, Delete, Home, End} \cup CapOnly
BY DEF CapKeyvals, CapOnly, F1

LEMMA CapTableOnce ==
  ASSUME NEW i \in DOMAIN CapKeyvals, NEW j \in DOMAIN CapKeyvals,
         CapKeyvals[i].keyval = CapKeyvals[j].keyval
  PROVE  i = j
BY SMTT(60) DEF CapKeyvals, BackSpace, Delete, Prior, PageDown, Home, End, Insert, F1

LEMMA CapOnlyString ==
  ASSUME NEW v \in CapOnly
  PROVE  KeyToString(v, {}) = CapString(v)
<1>1. v \in Nat /\ v > 126
  BY SMT DEF CapOnly, Prior, PageDown, Insert, F1
<1>2. v \notin {Left, Up, Right, Down, Delete, Home, End}
  BY SMT DEF CapOnly, Prior, PageDown, Insert, F1, Left, Up, Right, Down, Delete, Home, End
<1>3. v # 32 /\ v # Return /\ v # BackSpace /\ v # Escape /\ v # Tab
  BY SMT DEF CapOnly, Prior, PageDown, Insert, F1, Return, BackSpace, Escape, Tab
<1>4. CharString(v, {}) = <<>>
  <2>1. "CONTROL" \notin {} /\ "SHIFT" \notin {}
    OBVIOUS
  <2>2. v \notin 33 .. 126
    BY SMT, <1>1
  <2> QED BY Zenon, <2>1, <2>2 DEF CharString
<1> QED BY Zenon, <1>2, <1>3, <1>4 DEF KeyToString

LEMMA CapStringIs ==
  ASSUME NEW i \in DOMAIN CapKeyvals, CapKeyvals[i].name \in CapKeys
  PROVE  CapString(CapKeyvals[i].keyval) = Cap[CapKeyvals[i].name]
<1> DEFINE caps == {j \in DOMAIN CapKeyvals :
                      CapKeyvals[j].keyval = CapKeyvals[i].keyval
                        /\ CapKeyvals[j].name \in CapKeys}
<1>1. caps = {i}
  BY Zenon, CapTableOnce
<1>2. (CHOOSE j \in {i} : TRUE) = i /\ {i} # {}
  OBVIOUS
<1> QED BY Zenon, <1>1, <1>2 DEF CapString

(* The key read from a sequence that is none of a cursor key's. *)
LEMMA CapFound ==
  ASSUME NEW csi, csi.final \notin DOMAIN CursorKeyval, CSIToKey(csi).read
  PROVE  \E i \in CapsOf(CSIFormat(csi)) :
           CSIToKey(csi) = Key(CapKeyvals[i].keyval, {}, csi.len)
<1>1. PICK caps : caps = CapsOf(CSIFormat(csi))
  OBVIOUS
<1>2. CSIToKey(csi) =
        IF caps = {} THEN NoKey
        ELSE Key(CapKeyvals[CHOOSE k \in caps : \A j \in caps : k <= j].keyval, {}, csi.len)
  BY <1>1 DEF CSIToKey
<1>3. caps # {}
  BY <1>2 DEF NoKey
<1>4. \E k \in caps : \A j \in caps : k <= j
  <2>1. DOMAIN CapKeyvals = 1 .. 19
    BY DEF CapKeyvals
  <2>2. caps \in SUBSET Nat
    BY <1>1, <2>1 DEF CapsOf
  <2> QED BY <1>3, <2>2, LeastOf
<1> QED BY Zenon, <1>1, <1>2, <1>3, <1>4

(* The bytes of a capability are read as its key, if they are where it is  *)
(* read from and do not break off.                                         *)
LEMMA CapAlone ==
  ASSUME NEW s \in Seq(Byte), NEW k, FromSequence(s, 91, k),
         NEW c \in Seq(Byte), c # <<>>, ~BreaksOff(c),
         IsPrefix(c, CSIFormat(CSIParse(s, 91)))
  PROVE  NextKeyOf(c) = k /\ k.len = Len(c)
<1>1. /\ 91 \in Introducer /\ CSIParse(s, 91) # NoCSI
      /\ k.len = CSIParse(s, 91).len /\ k.len \in 3 .. Len(s)
  BY DEF FromSequence
<1>2. PICK i, f : Begins(s, 91, i, f)
  BY <1>1, CSIBegins
<1>3. CSIParse(s, 91) = Sequence(s, i, f)
  BY <1>2, CSIFound
<1>4. f = k.len
  BY <1>1, <1>2, <1>3, SequenceFound
<1>5. PICK m : m = IF s[f] = 0 THEN f - 1 ELSE f
  OBVIOUS
<1>6. CSIFormat(CSIParse(s, 91)) = SubSeq(s, 1, m)
  <2>1. CSIFormat(Sequence(s, i, f)) = SubSeq(s, 1, IF s[f] = 0 THEN f - 1 ELSE f)
    BY <1>2, FormatOfSequence
  <2> QED BY Zenon, <1>3, <1>5, <2>1
<1>7. Len(s) \in Nat /\ Len(c) \in Nat /\ Len(c) # 0
  BY LenProperties, EmptySeq
<1>8. m \in 0 .. Len(s) /\ m <= f
  <2>1. f \in 3 .. Len(s)
    BY <1>1, <1>4
  <2> QED BY <1>5, <1>7, <2>1
<1>9. IsFront(Byte, SubSeq(s, 1, m), s, m)
  BY <1>8, FrontOf
<1>10. PICK x : x = SubSeq(s, 1, m)
  OBVIOUS
<1>11. x \in Seq(Byte) /\ Len(x) = m /\ \A j \in 1 .. m : x[j] = s[j]
  BY Zenon, <1>9, <1>10 DEF IsFront
<1>12. Len(c) <= m /\ SubSeq(c, 1, Len(c)) = SubSeq(x, 1, Len(c))
  BY Zenon, <1>6, <1>10, <1>11 DEF IsPrefix
<1>13. SubSeq(c, 1, Len(c)) = c
  BY SubSeqFull
<1>14. \A j \in 1 .. Len(c) : c[j] = s[j]
  <2>1. Len(c) \in 0 .. Len(x)
    BY <1>7, <1>8, <1>11, <1>12
  <2>2. IsFront(Byte, c, x, Len(c))
    <3>1. IsFront(Byte, SubSeq(x, 1, Len(c)), x, Len(c))
      BY <1>11, <2>1, FrontOf
    <3> QED BY Zenon, <1>12, <1>13, <3>1
  <2>3. \A j \in 1 .. Len(c) : c[j] = x[j]
    BY <2>2 DEF IsFront
  <2>4. \A j \in 1 .. Len(c) : j \in 1 .. m
    BY <1>7, <1>8, <1>12
  <2> QED BY Zenon, <1>11, <2>3, <2>4
<1>15. Len(c) >= f
  <2>1. ~(Len(c) < CSIParse(s, 91).len)
    BY Zenon, <1>1, <1>14, PartBreaksOff
  <2>2. f \in Nat
    BY <1>1, <1>4
  <2> QED BY <1>1, <1>4, <1>7, <2>1, <2>2
<1>16. Len(c) = k.len
  BY <1>1, <1>4, <1>7, <1>8, <1>12, <1>15
<1>17. NextKeyOf(c) = k
  <2>1. Len(c) >= k.len
    BY <1>7, <1>16
  <2>2. \A j \in 1 .. k.len : c[j] = s[j]
    BY <1>14, <1>16
  <2> QED BY <2>1, <2>2, SameSequence
<1> QED BY <1>16, <1>17


LEMMA KeyFields ==
  ASSUME NEW v, NEW state, NEW n, NEW k, k = Key(v, state, n)
  PROVE  k.keyval = v /\ k.state = state /\ k.len = n /\ k.read
BY DEF Key

LEMMA CursorStateIn ==
  ASSUME NEW csi
  PROVE  StateFromCursor(csi) \in CursorStates
<1>1. PICK params : params = StrSplit(csi.params, SEMI)
  OBVIOUS
<1>2. StateFromCursor(csi) =
        IF Len(params) # 2 THEN {}
        ELSE CASE Number(params[2]) = 2 -> {"SHIFT"}
               [] Number(params[2]) = 5 -> {"CONTROL"}
               [] OTHER -> {}
  BY <1>1 DEF StateFromCursor
<1> QED BY <1>2 DEF CursorStates

(* A key that is read from a sequence is a cursor key, or one of terminfo. *)
LEMMA SequenceKeys ==
  ASSUME NEW s \in Seq(Byte), NEW d, NEW k, FromSequence(s, d, k)
  PROVE  \/ k.keyval \in CursorKeys /\ k.state \in CursorStates
         \/ /\ d = 91
            /\ \E i \in CapsOf(CSIFormat(CSIParse(s, 91))) :
                 k = Key(CapKeyvals[i].keyval, {}, k.len)
<1>1. PICK csi : csi = CSIParse(s, d)
  OBVIOUS
<1>2. d \in Introducer /\ k = SequenceKey(d, csi) /\ k.read /\ k.len = csi.len
  BY <1>1 DEF FromSequence
<1>3. ~NoKey.read
  BY DEF NoKey
<1>0. SequenceKey(d, csi) = IF d = 79 THEN CursorKey(csi)
                            ELSE IF d = 111 THEN EtermKey(csi) ELSE CSIToKey(csi)
  <2>1. 111 # 79 /\ 91 # 79 /\ 91 # 111
    OBVIOUS
  <2>2. d \in Introducer
    BY <1>2
  <2> QED BY Zenon, <2>1, <2>2 DEF SequenceKey, Introducer
<1>4. ASSUME k = CursorKey(csi) PROVE k.keyval \in CursorKeys /\ k.state \in CursorStates
  <2>1. /\ csi.final \in DOMAIN CursorKeyval
        /\ k = Key(CursorKeyval[csi.final], StateFromCursor(csi), csi.len)
    BY Zenon, <1>2, <1>3, <1>4 DEF CursorKey
  <2>2. CursorKeyval[csi.final] \in CursorKeys
    BY Zenon, <2>1, CursorFinals
  <2>3. k.keyval = CursorKeyval[csi.final] /\ k.state = StateFromCursor(csi)
    BY <2>1, KeyFields
  <2> QED BY Zenon, <2>2, <2>3, CursorStateIn
<1>5. CASE d = 79
  <2>1. k = CursorKey(csi)
    BY Zenon, <1>0, <1>2, <1>5
  <2> QED BY Zenon, <1>4, <2>1
<1>6. CASE d = 111
  <2>1. 111 # 79
    OBVIOUS
  <2>2. k = EtermKey(csi)
    BY Zenon, <1>0, <1>2, <1>6, <2>1
  <2>3. /\ csi.final \in 97 .. 100
        /\ k = Key(CursorKeyval[csi.final - 32], StateFromCursor(csi), csi.len)
    BY Zenon, <1>2, <1>3, <2>2 DEF EtermKey
  <2>4. csi.final - 32 \in DOMAIN CursorKeyval
    BY SMT, <2>3, CursorFinals
  <2>5. CursorKeyval[csi.final - 32] \in CursorKeys
    BY Zenon, <2>4, CursorFinals
  <2>6. k.keyval = CursorKeyval[csi.final - 32] /\ k.state = StateFromCursor(csi)
    BY <2>3, KeyFields
  <2> QED BY Zenon, <2>5, <2>6, CursorStateIn
<1>7. CASE d = 91
  <2>1. 91 # 79 /\ 91 # 111
    OBVIOUS
  <2>2. k = CSIToKey(csi)
    BY Zenon, <1>0, <1>2, <1>7, <2>1
  <2>3. CASE csi.final \in DOMAIN CursorKeyval
    <3>1. k = CursorKey(csi)
      BY Zenon, <2>2, <2>3 DEF CSIToKey
    <3> QED BY Zenon, <1>4, <3>1
  <2>4. CASE csi.final \notin DOMAIN CursorKeyval
    <3>1. \E i \in CapsOf(CSIFormat(csi)) : k = Key(CapKeyvals[i].keyval, {}, csi.len)
      BY Zenon, <1>2, <2>2, <2>4, CapFound
    <3> QED BY Zenon, <1>1, <1>2, <1>7, <3>1
  <2> QED BY <2>3, <2>4
<1> QED BY <1>2, <1>5, <1>6, <1>7 DEF Introducer

LEMMA CursorReads ==
  ASSUME NEW k, k.keyval \in CursorKeys, k.state \in CursorStates
  PROVE  ReadsAs(KeyToString(k.keyval, k.state), k)
<1>1. PICK v, state, t : v = k.keyval /\ state = k.state /\ t = KeyToString(v, state)
  OBVIOUS
<1>2. NextKeyOf(t) = Key(v, state, Len(t))
  BY Zenon, <1>1, CursorRoundTrip
<1>3. /\ Key(v, state, Len(t)).keyval = v /\ Key(v, state, Len(t)).state = state
      /\ Key(v, state, Len(t)).len = Len(t)
  BY DEF Key
<1> QED BY Zenon, <1>1, <1>2, <1>3 DEF ReadsAs

LEMMA ByteReads ==
  ASSUME NEW b \in Byte, b < 128
  PROVE  ReadsAs(KeyToString(CharToKey(b).keyval, CharToKey(b).state), CharToKey(b))
<1>1. b % 128 = b
  BY SMT DEF Byte
<1>2. PICK k : k = CharToKey(b)
  OBVIOUS
<1>3. KeyToString(k.keyval, k.state) = <<b>>
  <2>1. KeyToString(CharToKey(b).keyval, CharToKey(b).state) = <<b % 128>>
    BY CharRoundTrip
  <2> QED BY Zenon, <1>1, <1>2, <2>1
<1>4. NextKeyOf(<<b>>) = k
  BY <1>2, ByteAlone
<1>5. k.len = 1 /\ Len(<<b>>) = 1
  BY <1>2, CharKeyLen
<1> QED BY Zenon, <1>2, <1>3, <1>4, <1>5 DEF ReadsAs

(* What _fep_key_to_string makes of a key that was read is read as that    *)
(* key.                                                                    *)
LEMMA ForwardReads ==
  ASSUME CapsComplete, NEW s \in Seq(Byte), s # <<>>, NEW k, k = NextKeyOf(s),
         s[1] < 128, k.keyval # Delete, KeyToString(k.keyval, k.state) # <<>>
  PROVE  ReadsAs(KeyToString(k.keyval, k.state), k)
<1>1. s[1] \in Byte
  <2>1. Len(s) \in Nat /\ Len(s) # 0
    BY LenProperties, EmptySeq
  <2>2. 1 \in 1 .. Len(s)
    BY <2>1
  <2> QED BY <2>2, ElementOfSeq
<1>2. CASE k = CharToKey(s[1])
  BY Zenon, <1>1, <1>2, ByteReads
<1>3. ASSUME NEW d, FromSequence(s, d, k) PROVE ReadsAs(KeyToString(k.keyval, k.state), k)
  <2>1. CASE k.keyval \in CursorKeys /\ k.state \in CursorStates
    BY Zenon, <2>1, CursorReads
  <2>2. ASSUME d = 91, NEW i \in CapsOf(CSIFormat(CSIParse(s, 91))),
               k = Key(CapKeyvals[i].keyval, {}, k.len)
        PROVE  ReadsAs(KeyToString(k.keyval, k.state), k)
    <3>1. /\ i \in DOMAIN CapKeyvals /\ CapKeyvals[i].name \in CapKeys
          /\ IsPrefix(Cap[CapKeyvals[i].name], CSIFormat(CSIParse(s, 91)))
      BY <2>2 DEF CapsOf
    <3>2. k.keyval = CapKeyvals[i].keyval /\ k.state = {}
      BY <2>2, KeyFields
    <3>3. k.keyval \in {BackSpace, Home, End} \/ k.keyval \in CapOnly
      <4>1. k.keyval \in {BackSpace, Delete, Home, End} \cup CapOnly
        BY <3>1, <3>2, CapTableKeys
      <4> QED BY <4>1
    <3>4. CASE k.keyval = BackSpace
      <4>1. PICK b : b = 127
        OBVIOUS
      <4>2. b \in Byte /\ b < 128 /\ b % 128 = b /\ ~(b >= 128)
        BY <4>1 DEF Byte
      <4>3. Char7ToKey(b, {}) = Key(BackSpace, {}, 1)
        BY SMT, <4>1 DEF Char7ToKey, ESC
      <4>4. CharToKey(b) = Key(BackSpace, {}, 1)
        BY Zenon, <4>2, <4>3 DEF CharToKey
      <4>5. ReadsAs(KeyToString(CharToKey(b).keyval, CharToKey(b).state), CharToKey(b))
        BY <4>2, ByteReads
      <4>6. CharToKey(b).keyval = k.keyval /\ CharToKey(b).state = k.state
        <5>1. CharToKey(b).keyval = BackSpace /\ CharToKey(b).state = {}
          BY <4>4, KeyFields
        <5> QED BY Zenon, <3>2, <3>4, <5>1
      <4> QED BY Zenon, <4>5, <4>6 DEF ReadsAs
    <3>5. CASE k.keyval \in {Home, End}
      <4>1. k.keyval \in CursorKeys /\ k.state \in CursorStates
        BY <3>2, <3>5 DEF CursorKeys, CursorStates
      <4> QED BY Zenon, <4>1, CursorReads
    <3>6. CASE k.keyval \in CapOnly
      <4>1. PICK c : c = Cap[CapKeyvals[i].name]
        OBVIOUS
      <4>2. KeyToString(k.keyval, k.state) = c
        <5>1. KeyToString(k.keyval, {}) = CapString(k.keyval)
          BY <3>6, CapOnlyString
        <5>2. CapString(CapKeyvals[i].keyval) = Cap[CapKeyvals[i].name]
          BY <3>1, CapStringIs
        <5> QED BY Zenon, <3>2, <4>1, <5>1, <5>2
      <4>3. c \in Seq(Byte) /\ c # <<>> /\ ~BreaksOff(c)
        BY <3>1, <4>1, <4>2, CapAssumption DEF CapsComplete
      <4>4. IsPrefix(c, CSIFormat(CSIParse(s, 91)))
        BY Zenon, <3>1, <4>1
      <4>5. FromSequence(s, 91, k)
        BY Zenon, <1>3, <2>2
      <4>6. NextKeyOf(c) = k /\ k.len = Len(c)
        BY <4>3, <4>4, <4>5, CapAlone
      <4> QED BY Zenon, <4>2, <4>6 DEF ReadsAs
    <3> QED BY <3>3, <3>4, <3>5, <3>6
  <2>3. \/ k.keyval \in CursorKeys /\ k.state \in CursorStates
        \/ /\ d = 91
           /\ \E i \in CapsOf(CSIFormat(CSIParse(s, 91))) :
                k = Key(CapKeyvals[i].keyval, {}, k.len)
    BY <1>3, SequenceKeys
  <2> QED BY <2>1, <2>2, <2>3
<1> QED BY Zenon, <1>2, <1>3, NextOf

(* The bytes a forwarded key is sent as are read as that key again, in     *)
(* every state, for every keyboard and every terminal whose capabilities   *)
(* are sequences to their end.  (Delete and bytes above 127 are excluded   *)
(* by the property, as they are in the runs.)                              *)
LEMMA NextKeyForwards ==
  ASSUME CapsComplete, IInv, TypeOK, NextKey
  PROVE  ForwardFaithful'
<1>1. PICK k, source, e :
        /\ k = NextKeyOf(buf) /\ source = SubSeq(buf, 1, k.len)
        /\ e = [keyval |-> k.keyval, state |-> k.state,
                source |-> source, at |-> Len(taken)]
  OBVIOUS
<1>2. /\ buf \in Seq(Byte) /\ buf # <<>> /\ events \in Seq(Event)
      /\ events' = Append(events, e)
      /\ sent' \in {<<>>, source, KeyToString(k.keyval, k.state)}
  BY <1>1 DEF NextKey, TypeOK
<1>3. /\ e.keyval = k.keyval /\ e.state = k.state /\ e.source = source
  BY <1>1
<1>4. events'[Len(events')] = e
  <2>1. Len(events') = Len(events) + 1 /\ Len(events) \in Nat
    BY <1>2, LenProperties
  <2> QED BY <1>2, <2>1
<1>5. source[1] = buf[1] /\ NextKeyOf(source) = k /\ k.len = Len(source)
  BY <1>1, <1>2, SourceAlone
<1> SUFFICES ASSUME sent' # <<>>, k.keyval # Delete, source[1] < 128
             PROVE  ReadsAs(sent', k)
  BY Zenon, <1>3, <1>4 DEF ForwardFaithful, ReadsAs
<1>6. CASE sent' = source
  BY Zenon, <1>5, <1>6 DEF ReadsAs
<1>7. CASE sent' = KeyToString(k.keyval, k.state)
  <2>1. KeyToString(k.keyval, k.state) # <<>> /\ buf[1] < 128
    BY Zenon, <1>5, <1>7
  <2>2. ReadsAs(KeyToString(k.keyval, k.state), k)
    BY Zenon, <1>1, <1>2, <2>1, ForwardReads
  <2> QED BY Zenon, <1>7, <2>2
<1> QED BY <1>2, <1>6, <1>7

THEOREM ForwardFaithfulHolds ==
  ASSUME CapsComplete
  PROVE  Spec => []ForwardFaithful
<1>1. Init => ForwardFaithful
  BY DEF Init, ForwardFaithful
<1>2. IInv /\ TypeOK /\ ForwardFaithful /\ [Next]_inputVars => ForwardFaithful'
  <2> SUFFICES ASSUME IInv, TypeOK, ForwardFaithful, [Next]_inputVars
               PROVE  ForwardFaithful'
    OBVIOUS
  <2>1. CASE UNCHANGED <<sent, events>>
    BY Zenon, <2>1 DEF ForwardFaithful
  <2>2. ASSUME NEW k \in Strokes, Type(k) PROVE ForwardFaithful'
    BY <2>1, <2>2 DEF Type
  <2>3. ASSUME NEW n \in 1 .. Len(tty), Read(n) PROVE ForwardFaithful'
    BY <2>1, <2>3 DEF Read
  <2>4. CASE NextKey
    BY <2>4, NextKeyForwards
  <2>5. CASE UNCHANGED inputVars
    BY <2>1, <2>5 DEF inputVars
  <2> QED BY <2>2, <2>3, <2>4, <2>5 DEF Next
<1> QED BY <1>1, <1>2, InitIInv, NextIInv, InputTypes, PTL DEF Spec


-----------------------------------------------------------------------------
(* The bytes of so many strokes, and where a stroke begins. *)
Total(token) == FoldLeft(LAMBDA n, k : n + Len(k.bytes), 0, token)

StartOf(q, i) == Total(SubSeq(q, 1, i - 1))

LEMMA StrokeBytes ==
  ASSUME NEW k \in Strokes
  PROVE  k.bytes \in Seq(Byte) /\ Len(k.bytes) \in Nat /\ Len(k.bytes) >= 1
<1>1. k.bytes \in Seq(Byte) /\ k.bytes # <<>>
  BY StrokesAssumption DEF Stroke
<1>2. PICK s : s = k.bytes
  OBVIOUS
<1>3. Len(s) \in Nat /\ Len(s) # 0
  BY <1>1, <1>2, LenProperties, EmptySeq
<1> QED BY <1>1, <1>2, <1>3

LEMMA TotalRuns ==
  ASSUME NEW n \in Nat, NEW token \in [1 .. n -> Strokes]
  PROVE  \E h \in [0 .. n -> Nat] :
           /\ h[0] = 0 /\ h[n] = Total(token)
           /\ \A k \in 1 .. n : h[k] = h[k - 1] + Len(token[k].bytes)
<1> DEFINE it == CHOOSE f : f = [s \in SUBSET (1 .. n) |->
                    IF s = {} THEN 0 ELSE f[s \ {Max(s)}] + Len(token[Max(s)].bytes)]
           step == [k \in 1 .. n |-> [z \in Nat |-> z + Len(token[k].bytes)]]
<1>0. \A k \in 1 .. n : Len(token[k].bytes) \in Nat
  BY StrokeBytes
<1>1. Total(token) = it[1 .. n]
  <2>1. DOMAIN token = 1 .. n
    OBVIOUS
  <2> QED BY Zenon, <2>1 DEF Total, FoldLeft, MapThenFoldSet
<1>2. step \in [1 .. n -> [Nat -> Nat]]
  <2>1. \A k \in 1 .. n, z \in Nat : z + Len(token[k].bytes) \in Nat
    BY <1>0
  <2> QED BY Zenon, <2>1
<1>3. PICK f : Folds(Nat, 0, step, n, f)
  <2>1. 0 \in Nat
    OBVIOUS
  <2> HIDE DEF step
  <2> QED BY <1>2, <2>1, FoldsExist
<1>4. f = [s \in SUBSET (1 .. n) |->
             IF s = {} THEN 0 ELSE f[s \ {Max(s)}] + Len(token[Max(s)].bytes)]
  <2>1. f = [s \in SUBSET (1 .. n) |-> f[s]]
    BY Zenon, <1>3 DEF Folds
  <2>2. \A s \in SUBSET (1 .. n) :
          f[s] = IF s = {} THEN 0 ELSE f[s \ {Max(s)}] + Len(token[Max(s)].bytes)
    <3> SUFFICES ASSUME NEW s \in SUBSET (1 .. n), s # {}
                 PROVE  f[s] = f[s \ {Max(s)}] + Len(token[Max(s)].bytes)
      BY Zenon, <1>3 DEF Folds
    <3>1. Max(s) \in 1 .. n
      BY MaxIn
    <3>2. f[s \ {Max(s)}] \in Nat
      BY Zenon, <1>3 DEF Folds
    <3>3. f[s] = step[Max(s)][f[s \ {Max(s)}]]
      BY Zenon, <1>3 DEF Folds
    <3> QED BY Zenon, <3>1, <3>2, <3>3
  <2> QED BY Zenon, <2>1, <2>2
<1>5. it = [s \in SUBSET (1 .. n) |->
              IF s = {} THEN 0 ELSE it[s \ {Max(s)}] + Len(token[Max(s)].bytes)]
  BY Zenon, <1>4
<1> HIDE DEF it, step
<1>6. PICK h : h = [k \in 0 .. n |-> it[1 .. k]]
  OBVIOUS
<1>7. h[0] = 0
  <2>1. 1 .. 0 = {} /\ 0 \in 0 .. n /\ {} \in SUBSET (1 .. n)
    BY SMT
  <2> QED BY Zenon, <1>5, <1>6, <2>1
<1>8. \A k \in 1 .. n : h[k] = h[k - 1] + Len(token[k].bytes)
  <2> SUFFICES ASSUME NEW k \in 1 .. n PROVE h[k] = h[k - 1] + Len(token[k].bytes)
    OBVIOUS
  <2>1. /\ k - 1 \in 0 .. n /\ k \in 0 .. n
        /\ 1 .. k \in SUBSET (1 .. n) /\ 1 .. k # {}
        /\ Max(1 .. k) = k /\ (1 .. k) \ {Max(1 .. k)} = 1 .. (k - 1)
    BY Chain
  <2>2. it[1 .. k] = it[(1 .. k) \ {Max(1 .. k)}] + Len(token[Max(1 .. k)].bytes)
    BY Zenon, <1>5, <2>1
  <2>3. it[1 .. k] = it[1 .. (k - 1)] + Len(token[k].bytes)
    BY Zenon, <2>1, <2>2
  <2> QED BY Zenon, <1>6, <2>1, <2>3
<1>9. h \in [0 .. n -> Nat]
  <2>1. \A k \in 0 .. n : k \in {j \in 0 .. n : h[j] \in Nat}
    <3>1. 0 \in {j \in 0 .. n : h[j] \in Nat}
      BY <1>7
    <3>2. ASSUME NEW k \in 1 .. n, k - 1 \in {j \in 0 .. n : h[j] \in Nat}
          PROVE  k \in {j \in 0 .. n : h[j] \in Nat}
      <4>1. h[k] = h[k - 1] + Len(token[k].bytes) /\ h[k - 1] \in Nat
        BY <1>8, <3>2
      <4>2. h[k] \in Nat
        BY <1>0, <4>1
      <4> QED BY <4>2
    <3> QED BY <3>1, <3>2, Along
  <2> QED BY <1>6, <2>1
<1>10. h[n] = Total(token)
  <2>1. n \in 0 .. n
    OBVIOUS
  <2> QED BY <1>1, <1>6, <2>1
<1> QED BY <1>7, <1>8, <1>9, <1>10

(* The next stroke begins behind the bytes of this one. *)
LEMMA StartSteps ==
  ASSUME NEW q \in Seq(Strokes), NEW i \in 1 .. Len(q)
  PROVE  StartOf(q, i) \in Nat /\ StartOf(q, i + 1) = StartOf(q, i) + Len(q[i].bytes)
<1>1. Len(q) \in Nat /\ i \in Nat /\ i - 1 \in Nat /\ i \in 0 .. Len(q) /\ i - 1 \in 0 .. Len(q)
  BY LenProperties
<1>2. PICK t, u : t = SubSeq(q, 1, i) /\ u = SubSeq(q, 1, i - 1)
  OBVIOUS
<1>3. IsFront(Strokes, t, q, i) /\ IsFront(Strokes, u, q, i - 1)
  BY Zenon, <1>1, <1>2, FrontOf
<1>4. /\ t \in [1 .. i -> Strokes] /\ \A j \in 1 .. i : t[j] = q[j]
  BY <1>3, LenProperties DEF IsFront
<1>5. /\ u \in [1 .. i - 1 -> Strokes] /\ \A j \in 1 .. i - 1 : u[j] = q[j]
  BY <1>3, LenProperties DEF IsFront
<1>6. PICK h \in [0 .. i -> Nat] :
        /\ h[0] = 0 /\ h[i] = Total(t)
        /\ \A k \in 1 .. i : h[k] = h[k - 1] + Len(t[k].bytes)
  BY <1>1, <1>4, TotalRuns
<1>7. PICK g \in [0 .. i - 1 -> Nat] :
        /\ g[0] = 0 /\ g[i - 1] = Total(u)
        /\ \A k \in 1 .. i - 1 : g[k] = g[k - 1] + Len(u[k].bytes)
  BY <1>1, <1>5, TotalRuns
<1>8. \A k \in 0 .. i - 1 : k \in {j \in 0 .. i - 1 : h[j] = g[j]}
  <2>1. 0 \in {j \in 0 .. i - 1 : h[j] = g[j]}
    BY <1>1, <1>6, <1>7
  <2>2. ASSUME NEW k \in 1 .. i - 1, k - 1 \in {j \in 0 .. i - 1 : h[j] = g[j]}
        PROVE  k \in {j \in 0 .. i - 1 : h[j] = g[j]}
    <3>1. k \in 1 .. i /\ k \in 0 .. i - 1
      BY <1>1
    <3>2. h[k] = h[k - 1] + Len(t[k].bytes) /\ g[k] = g[k - 1] + Len(u[k].bytes)
      BY Zenon, <1>6, <1>7, <3>1
    <3>3. t[k] = u[k] /\ h[k - 1] = g[k - 1]
      BY Zenon, <1>4, <1>5, <2>2, <3>1
    <3>4. h[k] = g[k]
      BY Zenon, <3>2, <3>3
    <3> QED BY <3>1, <3>4
  <2> QED BY Zenon, <1>1, <2>1, <2>2, Along
<1>9. h[i - 1] = g[i - 1] /\ i \in 1 .. i /\ i - 1 \in 0 .. i - 1
  <2>1. i - 1 \in 0 .. i - 1 /\ i \in 1 .. i
    BY <1>1
  <2> QED BY Zenon, <1>8, <2>1
<1>10. StartOf(q, i) = g[i - 1] /\ g[i - 1] \in Nat
  BY Zenon, <1>2, <1>7, <1>9 DEF StartOf
<1>11. StartOf(q, i + 1) = h[i]
  <2>1. (i + 1) - 1 = i
    BY <1>1
  <2> QED BY Zenon, <1>2, <1>6, <2>1 DEF StartOf
<1>12. h[i] = h[i - 1] + Len(q[i].bytes)
  <2>1. h[i] = h[i - 1] + Len(t[i].bytes) /\ t[i] = q[i]
    BY Zenon, <1>4, <1>6, <1>9
  <2> QED BY Zenon, <2>1
<1> QED BY Zenon, <1>9, <1>10, <1>11, <1>12

LEMMA StartFirst ==
  ASSUME NEW q
  PROVE  StartOf(q, 1) = 0
<1>1. SubSeq(q, 1, 1 - 1) = <<>>
  BY SubSeqEmpty
<1>2. <<>> \in [1 .. 0 -> Strokes] /\ 0 \in Nat
  BY SMT
<1>3. PICK h \in [0 .. 0 -> Nat] : h[0] = 0 /\ h[0] = Total(<<>>)
  BY Zenon, <1>2, TotalRuns
<1> QED BY Zenon, <1>1, <1>3 DEF StartOf

(* What a stroke begins with does not depend on those after it. *)
LEMMA StartAppend ==
  ASSUME NEW q \in Seq(Strokes), NEW k \in Strokes, NEW i \in 1 .. Len(q) + 1
  PROVE  StartOf(Append(q, k), i) = StartOf(q, i)
<1>1. Len(q) \in Nat
  BY LenProperties
<1>2. PICK r : r = Append(q, k)
  OBVIOUS
<1>3. r \in Seq(Strokes) /\ Len(r) = Len(q) + 1 /\ \A j \in 1 .. Len(q) : r[j] = q[j]
  BY <1>2, AppendProperties
<1>4. i - 1 \in 0 .. Len(q) /\ i - 1 \in 0 .. Len(r)
  BY <1>1, <1>3
<1>5. PICK t, u : t = SubSeq(r, 1, i - 1) /\ u = SubSeq(q, 1, i - 1)
  OBVIOUS
<1>6. IsFront(Strokes, t, r, i - 1) /\ IsFront(Strokes, u, q, i - 1)
  BY Zenon, <1>3, <1>4, <1>5, FrontOf
<1>7. /\ t \in Seq(Strokes) /\ u \in Seq(Strokes) /\ Len(t) = i - 1 /\ Len(u) = i - 1
      /\ \A j \in 1 .. i - 1 : t[j] = r[j] /\ u[j] = q[j]
  BY <1>6 DEF IsFront
<1>8. \A j \in 1 .. i - 1 : j \in 1 .. Len(q)
  BY <1>1, <1>4
<1>9. \A j \in 1 .. i - 1 : t[j] = u[j]
  BY Zenon, <1>3, <1>7, <1>8
<1>10. t = u
  BY <1>7, <1>9, SeqEqual
<1> QED BY Zenon, <1>2, <1>5, <1>10 DEF StartOf


LEMMA StartNat ==
  ASSUME NEW q \in Seq(Strokes), NEW i \in 1 .. Len(q) + 1
  PROVE  StartOf(q, i) \in Nat
<1>1. Len(q) \in Nat
  BY LenProperties
<1>2. CASE i \in 1 .. Len(q)
  BY <1>2, StartSteps
<1>3. CASE i = 1
  BY <1>3, StartFirst
<1>4. CASE i # 1 /\ i \notin 1 .. Len(q)
  <2>1. i - 1 \in 1 .. Len(q) /\ (i - 1) + 1 = i
    BY <1>1, <1>4
  <2>2. StartOf(q, i - 1) \in Nat /\ StartOf(q, i) = StartOf(q, i - 1) + Len(q[i - 1].bytes)
    <3>1. /\ StartOf(q, i - 1) \in Nat
          /\ StartOf(q, (i - 1) + 1) = StartOf(q, i - 1) + Len(q[i - 1].bytes)
      BY <2>1, StartSteps
    <3> QED BY Zenon, <2>1, <3>1
  <2>3. Len(q[i - 1].bytes) \in Nat
    BY <2>1, ElementOfSeq, StrokeBytes
  <2> QED BY <2>2, <2>3
<1> QED BY <1>2, <1>3, <1>4

LEMMA StartOrder ==
  ASSUME NEW q \in Seq(Strokes), NEW i \in 1 .. Len(q), NEW j \in 1 .. Len(q) + 1, i < j
  PROVE  StartOf(q, i) + Len(q[i].bytes) <= StartOf(q, j)
<1>1. Len(q) \in Nat
  BY LenProperties
<1>2. \A k \in 1 .. Len(q) : StartOf(q, k) \in Nat /\ Len(q[k].bytes) \in Nat
  BY StartSteps, ElementOfSeq, StrokeBytes
<1>3. \A k \in 1 .. Len(q) : StartOf(q, k + 1) = StartOf(q, k) + Len(q[k].bytes)
  BY StartSteps
<1>4. PICK b : b = StartOf(q, i + 1)
  OBVIOUS
<1>5. b \in Nat /\ b = StartOf(q, i) + Len(q[i].bytes)
  BY <1>2, <1>3, <1>4
<1> DEFINE A == {k \in 0 .. Len(q) : i <= k => b <= StartOf(q, k + 1)}
<1>6. 0 \in A
  BY <1>1
<1>7. ASSUME NEW k \in 1 .. Len(q), k - 1 \in A PROVE k \in A
  <2>1. k \in 0 .. Len(q)
    OBVIOUS
  <2> SUFFICES ASSUME i <= k PROVE b <= StartOf(q, k + 1)
    BY <2>1
  <2>2. CASE i = k
    BY <1>4, <1>5, <2>2
  <2>3. CASE i # k
    <3>1. i <= k - 1 /\ (k - 1) + 1 = k
      BY <2>3
    <3>2. b <= StartOf(q, (k - 1) + 1)
      BY <1>7, <3>1
    <3>3. b <= StartOf(q, k)
      BY Zenon, <3>1, <3>2
    <3>4. StartOf(q, k + 1) = StartOf(q, k) + Len(q[k].bytes)
      BY <1>3
    <3>5. StartOf(q, k) \in Nat /\ Len(q[k].bytes) \in Nat
      BY <1>2
    <3> QED BY <1>5, <3>3, <3>4, <3>5
  <2> QED BY <2>2, <2>3
<1> HIDE DEF A
<1>8. \A k \in 0 .. Len(q) : k \in A
  BY <1>1, <1>6, <1>7, Along
<1>9. j - 1 \in 0 .. Len(q) /\ i <= j - 1 /\ (j - 1) + 1 = j
  BY <1>1
<1>10. b <= StartOf(q, (j - 1) + 1)
  BY <1>8, <1>9 DEF A
<1>11. b <= StartOf(q, j)
  BY Zenon, <1>9, <1>10
<1> QED BY Zenon, <1>5, <1>11

(* The stroke that p bytes end before or in. *)
LEMMA StrokeAt ==
  ASSUME NEW q \in Seq(Strokes), NEW i \in 1 .. Len(q), NEW p \in Nat, p < StartOf(q, i)
  PROVE  \E j \in 1 .. Len(q) : /\ j < i
                                /\ StartOf(q, j) <= p /\ p < StartOf(q, j + 1)
<1>1. Len(q) \in Nat
  BY LenProperties
<1> DEFINE T == {k \in 1 .. Len(q) : p < StartOf(q, k)}
<1>2. PICK l \in T : \A k \in T : l <= k
  <2>1. T \in SUBSET Nat /\ i \in T
    OBVIOUS
  <2> QED BY <2>1, LeastOf
<1>3. l # 1
  BY <1>2, StartFirst
<1>4. PICK j : j = l - 1
  OBVIOUS
<1>5. j \in 1 .. Len(q) /\ j < l /\ j + 1 = l /\ l <= i /\ j < i
  BY <1>1, <1>2, <1>3, <1>4
<1>6. ~(p < StartOf(q, j))
  BY <1>2, <1>5
<1>7. StartOf(q, j) \in Nat
  BY <1>5, StartSteps
<1>8. StartOf(q, j) <= p
  BY <1>6, <1>7
<1>9. p < StartOf(q, j + 1)
  <2>1. p < StartOf(q, l)
    BY <1>2
  <2> QED BY Zenon, <1>5, <2>1
<1> QED BY <1>5, <1>8, <1>9

(* The bytes of the strokes q, one stroke behind the other, are s. *)
Laid(q, s) ==
  /\ StartOf(q, Len(q) + 1) = Len(s)
  /\ \A i \in 1 .. Len(q) : \A m \in 1 .. Len(q[i].bytes) :
       s[StartOf(q, i) + m] = q[i].bytes[m]

LEMMA LaidAppend ==
  ASSUME NEW q \in Seq(Strokes), NEW s \in Seq(Byte), Laid(q, s), NEW k \in Strokes
  PROVE  Laid(Append(q, k), s \o k.bytes)
<1>1. PICK r, t : r = Append(q, k) /\ t = s \o k.bytes
  OBVIOUS
<1>2. PICK n, l : n = Len(q) /\ l = Len(s)
  OBVIOUS
<1>3. n \in Nat /\ l \in Nat /\ Len(k.bytes) \in Nat /\ k.bytes \in Seq(Byte)
  BY <1>2, LenProperties, StrokeBytes
<1>4. /\ r \in Seq(Strokes) /\ Len(r) = n + 1
      /\ \A j \in 1 .. n : r[j] = q[j]
  BY <1>1, <1>2, AppendProperties
<1>5. r[n + 1] = k
  BY <1>1, <1>2, AppendProperties
<1>6. Len(t) = l + Len(k.bytes)
  BY <1>1, <1>2, <1>3, ConcatProperties
<1>7. \A i \in 1 .. l + Len(k.bytes) :
        t[i] = IF i <= l THEN s[i] ELSE k.bytes[i - l]
  <2>1. \A i \in 1 .. Len(s) + Len(k.bytes) :
          (s \o k.bytes)[i] = IF i <= Len(s) THEN s[i] ELSE k.bytes[i - Len(s)]
    BY <1>3, ConcatProperties
  <2> QED BY Zenon, <1>1, <1>2, <2>1
<1>8. \A i \in 1 .. n + 1 : StartOf(r, i) = StartOf(q, i)
  BY <1>1, <1>2, StartAppend
<1>9. StartOf(q, n + 1) = l
  BY Zenon, <1>2 DEF Laid
<1>10. n + 1 \in 1 .. n + 1 /\ n + 1 \in 1 .. Len(r)
  BY <1>3, <1>4
<1>11. StartOf(r, n + 1) = l
  BY Zenon, <1>8, <1>9, <1>10
<1>12. StartOf(r, Len(r) + 1) = Len(t)
  <2>1. StartOf(r, (n + 1) + 1) = StartOf(r, n + 1) + Len(r[n + 1].bytes)
    BY <1>4, <1>10, StartSteps
  <2> QED BY Zenon, <1>4, <1>5, <1>6, <1>11, <2>1
<1>13. ASSUME NEW i \in 1 .. Len(r), NEW m \in 1 .. Len(r[i].bytes)
       PROVE  t[StartOf(r, i) + m] = r[i].bytes[m]
  <2>1. CASE i = n + 1
    <3>1. StartOf(r, i) = l /\ r[i] = k
      BY Zenon, <1>5, <1>11, <2>1
    <3>2. /\ l + m \in 1 .. l + Len(k.bytes) /\ ~(l + m <= l) /\ (l + m) - l = m
      BY <1>3, <3>1
    <3> QED BY Zenon, <1>7, <3>1, <3>2
  <2>2. CASE i # n + 1
    <3>1. i \in 1 .. n /\ i \in 1 .. n + 1
      BY <1>3, <1>4, <2>2
    <3>2. StartOf(r, i) = StartOf(q, i) /\ r[i] = q[i]
      BY Zenon, <1>4, <1>8, <3>1
    <3>3. i \in 1 .. Len(q) /\ Len(q) + 1 \in 1 .. Len(q) + 1 /\ i < Len(q) + 1
      BY <1>2, <1>3, <3>1
    <3>4. StartOf(q, i) + Len(q[i].bytes) <= StartOf(q, Len(q) + 1)
      BY <3>3, StartOrder
    <3>5. StartOf(q, i) \in Nat /\ Len(q[i].bytes) \in Nat
      BY <3>3, StartSteps, ElementOfSeq, StrokeBytes
    <3>6. PICK b, w : b = StartOf(q, i) /\ w = Len(q[i].bytes)
      OBVIOUS
    <3>7. b \in Nat /\ w \in Nat /\ b + w <= l /\ m \in 1 .. w
      BY Zenon, <1>2, <1>9, <3>2, <3>4, <3>5, <3>6
    <3>8. b + m \in 1 .. l + Len(k.bytes) /\ b + m <= l
      BY <1>3, <3>7
    <3>9. t[b + m] = s[b + m]
      BY Zenon, <1>7, <3>8
    <3>10. s[b + m] = q[i].bytes[m]
      BY Zenon, <3>3, <3>6, <3>7 DEF Laid
    <3> QED BY Zenon, <3>2, <3>6, <3>9, <3>10
  <2> QED BY <2>1, <2>2
<1> QED BY Zenon, <1>1, <1>12, <1>13 DEF Laid


(* The bytes of the read that is being cut are the next of those typed. *)
LEMMA BufTyped ==
  ASSUME IInv
  PROVE  /\ Len(taken) \in Nat /\ Len(buf) \in Nat
         /\ Len(taken) + Len(buf) <= Len(typed)
         /\ \A x \in 1 .. Len(buf) : typed[Len(taken) + x] = buf[x]
<1>1. taken \in Seq(Byte) /\ buf \in Seq(Byte) /\ tty \in Seq(Byte)
  BY DEF IInv
<1>2. PICK l, b, c : l = Len(taken) /\ b = Len(buf) /\ c = Len(tty)
  OBVIOUS
<1>3. l \in Nat /\ b \in Nat /\ c \in Nat
  BY <1>1, <1>2, LenProperties
<1>4. PICK front : front = taken \o buf
  OBVIOUS
<1>5. front \in Seq(Byte) /\ Len(front) = l + b
  BY <1>1, <1>2, <1>4, ConcatProperties
<1>6. \A i \in 1 .. l + b : front[i] = IF i <= l THEN taken[i] ELSE buf[i - l]
  <2>1. \A i \in 1 .. Len(taken) + Len(buf) :
          (taken \o buf)[i] = IF i <= Len(taken) THEN taken[i] ELSE buf[i - Len(taken)]
    BY <1>1, ConcatProperties
  <2> QED BY Zenon, <1>2, <1>4, <2>1
<1>7. typed = front \o tty
  BY Zenon, <1>4 DEF IInv, SourcesKept
<1>8. Len(typed) = (l + b) + c
  <2>1. Len(front \o tty) = Len(front) + Len(tty)
    BY <1>1, <1>5, ConcatProperties
  <2> QED BY Zenon, <1>2, <1>5, <1>7, <2>1
<1>9. \A i \in 1 .. (l + b) + c : typed[i] = IF i <= l + b THEN front[i] ELSE tty[i - (l + b)]
  <2>1. \A i \in 1 .. Len(front) + Len(tty) :
          (front \o tty)[i] = IF i <= Len(front) THEN front[i] ELSE tty[i - Len(front)]
    BY <1>1, <1>5, ConcatProperties
  <2> QED BY Zenon, <1>2, <1>5, <1>7, <2>1
<1>10. \A x \in 1 .. b : typed[l + x] = buf[x]
  <2> SUFFICES ASSUME NEW x \in 1 .. b PROVE typed[l + x] = buf[x]
    OBVIOUS
  <2>1. /\ l + x \in 1 .. (l + b) + c /\ l + x <= l + b /\ l + x \in 1 .. l + b
        /\ ~(l + x <= l) /\ (l + x) - l = x
    BY <1>3
  <2> QED BY Zenon, <1>6, <1>9, <2>1
<1>11. l + b <= Len(typed)
  BY <1>3, <1>8
<1> QED BY Zenon, <1>2, <1>3, <1>10, <1>11

LEMMA StartIs == \A i : Start(i) = StartOf(strokes, i)
BY Zenon DEF Start, StartOf, Total

LEMMA StartIsNext == \A i : Start(i)' = StartOf(strokes', i)
<1>1. (\A i : Start(i) = StartOf(strokes, i))'
  BY StartIs, PTL
<1> QED BY <1>1

(* The reads that are cut to their end, and the one that is not. *)
CutsInv ==
  /\ \A c \in cuts : c <= Len(taken) \/ c = Len(taken) + Len(buf)
  /\ buf # <<>> => Len(taken) + Len(buf) \in cuts

InputInv == IInv /\ TypeOK /\ Laid(strokes, typed) /\ CutsInv

(* A byte of buf that is byte m of stroke j. *)
LEMMA StrokeByte ==
  ASSUME InputInv, NEW j \in 1 .. Len(strokes), NEW m \in 1 .. Len(strokes[j].bytes),
         NEW x \in 1 .. Len(buf), StartOf(strokes, j) + m = Len(taken) + x
  PROVE  buf[x] = strokes[j].bytes[m]
<1>1. typed[Len(taken) + x] = buf[x]
  BY BufTyped DEF InputInv
<1>2. typed[StartOf(strokes, j) + m] = strokes[j].bytes[m]
  BY DEF InputInv, Laid
<1> QED BY Zenon, <1>1, <1>2

(* No read ends within buf. *)
LEMMA NoCutWithin ==
  ASSUME InputInv, NEW n \in Nat, NEW m \in Nat, Len(taken) < n, m < Len(taken) + Len(buf)
  PROVE  ~\E c \in cuts : c \in n .. m
<1>1. Len(taken) \in Nat /\ Len(buf) \in Nat
  BY BufTyped DEF InputInv
<1> SUFFICES ASSUME NEW c \in cuts, c \in n .. m PROVE FALSE
  OBVIOUS
<1>2. c <= Len(taken) \/ c = Len(taken) + Len(buf)
  BY DEF InputInv, CutsInv
<1>3. n <= c /\ c <= m /\ c \in Int
  OBVIOUS
<1> QED BY <1>1, <1>2, <1>3

(* Stroke j is Escape, at the beginning of buf, and the next byte in buf   *)
(* is an introducer: so it is the first of the next stroke.                *)
LEMMA IntroducedHere ==
  ASSUME InputInv, NEW j \in 1 .. Len(strokes), strokes[j].bytes = <<ESC>>,
         StartOf(strokes, j) = Len(taken), Len(buf) >= 3, buf[2] \in Introducer
  PROVE  Introduced(j)
<1>1. Len(taken) \in Nat /\ Len(buf) \in Nat /\ Len(taken) + Len(buf) <= Len(typed)
  BY BufTyped DEF InputInv
<1>2. strokes \in Seq(Strokes) /\ Laid(strokes, typed) /\ Len(strokes) \in Nat
  BY LenProperties DEF InputInv, TypeOK
<1>3. StartOf(strokes, j + 1) = Len(taken) + 1
  <2>1. StartOf(strokes, j + 1) = StartOf(strokes, j) + Len(strokes[j].bytes)
    BY <1>2, StartSteps
  <2>2. Len(<<ESC>>) = 1
    OBVIOUS
  <2> QED BY Zenon, <2>1, <2>2
<1>4. j + 1 \in 1 .. Len(strokes)
  <2> SUFFICES ASSUME j = Len(strokes) PROVE FALSE
    BY <1>2
  <2>1. StartOf(strokes, Len(strokes) + 1) = Len(typed)
    BY <1>2 DEF Laid
  <2>2. Len(typed) = Len(taken) + 1
    BY Zenon, <1>3, <2>1
  <2> QED BY <1>1, <2>2
<1>5. strokes[j + 1].bytes[1] = buf[2]
  <2>1. Len(strokes[j + 1].bytes) \in Nat /\ Len(strokes[j + 1].bytes) >= 1
    BY <1>2, <1>4, ElementOfSeq, StrokeBytes
  <2>2. 1 \in 1 .. Len(strokes[j + 1].bytes) /\ 2 \in 1 .. Len(buf)
    BY <1>1, <2>1
  <2>3. StartOf(strokes, j + 1) + 1 = Len(taken) + 2
    BY <1>1, <1>3
  <2> QED BY <1>4, <2>2, <2>3, StrokeByte
<1>6. SameRead(j, j + 1)
  <2>1. Len(taken) + 1 \in Nat /\ Len(taken) < Len(taken) + 1
        /\ Len(taken) + 1 < Len(taken) + Len(buf)
    BY <1>1
  <2>2. ~\E c \in cuts : c \in Len(taken) + 1 .. Len(taken) + 1
    BY <2>1, NoCutWithin
  <2> QED BY Zenon, <1>3, <2>2, StartIs DEF SameRead
<1>7. DOMAIN strokes = 1 .. Len(strokes)
  BY <1>2, LenProperties
<1> QED BY Zenon, <1>4, <1>5, <1>6, <1>7 DEF Introduced, Introducer


(* A key that is typed where the key read begins is the key read.          *)
LEMMA KeyAtStroke ==
  ASSUME KeysKnown, InputInv, buf # <<>>, NEW i \in 1 .. Len(strokes),
         strokes[i].keyval # 0, StartOf(strokes, i) = Len(taken),
         ~Cut(i), ~Blurred(i)
  PROVE  /\ NextKeyOf(buf) = Key(strokes[i].keyval, strokes[i].state, Len(strokes[i].bytes))
         /\ SubSeq(buf, 1, Len(strokes[i].bytes)) = strokes[i].bytes
<1>1. Len(taken) \in Nat /\ Len(buf) \in Nat /\ buf \in Seq(Byte) /\ Len(buf) # 0
  BY BufTyped, EmptySeq DEF InputInv, IInv
<1>2. PICK k, bytes, w : k = strokes[i] /\ bytes = k.bytes /\ w = Len(bytes)
  OBVIOUS
<1>3. k \in Strokes /\ bytes \in Seq(Byte) /\ w \in Nat /\ w >= 1 /\ bytes # <<>>
  <2>1. k \in Strokes
    BY <1>2, ElementOfSeq DEF InputInv, TypeOK
  <2>2. bytes \in Seq(Byte) /\ w \in Nat /\ w >= 1
    BY <1>2, <2>1, StrokeBytes
  <2>3. Len(<<>>) = 0
    OBVIOUS
  <2> QED BY <1>2, <2>1, <2>2, <2>3
<1>4. w <= Len(buf)
  <2>1. Len(taken) + Len(buf) \in cuts
    BY DEF InputInv, CutsInv
  <2>2. Len(taken) + Len(buf) \notin Len(taken) + 1 .. Len(taken) + w - 1
    BY Zenon, <1>2, <2>1, StartIs DEF Cut
  <2> QED BY <1>1, <1>3, <2>2
<1>5. \A m \in 1 .. w : buf[m] = bytes[m]
  <2> SUFFICES ASSUME NEW m \in 1 .. w PROVE buf[m] = bytes[m]
    OBVIOUS
  <2>1. m \in 1 .. Len(buf) /\ m \in 1 .. Len(strokes[i].bytes)
    BY <1>1, <1>2, <1>3, <1>4
  <2>2. StartOf(strokes, i) + m = Len(taken) + m
    OBVIOUS
  <2> QED BY Zenon, <1>2, <2>1, <2>2, StrokeByte
<1>6. SubSeq(buf, 1, w) = bytes
  <2>1. w \in 0 .. Len(buf)
    BY <1>1, <1>3, <1>4
  <2>2. PICK t : t = SubSeq(buf, 1, w)
    OBVIOUS
  <2>3. IsFront(Byte, t, buf, w)
    BY <1>1, <2>1, <2>2, FrontOf
  <2>4. t \in Seq(Byte) /\ Len(t) = w /\ \A m \in 1 .. w : t[m] = buf[m]
    BY <2>3 DEF IsFront
  <2>5. \A m \in 1 .. w : t[m] = bytes[m]
    BY Zenon, <1>5, <2>4
  <2>6. t = bytes
    BY <1>2, <1>3, <2>4, <2>5, SeqEqual
  <2> QED BY <2>2, <2>6
<1>7. NextKeyOf(bytes) = Key(k.keyval, k.state, w)
  BY Zenon, <1>2, <1>3 DEF KeysKnown
<1>8. NextKeyOf(buf) = NextKeyOf(bytes)
  <2>1. PICK key : key = NextKeyOf(bytes)
    OBVIOUS
  <2>2. key.len = w
    <3>1. Key(k.keyval, k.state, w).len = w
      BY KeyFields
    <3> QED BY Zenon, <1>7, <2>1, <3>1
  <2>3. ASSUME NEW d, FromSequence(bytes, d, key) PROVE NextKeyOf(buf) = key
    <3>1. Len(buf) >= key.len
      BY <1>1, <1>3, <1>4, <2>2
    <3>2. \A m \in 1 .. key.len : buf[m] = bytes[m]
      BY Zenon, <1>5, <2>2
    <3> QED BY <1>1, <1>3, <2>3, <3>1, <3>2, SameSequence
  <2>4. CASE key = CharToKey(bytes[1]) /\ key.len = 1
    <3>1. w = 1 /\ buf[1] = bytes[1]
      <4>1. w = 1 /\ 1 \in 1 .. w
        BY <2>2, <2>4
      <4> QED BY <1>5, <4>1
    <3>2. CASE NextKeyOf(buf) = CharToKey(buf[1])
      BY Zenon, <2>1, <2>4, <3>1, <3>2
    <3>3. ASSUME NEW d, FromSequence(buf, d, NextKeyOf(buf)) PROVE FALSE
      <4>1. d \in Introducer /\ CSIParse(buf, d) # NoCSI
        BY <3>3 DEF FromSequence
      <4>2. Len(buf) >= 3 /\ buf[1] = ESC /\ buf[2] = d
        BY <1>1, <4>1, OneIntroducer
      <4>3. bytes = <<ESC>>
        <5>1. Len(bytes) = 1 /\ bytes[1] = ESC
          BY <1>2, <3>1, <4>2
        <5> QED BY <1>3, <5>1
      <4>4. Introduced(i)
        BY Zenon, <1>2, <4>1, <4>2, <4>3, IntroducedHere
      <4>5. SameRead(i, i)
        <5>1. Start(i) \in Nat
          BY Zenon, <1>1, StartIs
        <5>2. Start(i) + 1 .. Start(i) = {}
          BY <5>1
        <5> QED BY Zenon, <5>2 DEF SameRead
      <4>6. i \in 1 .. i
        OBVIOUS
      <4> QED BY Zenon, <4>4, <4>5, <4>6 DEF Blurred
    <3>4. \/ \E d : FromSequence(buf, d, NextKeyOf(buf))
          \/ NextKeyOf(buf) = CharToKey(buf[1])
      BY <1>1, NextOf
    <3> QED BY Zenon, <2>1, <3>2, <3>3, <3>4
  <2>5. \/ \E d : FromSequence(bytes, d, key)
        \/ key = CharToKey(bytes[1]) /\ key.len = 1
    BY <1>3, <2>1, NextOf
  <2> QED BY Zenon, <2>1, <2>3, <2>4, <2>5
<1> QED BY Zenon, <1>2, <1>6, <1>7, <1>8

(* A key that is read across the beginning of a stroke begins with an      *)
(* Escape typed as a key of its own, and goes on in the same read with an  *)
(* introducer.                                                             *)
LEMMA KeyAcross ==
  ASSUME KeysComplete, InputInv, buf # <<>>, NEW i \in 1 .. Len(strokes),
         Len(taken) < StartOf(strokes, i),
         StartOf(strokes, i) < Len(taken) + NextKeyOf(buf).len
  PROVE  Blurred(i)
<1>1. Len(taken) \in Nat /\ Len(buf) \in Nat /\ buf \in Seq(Byte) /\ Len(buf) # 0
  BY BufTyped, EmptySeq DEF InputInv, IInv
<1>2. strokes \in Seq(Strokes)
  BY DEF InputInv, TypeOK
<1>3. PICK p, a, key : p = Len(taken) /\ a = StartOf(strokes, i) /\ key = NextKeyOf(buf)
  OBVIOUS
<1>4. p \in Nat /\ a \in Nat /\ p < a /\ a < p + key.len
  BY <1>1, <1>2, <1>3, StartSteps
<1>5. PICK d : FromSequence(buf, d, key)
  <2>1. key.len # 1
    BY <1>4
  <2> QED BY <1>1, <1>3, <2>1, NextOf
<1>6. /\ d \in Introducer /\ CSIParse(buf, d) # NoCSI
      /\ key.len = CSIParse(buf, d).len /\ key.len \in 3 .. Len(buf)
  BY <1>5 DEF FromSequence
<1>7. buf[1] = ESC /\ buf[2] = d
  BY <1>1, <1>6, OneIntroducer
<1>8. PICK j \in 1 .. Len(strokes) :
        j < i /\ StartOf(strokes, j) <= p /\ p < StartOf(strokes, j + 1)
  BY <1>2, <1>3, <1>4, StrokeAt
<1>9. PICK bytes, w, b : bytes = strokes[j].bytes /\ w = Len(bytes) /\ b = StartOf(strokes, j)
  OBVIOUS
<1>10. /\ strokes[j] \in Strokes /\ bytes \in Seq(Byte) /\ w \in Nat /\ w >= 1
       /\ b \in Nat /\ StartOf(strokes, j + 1) = b + w
  <2>1. strokes[j] \in Strokes
    BY <1>2, ElementOfSeq
  <2>2. strokes[j].bytes \in Seq(Byte) /\ Len(strokes[j].bytes) \in Nat
        /\ Len(strokes[j].bytes) >= 1
    BY <2>1, StrokeBytes
  <2>3. /\ StartOf(strokes, j) \in Nat
        /\ StartOf(strokes, j + 1) = StartOf(strokes, j) + Len(strokes[j].bytes)
    BY <1>2, StartSteps
  <2> QED BY Zenon, <1>9, <2>1, <2>2, <2>3
<1>11. b <= p /\ p < b + w /\ b + w <= a
  <2>1. i \in 1 .. Len(strokes) + 1
    BY <1>2, LenProperties
  <2>2. StartOf(strokes, j) + Len(strokes[j].bytes) <= StartOf(strokes, i)
    BY <1>2, <1>8, <2>1, StartOrder
  <2> QED BY Zenon, <1>3, <1>8, <1>9, <1>10, <2>2
<1>12. PICK m, n, c : m = p - b + 1 /\ n = b + w - p /\ c = SubSeq(bytes, m, w)
  OBVIOUS
<1>13. /\ m \in 1 .. w /\ m \in Int /\ w \in Int /\ m <= w /\ w - m + 1 = n
       /\ n \in Nat /\ n >= 1 /\ n < key.len /\ n <= Len(buf) /\ key.len \in Nat
  BY <1>1, <1>4, <1>6, <1>10, <1>11, <1>12
<1>14. c \in Seq(Byte) /\ Len(c) = n /\ \A x \in 1 .. n : c[x] = bytes[m + x - 1]
  <2>1. \A x \in m .. w : bytes[x] \in Byte
    <3>1. \A x \in m .. w : x \in 1 .. Len(bytes)
      BY <1>9, <1>13
    <3> QED BY <1>10, <3>1, ElementOfSeq
  <2>2. /\ c \in Seq(Byte) /\ Len(c) = IF m <= w THEN w - m + 1 ELSE 0
        /\ \A x \in 1 .. w - m + 1 : c[x] = bytes[m + x - 1]
    BY <1>12, <1>13, <2>1, SubSeqProperties
  <2> QED BY Zenon, <1>13, <2>2
<1>15. \A x \in 1 .. n : c[x] = buf[x]
  <2> SUFFICES ASSUME NEW x \in 1 .. n PROVE c[x] = buf[x]
    OBVIOUS
  <2>1. m + x - 1 \in 1 .. w /\ x \in 1 .. Len(buf) /\ b + (m + x - 1) = p + x
    BY <1>1, <1>4, <1>10, <1>12, <1>13
  <2>2. buf[x] = bytes[m + x - 1]
    BY Zenon, <1>3, <1>9, <2>1, StrokeByte
  <2> QED BY Zenon, <1>14, <2>2
<1>16. BreaksOff(c)
  <2>1. c # <<>> /\ Len(c) < CSIParse(buf, d).len
    <3>1. Len(<<>>) = 0
      OBVIOUS
    <3> QED BY <1>6, <1>13, <1>14, <3>1
  <2>2. \A x \in 1 .. Len(c) : c[x] = buf[x]
    BY Zenon, <1>14, <1>15
  <2> QED BY <1>1, <1>6, <1>14, <2>1, <2>2, PartBreaksOff
<1>17. bytes = <<ESC>>
  <2>1. m \in DOMAIN bytes
    BY <1>9, <1>10, <1>13, LenProperties
  <2> QED BY Zenon, <1>9, <1>10, <1>12, <1>16, <2>1 DEF KeysComplete
<1>18. w = 1 /\ b = p
  <2>1. Len(<<ESC>>) = 1
    OBVIOUS
  <2>2. w = 1
    BY Zenon, <1>9, <1>17, <2>1
  <2> QED BY <1>4, <1>10, <1>11, <2>2
<1>19. Introduced(j)
  <2>1. Len(buf) >= 3
    BY <1>1, <1>6
  <2> QED BY Zenon, <1>3, <1>6, <1>7, <1>9, <1>17, <1>18, <2>1, IntroducedHere
<1>20. SameRead(j, i)
  <2>1. p + 1 \in Nat /\ Len(taken) < p + 1 /\ a < Len(taken) + Len(buf)
    BY <1>1, <1>3, <1>4, <1>6
  <2>2. ~\E n0 \in cuts : n0 \in p + 1 .. a
    BY <1>4, <2>1, NoCutWithin
  <2> QED BY Zenon, <1>3, <1>9, <1>18, <2>2, StartIs DEF SameRead
<1>21. j \in 1 .. i
  BY <1>8
<1> QED BY Zenon, <1>19, <1>20, <1>21 DEF Blurred


(* The invariant for KeysWhole: a key is announced as soon as any of its   *)
(* bytes is.                                                               *)
Whole ==
  \A i \in 1 .. Len(strokes) :
    LET k == strokes[i] IN
    /\ k.keyval # 0
    /\ StartOf(strokes, i) < Len(taken)
    /\ ~Cut(i) /\ ~Blurred(i)
    => \E e \in 1 .. Len(events) :
         events[e] = [keyval |-> k.keyval, state |-> k.state,
                      source |-> k.bytes, at |-> StartOf(strokes, i)]

LEMMA NextKeyWhole ==
  ASSUME KeysKnown, KeysComplete, InputInv, IInv', Whole, NextKey
  PROVE  Whole'
<1>1. PICK k, source, e :
        /\ k = NextKeyOf(buf) /\ source = SubSeq(buf, 1, k.len)
        /\ e = [keyval |-> k.keyval, state |-> k.state,
                source |-> source, at |-> Len(taken)]
  OBVIOUS
<1>2. /\ buf \in Seq(Byte) /\ buf # <<>> /\ events \in Seq(Event) /\ taken \in Seq(Byte)
      /\ events' = Append(events, e) /\ taken' = taken \o source
      /\ strokes' = strokes /\ cuts' = cuts
  BY <1>1 DEF NextKey, InputInv, TypeOK
<1>3. /\ Len(events') = Len(events) + 1 /\ Len(events) \in Nat
      /\ \A x \in 1 .. Len(events) : events'[x] = events[x]
      /\ events'[Len(events) + 1] = e
  <2>1. \A x \in Event : /\ Len(Append(events, x)) = Len(events) + 1
                         /\ \A y \in 1 .. Len(events) : Append(events, x)[y] = events[y]
                         /\ Append(events, x)[Len(events) + 1] = x
    BY <1>2, AppendProperties
  <2>2. e \in Event
    <3>1. source \in Seq(Byte)
      BY <1>1, <1>2, SourceAlone
    <3>2. Meant(k)
      BY <1>1, <1>2, NextKeyMeant
    <3> QED BY <1>1, <1>2, <3>1, <3>2, LenProperties DEF Event, Meant
  <2>3. Len(events) \in Nat
    BY <1>2, LenProperties
  <2> QED BY Zenon, <1>2, <2>1, <2>2, <2>3
<1>4. Len(taken') = Len(taken) + k.len /\ Len(taken) \in Nat /\ k.len \in Nat
  <2>1. source \in Seq(Byte) /\ Len(source) = k.len
    BY <1>1, <1>2, SourceAlone
  <2>2. Len(taken \o source) = Len(taken) + Len(source)
    BY <1>2, <2>1, ConcatProperties
  <2>3. Len(taken) \in Nat /\ Len(source) \in Nat
    BY <1>2, <2>1, LenProperties
  <2> QED BY Zenon, <1>2, <2>1, <2>2, <2>3
<1>5. \A i : (Cut(i)' <=> Cut(i)) /\ (Blurred(i)' <=> Blurred(i))
  <2>1. \A i : Start(i)' = Start(i)
    BY Zenon, <1>2, StartIs, StartIsNext
  <2>2. \A i : Cut(i)' <=> Cut(i)
    BY Zenon, <1>2, <2>1 DEF Cut
  <2>3. \A i, j : SameRead(i, j)' <=> SameRead(i, j)
    BY Zenon, <1>2, <2>1 DEF SameRead
  <2>4. \A i : Introduced(i)' <=> Introduced(i)
    BY Zenon, <1>2, <2>3 DEF Introduced
  <2> QED BY Zenon, <2>2, <2>3, <2>4 DEF Blurred
<1> SUFFICES ASSUME NEW i \in 1 .. Len(strokes), strokes[i].keyval # 0,
                    StartOf(strokes, i) < Len(taken'), ~Cut(i), ~Blurred(i)
             PROVE  \E x \in 1 .. Len(events') :
                      events'[x] = [keyval |-> strokes[i].keyval, state |-> strokes[i].state,
                                    source |-> strokes[i].bytes, at |-> StartOf(strokes, i)]
  BY Zenon, <1>2, <1>5 DEF Whole
<1>6. StartOf(strokes, i) \in Nat
  BY StartSteps DEF InputInv, TypeOK
<1>7. CASE StartOf(strokes, i) < Len(taken)
  <2>1. PICK x \in 1 .. Len(events) :
          events[x] = [keyval |-> strokes[i].keyval, state |-> strokes[i].state,
                       source |-> strokes[i].bytes, at |-> StartOf(strokes, i)]
    BY Zenon, <1>7 DEF Whole
  <2>2. x \in 1 .. Len(events') /\ events'[x] = events[x]
    BY <1>3
  <2> QED BY Zenon, <2>1, <2>2
<1>8. CASE StartOf(strokes, i) = Len(taken)
  <2>1. /\ k = Key(strokes[i].keyval, strokes[i].state, Len(strokes[i].bytes))
        /\ SubSeq(buf, 1, Len(strokes[i].bytes)) = strokes[i].bytes
    BY Zenon, <1>1, <1>2, <1>8, KeyAtStroke
  <2>2. /\ k.keyval = strokes[i].keyval /\ k.state = strokes[i].state
        /\ k.len = Len(strokes[i].bytes)
    BY <2>1, KeyFields
  <2>3. e = [keyval |-> strokes[i].keyval, state |-> strokes[i].state,
             source |-> strokes[i].bytes, at |-> StartOf(strokes, i)]
    BY Zenon, <1>1, <1>8, <2>1, <2>2
  <2>4. Len(events) + 1 \in 1 .. Len(events')
    BY <1>3
  <2> QED BY Zenon, <1>3, <2>3, <2>4
<1>9. CASE Len(taken) < StartOf(strokes, i)
  <2>1. StartOf(strokes, i) < Len(taken) + NextKeyOf(buf).len
    BY Zenon, <1>1, <1>4
  <2>2. Blurred(i)
    BY Zenon, <1>2, <1>9, <2>1, KeyAcross
  <2> QED BY <2>2
<1> QED BY <1>4, <1>6, <1>7, <1>8, <1>9

LEMMA ReadWhole ==
  ASSUME InputInv, Whole, NEW n \in 1 .. Len(tty), Read(n)
  PROVE  Whole'
<1>1. /\ strokes' = strokes /\ taken' = taken /\ events' = events
      /\ cuts' = cuts \cup {Len(taken) + n}
  BY DEF Read
<1>2. Len(taken) \in Nat /\ n \in Nat /\ n >= 1 /\ strokes \in Seq(Strokes)
  BY BufTyped DEF InputInv, TypeOK
<1>3. \A i : Start(i)' = Start(i)
  BY Zenon, <1>1, StartIs, StartIsNext
<1> SUFFICES ASSUME NEW i \in 1 .. Len(strokes), strokes[i].keyval # 0,
                    StartOf(strokes, i) < Len(taken), ~Cut(i)', ~Blurred(i)'
             PROVE  ~Cut(i) /\ ~Blurred(i)
  BY Zenon, <1>1 DEF Whole
<1>4. StartOf(strokes, i) \in Nat
  BY <1>2, StartSteps
<1>5. ~Cut(i)
  BY Zenon, <1>1, <1>3 DEF Cut
<1>6. ASSUME NEW j \in 1 .. i, Introduced(j), SameRead(j, i) PROVE FALSE
  <2>1. j \in 1 .. Len(strokes)
    OBVIOUS
  <2>2. ASSUME NEW m \in 1 .. Len(strokes) + 1, StartOf(strokes, m) <= Len(taken),
               SameRead(j, m)
        PROVE  SameRead(j, m)'
    <3>1. StartOf(strokes, m) \in Nat
      BY <1>2, StartNat
    <3>2. Len(taken) + n \notin Start(j) + 1 .. Start(m)
      <4>1. PICK x, y : x = Start(j) + 1 /\ y = Start(m)
        OBVIOUS
      <4>2. y \in Nat /\ y <= Len(taken)
        BY Zenon, <2>2, <3>1, <4>1, StartIs
      <4>3. Len(taken) + n \notin x .. y
        BY <1>2, <4>2
      <4> QED BY Zenon, <4>1, <4>3
    <3> QED BY Zenon, <1>1, <1>3, <2>2, <3>2 DEF SameRead
  <2>3. i \in 1 .. Len(strokes) + 1 /\ Len(strokes) \in Nat
    BY <1>2, LenProperties
  <2>4. StartOf(strokes, i) <= Len(taken)
    BY <1>2, <1>4
  <2>5. SameRead(j, i)'
    BY Zenon, <1>6, <2>2, <2>3, <2>4
  <2>6. /\ strokes[j].bytes = <<ESC>> /\ j + 1 \in DOMAIN strokes
        /\ strokes[j + 1].bytes[1] \in {79, 91, 111} /\ SameRead(j, j + 1)
    BY Zenon, <1>6 DEF Introduced
  <2>7. j + 1 \in 1 .. Len(strokes) + 1
    BY <2>1, <2>3
  <2>8. StartOf(strokes, j + 1) <= Len(taken)
    <3>1. StartOf(strokes, j) \in Nat /\ StartOf(strokes, j + 1)
                                          = StartOf(strokes, j) + Len(strokes[j].bytes)
      BY <1>2, <2>1, StartSteps
    <3>2. CASE j = i
      <4>1. Len(<<ESC>>) = 1
        OBVIOUS
      <4>2. StartOf(strokes, j + 1) = StartOf(strokes, j) + 1
        BY Zenon, <2>6, <3>1, <4>1
      <4>3. StartOf(strokes, j) < Len(taken)
        BY Zenon, <3>2
      <4> QED BY <1>2, <3>1, <4>2, <4>3
    <3>3. CASE j # i
      <4>1. j < i
        BY <3>3
      <4>2. StartOf(strokes, j) + Len(strokes[j].bytes) <= StartOf(strokes, i)
        BY <1>2, <2>1, <2>3, <4>1, StartOrder
      <4>3. StartOf(strokes, j + 1) <= StartOf(strokes, i)
        BY Zenon, <3>1, <4>2
      <4>4. StartOf(strokes, j + 1) \in Nat
        BY <1>2, <2>7, StartNat
      <4> QED BY <1>2, <1>4, <4>3, <4>4
    <3> QED BY <3>2, <3>3
  <2>9. SameRead(j, j + 1)'
    BY Zenon, <2>2, <2>6, <2>7, <2>8
  <2>10. Introduced(j)'
    BY Zenon, <1>1, <2>6, <2>9 DEF Introduced
  <2> QED BY Zenon, <1>6, <2>5, <2>10 DEF Blurred
<1> QED BY Zenon, <1>5, <1>6 DEF Blurred


LEMMA TypeWhole ==
  ASSUME InputInv, Whole, NEW k \in Strokes, Type(k)
  PROVE  Whole'
<1>1. /\ strokes' = Append(strokes, k) /\ taken' = taken /\ events' = events
      /\ cuts' = cuts
  BY DEF Type
<1>2. strokes \in Seq(Strokes) /\ Len(strokes) \in Nat
  BY LenProperties DEF InputInv, TypeOK
<1>3. /\ Len(strokes') = Len(strokes) + 1 /\ strokes' \in Seq(Strokes)
      /\ \A i \in 1 .. Len(strokes) : strokes'[i] = strokes[i]
  BY <1>1, <1>2, AppendProperties
<1>4. \A i \in 1 .. Len(strokes) + 1 : StartOf(strokes', i) = StartOf(strokes, i)
  BY <1>1, <1>2, StartAppend
<1>5. /\ \A i \in 1 .. Len(strokes) + 1 : Start(i)' = Start(i)
      /\ DOMAIN strokes = 1 .. Len(strokes) /\ DOMAIN strokes' = 1 .. Len(strokes')
  <2>1. \A i \in 1 .. Len(strokes) + 1 : Start(i)' = Start(i)
    BY Zenon, <1>4, StartIs, StartIsNext
  <2> QED BY <1>2, <1>3, <2>1, LenProperties
<1>6. StartOf(strokes, Len(strokes) + 1) >= Len(taken)
  <2>1. StartOf(strokes, Len(strokes) + 1) = Len(typed)
    BY DEF InputInv, Laid
  <2>2. Len(taken) \in Nat /\ Len(buf) \in Nat /\ Len(taken) + Len(buf) <= Len(typed)
    BY BufTyped DEF InputInv
  <2>3. Len(typed) \in Nat
    BY LenProperties DEF InputInv, TypeOK
  <2> QED BY <2>1, <2>2, <2>3
<1> SUFFICES ASSUME NEW i \in 1 .. Len(strokes'), strokes'[i].keyval # 0,
                    StartOf(strokes', i) < Len(taken), ~Cut(i)', ~Blurred(i)'
             PROVE  \E e \in 1 .. Len(events) :
                      events[e] = [keyval |-> strokes'[i].keyval, state |-> strokes'[i].state,
                                   source |-> strokes'[i].bytes, at |-> StartOf(strokes', i)]
  BY Zenon, <1>1 DEF Whole
<1>7. i \in 1 .. Len(strokes)
  <2>1. i = Len(strokes) + 1 => StartOf(strokes', i) >= Len(taken)
    <3>1. Len(strokes) + 1 \in 1 .. Len(strokes) + 1
      BY <1>2
    <3>2. StartOf(strokes', Len(strokes) + 1) = StartOf(strokes, Len(strokes) + 1)
      BY Zenon, <1>4, <3>1
    <3> QED BY Zenon, <1>6, <3>2
  <2>2. StartOf(strokes', i) \in Nat /\ Len(taken) \in Nat
    <3>1. StartOf(strokes', i) \in Nat
      BY <1>3, StartSteps
    <3> QED BY <3>1, BufTyped DEF InputInv
  <2>3. i # Len(strokes) + 1
    BY <2>1, <2>2
  <2> QED BY <1>2, <1>3, <2>3
<1>8. strokes'[i] = strokes[i] /\ StartOf(strokes', i) = StartOf(strokes, i)
  <2>1. i \in 1 .. Len(strokes) + 1
    BY <1>2, <1>7
  <2> QED BY Zenon, <1>3, <1>4, <1>7, <2>1
<1>9. \A j \in 1 .. i : /\ j \in 1 .. Len(strokes) /\ j \in 1 .. Len(strokes) + 1
                        /\ j + 1 \in 1 .. Len(strokes) + 1
  BY <1>2, <1>7
<1>10. i \in 1 .. i /\ i \in 1 .. Len(strokes) + 1
  BY <1>2, <1>7
<1>11. ~Cut(i)
  BY Zenon, <1>1, <1>5, <1>8, <1>10 DEF Cut
<1>12. ~Blurred(i)
  <2> SUFFICES ASSUME NEW j \in 1 .. i, Introduced(j), SameRead(j, i) PROVE FALSE
    BY Zenon DEF Blurred
  <2>1. SameRead(j, i)'
    BY Zenon, <1>1, <1>5, <1>9, <1>10 DEF SameRead
  <2>2. /\ strokes[j].bytes = <<ESC>> /\ j + 1 \in DOMAIN strokes
        /\ strokes[j + 1].bytes[1] \in {79, 91, 111} /\ SameRead(j, j + 1)
    BY Zenon DEF Introduced
  <2>3. j + 1 \in 1 .. Len(strokes) /\ j + 1 \in DOMAIN strokes'
    <3>1. j + 1 \in 1 .. Len(strokes)
      BY Zenon, <1>5, <2>2
    <3>2. j + 1 \in 1 .. Len(strokes')
      BY <1>2, <1>3, <3>1
    <3> QED BY Zenon, <1>5, <3>1, <3>2
  <2>4. strokes'[j] = strokes[j] /\ strokes'[j + 1] = strokes[j + 1]
    BY Zenon, <1>3, <1>9, <2>3
  <2>5. SameRead(j, j + 1)'
    BY Zenon, <1>1, <1>5, <1>9, <2>2 DEF SameRead
  <2>6. Introduced(j)'
    BY Zenon, <2>2, <2>3, <2>4, <2>5 DEF Introduced
  <2> QED BY Zenon, <2>1, <2>6 DEF Blurred
<1> QED BY Zenon, <1>7, <1>8, <1>11, <1>12 DEF Whole

LEMMA NextInputInv ==
  ASSUME InputInv, IInv', TypeOK', [Next]_inputVars
  PROVE  Laid(strokes, typed)' /\ CutsInv'
<1>1. Len(taken) \in Nat /\ Len(buf) \in Nat
  BY BufTyped DEF InputInv
<1>2. ASSUME NEW k \in Strokes, Type(k) PROVE Laid(strokes, typed)' /\ CutsInv'
  <2>1. Laid(strokes, typed)'
    <3>1. strokes' = Append(strokes, k) /\ typed' = typed \o k.bytes
      BY <1>2 DEF Type
    <3>2. Laid(Append(strokes, k), typed \o k.bytes)
      BY LaidAppend DEF InputInv, TypeOK
    <3>3. Laid(strokes', typed')
      BY Zenon, <3>1, <3>2
    <3> QED BY <3>3
  <2>2. taken' = taken /\ buf' = buf /\ cuts' = cuts
    BY <1>2 DEF Type
  <2> QED BY Zenon, <2>1, <2>2 DEF CutsInv, InputInv
<1>3. ASSUME UNCHANGED <<strokes, typed>> PROVE Laid(strokes, typed)'
  <2>1. Laid(strokes', typed')
    BY Zenon, <1>3 DEF InputInv
  <2> QED BY <2>1
<1>4. ASSUME NEW n \in 1 .. Len(tty), Read(n) PROVE Laid(strokes, typed)' /\ CutsInv'
  <2>1. /\ buf = <<>> /\ taken' = taken /\ buf' = SubSeq(tty, 1, n)
        /\ cuts' = cuts \cup {Len(taken) + n} /\ UNCHANGED <<strokes, typed>>
    BY <1>4 DEF Read
  <2>2. Len(buf') = n
    <3>1. tty \in Seq(Byte) /\ n \in 0 .. Len(tty)
      BY LenProperties DEF InputInv, IInv
    <3>2. IsFront(Byte, SubSeq(tty, 1, n), tty, n)
      BY <3>1, FrontOf
    <3> QED BY Zenon, <2>1, <3>2 DEF IsFront
  <2>3. \A c \in cuts : c <= Len(taken)
    <3>1. Len(buf) = 0
      BY <2>1
    <3>2. Len(taken) + Len(buf) <= Len(taken)
      BY <1>1, <3>1
    <3> QED BY Zenon, <3>2 DEF InputInv, CutsInv
  <2> QED BY Zenon, <1>3, <2>1, <2>2, <2>3 DEF CutsInv
<1>5. CASE NextKey
  <2>1. PICK k : k = NextKeyOf(buf)
    OBVIOUS
  <2>2. /\ buf \in Seq(Byte) /\ buf # <<>> /\ taken \in Seq(Byte)
        /\ taken' = taken \o SubSeq(buf, 1, k.len)
        /\ buf' = SubSeq(buf, k.len + 1, Len(buf))
        /\ cuts' = cuts /\ UNCHANGED <<strokes, typed>>
    BY <1>5, <2>1 DEF NextKey, InputInv, TypeOK
  <2>3. /\ k.len \in 1 .. Len(buf)
        /\ SubSeq(buf, 1, k.len) \in Seq(Byte) /\ Len(SubSeq(buf, 1, k.len)) = k.len
    BY <2>1, <2>2, SourceAlone
  <2>4. PICK source : source = SubSeq(buf, 1, k.len)
    OBVIOUS
  <2>5. Len(taken') = Len(taken) + k.len
    <3>1. source \in Seq(Byte) /\ Len(source) = k.len
      BY Zenon, <2>3, <2>4
    <3>2. Len(taken \o source) = Len(taken) + Len(source)
      BY <2>2, <3>1, ConcatProperties
    <3> QED BY Zenon, <2>2, <2>4, <3>1, <3>2
  <2>6. Len(buf') = Len(buf) - k.len
    <3>1. \A j \in k.len + 1 .. Len(buf) : buf[j] \in Byte
      <4>1. \A j \in k.len + 1 .. Len(buf) : j \in 1 .. Len(buf)
        BY <1>1, <2>3
      <4> QED BY <2>2, <4>1, ElementOfSeq
    <3>2. k.len + 1 \in Int /\ Len(buf) \in Int
      BY <1>1, <2>3
    <3>3. Len(SubSeq(buf, k.len + 1, Len(buf))) =
            IF k.len + 1 <= Len(buf) THEN Len(buf) - (k.len + 1) + 1 ELSE 0
      BY <3>1, <3>2, SubSeqProperties
    <3>4. (IF k.len + 1 <= Len(buf) THEN Len(buf) - (k.len + 1) + 1 ELSE 0)
             = Len(buf) - k.len
      BY <1>1, <2>3
    <3> QED BY Zenon, <2>2, <3>3, <3>4
  <2>7. Len(taken') + Len(buf') = Len(taken) + Len(buf) /\ Len(taken) <= Len(taken')
    <3>1. k.len \in Nat
      BY <1>1, <2>3
    <3> QED BY <1>1, <2>5, <2>6, <3>1
  <2>8. /\ cuts \subseteq Nat /\ Len(taken') \in Nat
    BY <1>1, <2>3, <2>5 DEF InputInv, TypeOK
  <2>9. \A c \in cuts : c <= Len(taken) => c <= Len(taken')
    BY <1>1, <2>7, <2>8
  <2> QED BY Zenon, <1>3, <2>2, <2>7, <2>9 DEF CutsInv, InputInv
<1>6. CASE UNCHANGED inputVars
  <2>1. UNCHANGED <<strokes, typed>> /\ taken' = taken /\ buf' = buf /\ cuts' = cuts
    BY <1>6 DEF inputVars
  <2> QED BY Zenon, <1>3, <2>1 DEF CutsInv, InputInv
<1> QED BY <1>2, <1>4, <1>5, <1>6 DEF Next

(* On every keyboard whose keys are complete sequences, or Escape, and     *)
(* that fep knows by what they send alone: a key is announced as one       *)
(* event, with its meaning, whatever is typed around it and wherever reads *)
(* end; except when a read ends within it, and when an Escape and an       *)
(* introducer are typed as keys of their own before it in the same read,   *)
(* or are that key and the next.                                           *)
THEOREM KeysWholeHolds ==
  ASSUME KeysKnown, KeysComplete
  PROVE  Spec => []KeysWhole
<1>1. Init => Laid(strokes, typed) /\ CutsInv /\ Whole
  <2> SUFFICES ASSUME Init PROVE Laid(strokes, typed) /\ CutsInv /\ Whole
    OBVIOUS
  <2>1. strokes = <<>> /\ typed = <<>> /\ cuts = {} /\ buf = <<>>
    BY DEF Init
  <2>2. Len(<<>>) = 0 /\ 0 + 1 = 1 /\ 1 .. 0 = {}
    BY SMT
  <2>3. Laid(<<>>, <<>>)
    BY Zenon, <2>2, StartFirst DEF Laid
  <2>4. Laid(strokes, typed)
    BY Zenon, <2>1, <2>3
  <2>5. Whole
    BY Zenon, <2>1, <2>2 DEF Whole
  <2> QED BY Zenon, <2>1, <2>4, <2>5 DEF CutsInv
<1>2. /\ IInv /\ IInv' /\ TypeOK /\ TypeOK' /\ Laid(strokes, typed) /\ CutsInv /\ Whole
      /\ [Next]_inputVars
      => (Laid(strokes, typed) /\ CutsInv /\ Whole)'
  <2> SUFFICES ASSUME IInv, IInv', TypeOK, TypeOK', Laid(strokes, typed), CutsInv, Whole,
                      [Next]_inputVars
               PROVE  Laid(strokes, typed)' /\ CutsInv' /\ Whole'
    OBVIOUS
  <2>1. InputInv
    BY DEF InputInv
  <2>2. Laid(strokes, typed)' /\ CutsInv'
    BY <2>1, NextInputInv
  <2>3. ASSUME NEW k \in Strokes, Type(k) PROVE Whole'
    BY <2>1, <2>3, TypeWhole
  <2>4. ASSUME NEW n \in 1 .. Len(tty), Read(n) PROVE Whole'
    BY <2>1, <2>4, ReadWhole
  <2>5. CASE NextKey
    BY <2>1, <2>2, <2>5, NextKeyWhole
  <2>6. CASE UNCHANGED inputVars
    <3>1. /\ strokes' = strokes /\ taken' = taken /\ events' = events /\ cuts' = cuts
      BY <2>6 DEF inputVars
    <3>2. \A i : Start(i)' = Start(i)
      BY Zenon, <3>1, StartIs, StartIsNext
    <3>3. \A i : Cut(i)' <=> Cut(i)
      BY Zenon, <3>1, <3>2 DEF Cut
    <3>4. \A i, j : SameRead(i, j)' <=> SameRead(i, j)
      BY Zenon, <3>1, <3>2 DEF SameRead
    <3>5. \A i : Introduced(i)' <=> Introduced(i)
      BY Zenon, <3>1, <3>4 DEF Introduced
    <3>6. \A i : Blurred(i)' <=> Blurred(i)
      BY Zenon, <3>4, <3>5 DEF Blurred
    <3>7. Whole'
      BY Zenon, <3>1, <3>3, <3>6 DEF Whole
    <3> QED BY <2>2, <3>7
  <2> QED BY <2>2, <2>3, <2>4, <2>5, <2>6 DEF Next
<1>3. TypeOK /\ Whole /\ IInv => KeysWhole
  <2> SUFFICES ASSUME TypeOK, Whole, IInv, NEW i \in DOMAIN strokes,
                      strokes[i].keyval # 0,
                      Len(taken) >= Start(i) + Len(strokes[i].bytes),
                      ~Cut(i), ~Blurred(i)
               PROVE  \E e \in DOMAIN events :
                        events[e] = [keyval |-> strokes[i].keyval, state |-> strokes[i].state,
                                     source |-> strokes[i].bytes, at |-> Start(i)]
    BY Zenon DEF KeysWhole
  <2>1. /\ strokes \in Seq(Strokes) /\ DOMAIN strokes = 1 .. Len(strokes)
        /\ DOMAIN events = 1 .. Len(events) /\ Len(taken) \in Nat
    BY LenProperties DEF TypeOK
  <2>2. i \in 1 .. Len(strokes)
    BY Zenon, <2>1
  <2>3. StartOf(strokes, i) \in Nat
    BY <2>1, <2>2, StartSteps
  <2>4. Len(strokes[i].bytes) \in Nat /\ Len(strokes[i].bytes) >= 1
    BY <2>1, <2>2, ElementOfSeq, StrokeBytes
  <2>5. Len(taken) >= StartOf(strokes, i) + Len(strokes[i].bytes)
    BY Zenon, StartIs
  <2>6. StartOf(strokes, i) < Len(taken)
    BY <2>1, <2>3, <2>4, <2>5
  <2> QED BY Zenon, <2>1, <2>2, <2>6, StartIs DEF Whole
<1> QED BY <1>1, <1>2, <1>3, InitIInv, NextIInv, InputTypes, PTL DEF Spec
=============================================================================
