------------------------------ MODULE FepInput ------------------------------
(***************************************************************************)
(* The part of main_loop (fep/fep.c) for tty_in, byte by byte: what the    *)
(* user types is cut into reads by the terminal, each read is cut into     *)
(* keys by fep/key.c, and each key is offered to a client, which takes it, *)
(* leaves it, or forwards it by keyval.                                    *)
(*                                                                         *)
(* FepServer's numbered keys are the events of this module.                *)
(***************************************************************************)
EXTENDS FepKey

CONSTANTS
  Strokes,      \* keys of the keyboard: the bytes they send, and their meaning
  MaxStrokes,   \* bound: keys typed
  MaxReads,     \* bound: of so many reads each may return less than it could
  BufSize       \* BUFSIZ - 1

Stroke == [bytes : Seq(Byte), keyval : Nat, state : SUBSET Modifier]

ASSUME StrokesAssumption ==
  Strokes \subseteq Stroke /\ \A k \in Strokes : k.bytes # <<>>
ASSUME BoundsAssumption ==
  /\ MaxStrokes \in Nat /\ MaxReads \in Nat
  /\ BufSize \in Nat \ {0}

VARIABLES
  tty,      \* bytes typed and not read yet
  buf,      \* buf + i: the bytes of the last read that are not keys yet
  sent,     \* what the child got for the last key
  events,   \* history: the keys announced to the clients
  taken,    \* history: the bytes of those keys
  strokes,  \* history: what was typed
  typed,    \* history: the bytes of that
  cuts      \* history: after how many bytes the reads ended

inputVars == <<tty, buf, sent, events, taken, strokes, typed, cuts>>

(* A KEY_EVENT: keyval, modifiers, source; and where its source begins. *)
Event == [keyval : Nat, state : SUBSET Modifier, source : Seq(Byte), at : Nat]

TypeOK ==
  /\ tty \in Seq(Byte) /\ buf \in Seq(Byte) /\ sent \in Seq(Byte)
  /\ events \in Seq(Event)
  /\ taken \in Seq(Byte)
  /\ strokes \in Seq(Strokes)
  /\ typed \in Seq(Byte)
  /\ cuts \subseteq Nat

Init ==
  /\ tty = <<>> /\ buf = <<>> /\ sent = <<>>
  /\ events = <<>> /\ taken = <<>>
  /\ strokes = <<>> /\ typed = <<>>
  /\ cuts = {}

-----------------------------------------------------------------------------
(* The user presses a key. *)
Type(k) ==
  /\ Len(strokes) < MaxStrokes
  /\ strokes' = Append(strokes, k)
  /\ typed' = typed \o k.bytes
  /\ tty' = tty \o k.bytes
  /\ UNCHANGED <<buf, sent, events, taken, cuts>>

(* _fep_read into buf.  The bytes of a key need not arrive together, so    *)
(* that a read may end anywhere.                                           *)
Read(n) ==
  /\ buf = <<>>
  /\ n \in 1 .. Len(tty) /\ n <= BufSize
  /\ n < Len(tty) /\ n < BufSize => Cardinality(cuts) < MaxReads
  /\ buf' = SubSeq(tty, 1, n)
  /\ tty' = SubSeq(tty, n + 1, Len(tty))
  /\ cuts' = cuts \cup {Len(taken) + n}
  /\ UNCHANGED <<sent, events, taken, strokes, typed>>

(* The key at the beginning of s. *)
NextKeyOf(s) == LET k == EscToKey(s) IN IF k.read THEN k ELSE CharToKey(s[1])

(* Mutant of NextKey: i++ instead of going on behind the key. *)
NextKeyByByte ==
  /\ buf # <<>>
  /\ LET k == NextKeyOf(buf)
         source == SubSeq(buf, 1, k.len)
     IN /\ events' = Append(events, [keyval |-> k.keyval, state |-> k.state,
                                     source |-> source, at |-> Len(taken)])
        /\ taken' = taken \o source
        /\ buf' = Tail(buf)
        /\ sent' \in {<<>>, source, KeyToString(k.keyval, k.state)}
  /\ UNCHANGED <<tty, strokes, typed, cuts>>

(* One round of the loop over buf, for each of the ways a key can go:      *)
(* a client's filter consumes it; nobody does and its bytes go to the      *)
(* child; or the client forwards it (command_forward_key_event).           *)
NextKey ==
  /\ buf # <<>>
  /\ LET k == NextKeyOf(buf)
         source == SubSeq(buf, 1, k.len)
     IN /\ events' = Append(events, [keyval |-> k.keyval, state |-> k.state,
                                     source |-> source, at |-> Len(taken)])
        /\ taken' = taken \o source
        /\ buf' = SubSeq(buf, k.len + 1, Len(buf))
        /\ sent' \in {<<>>, source, KeyToString(k.keyval, k.state)}
  /\ UNCHANGED <<tty, strokes, typed, cuts>>

Next ==
  \/ \E k \in Strokes : Type(k)
  \/ \E n \in 1 .. Len(tty) : Read(n)
  \/ NextKey

Spec == Init /\ [][Next]_inputVars

-----------------------------------------------------------------------------
(* However reads and keys cut the input, nothing typed is lost, repeated,  *)
(* or moved: the sources of the events are the bytes typed.  So a key that *)
(* nobody handles reaches the child as it was typed ("proceed to the next  *)
(* char regardless of is_key_read").                                       *)
SourcesKept == taken \o buf \o tty = typed

(* Where stroke i begins among the bytes typed. *)
Start(i) == FoldLeft(LAMBDA n, k : n + Len(k.bytes), 0, SubSeq(strokes, 1, i - 1))

Cut(i) == \E n \in cuts : n \in Start(i) + 1 .. Start(i) + Len(strokes[i].bytes) - 1

SameRead(i, j) == ~\E n \in cuts : n \in Start(i) + 1 .. Start(j)

(* Escape, and in the same read [, O or o, or a key that begins with one:  *)
(* this may be the beginning of a sequence, which goes on with what is     *)
(* typed next.                                                             *)
Introduced(j) ==
  /\ strokes[j].bytes = <<ESC>>
  /\ j + 1 \in DOMAIN strokes /\ strokes[j + 1].bytes[1] \in {79, 91, 111}
  /\ SameRead(j, j + 1)

Blurred(i) == \E j \in 1 .. i : Introduced(j) /\ SameRead(j, i)

(* A control sequence that s does not contain to its end. *)
BreaksOff(s) ==
  /\ s # <<>> /\ s[1] = ESC
  /\ Len(s) = 1 \/ \E d \in {79, 91, 111} : s[2] = d /\ CSIParse(s, d) = NoCSI

(* What a terminal sends for a key, and what terminfo says that it sends:  *)
(* the keyval of a key is that which fep reads if the key is all there is, *)
(* and but for Escape neither ends in the middle of a sequence, as the     *)
(* ESC [ of a terminal that prefixes ESC for Alt would.                    *)
KeysKnown ==
  \A k \in Strokes :
    k.keyval # 0 => NextKeyOf(k.bytes) = Key(k.keyval, k.state, Len(k.bytes))

KeysComplete ==
  \A k \in Strokes :
    k.bytes # <<ESC>> =>
      \A m \in DOMAIN k.bytes : ~BreaksOff(SubSeq(k.bytes, m, Len(k.bytes)))

CapsComplete == \A name \in CapKeys : ~BreaksOff(Cap[name])

(* A key of the keyboard that fep knows (keyval is not 0) is announced as  *)
(* one event, with its meaning, whatever is typed around it and however    *)
(* other keys are cut; except when it is cut itself, and when an Escape    *)
(* and an introducer are typed as keys of their own before it in the same  *)
(* read, or are that key and the next.                                     *)
KeysWhole ==
  \A i \in DOMAIN strokes :
    LET k == strokes[i] IN
    /\ k.keyval # 0
    /\ Len(taken) >= Start(i) + Len(k.bytes)
    /\ ~Cut(i) /\ ~Blurred(i)
    => \E e \in DOMAIN events :
         events[e] = [keyval |-> k.keyval, state |-> k.state,
                      source |-> k.bytes, at |-> Start(i)]

(* "Request to send key event to the child process" (libfep/client.c): the *)
(* bytes of a forwarded key are read as that key again.  Two exceptions:   *)
(* Delete, for which half a sequence is sent, and bytes above 127.         *)
ForwardFaithful ==
  sent # <<>> /\ events # <<>> =>
    LET e == events[Len(events)]
        k == NextKeyOf(sent)
    IN e.keyval # Delete /\ e.source[1] < 128 =>
         k.keyval = e.keyval /\ k.state = e.state /\ k.len = Len(sent)
=============================================================================
