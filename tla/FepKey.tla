------------------------------- MODULE FepKey -------------------------------
(***************************************************************************)
(* fep/key.c: what the bytes of a key mean, and which bytes stand for a    *)
(* key.  A key is a keyval of libfep/keydefs.h and a set of modifiers.     *)
(***************************************************************************)
EXTENDS FepCsi

CONSTANTS
  CapKeys,    \* the names in cap_keyvals[] that the terminal's terminfo has
  Cap         \* Cap[name]: the bytes of that capability

ASSUME CapAssumption == Cap \in [CapKeys -> Seq(Byte)]

(* Keyvals of libfep/keydefs.h; those of characters are the character. *)
BackSpace == 65288
Tab == 65289
Return == 65293
Escape == 65307
Home == 65360
Left == 65361
Up == 65362
Right == 65363
Down == 65364
Prior == 65365
PageDown == 65366   \* FEP_Next
End == 65367
Insert == 65379
F1 == 65470
Delete == 65535

(* cursor_keyvals[], by final byte. *)
CursorKeyval ==
  [f \in {65, 66, 67, 68, 70, 72} |->
     CASE f = 65 -> Up [] f = 66 -> Down [] f = 67 -> Right
       [] f = 68 -> Left [] f = 70 -> End [] f = 72 -> Home]

(* cap_keyvals[], in its order. *)
CapKeyvals ==
  <<[name |-> "key_backspace", keyval |-> BackSpace],
    [name |-> "key_dc",    keyval |-> Delete],
    [name |-> "key_ppage", keyval |-> Prior],
    [name |-> "key_npage", keyval |-> PageDown],
    [name |-> "key_home",  keyval |-> Home],
    [name |-> "key_end",   keyval |-> End],
    [name |-> "key_ic",    keyval |-> Insert],
    [name |-> "key_f1",  keyval |-> F1],     [name |-> "key_f2",  keyval |-> F1 + 1],
    [name |-> "key_f3",  keyval |-> F1 + 2], [name |-> "key_f4",  keyval |-> F1 + 3],
    [name |-> "key_f5",  keyval |-> F1 + 4], [name |-> "key_f6",  keyval |-> F1 + 5],
    [name |-> "key_f7",  keyval |-> F1 + 6], [name |-> "key_f8",  keyval |-> F1 + 7],
    [name |-> "key_f9",  keyval |-> F1 + 8], [name |-> "key_f10", keyval |-> F1 + 9],
    [name |-> "key_f11", keyval |-> F1 + 10], [name |-> "key_f12", keyval |-> F1 + 11]>>

Modifier == {"SHIFT", "CONTROL", "META"}

(* A key as it is read: read is the return value, len how many bytes it    *)
(* takes.                                                                  *)
Key(keyval, state, len) ==
  [read |-> TRUE, keyval |-> keyval, state |-> state, len |-> len]

NoKey == [read |-> FALSE, keyval |-> 0, state |-> {}, len |-> 0]

-----------------------------------------------------------------------------
(* The switch of _fep_char_to_key on the lower seven bits; for what is     *)
(* neither a control character nor a capital letter state is set to 0.     *)
Char7ToKey(c, meta) ==
  CASE c = 0 -> Key(32, meta \cup {"CONTROL"}, 1)
    [] c = 9 -> Key(Tab, meta, 1)
    [] c = 13 -> Key(Return, meta, 1)
    [] c = ESC -> Key(Escape, meta, 1)
    [] c = 127 -> Key(BackSpace, meta, 1)
    [] c \in 1 .. 26 \ {9, 13} -> Key(c + 96, meta \cup {"CONTROL"}, 1)
    [] c \in 28 .. 31 -> Key(c + 64, meta \cup {"CONTROL"}, 1)
    [] c \in 65 .. 90 -> Key(c, meta \cup {"SHIFT"}, 1)
    [] OTHER -> Key(c, {}, 1)

(* Mutant of CharToKey: without the mask, a char is below 0 from 128 on. *)
CharToKeySigned(b) ==
  IF b >= 128 THEN Key(b - 256, {"META"}, 1) ELSE Char7ToKey(b, {})

CharToKey(b) == Char7ToKey(b % 128, IF b >= 128 THEN {"META"} ELSE {})

(* cursor_states[]: the second of exactly two parameters. *)
StateFromCursor(csi) ==
  LET params == StrSplit(csi.params, SEMI) IN
  IF Len(params) # 2 THEN {}
  ELSE CASE Number(params[2]) = 2 -> {"SHIFT"}
         [] Number(params[2]) = 5 -> {"CONTROL"}
         [] OTHER -> {}

CursorKey(csi) ==
  IF csi.final \in DOMAIN CursorKeyval
    THEN Key(CursorKeyval[csi.final], StateFromCursor(csi), csi.len)
    ELSE NoKey

(* The entries of cap_keyvals[] that s begins with. *)
CapsOf(s) ==
  {i \in DOMAIN CapKeyvals :
     /\ CapKeyvals[i].name \in CapKeys
     /\ IsPrefix(Cap[CapKeyvals[i].name], s)}

CSIToKey(csi) ==
  IF csi.final \in DOMAIN CursorKeyval THEN CursorKey(csi)
  ELSE LET caps == CapsOf(CSIFormat(csi)) IN
       IF caps = {} THEN NoKey
       ELSE LET i == CHOOSE k \in caps : \A j \in caps : k <= j
            IN Key(CapKeyvals[i].keyval, {}, csi.len)

(* Eterm's lower case letters are those of the cursor keys. *)
EtermKey(csi) ==
  IF csi.final \in 97 .. 100
    THEN Key(CursorKeyval[csi.final - 32], StateFromCursor(csi), csi.len)
    ELSE NoKey

(* _fep_esc_to_key: a sequence with the introducer O or o is decided there. *)
EscToKey(s) ==
  LET ss3 == CSIParse(s, 79)
      eterm == CSIParse(s, 111)
      csi == CSIParse(s, 91)
  IN CASE ss3 # NoCSI -> CursorKey(ss3)
       [] eterm # NoCSI -> EtermKey(eterm)
       [] csi # NoCSI -> CSIToKey(csi)
       [] OTHER -> NoKey

-----------------------------------------------------------------------------
(* Mutant of CursorParams: the modifier as the only parameter. *)
CursorParamsShort(state) ==
  CASE "SHIFT" \in state -> <<50>>
    [] "CONTROL" \in state -> <<53>>
    [] OTHER -> <<>>

(* _fep_key_to_string.  The bytes for a modifier are params; a keyval of   *)
(* the first group that is not in cursor_keyvals[] has final byte 0.       *)
CursorParams(state) ==
  CASE "SHIFT" \in state -> <<48, SEMI, 50>>
    [] "CONTROL" \in state -> <<48, SEMI, 53>>
    [] OTHER -> <<>>

CursorString(keyval, state) ==
  LET finals == {f \in DOMAIN CursorKeyval : CursorKeyval[f] = keyval} IN
  CSIFormat([params |-> CursorParams(state), intermediate |-> <<>>,
             final |-> IF finals = {} THEN 0 ELSE CHOOSE f \in finals : TRUE])

CapString(keyval) ==
  LET caps == {i \in DOMAIN CapKeyvals :
                 CapKeyvals[i].keyval = keyval /\ CapKeyvals[i].name \in CapKeys}
  IN IF caps = {} THEN <<>> ELSE Cap[CapKeyvals[CHOOSE i \in caps : TRUE].name]

CharString(c, state) ==
  CASE "CONTROL" \in state /\ c \in 97 .. 122 -> <<c - 96>>
    [] "CONTROL" \in state /\ c \in 92 .. 95 -> <<c - 64>>
    [] "CONTROL" \notin state /\ "SHIFT" \in state /\ c \in 97 .. 122 -> <<c - 32>>
    [] "CONTROL" \notin state /\ ~("SHIFT" \in state /\ c \in 97 .. 122)
         /\ c \in 33 .. 126 -> <<c>>
    [] OTHER -> <<>>

KeyToString(keyval, state) ==
  CASE keyval \in {Left, Up, Right, Down, Delete, Home, End}
         -> CursorString(keyval, state)
    [] keyval = 32 -> IF "CONTROL" \in state THEN <<0>> ELSE <<32>>
    [] keyval = Return -> <<13>>
    [] keyval = BackSpace -> <<127>>
    [] keyval = Escape -> <<ESC>>
    [] keyval = Tab -> <<9>>
    [] OTHER -> LET s == CharString(keyval, state) IN
                IF s # <<>> THEN s ELSE CapString(keyval)
=============================================================================
