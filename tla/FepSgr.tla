------------------------------- MODULE FepSgr -------------------------------
(***************************************************************************)
(* fep/sgr.c: the attributes of characters (bold, a colour, ...) and the   *)
(* parameters of the sequence SGR, ESC [ ... m, that sets them.            *)
(***************************************************************************)
EXTENDS FepCsi

CONSTANTS
  SgrCaps,    \* the names in name_code[] that the terminal's terminfo has
  SgrCap      \* SgrCap[name]: the bytes of that capability

ASSUME SgrCapAssumption == SgrCap \in [SgrCaps -> Seq(Byte)]

(* FepSgrAttr.attr: its bits. *)
UNDERLINE == 1
STANDOUT == 2
BOLD == 4
BLINK == 8

SgrBits == {UNDERLINE, STANDOUT, BOLD, BLINK}

(* A background is kept as the number of the foreground of that colour. *)
Colour == {0} \cup 30 .. 37 \cup 90 .. 97

SgrAttr == [attr : SUBSET SgrBits, fg : Colour, bg : Colour]

EmptyAttr == [attr |-> {}, fg |-> 0, bg |-> 0]

(* FepAttrType, which numbers the attributes; _fep_sgr_params_to_attr      *)
(* takes these numbers for masks.                                          *)
TypeNumber == [underline |-> 0, foreground |-> 1, background |-> 2, none |-> 3,
               standout |-> 4, bold |-> 5, blink |-> 6]

TypeMask(type) == {b \in SgrBits : (TypeNumber[type] \div b) % 2 = 1}

(* FepAttribute. *)
Attribute == [type : DOMAIN TypeNumber, value : Nat, start : Nat, end : Nat]

(* _fep_control_message_read_attribute_arg: every field goes through a     *)
(* uint8_t.                                                                *)
ReadAttributeArg(a) ==
  [a EXCEPT !.value = @ % 256, !.start = @ % 256, !.end = @ % 256]

AttrFromAttribute(a) ==
  [EmptyAttr EXCEPT !.attr =
     CASE a.value = 0 -> {}
       [] a.type = "underline" -> {UNDERLINE}
       [] a.type = "standout" -> {STANDOUT}
       [] a.type = "bold" -> {BOLD}
       [] a.type = "blink" -> {BLINK}
       [] OTHER -> {}]

(* name_code[]: each code of sgr_codes[] is parameter index of a capability *)
(* that is an SGR with n parameters.                                       *)
NameCode ==
  [enter_underline |-> [name |-> "enter_underline_mode", n |-> 1, index |-> 1],
   exit_underline  |-> [name |-> "exit_underline_mode", n |-> 1, index |-> 1],
   enter_standout  |-> [name |-> "enter_standout_mode", n |-> 1, index |-> 1],
   exit_standout   |-> [name |-> "exit_standout_mode", n |-> 1, index |-> 1],
   enter_bold      |-> [name |-> "enter_bold_mode", n |-> 1, index |-> 1],
   enter_blink     |-> [name |-> "enter_blink_mode", n |-> 1, index |-> 1],
   orig_pair       |-> [name |-> "orig_pair", n |-> 1, index |-> 1],
   orig_fore       |-> [name |-> "orig_pair", n |-> 2, index |-> 1],
   orig_back       |-> [name |-> "orig_pair", n |-> 2, index |-> 2]]

(* The code of one entry: 0 without the capability, or when it is no SGR;  *)
(* -1 when it has another number of parameters.                            *)
SgrCode(entry) ==
  IF entry.name \notin SgrCaps THEN 0
  ELSE LET csi == CSIParse(SgrCap[entry.name], 91)
           params == StrSplit(csi.params, SEMI)
       IN CASE csi.final # 109 -> 0
            [] csi.final = 109 /\ Len(params) # entry.n -> -1
            [] OTHER -> Number(params[entry.index])

(* _fep_get_sgr_codes: fills sgr_codes[]. *)
GetSgrCodes == [code \in DOMAIN NameCode |-> SgrCode(NameCode[code])]

(* Mutant of SetColour: a background as it is sent. *)
SetColourRaw(a, param) ==
  CASE param \in 30 .. 37 \cup 90 .. 97 -> [a EXCEPT !.fg = param]
    [] param \in 40 .. 47 \cup 100 .. 107 -> [a EXCEPT !.bg = param]
    [] OTHER -> a

SetColour(a, param) ==
  CASE param \in 30 .. 37 \cup 90 .. 97 -> [a EXCEPT !.fg = param]
    [] param \in 40 .. 47 \cup 100 .. 107 -> [a EXCEPT !.bg = param - 10]
    [] OTHER -> a

(* What a parameter does to the attributes.  Each SGR is read on its own:  *)
(* what an earlier one has set is not in its result.                       *)
ParamToAttr(codes, a, param) ==
  CASE param = 0 -> EmptyAttr
    [] param = codes.enter_underline -> [a EXCEPT !.attr = @ \cup TypeMask("underline")]
    [] param = codes.exit_underline -> [a EXCEPT !.attr = @ \ TypeMask("underline")]
    [] param = codes.enter_standout -> [a EXCEPT !.attr = @ \cup TypeMask("standout")]
    [] param = codes.exit_standout -> [a EXCEPT !.attr = @ \ TypeMask("standout")]
    [] param = codes.enter_bold -> [a EXCEPT !.attr = @ \cup TypeMask("bold")]
    [] param = codes.enter_blink -> [a EXCEPT !.attr = @ \cup TypeMask("blink")]
    [] param = codes.orig_pair -> [a EXCEPT !.fg = 0, !.bg = 0]
    [] param = codes.orig_fore -> [a EXCEPT !.fg = 0]
    [] param = codes.orig_back -> [a EXCEPT !.bg = 0]
    [] param = 22 -> [a EXCEPT !.attr = @ \ TypeMask("bold")]
    [] param = 25 -> [a EXCEPT !.attr = @ \ TypeMask("blink")]
    [] OTHER -> SetColour(a, param)

ParamsToAttr(params, codes) ==
  FoldLeft(LAMBDA a, param : ParamToAttr(codes, a, param), EmptyAttr, params)

(* The parameters that set a.  Those of EmptyAttr are none, which resets.  *)
ParamsFromAttr(a, codes) ==
  LET enter(bit, code) == IF bit \in a.attr /\ codes[code] # 0 THEN <<codes[code]>> ELSE <<>>
  IN enter(UNDERLINE, "enter_underline") \o enter(STANDOUT, "enter_standout")
       \o enter(BOLD, "enter_bold") \o enter(BLINK, "enter_blink")
       \o (IF a.fg # 0 THEN <<a.fg>> ELSE <<>>)
       \o (IF a.bg # 0 THEN <<a.bg + 10>> ELSE <<>>)
=============================================================================
