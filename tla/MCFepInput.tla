----------------------------- MODULE MCFepInput -----------------------------
(* A keyboard for FepInput, with the capabilities of an xterm. *)
EXTENDS FepInput

MCCap ==
  [n \in {"key_dc", "key_f1", "key_f5", "key_f6"} |->
     CASE n = "key_dc" -> <<27, 91, 51, 126>>
       [] n = "key_f1" -> <<27, 79, 80>>
       [] n = "key_f5" -> <<27, 91, 49, 53, 126>>
       [] n = "key_f6" -> <<27, 91, 49, 55, 126>>]

MCCapKeys == DOMAIN MCCap

K(bytes, keyval, state) == [bytes |-> bytes, keyval |-> keyval, state |-> state]

MCStrokes ==
  {K(<<97>>, 97, {}),                              \* a
   K(<<79>>, 79, {"SHIFT"}),                       \* O
   K(<<91>>, 91, {}),                              \* [
   K(<<65>>, 65, {"SHIFT"}),                       \* A
   K(<<1>>, 97, {"CONTROL"}),                      \* C-a
   K(<<27>>, Escape, {}),
   K(<<27, 91, 65>>, Up, {}),
   K(<<27, 91, 49, 59, 50, 67>>, Right, {"SHIFT"}),
   K(<<27, 91, 49, 59, 53, 68>>, Left, {"CONTROL"}),
   K(<<27, 79, 66>>, Down, {}),                    \* in application mode
   K(<<27, 91, 51, 126>>, Delete, {}),
   K(<<27, 91, 49, 55, 126>>, F1 + 5, {}),
   K(<<27, 79, 80>>, 0, {}),                       \* F1, which is not found
   K(<<27, 120>>, 0, {}),                          \* M-x
   K(<<195, 169>>, 0, {})}                         \* a character of two bytes

(* On this terminal keys and capabilities are what the properties need. *)
ASSUME XtermKeys == KeysKnown /\ KeysComplete
ASSUME XtermCaps == CapsComplete
=============================================================================
