---------------------------- MODULE MCFepScreen ----------------------------
(* Instances of FepScreen for TLC: an xterm of three columns. *)
EXTENDS FepScreen

Sgr(digits) == <<ESC, 91>> \o digits \o <<109>>

MCSgrCap ==
  [name \in SgrCaps |->
     CASE name = "enter_underline_mode" -> Sgr(<<52>>)
       [] name = "exit_underline_mode" -> Sgr(<<50, 52>>)
       [] name = "enter_standout_mode" -> Sgr(<<55>>)
       [] name = "exit_standout_mode" -> Sgr(<<50, 55>>)
       [] name = "enter_bold_mode" -> Sgr(<<49>>)
       [] name = "enter_blink_mode" -> Sgr(<<53>>)
       [] name = "orig_pair" -> Sgr(<<51, 57, SEMI, 52, 57>>)]

MCSgrCaps ==
  {"enter_underline_mode", "exit_underline_mode", "enter_standout_mode",
   "exit_standout_mode", "enter_bold_mode", "enter_blink_mode", "orig_pair"}

(* On this terminal no attribute is lost for want of a capability. *)
ASSUME XtermEnters == EnteringAdds

MCChar == {" ", "a", "b", "x", "y", "z", "w"}

Op(op, bytes) == [op |-> op, ch |-> " ", params |-> <<>>, bytes |-> bytes]
Text(ch) == [op |-> "text", ch |-> ch, params |-> <<>>, bytes |-> 1]
SGR(params, bytes) == [op |-> "sgr", ch |-> " ", params |-> params, bytes |-> bytes]

A == Text("a")
B == Text("b")
NL == Op("newline", 2)
HOME == Op("home", 3)
ERASE == Op("erase", 4)
EOS == Op("eos", 3)
SC == Op("save", 2)
RC == Op("restore", 2)
Bold == SGR(<<1>>, 4)
Underline == SGR(<<4, 31, 41>>, 10)     \* and red on red
Plain == SGR(<<0>>, 4)

MCOutputs ==
  {<<A, B>>, <<NL, A>>, <<HOME>>, <<ERASE>>,
   <<A, HOME, ERASE, B>>,
   <<Bold, A>>, <<Plain>>, <<Underline, A>>,
   <<SC>>, <<RC, B>>,
   <<Bold, EOS, Plain, B>>}

MCTexts == {<<>>, <<"x", "y">>, <<"x", "y", "z", "w">>}

MCAttributes ==
  {[type |-> "none", value |-> 0, start |-> 0, end |-> 0],
   [type |-> "underline", value |-> 1, start |-> 2, end |-> 257]}
=============================================================================
