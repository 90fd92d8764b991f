------------------------------ MODULE FepScreen ------------------------------
(***************************************************************************)
(* fep/output.c, and the part of main_loop for the child's output: fep     *)
(* shares the terminal with the child.  The child has the upper ws_row     *)
(* lines, the last one is for the status text, and the cursor text is      *)
(* drawn over what the child has written behind the cursor.                *)
(*                                                                         *)
(* Each function of output.c is an operator on s = [tty, fep]: what is on  *)
(* the terminal, and the fields of struct Fep that output.c uses.  A step  *)
(* is a handler of the main loop, which nothing interrupts.                *)
(***************************************************************************)
EXTENDS FepTty

CONSTANTS
  Outputs,      \* what the child may write at once, and fep reads at once
  Texts,        \* texts that clients set; <<>> is the empty one
  Attributes,   \* attributes of such texts
  Sizes,        \* numbers of rows the window may have
  MaxSteps      \* bound: steps

ASSUME InputsAssumption ==
  /\ Outputs \subseteq Seq(Token) \ {<<>>}
  /\ Texts \subseteq Seq(Char)
  /\ Attributes \subseteq Attribute
  /\ Sizes \subseteq 2 .. MaxRows
  /\ MaxSteps \in Nat

VARIABLES
  tty,      \* the terminal
  fep,      \* struct Fep
  plain,    \* history: a terminal of ws_row rows that the child has for itself
  last,     \* history: the kind of the last step
  stray,    \* history: the cursor has moved away from a cursor text
  erased,   \* history: the child has erased the screen, and fep did not see it
  steps     \* history: how many steps there were

screenVars == <<tty, fep, plain, last, stray, erased, steps>>

Unknown == [row |-> -1, col |-> -1]

-----------------------------------------------------------------------------
(* _fep_output_set_attributes *)
SetAttributes(s, a) ==
  [s EXCEPT !.tty = Render(@, ParamsFromAttr(a, s.fep.sgrCodes)), !.fep.attr = a]

ChangeScrollRegion(s, end) ==
  [s EXCEPT !.tty = ScrollRegion(@, end), !.fep.cursor = Home0]

ApplyAttr(s, a) ==
  LET old == s.fep.attr
      cleared == \/ ~(old.attr \subseteq a.attr)
                 \/ old.fg # 0 /\ a.fg = 0
                 \/ old.bg # 0 /\ a.bg = 0
  IN CASE cleared -> SetAttributes([s EXCEPT !.tty = Render(@, <<0>>)], a)
       [] ~cleared /\ old # a -> SetAttributes(s, a)
       [] OTHER -> s

Write(s, who, str) ==
  [s EXCEPT !.tty = PutAll(@, who, str)]

(* _fep_strtrunc; the characters are one column wide. *)
Trunc(str, width) == SubSeq(str, 1, Lesser(Len(str), width))

(* A part of a text, which may be in the attribute's range. *)
WritePart(s, who, a, part) ==
  IF part.styled
    THEN SetAttributes(Write(SetAttributes(s, AttrFromAttribute(a)), who, part.str),
                       EmptyAttr)
    ELSE Write(s, who, part.str)

WriteParts(s, who, a, parts) == FoldLeft(LAMBDA z, p : WritePart(z, who, a, p), s, parts)

(* _fep_output_string_with_attribute: the parts of the text before, in and *)
(* behind the attribute's range.  attr_tty is never set: it is empty.      *)
StringWithAttribute(s, who, str, width, a) ==
  LET trunc == Trunc(str, width)
      n == Len(trunc)
      start == Lesser(n, Lesser(a.start, a.end))
      end == Lesser(n, IF a.start < a.end THEN a.end ELSE a.start)
      part(from, to, styled) == [str |-> SubSeq(trunc, from + 1, to), styled |-> styled]
      parts == <<part(0, IF a.type = "none" THEN 0 ELSE start, FALSE),
                 part(start, end, start < end /\ a.type # "none"),
                 part(end, n, FALSE)>>
  IN IF str = <<>> THEN s
     ELSE WriteParts(ApplyAttr(s, EmptyAttr), who, a, parts)

(* _fep_output_goto_status_text *)
GotoStatusText(s, col) ==
  [s EXCEPT !.tty = Goto(@, s.fep.wsRow, col),
            !.fep.cursor = [row |-> s.fep.wsRow, col |-> col]]

(* _fep_output_save_cursor, _fep_output_restore_cursor: has_cpr is 0. *)
Save(s) ==
  [s EXCEPT !.tty = SaveCursor(@, "fep"), !.fep.cursorSave = s.fep.cursor]

Restore(s) ==
  [s EXCEPT !.tty = RestoreCursor(@, "fep"), !.fep.cursor = s.fep.cursorSave]

(* Mutant of StatusText: clr_eos, before the cursor is moved. *)
StatusTextErasesBelow(s, text, a) ==
  LET z0 == [s EXCEPT !.fep.statusText = text, !.fep.statusAttr = a,
                      !.tty = EraseBelow(SaveCursor(@, "fep"))]
      z1 == StringWithAttribute(GotoStatusText(z0, 0), "status", text, Cols, a)
  IN [z1 EXCEPT !.tty = RestoreCursor(@, "fep")]

(* _fep_output_status_text *)
StatusText(s, text, a) ==
  LET z0 == [s EXCEPT !.fep.statusText = text, !.fep.statusAttr = a,
                      !.tty = SaveCursor(@, "fep")]
      z1 == GotoStatusText(z0, 0)
      z2 == [z1 EXCEPT !.tty = EraseLine(@)]
      z3 == StringWithAttribute(z2, "status", text, Cols, a)
  IN [z3 EXCEPT !.tty = RestoreCursor(@, "fep")]

(* Mutants of EraseCursorText: one space is missing; the cursor stays      *)
(* behind the spaces.                                                      *)
EraseCursorTextShort(s) ==
  LET width == Lesser(Len(s.fep.cursorText), Cols - s.fep.cursor.col)
      z == Write(Save(s), "cursor", [i \in 1 .. width - 1 |-> " "])
  IN IF s.fep.cursorText = <<>> THEN s
     ELSE Restore([z EXCEPT !.fep.cursorText = <<>>])

EraseCursorTextStays(s) ==
  LET width == Lesser(Len(s.fep.cursorText), Cols - s.fep.cursor.col)
      z == Write(s, "cursor", [i \in 1 .. width |-> " "])
  IN IF s.fep.cursorText = <<>> THEN s
     ELSE [z EXCEPT !.fep.cursorText = <<>>]

(* _fep_output_cursor_text: spaces over the old text, then the new one.    *)
(* The number of columns that are left is computed from fep->cursor, which *)
(* is not where the cursor is.                                             *)
EraseCursorText(s) ==
  LET width == Lesser(Len(s.fep.cursorText), Cols - s.fep.cursor.col)
      z == Write(Save(s), "cursor", [i \in 1 .. width |-> " "])
  IN IF s.fep.cursorText = <<>> THEN s
     ELSE Restore([z EXCEPT !.fep.cursorText = <<>>])

CursorText(s, text, a) ==
  LET z0 == EraseCursorText(s)
      z1 == Save([z0 EXCEPT !.fep.cursorText = text])
      z2 == StringWithAttribute([z1 EXCEPT !.fep.cursorAttr = a], "cursor", text,
                                Cols - z1.fep.cursor.col, a)
  IN IF text = <<>> THEN z0 ELSE Restore(z2)

-----------------------------------------------------------------------------
Bytes(tokens) == FoldLeft(LAMBDA n, tok : n + tok.bytes, 0, tokens)

(* The loop over _fep_csi_scan in _fep_output_string_from_pty: attr is     *)
(* that of the last SGR of the str_len bytes str.  Each round looks at     *)
(* str_len bytes from the end p of the SGR before, so that it gets into    *)
(* what follows str in the buffer.                                         *)
NextSgr(codes, len, z, tok) ==
  LET end == z.pos + tok.bytes IN
  IF tok.op = "sgr" /\ end <= z.p + len
    THEN [pos |-> end, p |-> end, attr |-> ParamsToAttr(tok.params, codes)]
    ELSE [z EXCEPT !.pos = end]

Scan(codes, len, z, tokens) ==
  FoldLeft(LAMBDA y, tok : NextSgr(codes, len, y, tok), z, tokens)

LastSgr(codes, attr, str, rest) ==
  Scan(codes, Bytes(str), [pos |-> 0, p |-> 0, attr |-> attr], str \o rest).attr

(* The child's bytes, after which the cursor is anywhere. *)
WritePty(s, str, rest) ==
  LET z == ApplyAttr(s, s.fep.attrPty)
      attr == LastSgr(s.fep.sgrCodes, s.fep.attrPty, str, rest)
  IN [z EXCEPT !.tty = PlayAll(@, str),
               !.fep.attrPty = attr, !.fep.attr = attr,
               !.fep.cursor = Unknown, !.fep.cursorText = <<>>]

(* Mutants of StringFromPty: fep->attr is not set to what the child has    *)
(* set; the cursor text is not drawn again.                                *)
StringFromPtyKeepsAttr(s, str, rest) ==
  LET z == [WritePty(s, str, rest) EXCEPT !.fep.attr = ApplyAttr(s, s.fep.attrPty).fep.attr]
  IN CASE str = <<>> -> s
       [] str # <<>> /\ s.fep.cursorText = <<>> -> z
       [] OTHER -> CursorText(z, s.fep.cursorText, s.fep.cursorAttr)

StringFromPtyForgetsText(s, str, rest) ==
  IF str = <<>> THEN s
  ELSE [WritePty(s, str, rest) EXCEPT !.fep.cursorText = s.fep.cursorText]

(* _fep_output_string_from_pty *)
StringFromPty(s, str, rest) ==
  CASE str = <<>> -> s
    [] str # <<>> /\ s.fep.cursorText = <<>> -> WritePty(s, str, rest)
    [] OTHER -> CursorText(WritePty(s, str, rest), s.fep.cursorText, s.fep.cursorAttr)

(* Mutant of ClearEnd: clr_eos is not looked for. *)
ClearEndOfScreen(out) ==
  LET ends == {i \in DOMAIN out :
                 i > 1 /\ out[i].op = "erase" /\ out[i - 1].op = "home"}
  IN IF ends = {} THEN 0 ELSE CHOOSE i \in ends : \A j \in ends : j <= i

(* The later of the ends of the last clear_screen and the last clr_eos in  *)
(* what was read (find_match_end); 0 without any.  clear_screen is home    *)
(* and erase.                                                              *)
ClearEnd(out) ==
  LET ends == {i \in DOMAIN out :
                 \/ out[i].op = "eos"
                 \/ i > 1 /\ out[i].op = "erase" /\ out[i - 1].op = "home"}
  IN IF ends = {} THEN 0 ELSE CHOOSE i \in ends : \A j \in ends : j <= i

(* main_loop: the status text is drawn again behind the last clear. *)
FromPty(s, out) ==
  LET k == ClearEnd(out)
      str1 == SubSeq(out, 1, k)
      str2 == SubSeq(out, k + 1, Len(out))
      z == StringFromPty(s, str1, str2)
  IN IF k = 0 THEN StringFromPty(s, out, <<>>)
     ELSE StringFromPty(StatusText(z, z.fep.statusText, z.fep.statusAttr), str2, <<>>)

(* _fep_output_init_screen, on what fep_new and fep_run have set up. *)
InitScreen(rows) ==
  LET zero == [type |-> "underline", value |-> 0, start |-> 0, end |-> 0]
      s == [tty |-> NewTty(rows),
            fep |-> [wsRow |-> rows - 1, sgrCodes |-> GetSgrCodes,
                     attr |-> EmptyAttr, attrPty |-> EmptyAttr,
                     cursor |-> Home0, cursorSave |-> Home0,
                     cursorText |-> <<>>, cursorAttr |-> zero,
                     statusText |-> <<>>, statusAttr |-> zero]]
      z == ChangeScrollRegion(s, rows - 2)
  IN StatusText([z EXCEPT !.tty = EraseAll(Goto(@, 0, 0)), !.fep.cursor = Unknown],
                <<>>, zero)

(* _fep_output_set_screen_size *)
SetScreenSize(s, row) ==
  LET z == ChangeScrollRegion(Save(s), row - 1)
  IN Restore(StatusText(z, z.fep.statusText, z.fep.statusAttr))

(* done, in fep.c *)
LeaveScreen(s) ==
  LET z == Restore(ChangeScrollRegion(s, s.fep.wsRow))
  IN IF s.fep.cursor.row < 0 THEN [z EXCEPT !.tty = LineFeed(@)] ELSE z

-----------------------------------------------------------------------------
Init ==
  /\ \E rows \in Sizes :
       /\ tty = InitScreen(rows).tty
       /\ fep = InitScreen(rows).fep
       /\ plain = NewTty(rows - 1)
  /\ last = "init"
  /\ stray = FALSE
  /\ erased = FALSE
  /\ steps = 0

(* A step of the given kind that leaves the screen as s. *)
Step(kind, s) ==
  /\ last # "done" /\ steps < MaxSteps
  /\ steps' = steps + 1
  /\ last' = kind
  /\ tty' = s.tty
  /\ fep' = s.fep

Now == [tty |-> tty, fep |-> fep]

(* The child writes, and fep reads it in one go. *)
ChildWrites(out) ==
  /\ Step("child", FromPty(Now, out))
  /\ plain' = PlayAll(plain, out)
  /\ stray' = (stray \/ fep.cursorText # <<>>)
  /\ LET k == ClearEnd(out) IN
     erased' = \/ k = 0 /\ erased
               \/ \E i \in k + 1 .. Len(out) : out[i].op = "erase"

(* command_set_cursor_text and command_set_status_text, in control.c *)
SetCursorText(text, a) ==
  /\ Step("cursor", CursorText(Now, text, ReadAttributeArg(a)))
  /\ UNCHANGED <<plain, stray, erased>>

SetStatusText(text, a) ==
  /\ Step("status", StatusText(Now, text, ReadAttributeArg(a)))
  /\ erased' = FALSE
  /\ UNCHANGED <<plain, stray>>

(* The window gets another size, and handle_winch_signal follows: the      *)
(* screen is set to the size of before.  From here on plain is a terminal  *)
(* that looks as this one does.                                            *)
Winch(rows) ==
  LET s == SetScreenSize([tty |-> ResizeTty(tty, rows),
                          fep |-> [fep EXCEPT !.wsRow = rows - 1]], fep.wsRow)
      fresh == [s EXCEPT !.tty.spilled = FALSE, !.tty.astray = FALSE]
  IN /\ Step("winch", fresh)
     /\ plain' = [fresh.tty EXCEPT !.rows = rows - 1, !.bot = rows - 2]
     /\ stray' = (stray \/ fep.cursorText # <<>> \/ tty.spilled)
     /\ erased' = FALSE

Done ==
  /\ Step("done", LeaveScreen(Now))
  /\ UNCHANGED <<plain, stray, erased>>

Next ==
  \/ \E out \in Outputs : ChildWrites(out)
  \/ \E text \in Texts, a \in Attributes : SetCursorText(text, a)
  \/ \E text \in Texts, a \in Attributes : SetStatusText(text, a)
  \/ \E rows \in Sizes : Winch(rows)
  \/ Done

Spec == Init /\ [][Next]_screenVars

-----------------------------------------------------------------------------
Position == [row : -1 .. MaxRows - 1, col : -1 .. Cols]

FepState ==
  [wsRow : 1 .. MaxRows - 1, sgrCodes : [DOMAIN NameCode -> Int],
   attr : SgrAttr, attrPty : SgrAttr,
   cursor : Position, cursorSave : Position,
   cursorText : Seq(Char), cursorAttr : Attribute,
   statusText : Seq(Char), statusAttr : Attribute]

Terminal ==
  [rows : 1 .. MaxRows, bot : 0 .. MaxRows - 1,
   cells : [0 .. MaxRows - 1 -> [0 .. Cols - 1 -> Cell]],
   cur : [row : 0 .. MaxRows - 1, col : 0 .. Cols], sgr : SgrAttr,
   slot : [cur : [row : 0 .. MaxRows - 1, col : 0 .. Cols], sgr : SgrAttr,
           who : {"child", "fep"}],
   spilled : BOOLEAN, astray : BOOLEAN]

(* Neither terminal's cursor leaves its screen, whatever the child and the *)
(* clients write and however the window's size changes.                    *)
TypeOK ==
  /\ tty \in Terminal /\ tty.cur.row < tty.rows
  /\ fep \in FepState
  /\ plain \in Terminal /\ plain.cur.row < plain.rows
  /\ last \in {"init", "child", "cursor", "status", "winch", "done"}
  /\ stray \in BOOLEAN /\ erased \in BOOLEAN
  /\ steps \in 0 .. MaxSteps

(* The scroll region is the child's lines.  After the size has changed it  *)
(* is not, until SIGWINCH comes once more.                                 *)
RegionRight == tty.bot = fep.wsRow - 1 /\ last # "done"

(* Undisturbed: the child has not used a position saved by fep.            *)
Undisturbed == RegionRight /\ ~tty.astray

(* Of a text without attribute, what is before start_index is not written. *)
Complete(text, a) == a.type # "none" \/ Lesser(a.start, a.end) = 0 \/ text = <<>>

(* The last line of the terminal shows the status text, from its first     *)
(* column and cut at the last one, and nothing else: whatever the child    *)
(* writes, scrolls and clears, and wherever cursor texts are drawn; unless *)
(* the child has erased the screen with something else than what terminfo  *)
(* has for it (_fep_output_status_text, and str1 in main_loop).            *)
StatusShown ==
  RegionRight /\ ~erased /\ Complete(fep.statusText, fep.statusAttr) =>
    \A c \in 0 .. Cols - 1 :
      tty.cells[fep.wsRow][c].ch =
        IF c < Len(fep.statusText) THEN fep.statusText[c + 1] ELSE " "

(* The child's next character goes where it would go if the child had the  *)
(* terminal for itself: save_cursor and restore_cursor in                  *)
(* _fep_output_status_text and _fep_output_cursor_text pair up, whatever   *)
(* is between them.                                                        *)
CursorKept == Undisturbed => tty.cur = plain.cur

(* "Restore cursor text that might be overwritten with str above"          *)
(* (_fep_output_string_from_pty): behind the cursor is the cursor text,    *)
(* after everything the child writes, too, if there is room for it and the *)
(* line is not that of the status text.                                    *)
CursorTextShown ==
  /\ RegionRight /\ last \in {"child", "cursor"}
  /\ Complete(fep.cursorText, fep.cursorAttr)
  /\ tty.cur.col + Len(fep.cursorText) <= Cols
  => \A i \in DOMAIN fep.cursorText :
       LET cell == tty.cells[tty.cur.row][tty.cur.col + i - 1]
       IN cell.who = "cursor" /\ cell.ch = fep.cursorText[i]

(* When a client takes its cursor text back nothing of it stays behind,    *)
(* if the child has not written in between and it was not too long.        *)
CursorTextGone ==
  fep.cursorText = <<>> /\ ~stray /\ ~tty.spilled =>
    \A r \in 0 .. fep.wsRow - 1, c \in 0 .. Cols - 1 :
      tty.cells[r][c].who = "cursor" => tty.cells[r][c].ch = " "

ChildCells ==
  {rc \in (0 .. fep.wsRow - 1) \X (0 .. Cols - 1) :
     tty.cells[rc[1]][rc[2]].who # "cursor"}

(* Where no cursor text has been drawn the screen shows what the child has *)
(* written there, and every character of the child is in its place or      *)
(* under a cursor text.                                                    *)
ChildTextKept ==
  Undisturbed /\ ~tty.spilled =>
    \A rc \in ChildCells :
      tty.cells[rc[1]][rc[2]].ch = plain.cells[rc[1]][rc[2]].ch

(* The four attributes can be set one by one: the terminal has the         *)
(* capabilities, and each is an SGR that takes nothing away.               *)
EnteringAdds ==
  \A e \in {"enter_underline", "enter_standout", "enter_bold", "enter_blink"} :
    GetSgrCodes[e] \notin {0, 22, 24, 25, 27}

(* A character of the child has at least the attributes that the child has *)
(* set for it, though fep sets and resets attributes for its own texts     *)
(* (attr, attr_tty and attr_pty of struct Fep).  It may have more.         *)
NothingLost ==
  Undisturbed /\ ~tty.spilled =>
    \A rc \in ChildCells :
      plain.cells[rc[1]][rc[2]].sgr.attr \subseteq tty.cells[rc[1]][rc[2]].sgr.attr

(* A character that the child writes in bold is bold and nothing else:     *)
(* FEP_SGR_ATTR_BOLD is a bit of its own in fep/private.h.                 *)
BoldStaysBold ==
  Undisturbed /\ ~tty.spilled =>
    \A rc \in ChildCells :
      LET want == plain.cells[rc[1]][rc[2]].sgr.attr
      IN want = {BOLD} => tty.cells[rc[1]][rc[2]].sgr.attr = want
=============================================================================
