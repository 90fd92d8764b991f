------------------------------- MODULE FepTty -------------------------------
(***************************************************************************)
(* The terminal that fep writes to, external: as much of an xterm as the   *)
(* sequences that fep and the child use can observe.  Columns are counted  *)
(* from 0; the cursor is in column Cols when the last column of a line has *)
(* been written and the next character will wrap.  A cell remembers who    *)
(* has written it.                                                         *)
(***************************************************************************)
EXTENDS FepSgr

CONSTANTS
  Cols,       \* columns
  MaxRows,    \* rows, at most
  Char        \* characters, of one column each

ASSUME SizeAssumption == Cols \in Nat \ {0} /\ MaxRows \in Nat \ {0, 1}

ASSUME CharAssumption == " " \in Char

Writer == {"nobody", "child", "cursor", "status"}

Cell == [who : Writer, ch : Char, sgr : SgrAttr]

Blank == [who |-> "nobody", ch |-> " ", sgr |-> EmptyAttr]

BlankRow == [c \in 0 .. Cols - 1 |-> Blank]

Home0 == [row |-> 0, col |-> 0]

(* A terminal that is switched on.  spilled and astray are history: text   *)
(* of fep has gone beyond the last column; the child has gone back to a    *)
(* position that fep had saved.                                            *)
NewTty(rows) ==
  [rows |-> rows,
   bot |-> rows - 1,                      \* last row of the scroll region
   cells |-> [r \in 0 .. MaxRows - 1 |-> BlankRow],
   cur |-> Home0,
   sgr |-> EmptyAttr,
   slot |-> [cur |-> Home0, sgr |-> EmptyAttr, who |-> "child"],
   spilled |-> FALSE,
   astray |-> FALSE]

Lesser(a, b) == IF a < b THEN a ELSE b

-----------------------------------------------------------------------------
Goto(t, row, col) == [t EXCEPT !.cur = [row |-> row, col |-> col]]

LineFeed(t) ==
  IF t.cur.row = t.bot
    THEN [t EXCEPT !.cells =
            [r \in DOMAIN @ |-> IF r < t.bot THEN @[r + 1]
                                ELSE IF r = t.bot THEN BlankRow ELSE @[r]]]
    ELSE [t EXCEPT !.cur.row = Lesser(@ + 1, t.rows - 1)]

Put(t, who, ch) ==
  LET w == IF t.cur.col = Cols THEN Goto(LineFeed(t), LineFeed(t).cur.row, 0) ELSE t
  IN [w EXCEPT !.cells[w.cur.row][w.cur.col] = [who |-> who, ch |-> ch, sgr |-> w.sgr],
               !.cur.col = @ + 1,
               !.spilled = @ \/ (who # "child" /\ t.cur.col = Cols)]

PutAll(t, who, str) == FoldLeft(LAMBDA u, ch : Put(u, who, ch), t, str)

NewLine(t) == Goto(LineFeed(t), LineFeed(t).cur.row, 0)

(* clr_eol, clr_eos, and the whole screen. *)
EraseLine(t) ==
  [t EXCEPT !.cells[t.cur.row] =
     [c \in DOMAIN @ |-> IF c < Lesser(t.cur.col, Cols - 1) THEN @[c] ELSE Blank]]

EraseBelow(t) ==
  [EraseLine(t) EXCEPT !.cells =
     [r \in DOMAIN @ |-> IF r <= t.cur.row THEN @[r] ELSE BlankRow]]

EraseAll(t) == [t EXCEPT !.cells = [r \in DOMAIN @ |-> BlankRow]]

(* change_scroll_region moves the cursor, too. *)
ScrollRegion(t, end) == [Goto(t, 0, 0) EXCEPT !.bot = Lesser(end, t.rows - 1)]

(* save_cursor and restore_cursor: there is one slot, and the attributes   *)
(* of the characters to come are in it.                                    *)
SaveCursor(t, who) == [t EXCEPT !.slot = [cur |-> t.cur, sgr |-> t.sgr, who |-> who]]

RestoreCursor(t, who) ==
  [t EXCEPT !.cur = t.slot.cur, !.sgr = t.slot.sgr,
            !.astray = @ \/ (who = "child" /\ t.slot.who # "child")]

(* SGR as the terminal understands it: one parameter, and all of them.     *)
ApplySgr(a, p) ==
  CASE p = 0 -> EmptyAttr
    [] p = 1 -> [a EXCEPT !.attr = @ \cup {BOLD}]
    [] p = 4 -> [a EXCEPT !.attr = @ \cup {UNDERLINE}]
    [] p = 5 -> [a EXCEPT !.attr = @ \cup {BLINK}]
    [] p = 7 -> [a EXCEPT !.attr = @ \cup {STANDOUT}]
    [] p = 22 -> [a EXCEPT !.attr = @ \ {BOLD}]
    [] p = 24 -> [a EXCEPT !.attr = @ \ {UNDERLINE}]
    [] p = 25 -> [a EXCEPT !.attr = @ \ {BLINK}]
    [] p = 27 -> [a EXCEPT !.attr = @ \ {STANDOUT}]
    [] p \in 30 .. 37 -> [a EXCEPT !.fg = p]
    [] p = 39 -> [a EXCEPT !.fg = 0]
    [] p \in 40 .. 47 -> [a EXCEPT !.bg = p - 10]
    [] p = 49 -> [a EXCEPT !.bg = 0]
    [] OTHER -> a

ApplyAll(a, params) == FoldLeft(ApplySgr, a, params)

Render(t, params) ==
  [t EXCEPT !.sgr = IF params = <<>> THEN EmptyAttr ELSE ApplyAll(@, params)]

(* The window gets another size: rows that are gone are lost, and the      *)
(* scroll region is the whole screen again.                                *)
ResizeTty(t, rows) ==
  [t EXCEPT !.rows = rows, !.bot = rows - 1,
            !.cur.row = Lesser(@, rows - 1), !.slot.cur.row = Lesser(@, rows - 1),
            !.cells = [r \in DOMAIN @ |-> IF r < rows THEN @[r] ELSE BlankRow]]

-----------------------------------------------------------------------------
(* What the child writes: characters and control sequences, with the       *)
(* number of their bytes.                                                  *)
Token == [op : {"text", "newline", "home", "erase", "eos", "sgr", "save", "restore"},
          ch : Char, params : Seq(Nat), bytes : Nat \ {0}]

Play(t, token) ==
  CASE token.op = "text" -> Put(t, "child", token.ch)
    [] token.op = "newline" -> NewLine(t)
    [] token.op = "home" -> Goto(t, 0, 0)
    [] token.op = "erase" -> EraseAll(t)
    [] token.op = "eos" -> EraseBelow(t)
    [] token.op = "sgr" -> Render(t, token.params)
    [] token.op = "save" -> SaveCursor(t, "child")
    [] token.op = "restore" -> RestoreCursor(t, "child")

PlayAll(t, tokens) == FoldLeft(Play, t, tokens)
=============================================================================
