------------------------------- MODULE FepCsi -------------------------------
(***************************************************************************)
(* fep/csi.c, and the functions of libfep/string.c that take a control     *)
(* sequence apart: escape sequences as sequences of bytes.                 *)
(*                                                                         *)
(*   ESC introducer P...P I...I F                                          *)
(*                                                                         *)
(* A string ends where its sequence ends; byte 0 does not occur in it.     *)
(***************************************************************************)
EXTENDS Integers, Sequences, FiniteSets, SequencesExt

Byte == 0 .. 255

ESC == 27
SEMI == 59

PBytes == 48 .. 63      \* parameter bytes
IBytes == 32 .. 47      \* intermediate bytes

NoCSI == [params |-> <<>>, intermediate |-> <<>>, final |-> 0, len |-> 0]

(* Where the run of elements of S that begins at i ends. *)
RunEnd(s, i, S) == i + Cardinality({k \in i .. Len(s) : \A j \in i .. k : s[j] \in S})

(* Mutant of CSIParse: the first byte is not compared with ESC. *)
CSIParseAnyFirst(s, introducer) ==
  IF Len(s) < 3 \/ s[2] # introducer THEN NoCSI
  ELSE LET i == RunEnd(s, 3, PBytes)
           f == RunEnd(s, i, IBytes)
       IN IF f > Len(s) THEN NoCSI
          ELSE [params |-> SubSeq(s, 3, i - 1),
                intermediate |-> SubSeq(s, i, f - 1),
                final |-> s[f],
                len |-> f]

(* The sequence at the beginning of s, with its length; NoCSI is the NULL. *)
(* A sequence that s does not contain to its end is none.                  *)
CSIParse(s, introducer) ==
  IF Len(s) < 3 \/ s[1] # ESC \/ s[2] # introducer THEN NoCSI
  ELSE LET i == RunEnd(s, 3, PBytes)
           f == RunEnd(s, i, IBytes)
       IN IF f > Len(s) THEN NoCSI
          ELSE [params |-> SubSeq(s, 3, i - 1),
                intermediate |-> SubSeq(s, i, f - 1),
                final |-> s[f],
                len |-> f]

(* A byte 0 ends the string that is formatted. *)
CSIFormat(csi) ==
  <<ESC, 91>> \o csi.params \o csi.intermediate
    \o (IF csi.final = 0 THEN <<>> ELSE <<csi.final>>)

(* The tokens of s between the bytes d; an empty one at the end of s is    *)
(* not a token.                                                            *)
SplitAt(d, z, b) ==
  IF b = d THEN [tokens |-> Append(z.tokens, z.rest), rest |-> <<>>]
  ELSE [z EXCEPT !.rest = Append(@, b)]

StrSplit(s, d) ==
  LET z == FoldLeft(LAMBDA y, b : SplitAt(d, y, b), [tokens |-> <<>>, rest |-> <<>>], s)
  IN IF z.rest = <<>> THEN z.tokens ELSE Append(z.tokens, z.rest)

(* strtoul of a token of digits; of an empty one it is 0. *)
Number(token) == FoldLeft(LAMBDA n, b : 10 * n + (b - 48), 0, token)
=============================================================================
