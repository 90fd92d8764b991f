------------------------------- MODULE FepList -------------------------------
(***************************************************************************)
(* libfep/list.c and the two loops that take messages off such a list: a   *)
(* list of cells that are allocated and freed one by one.  The prev of the *)
(* first cell is the last one, or NULL if there is no other; that of a     *)
(* cell that has become the first is not updated.                          *)
(***************************************************************************)
EXTENDS Naturals, Sequences, FiniteSets

CONSTANTS
  Cell,     \* the addresses that malloc returns
  NULL

ASSUME CellAssumption == NULL \notin Cell /\ IsFiniteSet(Cell)

(* A heap maps the cells that are allocated to what is in them. *)
NoCells == [c \in {} |-> NULL]

New(data, prev) == [data |-> data, prev |-> prev, next |-> NULL]

(* The cell that _fep_list_append takes for the last one. *)
Last(heap, head) == IF heap[head].prev # NULL THEN heap[head].prev ELSE head

(* Mutant of ListAppend: the end is not stored in the first cell. *)
ListAppendHeadless(heap, head, cell, data) ==
  LET last == IF head = NULL THEN NULL ELSE Last(heap, head) IN
  [c \in DOMAIN heap \cup {cell} |->
     IF c = cell THEN New(data, last)
     ELSE [data |-> heap[c].data,
           prev |-> heap[c].prev,
           next |-> IF c = last THEN cell ELSE heap[c].next]]

(* _fep_list_append; the new first cell is head, or cell if head is NULL.  *)
(* A write to a cell that is freed goes nowhere here.                      *)
ListAppend(heap, head, cell, data) ==
  LET last == IF head = NULL THEN NULL ELSE Last(heap, head) IN
  [c \in DOMAIN heap \cup {cell} |->
     IF c = cell THEN New(data, last)
     ELSE [data |-> heap[c].data,
           prev |-> IF c = head THEN cell ELSE heap[c].prev,
           next |-> IF c = last THEN cell ELSE heap[c].next]]

(* Mutant of Release: the cell is not freed. *)
ReleaseNothing(heap, cell) == heap

(* free (_head) *)
Release(heap, cell) == [c \in DOMAIN heap \ {cell} |-> heap[c]]

(* Following the next from head: the cell after n steps, for every n.      *)
Walk(heap, head) ==
  LET cells[n \in 0 .. Cardinality(Cell)] ==
        IF n = 0 THEN head
        ELSE IF cells[n - 1] \notin DOMAIN heap THEN NULL
        ELSE heap[cells[n - 1]].next
  IN cells

Reachable(heap, head) ==
  {Walk(heap, head)[n] : n \in 0 .. Cardinality(Cell)} \ {NULL}

(* The cells of the list, and what is in them, as sequences. *)
Cells(heap, head) ==
  [i \in 1 .. Cardinality(Reachable(heap, head)) |-> Walk(heap, head)[i - 1]]

Elements(heap, head) ==
  [i \in DOMAIN Cells(heap, head) |-> heap[Cells(heap, head)[i]].data]

(* The cells that are allocated are those of the list. *)
Owned(heap, head) == DOMAIN heap = Reachable(heap, head)

(* What is allocated are the cells s, each of them once, and following     *)
(* next from head goes through them in this order and then ends.           *)
Chain(heap, head, s) ==
  /\ DOMAIN heap = {s[i] : i \in DOMAIN s} /\ DOMAIN heap \subseteq Cell
  /\ \A i, j \in DOMAIN s : s[i] = s[j] => i = j
  /\ head = IF s = <<>> THEN NULL ELSE s[1]
  /\ \A i \in DOMAIN s :
       heap[s[i]].next = IF i = Len(s) THEN NULL ELSE s[i + 1]
=============================================================================
