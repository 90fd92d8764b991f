----------------------------- MODULE FepGClient -----------------------------
(***************************************************************************)
(* A client of fep in more detail than FepClient has it: a program that    *)
(* uses the GObject binding (libfep-glib/fepgclient.c) on libfep/client.c, *)
(* with the messages of client.c in the cells of libfep/list.c.  The       *)
(* program connects handlers to the signals of the object; they run within *)
(* fep_g_client_dispatch and may call the API.                             *)
(*                                                                         *)
(* fep is the environment.  What this client promises is FepClient.        *)
(***************************************************************************)
EXTENDS FepSocket, FepList

CONSTANTS
  me,           \* the connection
  ApiCommand, MaxCalls,
  Closures,     \* Closures[s]: what GLib runs for the signal s, in order
  Rows,         \* numbers of rows that fep announces
  MaxRequests   \* bound: requests of fep

Signal == {"filter-event", "filter-key-event", "resized"}

ASSUME MeAssumption == Conn = {me}
ASSUME CallAssumption == ApiCommand \subseteq ClientRequest /\ MaxCalls \in Nat
ASSUME ClosuresAssumption == Closures \in [Signal -> Seq({"user", "default"})]
ASSUME RequestsAssumption == Rows \subseteq Nat /\ MaxRequests \in Nat

VARIABLES
  pc,         \* "idle", the signal that is being emitted, or "flush"
  todo,       \* the closures that this emission has not run to their end
  retval,     \* retval of event_filter
  request,    \* the message that is being dispatched
  heap, head, \* client->messages
  calls,      \* number of API calls made
  sent,       \* number of requests fep has sent
  told, issued, consumed,   \* histories, as in FepClient
  handled     \* history: keys for which a handler has returned TRUE

clientVars == <<pc, todo, retval, request, heap, head, calls, told, issued,
                consumed, handled>>

gclientVars == <<socketVars, clientVars, sent>>

Init ==
  /\ SocketInit
  /\ pc = "idle" /\ todo = <<>> /\ retval = FALSE
  /\ request = [cmd |-> "RESPONSE", of |-> "NONE", num |-> 0]
  /\ heap = NoCells /\ head = NULL
  /\ calls = 0 /\ sent = 0 /\ told = 0
  /\ issued = <<>> /\ consumed = {} /\ handled = {}

(* _fep_append_control_message on client->messages. *)
Queue(m) ==
  \E cell \in Cell \ DOMAIN heap :
    /\ heap' = ListAppend(heap, head, cell, m)
    /\ head' = IF head = NULL THEN cell ELSE head

-----------------------------------------------------------------------------
(* fep_g_client_new, which calls initable_init: fep_client_open, and       *)
(* event_filter is made the filter.                                        *)
fep_g_client_new ==
  /\ Connect(me)
  /\ UNCHANGED <<clientVars, sent>>

(* fep_g_client_set_cursor_text, set_status_text, send_text, send_data and *)
(* forward_key_event, outside of fep_g_client_dispatch or in a handler.    *)
Call(cmd) ==
  LET m == Request(cmd, calls + 1) IN
  /\ cli[me] = "open"
  /\ calls < MaxCalls
  /\ calls' = calls + 1
  /\ issued' = Append(issued, m)
  /\ \/ pc = "idle" /\ ClientWrite(me, m) /\ UNCHANGED <<heap, head>>
     \/ pc \in Signal /\ todo # <<>> /\ todo[1] = "user"
        /\ Queue(m) /\ UNCHANGED socketVars
  /\ UNCHANGED <<pc, todo, retval, request, told, consumed, handled, sent>>

Emit(s) == pc' = s /\ todo' = Closures[s]

(* fep_g_client_dispatch and fep_client_dispatch up to event_filter, which *)
(* emits filter-event for every event.                                     *)
Dispatch ==
  /\ cli[me] = "open" /\ pc = "idle"
  /\ ClientRead(me)
  /\ request' = Head(s2c[me])
  /\ told' = IF request'.cmd = "RESIZE_EVENT" THEN request'.num ELSE told
  /\ retval' = FALSE
  /\ Emit("filter-event")
  /\ UNCHANGED <<heap, head, calls, issued, consumed, handled, sent>>

(* Mutant of Accumulate: without an accumulator the last value counts. *)
AccumulateNothing(r) == [value |-> r, stop |-> FALSE]

(* g_signal_accumulator_true_handled: the emission stops at the first TRUE. *)
Accumulate(r) == [value |-> r, stop |-> r]

(* A closure returns.  The class's own handlers, which are the default,    *)
(* return FALSE; those of resized have no value.                           *)
ClosureReturns(r) ==
  /\ cli[me] = "open" /\ pc \in Signal /\ todo # <<>>
  /\ r => todo[1] = "user" /\ pc # "resized"
  /\ LET next == Accumulate(r) IN
     /\ retval' = IF pc = "resized" THEN retval ELSE next.value
     /\ todo' = IF next.stop THEN <<>> ELSE Tail(todo)
  /\ handled' = IF request.cmd = "KEY_EVENT" /\ r
                  THEN handled \cup {request.num} ELSE handled
  /\ UNCHANGED <<pc, request, heap, head, calls, told, issued, consumed, sent,
                 socketVars>>

(* event_filter: an event that filter-event has not handled gets a signal  *)
(* of its own.                                                             *)
SecondSignal ==
  /\ cli[me] = "open" /\ pc = "filter-event" /\ todo = <<>> /\ ~retval
  /\ Emit(IF request.cmd = "KEY_EVENT" THEN "filter-key-event" ELSE "resized")
  /\ UNCHANGED <<retval, request, heap, head, calls, told, issued, consumed,
                 handled, sent, socketVars>>

Echo == [cmd |-> "SEND_DATA", of |-> "KEY_EVENT", num |-> request.num]

(* event_filter returns: the rest of command_key_event and                 *)
(* command_resize_event, and the RESPONSE.                                 *)
FilterReturn ==
  /\ cli[me] = "open" /\ pc \in Signal /\ todo = <<>>
  /\ pc = "filter-event" => retval
  /\ IF request.cmd = "KEY_EVENT" /\ ~retval
       THEN Queue(Echo) /\ issued' = Append(issued, Echo)
       ELSE UNCHANGED <<heap, head, issued>>
  /\ ClientWrite(me, [cmd |-> "RESPONSE", of |-> request.cmd, num |-> 0])
  /\ pc' = IF head' = NULL THEN "idle" ELSE "flush"
  /\ consumed' = IF request.cmd = "KEY_EVENT" /\ retval
                   THEN consumed \cup {request.num} ELSE consumed
  /\ UNCHANGED <<todo, retval, request, calls, told, handled, sent>>

(* Mutant of Flush: one message for each dispatch. *)
FlushOne ==
  /\ cli[me] = "open" /\ pc = "flush"
  /\ ClientWrite(me, heap[head].data)
  /\ head' = heap[head].next
  /\ heap' = Release(heap, head)
  /\ pc' = "idle"
  /\ UNCHANGED <<todo, retval, request, calls, told, issued, consumed, handled, sent>>

(* One round of the loop at the end of fep_client_dispatch. *)
Flush ==
  /\ cli[me] = "open" /\ pc = "flush"
  /\ ClientWrite(me, heap[head].data)
  /\ head' = heap[head].next
  /\ heap' = Release(heap, head)
  /\ pc' = IF head' = NULL THEN "idle" ELSE "flush"
  /\ UNCHANGED <<todo, retval, request, calls, told, issued, consumed, handled, sent>>

(* fep_g_client_finalize: the last reference is given up, outside of       *)
(* fep_g_client_dispatch.                                                  *)
fep_g_client_finalize ==
  /\ pc = "idle"
  /\ ClientClose(me)
  /\ UNCHANGED <<clientVars, sent>>

Die ==
  /\ pc # "idle"
  /\ ClientClose(me)
  /\ UNCHANGED <<clientVars, sent>>

-----------------------------------------------------------------------------
(* fep, as _fep_transceive_control_message does it: one request at a time, *)
(* and it reads what comes.                                                *)
Fep ==
  \/ ServerAccept /\ UNCHANGED <<clientVars, sent>>
  \/ ServerRead(me) /\ UNCHANGED <<clientVars, sent>>
  \/ ServerGone /\ listening /\ UNCHANGED <<clientVars, sent>>
  \/ /\ srv[me] = "open" /\ sent < MaxRequests
     /\ s2c[me] = <<>> /\ pc \notin Signal
     /\ \A i \in DOMAIN c2s[me] : c2s[me][i].cmd # "RESPONSE"
     /\ \/ ServerWrite(me, Request("KEY_EVENT", sent + 1))
        \/ \E rows \in Rows : ServerWrite(me, Request("RESIZE_EVENT", rows))
     /\ sent' = sent + 1
     /\ UNCHANGED clientVars

Next ==
  \/ fep_g_client_new
  \/ \E cmd \in ApiCommand : Call(cmd)
  \/ Dispatch
  \/ \E r \in BOOLEAN : ClosureReturns(r)
  \/ SecondSignal
  \/ FilterReturn
  \/ Flush
  \/ fep_g_client_finalize
  \/ Die
  \/ Fep

Spec == Init /\ [][Next]_gclientVars

-----------------------------------------------------------------------------
(* No cell of the queue is lost and none is used after it is freed: what   *)
(* is allocated is what can be reached from client->messages, whichever    *)
(* way a dispatch goes; in particular nothing is left when it has ended.   *)
CellsOwned == Owned(heap, head) /\ (pc = "idle" => heap = NoCells)

(* While messages may be queued, _fep_list_append finds the end of the     *)
(* list.  It would not if any had been taken off before: then the prev of  *)
(* the first cell is a cell that is freed.                                 *)
AppendSafe ==
  pc \in Signal /\ head # NULL =>
    Last(heap, head) \in DOMAIN heap /\ heap[Last(heap, head)].next = NULL

(* The queue is a chain of cells, the prev of its first cell leads to the  *)
(* last one until the first is taken off, and it is empty when no dispatch *)
(* is going on.  With this, CellsOwned and AppendSafe hold.                *)
ListInv ==
  LET s == Cells(heap, head) IN
  /\ Chain(heap, head, s)
  /\ pc \in Signal /\ s # <<>> => Last(heap, head) = s[Len(s)]
  /\ pc = "idle" => s = <<>>
  /\ pc = "flush" => s # <<>>
  /\ retval \in BOOLEAN /\ pc \in Signal \cup {"idle", "flush"}

(* A key that a handler of filter-event or filter-key-event has handled is *)
(* not sent back to fep, whatever the handlers after it, those of the      *)
(* other signal and the class's own return.                                *)
HandledConsumed ==
  \A k \in handled :
    \/ k \in consumed
    \/ pc \in Signal /\ request.cmd = "KEY_EVENT" /\ request.num = k

(* This client is one of FepClient, where the queue is a sequence and the  *)
(* filter is a step.                                                       *)
Client == INSTANCE FepClient WITH
  Crashable <- Conn,
  phase     <- [c \in Conn |-> IF pc \in Signal THEN "filter" ELSE pc],
  request   <- [c \in Conn |-> request],
  messages  <- [c \in Conn |-> Elements(heap, head)],
  told      <- [c \in Conn |-> told],
  calls     <- [c \in Conn |-> calls],
  issued    <- [c \in Conn |-> issued],
  consumed  <- consumed

(* What FepSystem assumes of a client holds for a program that uses the    *)
(* binding: the RESPONSE comes before what the handlers have asked for,    *)
(* and this in its order, the key that nobody wants behind it.             *)
ImplementsClient ==
  Client!ClientInit /\ [][Client!ClientNext(me)]_(Client!clientVars)
=============================================================================
