----------------------------- MODULE FepChannel -----------------------------
(***************************************************************************)
(* What a control connection promises in one direction, and what the       *)
(* sockets of FepSocket take for granted: whole messages arrive, in the    *)
(* order they were written, and neither the death of the writer within a   *)
(* message nor the way reads and writes are cut makes a message of         *)
(* anything that was not written as one.                                   *)
(***************************************************************************)
EXTENDS Naturals, Sequences

CONSTANT Message

VARIABLES
  written,    \* the messages that the writer has completed
  received    \* the messages that the reader has returned

ChannelInit == written = <<>> /\ received = <<>>

Write(m) == written' = Append(written, m) /\ UNCHANGED received

Read ==
  /\ Len(received) < Len(written)
  /\ received' = Append(received, written[Len(received) + 1])
  /\ UNCHANGED written

ChannelNext == (\E m \in Message : Write(m)) \/ Read

ChannelSpec == ChannelInit /\ [][ChannelNext]_<<written, received>>
=============================================================================
