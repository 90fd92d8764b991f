---------------------------- MODULE MCFepSystem ----------------------------
(* Values of the constants for the runs of FepSystem. *)
EXTENDS FepSystem, TLC

CONSTANTS Keys, Resizes, Terms, Stops, HangUps, Outputs, Exits

MCBudget ==
  [e \in Event |->
     CASE e = "key" -> Keys [] e = "resize" -> Resizes [] e = "term" -> Terms
       [] e = "tstp" -> Stops [] e = "hangup" -> HangUps
       [] e = "output" -> Outputs [] e = "exit" -> Exits]

Symmetry == Permutations(Conn)
=============================================================================
