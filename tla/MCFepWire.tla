------------------------------ MODULE MCFepWire ------------------------------
(* Model checking of FepWire; the constants are given by the .cfg files. *)
EXTENDS FepWire
=============================================================================
