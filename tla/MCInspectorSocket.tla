------------------------- MODULE MCInspectorSocket -------------------------
(* InspectorSocket on small instances; the .cfg files choose the clients. *)
EXTENDS InspectorSocket
=============================================================================
