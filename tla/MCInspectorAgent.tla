-------------------------- MODULE MCInspectorAgent --------------------------
(* InspectorAgent on small instances; the .cfg files choose the messages. *)
EXTENDS InspectorAgent
=============================================================================
