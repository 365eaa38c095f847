----------------------------- MODULE MCPromises -----------------------------
(* A small instance of Promises. *)
EXTENDS Promises
=============================================================================
