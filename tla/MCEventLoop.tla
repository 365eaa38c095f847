---------------------------- MODULE MCEventLoop ----------------------------
(* EventLoop on small instances; the bounds are given values in the .cfg files. *)
EXTENDS EventLoop

MCDelays == {-1, 0, 1}
MCMinDue == -1
=============================================================================
