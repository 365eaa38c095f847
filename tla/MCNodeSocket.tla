--------------------------- MODULE MCNodeSocket ---------------------------
EXTENDS NodeSocket

CONSTANTS c1, c2

\* One client sends anything, the other asks for a session too.
MCSends == (c1 :> Requests \cup Frames) @@ (c2 :> {"upgrade", "refused"})
============================================================================
