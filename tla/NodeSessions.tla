--------------------------- MODULE NodeSessions ---------------------------
(***************************************************************************)
(* What Node's inspector server promises to its delegate: one session at a *)
(* time, and of each session a start, its messages, an end.  NodeSocket    *)
(* implements it; NodeAgent is driven by it.                               *)
(***************************************************************************)
EXTENDS Sequences

CONSTANTS
  Ids,  \* of sessions
  None  \* no session

VARIABLES
  open,   \* the session that was started and not ended
  calls   \* history: the calls of the delegate, in order

vars == <<open, calls>>

Init == open = None /\ calls = <<>>

StartSession(id) ==
  /\ open = None
  /\ <<"start", id>> \notin {calls[i] : i \in DOMAIN calls}
  /\ open' = id
  /\ calls' = Append(calls, <<"start", id>>)

MessageReceived(id) ==
  /\ open = id
  /\ calls' = Append(calls, <<"message", id>>)
  /\ UNCHANGED open

EndSession(id) ==
  /\ open = id
  /\ open' = None
  /\ calls' = Append(calls, <<"end", id>>)

Next == \E id \in Ids : StartSession(id) \/ MessageReceived(id) \/ EndSession(id)

Spec == Init /\ [][Next]_vars
============================================================================
