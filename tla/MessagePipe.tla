----------------------------- MODULE MessagePipe -----------------------------
(***************************************************************************)
(* What a connection promises to the inspector that writes to it: messages *)
(* come out in the order in which they were accepted, each at most once,   *)
(* until the pipe breaks; a broken pipe delivers nothing more.             *)
(* TcpConnection implements it.                                            *)
(***************************************************************************)
EXTENDS Naturals, Sequences

CONSTANT Messages

VARIABLES
  waiting,    \* accepted and not delivered, oldest first
  delivered,  \* delivered, oldest first
  broken      \* the pipe delivers nothing more

vars == <<waiting, delivered, broken>>

Init ==
  /\ waiting = <<>>
  /\ delivered = <<>>
  /\ broken \in BOOLEAN

Accept(m) ==
  /\ waiting' = Append(waiting, m)
  /\ UNCHANGED <<delivered, broken>>

Deliver ==
  /\ ~broken
  /\ waiting # <<>>
  /\ delivered' = Append(delivered, Head(waiting))
  /\ waiting' = Tail(waiting)
  /\ UNCHANGED broken

\* The message at the front may be lost when the pipe breaks.
Break ==
  /\ broken' = TRUE
  /\ waiting' \in {waiting, IF waiting = <<>> THEN waiting ELSE Tail(waiting)}
  /\ UNCHANGED delivered

Next == (\E m \in Messages : Accept(m)) \/ Deliver \/ Break

Spec == Init /\ [][Next]_vars
==============================================================================
