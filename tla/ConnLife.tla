------------------------------ MODULE ConnLife ------------------------------
(* What a TcpServer promises its client code about each connection: it is     *)
(* served, then its descriptor is closed, then the close handler is told, and *)
(* only then the object goes away.  A connection the server was asked to      *)
(* remove may go away without the handler being told.                         *)
CONSTANT Conns

VARIABLES
  life,      \* "none", "open", "closed", "notified", "gone"
  removed    \* connections removeConnection was called for

vars == <<life, removed>>

Init == life = [c \in Conns |-> "none"] /\ removed = {}

Becomes(c, s) == life' = [life EXCEPT ![c] = s] /\ UNCHANGED removed

Accept(c) == life[c] = "none" /\ Becomes(c, "open")
CloseFd(c) == life[c] = "open" /\ Becomes(c, "closed")
Notify(c) == life[c] = "closed" /\ Becomes(c, "notified") 
Reclaim(c) ==
  /\ life[c] = "notified" \/ (life[c] = "open" /\ c \in removed)
  /\ Becomes(c, "gone")

Remove(c) ==
  /\ life[c] # "none"
  /\ removed' = removed \cup {c}
  /\ UNCHANGED life

\* The close handler itself asks for the removal.
NotifyRemove(c) ==
  /\ life[c] = "closed"
  /\ life' = [life EXCEPT ![c] = "notified"]
  /\ removed' = removed \cup {c}

Next == \E c \in Conns :
  Accept(c) \/ CloseFd(c) \/ Notify(c) \/ NotifyRemove(c) \/ Reclaim(c) \/ Remove(c)

Spec == Init /\ [][Next]_vars
==============================================================================
