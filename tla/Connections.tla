----------------------------- MODULE Connections ------------------------------
(* What a server with one thread per connection promises: a connection is    *)
(* accepted, then turned away or given a thread of its own; the thread gets  *)
(* hold of it, serves it and closes it, once. Nobody else closes a           *)
(* connection that has a thread. The process may end at any time.            *)
CONSTANT Conn

VARIABLES phase, up
vars == <<phase, up>>

Phase == {"new", "accepted", "started", "served", "closed"}

Init == phase = [c \in Conn |-> "new"] /\ up = TRUE

Move(c, from, to) ==
  /\ phase[c] = from /\ phase' = [phase EXCEPT ![c] = to]
  /\ UNCHANGED up

Accept(c) == Move(c, "new", "accepted")
TurnAway(c) == Move(c, "accepted", "closed")
StartThread(c) == Move(c, "accepted", "started")
Serve(c) == Move(c, "started", "served")
Finish(c) == Move(c, "served", "closed")

End == up' = FALSE /\ phase' = [c \in Conn |-> "closed"]

Next ==
  /\ up
  /\ \/ \E c \in Conn : Accept(c) \/ TurnAway(c) \/ StartThread(c) \/ Serve(c) \/ Finish(c)
     \/ End

Spec == Init /\ [][Next]_vars
===============================================================================
