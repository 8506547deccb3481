--------------------------- MODULE MusicServerProps ---------------------------
(* What the music server promises, and what its texts say of it.             *)
EXTENDS MusicServer

Bound == {"greet", "recv", "open", "stream"}     \* has its socket, has not closed it
Serving == {t \in Conn : pc[t] \in Bound \cup {"start"}}
Counted == {t \in Conn : \/ pc[t] \in Bound \cup {"start", "load", "store", "abandoned"}
                         \/ At(Main, "create") /\ t = conn}

\* Each thread talks to the connection it was started for, however late it starts and
\* whatever main() accepts meanwhile, and descriptors are not closed under it.
OwnDescriptor ==
  \A t \in Conn : /\ At(t, "start") => args[t] \in Fd /\ fdTab[args[t]] = t
                  /\ pc[t] \in Bound => client_socket[t] \in Fd /\ fdTab[client_socket[t]] = t

\* Every connection still open is being served, or is the one main() is dealing with:
\* no path, early exits included, forgets to close.
NothingLeftOpen ==
  \A fd \in Fd : fdTab[fd] # None =>
    \/ fdTab[fd] \in Serving
    \/ pc[Main] \notin {"accept"} /\ fdTab[fd] = conn /\ fd = client_socket[Main]

\* no_connections counts the connections admitted and not yet given back, where those that
\* ended early are never given back; unless an update has been lost.
CountAccounted == updates = "lost" \/ no_connections = Cardinality(Counted)

\* A late store of "--" can undo increments, never the test made before one: the counter
\* stays within the limit even when updates are lost.
CountBounded == no_connections <= max_connections \/ no_connections <= 0

\* The thread of a client that has gone ends, or the process does: nobody waits for it.
GoneLeft == \A t \in Conn : t \in gone /\ t \in Serving ~> t \notin Serving

\* The server implements Connections: a connection is open while a descriptor names it, and
\* served while its thread holds that descriptor.
IsOpen(c) == \E fd \in Fd : fdTab[fd] = c
IsServed(c) == pc[c] \in Bound /\ client_socket[c] \in Fd /\ fdTab[client_socket[c]] = c
PhaseOf(c) ==
  IF ~Up \/ (~IsOpen(c) /\ (c \in gone \/ ~At(c, "none"))) THEN "closed"
  ELSE IF ~IsOpen(c) THEN "new"
  ELSE IF At(c, "none") THEN "accepted"
  ELSE IF IsServed(c) THEN "served" ELSE "started"
Abstract == INSTANCE Connections WITH phase <- [c \in Conn |-> PhaseOf(c)], up <- Up
ImplementsConnections == Abstract!Spec
===============================================================================
