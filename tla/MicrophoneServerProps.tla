------------------------- MODULE MicrophoneServerProps ------------------------
(* What the music server with a microphone promises.                         *)
EXTENDS MicrophoneServer

\* A thread has its socket and has not closed it; it is using the device.
Capture == {"read", "send", "drain"}
Bound == {"greet", "recv", "open", "stream", "microphone", "close"} \cup Capture
Serving == {t \in Conn : pc[t] \in Bound \cup {"start"}}

\* Each thread talks to the connection it was started for, however late it starts and
\* whatever main() accepts meanwhile, and descriptors are not closed under it.
OwnDescriptor ==
  \A t \in Conn : /\ At(t, "start") => args[t] \in Fd /\ fdTab[args[t]] = t
                  /\ pc[t] \in Bound => client_socket[t] \in Fd /\ fdTab[client_socket[t]] = t

\* Every connection still open is being served, or is the one main() is dealing with, and a
\* capture stream belongs to a thread that uses it: no path, early exits included, forgets to
\* close either, and none reads a stream that it has closed.
NothingLeftOpen ==
  /\ \A fd \in Fd : fdTab[fd] # None =>
       \/ fdTab[fd] \in Serving
       \/ At(Main, "create") /\ fdTab[fd] = conn /\ fd = client_socket[Main]
  /\ capturing = {t \in Conn : pc[t] \in Capture}

\* What a client hears is what the microphone heard, period after period: a period lost to an
\* overrun, because the client was too slow, is never skipped over.
RecordingUnbroken ==
  [][Up' => \A t \in Conn : heard'[t] \in {heard[t], (heard[t] + 1) % Wrap}]_vars

\* The thread of a client that has gone ends, or the process does, also while it listens to
\* the microphone: nobody waits for it and the device is free again.
GoneLeft == \A t \in Conn : t \in gone /\ t \in Serving ~> t \notin Serving

\* The server implements Connections: a connection is open while a descriptor names it, and
\* served while its thread holds that descriptor.
IsOpen(c) == \E fd \in Fd : fdTab[fd] = c
IsServed(c) == pc[c] \in Bound /\ client_socket[c] \in Fd /\ fdTab[client_socket[c]] = c
PhaseOf(c) ==
  IF ~Up \/ (~IsOpen(c) /\ (c \in gone \/ ~At(c, "none"))) THEN "closed"
  ELSE IF ~IsOpen(c) THEN "new"
  ELSE IF At(c, "none") THEN "accepted"
  ELSE IF IsServed(c) THEN "served" ELSE "started"
Abstract == INSTANCE Connections WITH phase <- [c \in Conn |-> PhaseOf(c)], up <- Up
ImplementsConnections == Abstract!Spec
===============================================================================
