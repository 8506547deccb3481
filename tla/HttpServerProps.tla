--------------------------- MODULE HttpServerProps ----------------------------
(* What the HTTP server promises.                                            *)
EXTENDS HttpServer, SequencesExt

\* A handler has its socket and has not closed it.
Bound == {"recv", "parsed", "header", "missing", "openpage", "nopage", "stream", "close"}

\* However late a handler starts, its descriptor is that of its own connection, until it
\* closes it itself; and no file is open under the number of a socket.
OwnDescriptor ==
  \A t \in Conn :
    /\ At(t, "start") => args[t] \in Fd /\ fdTab[args[t]] = t
    /\ pc[t] \in Bound => fd[t] \in Fd /\ fdTab[fd[t]] = t
    /\ \A f \in Fd : file[t] = f => fdTab[f] = None /\ \A u \in Conn \ {t} : file[u] # f

\* Every connection still open is served, is the one main() is dealing with, or is one whose
\* thread could not be created; every open file is being sent. No path forgets to close.
NothingLeftOpen ==
  /\ \A f \in Fd : fdTab[f] # None =>
       \/ pc[fdTab[f]] \in Bound \cup {"start", "orphan"}
       \/ At(Main, "create") /\ fdTab[f] = conn /\ f = fd[Main]
  /\ \A t \in Conn : file[t] # None => pc[t] \in {"header", "stream"}

\* The response to a request: one status line and the file, or the error page; without an
\* error page, the status line twice.
Body(n) == [k \in 1..Chunks[n] |-> Buffer(n, k)]
Response(r) ==
  IF r = Unsupported THEN <<StatusLine("501")>>
  ELSE IF FullPath(r) \in Files THEN <<StatusLine("200")>> \o Body(FullPath(r))
  ELSE IF Page \in Files THEN <<StatusLine("404")>> \o Body(Page)
  ELSE <<StatusLine("404"), StatusLine("404")>>

\* On every connection goes out the response to its own request, from the beginning and in
\* order, nothing before the request, and all of it before the socket is closed, whatever the
\* other handlers send meanwhile. Only a handler that finds no descriptor for a file that exists
\* sends another response.
ResponseUnlessExhausted ==
  Up => \A t \in Conn \ exhausted :
    IF request[t] = None THEN sent[t] = <<>>
    ELSE /\ IsPrefix(sent[t], Response(request[t]))
         /\ pc[t] \in {"close", "done"} => sent[t] = Response(request[t])

\* The server implements Connections: a connection is open while a descriptor names it, and
\* served while its thread holds that descriptor.
IsOpen(c) == \E f \in Fd : fdTab[f] = c
IsServed(c) == pc[c] \in Bound /\ fd[c] \in Fd /\ fdTab[fd[c]] = c
PhaseOf(c) ==
  IF ~Up \/ (~IsOpen(c) /\ (c \in gone \/ ~At(c, "none"))) THEN "closed"
  ELSE IF ~IsOpen(c) THEN "new"
  ELSE IF pc[c] \in {"none", "orphan"} THEN "accepted"
  ELSE IF IsServed(c) THEN "served" ELSE "started"
Abstract == INSTANCE Connections WITH phase <- [c \in Conn |-> PhaseOf(c)], up <- Up
ImplementsConnections == Abstract!Spec
===============================================================================
