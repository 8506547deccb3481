------------------------------ MODULE HttpServer ------------------------------
(***************************************************************************)
(* The HTTP server, final_submission/.../Q2/serverQ2_cs21b016_cs21b019.c:   *)
(* main() starts a detached handle_request thread for every connection and *)
(* never looks at pthread_create()'s result; a thread reads one request,   *)
(* sends one response and closes. send()'s result is never looked at.      *)
(*                                                                         *)
(* Sockets and files share one table of descriptors, so a file may not be  *)
(* found because too many connections are open. A step is what a thread    *)
(* does up to its next use of the table, the network or the disk. The      *)
(* definitions named ...Shared, ...Leaky, ...TooLate, ... are plausible bugs, *)
(* used only to see that a property would notice them.                     *)
(***************************************************************************)
EXTENDS Integers, Sequences

CONSTANTS
  Conn,     \* connections; each also names the thread created for it
  Fd,       \* descriptors
  Path,     \* paths that requests ask for
  Chunks,   \* the files below root_dir: path |-> number of buffers it fills
  None

Files == DOMAIN Chunks
Index == "/index.html"
Page == "/404.html"
Unsupported == "unsupported"     \* a request whose method is not GET

ASSUME HttpAssumption ==
  /\ None \notin Conn \cup Fd /\ None \notin Path \cup Files \cup {Unsupported}
  /\ "main" \notin Conn \cup {None}
  /\ Fd \subseteq Nat /\ Chunks \in [Files -> Nat] /\ Unsupported \notin Path

VARIABLES
  pc,            \* of every thread: program counter
  fd,            \* of every thread: client_fd of main, fd of a handler
  args,          \* the fd in the http_request_t allocated for each thread
  request,       \* what each handler has received
  name, file,    \* the file it sends, and the descriptor it is open under
  next,          \* the number of the next buffer of it
  conn,          \* the connection main accepted last
  fdTab, gone,   \* kernel: connection behind each open socket, clients that have gone
  sent,          \* auxiliary: what has been sent on each connection
  exhausted      \* auxiliary: handlers that could not open an existing file for want of a descriptor

handler == <<request, name, file, next>>
kernel == <<fdTab, gone>>
vars == <<pc, fd, args, handler, conn, kernel, sent, exhausted>>

Main == "main"
Thread == Conn \cup {Main}
MainPc == {"accept", "create", "killed", "crashed"}
ThreadPc == {"none", "orphan", "start", "recv", "parsed", "header", "missing", "openpage",
             "nopage", "stream", "close", "done"}

Request == Path \cup {Unsupported}
Status == {"200", "404", "501"}
Item == (Status \cup Files) \X Nat     \* what is sent: a status line, or a buffer of a file
StatusLine(s) == <<s, 0>>
Buffer(n, k) == <<n, k>>

TypeOK ==
  /\ pc \in [Thread -> MainPc \cup ThreadPc] /\ fd \in [Thread -> Fd \cup {None}]
  /\ args \in [Conn -> Fd \cup {None}] /\ request \in [Conn -> Request \cup {None}]
  /\ name \in [Conn -> Files \cup {None}] /\ file \in [Conn -> Fd \cup {None}]
  /\ next \in [Conn -> Nat] /\ conn \in Conn \cup {None}
  /\ fdTab \in [Fd -> Conn \cup {None}] /\ gone \subseteq Conn
  /\ sent \in [Conn -> Seq(Item)] /\ exhausted \subseteq Conn

AllAt(p) == [x \in Thread |-> IF x = Main THEN p ELSE "none"]
Blank(S, v) == [x \in S |-> v]

Init ==
  /\ pc = AllAt("accept") /\ fd = Blank(Thread, None) /\ args = Blank(Conn, None)
  /\ request = Blank(Conn, None) /\ name = Blank(Conn, None) /\ file = Blank(Conn, None)
  /\ next = Blank(Conn, 0) /\ conn = None
  /\ fdTab = Blank(Fd, None) /\ gone = {} /\ sent = Blank(Conn, <<>>) /\ exhausted = {}

At(x, p) == pc[x] = p
Step(x, p, q) == pc[x] = p /\ pc' = [pc EXCEPT ![x] = q]

Free(f) == f \in Fd /\ fdTab[f] = None /\ \A t \in Conn : file[t] # f
Lowest(f) == Free(f) /\ \A g \in Fd : Free(g) => f <= g
Close(f) == fdTab' = [g \in Fd |-> IF g = f THEN None ELSE fdTab[g]]

\* send(): the bytes go to whatever connection the descriptor names by now.
Send(t, item) ==
  sent' = [c \in Conn |-> IF fd[t] \in Fd /\ fdTab[fd[t]] = c THEN Append(sent[c], item) ELSE sent[c]]

Hangup(c) ==
  /\ c \notin gone /\ \E f \in Fd : fdTab[f] = c
  /\ gone' = gone \cup {c}
  /\ UNCHANGED <<pc, fd, args, handler, conn, fdTab, sent, exhausted>>

-------------------------------------------------------------------------------
(* main(). When accept() fails, for want of a descriptor say, nothing changes. *)

Accept ==
  /\ Step(Main, "accept", "create")
  /\ \E c \in Conn, f \in Fd :
       /\ At(c, "none") /\ c \notin gone /\ Lowest(f)
       /\ fdTab' = [fdTab EXCEPT ![f] = c] /\ conn' = c /\ fd' = [fd EXCEPT ![Main] = f]
  /\ UNCHANGED <<args, handler, gone, sent, exhausted>>

CreateThread ==
  /\ At(Main, "create")
  /\ pc' = [pc EXCEPT ![Main] = "accept", ![conn] = "start"]
  /\ args' = [args EXCEPT ![conn] = fd[Main]]
  /\ UNCHANGED <<fd, handler, conn, kernel, sent, exhausted>>

\* pthread_create() fails: nobody serves the connection and nobody closes it. The thread id
\* that is then detached is indeterminate; pthread_detach() refuses it, or crashes (below).
CreateFails ==
  /\ At(Main, "create")
  /\ pc' = [pc EXCEPT ![Main] = "accept", ![conn] = "orphan"]
  /\ UNCHANGED <<fd, args, handler, conn, kernel, sent, exhausted>>

-------------------------------------------------------------------------------
(* handle_request()                                                          *)

HandedOverShared(t) == fd[Main]
HandedOver(t) == args[t]

Start(t) ==
  /\ Step(t, "start", "recv") /\ fd' = [fd EXCEPT ![t] = HandedOver(t)]
  /\ UNCHANGED <<args, handler, conn, kernel, sent, exhausted>>

\* Any request; also when recv() returned 0 because the client has gone, since the buffer
\* that is parsed is then uninitialised.
RecvRequest(t) ==
  /\ Step(t, "recv", "parsed")
  /\ \E r \in Request : request' = [request EXCEPT ![t] = r]
  /\ UNCHANGED <<fd, args, name, file, next, conn, kernel, sent, exhausted>>

CloseFailedLeaky(t) == UNCHANGED fdTab
CloseFailed(t) == Close(fd[t])

RecvFails(t) ==
  /\ Step(t, "recv", "done") /\ CloseFailed(t)
  /\ UNCHANGED <<fd, args, handler, conn, gone, sent, exhausted>>

AfterErrorFallsThrough == "missing"
AfterError == "close"

\* send_error(fd, 501, ...)
NotImplemented(t) ==
  /\ Step(t, "parsed", AfterError) /\ request[t] = Unsupported
  /\ Send(t, StatusLine("501"))
  /\ UNCHANGED <<fd, args, handler, conn, kernel, exhausted>>

CloseSocket(t) ==
  /\ Step(t, "close", "done") /\ Close(fd[t])
  /\ UNCHANGED <<fd, args, handler, conn, gone, sent, exhausted>>

-------------------------------------------------------------------------------
(* send_file()                                                               *)

FullPath(r) == IF r = "/" THEN Index ELSE r

Opens(n) == n \in Files /\ \E f \in Fd : Free(f)

\* fopen(n): the lowest free descriptor, from the first buffer.
Fopen(t, n) ==
  /\ Opens(n) /\ \E f \in Fd : Lowest(f) /\ file' = [file EXCEPT ![t] = f]
  /\ name' = [name EXCEPT ![t] = n] /\ next' = [next EXCEPT ![t] = 1]
  /\ UNCHANGED exhausted

FopenFails(t, n) ==
  /\ ~Opens(n) /\ exhausted' = IF n \in Files THEN exhausted \cup {t} ELSE exhausted
  /\ UNCHANGED <<name, file, next>>

OpenFile(t) ==
  /\ At(t, "parsed") /\ request[t] # Unsupported
  /\ \/ Step(t, "parsed", "header") /\ Fopen(t, FullPath(request[t]))
     \/ Step(t, "parsed", "missing") /\ FopenFails(t, FullPath(request[t]))
  /\ UNCHANGED <<fd, args, request, conn, kernel, sent>>

SendHeader(t) ==
  /\ Step(t, "header", "stream") /\ Send(t, StatusLine("200"))
  /\ UNCHANGED <<fd, args, handler, conn, kernel, exhausted>>

SendNotFound(t) ==
  /\ Step(t, "missing", "openpage") /\ Send(t, StatusLine("404"))
  /\ UNCHANGED <<fd, args, handler, conn, kernel, exhausted>>

OpenPage(t) ==
  /\ \/ Step(t, "openpage", "stream") /\ Fopen(t, Page)
     \/ Step(t, "openpage", "nopage") /\ FopenFails(t, Page)
  /\ UNCHANGED <<fd, args, request, conn, kernel, sent>>

\* send_error(fd, 404, ...), after a status line that has gone out already.
SendError404(t) ==
  /\ Step(t, "nopage", "close") /\ Send(t, StatusLine("404"))
  /\ UNCHANGED <<fd, args, handler, conn, kernel, exhausted>>

MoreToSend(t) == next[t] <= Chunks[name[t]]

SendChunk(t) ==
  /\ At(t, "stream") /\ MoreToSend(t) /\ Send(t, Buffer(name[t], next[t]))
  /\ next' = [next EXCEPT ![t] = @ + 1]
  /\ UNCHANGED <<pc, fd, args, request, name, file, conn, kernel, exhausted>>

CloseFile(t) ==
  /\ Step(t, "stream", "close") /\ ~MoreToSend(t)
  /\ file' = [file EXCEPT ![t] = None]
  /\ UNCHANGED <<fd, args, request, name, next, conn, kernel, sent, exhausted>>

-------------------------------------------------------------------------------
(* The end of the process: SIGPIPE at a send() to a client that has gone, or *)
(* pthread_detach() of an indeterminate thread id.                            *)

Up == pc[Main] \notin {"killed", "crashed"}

End(p) ==
  /\ pc' = AllAt(p) /\ fd' = Blank(Thread, None) /\ args' = Blank(Conn, None)
  /\ request' = Blank(Conn, None) /\ name' = Blank(Conn, None) /\ file' = Blank(Conn, None)
  /\ next' = Blank(Conn, 0) /\ conn' = None /\ fdTab' = Blank(Fd, None)
  /\ sent' = Blank(Conn, <<>>) /\ exhausted' = {} /\ UNCHANGED gone

Sending(t) ==
  \/ pc[t] \in {"header", "missing", "nopage"}
  \/ At(t, "parsed") /\ request[t] = Unsupported
  \/ At(t, "stream") /\ MoreToSend(t)
Kill(t) == Sending(t) /\ t \in gone /\ End("killed")
Crash == At(Main, "create") /\ End("crashed")

MainStep == Accept \/ CreateThread \/ CreateFails \/ Crash
SendStep(t) == NotImplemented(t) \/ SendHeader(t) \/ SendNotFound(t) \/ SendError404(t) \/ SendChunk(t)
ThreadStep(t) ==
  \/ Start(t) \/ RecvRequest(t) \/ RecvFails(t) \/ OpenFile(t) \/ OpenPage(t)
  \/ SendStep(t) \/ CloseFile(t) \/ CloseSocket(t) \/ Kill(t)

Next == Up /\ (MainStep \/ \E t \in Conn : ThreadStep(t) \/ Hangup(t))

Spec == Init /\ [][Next]_vars
===============================================================================
