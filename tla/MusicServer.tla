----------------------------- MODULE MusicServer ------------------------------
(***************************************************************************)
(* The music server, final_submission/.../Q1/serverQ1_cs21b016_cs21b019.c:  *)
(* main() accepts connections and starts a detached handle_client thread   *)
(* for each, as long as the shared counter no_connections allows it; each  *)
(* thread has its socket from a Client_args that main() allocated for it.  *)
(*                                                                         *)
(* A step is what one thread does up to its next access to shared state    *)
(* ("++" is a load, then a store) or to its next blocking call. The        *)
(* definitions named ...Shared, ...Leaky, ...TooLate, ... are plausible bugs, *)
(* used only to see that a property would notice them.                     *)
(***************************************************************************)
EXTENDS Integers, FiniteSets

CONSTANTS
  Conn,             \* connections; each also names the thread created for it
  max_connections,  \* -n
  Fd,               \* descriptors accept() may return
  MaxChunks,        \* bound: a song is at most this many buffers long
  None

ASSUME MusicAssumption ==
  /\ None \notin Conn \cup Fd /\ "main" \notin Conn \cup {None}
  /\ max_connections \in Int /\ Fd \subseteq Nat /\ MaxChunks \in Nat

VARIABLES
  pc, reg,         \* of every thread: program counter, value loaded from no_connections
  client_socket,   \* of every thread
  args,            \* the socket in the Client_args allocated for each thread
  left,            \* buffers of the song each thread has still to send
  conn,            \* the connection main accepted last
  no_connections,
  fdTab, gone,     \* kernel: connection behind each open descriptor, clients that have gone
  updates          \* auxiliary: "lost" once an update of no_connections has been overwritten

kernel == <<fdTab, gone>>
count == <<reg, no_connections, updates>>
vars == <<pc, client_socket, args, left, conn, count, kernel>>

Main == "main"
Thread == Conn \cup {Main}
MainPc == {"accept", "admit", "load", "store", "create", "exited", "killed"}
ThreadPc == {"none", "start", "greet", "recv", "open", "stream", "load", "store", "done", "abandoned"}

TypeOK ==
  /\ pc \in [Thread -> MainPc \cup ThreadPc] /\ reg \in [Thread -> Int]
  /\ client_socket \in [Thread -> Fd \cup {None}] /\ args \in [Conn -> Fd \cup {None}]
  /\ left \in [Conn -> Nat] /\ conn \in Conn \cup {None} /\ no_connections \in Int
  /\ fdTab \in [Fd -> Conn \cup {None}] /\ gone \subseteq Conn /\ updates \in {"kept", "lost"}

AllAt(p) == [x \in Thread |-> IF x = Main THEN p ELSE "none"]
Blank(S, v) == [x \in S |-> v]

Init ==
  /\ pc = AllAt("accept") /\ reg = Blank(Thread, 0)
  /\ client_socket = Blank(Thread, None) /\ args = Blank(Conn, None) /\ left = Blank(Conn, 0)
  /\ conn = None /\ no_connections = 0 /\ updates = "kept"
  /\ fdTab = Blank(Fd, None) /\ gone = {}

At(x, p) == pc[x] = p
Step(x, p, q) == pc[x] = p /\ pc' = [pc EXCEPT ![x] = q]
Close(fd) == fdTab' = [f \in Fd |-> IF f = fd THEN None ELSE fdTab[f]]

Hangup(c) ==
  /\ c \notin gone /\ \E fd \in Fd : fdTab[fd] = c
  /\ gone' = gone \cup {c}
  /\ UNCHANGED <<pc, client_socket, args, left, conn, count, fdTab>>

-------------------------------------------------------------------------------
(* no_connections: "++" and "--" of different threads may overlap.           *)

Load(x, p, q) ==
  /\ Step(x, p, q) /\ reg' = [reg EXCEPT ![x] = no_connections]
  /\ UNCHANGED <<client_socket, args, left, conn, no_connections, updates, kernel>>

Store(x, p, q, value) ==
  /\ Step(x, p, q) /\ no_connections' = value /\ reg' = [reg EXCEPT ![x] = 0]
  /\ updates' = IF reg[x] = no_connections THEN updates ELSE "lost"
  /\ UNCHANGED <<client_socket, args, left, conn, kernel>>

-------------------------------------------------------------------------------
(* main(). When accept() fails nothing changes and it is called again.       *)

Accept ==
  /\ Step(Main, "accept", "admit")
  /\ \E c \in Conn, fd \in Fd :
       /\ At(c, "none") /\ c \notin gone
       /\ fdTab[fd] = None /\ \A f \in Fd : fdTab[f] = None => fd <= f
       /\ fdTab' = [fdTab EXCEPT ![fd] = c] /\ conn' = c
       /\ client_socket' = [client_socket EXCEPT ![Main] = fd]
  /\ UNCHANGED <<args, left, count, gone>>

FullTooLate == no_connections > max_connections
Full == no_connections >= max_connections

RefuseLeaky == UNCHANGED fdTab
CloseRefused == Close(client_socket[Main])

Refuse ==
  /\ Step(Main, "admit", "accept") /\ Full /\ CloseRefused
  /\ gone' = gone \cup {conn}
  /\ UNCHANGED <<client_socket, args, left, conn, count>>

Admit ==
  /\ Step(Main, "admit", "load") /\ ~Full
  /\ UNCHANGED <<client_socket, args, left, conn, count, kernel>>

Increment == Load(Main, "load", "store") \/ Store(Main, "store", "create", reg[Main] + 1)

CreateThread ==
  /\ At(Main, "create")
  /\ pc' = [pc EXCEPT ![Main] = "accept", ![conn] = "start"]
  /\ args' = [args EXCEPT ![conn] = client_socket[Main]]
  /\ UNCHANGED <<client_socket, left, conn, count, kernel>>

\* pthread_create() fails: the connection is closed, and stays counted.
CreateFails ==
  /\ At(Main, "create")
  /\ pc' = [pc EXCEPT ![Main] = "accept", ![conn] = "abandoned"]
  /\ Close(client_socket[Main])
  /\ UNCHANGED <<client_socket, args, left, conn, count, gone>>

-------------------------------------------------------------------------------
(* handle_client()                                                           *)

HandedOverShared(t) == client_socket[Main]
HandedOver(t) == args[t]

Start(t) ==
  /\ Step(t, "start", "greet")
  /\ client_socket' = [client_socket EXCEPT ![t] = HandedOver(t)]
  /\ UNCHANGED <<args, left, conn, count, kernel>>

\* The number of songs goes to the client.
Greet(t) ==
  /\ Step(t, "greet", "recv")
  /\ UNCHANGED <<client_socket, args, left, conn, count, kernel>>

\* A number of the list, chosen by the client, or read from the uninitialised buffer
\* when recv() returned 0 because the client has gone.
RecvRequest(t) ==
  /\ Step(t, "recv", "open")
  /\ \E n \in 0..MaxChunks : left' = [left EXCEPT ![t] = n]
  /\ UNCHANGED <<client_socket, args, conn, count, kernel>>

\* recv() fails, no such song, or the file is not there any more.
Abandon(t) ==
  /\ Step(t, "recv", "abandoned") \/ Step(t, "open", "abandoned")
  /\ Close(client_socket[t]) /\ left' = [left EXCEPT ![t] = 0]
  /\ UNCHANGED <<client_socket, args, conn, count, gone>>

Open(t) ==
  /\ Step(t, "open", "stream")
  /\ UNCHANGED <<client_socket, args, left, conn, count, kernel>>

MoreToSend(t) == left[t] > 0

SendChunk(t) ==
  /\ At(t, "stream") /\ MoreToSend(t)
  /\ left' = [left EXCEPT ![t] = @ - 1]
  /\ UNCHANGED <<pc, client_socket, args, conn, count, kernel>>

\* send() returns an error (a reset connection) and the loop is left.
AfterErrorRetry(t) == left[t]
AfterError(t) == 0

SendFails(t) ==
  /\ At(t, "stream") /\ MoreToSend(t) /\ t \in gone
  /\ left' = [left EXCEPT ![t] = AfterError(t)]
  /\ UNCHANGED <<pc, client_socket, args, conn, count, kernel>>

Finish(t) ==
  /\ Step(t, "stream", "load") /\ left[t] = 0
  /\ Close(client_socket[t])
  /\ UNCHANGED <<client_socket, args, left, conn, count, gone>>

DecrementUncounted(t) == Load(t, "load", "store") \/ Store(t, "store", "done", reg[t])
Decrement(t) == Load(t, "load", "store") \/ Store(t, "store", "done", reg[t] - 1)

-------------------------------------------------------------------------------
(* The end of the process: exit() in list_files() when the directory cannot  *)
(* be opened, or SIGPIPE at a send() to a client that has gone. Its memory   *)
(* and descriptors go with it.                                               *)

Up == pc[Main] \notin {"exited", "killed"}

End(p) ==
  /\ pc' = AllAt(p) /\ reg' = Blank(Thread, 0)
  /\ client_socket' = Blank(Thread, None) /\ args' = Blank(Conn, None) /\ left' = Blank(Conn, 0)
  /\ conn' = None /\ no_connections' = 0 /\ updates' = "kept"
  /\ fdTab' = Blank(Fd, None) /\ UNCHANGED gone

Exit(t) == At(t, "greet") /\ End("exited")
Sending(t) == At(t, "greet") \/ (At(t, "stream") /\ MoreToSend(t))
Kill(t) == Sending(t) /\ t \in gone /\ End("killed")

MainStep == Refuse \/ Admit \/ Increment \/ CreateThread \/ CreateFails
ThreadStep(t) ==
  \/ Start(t) \/ Greet(t) \/ Open(t) \/ SendFails(t) \/ Finish(t) \/ Decrement(t)
  \/ (t \in gone /\ Abandon(t))
ClientStep(t) == RecvRequest(t) \/ SendChunk(t) \/ Abandon(t) \/ Hangup(t)

Next ==
  /\ Up
  /\ \/ Accept \/ MainStep
     \/ \E t \in Conn : ThreadStep(t) \/ ClientStep(t) \/ Exit(t) \/ Kill(t)

Spec == Init /\ [][Next]_vars

\* Threads run. A client owes nothing: it may never ask for a song, nor read what is sent; but
\* recv() and send() return once it has gone.
FairSpec == Spec /\ WF_vars(Up /\ MainStep) /\ \A t \in Conn : WF_vars(Up /\ ThreadStep(t))
===============================================================================
