---------------------------- MODULE MicrophoneServer --------------------------
(***************************************************************************)
(* The music server with a microphone, mp3_streaming/music_tcp_server.c: a  *)
(* thread for every connection, without a limit; a client asks for a song,  *)
(* or, with -1, for what the microphone hears, until it goes away.          *)
(*                                                                         *)
(* The capture device is external: it records a period at a time into a    *)
(* ring of the open capture stream, whether or not it is read, and stops    *)
(* the stream when the ring is full (an overrun). A send() that waits for a *)
(* slow client is a send step that is not taken yet. Any error of the       *)
(* device is an exit() of the whole process. The definitions named          *)
(* ...Shared, ...Leaky, ...Recovers, ... are plausible bugs, used only to    *)
(* see that a property would notice them.                                  *)
(***************************************************************************)
EXTENDS Integers, FiniteSets

CONSTANTS
  Conn,        \* connections; each also names the thread created for it
  Fd,          \* descriptors accept() may return
  MaxChunks,   \* bound: a song is at most this many buffers long
  Streams,     \* how many capture streams the device gives at the same time
  Ring,        \* how many periods a stream holds
  Wrap,        \* bound: periods are counted modulo this
  None

ASSUME MicrophoneAssumption ==
  /\ None \notin Conn \cup Fd /\ "main" \notin Conn \cup {None}
  /\ Fd \subseteq Nat /\ MaxChunks \in Nat /\ Streams \in Nat
  /\ Ring \in Nat \ {0} /\ Wrap \in Nat /\ Wrap > Ring + 1

VARIABLES
  pc,                 \* of every thread: program counter
  client_socket,      \* of every thread
  args,               \* the socket in the int allocated for each thread
  left,               \* buffers of the song each thread has still to send
  conn,               \* the connection main accepted last
  fdTab, gone,        \* kernel: connection behind each open descriptor, clients that have gone
  capturing,          \* threads that hold a capture stream of the device
  recorded, overrun,  \* of each stream: number of the last period recorded, and if it has stopped
  taken,              \* number of the period each thread has in its buffer
  heard               \* number of the period sent last on each connection

kernel == <<fdTab, gone>>
device == <<capturing, recorded, overrun>>
audio == <<device, taken, heard>>
vars == <<pc, client_socket, args, left, conn, kernel, audio>>

Main == "main"
Thread == Conn \cup {Main}
MainPc == {"accept", "create", "exited", "killed"}
ThreadPc == {"none", "start", "greet", "recv", "open", "stream", "microphone", "read", "send",
             "drain", "close", "done"}
Period == 0..(Wrap - 1)

TypeOK ==
  /\ pc \in [Thread -> MainPc \cup ThreadPc] /\ client_socket \in [Thread -> Fd \cup {None}]
  /\ args \in [Conn -> Fd \cup {None}] /\ left \in [Conn -> Nat] /\ conn \in Conn \cup {None}
  /\ fdTab \in [Fd -> Conn \cup {None}] /\ gone \subseteq Conn
  /\ capturing \subseteq Conn /\ overrun \subseteq capturing
  /\ recorded \in [Conn -> Period] /\ taken \in [Conn -> Period] /\ heard \in [Conn -> Period]

AllAt(p) == [x \in Thread |-> IF x = Main THEN p ELSE "none"]
Blank(S, v) == [x \in S |-> v]

Init ==
  /\ pc = AllAt("accept") /\ client_socket = Blank(Thread, None) /\ args = Blank(Conn, None)
  /\ left = Blank(Conn, 0) /\ conn = None /\ fdTab = Blank(Fd, None) /\ gone = {}
  /\ capturing = {} /\ overrun = {}
  /\ recorded = Blank(Conn, 0) /\ taken = Blank(Conn, 0) /\ heard = Blank(Conn, 0)

At(x, p) == pc[x] = p
Step(x, p, q) == pc[x] = p /\ pc' = [pc EXCEPT ![x] = q]
Close(fd) == fdTab' = [f \in Fd |-> IF f = fd THEN None ELSE fdTab[f]]

Hangup(c) ==
  /\ c \notin gone /\ \E fd \in Fd : fdTab[fd] = c
  /\ gone' = gone \cup {c}
  /\ UNCHANGED <<pc, client_socket, args, left, conn, fdTab, audio>>

-------------------------------------------------------------------------------
(* main(). When accept() fails nothing changes and it is called again.       *)

Accept ==
  /\ Step(Main, "accept", "create")
  /\ \E c \in Conn, fd \in Fd :
       /\ At(c, "none") /\ c \notin gone
       /\ fdTab[fd] = None /\ \A f \in Fd : fdTab[f] = None => fd <= f
       /\ fdTab' = [fdTab EXCEPT ![fd] = c] /\ conn' = c
       /\ client_socket' = [client_socket EXCEPT ![Main] = fd]
  /\ UNCHANGED <<args, left, gone, audio>>

CreateThread ==
  /\ At(Main, "create")
  /\ pc' = [pc EXCEPT ![Main] = "accept", ![conn] = "start"]
  /\ args' = [args EXCEPT ![conn] = client_socket[Main]]
  /\ UNCHANGED <<client_socket, left, conn, kernel, audio>>

CreateFails ==
  /\ At(Main, "create")
  /\ pc' = [pc EXCEPT ![Main] = "accept", ![conn] = "done"]
  /\ Close(client_socket[Main])
  /\ UNCHANGED <<client_socket, args, left, conn, gone, audio>>

-------------------------------------------------------------------------------
(* handle_client(): up to the request                                        *)

HandedOverShared(t) == client_socket[Main]
HandedOver(t) == args[t]

Start(t) ==
  /\ Step(t, "start", "greet")
  /\ client_socket' = [client_socket EXCEPT ![t] = HandedOver(t)]
  /\ UNCHANGED <<args, left, conn, kernel, audio>>

\* The number of songs goes to the client.
Greet(t) ==
  /\ Step(t, "greet", "recv")
  /\ UNCHANGED <<client_socket, args, left, conn, kernel, audio>>

\* Any request, from the client or, when recv() returned 0 because the client has gone,
\* from the uninitialised buffer: a song of n buffers, ...
RecvSong(t) ==
  /\ Step(t, "recv", "open")
  /\ \E n \in 0..MaxChunks : left' = [left EXCEPT ![t] = n]
  /\ UNCHANGED <<client_socket, args, conn, kernel, audio>>

\* ... or the microphone.
RecvMicrophone(t) ==
  /\ Step(t, "recv", "microphone")
  /\ UNCHANGED <<client_socket, args, left, conn, kernel, audio>>

CloseFailedLeaky(t) == UNCHANGED fdTab
CloseFailed(t) == Close(client_socket[t])

\* recv() fails, no such song, or the file is not there any more.
Abandon(t) ==
  /\ Step(t, "recv", "done") \/ Step(t, "open", "done")
  /\ CloseFailed(t) /\ left' = [left EXCEPT ![t] = 0]
  /\ UNCHANGED <<client_socket, args, conn, gone, audio>>

-------------------------------------------------------------------------------
(* A song                                                                    *)

OpenSong(t) ==
  /\ Step(t, "open", "stream")
  /\ UNCHANGED <<client_socket, args, left, conn, kernel, audio>>

MoreToSend(t) == left[t] > 0

SendChunk(t) ==
  /\ At(t, "stream") /\ MoreToSend(t)
  /\ left' = [left EXCEPT ![t] = @ - 1]
  /\ UNCHANGED <<pc, client_socket, args, conn, kernel, audio>>

\* send() returns an error (a reset connection) and the loop is left.
SendFails(t) ==
  /\ Step(t, "stream", "close") /\ MoreToSend(t) /\ t \in gone
  /\ left' = [left EXCEPT ![t] = 0]
  /\ UNCHANGED <<client_socket, args, conn, kernel, audio>>

EndOfSong(t) ==
  /\ Step(t, "stream", "close") /\ ~MoreToSend(t)
  /\ UNCHANGED <<client_socket, args, left, conn, kernel, audio>>

-------------------------------------------------------------------------------
(* The microphone                                                            *)

OpenDevice(t) ==
  /\ Step(t, "microphone", "read") /\ Cardinality(capturing) < Streams
  /\ capturing' = capturing \cup {t}
  /\ UNCHANGED <<client_socket, args, left, conn, kernel, recorded, overrun, taken, heard>>

Waiting(t) == (recorded[t] - taken[t]) % Wrap

\* The device has recorded another period of a stream that is being read.
Record(t) ==
  /\ t \in capturing \ overrun /\ pc[t] \in {"read", "send"}
  /\ IF Waiting(t) < Ring
     THEN recorded' = [recorded EXCEPT ![t] = (@ + 1) % Wrap] /\ UNCHANGED overrun
     ELSE overrun' = overrun \cup {t} /\ UNCHANGED recorded
  /\ UNCHANGED <<pc, client_socket, args, left, conn, kernel, capturing, taken, heard>>

\* snd_pcm_readi() returns a whole period.
Read(t) ==
  /\ Step(t, "read", "send") /\ t \notin overrun /\ Waiting(t) > 0
  /\ taken' = [taken EXCEPT ![t] = (@ + 1) % Wrap]
  /\ UNCHANGED <<client_socket, args, left, conn, kernel, device, heard>>

SendAudio(t) ==
  /\ Step(t, "send", "read")
  /\ heard' = [heard EXCEPT ![t] = taken[t]]
  /\ UNCHANGED <<client_socket, args, left, conn, kernel, device, taken>>

AfterErrorRetry == "read"
AfterError == "drain"

SendAudioFails(t) ==
  /\ Step(t, "send", AfterError) /\ t \in gone
  /\ UNCHANGED <<client_socket, args, left, conn, kernel, audio>>

ReleaseLeaky(t) == UNCHANGED device
Release(t) ==
  /\ capturing' = capturing \ {t} /\ overrun' = overrun \ {t} /\ UNCHANGED recorded

\* snd_pcm_drain(), snd_pcm_close()
CloseDevice(t) ==
  /\ Step(t, "drain", "close") /\ Release(t)
  /\ UNCHANGED <<client_socket, args, left, conn, kernel, taken, heard>>

CloseSocket(t) ==
  /\ Step(t, "close", "done") /\ Close(client_socket[t])
  /\ UNCHANGED <<client_socket, args, left, conn, gone, audio>>

-------------------------------------------------------------------------------
(* The end of the process, its memory, descriptors and capture streams: exit()*)
(* when the directory or the device cannot be opened or configured or when    *)
(* snd_pcm_readi() fails; SIGPIPE at a send() to a client that has gone.      *)

Up == pc[Main] \notin {"exited", "killed"}

End(p) ==
  /\ pc' = AllAt(p) /\ client_socket' = Blank(Thread, None) /\ args' = Blank(Conn, None)
  /\ left' = Blank(Conn, 0) /\ conn' = None /\ fdTab' = Blank(Fd, None) /\ UNCHANGED gone
  /\ capturing' = {} /\ overrun' = {}
  /\ recorded' = Blank(Conn, 0) /\ taken' = Blank(Conn, 0) /\ heard' = Blank(Conn, 0)

ExitFor(t) == pc[t] \in {"greet", "microphone"} /\ End("exited")

\* A stream that has overrun, or a device that fails: whatever was not read is lost.
AfterReadErrorRecovers(t) ==
  /\ overrun' = overrun \ {t} /\ taken' = [taken EXCEPT ![t] = recorded[t]]
  /\ recorded' = [recorded EXCEPT ![t] = (@ + 1) % Wrap]
  /\ UNCHANGED <<pc, client_socket, args, left, conn, kernel, capturing, heard>>
AfterReadError(t) == End("exited")

ReadFails(t) == At(t, "read") /\ AfterReadError(t)

Sending(t) == pc[t] \in {"greet", "send"} \/ (At(t, "stream") /\ MoreToSend(t))
Kill(t) == Sending(t) /\ t \in gone /\ End("killed")

MainStep == CreateThread \/ CreateFails
ThreadStep(t) ==
  \/ Start(t) \/ Greet(t) \/ OpenSong(t) \/ SendFails(t) \/ EndOfSong(t)
  \/ Read(t) \/ SendAudioFails(t) \/ CloseDevice(t) \/ CloseSocket(t)
  \/ (t \in overrun /\ ReadFails(t))
  \/ (At(t, "microphone") /\ (OpenDevice(t) \/ ExitFor(t)))
  \/ (t \in gone /\ Abandon(t))
ClientStep(t) == RecvSong(t) \/ RecvMicrophone(t) \/ SendChunk(t) \/ SendAudio(t) \/ Abandon(t) \/ Hangup(t)

Next ==
  /\ Up
  /\ \/ Accept \/ MainStep
     \/ \E t \in Conn : ThreadStep(t) \/ Record(t) \/ ClientStep(t) \/ ExitFor(t) \/ ReadFails(t) \/ Kill(t)

Spec == Init /\ [][Next]_vars

\* Threads run and the device records. A client owes nothing: it may never ask, nor read what
\* is sent; but recv() returns once it has gone, and not every send() after that succeeds.
FairSpec ==
  /\ Spec /\ WF_vars(Up /\ MainStep)
  /\ \A t \in Conn : /\ WF_vars(Up /\ ThreadStep(t)) /\ WF_vars(Up /\ Record(t))
                    /\ SF_vars(Up /\ SendAudioFails(t))
===============================================================================
