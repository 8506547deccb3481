----------------------- MODULE MicrophoneServerProofs -------------------------
(* Invariants of the music server with a microphone, for every number of     *)
(* connections and descriptors and every ring, and what it implements.       *)
EXTENDS MicrophoneServerProps, TLAPS

LEMMA Threads == /\ Main \in Thread /\ Conn \subseteq Thread /\ Main \notin Conn
                 /\ None \notin Conn /\ None \notin Fd /\ None # Main
  BY MicrophoneAssumption DEF Main, Thread

\* Periods are counted modulo Wrap.
LEMMA NextPeriod == \A n \in Period : (n + 1) % Wrap \in Period
  BY MicrophoneAssumption DEF Period

\* While main() deals with a connection it has a thread yet to come; a capture stream is one
\* that a thread uses.
MainHolds == At(Main, "create") => conn \in Conn /\ pc[conn] = "none"
DeviceHeld == capturing = {t \in Conn : pc[t] \in Capture}
TypeInv == TypeOK /\ MainHolds /\ DeviceHeld

LEMMA TypeInit == Init => TypeInv
<1>1. 0 \in Period
  BY MicrophoneAssumption DEF Period
<1> QED BY <1>1, Threads DEF Init, TypeInv, TypeOK, MainHolds, DeviceHeld, Capture, AllAt, Blank, MainPc,
           ThreadPc, At

LEMMA TypeNext == TypeInv /\ [Next]_vars => TypeInv'
<1> SUFFICES ASSUME TypeInv, [Next]_vars PROVE TypeInv'
  OBVIOUS
<1> USE Threads DEF TypeInv, TypeOK, MainHolds, DeviceHeld, Capture, At, Step, MainPc, ThreadPc
<1>1. CASE UNCHANGED vars
  BY <1>1 DEF vars, kernel, device, audio
<1> USE DEF kernel, device, audio
<1>2. CASE Accept
  BY <1>2 DEF Accept
<1>3. CASE MainStep
  BY <1>3 DEF MainStep, CreateThread, CreateFails, Close
<1>4. ASSUME NEW t \in Conn, Start(t) \/ Greet(t) \/ OpenSong(t) PROVE TypeInv'
  BY <1>4 DEF Start, HandedOver, Greet, OpenSong
<1>5. ASSUME NEW t \in Conn, SendFails(t) \/ SendChunk(t) \/ EndOfSong(t) PROVE TypeInv'
  BY <1>5 DEF SendFails, SendChunk, MoreToSend, EndOfSong
<1>6. ASSUME NEW t \in Conn, RecvSong(t) \/ RecvMicrophone(t) PROVE TypeInv'
  BY <1>6, MicrophoneAssumption DEF RecvSong, RecvMicrophone
<1>7. ASSUME NEW t \in Conn, Abandon(t) \/ CloseSocket(t) \/ Hangup(t) PROVE TypeInv'
  BY <1>7 DEF Abandon, CloseFailed, CloseSocket, Hangup, Close
<1>8. ASSUME NEW t \in Conn, OpenDevice(t) \/ CloseDevice(t) PROVE TypeInv'
  BY <1>8 DEF OpenDevice, CloseDevice, Release
<1>9. ASSUME NEW t \in Conn, Record(t) PROVE TypeInv'
  BY <1>9, NextPeriod DEF Record
<1>10. ASSUME NEW t \in Conn, Read(t) \/ SendAudio(t) \/ SendAudioFails(t) PROVE TypeInv'
  BY <1>10, NextPeriod DEF Read, SendAudio, SendAudioFails, AfterError
<1>11. ASSUME NEW p \in {"exited", "killed"}, End(p) PROVE TypeInv'
  <2>1. 0 \in Period
    BY MicrophoneAssumption DEF Period
  <2> QED BY <1>11, <2>1 DEF End, AllAt, Blank
<1> QED BY <1>1, <1>2, <1>3, <1>4, <1>5, <1>6, <1>7, <1>8, <1>9, <1>10, <1>11
        DEF Next, ThreadStep, ClientStep, ExitFor, ReadFails, AfterReadError, Kill

\* Every variable keeps its type: in particular a stream that has overrun is one still open.
THEOREM TypeCorrect == Spec => []TypeOK
<1>1. TypeInv => TypeOK
  BY DEF TypeInv
<1> QED BY TypeInit, TypeNext, <1>1, PTL DEF Spec

-------------------------------------------------------------------------------
(* Descriptors. Inductively, the threads and main() hold descriptors of their *)
(* own connections, and every open descriptor is one of those.                *)

HeldBy(t, fd) == \/ At(t, "start") /\ fd = args[t]
                 \/ pc[t] \in Bound /\ fd = client_socket[t]
MainOwns == At(Main, "create") => client_socket[Main] \in Fd /\ fdTab[client_socket[Main]] = conn
OpenHeld ==
  \A fd \in Fd, c \in Conn : fdTab[fd] = c =>
    HeldBy(c, fd) \/ (At(Main, "create") /\ c = conn /\ fd = client_socket[Main])
OwnInv == OwnDescriptor /\ MainOwns /\ OpenHeld

LEMMA OwnInit == Init => OwnInv
  BY Threads DEF Init, OwnInv, OwnDescriptor, MainOwns, OpenHeld, HeldBy, AllAt, Blank, Bound, Capture, At

\* A step of a thread that leaves the descriptors alone and does not end with its socket.
LEMMA OwnServing ==
  ASSUME TypeInv, OwnInv, NEW t \in Conn, NEW q \in Bound, pc[t] \in Bound,
         pc' = [pc EXCEPT ![t] = q], UNCHANGED <<client_socket, args, conn, kernel>>
  PROVE  OwnInv'
  BY Threads DEF TypeInv, TypeOK, MainHolds, OwnInv, OwnDescriptor, MainOwns, OpenHeld, HeldBy, Bound, Capture, At,
     kernel

LEMMA OwnNext == TypeInv /\ OwnInv /\ [Next]_vars => OwnInv'
<1> SUFFICES ASSUME TypeInv, OwnInv, [Next]_vars PROVE OwnInv'
  OBVIOUS
<1> USE Threads DEF OwnInv, OwnDescriptor, MainOwns, OpenHeld, HeldBy, Bound, Capture, At, Step
<1>t. /\ pc \in [Thread -> MainPc \cup ThreadPc] /\ args \in [Conn -> Fd \cup {None}]
      /\ client_socket \in [Thread -> Fd \cup {None}] /\ fdTab \in [Fd -> Conn \cup {None}]
      /\ At(Main, "create") => conn \in Conn /\ pc[conn] = "none"
  BY DEF TypeInv, TypeOK, MainHolds
<1>1. CASE UNCHANGED vars
  BY <1>1 DEF vars, kernel
<1>2. CASE Accept
  BY <1>2, <1>t DEF Accept
<1>3. CASE CreateThread
  BY <1>3, <1>t DEF CreateThread, kernel
<1>4. CASE CreateFails
  BY <1>4, <1>t DEF CreateFails, Close
<1>5. ASSUME NEW t \in Conn, Start(t) PROVE OwnInv'
  BY <1>5, <1>t DEF Start, HandedOver, kernel
<1>6. ASSUME NEW t \in Conn, Abandon(t) \/ CloseSocket(t) PROVE OwnInv'
  <2>1. /\ pc[t] \in Bound /\ pc' = [pc EXCEPT ![t] = "done"] /\ Close(client_socket[t])
        /\ UNCHANGED <<client_socket, args, conn, gone>>
    BY <1>6 DEF Abandon, CloseFailed, CloseSocket
  <2> QED BY <1>t, <2>1 DEF Close
<1>7. ASSUME NEW t \in Conn, Hangup(t) \/ Record(t) \/ SendChunk(t) PROVE OwnInv'
  BY <1>7, <1>t DEF Hangup, Record, SendChunk, kernel
<1>8. ASSUME NEW t \in Conn,
             \/ Greet(t) \/ RecvSong(t) \/ RecvMicrophone(t) \/ OpenSong(t) \/ SendFails(t) \/ EndOfSong(t)
             \/ OpenDevice(t) \/ Read(t) \/ SendAudio(t) \/ SendAudioFails(t) \/ CloseDevice(t)
      PROVE  OwnInv'
  <2>1. /\ UNCHANGED <<client_socket, args, conn, kernel>>
        /\ \E q \in Bound : pc[t] \in Bound /\ pc' = [pc EXCEPT ![t] = q]
    BY <1>8 DEF Greet, RecvSong, RecvMicrophone, OpenSong, SendFails, EndOfSong, OpenDevice, Read, SendAudio,
       SendAudioFails, AfterError, CloseDevice
  <2>2. PICK q \in Bound : pc[t] \in Bound /\ pc' = [pc EXCEPT ![t] = q]
    BY <2>1
  <2>3. OwnInv'
    BY <2>1, <2>2, OwnServing, Zenon
  <2> QED BY <2>3
<1>9. ASSUME NEW p \in {"exited", "killed"}, End(p) PROVE OwnInv'
  BY <1>9 DEF End, AllAt, Blank
<1> QED BY <1>1, <1>2, <1>3, <1>4, <1>5, <1>6, <1>7, <1>8, <1>9
        DEF Next, MainStep, ThreadStep, ClientStep, ExitFor, ReadFails, AfterReadError, Kill

\* A thread serves the connection main() created it for, and no other thread closes its
\* descriptor, however many connections there are at a time.
THEOREM ServesItsOwn == Spec => []OwnDescriptor
<1>1. OwnInv => OwnDescriptor
  BY DEF OwnInv
<1> QED BY TypeInit, TypeNext, OwnInit, OwnNext, <1>1, PTL DEF Spec

\* Every path of either kind of request closes its connection, and the microphone's its
\* capture stream.
THEOREM EveryPathReleases == Spec => []NothingLeftOpen
<1>1. TypeInv /\ OwnInv => NothingLeftOpen
  BY Threads DEF TypeInv, TypeOK, DeviceHeld, OwnInv, OpenHeld, HeldBy, NothingLeftOpen, Serving, At
<1> QED BY TypeInit, TypeNext, OwnInit, OwnNext, <1>1, PTL DEF Spec

-------------------------------------------------------------------------------
(* The recording. The period in a thread's buffer is the one its client       *)
(* heard last, or, before the send(), the one after it.                       *)

HeardInv ==
  \A t \in Conn : /\ pc[t] \notin {"send", "drain", "close", "done"} => taken[t] = heard[t]
                  /\ At(t, "send") => taken[t] = (heard[t] + 1) % Wrap

LEMMA HeardInit == Init => HeardInv
  BY Threads DEF Init, HeardInv, AllAt, Blank, At

LEMMA HeardNext == TypeInv /\ HeardInv /\ [Next]_vars => HeardInv'
<1> SUFFICES ASSUME TypeInv, HeardInv, [Next]_vars PROVE HeardInv'
  OBVIOUS
<1> USE Threads DEF HeardInv, At, Step
<1>t. /\ pc \in [Thread -> MainPc \cup ThreadPc]
      /\ taken \in [Conn -> Period] /\ heard \in [Conn -> Period]
      /\ At(Main, "create") => conn \in Conn /\ pc[conn] = "none"
  BY DEF TypeInv, TypeOK, MainHolds
<1>1. CASE UNCHANGED vars
  BY <1>1 DEF vars, audio
<1>2. CASE Accept \/ MainStep
  BY <1>2, <1>t DEF Accept, MainStep, CreateThread, CreateFails, audio
<1>3. ASSUME NEW t \in Conn,
             \/ Start(t) \/ Greet(t) \/ RecvSong(t) \/ RecvMicrophone(t) \/ Abandon(t) \/ OpenSong(t)
      PROVE  HeardInv'
  BY <1>3, <1>t DEF Start, Greet, RecvSong, RecvMicrophone, Abandon, OpenSong, audio
<1>4. ASSUME NEW t \in Conn, SendFails(t) \/ SendChunk(t) \/ EndOfSong(t) \/ CloseSocket(t) \/ Hangup(t)
      PROVE  HeardInv'
  BY <1>4, <1>t DEF SendFails, SendChunk, EndOfSong, CloseSocket, Hangup, audio
<1>5. ASSUME NEW t \in Conn, OpenDevice(t) \/ Record(t) \/ SendAudioFails(t) \/ CloseDevice(t)
      PROVE  HeardInv'
  BY <1>5, <1>t DEF OpenDevice, Record, SendAudioFails, AfterError, CloseDevice, audio
<1>6. ASSUME NEW t \in Conn, Read(t) PROVE HeardInv'
  BY <1>6, <1>t DEF Read
<1>7. ASSUME NEW t \in Conn, SendAudio(t) PROVE HeardInv'
  BY <1>7, <1>t DEF SendAudio
<1>8. ASSUME NEW p \in {"exited", "killed"}, End(p) PROVE HeardInv'
  BY <1>8 DEF End, AllAt, Blank
<1> QED BY <1>1, <1>2, <1>3, <1>4, <1>5, <1>6, <1>7, <1>8
        DEF Next, ThreadStep, ClientStep, ExitFor, ReadFails, AfterReadError, Kill

\* For every ring and however slow the clients are: an overrun ends the process, so that no
\* client ever hears a period after one that was lost.
THEOREM NothingSkipped == Spec => RecordingUnbroken
<1>1. TypeInv /\ HeardInv /\ [Next]_vars =>
        [Up' => \A t \in Conn : heard'[t] \in {heard[t], (heard[t] + 1) % Wrap}]_vars
  <2> SUFFICES ASSUME TypeInv, HeardInv, Next, Up', NEW u \in Conn
               PROVE  heard'[u] \in {heard[u], (heard[u] + 1) % Wrap}
    OBVIOUS
  <2>1. heard \in [Conn -> Period]
    BY DEF TypeInv, TypeOK
  <2>2. ASSUME NEW t \in Conn, SendAudio(t) PROVE heard'[u] \in {heard[u], (heard[u] + 1) % Wrap}
    BY <2>1, <2>2 DEF SendAudio, HeardInv, Step, At
  <2>3. ASSUME NEW p \in {"exited", "killed"}, End(p) PROVE FALSE
    BY <2>3, Threads DEF End, AllAt, Up
  <2>4. CASE heard' = heard
    BY <2>4
  <2>5. \/ heard' = heard \/ (\E t \in Conn : SendAudio(t)) \/ \E p \in {"exited", "killed"} : End(p)
    BY DEF Next, Accept, MainStep, CreateThread, CreateFails, ThreadStep, ClientStep, ExitFor, ReadFails,
       AfterReadError, Kill, Start, Greet, RecvSong, RecvMicrophone, Abandon, OpenSong, SendFails,
       SendChunk, EndOfSong, CloseSocket, Hangup, OpenDevice, Record, Read, SendAudioFails, CloseDevice,
       audio
  <2> QED BY <2>2, <2>3, <2>4, <2>5
<1> QED BY TypeInit, TypeNext, HeardInit, HeardNext, <1>1, PTL DEF Spec, RecordingUnbroken

-------------------------------------------------------------------------------
(* The server implements Connections, as the other servers do.               *)

LEMMA MoveStep ==
  ASSUME NEW c \in Conn, NEW a, NEW b, Up' = Up, PhaseOf(c) = a, PhaseOf(c)' = b,
         \A d \in Conn \ {c} : PhaseOf(d)' = PhaseOf(d)
  PROVE  Abstract!Move(c, a, b)
  BY Zenon DEF Abstract!Move

LEMMA StutterStep ==
  ASSUME Up' = Up, \A d \in Conn : PhaseOf(d)' = PhaseOf(d)
  PROVE  UNCHANGED Abstract!vars
  BY Zenon DEF Abstract!vars

LEMMA RefinementInit == Init => Abstract!Init
<1> SUFFICES ASSUME Init PROVE Abstract!Init
  OBVIOUS
<1>1. Up = TRUE
  BY DEF Init, AllAt, Up, Thread
<1>2. \A c \in Conn : PhaseOf(c) = "new"
  BY Threads DEF Init, AllAt, Blank, Up, PhaseOf, IsOpen, At
<1> QED BY <1>1, <1>2, Zenon DEF Abstract!Init

LEMMA RefinementNext ==
  TypeInv /\ OwnInv /\ [Next]_vars => [Abstract!Next]_Abstract!vars
<1> SUFFICES ASSUME TypeInv, OwnInv, Next PROVE Abstract!Next \/ UNCHANGED Abstract!vars
  <2>1. UNCHANGED vars => UNCHANGED Abstract!vars
    BY StutterStep DEF vars, kernel, PhaseOf, IsOpen, IsServed, Up, At
  <2> QED BY <2>1
<1> USE Threads DEF At, Step, PhaseOf, IsOpen, IsServed, Bound, Capture, Up
<1>t. /\ pc \in [Thread -> MainPc \cup ThreadPc] /\ args \in [Conn -> Fd \cup {None}]
      /\ client_socket \in [Thread -> Fd \cup {None}] /\ fdTab \in [Fd -> Conn \cup {None}]
      /\ At(Main, "create") => conn \in Conn /\ pc[conn] = "none"
  BY DEF TypeInv, TypeOK, MainHolds
<1>o. /\ OwnDescriptor
      /\ At(Main, "create") => client_socket[Main] \in Fd /\ fdTab[client_socket[Main]] = conn
      /\ OpenHeld
  BY DEF OwnInv, MainOwns
<1>u. Up
  BY DEF Next
<1>1. CASE Accept
  <2>1. PICK c \in Conn, f \in Fd :
          /\ pc[c] = "none" /\ c \notin gone /\ fdTab[f] = None
          /\ fdTab' = [fdTab EXCEPT ![f] = c]
    BY <1>1 DEF Accept
  <2>2. Up' = Up /\ pc' = [pc EXCEPT ![Main] = "create"] /\ gone' = gone
        /\ \A d \in Conn : client_socket'[d] = client_socket[d]
    BY <1>1, <1>t, <1>u DEF Accept
  <2>3. ~\E g \in Fd : fdTab[g] = c
    BY <1>1, <1>o, <2>1 DEF Accept, OpenHeld, HeldBy
  <2>4. PhaseOf(c) = "new" /\ PhaseOf(c)' = "accepted"
    BY <2>1, <2>2, <2>3, <1>t, <1>u
  <2>5. \A d \in Conn \ {c} : PhaseOf(d)' = PhaseOf(d)
    BY <2>1, <2>2, <1>t
  <2> QED BY <1>u, <2>2, <2>4, <2>5, MoveStep, Zenon DEF Abstract!Next, Abstract!Accept
<1>2. CASE CreateThread
  <2>1. PICK c \in Conn : c = conn /\ pc[c] = "none"
    BY <1>2, <1>t DEF CreateThread
  <2>2. Up' = Up /\ PhaseOf(c) = "accepted" /\ PhaseOf(c)' = "started"
    BY <1>2, <1>t, <1>o, <1>u, <2>1 DEF CreateThread, kernel
  <2>3. \A d \in Conn \ {c} : PhaseOf(d)' = PhaseOf(d)
    BY <1>2, <1>t, <1>u, <2>1 DEF CreateThread, kernel
  <2> QED BY <1>u, <2>2, <2>3, MoveStep, Zenon DEF Abstract!Next, Abstract!StartThread
<1>3. CASE CreateFails
  <2>1. PICK c \in Conn : c = conn /\ pc[c] = "none"
    BY <1>3, <1>t DEF CreateFails
  <2>2. Up' = Up /\ PhaseOf(c) = "accepted"
    BY <1>3, <1>t, <1>o, <1>u, <2>1 DEF CreateFails
  <2>3. ~IsOpen(c)'
    BY <1>3, <1>t, <1>o, <2>1 DEF CreateFails, Close, OpenHeld, HeldBy
  <2>4. PhaseOf(c)' = "closed"
    BY <1>3, <1>t, <2>1, <2>3 DEF CreateFails
  <2>5. \A d \in Conn \ {c} : PhaseOf(d)' = PhaseOf(d)
    BY <1>3, <1>t, <1>o, <2>1 DEF CreateFails, Close
  <2> QED BY <1>u, <2>2, <2>4, <2>5, MoveStep, Zenon DEF Abstract!Next, Abstract!TurnAway
<1>4. ASSUME NEW t \in Conn, Start(t) PROVE Abstract!Next
  <2>1. Up' = Up /\ PhaseOf(t) = "started" /\ PhaseOf(t)' = "served"
    BY <1>4, <1>t, <1>o, <1>u DEF Start, HandedOver, OwnDescriptor, kernel
  <2>2. \A d \in Conn \ {t} : PhaseOf(d)' = PhaseOf(d)
    BY <1>4, <1>t DEF Start, kernel
  <2> QED BY <1>u, <2>1, <2>2, MoveStep, Zenon DEF Abstract!Next, Abstract!Serve
<1>5. ASSUME NEW t \in Conn, Abandon(t) \/ CloseSocket(t) PROVE Abstract!Next
  <2>0. /\ pc[t] \in Bound /\ pc' = [pc EXCEPT ![t] = "done"] /\ Close(client_socket[t])
        /\ client_socket' = client_socket /\ gone' = gone
    BY <1>5 DEF Abandon, CloseFailed, CloseSocket
  <2>1. Up' = Up /\ PhaseOf(t) = "served"
    BY <2>0, <1>t, <1>o, <1>u DEF OwnDescriptor
  <2>2. ~IsOpen(t)'
    BY <2>0, <1>t, <1>o DEF Close, OpenHeld, HeldBy
  <2>3. PhaseOf(t)' = "closed"
    BY <2>0, <1>t, <2>2
  <2>4. \A d \in Conn \ {t} : PhaseOf(d)' = PhaseOf(d)
    BY <2>0, <1>t, <1>o DEF Close, OwnDescriptor
  <2> QED BY <1>u, <2>1, <2>3, <2>4, MoveStep, Zenon DEF Abstract!Next, Abstract!Finish
<1>6. ASSUME NEW t \in Conn,
             \/ Greet(t) \/ RecvSong(t) \/ RecvMicrophone(t) \/ OpenSong(t) \/ SendFails(t) \/ EndOfSong(t)
             \/ OpenDevice(t) \/ Read(t) \/ SendAudio(t) \/ SendAudioFails(t) \/ CloseDevice(t)
      PROVE  UNCHANGED Abstract!vars
  <2>1. /\ UNCHANGED <<client_socket, kernel>>
        /\ \E q \in Bound : pc[t] \in Bound /\ pc' = [pc EXCEPT ![t] = q]
    BY <1>6 DEF Greet, RecvSong, RecvMicrophone, OpenSong, SendFails, EndOfSong, OpenDevice, Read, SendAudio,
       SendAudioFails, AfterError, CloseDevice
  <2>2. PICK q \in Bound : pc[t] \in Bound /\ pc' = [pc EXCEPT ![t] = q]
    BY <2>1
  <2>3. Up' = Up /\ \A d \in Conn : PhaseOf(d)' = PhaseOf(d)
    BY <2>1, <2>2, <1>t DEF kernel
  <2> QED BY <2>3, StutterStep
<1>7. ASSUME NEW t \in Conn, Hangup(t) \/ Record(t) \/ SendChunk(t) PROVE UNCHANGED Abstract!vars
  <2>1. CASE Hangup(t)
    BY <2>1, StutterStep DEF Hangup
  <2>2. CASE Record(t) \/ SendChunk(t)
    BY <2>2, StutterStep DEF Record, SendChunk, kernel
  <2> QED BY <1>7, <2>1, <2>2
<1>8. ASSUME NEW p \in {"exited", "killed"}, End(p) PROVE Abstract!Next
  <2>1. Up' = FALSE
    BY <1>8 DEF End, AllAt
  <2>2. \A d \in Conn : PhaseOf(d)' = "closed"
    BY <2>1
  <2> QED BY <1>u, <2>1, <2>2, Zenon DEF Abstract!Next, Abstract!End
<1> QED BY <1>1, <1>2, <1>3, <1>4, <1>5, <1>6, <1>7, <1>8
        DEF Next, MainStep, ThreadStep, ClientStep, ExitFor, ReadFails, AfterReadError, Kill

\* Every connection is accepted, given a thread or closed, served by that thread alone, and
\* closed by it, once; the microphone changes nothing of that.
THEOREM ServerImplementsConnections == Spec => ImplementsConnections
<1>1. Init => Abstract!Init
  BY RefinementInit
<1>2. TypeInv /\ OwnInv /\ [Next]_vars => [Abstract!Next]_Abstract!vars
  BY RefinementNext
<1> QED BY TypeInit, TypeNext, OwnInit, OwnNext, <1>1, <1>2, PTL DEF Spec, ImplementsConnections, Abstract!Spec
===============================================================================
