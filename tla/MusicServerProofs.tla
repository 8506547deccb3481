-------------------------- MODULE MusicServerProofs ---------------------------
(* Invariants of the music server, for every number of connections and every *)
(* limit.                                                                    *)
EXTENDS MusicServerProps, FiniteSetTheorems, TLAPS

LEMMA Threads == /\ Main \in Thread /\ Conn \subseteq Thread /\ Main \notin Conn
                 /\ None \notin Conn /\ None \notin Fd /\ None # Main
  BY MusicAssumption DEF Main, Thread

\* While main() deals with a connection it has a thread yet to come.
MainHolds ==
  pc[Main] \in {"admit", "load", "store", "create"} =>
    conn \in Conn /\ pc[conn] = "none"
TypeInv == TypeOK /\ MainHolds

LEMMA TypeInit == Init => TypeInv
  BY Threads DEF Init, TypeInv, TypeOK, MainHolds, AllAt, Blank, MainPc, ThreadPc

LEMMA TypeNext == TypeInv /\ [Next]_vars => TypeInv'
<1> SUFFICES ASSUME TypeInv, [Next]_vars PROVE TypeInv'
  OBVIOUS
<1> USE Threads DEF TypeInv, TypeOK, MainHolds, At, Step, MainPc, ThreadPc
<1>1. CASE UNCHANGED vars
  BY <1>1 DEF vars, count, kernel
<1> USE DEF count, kernel
<1>2. CASE Accept
  BY <1>2 DEF Accept
<1>3. CASE MainStep
  <2>1. CASE Refuse \/ Admit
    BY <2>1 DEF Refuse, Admit, CloseRefused, Close
  <2>2. CASE Increment
    BY <2>2 DEF Increment, Load, Store
  <2>3. CASE CreateThread \/ CreateFails
    BY <2>3 DEF CreateThread, CreateFails, Close
  <2> QED BY <1>3, <2>1, <2>2, <2>3 DEF MainStep
<1>4. ASSUME NEW t \in Conn, Start(t) \/ Greet(t) \/ Open(t) \/ Finish(t) PROVE TypeInv'
  BY <1>4 DEF Start, HandedOver, Greet, Open, Finish, Close
<1>5. ASSUME NEW t \in Conn, SendFails(t) \/ SendChunk(t) PROVE TypeInv'
  BY <1>5 DEF SendFails, AfterError, SendChunk, MoreToSend
<1>6. ASSUME NEW t \in Conn, Decrement(t) PROVE TypeInv'
  BY <1>6 DEF Decrement, Load, Store
<1>7. ASSUME NEW t \in Conn, RecvRequest(t) PROVE TypeInv'
  BY <1>7, MusicAssumption DEF RecvRequest
<1>8. ASSUME NEW t \in Conn, Abandon(t) \/ Hangup(t) PROVE TypeInv'
  BY <1>8 DEF Abandon, Hangup, Close
<1>9. ASSUME NEW t \in Conn, Exit(t) \/ Kill(t) PROVE TypeInv'
  BY <1>9 DEF Exit, Kill, End, AllAt, Blank
<1> QED BY <1>1, <1>2, <1>3, <1>4, <1>5, <1>6, <1>7, <1>8, <1>9 DEF Next, ThreadStep, ClientStep

\* Every variable keeps its type: in particular the socket main() hands over and the one
\* each thread works with are descriptors of the table or none.
THEOREM TypeCorrect == Spec => []TypeOK
<1>1. TypeInv => TypeOK
  BY DEF TypeInv
<1> QED BY TypeInit, TypeNext, <1>1, PTL DEF Spec

-------------------------------------------------------------------------------
(* Descriptors. Inductively, the threads and main() hold descriptors of their *)
(* own connections, and every open descriptor is one of those.                *)

Handling == pc[Main] \in {"admit", "load", "store", "create"}
HeldBy(t, fd) == \/ At(t, "start") /\ fd = args[t]
                 \/ pc[t] \in Bound /\ fd = client_socket[t]
MainOwns == Handling => client_socket[Main] \in Fd /\ fdTab[client_socket[Main]] = conn
OpenHeld ==
  \A fd \in Fd, c \in Conn : fdTab[fd] = c =>
    HeldBy(c, fd) \/ (Handling /\ c = conn /\ fd = client_socket[Main])
OwnInv == OwnDescriptor /\ MainOwns /\ OpenHeld

LEMMA OwnInit == Init => OwnInv
  BY Threads DEF Init, OwnInv, OwnDescriptor, MainOwns, OpenHeld, Handling, HeldBy, AllAt, Blank,
     Bound, At

\* A thread or main() that closes its descriptor closes nobody else's.
LEMMA OwnNext == TypeInv /\ OwnInv /\ [Next]_vars => OwnInv'
<1> SUFFICES ASSUME TypeInv, OwnInv, [Next]_vars PROVE OwnInv'
  OBVIOUS
<1> USE Threads DEF OwnInv, OwnDescriptor, MainOwns, OpenHeld, Handling, HeldBy, Bound, At, Step
<1>t. /\ pc \in [Thread -> MainPc \cup ThreadPc] /\ args \in [Conn -> Fd \cup {None}]
      /\ client_socket \in [Thread -> Fd \cup {None}] /\ fdTab \in [Fd -> Conn \cup {None}]
      /\ Handling => conn \in Conn /\ pc[conn] = "none"
  BY DEF TypeInv, TypeOK, MainHolds
<1>1. CASE UNCHANGED vars
  BY <1>1 DEF vars, count, kernel
<1> USE DEF count, kernel
<1>2. CASE Accept
  BY <1>2, <1>t DEF Accept
<1>3. CASE MainStep
  <2>1. CASE Refuse
    BY <2>1, <1>t DEF Refuse, CloseRefused, Close
  <2>2. CASE Admit
    BY <2>2, <1>t DEF Admit
  <2>3. CASE Increment
    BY <2>3, <1>t DEF Increment, Load, Store
  <2>4. CASE CreateThread
    BY <2>4, <1>t DEF CreateThread
  <2>5. CASE CreateFails
    BY <2>5, <1>t DEF CreateFails, Close
  <2> QED BY <1>3, <2>1, <2>2, <2>3, <2>4, <2>5 DEF MainStep
<1>4. ASSUME NEW t \in Conn, Start(t) PROVE OwnInv'
  BY <1>4, <1>t DEF Start, HandedOver
<1>5. ASSUME NEW t \in Conn, Greet(t) \/ Open(t) \/ SendFails(t) \/ SendChunk(t) PROVE OwnInv'
  BY <1>5, <1>t DEF Greet, Open, SendFails, SendChunk
<1>6. ASSUME NEW t \in Conn, Finish(t) \/ Abandon(t) PROVE OwnInv'
  BY <1>6, <1>t DEF Finish, Abandon, Close
<1>7. ASSUME NEW t \in Conn, Decrement(t) PROVE OwnInv'
  BY <1>7, <1>t DEF Decrement, Load, Store
<1>8. ASSUME NEW t \in Conn, RecvRequest(t) \/ Hangup(t) PROVE OwnInv'
  BY <1>8, <1>t DEF RecvRequest, Hangup
<1>9. ASSUME NEW t \in Conn, Exit(t) \/ Kill(t) PROVE OwnInv'
  BY <1>9 DEF Exit, Kill, End, AllAt, Blank
<1> QED BY <1>1, <1>2, <1>3, <1>4, <1>5, <1>6, <1>7, <1>8, <1>9 DEF Next, ThreadStep, ClientStep

\* A thread serves the connection main() created it for, whatever main() accepts before
\* the thread has read its Client_args, and no other thread closes its descriptor.
THEOREM ServesItsOwn == Spec => []OwnDescriptor
<1>1. OwnInv => OwnDescriptor
  BY DEF OwnInv
<1> QED BY TypeInit, TypeNext, OwnInit, OwnNext, <1>1, PTL DEF Spec

\* Every path, the early exits and the refusals included, closes its connection.
THEOREM EveryPathCloses == Spec => []NothingLeftOpen
<1>1. TypeInv /\ OwnInv => NothingLeftOpen
  BY Threads DEF TypeInv, TypeOK, OwnInv, OpenHeld, Handling, HeldBy, NothingLeftOpen, Serving, At
<1> QED BY TypeInit, TypeNext, OwnInit, OwnNext, <1>1, PTL DEF Spec

-------------------------------------------------------------------------------
(* no_connections. A thread that loaded it before main() raised it stores a  *)
(* smaller value: after the test no_connections < max_connections the counter *)
(* can only be lower when main() stores it.                                   *)

CountInv ==
  /\ CountBounded
  /\ At(Main, "load") => no_connections < max_connections \/ no_connections < 0
  /\ At(Main, "store") => reg[Main] < max_connections \/ reg[Main] < 0
  /\ \A t \in Conn : At(t, "store") => reg[t] <= max_connections \/ reg[t] <= 0

LEMMA CountInit == Init => CountInv
  BY Threads, MusicAssumption DEF Init, CountInv, CountBounded, AllAt, Blank, At

LEMMA CountNext == TypeInv /\ CountInv /\ [Next]_vars => CountInv'
<1> SUFFICES ASSUME TypeInv, CountInv, [Next]_vars PROVE CountInv'
  OBVIOUS
<1> USE Threads DEF CountInv, CountBounded, At, Step
<1>t. /\ pc \in [Thread -> MainPc \cup ThreadPc] /\ reg \in [Thread -> Int] /\ no_connections \in Int
      /\ max_connections \in Int
  BY MusicAssumption DEF TypeInv, TypeOK
<1>1. CASE UNCHANGED vars
  BY <1>1 DEF vars, count
<1> USE DEF count
<1>2. CASE Accept \/ Refuse \/ Admit
  BY <1>2, <1>t DEF Accept, Refuse, Admit, Full
<1>3. CASE Increment
  BY <1>3, <1>t DEF Increment, Load, Store
<1>4. CASE CreateThread \/ CreateFails
  BY <1>4, <1>t DEF CreateThread, CreateFails, TypeInv, MainHolds
<1>5. ASSUME NEW t \in Conn, Start(t) \/ Greet(t) \/ Open(t) \/ SendFails(t) \/ SendChunk(t) PROVE CountInv'
  BY <1>5, <1>t DEF Start, Greet, Open, SendFails, SendChunk
<1>6. ASSUME NEW t \in Conn, Finish(t) \/ Abandon(t) \/ RecvRequest(t) \/ Hangup(t) PROVE CountInv'
  BY <1>6, <1>t DEF Finish, Abandon, RecvRequest, Hangup
<1>7. ASSUME NEW t \in Conn, Decrement(t) PROVE CountInv'
  BY <1>7, <1>t DEF Decrement, Load, Store
<1>8. ASSUME NEW t \in Conn, Exit(t) \/ Kill(t) PROVE CountInv'
  BY <1>8 DEF Exit, Kill, End, AllAt, Blank
<1> QED BY <1>1, <1>2, <1>3, <1>4, <1>5, <1>6, <1>7, <1>8 DEF Next, MainStep, ThreadStep, ClientStep

\* Lost updates included, no_connections never passes max_connections.
THEOREM CountNeverAboveLimit == Spec => []CountBounded
<1>1. CountInv => CountBounded
  BY DEF CountInv
<1> QED BY TypeInit, TypeNext, CountInit, CountNext, <1>1, PTL DEF Spec

-------------------------------------------------------------------------------
(* What no_connections counts.                                                *)

AccountInv ==
  updates = "lost" \/ (IsFiniteSet(Counted) /\ no_connections = Cardinality(Counted))

LEMMA AccountInit == Init => AccountInv
<1> SUFFICES ASSUME Init PROVE AccountInv
  OBVIOUS
<1>1. Counted = {} /\ no_connections = 0
  BY Threads DEF Init, Counted, AllAt, Bound, At
<1> QED BY <1>1, FS_EmptySet DEF AccountInv

LEMMA AccountQuiet ==
  ASSUME AccountInv, UNCHANGED <<updates, no_connections>>, Counted' = Counted
  PROVE  AccountInv'
  BY DEF AccountInv

LEMMA AccountIncrement ==
  ASSUME TypeInv, AccountInv, Store(Main, "store", "create", reg[Main] + 1)
  PROVE  AccountInv'
<1>1. /\ pc[Main] = "store" /\ pc' = [pc EXCEPT ![Main] = "create"] /\ conn' = conn
      /\ no_connections' = reg[Main] + 1 /\ conn \in Conn /\ pc[conn] = "none"
      /\ pc \in [Thread -> MainPc \cup ThreadPc]
      /\ updates' = IF reg[Main] = no_connections THEN updates ELSE "lost"
  BY DEF Store, Step, TypeInv, TypeOK, MainHolds
<1>2. CASE updates' = "lost"
  BY <1>2 DEF AccountInv
<1>3. CASE updates' # "lost"
  <2>1. reg[Main] = no_connections /\ IsFiniteSet(Counted) /\ no_connections = Cardinality(Counted)
    BY <1>1, <1>3 DEF AccountInv
  <2>2. Counted' = Counted \cup {conn}
    BY <1>1, Threads DEF Counted, At, Bound
  <2>3. conn \notin Counted
    BY <1>1, Threads DEF Counted, At, Bound
  <2>4. IsFiniteSet(Counted') /\ Cardinality(Counted') = Cardinality(Counted) + 1
    BY <2>1, <2>2, <2>3, FS_AddElement
  <2> QED BY <1>1, <2>1, <2>4 DEF AccountInv
<1> QED BY <1>2, <1>3

LEMMA AccountDecrement ==
  ASSUME TypeInv, AccountInv, NEW t \in Conn, Store(t, "store", "done", reg[t] - 1)
  PROVE  AccountInv'
<1>1. /\ pc[t] = "store" /\ pc' = [pc EXCEPT ![t] = "done"] /\ conn' = conn
      /\ no_connections' = reg[t] - 1 /\ pc \in [Thread -> MainPc \cup ThreadPc]
      /\ updates' = IF reg[t] = no_connections THEN updates ELSE "lost"
      /\ At(Main, "create") => pc[conn] = "none"
  BY DEF Store, Step, TypeInv, TypeOK, MainHolds, At
<1>2. CASE updates' = "lost"
  BY <1>2 DEF AccountInv
<1>3. CASE updates' # "lost"
  <2>1. reg[t] = no_connections /\ IsFiniteSet(Counted) /\ no_connections = Cardinality(Counted)
    BY <1>1, <1>3 DEF AccountInv
  <2>2. t \in Counted /\ Counted' = Counted \ {t}
    BY <1>1, Threads DEF Counted, At, Bound
  <2>3. IsFiniteSet(Counted') /\ Cardinality(Counted') = Cardinality(Counted) - 1
    BY <2>1, <2>2, FS_RemoveElement
  <2> QED BY <1>1, <2>1, <2>3 DEF AccountInv
<1> QED BY <1>2, <1>3

LEMMA AccountNext == TypeInv /\ AccountInv /\ [Next]_vars => AccountInv'
<1> SUFFICES ASSUME TypeInv, AccountInv, [Next]_vars PROVE AccountInv'
  OBVIOUS
<1> USE Threads DEF At, Step
<1>t. /\ pc \in [Thread -> MainPc \cup ThreadPc]
      /\ pc[Main] \in {"admit", "load", "store", "create"} => conn \in Conn /\ pc[conn] = "none"
  BY DEF TypeInv, TypeOK, MainHolds
<1> USE DEF Counted, Bound
<1>1. CASE UNCHANGED vars
  BY <1>1, AccountQuiet DEF vars, count
<1>2. CASE Accept \/ Refuse \/ Admit
  BY <1>2, <1>t, AccountQuiet DEF Accept, Refuse, Admit, count
<1>3. CASE Increment
  BY <1>3, <1>t, AccountQuiet, AccountIncrement DEF Increment, Load
<1>4. CASE CreateThread \/ CreateFails
  BY <1>4, <1>t, AccountQuiet DEF CreateThread, CreateFails, count
<1>5. ASSUME NEW t \in Conn, Start(t) \/ Greet(t) \/ Open(t) \/ SendFails(t) \/ SendChunk(t)
      PROVE  AccountInv'
  BY <1>5, <1>t, AccountQuiet DEF Start, Greet, Open, SendFails, SendChunk, count
<1>6. ASSUME NEW t \in Conn, Finish(t) \/ Abandon(t) \/ RecvRequest(t) \/ Hangup(t)
      PROVE  AccountInv'
  BY <1>6, <1>t, AccountQuiet DEF Finish, Abandon, RecvRequest, Hangup, count
<1>7. ASSUME NEW t \in Conn, Decrement(t) PROVE AccountInv'
  BY <1>7, <1>t, AccountQuiet, AccountDecrement DEF Decrement, Load
<1>8. ASSUME NEW t \in Conn, Exit(t) \/ Kill(t) PROVE AccountInv'
  <2>1. Counted' = {} /\ no_connections' = 0
    BY <1>8 DEF Exit, Kill, End, AllAt, Blank
  <2> QED BY <2>1, FS_EmptySet DEF AccountInv
<1> QED BY <1>1, <1>2, <1>3, <1>4, <1>5, <1>6, <1>7, <1>8 DEF Next, MainStep, ThreadStep, ClientStep

\* no_connections is the number of connections being served plus those that ended early:
\* every admission is counted once, every song sent gives its place back once, and exactly
\* the early exits never do; unless updates overwrite each other.
THEOREM CountIsAccounted == Spec => []CountAccounted
<1>1. AccountInv => CountAccounted
  BY DEF AccountInv, CountAccounted
<1> QED BY TypeInit, TypeNext, AccountInit, AccountNext, <1>1, PTL DEF Spec

-------------------------------------------------------------------------------
(* The server implements Connections: each step moves one connection along   *)
(* its phases, or none.                                                      *)

LEMMA MoveStep ==
  ASSUME NEW c \in Conn, NEW a, NEW b, Up' = Up, PhaseOf(c) = a, PhaseOf(c)' = b,
         \A d \in Conn \ {c} : PhaseOf(d)' = PhaseOf(d)
  PROVE  Abstract!Move(c, a, b)
  BY Zenon DEF Abstract!Move

LEMMA StutterStep ==
  ASSUME Up' = Up, \A d \in Conn : PhaseOf(d)' = PhaseOf(d)
  PROVE  UNCHANGED Abstract!vars
  BY Zenon DEF Abstract!vars

LEMMA RefinementInit == Init => Abstract!Init
<1> SUFFICES ASSUME Init PROVE Abstract!Init
  OBVIOUS
<1>1. Up = TRUE
  BY DEF Init, AllAt, Up, Thread
<1>2. \A c \in Conn : PhaseOf(c) = "new"
  BY Threads DEF Init, AllAt, Blank, Up, PhaseOf, IsOpen, At
<1> QED BY <1>1, <1>2, Zenon DEF Abstract!Init

LEMMA RefinementNext ==
  TypeInv /\ OwnInv /\ [Next]_vars => [Abstract!Next]_Abstract!vars
<1> SUFFICES ASSUME TypeInv, OwnInv, Next PROVE Abstract!Next \/ UNCHANGED Abstract!vars
  <2>1. UNCHANGED vars => UNCHANGED Abstract!vars
    BY StutterStep DEF vars, kernel, count, PhaseOf, IsOpen, IsServed, Up, At
  <2> QED BY <2>1
<1> USE Threads DEF At, Step, PhaseOf, IsOpen, IsServed, Bound, Up
<1>t. /\ pc \in [Thread -> MainPc \cup ThreadPc] /\ args \in [Conn -> Fd \cup {None}]
      /\ client_socket \in [Thread -> Fd \cup {None}] /\ fdTab \in [Fd -> Conn \cup {None}]
      /\ Handling => conn \in Conn /\ pc[conn] = "none"
  BY DEF TypeInv, TypeOK, MainHolds, Handling
<1>o. /\ OwnDescriptor
      /\ Handling => client_socket[Main] \in Fd /\ fdTab[client_socket[Main]] = conn
      /\ OpenHeld
  BY DEF OwnInv, MainOwns
<1>u. Up
  BY DEF Next
<1> USE DEF count, kernel
<1>1. CASE Accept
  <2>1. PICK c \in Conn, fd \in Fd :
          /\ pc[c] = "none" /\ c \notin gone /\ fdTab[fd] = None
          /\ fdTab' = [fdTab EXCEPT ![fd] = c]
    BY <1>1 DEF Accept
  <2>2. Up' = Up /\ pc' = [pc EXCEPT ![Main] = "admit"] /\ gone' = gone
        /\ \A d \in Conn : client_socket'[d] = client_socket[d]
    BY <1>1, <1>t, <1>u DEF Accept
  <2>3. ~\E g \in Fd : fdTab[g] = c
    BY <1>1, <1>o, <2>1 DEF Accept, OpenHeld, HeldBy, Handling
  <2>4. PhaseOf(c) = "new" /\ PhaseOf(c)' = "accepted"
    BY <2>1, <2>2, <2>3, <1>t, <1>u
  <2>5. \A d \in Conn \ {c} : PhaseOf(d)' = PhaseOf(d)
    BY <2>1, <2>2, <1>t
  <2> QED BY <1>u, <2>2, <2>4, <2>5, MoveStep, Zenon DEF Abstract!Next, Abstract!Accept
<1>2. CASE Refuse \/ CreateFails
  <2>1. PICK c \in Conn : c = conn /\ pc[c] = "none"
    BY <1>2, <1>t DEF Refuse, CreateFails, Handling
  <2>2. Up' = Up /\ PhaseOf(c) = "accepted"
    BY <1>2, <1>t, <1>o, <1>u, <2>1 DEF Refuse, CreateFails, Handling
  <2>3. ~IsOpen(c)'
    BY <1>2, <1>t, <1>o, <2>1 DEF Refuse, CreateFails, Handling, CloseRefused, Close, OpenHeld, HeldBy
  <2>4. PhaseOf(c)' = "closed"
    BY <1>2, <1>t, <2>1, <2>2, <2>3 DEF Refuse, CreateFails
  <2>5. \A d \in Conn \ {c} : PhaseOf(d)' = PhaseOf(d)
    BY <1>2, <1>t, <1>o, <2>1, <2>2 DEF Refuse, CreateFails, Handling, CloseRefused, Close
  <2> QED BY <1>u, <2>2, <2>4, <2>5, MoveStep, Zenon DEF Abstract!Next, Abstract!TurnAway
<1>3. CASE CreateThread
  <2>1. PICK c \in Conn : c = conn /\ pc[c] = "none"
    BY <1>3, <1>t DEF CreateThread, Handling
  <2>2. Up' = Up /\ PhaseOf(c) = "accepted" /\ PhaseOf(c)' = "started"
    BY <1>3, <1>t, <1>o, <1>u, <2>1 DEF CreateThread, Handling
  <2>3. \A d \in Conn \ {c} : PhaseOf(d)' = PhaseOf(d)
    BY <1>3, <1>t, <1>u, <2>1 DEF CreateThread
  <2> QED BY <1>u, <2>2, <2>3, MoveStep, Zenon DEF Abstract!Next, Abstract!StartThread
<1>4. ASSUME NEW t \in Conn, Start(t) PROVE Abstract!Next
  <2>1. Up' = Up /\ PhaseOf(t) = "started" /\ PhaseOf(t)' = "served"
    BY <1>4, <1>t, <1>o, <1>u DEF Start, HandedOver, OwnDescriptor
  <2>2. \A d \in Conn \ {t} : PhaseOf(d)' = PhaseOf(d)
    BY <1>4, <1>t DEF Start
  <2> QED BY <1>u, <2>1, <2>2, MoveStep, Zenon DEF Abstract!Next, Abstract!Serve
<1>5. ASSUME NEW t \in Conn, Finish(t) \/ Abandon(t) PROVE Abstract!Next
  <2>1. Up' = Up /\ PhaseOf(t) = "served"
    BY <1>5, <1>t, <1>o, <1>u DEF Finish, Abandon, OwnDescriptor
  <2>2. ~IsOpen(t)'
    BY <1>5, <1>t, <1>o DEF Finish, Abandon, Close, OpenHeld, HeldBy, Handling
  <2>3. PhaseOf(t)' = "closed"
    BY <1>5, <1>t, <2>2 DEF Finish, Abandon
  <2>4. \A d \in Conn \ {t} : PhaseOf(d)' = PhaseOf(d)
    BY <1>5, <1>t, <1>o DEF Finish, Abandon, Close, OwnDescriptor
  <2> QED BY <1>u, <2>1, <2>3, <2>4, MoveStep, Zenon DEF Abstract!Next, Abstract!Finish
<1>6. CASE Admit \/ Increment
  BY <1>6, <1>t, <1>u, StutterStep DEF Admit, Increment, Load, Store
<1>7. ASSUME NEW t \in Conn, \/ Greet(t) \/ RecvRequest(t) \/ Open(t) \/ SendChunk(t) \/ SendFails(t)
                             \/ Decrement(t) \/ Hangup(t)
      PROVE  UNCHANGED Abstract!vars
  <2>1. CASE Hangup(t)
    BY <2>1, StutterStep DEF Hangup
  <2>2. CASE ~Hangup(t)
    BY <1>7, <2>2, <1>t, StutterStep DEF Greet, RecvRequest, Open, SendChunk, SendFails, Decrement, Load, Store
  <2> QED BY <2>1, <2>2
<1>8. ASSUME NEW t \in Conn, Exit(t) \/ Kill(t) PROVE Abstract!Next
  <2>1. Up' = FALSE
    BY <1>8 DEF Exit, Kill, End, AllAt
  <2>2. \A d \in Conn : PhaseOf(d)' = "closed"
    BY <2>1
  <2> QED BY <1>u, <2>1, <2>2, Zenon DEF Abstract!Next, Abstract!End
<1> QED BY <1>1, <1>2, <1>3, <1>4, <1>5, <1>6, <1>7, <1>8 DEF Next, MainStep, ThreadStep, ClientStep

\* Whatever the order of its threads, the server takes every connection through accepted,
\* started, served and closed, each connection by its own thread, as Connections demands.
THEOREM ServerImplementsConnections == Spec => ImplementsConnections
<1>1. Init => Abstract!Init
  BY RefinementInit
<1>2. TypeInv /\ OwnInv /\ [Next]_vars => [Abstract!Next]_Abstract!vars
  BY RefinementNext
<1> QED BY TypeInit, TypeNext, OwnInit, OwnNext, <1>1, <1>2, PTL DEF Spec, ImplementsConnections, Abstract!Spec
===============================================================================
