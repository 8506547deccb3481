------------------------------ MODULE ChatServer ------------------------------
(***************************************************************************)
(* The chat server, final_submission/.../Q3/serverQ3_cs21b016_cs21b019.c:   *)
(* main() accepting connections, one handle_client thread per accepted     *)
(* connection and the timeout_checker thread, over the shared registry     *)
(* clients[0..num_clients-1], the counter active_clients, client_mutex and *)
(* the variable new_socket, which main() hands to each thread by address.  *)
(*                                                                         *)
(* A step is what one thread does between two points where another thread  *)
(* may intervene: unprotected shared accesses ("x++" is a load, then a     *)
(* store), lock operations, and calls that block.                          *)
(*                                                                         *)
(* A definition named as a variant of the next one (NextIndexBelow, ...) is *)
(* a plausible bug, used only to see that a property would notice it.      *)
(***************************************************************************)
EXTENDS Integers, FiniteSets

CONSTANTS
  Conn,             \* connections; each also names the thread created for it
  Name,             \* usernames
  MAX_CLIENTS,      \* argv[2]
  TIMEOUT_SECONDS,  \* argv[3]
  Fd,               \* descriptors accept() may return
  MaxSlot,          \* bound: clients[] is modelled from -MaxSlot to MaxSlot
  MaxTime,          \* bound of the clock
  MaxRecv,          \* bound on the chat messages of all clients together
  None

ASSUME ChatAssumption ==
  /\ None \notin Conn \cup Name \cup Fd
  /\ {"main", "timeout_checker"} \cap (Conn \cup {None}) = {}
  /\ MAX_CLIENTS \in Int /\ TIMEOUT_SECONDS \in Int /\ Fd \subseteq Nat
  /\ MaxSlot \in Nat /\ MaxTime \in Nat /\ MaxRecv \in Nat

VARIABLES
  pc, i, reg,      \* of every thread: program counter, loop index, loaded value
  client_socket, username, curr_client,    \* locals of each handle_client
  ret,             \* where the send_to_all (or the list) in progress returns to
  from,            \* the connection a blocked recv() reads
  conn, current_time,      \* main: the connection accepted last; timeout_checker's local
  new_socket, clients, num_clients, active_clients, client_mutex,
  cancelled,       \* threads pthread_cancel was called on
  fdTab,           \* kernel: the connection behind each open descriptor
  gone,            \* connections whose client has closed its end or died
  now, budget,     \* time(NULL); chat messages still to be sent
  sent,            \* auxiliary: whom each send_to_all in progress has reached
  seen,            \* auxiliary: when each thread last received something
  history          \* auxiliary: "raced" once a removal without the lock overlapped another update

frame == <<client_socket, username, curr_client>>
call == <<ret, from, i, sent>>
registry == <<clients, num_clients, history>>
service == <<conn, current_time, new_socket>>
control == <<service, active_clients, client_mutex, cancelled>>
kernel == <<fdTab, gone, now, budget>>
vars == <<pc, reg, seen, frame, call, registry, control, kernel>>

Main == "main"
Checker == "timeout_checker"
Thread == Conn \cup {Main, Checker}
Slot == (-MaxSlot)..MaxSlot
Entry == [name : Name \cup {None}, socket : Fd \cup {None}, last_active : Int,
          thread_id : Conn \cup {None}]
Pc == {"accept", "admit", "load", "store", "create", "exited",           \* main
       "none", "start", "prompt", "name", "lock", "reject", "rejected", "write", "count", "list",
       "lock_all", "send_all", "recv", "message", "stamp", "bye", "remove", "removed", "close",
       "drop", "dropped", "done", "cancelled",                           \* handle_client
       "sweep", "notify", "closed"}                                      \* timeout_checker

TypeOK ==
  /\ pc \in [Thread -> Pc] /\ i \in [Thread -> Int] /\ reg \in [Thread -> Int]
  /\ client_socket \in [Conn -> Fd \cup {None}] /\ username \in [Conn -> Name \cup {None}]
  /\ curr_client \in [Conn -> Slot] /\ ret \in [Conn -> {"lock_all", "recv", "remove"}]
  /\ from \in [Conn -> Conn \cup {None}] /\ conn \in Conn \cup {None} /\ current_time \in Int
  /\ new_socket \in Fd \cup {None} /\ clients \in [Slot -> Entry]
  /\ num_clients \in Int /\ active_clients \in Int
  /\ client_mutex \in Conn \cup {Checker, None} /\ cancelled \subseteq Conn
  /\ fdTab \in [Fd -> Conn \cup {None}] /\ gone \subseteq Conn /\ now \in Int /\ budget \in Int
  /\ sent \in [Conn -> SUBSET Fd] /\ seen \in [Conn -> Int] /\ history \in {"orderly", "raced"}

AllAt(p) == [x \in Thread |-> IF x = Main THEN p ELSE IF x = Checker THEN "lock" ELSE "none"]
Zeros == [x \in Thread |-> 0]
Nones == [t \in Conn |-> None]
NoClient == [k \in Slot |-> [name |-> None, socket |-> None, last_active |-> 0, thread_id |-> None]]
AllClosed == [fd \in Fd |-> None]

Init ==
  /\ pc = AllAt("accept") /\ i = Zeros /\ reg = Zeros
  /\ client_socket = Nones /\ username = Nones /\ from = Nones
  /\ curr_client = [t \in Conn |-> 0] /\ seen = [t \in Conn |-> 0]
  /\ ret = [t \in Conn |-> "recv"] /\ sent = [t \in Conn |-> {}]
  /\ clients = NoClient /\ num_clients = 0 /\ active_clients = 0 /\ client_mutex = None
  /\ conn = None /\ current_time = 0 /\ new_socket = None
  /\ fdTab = AllClosed /\ cancelled = {} /\ history = "orderly"
  /\ gone = {} /\ now = 0 /\ budget = MaxRecv

At(x, p) == pc[x] = p
Goto(x, p) == pc' = [pc EXCEPT ![x] = p]

-------------------------------------------------------------------------------
(* Descriptors, clients and time.                                            *)

ConnOf(fd) == IF fd \in Fd THEN fdTab[fd] ELSE None
Close(fd) == fdTab' = [f \in Fd |-> IF f = fd THEN None ELSE fdTab[f]]

Hangup(c) ==
  /\ c \notin gone
  /\ (\E fd \in Fd : fdTab[fd] = c) \/ \E t \in Conn : from[t] = c
  /\ gone' = gone \cup {c}
  /\ UNCHANGED <<pc, reg, seen, frame, call, registry, control, fdTab, now, budget>>

Tick ==
  /\ now < MaxTime
  /\ now' = now + 1
  /\ UNCHANGED <<pc, reg, seen, frame, call, registry, control, fdTab, gone, budget>>

-------------------------------------------------------------------------------
(* The registry. Only \bye removes without the lock; its removal overlaps    *)
(* another update, or a send_to_all, when that one is half done at a write.  *)

Registered == {k \in Slot : 0 <= k /\ k < num_clients}
EntryOf(t) == [name |-> username[t], socket |-> client_socket[t], last_active |-> now, thread_id |-> t]
NameTakenButLast(t) == \E k \in Registered : k < num_clients - 1 /\ clients[k].name = username[t]
NameTaken(t) == \E k \in Registered : clients[k].name = username[t]
NextIndexBelow == num_clients - 1
NextIndexAfter == num_clients + 1
NextIndex == num_clients
ShiftedFromNext(index) == [k \in Slot |-> IF index < k /\ k < num_clients - 1 THEN clients[k + 1]
                                          ELSE clients[k]]
Shifted(index) == [k \in Slot |-> IF index <= k /\ k < num_clients - 1 THEN clients[k + 1]
                                  ELSE clients[k]]

HalfRemoved(t) == \/ pc[t] \in {"remove", "removed"}
                  \/ pc[t] \in {"lock_all", "send_all"} /\ ret[t] = "remove"
HalfUpdated(x) == IF x = Checker THEN pc[x] \in {"notify", "closed", "cancelled", "removed"}
                  ELSE HalfRemoved(x) \/ pc[x] \in {"write", "count", "send_all"}
NotedRemoval(x) == history' = IF \E y \in (Conn \cup {Checker}) \ {x} : HalfUpdated(y)
                              THEN "raced" ELSE history
NotedInsertion(x) == history' = IF \E y \in Conn \ {x} : At(y, "removed")
                                THEN "raced" ELSE history

-------------------------------------------------------------------------------
(* main()                                                                    *)

Accept ==
  /\ At(Main, "accept") /\ Goto(Main, "admit")
  /\ \E c \in Conn, fd \in Fd :
       /\ At(c, "none") /\ c \notin gone
       /\ fdTab[fd] = None /\ \A f \in Fd : fdTab[f] = None => fd <= f
       /\ fdTab' = [fdTab EXCEPT ![fd] = c] /\ new_socket' = fd /\ conn' = c
  /\ UNCHANGED <<reg, seen, frame, call, registry, current_time, active_clients, client_mutex,
                 cancelled, gone, now, budget>>

FullTooLate == active_clients > MAX_CLIENTS
Full == active_clients >= MAX_CLIENTS

Refuse ==
  /\ At(Main, "admit") /\ Full /\ Goto(Main, "accept")
  /\ Close(new_socket) /\ gone' = gone \cup {conn}
  /\ UNCHANGED <<reg, seen, frame, call, registry, control, now, budget>>

Admit ==
  /\ At(Main, "admit") /\ ~Full /\ Goto(Main, "load")
  /\ UNCHANGED <<reg, seen, frame, call, registry, control, kernel>>

LoadActive ==
  /\ At(Main, "load") /\ Goto(Main, "store")
  /\ reg' = [reg EXCEPT ![Main] = active_clients]
  /\ UNCHANGED <<seen, frame, call, registry, control, kernel>>

StoreActive ==
  /\ At(Main, "store") /\ Goto(Main, "create")
  /\ active_clients' = reg[Main] + 1 /\ reg' = [reg EXCEPT ![Main] = 0]
  /\ UNCHANGED <<seen, frame, call, registry, service, client_mutex, cancelled, kernel>>

CreateThread ==
  /\ At(Main, "create")
  /\ pc' = [pc EXCEPT ![Main] = "accept", ![conn] = "start"]
  /\ UNCHANGED <<reg, seen, frame, call, registry, control, kernel>>

-------------------------------------------------------------------------------
(* handle_client(): up to the registration.                                  *)

\* A thread with a pending cancel goes no further than its next cancellation point.
AtCall(t, p) == At(t, p) /\ t \notin cancelled

\* The locals of a thread are lost when it ends.
End(t, p) ==
  /\ Goto(t, p)
  /\ client_socket' = [client_socket EXCEPT ![t] = None]
  /\ username' = [username EXCEPT ![t] = None] /\ curr_client' = [curr_client EXCEPT ![t] = 0]
  /\ from' = [from EXCEPT ![t] = None] /\ ret' = [ret EXCEPT ![t] = "recv"]
  /\ i' = [i EXCEPT ![t] = 0] /\ sent' = [sent EXCEPT ![t] = {}]
  /\ reg' = [reg EXCEPT ![t] = 0] /\ seen' = [seen EXCEPT ![t] = 0]

\* "*(int *)arg" is main's new_socket, whatever it holds by now.
Start(t) ==
  /\ At(t, "start") /\ Goto(t, "prompt")
  /\ client_socket' = [client_socket EXCEPT ![t] = new_socket]
  /\ UNCHANGED <<reg, seen, username, curr_client, call, registry, control, kernel>>

\* recv() blocks on the connection its descriptor names when it is called.
Await(t) ==
  /\ \/ AtCall(t, "prompt") /\ Goto(t, "name")
     \/ AtCall(t, "recv") /\ Goto(t, "message")
  /\ from' = [from EXCEPT ![t] = ConnOf(client_socket[t])]
  /\ UNCHANGED <<reg, seen, frame, ret, i, sent, registry, control, kernel>>

RecvName(t) ==
  /\ At(t, "name") /\ from[t] # None /\ Goto(t, "lock")
  /\ from' = [from EXCEPT ![t] = None]
  /\ \E n \in Name : username' = [username EXCEPT ![t] = n]
  /\ UNCHANGED <<reg, seen, client_socket, curr_client, ret, i, sent, registry, control, kernel>>

\* recv() <= 0: the client has gone, or the descriptor was closed.
RecvEnd(t) ==
  /\ AtCall(t, "name") \/ AtCall(t, "message")
  /\ from[t] \in gone \cup {None} /\ Goto(t, "drop")
  /\ from' = [from EXCEPT ![t] = None]
  /\ UNCHANGED <<reg, seen, frame, ret, i, sent, registry, control, kernel>>

\* Both exits of a thread that has lost its client, and of one whose name is taken:
\* close() and the load of active_clients, then the store.
Drop(t) ==
  /\ \/ AtCall(t, "drop") /\ Goto(t, "dropped")
     \/ At(t, "reject") /\ Goto(t, "rejected")
  /\ Close(client_socket[t]) /\ reg' = [reg EXCEPT ![t] = active_clients]
  /\ UNCHANGED <<seen, frame, call, registry, control, gone, now, budget>>

Dropped(t) ==
  /\ At(t, "dropped") /\ End(t, "done")
  /\ active_clients' = reg[t] - 1
  /\ UNCHANGED <<registry, service, client_mutex, cancelled, kernel>>

RejectedLocked(t) ==
  /\ At(t, "rejected") /\ End(t, "done")
  /\ active_clients' = reg[t] - 1
  /\ UNCHANGED <<registry, service, client_mutex, cancelled, kernel>>

Rejected(t) ==
  /\ At(t, "rejected") /\ End(t, "done")
  /\ active_clients' = reg[t] - 1 /\ client_mutex' = None
  /\ UNCHANGED <<registry, service, cancelled, kernel>>

Take(x) == client_mutex = None /\ client_mutex' = x

LockAndScan(t) ==
  /\ At(t, "lock") /\ Take(t) /\ Goto(t, IF NameTaken(t) THEN "reject" ELSE "write")
  /\ UNCHANGED <<reg, seen, frame, call, registry, service, active_clients, cancelled, kernel>>

WriteEntry(t) ==
  /\ At(t, "write") /\ num_clients \in Slot /\ Goto(t, "count")
  /\ clients' = [clients EXCEPT ![num_clients] = EntryOf(t)]
  /\ curr_client' = [curr_client EXCEPT ![t] = NextIndex]
  /\ reg' = [reg EXCEPT ![t] = num_clients] /\ seen' = [seen EXCEPT ![t] = now]
  /\ NotedInsertion(t)
  /\ UNCHANGED <<client_socket, username, call, num_clients, control, kernel>>

CountEntry(t) ==
  /\ At(t, "count") /\ Goto(t, "list")
  /\ num_clients' = reg[t] + 1 /\ client_mutex' = None
  /\ ret' = [ret EXCEPT ![t] = "lock_all"] /\ reg' = [reg EXCEPT ![t] = 0]
  /\ NotedInsertion(t)
  /\ UNCHANGED <<seen, frame, from, i, sent, clients, service, active_clients, cancelled, kernel>>

-------------------------------------------------------------------------------
(* handle_client(): the message loop, with send_to_all and remove_client.    *)

\* The registered names go to the client; a newcomer is then announced to all.
SendUserList(t) ==
  /\ AtCall(t, "list") /\ Goto(t, ret[t])
  /\ ret' = [ret EXCEPT ![t] = "recv"]
  /\ UNCHANGED <<reg, seen, frame, from, i, sent, registry, control, kernel>>

Recv(t) ==
  /\ AtCall(t, "message") /\ from[t] # None /\ Goto(t, "stamp")
  /\ budget > 0 /\ budget' = budget - 1
  /\ from' = [from EXCEPT ![t] = None] /\ seen' = [seen EXCEPT ![t] = now]
  /\ UNCHANGED <<reg, frame, ret, i, sent, registry, control, fdTab, gone, now>>

\* clients[curr_client].last_active = time(NULL), without the lock; then by the kind of message:
\* \list, \bye or a text for all. Nothing here is a cancellation point.
RenewedNot(t) == UNCHANGED clients
Renewed(t) == clients' = [clients EXCEPT ![curr_client[t]].last_active = now]

Stamp(t) ==
  /\ At(t, "stamp") /\ Renewed(t)
  /\ Goto(t, "list") \/ Goto(t, "bye") \/ Goto(t, "lock_all")
  /\ UNCHANGED <<reg, seen, frame, call, num_clients, history, control, kernel>>

\* The first entry with this socket is announced and removed, at the index found here.
Bye(t) ==
  LET own == {k \in Registered : clients[k].socket = client_socket[t]}
  IN  /\ At(t, "bye")
      /\ \/ own = {} /\ Goto(t, "close") /\ UNCHANGED <<ret, reg>>
         \/ \E k \in own :
              /\ \A j \in own : k <= j
              /\ Goto(t, "lock_all") /\ ret' = [ret EXCEPT ![t] = "remove"]
              /\ reg' = [reg EXCEPT ![t] = k]
      /\ UNCHANGED <<seen, frame, from, i, sent, registry, control, kernel>>

LockAll(t) ==
  /\ At(t, "lock_all") /\ Take(t) /\ Goto(t, "send_all")
  /\ UNCHANGED <<reg, seen, frame, call, registry, service, active_clients, cancelled, kernel>>

MoreToSendButLast(t) == i[t] < num_clients - 1
MoreToSend(t) == i[t] < num_clients
ToOther(t) == clients[i[t]].socket # client_socket[t]

SendNext(t) ==
  /\ At(t, "send_all") /\ MoreToSend(t)
  /\ \/ ~ToOther(t) /\ UNCHANGED sent
     \/ ToOther(t) /\ t \notin cancelled
        /\ sent' = [sent EXCEPT ![t] = @ \cup ({clients[i[t]].socket} \cap Fd)]
  /\ i' = [i EXCEPT ![t] = @ + 1]
  /\ UNCHANGED <<pc, reg, seen, frame, ret, from, registry, control, kernel>>

UnlockAll(t) ==
  /\ At(t, "send_all") /\ ~MoreToSend(t) /\ Goto(t, ret[t])
  /\ client_mutex' = None
  /\ ret' = [ret EXCEPT ![t] = "recv"] /\ i' = [i EXCEPT ![t] = 0] /\ sent' = [sent EXCEPT ![t] = {}]
  /\ UNCHANGED <<reg, seen, frame, from, registry, service, active_clients, cancelled, kernel>>

\* remove_client(i): the shift and the load of num_clients, then the store.
Shift(t) ==
  /\ At(t, "remove") /\ Goto(t, "removed")
  /\ clients' = Shifted(reg[t]) /\ reg' = [reg EXCEPT ![t] = num_clients]
  /\ NotedRemoval(t)
  /\ UNCHANGED <<seen, frame, call, num_clients, control, kernel>>

Uncount(t) ==
  /\ At(t, "removed") /\ Goto(t, "close")
  /\ num_clients' = reg[t] - 1 /\ reg' = [reg EXCEPT ![t] = 0]
  /\ NotedRemoval(t)
  /\ UNCHANGED <<seen, frame, call, clients, control, kernel>>

CloseAfterBye(t) ==
  /\ AtCall(t, "close") /\ End(t, "done")
  /\ Close(client_socket[t])
  /\ UNCHANGED <<registry, control, gone, now, budget>>

\* The cancellation points are recv, close and the sends; a mutex held is not released.
Die(t) ==
  /\ t \in cancelled
  /\ \/ pc[t] \in {"list", "recv", "message", "drop", "close"}
     \/ At(t, "send_all") /\ MoreToSend(t) /\ ToOther(t)
  /\ End(t, "cancelled")
  /\ UNCHANGED <<registry, control, kernel>>

-------------------------------------------------------------------------------
(* timeout_checker()                                                         *)

ExpiredSwapped(k) == clients[k].last_active - current_time > TIMEOUT_SECONDS
Expired(k) == current_time - clients[k].last_active > TIMEOUT_SECONDS
Sweeping == At(Checker, "sweep") /\ i[Checker] < num_clients
Advance == i' = [i EXCEPT ![Checker] = @ + 1]

LockSweep ==
  /\ At(Checker, "lock") /\ Take(Checker) /\ Goto(Checker, "sweep")
  /\ current_time' = now
  /\ UNCHANGED <<reg, seen, frame, call, registry, conn, new_socket, active_clients, cancelled, kernel>>

KeepClient ==
  /\ Sweeping /\ ~Expired(i[Checker]) /\ Advance
  /\ UNCHANGED <<pc, reg, seen, frame, ret, from, sent, registry, control, kernel>>

Condemn ==
  /\ Sweeping /\ Expired(i[Checker]) /\ Goto(Checker, "notify")
  /\ UNCHANGED <<reg, seen, frame, call, registry, control, kernel>>

\* The sends of the notices have returned; close() and the load of active_clients.
CloseTimedOut ==
  /\ At(Checker, "notify") /\ Goto(Checker, "closed")
  /\ Close(clients[i[Checker]].socket) /\ reg' = [reg EXCEPT ![Checker] = active_clients]
  /\ UNCHANGED <<seen, frame, call, registry, control, gone, now, budget>>

CancelTimedOut ==
  /\ At(Checker, "closed") /\ Goto(Checker, "cancelled")
  /\ active_clients' = reg[Checker] - 1
  /\ cancelled' = cancelled \cup ({clients[i[Checker]].thread_id} \cap Conn)
  /\ UNCHANGED <<reg, seen, frame, call, registry, service, client_mutex, kernel>>

ShiftTimedOut ==
  /\ At(Checker, "cancelled") /\ Goto(Checker, "removed")
  /\ clients' = Shifted(i[Checker]) /\ reg' = [reg EXCEPT ![Checker] = num_clients]
  /\ NotedRemoval(Checker)
  /\ UNCHANGED <<seen, frame, call, num_clients, control, kernel>>

UncountTimedOut ==
  /\ At(Checker, "removed") /\ Goto(Checker, "sweep") /\ Advance
  /\ num_clients' = reg[Checker] - 1 /\ reg' = [reg EXCEPT ![Checker] = 0]
  /\ NotedRemoval(Checker)
  /\ UNCHANGED <<seen, frame, ret, from, sent, clients, control, kernel>>

UnlockSweep ==
  /\ At(Checker, "sweep") /\ i[Checker] >= num_clients /\ Goto(Checker, "lock")
  /\ client_mutex' = None /\ i' = [i EXCEPT ![Checker] = 0] /\ current_time' = 0
  /\ UNCHANGED <<reg, seen, frame, ret, from, sent, registry, conn, new_socket, active_clients,
                 cancelled, kernel>>

-------------------------------------------------------------------------------
(* The process ends when accept() or pthread_create() fails, or when SIGPIPE *)
(* is raised by a send() to a client that has gone; nothing handles it. All  *)
(* its memory and descriptors go with it.                                    *)

Up == ~At(Main, "exited")
Sending(x) ==
  IF x = Main THEN IF At(x, "admit") /\ Full THEN {new_socket} ELSE {}
  ELSE IF At(x, "notify") THEN {clients[k].socket : k \in Registered \cup {i[x]}}
  ELSE IF At(x, "send_all") /\ MoreToSend(x) THEN {clients[i[x]].socket} \ {client_socket[x]}
  ELSE IF pc[x] \in {"prompt", "reject", "list"} THEN {client_socket[x]} ELSE {}

Exit ==
  /\ \/ pc[Main] \in {"accept", "create"}
     \/ \E x \in Thread : \E fd \in Sending(x) : ConnOf(fd) \in gone
  /\ pc' = AllAt("exited") /\ i' = Zeros /\ reg' = Zeros
  /\ client_socket' = Nones /\ username' = Nones /\ from' = Nones
  /\ curr_client' = [t \in Conn |-> 0] /\ seen' = [t \in Conn |-> 0]
  /\ ret' = [t \in Conn |-> "recv"] /\ sent' = [t \in Conn |-> {}]
  /\ clients' = NoClient /\ num_clients' = 0 /\ active_clients' = 0 /\ client_mutex' = None
  /\ conn' = None /\ current_time' = 0 /\ new_socket' = None
  /\ fdTab' = AllClosed /\ cancelled' = {} /\ history' = "orderly"
  /\ UNCHANGED <<gone, now, budget>>

MainStep == Refuse \/ Admit \/ LoadActive \/ StoreActive \/ CreateThread
LockStep(t) == LockAndScan(t) \/ LockAll(t)
ReceiveStep(t) == RecvName(t) \/ Recv(t)
ThreadStep(t) ==
  \/ Start(t) \/ Await(t) \/ RecvEnd(t) \/ Drop(t) \/ Dropped(t) \/ Rejected(t) \/ WriteEntry(t)
  \/ CountEntry(t) \/ SendUserList(t) \/ SendNext(t) \/ UnlockAll(t) \/ Stamp(t) \/ Bye(t) \/ Shift(t)
  \/ Uncount(t) \/ CloseAfterBye(t) \/ Die(t)
CheckerStep == \/ LockSweep \/ KeepClient \/ Condemn \/ CloseTimedOut \/ CancelTimedOut
               \/ ShiftTimedOut \/ UncountTimedOut \/ UnlockSweep

Next ==
  /\ Up
  /\ \/ Accept \/ MainStep \/ CheckerStep \/ Tick \/ Exit
     \/ \E t \in Conn : ThreadStep(t) \/ LockStep(t) \/ ReceiveStep(t) \/ Hangup(t)

Spec == Init /\ [][Next]_vars

\* A blocking send() may never return while its client stays connected and does not read, unless
\* the sender is cancelled in it.
Waits(x) == x \notin cancelled /\ \E fd \in Sending(x) : ConnOf(fd) \notin gone \cup {None}

\* Threads run, a free mutex is eventually had by a thread that keeps asking for it (the checker
\* sleeps between two sweeps), and recv() and send() return once the connection has ended. Clients
\* owe nothing, neither messages nor reading.
FairSpec ==
  /\ Spec
  /\ WF_vars(Up /\ ~Waits(Main) /\ MainStep) /\ WF_vars(Up /\ ~Waits(Checker) /\ CheckerStep)
  /\ \A t \in Conn : WF_vars(Up /\ ~Waits(t) /\ ThreadStep(t)) /\ SF_vars(Up /\ LockStep(t))
===============================================================================
