--------------------------- MODULE ChatServerProofs ---------------------------
(* Invariants of the chat server, for every number of connections, every     *)
(* limit and every timeout.                                                  *)
EXTENDS ChatServerProps, TLAPS

\* TypeOK needs the bounds that keep clients[k + 1] inside the modelled array.
Sizes ==
  /\ pc[Main] \in {"admit", "load", "store", "create"} => conn \in Conn
  /\ num_clients <= MaxSlot + 1
  /\ \A t \in Conn : At(t, "count") => reg[t] <= MaxSlot
  /\ \A x \in Thread : At(x, "removed") => reg[x] <= MaxSlot + 1
TypeInv == TypeOK /\ Sizes

LEMMA Threads == /\ Main \in Thread /\ Checker \in Thread /\ Main # Checker /\ Conn \subseteq Thread
                 /\ Main \notin Conn /\ Checker \notin Conn /\ None \notin Conn /\ None # Checker
  BY ChatAssumption DEF Main, Checker, Thread

LEMMA ShiftedType ==
  ASSUME clients \in [Slot -> Entry], num_clients \in Int, num_clients <= MaxSlot + 1,
         NEW index \in Int
  PROVE  Shifted(index) \in [Slot -> Entry]
  BY ChatAssumption DEF Shifted, Slot

LEMMA StampedType ==
  ASSUME clients \in [Slot -> Entry], now \in Int, NEW t \in Conn, Renewed(t)
  PROVE  clients' \in [Slot -> Entry]
<1> DEFINE e == [clients[curr_client[t]] EXCEPT !.last_active = now]
<1>1. curr_client[t] \in Slot => e \in Entry
  BY DEF Entry
<1>2. clients' = [clients EXCEPT ![curr_client[t]] = e]
  BY Zenon DEF Renewed
<1> HIDE DEF e
<1> QED BY <1>1, <1>2

LEMMA TypeInit == Init => TypeInv
  BY ChatAssumption, Threads DEF Init, TypeInv, TypeOK, Sizes, AllAt, Zeros, Nones, AllClosed,
     NoClient, Entry, Slot, At, Pc

LEMMA EndType ==
  ASSUME TypeOK, NEW t \in Conn, NEW p \in Pc, End(t, p)
  PROVE  /\ pc' \in [Thread -> Pc] /\ i' \in [Thread -> Int] /\ reg' \in [Thread -> Int]
         /\ client_socket' \in [Conn -> Fd \cup {None}] /\ username' \in [Conn -> Name \cup {None}]
         /\ curr_client' \in [Conn -> Slot] /\ ret' \in [Conn -> {"lock_all", "recv", "remove"}]
         /\ from' \in [Conn -> Conn \cup {None}]
         /\ sent' \in [Conn -> SUBSET Fd] /\ seen' \in [Conn -> Int]
  BY ChatAssumption, Threads DEF End, Goto, TypeOK, Slot

LEMMA TypeNext == TypeInv /\ [Next]_vars => TypeInv'
<1> SUFFICES ASSUME TypeInv, [Next]_vars PROVE TypeInv'
  OBVIOUS
<1> USE Threads DEF TypeInv, TypeOK, Sizes, At, Goto
<1>1. CASE UNCHANGED vars
  BY <1>1 DEF vars, frame, call, registry, control, service, kernel
<1> USE DEF frame, call, registry, control, service, kernel
<1>2. CASE Accept
  BY <1>2 DEF Accept, Pc
<1>3. CASE MainStep
  BY <1>3 DEF MainStep, Refuse, Admit, LoadActive, StoreActive, CreateThread, Close, Pc
<1>4. CASE CheckerStep
  <2>1. CASE ShiftTimedOut
    BY <2>1, ShiftedType DEF ShiftTimedOut, NotedRemoval, Pc
  <2>2. CASE LockSweep \/ KeepClient \/ Condemn \/ CloseTimedOut
    BY <2>2 DEF LockSweep, KeepClient, Condemn, CloseTimedOut, Take, Advance, Close, Pc
  <2>3. CASE CancelTimedOut
    BY <2>3 DEF CancelTimedOut, Pc
  <2>4. CASE UncountTimedOut
    <3>1. num_clients' \in Int /\ num_clients' <= MaxSlot + 1
      BY <2>4, ChatAssumption DEF UncountTimedOut
    <3>2. history' \in {"orderly", "raced"}
      BY <2>4 DEF UncountTimedOut, NotedRemoval
    <3>3. Sizes'
      BY <2>4, <3>1 DEF UncountTimedOut
    <3> QED BY <2>4, <3>1, <3>2, <3>3 DEF UncountTimedOut, Advance, Pc
  <2>5. CASE UnlockSweep
    BY <2>5 DEF UnlockSweep, Pc
  <2> QED BY <1>4, <2>1, <2>2, <2>3, <2>4, <2>5 DEF CheckerStep
<1>5. CASE Tick
  BY <1>5 DEF Tick
<1>6. CASE Exit
  <2>1. clients' \in [Slot -> Entry] /\ fdTab' \in [Fd -> Conn \cup {None}]
    BY <1>6 DEF Exit, NoClient, AllClosed, Entry
  <2>2. pc' \in [Thread -> Pc] /\ i' \in [Thread -> Int] /\ reg' \in [Thread -> Int]
    BY <1>6 DEF Exit, AllAt, Zeros, Pc
  <2>3. Sizes'
    BY <1>6, ChatAssumption DEF Exit, AllAt, Zeros
  <2>4. /\ client_socket' \in [Conn -> Fd \cup {None}] /\ username' \in [Conn -> Name \cup {None}]
        /\ from' \in [Conn -> Conn \cup {None}] /\ curr_client' \in [Conn -> Slot]
        /\ ret' \in [Conn -> {"lock_all", "recv", "remove"}]
        /\ sent' \in [Conn -> SUBSET Fd] /\ seen' \in [Conn -> Int]
    BY <1>6, ChatAssumption DEF Exit, Nones, Slot
  <2> QED BY <1>6, <2>1, <2>2, <2>3, <2>4 DEF Exit
<1>7. ASSUME NEW t \in Conn, Hangup(t) PROVE TypeInv'
  BY <1>7 DEF Hangup
<1>8. ASSUME NEW t \in Conn, LockStep(t) PROVE TypeInv'
  BY <1>8 DEF LockStep, LockAndScan, LockAll, Take, Pc
<1>9. ASSUME NEW t \in Conn, ReceiveStep(t) PROVE TypeInv'
  <2>1. CASE RecvName(t)
    BY <2>1 DEF RecvName, Pc
  <2>2. CASE Recv(t)
    BY <2>2 DEF Recv, Pc
  <2> QED BY <1>9, <2>1, <2>2 DEF ReceiveStep
<1>10. ASSUME NEW t \in Conn, ThreadStep(t) PROVE TypeInv'
  <2>1. CASE Start(t) \/ Await(t) \/ RecvEnd(t)
    BY <2>1 DEF Start, Await, RecvEnd, ConnOf, Pc
  <2>2. CASE Drop(t)
    BY <2>2 DEF Drop, Close, Pc
  <2>3. CASE Dropped(t) \/ Rejected(t) \/ CloseAfterBye(t) \/ Die(t)
    <3>1. PICK p \in {"done", "cancelled"} : End(t, p)
      BY <2>3 DEF Dropped, Rejected, CloseAfterBye, Die
    <3>2. p \in Pc /\ pc' = [pc EXCEPT ![t] = p] /\ reg' = [reg EXCEPT ![t] = 0]
      BY <3>1 DEF End, Pc
    <3>3. /\ active_clients' \in Int /\ client_mutex' \in Conn \cup {Checker, None}
          /\ fdTab' \in [Fd -> Conn \cup {None}]
          /\ UNCHANGED <<registry, service, cancelled, gone, now, budget>>
      BY <2>3 DEF Dropped, Rejected, CloseAfterBye, Die, Close
    <3>4. Sizes'
      BY <3>2, <3>3
    <3> QED BY <3>1, <3>2, <3>3, <3>4, EndType
  <2>4. CASE WriteEntry(t)
    BY <2>4 DEF WriteEntry, EntryOf, NextIndex, NotedInsertion, Slot, Entry, Pc
  <2>5. CASE CountEntry(t)
    <3>1. history' \in {"orderly", "raced"}
      BY <2>5 DEF CountEntry, NotedInsertion
    <3>2. num_clients' \in Int /\ num_clients' <= MaxSlot + 1
      BY <2>5, ChatAssumption DEF CountEntry
    <3>3. Sizes'
      BY <2>5, <3>2 DEF CountEntry
    <3> QED BY <2>5, <3>1, <3>2, <3>3 DEF CountEntry, Pc
  <2>6. CASE SendUserList(t) \/ SendNext(t) \/ UnlockAll(t)
    BY <2>6 DEF SendUserList, SendNext, UnlockAll, Pc
  <2>9. CASE Shift(t)
    BY <2>9, ShiftedType DEF Shift, NotedRemoval, Pc
  <2>7. CASE Stamp(t)
    <3>1. PICK p \in {"list", "bye", "lock_all"} : pc' = [pc EXCEPT ![t] = p]
      BY <2>7 DEF Stamp
    <3>2. Sizes' /\ pc' \in [Thread -> Pc]
      BY <2>7, <3>1 DEF Stamp, Pc
    <3>3. clients' \in [Slot -> Entry]
      BY <2>7, StampedType DEF Stamp
    <3> QED BY <2>7, <3>2, <3>3 DEF Stamp
  <2>8. CASE Bye(t)
    <3>1. reg' \in [Thread -> Int] /\ ret' \in [Conn -> {"lock_all", "recv", "remove"}]
      <4>1. Registered \subseteq Int
        BY DEF Registered, Slot
      <4> QED BY <2>8, <4>1 DEF Bye
    <3>2. PICK p \in {"close", "lock_all"} : pc' = [pc EXCEPT ![t] = p]
      BY <2>8 DEF Bye
    <3>3. Sizes' /\ pc' \in [Thread -> Pc]
      BY <2>8, <3>2 DEF Bye, Pc
    <3> QED BY <2>8, <3>1, <3>3 DEF Bye
  <2>10. CASE Uncount(t)
    <3>1. history' \in {"orderly", "raced"}
      BY <2>10 DEF Uncount, NotedRemoval
    <3>2. num_clients' \in Int /\ num_clients' <= MaxSlot + 1
      BY <2>10, ChatAssumption DEF Uncount
    <3>3. Sizes'
      BY <2>10, <3>2 DEF Uncount
    <3> QED BY <2>10, <3>1, <3>2, <3>3 DEF Uncount, Pc
  <2> QED BY <1>10, <2>1, <2>2, <2>3, <2>4, <2>5, <2>6, <2>7, <2>8, <2>9, <2>10 DEF ThreadStep
<1> QED
  BY <1>1, <1>2, <1>3, <1>4, <1>5, <1>6, <1>7, <1>8, <1>9, <1>10 DEF Next

\* Every variable keeps the type TypeOK gives it.
THEOREM TypeCorrect == Spec => []TypeOK
<1>1. TypeInv => TypeOK
  BY DEF TypeInv
<1> QED
  BY TypeInit, TypeNext, <1>1, PTL DEF Spec
-------------------------------------------------------------------------------
(* The thread main() is about to create has not run yet.                     *)

Unstarted == pc[Main] \in {"admit", "load", "store", "create"} => At(conn, "none")

LEMMA UnstartedInit == Init => Unstarted
  BY Threads DEF Init, Unstarted, AllAt

LEMMA UnstartedNext == TypeInv /\ Unstarted /\ [Next]_vars => Unstarted'
<1> SUFFICES ASSUME TypeOK, Sizes, Unstarted, [Next]_vars PROVE Unstarted'
  BY DEF TypeInv
<1> USE Threads DEF Unstarted, At, Goto, End
<1>t. /\ pc \in [Thread -> Pc] /\ ret \in [Conn -> {"lock_all", "recv", "remove"}]
      /\ pc[Main] \in {"admit", "load", "store", "create"} => conn \in Conn
  BY DEF TypeOK, Sizes
<1>1. CASE UNCHANGED vars \/ Tick \/ \E t \in Conn : Hangup(t)
  BY <1>1 DEF vars, Tick, Hangup, control, service
<1>2. CASE Accept
  BY <1>2, <1>t DEF Accept
<1>3. CASE MainStep
  BY <1>3, <1>t DEF MainStep, Refuse, Admit, LoadActive, StoreActive, CreateThread, control, service
<1>4. CASE CheckerStep
  BY <1>4, <1>t DEF CheckerStep, LockSweep, UnlockSweep, KeepClient, Condemn, CloseTimedOut, CancelTimedOut,
     ShiftTimedOut, UncountTimedOut, control, service
<1>5. CASE Exit
  BY <1>5 DEF Exit, AllAt
<1>6. ASSUME NEW t \in Conn, ThreadStep(t) \/ LockStep(t) \/ ReceiveStep(t) PROVE Unstarted'
  <2>1. /\ ~At(t, "none") /\ UNCHANGED conn /\ pc'[Main] = pc[Main]
        /\ \A c \in Conn \ {t} : pc'[c] = pc[c]
    <3>1. CASE LockStep(t)
      BY <3>1, <1>t DEF LockStep, LockAndScan, LockAll, service
    <3>2. CASE ReceiveStep(t)
      BY <3>2, <1>t DEF ReceiveStep, RecvName, Recv, AtCall, control, service
    <3>3. CASE Start(t) \/ Await(t) \/ RecvEnd(t) \/ Drop(t) \/ WriteEntry(t) \/ CountEntry(t)
      BY <3>3, <1>t DEF Start, Await, RecvEnd, Drop, WriteEntry, CountEntry, AtCall, control, service
    <3>4. CASE Dropped(t) \/ Rejected(t) \/ CloseAfterBye(t) \/ Die(t)
      BY <3>4, <1>t DEF Dropped, Rejected, CloseAfterBye, Die, AtCall, control, service
    <3>5. CASE SendUserList(t) \/ SendNext(t) \/ UnlockAll(t) \/ Shift(t) \/ Uncount(t)
      BY <3>5, <1>t DEF SendUserList, SendNext, UnlockAll, Shift, Uncount, AtCall, control, service
    <3>6. CASE Stamp(t) \/ Bye(t)
      BY <3>6, <1>t DEF Stamp, Bye, control, service
    <3> QED BY <1>6, <3>1, <3>2, <3>3, <3>4, <3>5, <3>6 DEF ThreadStep
  <2> QED BY <2>1, <1>t
<1> QED
  BY <1>1, <1>2, <1>3, <1>4, <1>5, <1>6 DEF Next

-------------------------------------------------------------------------------
(* The mutex.                                                                *)

LEMMA LockInit == Init => LockDiscipline
  BY Threads DEF Init, LockDiscipline, Critical, AllAt, At

LEMMA LockNext == TypeInv /\ Unstarted /\ LockDiscipline /\ [Next]_vars => LockDiscipline'
<1> SUFFICES ASSUME TypeOK, Sizes, Unstarted, LockDiscipline, [Next]_vars PROVE LockDiscipline'
  BY DEF TypeInv
<1> USE Threads DEF LockDiscipline, Critical, At, Goto, End
<1>t. pc \in [Thread -> Pc] /\ ret \in [Conn -> {"lock_all", "recv", "remove"}]
  BY DEF TypeOK
<1>1. CASE UNCHANGED vars \/ Tick \/ \E t \in Conn : Hangup(t)
  BY <1>1 DEF vars, Tick, Hangup, control
<1>2. CASE Accept \/ Refuse \/ Admit \/ LoadActive \/ StoreActive
  BY <1>2, <1>t DEF Accept, Refuse, Admit, LoadActive, StoreActive, control
<1>3. CASE CreateThread
  <2>1. conn \in Conn /\ pc[conn] = "none"
    BY <1>3 DEF CreateThread, Sizes, Unstarted
  <2> QED BY <1>3, <2>1, <1>t DEF CreateThread, control
<1>4. CASE LockSweep \/ UnlockSweep
  BY <1>4, <1>t DEF LockSweep, UnlockSweep, Take
<1>5. CASE KeepClient \/ Condemn \/ CloseTimedOut \/ CancelTimedOut \/ ShiftTimedOut \/ UncountTimedOut
  BY <1>5, <1>t DEF KeepClient, Condemn, CloseTimedOut, CancelTimedOut, ShiftTimedOut, UncountTimedOut, Sweeping, control
<1>6. CASE Exit
  BY <1>6 DEF Exit, AllAt
<1>7. ASSUME NEW t \in Conn, LockStep(t) PROVE LockDiscipline'
  BY <1>7, <1>t DEF LockStep, LockAndScan, LockAll, Take
<1>8. ASSUME NEW t \in Conn, ReceiveStep(t) PROVE LockDiscipline'
  BY <1>8, <1>t DEF ReceiveStep, RecvName, Recv, AtCall, control
<1>9. ASSUME NEW t \in Conn, Rejected(t) \/ CountEntry(t) \/ UnlockAll(t) PROVE LockDiscipline'
  BY <1>9, <1>t DEF Rejected, CountEntry, UnlockAll
<1>10. ASSUME NEW t \in Conn, Die(t) PROVE LockDiscipline'
  BY <1>10, <1>t DEF Die, control
<1>11. ASSUME NEW t \in Conn, Start(t) \/ Await(t) \/ RecvEnd(t) \/ SendUserList(t) PROVE LockDiscipline'
  BY <1>11, <1>t DEF Start, Await, RecvEnd, SendUserList, AtCall, control
<1>12. ASSUME NEW t \in Conn, Drop(t) \/ Dropped(t) \/ WriteEntry(t) \/ SendNext(t) PROVE LockDiscipline'
  BY <1>12, <1>t DEF Drop, Dropped, WriteEntry, SendNext, AtCall, control
<1>13. ASSUME NEW t \in Conn, Shift(t) \/ Uncount(t) \/ CloseAfterBye(t) PROVE LockDiscipline'
  BY <1>13, <1>t DEF Shift, Uncount, CloseAfterBye, AtCall, control
<1>14. ASSUME NEW t \in Conn, Stamp(t) \/ Bye(t) PROVE LockDiscipline'
  BY <1>14, <1>t DEF Stamp, Bye, control
<1> QED
  BY <1>1, <1>2, <1>3, <1>4, <1>5, <1>6, <1>7, <1>8, <1>9, <1>10, <1>11, <1>12, <1>13, <1>14
     DEF Next, MainStep, CheckerStep, ThreadStep

\* client_mutex is owned by whoever is in a locked section, and by nobody who has left
\* handle_client, unless it was cancelled there.
THEOREM MutexDiscipline == Spec => []LockDiscipline
  BY TypeInit, TypeNext, UnstartedInit, UnstartedNext, LockInit, LockNext, PTL DEF Spec
-------------------------------------------------------------------------------
(* The counter. A thread about to store active_clients - 1 loaded at most    *)
(* the limit, so its store cannot undo main's test before main's increment.  *)

Limit == IF MAX_CLIENTS > 0 THEN MAX_CLIENTS ELSE 0
CounterInv ==
  /\ active_clients <= Limit
  /\ At(Main, "load") => active_clients <= Limit - 1
  /\ At(Main, "store") => reg[Main] <= Limit - 1
  /\ \A t \in Conn : pc[t] \in {"dropped", "rejected"} => reg[t] <= Limit
  /\ At(Checker, "closed") => reg[Checker] <= Limit

LEMMA CounterInit == Init => CounterInv
  BY Threads, ChatAssumption DEF Init, CounterInv, AllAt, At, Limit

LEMMA CounterNext == TypeInv /\ Unstarted /\ CounterInv /\ [Next]_vars => CounterInv'
<1> SUFFICES ASSUME TypeOK, Sizes, Unstarted, CounterInv, [Next]_vars PROVE CounterInv'
  BY DEF TypeInv
<1> USE Threads DEF CounterInv, At, Goto, End
<1>t. /\ pc \in [Thread -> Pc] /\ ret \in [Conn -> {"lock_all", "recv", "remove"}]
      /\ reg \in [Thread -> Int] /\ active_clients \in Int /\ num_clients \in Int
      /\ pc[Main] \in {"admit", "load", "store", "create"} => conn \in Conn /\ pc[conn] = "none"
  BY DEF TypeOK, Sizes, Unstarted
<1>l. Limit \in Int /\ Limit >= MAX_CLIENTS /\ MAX_CLIENTS \in Int /\ Limit >= 0
  BY ChatAssumption DEF Limit
<1>1. CASE UNCHANGED vars \/ Tick \/ \E t \in Conn : Hangup(t)
  BY <1>1 DEF vars, Tick, Hangup, control
<1>2. CASE Accept \/ Refuse
  BY <1>2, <1>t DEF Accept, Refuse, control
<1>3. CASE Admit \/ LoadActive \/ StoreActive
  BY <1>3, <1>t, <1>l DEF Admit, LoadActive, StoreActive, Full, control
<1>4. CASE CreateThread
  BY <1>4, <1>t DEF CreateThread, control
<1>5. CASE LockSweep \/ UnlockSweep \/ KeepClient
  BY <1>5, <1>t DEF LockSweep, UnlockSweep, KeepClient, control
<1>6. CASE Condemn \/ CloseTimedOut \/ CancelTimedOut
  BY <1>6, <1>t, <1>l DEF Condemn, CloseTimedOut, CancelTimedOut, control
<1>7. CASE ShiftTimedOut \/ UncountTimedOut
  BY <1>7, <1>t DEF ShiftTimedOut, UncountTimedOut, control
<1>8. CASE Exit
  BY <1>8, <1>l DEF Exit, AllAt, Zeros
<1>9. ASSUME NEW t \in Conn, LockStep(t) \/ Start(t) \/ Await(t) \/ RecvEnd(t) PROVE CounterInv'
  BY <1>9, <1>t DEF LockStep, LockAndScan, LockAll, Start, Await, RecvEnd, control
<1>10. ASSUME NEW t \in Conn, ReceiveStep(t) PROVE CounterInv'
  BY <1>10, <1>t DEF ReceiveStep, RecvName, Recv, control
<1>11. ASSUME NEW t \in Conn, Drop(t) PROVE CounterInv'
  BY <1>11, <1>t DEF Drop, control
<1>12. ASSUME NEW t \in Conn, Dropped(t) \/ Rejected(t) PROVE CounterInv'
  BY <1>12, <1>t, <1>l DEF Dropped, Rejected
<1>13. ASSUME NEW t \in Conn, WriteEntry(t) \/ CountEntry(t) \/ SendUserList(t) PROVE CounterInv'
  BY <1>13, <1>t DEF WriteEntry, CountEntry, SendUserList, control
<1>14. ASSUME NEW t \in Conn, SendNext(t) \/ UnlockAll(t) PROVE CounterInv'
  BY <1>14, <1>t DEF SendNext, UnlockAll, control
<1>15. ASSUME NEW t \in Conn, Shift(t) \/ Uncount(t) \/ CloseAfterBye(t) \/ Die(t) PROVE CounterInv'
  BY <1>15, <1>t DEF Shift, Uncount, CloseAfterBye, Die, control
<1>16. ASSUME NEW t \in Conn, Stamp(t) \/ Bye(t) PROVE CounterInv'
  BY <1>16, <1>t DEF Stamp, Bye, control
<1> QED
  BY <1>1, <1>2, <1>3, <1>4, <1>5, <1>6, <1>7, <1>8, <1>9, <1>10, <1>11, <1>12, <1>13, <1>14, <1>15, <1>16
     DEF Next, MainStep, CheckerStep, ThreadStep

\* Whatever updates of active_clients are lost or repeated, it never passes MAX_CLIENTS.
THEOREM CounterNeverAboveLimit == Spec => []CounterBounded
<1>1. TypeInv /\ CounterInv => CounterBounded
  BY ChatAssumption DEF TypeInv, TypeOK, CounterInv, CounterBounded, Limit
<1> QED
  BY TypeInit, TypeNext, UnstartedInit, UnstartedNext, CounterInit, CounterNext, <1>1, PTL DEF Spec

-------------------------------------------------------------------------------
(* curr_client. A thread that has not registered has no entry anywhere;      *)
(* afterwards its entry can only move down.                                  *)

Unregistered(t) ==
  pc[t] \in {"none", "start", "prompt", "name", "lock", "reject", "rejected", "write"}
IndexInv ==
  /\ IndexNotBelowEntry
  /\ \A k \in Slot, t \in Conn : Unregistered(t) => clients[k].thread_id # t

\* Moving entries down keeps the invariant, whatever the index.
LEMMA IndexShift ==
  ASSUME TypeInv, IndexInv, NEW index \in Int, clients' = Shifted(index), UNCHANGED curr_client,
         \A t \in Conn : Ended(t) => Ended(t)', \A t \in Conn : Unregistered(t)' => Unregistered(t)
  PROVE  IndexInv'
<1>1. \A k \in Slot : \E j \in Slot : k <= j /\ clients'[k] = clients[j]
  <2> SUFFICES ASSUME NEW k \in Slot PROVE \E j \in Slot : k <= j /\ clients'[k] = clients[j]
    OBVIOUS
  <2>1. CASE index <= k /\ k < num_clients - 1
    <3>1. k + 1 \in Slot /\ k <= k + 1 /\ clients'[k] = clients[k + 1]
      BY <2>1, ChatAssumption DEF Shifted, Slot, TypeInv, TypeOK, Sizes
    <3> QED BY <3>1
  <2>2. CASE ~(index <= k /\ k < num_clients - 1)
    <3>1. k <= k /\ clients'[k] = clients[k]
      BY <2>2 DEF Shifted, Slot
    <3> QED BY <3>1
  <2> QED BY <2>1, <2>2
<1>2. Slot \subseteq Int /\ curr_client \in [Conn -> Slot]
  BY DEF Slot, TypeInv, TypeOK
<1>3. ASSUME NEW k \in Slot, NEW t \in Conn, clients'[k].thread_id = t, ~Ended(t)'
      PROVE  k <= curr_client'[t]
  <2>1. PICK j \in Slot : k <= j /\ clients'[k] = clients[j]
    BY <1>1
  <2>2. j <= curr_client[t]
    BY <1>3, <2>1 DEF IndexInv, IndexNotBelowEntry
  <2>3. k \in Int /\ j \in Int /\ curr_client[t] \in Int /\ curr_client'[t] = curr_client[t]
    BY <1>2
  <2> QED BY <2>1, <2>2, <2>3
<1>4. ASSUME NEW k \in Slot, NEW t \in Conn, Unregistered(t)' PROVE clients'[k].thread_id # t
  <2>1. PICK j \in Slot : clients'[k] = clients[j]
    BY <1>1
  <2> QED BY <1>4, <2>1 DEF IndexInv
<1> QED BY <1>3, <1>4 DEF IndexInv, IndexNotBelowEntry

LEMMA IndexInit == Init => IndexInv
  BY ChatAssumption DEF Init, IndexInv, IndexNotBelowEntry, NoClient

LEMMA IndexNext == TypeInv /\ Unstarted /\ IndexInv /\ [Next]_vars => IndexInv'
<1> SUFFICES ASSUME TypeInv, Unstarted, IndexInv, [Next]_vars PROVE IndexInv'
  OBVIOUS
<1> USE Threads DEF At, Goto, End
<1>t. /\ pc \in [Thread -> Pc] /\ ret \in [Conn -> {"lock_all", "recv", "remove"}]
      /\ curr_client \in [Conn -> Slot] /\ reg \in [Thread -> Int] /\ i \in [Thread -> Int]
      /\ clients \in [Slot -> Entry] /\ num_clients \in Int /\ Slot \subseteq Int
      /\ pc[Main] \in {"admit", "load", "store", "create"} => conn \in Conn /\ pc[conn] = "none"
  BY DEF TypeInv, TypeOK, Sizes, Unstarted, Slot
<1>a. ASSUME UNCHANGED <<clients, curr_client>>, \A t \in Conn : Ended(t) => Ended(t)',
             \A t \in Conn : Unregistered(t)' => Unregistered(t)
      PROVE  IndexInv'
  BY <1>a DEF IndexInv, IndexNotBelowEntry
<1>1. CASE UNCHANGED vars \/ Tick \/ \E t \in Conn : Hangup(t)
  BY <1>1, <1>a DEF vars, Tick, Hangup, registry, frame, Unregistered, Ended
<1>2. CASE Accept \/ MainStep
  <2>1. \A t \in Conn : Ended(t) => Ended(t)'
    BY <1>2, <1>t DEF Accept, MainStep, Refuse, Admit, LoadActive, StoreActive, CreateThread, Ended
  <2>2. \A t \in Conn : Unregistered(t)' => Unregistered(t)
    BY <1>2, <1>t DEF Accept, MainStep, Refuse, Admit, LoadActive, StoreActive, CreateThread, Unregistered
  <2>3. UNCHANGED <<clients, curr_client>>
    BY <1>2 DEF Accept, MainStep, Refuse, Admit, LoadActive, StoreActive, CreateThread, registry, frame
  <2> QED BY <2>1, <2>2, <2>3, <1>a
<1>3. CASE CheckerStep
  <2>1. \A t \in Conn : pc'[t] = pc[t]
    BY <1>3, <1>t DEF CheckerStep, LockSweep, UnlockSweep, KeepClient, Condemn, CloseTimedOut, CancelTimedOut,
       ShiftTimedOut, UncountTimedOut
  <2>2. curr_client' = curr_client
    BY <1>3 DEF CheckerStep, LockSweep, UnlockSweep, KeepClient, Condemn, CloseTimedOut, CancelTimedOut,
       ShiftTimedOut, UncountTimedOut, frame
  <2>3. CASE ShiftTimedOut
    BY <2>1, <2>2, <2>3, <1>t, IndexShift DEF ShiftTimedOut, Ended, Unregistered
  <2>4. CASE ~ShiftTimedOut
    <3>1. clients' = clients
      BY <1>3, <2>4 DEF CheckerStep, LockSweep, UnlockSweep, KeepClient, Condemn, CloseTimedOut, CancelTimedOut,
         UncountTimedOut, registry
    <3> QED BY <2>1, <2>2, <3>1, <1>a DEF Ended, Unregistered
  <2> QED BY <2>3, <2>4
<1>4. CASE Exit
  BY <1>4, ChatAssumption DEF Exit, IndexInv, IndexNotBelowEntry, NoClient
<1>5. ASSUME NEW t \in Conn,
             LockStep(t) \/ Start(t) \/ Await(t) \/ RecvEnd(t) \/ ReceiveStep(t) \/ Bye(t)
      PROVE  IndexInv'
  <2>1. clients' = clients /\ curr_client' = curr_client
    BY <1>5 DEF LockStep, LockAndScan, LockAll, Start, Await, RecvEnd, ReceiveStep, RecvName, Recv, Bye,
       registry, frame
  <2>2. \A s \in Conn : Ended(s) => Ended(s)'
    BY <1>5, <1>t DEF LockStep, LockAndScan, LockAll, Start, Await, RecvEnd, ReceiveStep, RecvName, Recv, Bye,
       AtCall, Ended
  <2>3. \A s \in Conn : Unregistered(s)' => Unregistered(s)
    BY <1>5, <1>t DEF LockStep, LockAndScan, LockAll, Start, Await, RecvEnd, ReceiveStep, RecvName, Recv, Bye,
       AtCall, Unregistered
  <2> QED BY <2>1, <2>2, <2>3, <1>a
<1>6. ASSUME NEW t \in Conn, Stamp(t) PROVE IndexInv'
  <2>1. \A k \in Slot : clients'[k].thread_id = clients[k].thread_id
    BY <1>6, <1>t DEF Stamp, Renewed, Entry
  <2>2. curr_client' = curr_client
    BY <1>6 DEF Stamp, frame
  <2>3. /\ \A s \in Conn : Ended(s) => Ended(s)'
        /\ \A s \in Conn : Unregistered(s)' => Unregistered(s)
    BY <1>6, <1>t DEF Stamp, Ended, Unregistered
  <2> QED BY <2>1, <2>2, <2>3 DEF IndexInv, IndexNotBelowEntry
<1>7. ASSUME NEW t \in Conn, Drop(t) PROVE IndexInv'
  BY <1>7, <1>t, <1>a DEF Drop, AtCall, registry, frame, Ended, Unregistered
<1>8. ASSUME NEW t \in Conn, Dropped(t) \/ Rejected(t) \/ CloseAfterBye(t) \/ Die(t) PROVE IndexInv'
  <2>1. clients' = clients /\ Ended(t)' /\ \A s \in Conn \ {t} : curr_client'[s] = curr_client[s] /\ pc'[s] = pc[s]
    BY <1>8, <1>t DEF Dropped, Rejected, CloseAfterBye, Die, registry, Ended
  <2> QED BY <2>1 DEF IndexInv, IndexNotBelowEntry, Ended, Unregistered
<1>9. ASSUME NEW t \in Conn, WriteEntry(t) PROVE IndexInv'
  <2>1. /\ num_clients \in Slot /\ Unregistered(t) /\ clients' = [clients EXCEPT ![num_clients] = EntryOf(t)]
        /\ curr_client' = [curr_client EXCEPT ![t] = num_clients] /\ pc' = [pc EXCEPT ![t] = "count"]
    BY <1>9 DEF WriteEntry, Unregistered, NextIndex
  <2>2. EntryOf(t).thread_id = t
    BY DEF EntryOf
  <2>3. ASSUME NEW k \in Slot, NEW s \in Conn, clients'[k].thread_id = s, ~Ended(s)'
        PROVE  k <= curr_client'[s]
    BY <2>1, <2>2, <2>3, <1>t DEF IndexInv, IndexNotBelowEntry, Ended
  <2>4. ASSUME NEW k \in Slot, NEW s \in Conn, Unregistered(s)' PROVE clients'[k].thread_id # s
    BY <2>1, <2>2, <2>4, <1>t DEF IndexInv, Unregistered
  <2> QED BY <2>3, <2>4 DEF IndexInv, IndexNotBelowEntry
<1>10. ASSUME NEW t \in Conn, CountEntry(t) \/ SendUserList(t) \/ SendNext(t) \/ UnlockAll(t) \/ Uncount(t)
       PROVE  IndexInv'
  BY <1>10, <1>t, <1>a DEF CountEntry, SendUserList, SendNext, UnlockAll, Uncount, AtCall, registry,
     frame, Ended, Unregistered
<1>11. ASSUME NEW t \in Conn, Shift(t) PROVE IndexInv'
  BY <1>11, <1>t, IndexShift DEF Shift, frame, Ended, Unregistered
<1> QED
  BY <1>1, <1>2, <1>3, <1>4, <1>5, <1>6, <1>7, <1>8, <1>9, <1>10, <1>11 DEF Next, ThreadStep, ReceiveStep

\* However removals interleave, a thread's curr_client is never below its own entry.
THEOREM IndexDriftsUpOnly == Spec => []IndexNotBelowEntry
<1>1. IndexInv => IndexNotBelowEntry
  BY DEF IndexInv
<1> QED
  BY TypeInit, TypeNext, UnstartedInit, UnstartedNext, IndexInit, IndexNext, <1>1, PTL DEF Spec

-------------------------------------------------------------------------------
(* Time-outs. The entry a thread's curr_client points at, when it is the     *)
(* thread's own, bears a time not before that of the last message received,  *)
(* unless that one is still to be noted: a removal never brings an entry to  *)
(* that place, since it could only come from above.                          *)

Stamped(t) ==
  clients[curr_client[t]].thread_id = t /\ ~Ended(t) /\ ~At(t, "stamp")
    => seen[t] <= clients[curr_client[t]].last_active
StampInv == 0 <= now /\ \A t \in Conn : seen[t] <= now /\ Stamped(t)

\* Thread t ends no other way, and notes what it received itself.
StaysSo(t) == (Ended(t) => Ended(t)') /\ (At(t, "stamp") => At(t, "stamp")')

LEMMA StampInit == Init => StampInv
  BY ChatAssumption DEF Init, StampInv, Stamped, NoClient, Slot

LEMMA StampShift ==
  ASSUME TypeInv, IndexInv, StampInv, NEW index \in Int, clients' = Shifted(index),
         UNCHANGED <<curr_client, seen, now>>, \A t \in Conn : StaysSo(t)
  PROVE  StampInv'
<1> SUFFICES ASSUME NEW t \in Conn, clients'[curr_client[t]].thread_id = t, ~Ended(t), ~At(t, "stamp")
             PROVE  seen[t] <= clients'[curr_client[t]].last_active
  BY DEF StampInv, Stamped, StaysSo
<1> DEFINE k == curr_client[t]
<1>1. k \in Slot /\ num_clients \in Int /\ num_clients <= MaxSlot + 1 /\ MaxSlot \in Nat
  BY ChatAssumption DEF TypeInv, TypeOK, Sizes
<1>2. CASE index <= k /\ k < num_clients - 1
  <2>1. k + 1 \in Slot /\ ~(k + 1 <= k) /\ clients'[k] = clients[k + 1]
    BY <1>1, <1>2 DEF Shifted, Slot
  <2> QED BY <2>1 DEF IndexInv, IndexNotBelowEntry
<1>3. CASE ~(index <= k /\ k < num_clients - 1)
  <2>1. clients'[k] = clients[k]
    BY <1>1, <1>3 DEF Shifted
  <2> QED BY <2>1 DEF StampInv, Stamped
<1> QED BY <1>2, <1>3

\* Whatever other entries a message refreshes.
LEMMA StampNoted ==
  ASSUME TypeInv, StampInv, NEW t \in Conn, Stamp(t)
  PROVE  StampInv'
<1>1. /\ clients' = [clients EXCEPT ![curr_client[t]].last_active = now]
      /\ UNCHANGED <<curr_client, now, seen>>
  BY DEF Stamp, Renewed, frame, kernel
<1>2. /\ clients \in [Slot -> Entry] /\ curr_client \in [Conn -> Slot] /\ seen \in [Conn -> Int] /\ now \in Int
      /\ pc \in [Thread -> Pc] /\ Conn \subseteq Thread
  BY Threads DEF TypeInv, TypeOK
<1>3. \A k \in Slot : /\ clients'[k].thread_id = clients[k].thread_id
                      /\ clients'[k].last_active = (IF k = curr_client[t] THEN now ELSE clients[k].last_active)
  BY <1>1, <1>2 DEF Entry
<1>4. \A s \in Conn \ {t} : pc'[s] = pc[s]
  BY <1>2 DEF Stamp, Goto
<1>5. ASSUME NEW s \in Conn PROVE Stamped(s)'
  <2>1. CASE s = t
    BY <1>1, <1>2, <1>3, <2>1 DEF StampInv, Stamped
  <2>2. CASE s # t
    BY <1>1, <1>2, <1>3, <1>4, <2>2 DEF StampInv, Stamped, Ended, At
  <2> QED BY <2>1, <2>2
<1> QED BY <1>1, <1>5 DEF StampInv

LEMMA StampReceive ==
  ASSUME TypeInv, StampInv, NEW t \in Conn, Recv(t)
  PROVE  StampInv'
<1>1. /\ seen' = [seen EXCEPT ![t] = now] /\ UNCHANGED <<clients, curr_client, now>>
      /\ pc' = [pc EXCEPT ![t] = "stamp"]
  BY DEF Recv, Goto, registry, frame
<1>2. pc \in [Thread -> Pc] /\ Conn \subseteq Thread /\ seen \in [Conn -> Int] /\ now \in Int
  BY Threads DEF TypeInv, TypeOK
<1>3. ASSUME NEW s \in Conn PROVE seen'[s] <= now /\ Stamped(s)'
  BY <1>1, <1>2 DEF StampInv, Stamped, Ended, At
<1> QED BY <1>1, <1>3 DEF StampInv

LEMMA StampNext == TypeInv /\ Unstarted /\ IndexInv /\ StampInv /\ [Next]_vars => StampInv'
<1> SUFFICES ASSUME TypeInv, Unstarted, IndexInv, StampInv, [Next]_vars PROVE StampInv'
  OBVIOUS
<1> USE Threads DEF At, Goto, End
<1>t. /\ pc \in [Thread -> Pc] /\ ret \in [Conn -> {"lock_all", "recv", "remove"}]
      /\ curr_client \in [Conn -> Slot] /\ seen \in [Conn -> Int] /\ now \in Int
      /\ reg \in [Thread -> Int] /\ i \in [Thread -> Int]
      /\ pc[Main] \in {"admit", "load", "store", "create"} => conn \in Conn /\ pc[conn] = "none"
  BY DEF TypeInv, TypeOK, Sizes, Unstarted
<1>a. ASSUME UNCHANGED <<clients, curr_client, seen>>, now' \in Int, now <= now',
             \A t \in Conn : StaysSo(t)
      PROVE  StampInv'
  BY <1>a, <1>t DEF StampInv, Stamped, StaysSo
<1>1. CASE UNCHANGED vars \/ Tick \/ \E t \in Conn : Hangup(t)
  BY <1>1, <1>a, <1>t DEF vars, Tick, Hangup, registry, frame, kernel, Ended, StaysSo
<1>2. CASE Accept \/ MainStep
  <2>1. UNCHANGED <<clients, curr_client, seen, now>>
    BY <1>2 DEF Accept, MainStep, Refuse, Admit, LoadActive, StoreActive, CreateThread, registry, frame, kernel
  <2>2. \A t \in Conn : StaysSo(t)
    BY <1>2, <1>t DEF Accept, MainStep, Refuse, Admit, LoadActive, StoreActive, CreateThread, Ended, StaysSo
  <2> QED BY <2>1, <2>2, <1>a, <1>t
<1>3. CASE CheckerStep
  <2>1. UNCHANGED <<curr_client, seen, now>>
    BY <1>3 DEF CheckerStep, LockSweep, UnlockSweep, KeepClient, Condemn, CloseTimedOut, CancelTimedOut,
       ShiftTimedOut, UncountTimedOut, frame, kernel
  <2>2. \A t \in Conn : StaysSo(t)
    BY <1>3, <1>t DEF CheckerStep, LockSweep, UnlockSweep, KeepClient, Condemn, CloseTimedOut, CancelTimedOut,
       ShiftTimedOut, UncountTimedOut, Ended, StaysSo
  <2>3. CASE ShiftTimedOut
    BY <2>1, <2>2, <2>3, <1>t, StampShift DEF ShiftTimedOut
  <2>4. CASE ~ShiftTimedOut
    <3>1. clients' = clients
      BY <1>3, <2>4 DEF CheckerStep, LockSweep, UnlockSweep, KeepClient, Condemn, CloseTimedOut, CancelTimedOut,
         UncountTimedOut, registry
    <3> QED BY <2>1, <2>2, <3>1, <1>a, <1>t
  <2> QED BY <2>3, <2>4
<1>4. CASE Exit
  <2>1. now' = now /\ \A t \in Conn : seen'[t] = 0 /\ curr_client'[t] = 0 /\ clients'[0].thread_id = None
    BY <1>4, ChatAssumption DEF Exit, NoClient, Slot
  <2> QED BY <2>1, Threads DEF StampInv, Stamped
<1>5. ASSUME NEW t \in Conn,
             LockStep(t) \/ Start(t) \/ Await(t) \/ RecvEnd(t) \/ RecvName(t) \/ Bye(t)
      PROVE  StampInv'
  <2>1. UNCHANGED <<clients, curr_client, seen, now>>
    BY <1>5 DEF LockStep, LockAndScan, LockAll, Start, Await, RecvEnd, RecvName, Bye, registry, frame, kernel
  <2>2. \A s \in Conn : StaysSo(s)
    BY <1>5, <1>t DEF LockStep, LockAndScan, LockAll, Start, Await, RecvEnd, RecvName, Bye, AtCall, Ended, StaysSo
  <2> QED BY <2>1, <2>2, <1>a, <1>t
<1>6. ASSUME NEW t \in Conn, Recv(t) \/ Stamp(t) PROVE StampInv'
  BY <1>6, StampReceive, StampNoted
<1>7. ASSUME NEW t \in Conn, Dropped(t) \/ Rejected(t) \/ CloseAfterBye(t) \/ Die(t) PROVE StampInv'
  <2>1. /\ clients' = clients /\ now' = now /\ Ended(t)' /\ seen' = [seen EXCEPT ![t] = 0]
        /\ \A s \in Conn \ {t} : curr_client'[s] = curr_client[s] /\ pc'[s] = pc[s]
    BY <1>7, <1>t DEF Dropped, Rejected, CloseAfterBye, Die, registry, Ended, kernel
  <2> QED BY <2>1, <1>t DEF StampInv, Stamped, Ended, StaysSo
<1>8. ASSUME NEW t \in Conn, WriteEntry(t) PROVE StampInv'
  <2>1. /\ num_clients \in Slot /\ clients' = [clients EXCEPT ![num_clients] = EntryOf(t)]
        /\ curr_client' = [curr_client EXCEPT ![t] = num_clients] /\ pc' = [pc EXCEPT ![t] = "count"]
        /\ seen' = [seen EXCEPT ![t] = now] /\ now' = now
    BY <1>8 DEF WriteEntry, NextIndex, kernel
  <2>2. EntryOf(t).thread_id = t /\ EntryOf(t).last_active = now
    BY DEF EntryOf
  <2>3. clients \in [Slot -> Entry]
    BY DEF TypeInv, TypeOK
  <2>4. Stamped(t)' /\ seen'[t] <= now
    BY <2>1, <2>2, <2>3, <1>t DEF Stamped
  <2>5. ASSUME NEW s \in Conn \ {t} PROVE Stamped(s)' /\ seen'[s] <= now
    BY <2>1, <2>2, <2>3, <1>t DEF StampInv, Stamped, Ended, StaysSo
  <2> QED BY <2>1, <2>4, <2>5 DEF StampInv
<1>9. ASSUME NEW t \in Conn, \/ Drop(t) \/ CountEntry(t) \/ SendUserList(t)
                             \/ SendNext(t) \/ UnlockAll(t) \/ Uncount(t)
      PROVE  StampInv'
  <2>1. UNCHANGED <<clients, curr_client, seen, now>>
    BY <1>9 DEF Drop, CountEntry, SendUserList, SendNext, UnlockAll, Uncount, registry, frame, kernel
  <2>2. \A s \in Conn : StaysSo(s)
    BY <1>9, <1>t DEF Drop, CountEntry, SendUserList, SendNext, UnlockAll, Uncount, AtCall, Ended, StaysSo
  <2> QED BY <2>1, <2>2, <1>a, <1>t
<1>10. ASSUME NEW t \in Conn, Shift(t) PROVE StampInv'
  BY <1>10, <1>t, StampShift DEF Shift, frame, kernel, Ended, StaysSo
<1> QED
  BY <1>1, <1>2, <1>3, <1>4, <1>5, <1>6, <1>7, <1>8, <1>9, <1>10 DEF Next, ThreadStep, ReceiveStep

\* timeout_checker takes time and entry under the lock, but the messages it judges by are noted
\* without, and two steps after recv() has returned: still no client is picked in its place that
\* has sent anything in time, but for a message received and not noted yet.
THEOREM OnlyIdleTimedOut == Spec => OnlyIdleTimedOutInPlace
<1>1. TypeInv /\ StampInv /\ [Next]_vars
        => [\A t \in Conn : TimingOut(t) /\ i[Checker] = curr_client[t] => Idle(t) \/ At(t, "stamp")]_vars
  <2> SUFFICES ASSUME TypeInv, StampInv, Next, NEW t \in Conn, TimingOut(t), i[Checker] = curr_client[t],
                      ~At(t, "stamp")
               PROVE  Idle(t)
    OBVIOUS
  <2>1. /\ clients \in [Slot -> Entry] /\ curr_client \in [Conn -> Slot] /\ seen \in [Conn -> Int]
        /\ current_time \in Int /\ TIMEOUT_SECONDS \in Int /\ pc \in [Thread -> Pc]
    BY ChatAssumption DEF TypeInv, TypeOK
  <2>2. clients[curr_client[t]].last_active \in Int
    BY <2>1 DEF Entry
  <2>3. seen[t] <= clients[curr_client[t]].last_active
    BY DEF StampInv, Stamped, TimingOut, EntryServedBy
  <2>4. Expired(i[Checker])
    <3> USE Threads DEF At, Goto, End
    <3>1. pc[Checker] = "sweep" /\ pc'[Checker] = "notify"
      BY DEF TimingOut
    <3>2. ~(Accept \/ MainStep \/ Tick \/ Exit \/ \E c \in Conn : Hangup(c))
      BY <2>1, <3>1 DEF Accept, MainStep, Refuse, Admit, LoadActive, StoreActive, CreateThread, Tick, Exit,
         AllAt, Hangup, TypeInv, Sizes
    <3>3. ~(\E c \in Conn : ThreadStep(c) \/ LockStep(c) \/ ReceiveStep(c))
      <4> SUFFICES ASSUME NEW c \in Conn, ThreadStep(c) \/ LockStep(c) \/ ReceiveStep(c)
                   PROVE  pc'[Checker] = pc[Checker]
        BY <3>1
      <4>1. CASE ThreadStep(c)
        BY <4>1, <2>1 DEF ThreadStep, Start, Await, RecvEnd, Drop, Dropped, Rejected, WriteEntry, CountEntry,
           SendUserList, SendNext, UnlockAll, Stamp, Bye, Shift, Uncount, CloseAfterBye, Die
      <4>2. CASE LockStep(c) \/ ReceiveStep(c)
        BY <4>2, <2>1 DEF LockStep, LockAndScan, LockAll, ReceiveStep, RecvName, Recv
      <4> QED BY <4>1, <4>2
    <3>4. CheckerStep
      BY <3>2, <3>3 DEF Next
    <3> QED BY <2>1, <3>1, <3>4 DEF CheckerStep, LockSweep, KeepClient, Condemn, CloseTimedOut, CancelTimedOut,
          ShiftTimedOut, UncountTimedOut, UnlockSweep
  <2> QED BY <2>1, <2>2, <2>3, <2>4 DEF Expired, Idle
<1> QED
  BY TypeInit, TypeNext, UnstartedInit, UnstartedNext, IndexInit, IndexNext, StampInit, StampNext, <1>1,
     PTL DEF Spec, OnlyIdleTimedOutInPlace

--------------------------------------------------------------------------------
(* Usernames stay unique until a removal outside the lock interferes. What   *)
(* the proof shows is how far the interference reaches: as long as history   *)
(* is orderly, at most one removal is under way, it will store the right     *)
(* count, and a scan for a username stays true until its entry is counted.   *)

OneRemoval == \A x, y \in Conn \cup {Checker} : At(x, "removed") /\ At(y, "removed") => x = y
RemovalLoaded == \A x \in Conn \cup {Checker} : At(x, "removed") => reg[x] = num_clients

DistinctBelow(n) ==
  \A j, k \in Slot : 0 <= j /\ 0 <= k /\ j < n /\ k < n /\ j # k => clients[j].name # clients[k].name

ScanStillTrue ==
  \A t \in Conn : pc[t] \in {"write", "count"} => \A k \in Registered : clients[k].name # username[t]
EntryWritten ==
  \A t \in Conn : At(t, "count") =>
    /\ num_clients \in Slot /\ reg[t] = num_clients
    /\ clients[num_clients].name = username[t] /\ ~RemovalUnderWay

Orderly == OneRemoval /\ RemovalLoaded /\ DistinctBelow(Settled) /\ ScanStillTrue /\ EntryWritten
UniqueInv == history = "raced" \/ Orderly

LEMMA UniqueInit == Init => UniqueInv
<1> SUFFICES ASSUME Init PROVE Orderly
  BY DEF UniqueInv
<1>1. num_clients = 0 /\ Slot \subseteq Int
  BY DEF Init, Slot
<1>2. \A x \in Conn \cup {Checker} : pc[x] \in {"none", "lock"}
  BY Threads DEF Init, AllAt
<1>3. DistinctBelow(Settled)
  BY <1>1 DEF DistinctBelow, Settled
<1> QED BY <1>2, <1>3 DEF Orderly, OneRemoval, RemovalLoaded, ScanStillTrue, EntryWritten, At

\* Steps that neither change what is registered nor enter or leave an update of the registry.
LEMMA UniqueQuiet ==
  ASSUME UniqueInv, UNCHANGED <<num_clients, history>>,
         \A k \in Slot : clients'[k].name = clients[k].name,
         \A x \in Conn \cup {Checker} : /\ At(x, "removed")' <=> At(x, "removed")
                                        /\ At(x, "removed")' => reg'[x] = reg[x],
         \A t \in Conn : pc'[t] \in {"write", "count"} => pc'[t] = pc[t] /\ username'[t] = username[t]
                                                          /\ reg'[t] = reg[t]
  PROVE  UniqueInv'
<1>1. CASE history = "raced"
  BY <1>1 DEF UniqueInv
<1>2. CASE Orderly
  <2>1. RemovalUnderWay' <=> RemovalUnderWay
    BY DEF RemovalUnderWay
  <2>2. OneRemoval' /\ RemovalLoaded'
    BY <1>2 DEF Orderly, OneRemoval, RemovalLoaded
  <2>3. DistinctBelow(Settled)'
    BY <1>2, <2>1 DEF Orderly, DistinctBelow, Settled
  <2>4. ScanStillTrue'
    BY <1>2 DEF Orderly, ScanStillTrue, Registered
  <2>5. EntryWritten'
    BY <1>2, <2>1 DEF Orderly, EntryWritten, At
  <2> QED BY <2>2, <2>3, <2>4, <2>5 DEF UniqueInv, Orderly
<1> QED BY <1>1, <1>2 DEF UniqueInv

\* The shift of a removal that overlaps nothing.
LEMMA UniqueShift ==
  ASSUME TypeInv, UniqueInv, NEW x \in Conn \cup {Checker}, ~At(x, "removed"), NEW index \in Int,
         Goto(x, "removed"), clients' = Shifted(index), reg' = [reg EXCEPT ![x] = num_clients],
         NotedRemoval(x), UNCHANGED <<num_clients, username>>,
         x # Checker => pc[x] = "remove"
  PROVE  UniqueInv'
<1> USE Threads DEF At, Goto
<1>t. /\ pc \in [Thread -> Pc] /\ reg \in [Thread -> Int] /\ num_clients \in Int
      /\ clients \in [Slot -> Entry] /\ Slot \subseteq Int
      /\ \A k \in Slot : k < num_clients - 1 /\ index <= k => k + 1 \in Slot
  BY ChatAssumption DEF TypeInv, TypeOK, Sizes, Slot
<1> SUFFICES ASSUME history' # "raced" PROVE Orderly'
  BY DEF UniqueInv
<1>1. Orderly /\ \A y \in (Conn \cup {Checker}) \ {x} : ~HalfUpdated(y)
  BY DEF NotedRemoval, UniqueInv
<1>2. \A y \in (Conn \cup {Checker}) \ {x} : pc[y] # "removed" /\ (y # Checker => pc[y] \notin {"write", "count"})
  BY <1>1 DEF HalfUpdated, HalfRemoved
<1>3. ~RemovalUnderWay /\ RemovalUnderWay'
  BY <1>2, <1>t DEF RemovalUnderWay
<1>4. DistinctBelow(num_clients)
  BY <1>1, <1>3 DEF Orderly, Settled
<1>5. OneRemoval' /\ RemovalLoaded'
  BY <1>2, <1>t DEF OneRemoval, RemovalLoaded
<1>6. DistinctBelow(Settled)'
  <2> SUFFICES ASSUME NEW j \in Slot, NEW k \in Slot, 0 <= j, 0 <= k, j < num_clients - 1, k < num_clients - 1,
                      j # k
               PROVE  clients'[j].name # clients'[k].name
    BY <1>3 DEF DistinctBelow, Settled
  <2>1. \A l \in Slot : 0 <= l /\ l < num_clients - 1 =>
          clients'[l] = IF index <= l THEN clients[l + 1] ELSE clients[l]
    BY DEF Shifted
  <2> QED BY <2>1, <1>4, <1>t DEF DistinctBelow
<1>7. ScanStillTrue' /\ EntryWritten'
  BY <1>2, <1>t DEF ScanStillTrue, EntryWritten
<1> QED BY <1>5, <1>6, <1>7 DEF Orderly

\* The store that ends a removal that overlapped nothing.
LEMMA UniqueUncount ==
  ASSUME TypeInv, UniqueInv, NEW x \in Conn \cup {Checker}, At(x, "removed"),
         NEW p \in Pc, p \notin {"removed", "write", "count"}, Goto(x, p),
         num_clients' = reg[x] - 1, NotedRemoval(x), UNCHANGED <<clients, username>>
  PROVE  UniqueInv'
<1> USE Threads DEF At, Goto
<1>t. pc \in [Thread -> Pc] /\ num_clients \in Int /\ Slot \subseteq Int
  BY DEF TypeInv, TypeOK, Slot
<1> SUFFICES ASSUME history' # "raced" PROVE Orderly'
  BY DEF UniqueInv
<1>1. Orderly /\ \A y \in (Conn \cup {Checker}) \ {x} : ~HalfUpdated(y)
  BY DEF NotedRemoval, UniqueInv
<1>2. \A y \in (Conn \cup {Checker}) \ {x} : pc[y] # "removed" /\ (y # Checker => pc[y] \notin {"write", "count"})
  BY <1>1 DEF HalfUpdated, HalfRemoved
<1>3. RemovalUnderWay /\ ~RemovalUnderWay' /\ num_clients' = num_clients - 1
  BY <1>1, <1>2, <1>t DEF RemovalUnderWay, Orderly, RemovalLoaded
<1>4. DistinctBelow(Settled)'
  BY <1>1, <1>3 DEF Orderly, DistinctBelow, Settled
<1>5. OneRemoval' /\ RemovalLoaded' /\ ScanStillTrue' /\ EntryWritten'
  BY <1>2, <1>t DEF OneRemoval, RemovalLoaded, ScanStillTrue, EntryWritten
<1> QED BY <1>4, <1>5 DEF Orderly

LEMMA UniqueWrite ==
  ASSUME TypeInv, LockDiscipline, UniqueInv, NEW t \in Conn, WriteEntry(t)
  PROVE  UniqueInv'
<1> USE Threads DEF At, Goto
<1>t. /\ pc \in [Thread -> Pc] /\ reg \in [Thread -> Int] /\ num_clients \in Slot /\ Slot \subseteq Int
      /\ clients \in [Slot -> Entry]
  BY DEF TypeInv, TypeOK, Slot, WriteEntry
<1> SUFFICES ASSUME history' # "raced" PROVE Orderly'
  BY DEF UniqueInv
<1>1. Orderly /\ \A y \in Conn \ {t} : pc[y] # "removed"
  BY DEF WriteEntry, NotedInsertion, UniqueInv
<1>2. /\ pc[t] = "write" /\ pc[Checker] = "lock" /\ pc' = [pc EXCEPT ![t] = "count"]
      /\ \A y \in Conn \ {t} : pc[y] \notin {"write", "count"}
  BY DEF WriteEntry, LockDiscipline, Critical
<1>3. ~RemovalUnderWay /\ ~RemovalUnderWay'
  BY <1>1, <1>2, <1>t DEF RemovalUnderWay
<1>4. /\ num_clients' = num_clients /\ username' = username /\ reg' = [reg EXCEPT ![t] = num_clients]
      /\ \A k \in Slot \ {num_clients} : clients'[k] = clients[k]
      /\ clients'[num_clients].name = username[t]
  BY <1>t DEF WriteEntry, EntryOf, frame
<1>5. DistinctBelow(Settled)'
  BY <1>1, <1>3, <1>4, <1>t DEF Orderly, DistinctBelow, Settled
<1>6. ScanStillTrue'
  BY <1>1, <1>2, <1>4, <1>t DEF Orderly, ScanStillTrue, Registered
<1>7. EntryWritten' /\ OneRemoval' /\ RemovalLoaded'
  BY <1>2, <1>3, <1>4, <1>t DEF EntryWritten, OneRemoval, RemovalLoaded, RemovalUnderWay
<1> QED BY <1>5, <1>6, <1>7 DEF Orderly

LEMMA UniqueCount ==
  ASSUME TypeInv, LockDiscipline, UniqueInv, NEW t \in Conn, CountEntry(t)
  PROVE  UniqueInv'
<1> USE Threads DEF At, Goto
<1>t. pc \in [Thread -> Pc] /\ num_clients \in Int /\ Slot \subseteq Int
  BY DEF TypeInv, TypeOK, Slot
<1> SUFFICES ASSUME history' # "raced" PROVE Orderly'
  BY DEF UniqueInv
<1>1. Orderly
  BY DEF CountEntry, NotedInsertion, UniqueInv
<1>2. /\ pc[t] = "count" /\ pc[Checker] = "lock" /\ pc' = [pc EXCEPT ![t] = "list"]
      /\ \A y \in Conn \ {t} : pc[y] \notin {"write", "count"}
  BY DEF CountEntry, LockDiscipline, Critical
<1>3. ~RemovalUnderWay /\ ~RemovalUnderWay'
  BY <1>1, <1>2, <1>t DEF Orderly, EntryWritten, RemovalUnderWay
<1>4. num_clients' = num_clients + 1 /\ clients' = clients /\ clients[num_clients].name = username[t]
  BY <1>1, <1>2 DEF CountEntry, Orderly, EntryWritten
<1>5. \A k \in Slot : 0 <= k /\ k < num_clients => clients[k].name # username[t]
  BY <1>1, <1>2 DEF Orderly, ScanStillTrue, Registered
<1>6. DistinctBelow(num_clients)
  BY <1>1, <1>3 DEF Orderly, Settled
<1>7. DistinctBelow(Settled)'
  BY <1>3, <1>4, <1>5, <1>6, <1>t DEF DistinctBelow, Settled
<1>8. ScanStillTrue' /\ EntryWritten' /\ OneRemoval' /\ RemovalLoaded'
  BY <1>2, <1>3, <1>t DEF ScanStillTrue, EntryWritten, OneRemoval, RemovalLoaded, RemovalUnderWay
<1> QED BY <1>7, <1>8 DEF Orderly

LEMMA UniqueScan ==
  ASSUME TypeInv, UniqueInv, NEW t \in Conn, LockAndScan(t)
  PROVE  UniqueInv'
<1> USE Threads DEF At, Goto
<1>t. pc \in [Thread -> Pc]
  BY DEF TypeInv, TypeOK
<1> SUFFICES ASSUME history' # "raced" PROVE Orderly'
  BY DEF UniqueInv
<1>1. /\ Orderly /\ pc[t] = "lock" /\ UNCHANGED <<clients, num_clients, username, reg>>
      /\ pc' = [pc EXCEPT ![t] = IF NameTaken(t) THEN "reject" ELSE "write"]
  BY DEF LockAndScan, UniqueInv, registry, frame
<1>2. RemovalUnderWay' <=> RemovalUnderWay
  BY <1>1, <1>t DEF RemovalUnderWay
<1>3. OneRemoval' /\ RemovalLoaded' /\ EntryWritten'
  BY <1>1, <1>2, <1>t DEF Orderly, OneRemoval, RemovalLoaded, EntryWritten
<1>4. DistinctBelow(Settled)'
  BY <1>1, <1>2 DEF Orderly, DistinctBelow, Settled
<1>5. ScanStillTrue'
  BY <1>1, <1>t DEF Orderly, ScanStillTrue, NameTaken, Registered
<1> QED BY <1>3, <1>4, <1>5 DEF Orderly

LEMMA UniqueNext ==
  TypeInv /\ Unstarted /\ LockDiscipline /\ UniqueInv /\ [Next]_vars => UniqueInv'
<1> SUFFICES ASSUME TypeInv, Unstarted, LockDiscipline, UniqueInv, [Next]_vars PROVE UniqueInv'
  OBVIOUS
<1> USE Threads DEF At, Goto, End
<1>t. /\ pc \in [Thread -> Pc] /\ ret \in [Conn -> {"lock_all", "recv", "remove"}]
      /\ reg \in [Thread -> Int] /\ i \in [Thread -> Int] /\ clients \in [Slot -> Entry]
      /\ username \in [Conn -> Name \cup {None}]
      /\ pc[Main] \in {"admit", "load", "store", "create"} => conn \in Conn /\ pc[conn] = "none"
  BY DEF TypeInv, TypeOK, Sizes, Unstarted
<1>1. CASE UNCHANGED vars \/ Tick \/ \E t \in Conn : Hangup(t)
  BY <1>1, UniqueQuiet DEF vars, Tick, Hangup, registry, frame
<1>2. CASE Accept \/ MainStep
  <2>1. UNCHANGED <<clients, num_clients, history, username>>
    BY <1>2 DEF Accept, MainStep, Refuse, Admit, LoadActive, StoreActive, CreateThread, registry, frame
  <2>2. \A x \in Conn \cup {Checker} : reg'[x] = reg[x] /\ (pc'[x] = pc[x] \/ (pc[x] = "none" /\ pc'[x] = "start"))
    <3>1. CASE CreateThread
      <4>1. /\ reg' = reg /\ conn \in Conn /\ pc[conn] = "none"
            /\ pc' = [pc EXCEPT ![Main] = "accept", ![conn] = "start"]
        BY <3>1, <1>t DEF CreateThread
      <4> QED BY <4>1, <1>t
    <3>2. CASE Accept \/ Refuse \/ Admit \/ LoadActive \/ StoreActive
      <4>1. \A x \in Conn \cup {Checker} : reg'[x] = reg[x]
        BY <3>2, <1>t DEF Accept, Refuse, Admit, LoadActive, StoreActive
      <4>2. \A x \in Conn \cup {Checker} : pc'[x] = pc[x]
        BY <3>2, <1>t DEF Accept, Refuse, Admit, LoadActive, StoreActive
      <4> QED BY <4>1, <4>2
    <3> QED BY <1>2, <3>1, <3>2 DEF MainStep
  <2> QED BY <2>1, <2>2, UniqueQuiet
<1>3. CASE ShiftTimedOut
  BY <1>3, <1>t, UniqueShift DEF ShiftTimedOut, frame
<1>4. CASE UncountTimedOut
  BY <1>4, UniqueUncount DEF UncountTimedOut, Pc, frame
<1>5. CASE LockSweep \/ UnlockSweep \/ KeepClient \/ Condemn \/ CloseTimedOut \/ CancelTimedOut
  <2>1. UNCHANGED <<clients, num_clients, history, username>>
    BY <1>5 DEF LockSweep, UnlockSweep, KeepClient, Condemn, CloseTimedOut, CancelTimedOut, registry, frame
  <2>2. /\ \A x \in Conn : reg'[x] = reg[x] /\ pc'[x] = pc[x]
        /\ pc'[Checker] # "removed" /\ pc[Checker] # "removed"
    BY <1>5, <1>t DEF LockSweep, UnlockSweep, KeepClient, Condemn, CloseTimedOut, CancelTimedOut, Sweeping
  <2> QED BY <2>1, <2>2, UniqueQuiet
<1>6. CASE Exit
  <2>1. num_clients' = 0 /\ Slot \subseteq Int /\ \A x \in Conn \cup {Checker} : pc'[x] \in {"none", "lock"}
    BY <1>6 DEF Exit, AllAt, Slot
  <2>2. DistinctBelow(Settled)'
    BY <2>1 DEF DistinctBelow, Settled
  <2> QED BY <2>1, <2>2 DEF UniqueInv, Orderly, OneRemoval, RemovalLoaded, ScanStillTrue, EntryWritten
<1>7. ASSUME NEW t \in Conn, Shift(t) PROVE UniqueInv'
  BY <1>7, <1>t, UniqueShift DEF Shift, frame
<1>8. ASSUME NEW t \in Conn, Uncount(t) PROVE UniqueInv'
  BY <1>8, UniqueUncount DEF Uncount, Pc, frame
<1>9. ASSUME NEW t \in Conn, Stamp(t) PROVE UniqueInv'
  <2>1. UNCHANGED <<num_clients, history, username>>
    BY <1>9 DEF Stamp, frame
  <2>2. \A k \in Slot : clients'[k].name = clients[k].name
    BY <1>9, <1>t DEF Stamp, Renewed, Entry
  <2>3. /\ \A x \in (Conn \cup {Checker}) \ {t} : reg'[x] = reg[x] /\ pc'[x] = pc[x]
        /\ pc[t] = "stamp" /\ pc'[t] \in {"list", "lock_all", "bye"}
    BY <1>9, <1>t DEF Stamp
  <2> QED BY <2>1, <2>2, <2>3, UniqueQuiet
<1>10. ASSUME NEW t \in Conn,
              \/ LockAll(t) \/ RecvName(t) \/ Start(t) \/ Await(t) \/ RecvEnd(t) \/ SendUserList(t)
              \/ SendNext(t) \/ UnlockAll(t) \/ Drop(t) \/ Dropped(t) \/ Rejected(t) \/ CloseAfterBye(t)
              \/ Die(t) \/ Recv(t) \/ Bye(t)
       PROVE  UniqueInv'
  <2>1. UNCHANGED <<clients, num_clients, history>>
    BY <1>10 DEF LockAll, RecvName, Start, Await, RecvEnd, SendUserList, SendNext, UnlockAll, Drop, Dropped,
       Rejected, CloseAfterBye, Die, Recv, Bye, registry
  <2>2. \A x \in (Conn \cup {Checker}) \ {t} : reg'[x] = reg[x] /\ pc'[x] = pc[x]
    BY <1>10, <1>t DEF LockAll, RecvName, Start, Await, RecvEnd, SendUserList, SendNext, UnlockAll, Drop,
       Dropped, Rejected, CloseAfterBye, Die, Recv, Bye
  <2>3. pc[t] # "removed" /\ pc'[t] \notin {"removed", "write", "count"}
    BY <1>10, <1>t DEF LockAll, RecvName, Start, Await, RecvEnd, SendUserList, SendNext, UnlockAll, Drop,
       Dropped, Rejected, CloseAfterBye, Die, Recv, Bye, AtCall
  <2>4. \A s \in Conn \ {t} : username'[s] = username[s]
    BY <1>10, <1>t DEF LockAll, RecvName, Start, Await, RecvEnd, SendUserList, SendNext, UnlockAll, Drop,
       Dropped, Rejected, CloseAfterBye, Die, Recv, Bye, frame
  <2> QED BY <2>1, <2>2, <2>3, <2>4, UniqueQuiet
<1> QED
  BY <1>1, <1>2, <1>3, <1>4, <1>5, <1>6, <1>7, <1>8, <1>9, <1>10, UniqueWrite, UniqueCount, UniqueScan
     DEF Next, CheckerStep, ThreadStep, LockStep, ReceiveStep

\* Two registered clients share a username only after a removal by \bye, which does not
\* take the mutex, overlapped another update of the registry or a broadcast.
THEOREM UniqueUntilRaced == Spec => []UniqueUnlessRaced
<1>1. TypeInv /\ UniqueInv => UniqueUnlessRaced
  <2> SUFFICES ASSUME TypeInv, Orderly, ~RemovalUnderWay PROVE UniqueNames
    BY DEF UniqueInv, UniqueUnlessRaced
  <2> QED BY DEF Orderly, Settled, DistinctBelow, UniqueNames, Registered
<1> QED
  BY TypeInit, TypeNext, UnstartedInit, UnstartedNext, LockInit, LockNext, UniqueInit, UniqueNext,
     <1>1, PTL DEF Spec
-------------------------------------------------------------------------------
(* Broadcasts. Every entry that num_clients, or a copy of it that will be    *)
(* stored again, counts has been written, with the descriptor of a client;   *)
(* and the descriptor main() hands over is one.                              *)

HandedOver ==
  /\ pc[Main] \in {"admit", "load", "store", "create"} => new_socket \in Fd
  /\ \A t \in Conn : /\ At(t, "start") => new_socket \in Fd
                     /\ pc[t] \in {"none", "start", "done", "cancelled", "exited"} \/ client_socket[t] \in Fd

LEMMA HandedInit == Init => HandedOver
  BY Threads DEF Init, HandedOver, AllAt, At

LEMMA HandedNext == TypeInv /\ HandedOver /\ [Next]_vars => HandedOver'
<1> SUFFICES ASSUME TypeOK, Sizes, HandedOver, [Next]_vars PROVE HandedOver'
  BY DEF TypeInv
<1> USE Threads DEF HandedOver, At, Goto, End
<1>t. /\ pc \in [Thread -> Pc] /\ ret \in [Conn -> {"lock_all", "recv", "remove"}]
      /\ client_socket \in [Conn -> Fd \cup {None}]
      /\ pc[Main] \in {"admit", "load", "store", "create"} => conn \in Conn
  BY DEF TypeOK, Sizes
<1>1. CASE UNCHANGED vars \/ Tick \/ \E t \in Conn : Hangup(t)
  BY <1>1 DEF vars, Tick, Hangup, control, service, frame
<1>2. CASE Accept \/ MainStep
  BY <1>2, <1>t DEF Accept, MainStep, Refuse, Admit, LoadActive, StoreActive, CreateThread, control, service, frame
<1>3. CASE CheckerStep
  BY <1>3, <1>t DEF CheckerStep, LockSweep, UnlockSweep, KeepClient, Condemn, CloseTimedOut, CancelTimedOut,
     ShiftTimedOut, UncountTimedOut, control, service, frame
<1>4. CASE Exit
  BY <1>4 DEF Exit, AllAt
<1>5. ASSUME NEW t \in Conn, Start(t) PROVE HandedOver'
  BY <1>5, <1>t DEF Start, control, service
<1>6. ASSUME NEW t \in Conn, Dropped(t) \/ Rejected(t) \/ CloseAfterBye(t) \/ Die(t) PROVE HandedOver'
  BY <1>6, <1>t DEF Dropped, Rejected, CloseAfterBye, Die, control, service
<1>7. ASSUME NEW t \in Conn, NEW p \in Pc, pc' = [pc EXCEPT ![t] = p], p # "start",
             pc[t] \notin {"none", "start", "done", "cancelled", "exited"},
             UNCHANGED <<client_socket, new_socket>>
      PROVE  HandedOver'
  BY <1>7, <1>t
<1>8. ASSUME NEW t \in Conn, LockStep(t) \/ ReceiveStep(t) PROVE HandedOver'
  <2>1. /\ \E p \in Pc \ {"start"} : pc' = [pc EXCEPT ![t] = p]
        /\ pc[t] \in {"lock", "lock_all", "name", "message"}
    BY <1>8 DEF LockStep, LockAndScan, LockAll, ReceiveStep, RecvName, Recv, AtCall, Pc
  <2>2. UNCHANGED <<client_socket, new_socket>>
    BY <1>8 DEF LockStep, LockAndScan, LockAll, ReceiveStep, RecvName, Recv,
       control, service, frame
  <2> QED BY <1>7, <2>1, <2>2
<1>9. ASSUME NEW t \in Conn, \/ Await(t) \/ RecvEnd(t) \/ Drop(t) \/ WriteEntry(t) \/ CountEntry(t)
                             \/ SendUserList(t) \/ SendNext(t) \/ UnlockAll(t) \/ Stamp(t) \/ Bye(t)
                             \/ Shift(t) \/ Uncount(t)
      PROVE  HandedOver'
  <2>1. UNCHANGED <<client_socket, new_socket>>
    BY <1>9 DEF Await, RecvEnd, Drop, WriteEntry, CountEntry, SendUserList, SendNext, UnlockAll, Stamp, Bye, Shift, Uncount,
       control, service, frame
  <2>2. CASE SendNext(t)
    BY <2>1, <2>2, <1>t DEF SendNext
  <2>3. CASE ~SendNext(t)
    <3>1. /\ \E p \in Pc \ {"start"} : pc' = [pc EXCEPT ![t] = p]
          /\ pc[t] \notin {"none", "start", "done", "cancelled", "exited"}
      BY <1>9, <2>3, <1>t DEF Await, RecvEnd, Drop, WriteEntry, CountEntry, SendUserList, UnlockAll, Stamp, Bye, Shift,
         Uncount, AtCall, Pc
    <3> QED BY <1>7, <2>1, <3>1
  <2> QED BY <2>2, <2>3
<1> QED BY <1>1, <1>2, <1>3, <1>4, <1>5, <1>6, <1>8, <1>9 DEF Next, ThreadStep

\* A thread that registers has a name to register under.
NamedInv == \A t \in Conn : pc[t] \in {"lock", "write", "count"} => username[t] \in Name

LEMMA NamedInit == Init => NamedInv
  BY Threads DEF Init, NamedInv, AllAt

LEMMA NamedNext == TypeInv /\ NamedInv /\ [Next]_vars => NamedInv'
<1> SUFFICES ASSUME TypeInv, NamedInv, [Next]_vars PROVE NamedInv'
  OBVIOUS
<1> USE Threads DEF At, Goto, End
<1>t. /\ pc \in [Thread -> Pc] /\ username \in [Conn -> Name \cup {None}]
      /\ ret \in [Conn -> {"lock_all", "recv", "remove"}]
      /\ pc[Main] \in {"admit", "load", "store", "create"} => conn \in Conn
  BY DEF TypeInv, TypeOK, Sizes
<1>1. ASSUME UNCHANGED username,
             \A t \in Conn : pc'[t] \in {"lock", "write", "count"} => pc[t] \in {"lock", "write", "count"}
      PROVE  NamedInv'
  BY <1>1 DEF NamedInv
<1>2. CASE UNCHANGED vars \/ Tick \/ \E t \in Conn : Hangup(t)
  BY <1>1, <1>2 DEF vars, Tick, Hangup, frame
<1>3. CASE Accept \/ MainStep
  <2>1. UNCHANGED username
    BY <1>3 DEF Accept, MainStep, Refuse, Admit, LoadActive, StoreActive, CreateThread, frame
  <2>2. \A t \in Conn : pc'[t] \in {"lock", "write", "count"} => pc[t] \in {"lock", "write", "count"}
    BY <1>3, <1>t DEF Accept, MainStep, Refuse, Admit, LoadActive, StoreActive, CreateThread
  <2> QED BY <1>1, <2>1, <2>2
<1>4. CASE CheckerStep
  <2>1. UNCHANGED username
    BY <1>4 DEF CheckerStep, LockSweep, KeepClient, Condemn, CloseTimedOut, CancelTimedOut, ShiftTimedOut,
       UncountTimedOut, UnlockSweep, frame
  <2>2. \A t \in Conn : pc'[t] = pc[t]
    BY <1>4, <1>t DEF CheckerStep, LockSweep, KeepClient, Condemn, CloseTimedOut, CancelTimedOut, ShiftTimedOut,
       UncountTimedOut, UnlockSweep
  <2> QED BY <1>1, <2>1, <2>2
<1>5. CASE Exit
  BY <1>5 DEF Exit, AllAt, NamedInv
<1>6. ASSUME NEW t \in Conn, RecvName(t) PROVE NamedInv'
  <2>1. PICK n \in Name : username' = [username EXCEPT ![t] = n]
    BY <1>6 DEF RecvName
  <2>2. pc' = [pc EXCEPT ![t] = "lock"]
    BY <1>6 DEF RecvName
  <2> QED BY <2>1, <2>2, <1>t DEF NamedInv
<1>7. ASSUME NEW t \in Conn, Dropped(t) \/ Rejected(t) \/ CloseAfterBye(t) \/ Die(t) PROVE NamedInv'
  <2>1. /\ username' = [username EXCEPT ![t] = None]
        /\ pc' = [pc EXCEPT ![t] = "done"] \/ pc' = [pc EXCEPT ![t] = "cancelled"]
    BY <1>7 DEF Dropped, Rejected, CloseAfterBye, Die
  <2> QED BY <2>1, <1>t DEF NamedInv
<1>8. ASSUME NEW t \in Conn,
             \/ LockAndScan(t) \/ LockAll(t) \/ Recv(t) \/ Stamp(t) \/ Bye(t) \/ Start(t) \/ Await(t)
             \/ RecvEnd(t) \/ Drop(t) \/ WriteEntry(t) \/ CountEntry(t) \/ SendUserList(t) \/ SendNext(t)
             \/ UnlockAll(t) \/ Shift(t) \/ Uncount(t)
      PROVE  NamedInv'
  <2>1. UNCHANGED username
    BY <1>8 DEF LockAndScan, LockAll, Recv, Stamp, Bye, Start, Await, RecvEnd, Drop, WriteEntry,
       CountEntry, SendUserList, SendNext, UnlockAll, Shift, Uncount, frame
  <2>2. \A s \in Conn : pc'[s] \in {"lock", "write", "count"} => pc[s] \in {"lock", "write", "count"}
    BY <1>8, <1>t DEF LockAndScan, LockAll, Recv, Stamp, Bye, Start, Await, RecvEnd, Drop,
       WriteEntry, CountEntry, SendUserList, SendNext, UnlockAll, Shift, Uncount, AtCall
  <2> QED BY <1>1, <2>1, <2>2
<1> QED BY <1>2, <1>3, <1>4, <1>5, <1>6, <1>7, <1>8 DEF Next, ThreadStep, LockStep, ReceiveStep

Written(n) == \A k \in Slot : 0 <= k /\ k < n => MemberAt(k) \in Member
WrittenInv ==
  /\ Written(num_clients)
  /\ \A t \in Conn : At(t, "count") => Written(reg[t] + 1)
  /\ \A x \in Conn \cup {Checker} : At(x, "removed") => Written(reg[x])

LEMMA WrittenInit == Init => WrittenInv
<1> SUFFICES ASSUME Init PROVE WrittenInv
  OBVIOUS
<1>1. num_clients = 0 /\ \A x \in Conn \cup {Checker} : pc[x] \in {"none", "lock"}
  BY Threads DEF Init, AllAt
<1> QED BY <1>1 DEF WrittenInv, Written, At, Slot

\* Entries that are written stay so, wherever they move.
LEMMA WrittenShift ==
  ASSUME TypeInv, NEW index \in Int, clients' = Shifted(index), Written(num_clients),
         NEW n \in Int, Written(n)
  PROVE  Written(n)'
<1> SUFFICES ASSUME NEW k \in Slot, 0 <= k, k < n PROVE MemberAt(k)' \in Member
  BY DEF Written
<1>t. num_clients \in Int /\ num_clients <= MaxSlot + 1 /\ MaxSlot \in Nat /\ k \in Int
  BY ChatAssumption DEF TypeInv, TypeOK, Sizes, Slot
<1>1. CASE index <= k /\ k < num_clients - 1
  <2>1. k + 1 \in Slot /\ 0 <= k + 1 /\ k + 1 < num_clients /\ clients'[k] = clients[k + 1]
    BY <1>t, <1>1 DEF Shifted, Slot
  <2> QED BY <2>1 DEF Written, MemberAt
<1>2. CASE ~(index <= k /\ k < num_clients - 1)
  <2>1. clients'[k] = clients[k]
    BY <1>2 DEF Shifted
  <2> QED BY <2>1 DEF Written, MemberAt
<1> QED BY <1>1, <1>2

\* A message renews a time-stamp and leaves the members alone.
LEMMA StampKeepsMembers ==
  ASSUME clients \in [Slot -> Entry], NEW t \in Conn, Renewed(t)
  PROVE  \A k \in Slot : MemberAt(k)' = MemberAt(k)
<1> DEFINE e == [clients[curr_client[t]] EXCEPT !.last_active = now]
<1>1. clients' = [clients EXCEPT ![curr_client[t]] = e]
  BY Zenon DEF Renewed
<1>2. curr_client[t] \in Slot => /\ e.name = clients[curr_client[t]].name
                                 /\ e.socket = clients[curr_client[t]].socket
                                 /\ e.thread_id = clients[curr_client[t]].thread_id
  BY DEF Entry
<1> HIDE DEF e
<1> QED BY <1>1, <1>2 DEF MemberAt

LEMMA WrittenNext == TypeInv /\ HandedOver /\ NamedInv /\ WrittenInv /\ [Next]_vars => WrittenInv'
<1> SUFFICES ASSUME TypeInv, HandedOver, NamedInv, WrittenInv, [Next]_vars PROVE WrittenInv'
  OBVIOUS
<1> USE Threads DEF At, Goto, End
<1>t. /\ pc \in [Thread -> Pc] /\ ret \in [Conn -> {"lock_all", "recv", "remove"}]
      /\ reg \in [Thread -> Int] /\ i \in [Thread -> Int] /\ num_clients \in Int
      /\ clients \in [Slot -> Entry] /\ curr_client \in [Conn -> Slot] /\ Slot \subseteq Int
      /\ pc[Main] \in {"admit", "load", "store", "create"} => conn \in Conn
  BY DEF TypeInv, TypeOK, Sizes, Slot
<1>a. ASSUME UNCHANGED num_clients, \A k \in Slot : MemberAt(k)' = MemberAt(k),
             \A x \in Conn \cup {Checker} :
               pc'[x] \in {"count", "removed"} => pc'[x] = pc[x] /\ reg'[x] = reg[x]
      PROVE  WrittenInv'
  <2>1. \A n \in Int : Written(n)' <=> Written(n)
    BY <1>a DEF Written
  <2>2. Written(num_clients)'
    BY <1>a, <1>t, <2>1 DEF WrittenInv, Written
  <2>3. ASSUME NEW t \in Conn, At(t, "count")' PROVE Written(reg[t] + 1)'
    BY <1>a, <1>t, <2>3 DEF WrittenInv, Written
  <2>4. ASSUME NEW x \in Conn \cup {Checker}, At(x, "removed")' PROVE Written(reg[x])'
    BY <1>a, <1>t, <2>4 DEF WrittenInv, Written
  <2> QED BY <2>2, <2>3, <2>4 DEF WrittenInv
<1>b. ASSUME NEW x \in Conn \cup {Checker}, NEW index \in Int, clients' = Shifted(index),
             reg' = [reg EXCEPT ![x] = num_clients], pc' = [pc EXCEPT ![x] = "removed"], UNCHANGED num_clients
      PROVE  WrittenInv'
  <2>1. Written(num_clients)'
    BY <1>b, <1>t, WrittenShift DEF WrittenInv, Written
  <2>2. ASSUME NEW t \in Conn, At(t, "count")' PROVE Written(reg[t] + 1)'
    <3>1. pc[t] = "count" /\ reg'[t] = reg[t] /\ Written(reg[t] + 1) /\ reg[t] + 1 \in Int
      BY <1>b, <1>t, <2>2 DEF WrittenInv
    <3>2. \A k \in Slot : 0 <= k /\ k < reg[t] + 1 => MemberAt(k)' \in Member
      BY <1>b, <3>1, WrittenShift DEF WrittenInv, Written
    <3> QED BY <3>1, <3>2 DEF Written
  <2>3. ASSUME NEW y \in Conn \cup {Checker}, At(y, "removed")' PROVE Written(reg[y])'
    <3>1. CASE y = x
      BY <1>b, <1>t, <2>1, <3>1 DEF Written
    <3>2. CASE y # x
      <4>1. pc[y] = "removed" /\ reg'[y] = reg[y] /\ Written(reg[y]) /\ reg[y] \in Int
        BY <1>b, <1>t, <2>3, <3>2 DEF WrittenInv
      <4>2. \A k \in Slot : 0 <= k /\ k < reg[y] => MemberAt(k)' \in Member
        BY <1>b, <4>1, WrittenShift DEF WrittenInv, Written
      <4> QED BY <4>1, <4>2 DEF Written
    <3> QED BY <3>1, <3>2
  <2> QED BY <2>1, <2>2, <2>3 DEF WrittenInv
<1>c. ASSUME NEW x \in Conn \cup {Checker}, NEW n \in Int, Written(n), num_clients' = n, clients' = clients,
             pc'[x] \notin {"count", "removed"}, \A y \in Thread \ {x} : pc'[y] = pc[y] /\ reg'[y] = reg[y]
      PROVE  WrittenInv'
  <2>1. \A m \in Int : Written(m)' <=> Written(m)
    BY <1>c DEF Written, MemberAt
  <2>2. Written(num_clients)'
    BY <1>c, <1>t, <2>1 DEF Written
  <2>3. ASSUME NEW t \in Conn, At(t, "count")' PROVE Written(reg[t] + 1)'
    <3>1. t # x /\ pc[t] = "count" /\ reg'[t] = reg[t] /\ reg[t] + 1 \in Int
      BY <1>c, <1>t, <2>3
    <3> QED BY <2>1, <3>1 DEF WrittenInv, Written
  <2>4. ASSUME NEW y \in Conn \cup {Checker}, At(y, "removed")' PROVE Written(reg[y])'
    <3>1. y # x /\ pc[y] = "removed" /\ reg'[y] = reg[y] /\ reg[y] \in Int
      BY <1>c, <1>t, <2>4
    <3> QED BY <2>1, <3>1 DEF WrittenInv, Written
  <2> QED BY <2>2, <2>3, <2>4 DEF WrittenInv
<1>1. CASE UNCHANGED vars \/ Tick \/ \E t \in Conn : Hangup(t)
  BY <1>1, <1>a DEF vars, Tick, Hangup, registry, MemberAt
<1>2. CASE Accept \/ MainStep
  <2>1. UNCHANGED registry
    BY <1>2 DEF Accept, MainStep, Refuse, Admit, LoadActive, StoreActive, CreateThread
  <2>2. \A x \in Conn \cup {Checker} : pc'[x] \in {"count", "removed"} => pc'[x] = pc[x] /\ reg'[x] = reg[x]
    BY <1>2, <1>t DEF Accept, MainStep, Refuse, Admit, LoadActive, StoreActive, CreateThread
  <2> QED BY <2>1, <2>2, <1>a DEF registry, MemberAt
<1>3. CASE LockSweep \/ KeepClient \/ Condemn \/ CloseTimedOut \/ CancelTimedOut \/ UnlockSweep
  <2>1. UNCHANGED registry
    BY <1>3 DEF LockSweep, KeepClient, Condemn, CloseTimedOut, CancelTimedOut, UnlockSweep
  <2>2. \A x \in Conn \cup {Checker} : pc'[x] \in {"count", "removed"} => pc'[x] = pc[x] /\ reg'[x] = reg[x]
    BY <1>3, <1>t DEF LockSweep, KeepClient, Condemn, CloseTimedOut, CancelTimedOut, UnlockSweep
  <2> QED BY <2>1, <2>2, <1>a DEF registry, MemberAt
<1>4. CASE ShiftTimedOut
  BY <1>4, <1>b, <1>t DEF ShiftTimedOut
<1>5. CASE UncountTimedOut
  <2>1. Written(reg[Checker] - 1) /\ reg[Checker] - 1 \in Int
    BY <1>5, <1>t DEF UncountTimedOut, WrittenInv, Written
  <2> QED BY <2>1, <1>5, <1>c, <1>t DEF UncountTimedOut
<1>6. CASE Exit
  <2>1. num_clients' = 0 /\ \A x \in Conn \cup {Checker} : pc'[x] \in {"none", "lock"}
    BY <1>6 DEF Exit, AllAt
  <2> QED BY <2>1 DEF WrittenInv, Written, Slot
<1>7. ASSUME NEW t \in Conn,
             LockStep(t) \/ Start(t) \/ Await(t) \/ RecvEnd(t) \/ ReceiveStep(t) \/ Bye(t)
      PROVE  WrittenInv'
  <2>1. UNCHANGED registry
    BY <1>7 DEF LockStep, LockAndScan, LockAll, Start, Await, RecvEnd, ReceiveStep, RecvName,
       Recv, Bye
  <2>2. \A x \in Conn \cup {Checker} : pc'[x] \in {"count", "removed"} => pc'[x] = pc[x] /\ reg'[x] = reg[x]
    BY <1>7, <1>t DEF LockStep, LockAndScan, LockAll, Start, Await, RecvEnd, ReceiveStep, RecvName,
       Recv, Bye
  <2> QED BY <2>1, <2>2, <1>a DEF registry, MemberAt
<1>8. ASSUME NEW t \in Conn, Stamp(t) PROVE WrittenInv'
  <2>1. num_clients' = num_clients /\ \A k \in Slot : MemberAt(k)' = MemberAt(k)
    BY <1>8, <1>t, StampKeepsMembers DEF Stamp
  <2>2. \A x \in Conn \cup {Checker} : pc'[x] \in {"count", "removed"} => pc'[x] = pc[x] /\ reg'[x] = reg[x]
    BY <1>8, <1>t DEF Stamp
  <2> QED BY <2>1, <2>2, <1>a
<1>9. ASSUME NEW t \in Conn, Dropped(t) \/ Rejected(t) \/ CloseAfterBye(t) \/ Die(t) \/ Drop(t) PROVE WrittenInv'
  <2>1. UNCHANGED registry
    BY <1>9 DEF Dropped, Rejected, CloseAfterBye, Die, Drop
  <2>2. \A x \in Conn \cup {Checker} : pc'[x] \in {"count", "removed"} => pc'[x] = pc[x] /\ reg'[x] = reg[x]
    BY <1>9, <1>t DEF Dropped, Rejected, CloseAfterBye, Die, Drop
  <2> QED BY <2>1, <2>2, <1>a DEF registry, MemberAt
<1>10. ASSUME NEW t \in Conn, SendUserList(t) \/ SendNext(t) \/ UnlockAll(t) PROVE WrittenInv'
  <2>1. UNCHANGED registry
    BY <1>10 DEF SendUserList, SendNext, UnlockAll
  <2>2. \A x \in Conn \cup {Checker} : pc'[x] \in {"count", "removed"} => pc'[x] = pc[x] /\ reg'[x] = reg[x]
    BY <1>10, <1>t DEF SendUserList, SendNext, UnlockAll
  <2> QED BY <2>1, <2>2, <1>a DEF registry, MemberAt
<1>11. ASSUME NEW t \in Conn, WriteEntry(t) PROVE WrittenInv'
  <2>1. /\ num_clients \in Slot /\ clients' = [clients EXCEPT ![num_clients] = EntryOf(t)]
        /\ reg' = [reg EXCEPT ![t] = num_clients] /\ pc' = [pc EXCEPT ![t] = "count"]
        /\ num_clients' = num_clients /\ pc[t] = "write"
    BY <1>11 DEF WriteEntry
  <2>2. [name |-> username[t], socket |-> client_socket[t], thread_id |-> t] \in Member
    BY <2>1 DEF Member, HandedOver, NamedInv
  <2>3. \A k \in Slot : MemberAt(k) \in Member \/ k = num_clients => MemberAt(k)' \in Member
    BY <2>1, <2>2, <1>t DEF MemberAt, EntryOf
  <2>4. Written(num_clients)' /\ Written(reg[t] + 1)'
    BY <2>1, <2>3, <1>t DEF WrittenInv, Written
  <2>5. \A s \in Conn \ {t} : At(s, "count")' => Written(reg[s] + 1)'
    BY <2>1, <2>3, <1>t DEF WrittenInv, Written
  <2>6. \A x \in Conn \cup {Checker} : At(x, "removed")' => Written(reg[x])'
    BY <2>1, <2>3, <1>t DEF WrittenInv, Written
  <2> QED BY <2>4, <2>5, <2>6 DEF WrittenInv
<1>12. ASSUME NEW t \in Conn, CountEntry(t) PROVE WrittenInv'
  <2>1. Written(reg[t] + 1) /\ reg[t] + 1 \in Int
    BY <1>12, <1>t DEF CountEntry, WrittenInv
  <2> QED BY <2>1, <1>12, <1>c, <1>t DEF CountEntry
<1>13. ASSUME NEW t \in Conn, Shift(t) PROVE WrittenInv'
  BY <1>13, <1>b, <1>t DEF Shift
<1>14. ASSUME NEW t \in Conn, Uncount(t) PROVE WrittenInv'
  <2>1. Written(reg[t] - 1) /\ reg[t] - 1 \in Int
    BY <1>14, <1>t DEF Uncount, WrittenInv, Written
  <2> QED BY <2>1, <1>14, <1>c, <1>t DEF Uncount
<1> QED BY <1>1, <1>2, <1>3, <1>4, <1>5, <1>6, <1>7, <1>8, <1>9, <1>10, <1>11, <1>12, <1>13, <1>14
        DEF Next, CheckerStep, ThreadStep, ReceiveStep

\* What a send_to_all under way has reached: every entry it has passed. Entries move under it
\* only when a removal overlaps it, which history notes.
Reached(t) ==
  \A k \in Registered : k < i[t] => clients[k].socket \in sent[t] \cup {client_socket[t]}
SentInv ==
  /\ \A t \in Conn : At(t, "send_all") \/ i[t] = 0
  /\ history = "raced" \/ \A t \in Conn : At(t, "send_all") => Reached(t)

LEMMA SentInit == Init => SentInv
  BY Threads DEF Init, SentInv, AllAt, Zeros, At

LEMMA SentNext == TypeInv /\ Unstarted /\ LockDiscipline /\ WrittenInv /\ SentInv /\ [Next]_vars => SentInv'
<1> SUFFICES ASSUME TypeInv, Unstarted, LockDiscipline, WrittenInv, SentInv, [Next]_vars PROVE SentInv'
  OBVIOUS
<1> USE Threads DEF At, Goto, End
<1>t. /\ pc \in [Thread -> Pc] /\ ret \in [Conn -> {"lock_all", "recv", "remove"}]
      /\ i \in [Thread -> Int] /\ num_clients \in Int /\ sent \in [Conn -> SUBSET Fd]
      /\ clients \in [Slot -> Entry] /\ curr_client \in [Conn -> Slot] /\ Slot \subseteq Int
      /\ client_socket \in [Conn -> Fd \cup {None}]
      /\ pc[Main] \in {"admit", "load", "store", "create"} => conn \in Conn /\ pc[conn] = "none"
  BY DEF TypeInv, TypeOK, Sizes, Unstarted, Slot
<1>i. \A t \in Conn : pc[t] = "send_all" \/ i[t] = 0
  BY DEF SentInv
<1>a. ASSUME UNCHANGED <<num_clients, history>>, \A k \in Slot : clients'[k].socket = clients[k].socket,
             \A t \in Conn : pc'[t] = "send_all" =>
               /\ pc[t] = "send_all" \/ i'[t] = 0
               /\ i'[t] = i[t] /\ sent'[t] = sent[t] /\ client_socket'[t] = client_socket[t],
             \A t \in Conn : pc'[t] = "send_all" \/ i'[t] = 0
      PROVE  SentInv'
  <2>1. ASSUME NEW t \in Conn, pc'[t] = "send_all", history # "raced" PROVE Reached(t)'
    <3>1. CASE i'[t] = 0
      BY <1>t, <3>1 DEF Reached, Registered
    <3>2. CASE pc[t] = "send_all"
      BY <1>a, <2>1, <3>2 DEF SentInv, Reached, Registered
    <3> QED BY <1>a, <2>1, <3>1, <3>2
  <2> QED BY <1>a, <2>1 DEF SentInv
<1>b. ASSUME NEW x \in Conn \cup {Checker}, pc[x] # "send_all", pc'[x] # "send_all", UNCHANGED sent,
             \A t \in Conn : i'[t] = i[t], \A y \in Thread \ {x} : pc'[y] = pc[y],
             history' = "raced" \/ \A t \in Conn \ {x} : pc[t] # "send_all"
      PROVE  SentInv'
  BY <1>b, <1>i DEF SentInv
<1>c. ASSUME NEW x \in Conn \cup {Checker}, NotedRemoval(x)
      PROVE  history' = "raced" \/ \A t \in Conn \ {x} : pc[t] # "send_all"
  BY <1>c DEF NotedRemoval, HalfUpdated
<1>1. CASE UNCHANGED vars \/ Tick \/ \E t \in Conn : Hangup(t)
  BY <1>1, <1>a, <1>i DEF vars, Tick, Hangup, registry, frame, call
<1>2. CASE Accept \/ MainStep
  <2>1. UNCHANGED <<registry, frame, call>>
    BY <1>2 DEF Accept, MainStep, Refuse, Admit, LoadActive, StoreActive, CreateThread
  <2>2. \A t \in Conn : pc'[t] = "send_all" <=> pc[t] = "send_all"
    BY <1>2, <1>t DEF Accept, MainStep, Refuse, Admit, LoadActive, StoreActive, CreateThread
  <2> QED BY <2>1, <2>2, <1>a, <1>i DEF registry, frame, call
<1>3. CASE LockSweep \/ KeepClient \/ Condemn \/ CloseTimedOut \/ CancelTimedOut \/ UnlockSweep
  <2>1. UNCHANGED <<registry, frame, sent>> /\ \A t \in Conn : i'[t] = i[t]
    BY <1>3, <1>t DEF LockSweep, KeepClient, Condemn, CloseTimedOut, CancelTimedOut, UnlockSweep, Advance, call
  <2>2. \A t \in Conn : pc'[t] = pc[t]
    BY <1>3, <1>t DEF LockSweep, KeepClient, Condemn, CloseTimedOut, CancelTimedOut, UnlockSweep
  <2> QED BY <2>1, <2>2, <1>a, <1>i DEF registry, frame
<1>4. CASE ShiftTimedOut \/ UncountTimedOut
  BY <1>4, <1>b, <1>c, <1>t DEF ShiftTimedOut, UncountTimedOut, Advance, call
<1>5. CASE Exit
  BY <1>5 DEF Exit, AllAt, Zeros, SentInv
<1>6. ASSUME NEW t \in Conn, \/ LockStep(t) \/ Start(t) \/ Await(t) \/ RecvEnd(t) \/ RecvName(t)
                             \/ Drop(t) \/ SendUserList(t) \/ Recv(t) \/ Bye(t)
      PROVE  SentInv'
  <2>1. UNCHANGED <<registry, i, sent>> /\ \A s \in Conn \ {t} : client_socket'[s] = client_socket[s]
    BY <1>6, <1>t DEF LockStep, LockAndScan, LockAll, Start, Await, RecvEnd, RecvName, Drop, SendUserList, Recv, Bye,
       call, frame
  <2>2. (\A s \in Conn \ {t} : pc'[s] = pc[s]) /\ pc[t] # "send_all"
    BY <1>6, <1>t DEF LockStep, LockAndScan, LockAll, Start, Await, RecvEnd, RecvName, Drop, SendUserList, Recv, Bye, AtCall
  <2>3. pc'[t] = "send_all" => client_socket' = client_socket
    BY <1>6, <1>t DEF LockStep, LockAndScan, LockAll, Start, Await, RecvEnd, RecvName, Drop, SendUserList, Recv, Bye, frame
  <2> QED BY <2>1, <2>2, <2>3, <1>a, <1>i DEF registry
<1>7. ASSUME NEW t \in Conn, Stamp(t) PROVE SentInv'
  <2>1. /\ UNCHANGED <<num_clients, history, i, sent, client_socket>>
        /\ \A k \in Slot : clients'[k].socket = clients[k].socket
    <3>1. \A k \in Slot : clients'[k].socket = clients[k].socket
      BY <1>7, <1>t DEF Stamp, Renewed, Entry
    <3> QED BY <1>7, <3>1 DEF Stamp, call, frame
  <2>2. (\A s \in Conn \ {t} : pc'[s] = pc[s]) /\ pc[t] # "send_all" /\ pc'[t] # "send_all"
    BY <1>7, <1>t DEF Stamp
  <2> QED BY <2>1, <2>2, <1>a, <1>i
<1>8. ASSUME NEW t \in Conn, Dropped(t) \/ Rejected(t) \/ CloseAfterBye(t) \/ Die(t) PROVE SentInv'
  <2>1. /\ UNCHANGED registry /\ i'[t] = 0 /\ pc'[t] # "send_all"
        /\ \A s \in Conn \ {t} : /\ client_socket'[s] = client_socket[s] /\ pc'[s] = pc[s]
                                  /\ i'[s] = i[s] /\ sent'[s] = sent[s]
    BY <1>8, <1>t DEF Dropped, Rejected, CloseAfterBye, Die
  <2> QED BY <2>1, <1>a, <1>i DEF registry
<1>9. ASSUME NEW t \in Conn, WriteEntry(t) \/ CountEntry(t) PROVE SentInv'
  <2>1. \A s \in Conn \ {t} : pc[s] # "send_all"
    BY <1>9 DEF WriteEntry, CountEntry, LockDiscipline, Critical
  <2> QED BY <1>9, <2>1, <1>b, <1>t DEF WriteEntry, CountEntry, call
<1>10. ASSUME NEW t \in Conn, SendNext(t) PROVE SentInv'
  <2>1. /\ pc[t] = "send_all" /\ i[t] < num_clients /\ i' = [i EXCEPT ![t] = @ + 1]
        /\ UNCHANGED <<pc, clients, num_clients, history, client_socket>>
        /\ \/ clients[i[t]].socket = client_socket[t] /\ UNCHANGED sent
           \/ sent' = [sent EXCEPT ![t] = @ \cup ({clients[i[t]].socket} \cap Fd)]
    BY <1>10 DEF SendNext, MoreToSend, ToOther, registry, frame
  <2>2. ASSUME Reached(t) PROVE Reached(t)'
    <3> SUFFICES ASSUME NEW k \in Registered, k < i[t] + 1
                 PROVE  clients[k].socket \in sent'[t] \cup {client_socket[t]}
      BY <2>1, <1>t DEF Reached, Registered
    <3>1. CASE k < i[t]
      BY <2>1, <2>2, <3>1, <1>t DEF Reached
    <3>2. CASE k = i[t]
      <4>1. clients[k].socket \in Fd
        BY <1>t DEF WrittenInv, Written, Registered, MemberAt, Member
      <4> QED BY <2>1, <3>2, <4>1, <1>t
    <3>3. k \in Int /\ i[t] \in Int
      BY <1>t DEF Registered
    <3> QED BY <3>1, <3>2, <3>3
  <2>3. \A s \in Conn \ {t} : Reached(s) => Reached(s)'
    BY <2>1, <1>t DEF Reached, Registered
  <2> QED BY <2>1, <2>2, <2>3, <1>i, <1>t DEF SentInv
<1>11. ASSUME NEW t \in Conn, UnlockAll(t) PROVE SentInv'
  <2>1. /\ UNCHANGED <<registry, frame>> /\ i'[t] = 0 /\ pc'[t] # "send_all"
        /\ \A s \in Conn \ {t} : pc'[s] = pc[s] /\ i'[s] = i[s] /\ sent'[s] = sent[s]
    BY <1>11, <1>t DEF UnlockAll
  <2> QED BY <2>1, <1>a, <1>i DEF registry, frame
<1>12. ASSUME NEW t \in Conn, Shift(t) \/ Uncount(t) PROVE SentInv'
  BY <1>12, <1>b, <1>c, <1>t DEF Shift, Uncount, call
<1> QED BY <1>1, <1>2, <1>3, <1>4, <1>5, <1>6, <1>7, <1>8, <1>9, <1>10, <1>11, <1>12
        DEF Next, CheckerStep, ThreadStep, ReceiveStep

\* send_to_all reads num_clients and the entries one by one: under the lock it misses nobody who
\* is registered, newcomers and those about to be timed out included, and only the removal
\* without the lock can make it.
THEOREM BroadcastReachesAll == Spec => []BroadcastUnlessRaced
<1>1. TypeInv /\ SentInv => BroadcastUnlessRaced
  BY Threads DEF TypeInv, TypeOK, SentInv, Reached, Registered, BroadcastUnlessRaced, BroadcastComplete,
     MoreToSend, Slot
<1> QED
  BY TypeInit, TypeNext, UnstartedInit, UnstartedNext, LockInit, LockNext, HandedInit, HandedNext, NamedInit,
     NamedNext, WrittenInit, WrittenNext, SentInit, SentNext, <1>1, PTL DEF Spec
-------------------------------------------------------------------------------
(* The registry. What is found in one step is removed in a later one; as long *)
(* as history is orderly the index still names an entry, and the same one.   *)

ReturnsToRemoval ==
  \A t \in Conn : ret[t] = "remove" => pc[t] \in {"lock_all", "send_all"}

InPlace(k) == k \in Slot /\ 0 <= k /\ k < num_clients
Placed ==
  /\ 0 <= num_clients /\ (RemovalUnderWay => 1 <= num_clients)
  /\ \A x \in Conn \cup {Checker} : Chosen(x) => InPlace(Place(x))

PlaceInv == ReturnsToRemoval /\ 0 <= i[Checker] /\ (history = "raced" \/ Placed)

LEMMA PlaceInit == Init => PlaceInv
<1> SUFFICES ASSUME Init PROVE PlaceInv
  OBVIOUS
<1>1. /\ num_clients = 0 /\ i[Checker] = 0 /\ \A t \in Conn : ret[t] = "recv"
      /\ \A x \in Conn \cup {Checker} : pc[x] \in {"none", "lock"}
  BY Threads DEF Init, AllAt, Zeros
<1> QED BY <1>1 DEF PlaceInv, ReturnsToRemoval, Placed, RemovalUnderWay, Chosen, HalfRemoved, At

\* A handler comes back to a removal only from the broadcast that announces it.
LEMMA ReturnNext == TypeInv /\ Unstarted /\ ReturnsToRemoval /\ [Next]_vars => ReturnsToRemoval'
<1> SUFFICES ASSUME TypeInv, Unstarted, ReturnsToRemoval, [Next]_vars PROVE ReturnsToRemoval'
  OBVIOUS
<1> USE Threads DEF At, Goto, End
<1>t. /\ pc \in [Thread -> Pc] /\ ret \in [Conn -> {"lock_all", "recv", "remove"}]
      /\ pc[Main] \in {"admit", "load", "store", "create"} => conn \in Conn /\ pc[conn] = "none"
  BY DEF TypeInv, TypeOK, Sizes, Unstarted
<1>1. CASE UNCHANGED vars \/ Tick \/ \E t \in Conn : Hangup(t)
  BY <1>1 DEF vars, Tick, Hangup, call, ReturnsToRemoval
<1>2. CASE Accept \/ MainStep
  <2>1. UNCHANGED ret
    BY <1>2 DEF Accept, MainStep, Refuse, Admit, LoadActive, StoreActive, CreateThread, call
  <2>2. CASE CreateThread
    <3>1. At(Main, "create") /\ pc' = [pc EXCEPT ![Main] = "accept", ![conn] = "start"] /\ ret' = ret
      BY <2>2, <2>1 DEF CreateThread
    <3> QED BY <3>1, <1>t DEF ReturnsToRemoval
  <2>3. CASE ~CreateThread
    <3>1. \A t \in Conn : pc'[t] = pc[t]
      BY <1>2, <2>3, <1>t DEF Accept, MainStep, Refuse, Admit, LoadActive, StoreActive
    <3> QED BY <2>1, <3>1 DEF ReturnsToRemoval
  <2> QED BY <2>2, <2>3
<1>3. CASE CheckerStep
  <2>1. UNCHANGED ret
    BY <1>3 DEF CheckerStep, LockSweep, KeepClient, Condemn, CloseTimedOut, CancelTimedOut, ShiftTimedOut,
       UncountTimedOut, UnlockSweep, call
  <2>2. \A t \in Conn : pc'[t] = pc[t]
    BY <1>3, <1>t DEF CheckerStep, LockSweep, KeepClient, Condemn, CloseTimedOut, CancelTimedOut, ShiftTimedOut,
       UncountTimedOut, UnlockSweep
  <2> QED BY <2>1, <2>2 DEF ReturnsToRemoval
<1>4. CASE Exit
  BY <1>4 DEF Exit, ReturnsToRemoval
<1>5. ASSUME NEW t \in Conn, Dropped(t) \/ Rejected(t) \/ CloseAfterBye(t) \/ Die(t)
      PROVE  ReturnsToRemoval'
  <2>1. /\ ret' = [ret EXCEPT ![t] = "recv"]
        /\ pc' = [pc EXCEPT ![t] = "done"] \/ pc' = [pc EXCEPT ![t] = "cancelled"]
    BY <1>5 DEF Dropped, Rejected, CloseAfterBye, Die
  <2> QED BY <2>1, <1>t DEF ReturnsToRemoval
<1>6. ASSUME NEW t \in Conn, CountEntry(t) \/ SendUserList(t) \/ UnlockAll(t) PROVE ReturnsToRemoval'
  <2>1. /\ ret' = [ret EXCEPT ![t] = "lock_all"] \/ ret' = [ret EXCEPT ![t] = "recv"]
        /\ \E p \in Pc : pc' = [pc EXCEPT ![t] = p]
    BY <1>6, <1>t DEF CountEntry, SendUserList, UnlockAll, Pc
  <2> QED BY <2>1, <1>t DEF ReturnsToRemoval
<1>7. ASSUME NEW t \in Conn, Bye(t) PROVE ReturnsToRemoval'
  <2>1. \/ ret' = ret /\ pc[t] = "bye" /\ pc' = [pc EXCEPT ![t] = "close"]
        \/ ret' = [ret EXCEPT ![t] = "remove"] /\ pc' = [pc EXCEPT ![t] = "lock_all"]
    BY <1>7 DEF Bye
  <2> QED BY <2>1, <1>t DEF ReturnsToRemoval
<1>8. ASSUME NEW t \in Conn, LockAll(t) \/ SendNext(t) PROVE ReturnsToRemoval'
  <2>1. ret' = ret /\ (pc' = pc \/ pc' = [pc EXCEPT ![t] = "send_all"])
    BY <1>8 DEF LockAll, SendNext, call
  <2> QED BY <2>1, <1>t DEF ReturnsToRemoval
<1>9. ASSUME NEW t \in Conn,
             \/ LockAndScan(t) \/ Recv(t) \/ Stamp(t) \/ RecvName(t) \/ Start(t) \/ Await(t) \/ RecvEnd(t)
             \/ Drop(t) \/ WriteEntry(t) \/ Shift(t) \/ Uncount(t)
      PROVE  ReturnsToRemoval'
  <2>1. UNCHANGED ret
    BY <1>9 DEF LockAndScan, Recv, Stamp, RecvName, Start, Await, RecvEnd, Drop, WriteEntry, Shift,
       Uncount, call
  <2>2. pc[t] \notin {"lock_all", "send_all"} /\ \A s \in Conn \ {t} : pc'[s] = pc[s]
    BY <1>9, <1>t DEF LockAndScan, Recv, Stamp, RecvName, Start, Await, RecvEnd, Drop, WriteEntry,
       Shift, Uncount, AtCall
  <2> QED BY <2>1, <2>2 DEF ReturnsToRemoval
<1> QED BY <1>1, <1>2, <1>3, <1>4, <1>5, <1>6, <1>7, <1>8, <1>9 DEF Next, ThreadStep, LockStep, ReceiveStep

\* Steps that leave what is registered alone, but for at most one choice of a registered entry.
LEMMA PlaceQuiet ==
  ASSUME history = "raced" \/ Placed, UNCHANGED <<num_clients, history>>,
         \A x \in Conn \cup {Checker} : /\ At(x, "removed")' <=> At(x, "removed")
                                        /\ Chosen(x)' => \/ Chosen(x) /\ Place(x)' = Place(x)
                                                         \/ InPlace(Place(x)')
  PROVE  (history = "raced" \/ Placed)'
<1>1. RemovalUnderWay' <=> RemovalUnderWay
  BY DEF RemovalUnderWay
<1> QED BY <1>1 DEF Placed, InPlace

\* A removal that overlaps nothing leaves no other choice behind.
LEMMA NoOtherChosen ==
  ASSUME NEW x \in Conn \cup {Checker}, NotedRemoval(x), history' # "raced"
  PROVE  /\ history # "raced"
         /\ \A y \in (Conn \cup {Checker}) \ {x} : ~Chosen(y) /\ ~At(y, "removed") /\ ~HalfUpdated(y)
<1>1. history # "raced" /\ \A y \in (Conn \cup {Checker}) \ {x} : ~HalfUpdated(y)
  BY DEF NotedRemoval
<1> QED BY <1>1 DEF HalfUpdated, HalfRemoved, Chosen, At

LEMMA PlaceShift ==
  ASSUME TypeInv, history = "raced" \/ Placed, NEW x \in Conn \cup {Checker}, Chosen(x), ~At(x, "removed"),
         Goto(x, "removed"), NotedRemoval(x), UNCHANGED <<num_clients, ret>>
  PROVE  (history = "raced" \/ Placed)'
<1> USE Threads DEF At, Goto
<1> SUFFICES ASSUME history' # "raced" PROVE Placed'
  OBVIOUS
<1>1. /\ Placed /\ pc' = [pc EXCEPT ![x] = "removed"] /\ pc \in [Thread -> Pc] /\ num_clients \in Int
      /\ Slot \subseteq Int
      /\ \A y \in (Conn \cup {Checker}) \ {x} : ~Chosen(y)
  BY NoOtherChosen DEF TypeInv, TypeOK, Slot
<1>2. InPlace(Place(x))
  BY <1>1 DEF Placed
<1>3. 1 <= num_clients
  <2>1. \A k \in Int : 0 <= k /\ k < num_clients => 1 <= num_clients
    BY <1>1
  <2>2. Place(x) \in Int /\ 0 <= Place(x) /\ Place(x) < num_clients
    BY <1>1, <1>2 DEF InPlace
  <2> HIDE DEF Place
  <2> QED BY <2>1, <2>2
<1>4. \A y \in Conn \cup {Checker} : ~Chosen(y)'
  BY <1>1 DEF Chosen, HalfRemoved
<1> QED BY <1>1, <1>3, <1>4 DEF Placed

LEMMA PlaceUncount ==
  ASSUME TypeInv, UniqueInv, history = "raced" \/ Placed, NEW x \in Conn \cup {Checker}, At(x, "removed"),
         NEW p \in {"close", "sweep"}, Goto(x, p), num_clients' = reg[x] - 1, NotedRemoval(x), UNCHANGED ret
  PROVE  (history = "raced" \/ Placed)'
<1> USE Threads DEF At, Goto
<1> SUFFICES ASSUME history' # "raced" PROVE Placed'
  OBVIOUS
<1>1. /\ Placed /\ Orderly /\ pc' = [pc EXCEPT ![x] = p] /\ pc \in [Thread -> Pc] /\ num_clients \in Int
      /\ \A y \in (Conn \cup {Checker}) \ {x} : ~Chosen(y) /\ pc[y] # "removed"
  BY NoOtherChosen DEF TypeInv, TypeOK, UniqueInv
<1>2. reg[x] = num_clients /\ RemovalUnderWay
  BY <1>1 DEF Orderly, RemovalLoaded, RemovalUnderWay
<1>3. 0 <= num_clients'
  BY <1>1, <1>2 DEF Placed
<1>4. \A y \in Conn \cup {Checker} : ~Chosen(y)' /\ pc'[y] # "removed"
  BY <1>1 DEF Chosen, HalfRemoved
<1> QED BY <1>3, <1>4 DEF Placed, RemovalUnderWay

LEMMA PlaceCount ==
  ASSUME TypeInv, LockDiscipline, UniqueInv, history = "raced" \/ Placed, NEW t \in Conn, CountEntry(t)
  PROVE  (history = "raced" \/ Placed)'
<1> USE Threads DEF At, Goto
<1> SUFFICES ASSUME history' # "raced" PROVE Placed'
  OBVIOUS
<1>1. /\ Placed /\ Orderly /\ pc[t] = "count" /\ pc' = [pc EXCEPT ![t] = "list"]
      /\ pc \in [Thread -> Pc] /\ num_clients \in Int /\ i' = i
      /\ reg' = [reg EXCEPT ![t] = 0] /\ ret' = [ret EXCEPT ![t] = "lock_all"]
      /\ reg \in [Thread -> Int] /\ ret \in [Conn -> {"lock_all", "recv", "remove"}]
  BY DEF CountEntry, NotedInsertion, TypeInv, TypeOK, UniqueInv
<1>2. num_clients' = num_clients + 1 /\ ~RemovalUnderWay
  BY <1>1 DEF CountEntry, Orderly, EntryWritten
<1>3. \A x \in Conn \cup {Checker} : pc'[x] # "removed" /\ (Chosen(x)' => Chosen(x) /\ Place(x)' = Place(x))
  BY <1>1, <1>2 DEF RemovalUnderWay, Chosen, HalfRemoved, Place
<1>4. \A k \in Slot : k < num_clients => k < num_clients'
  BY <1>1, <1>2 DEF Slot
<1>6. ASSUME NEW x \in Conn \cup {Checker}, Chosen(x)' PROVE InPlace(Place(x))'
  <2>1. InPlace(Place(x)) /\ Place(x)' = Place(x)
    BY <1>1, <1>3, <1>6 DEF Placed
  <2> QED BY <1>4, <2>1 DEF InPlace
<1> QED BY <1>1, <1>2, <1>3, <1>6 DEF Placed, RemovalUnderWay

\* Who is chosen, and where, changes in two steps: Bye and Condemn.
LEMMA PlaceNext ==
  TypeInv /\ Unstarted /\ LockDiscipline /\ UniqueInv /\ PlaceInv /\ [Next]_vars => PlaceInv'
<1> SUFFICES ASSUME TypeInv, Unstarted, LockDiscipline, UniqueInv, PlaceInv, [Next]_vars
             PROVE  0 <= i'[Checker] /\ (history = "raced" \/ Placed)'
  BY ReturnNext DEF PlaceInv
<1> USE Threads DEF At, Goto, End
<1>t. /\ pc \in [Thread -> Pc] /\ ret \in [Conn -> {"lock_all", "recv", "remove"}]
      /\ reg \in [Thread -> Int] /\ i \in [Thread -> Int] /\ num_clients \in Int
      /\ clients \in [Slot -> Entry] /\ Slot = (-MaxSlot)..MaxSlot /\ MaxSlot \in Nat
      /\ num_clients <= MaxSlot + 1
      /\ pc[Main] \in {"admit", "load", "store", "create"} => conn \in Conn /\ pc[conn] = "none"
      /\ 0 <= i[Checker] /\ ReturnsToRemoval /\ (history = "raced" \/ Placed)
  BY ChatAssumption DEF TypeInv, TypeOK, Sizes, Unstarted, Slot, PlaceInv
<1>1. CASE UNCHANGED vars \/ Tick \/ \E t \in Conn : Hangup(t)
  <2>1. UNCHANGED <<num_clients, history, pc, i, reg, ret>>
    BY <1>1 DEF vars, Tick, Hangup, registry, call
  <2>2. \A x \in Conn \cup {Checker} : (Chosen(x)' <=> Chosen(x)) /\ Place(x)' = Place(x)
    BY <2>1 DEF Chosen, HalfRemoved, Place
  <2> QED BY <2>1, <2>2, <1>t, PlaceQuiet
<1>2. CASE Accept \/ MainStep
  <2>1. UNCHANGED <<num_clients, history, i, ret>>
    BY <1>2 DEF Accept, MainStep, Refuse, Admit, LoadActive, StoreActive, CreateThread, registry, call
  <2>2. \A x \in Conn \cup {Checker} : reg'[x] = reg[x] /\ (pc'[x] = pc[x] \/ (pc[x] = "none" /\ pc'[x] = "start"))
    <3>1. CASE CreateThread
      <4>1. /\ reg' = reg /\ conn \in Conn /\ pc[conn] = "none"
            /\ pc' = [pc EXCEPT ![Main] = "accept", ![conn] = "start"]
        BY <3>1, <1>t DEF CreateThread
      <4> QED BY <4>1, <1>t
    <3>2. CASE Accept \/ Refuse \/ Admit \/ LoadActive \/ StoreActive
      <4>1. \A x \in Conn \cup {Checker} : reg'[x] = reg[x]
        BY <3>2, <1>t DEF Accept, Refuse, Admit, LoadActive, StoreActive
      <4>2. \A x \in Conn \cup {Checker} : pc'[x] = pc[x]
        BY <3>2, <1>t DEF Accept, Refuse, Admit, LoadActive, StoreActive
      <4> QED BY <4>1, <4>2
    <3> QED BY <1>2, <3>1, <3>2 DEF MainStep
  <2>3. \A x \in Conn \cup {Checker} : Chosen(x)' => Chosen(x) /\ Place(x)' = Place(x)
    BY <2>1, <2>2 DEF Chosen, HalfRemoved, Place
  <2> QED BY <2>1, <2>2, <2>3, <1>t, PlaceQuiet
<1>3. CASE ShiftTimedOut
  <2>1. Chosen(Checker)
    BY <1>3 DEF ShiftTimedOut, Chosen
  <2> QED BY <1>3, <2>1, <1>t, PlaceShift DEF ShiftTimedOut, call
<1>4. CASE UncountTimedOut
  <2>1. 0 <= i'[Checker]
    BY <1>4, <1>t DEF UncountTimedOut, Advance
  <2> QED BY <1>4, <2>1, <1>t, PlaceUncount DEF UncountTimedOut
<1>5. CASE LockSweep \/ UnlockSweep \/ KeepClient \/ Condemn \/ CloseTimedOut \/ CancelTimedOut
  <2>1. /\ UNCHANGED <<num_clients, history, ret>>
        /\ \A x \in Conn : reg'[x] = reg[x] /\ pc'[x] = pc[x]
        /\ pc'[Checker] # "removed" /\ pc[Checker] # "removed" /\ 0 <= i'[Checker]
    BY <1>5, <1>t DEF LockSweep, UnlockSweep, KeepClient, Condemn, CloseTimedOut, CancelTimedOut, Sweeping, Advance,
       registry, call
  <2>2. pc'[Checker] \in {"notify", "closed", "cancelled"} =>
          i' = i /\ (pc[Checker] \in {"notify", "closed"} \/ InPlace(i[Checker]))
    BY <1>5, <1>t DEF LockSweep, UnlockSweep, KeepClient, Condemn, CloseTimedOut, CancelTimedOut, Sweeping, call, InPlace
  <2>3. \A x \in Conn \cup {Checker} :
          Chosen(x)' => (Chosen(x) /\ Place(x)' = Place(x)) \/ InPlace(Place(x)')
    BY <2>1, <2>2 DEF Chosen, HalfRemoved, Place
  <2> QED BY <2>1, <2>3, <1>t, PlaceQuiet
<1>6. CASE Exit
  <2>1. num_clients' = 0 /\ i'[Checker] = 0 /\ \A x \in Conn \cup {Checker} : pc'[x] \in {"none", "lock"}
    BY <1>6 DEF Exit, AllAt, Zeros
  <2> QED BY <2>1 DEF Placed, RemovalUnderWay, Chosen, HalfRemoved
<1>7. ASSUME NEW t \in Conn, Shift(t) PROVE 0 <= i'[Checker] /\ (history = "raced" \/ Placed)'
  <2>1. Chosen(t)
    BY <1>7 DEF Shift, Chosen, HalfRemoved
  <2> QED BY <1>7, <2>1, <1>t, PlaceShift DEF Shift, call
<1>8. ASSUME NEW t \in Conn, Uncount(t) PROVE 0 <= i'[Checker] /\ (history = "raced" \/ Placed)'
  BY <1>8, <1>t, PlaceUncount DEF Uncount, call
<1>9. ASSUME NEW t \in Conn, CountEntry(t) PROVE 0 <= i'[Checker] /\ (history = "raced" \/ Placed)'
  BY <1>9, <1>t, PlaceCount DEF CountEntry
<1>10. ASSUME NEW t \in Conn, WriteEntry(t) PROVE 0 <= i'[Checker] /\ (history = "raced" \/ Placed)'
  <2>1. /\ num_clients' = num_clients /\ i' = i /\ ret' = ret /\ reg' = [reg EXCEPT ![t] = num_clients]
        /\ pc' = [pc EXCEPT ![t] = "count"] /\ pc[t] = "write" /\ history' \in {"raced", history}
    BY <1>10 DEF WriteEntry, NotedInsertion, call
  <2>2. \A x \in Conn \cup {Checker} : /\ pc'[x] = "removed" <=> pc[x] = "removed"
                                       /\ Chosen(x)' => Chosen(x) /\ Place(x)' = Place(x)
    BY <2>1, <1>t DEF Chosen, HalfRemoved, Place
  <2> QED BY <2>1, <2>2, <1>t, PlaceQuiet
<1>11. ASSUME NEW t \in Conn, Bye(t)
       PROVE  0 <= i'[Checker] /\ (history = "raced" \/ Placed)'
  <2>1. /\ UNCHANGED <<num_clients, history, i>> /\ pc[t] = "bye"
        /\ \A x \in (Conn \cup {Checker}) \ {t} : pc'[x] = pc[x] /\ reg'[x] = reg[x]
        /\ \A s \in Conn \ {t} : ret'[s] = ret[s]
        /\ pc'[t] \in {"lock_all", "close"}
        /\ ret'[t] = ret[t] \/ InPlace(reg'[t])
    BY <1>11, <1>t DEF Bye, Registered, InPlace, registry
  <2>2. ret[t] # "remove"
    BY <2>1, <1>t DEF ReturnsToRemoval
  <2>3. \A x \in Conn \cup {Checker} :
          Chosen(x)' => (Chosen(x) /\ Place(x)' = Place(x)) \/ InPlace(Place(x)')
    BY <2>1, <2>2 DEF Chosen, HalfRemoved, Place
  <2> QED BY <2>1, <2>3, <1>t, PlaceQuiet
<1>12. ASSUME NEW t \in Conn, LockAll(t) \/ SendNext(t) \/ UnlockAll(t)
       PROVE  0 <= i'[Checker] /\ (history = "raced" \/ Placed)'
  <2>1. /\ UNCHANGED <<num_clients, history, reg>> /\ i'[Checker] = i[Checker]
        /\ \A x \in (Conn \cup {Checker}) \ {t} : pc'[x] = pc[x]
        /\ \A s \in Conn \ {t} : ret'[s] = ret[s]
    BY <1>12, <1>t DEF LockAll, SendNext, UnlockAll, registry, call
  <2>2. /\ pc[t] \in {"lock_all", "send_all"}
        /\ \/ pc'[t] \in {"lock_all", "send_all"} /\ ret'[t] = ret[t]
           \/ pc'[t] = ret[t] /\ ret'[t] = "recv"
    BY <1>12, <1>t DEF LockAll, SendNext, UnlockAll, registry, call
  <2>3. \A x \in Conn \cup {Checker} : Chosen(x)' => Chosen(x) /\ Place(x)' = Place(x)
    BY <2>1, <2>2, <1>t DEF Chosen, HalfRemoved, Place
  <2> QED BY <2>1, <2>2, <2>3, <1>t, PlaceQuiet
<1>13. ASSUME NEW t \in Conn,
              \/ LockAndScan(t) \/ RecvName(t) \/ Start(t) \/ Await(t) \/ RecvEnd(t) \/ SendUserList(t)
              \/ Drop(t) \/ Dropped(t) \/ Rejected(t) \/ CloseAfterBye(t) \/ Die(t) \/ Recv(t) \/ Stamp(t)
       PROVE  0 <= i'[Checker] /\ (history = "raced" \/ Placed)'
  <2>1. UNCHANGED <<num_clients, history>> /\ i'[Checker] = i[Checker]
    BY <1>13, <1>t DEF LockAndScan, RecvName, Start, Await, RecvEnd, SendUserList, Drop, Dropped,
       Rejected, CloseAfterBye, Die, Recv, Stamp, registry, call
  <2>2. \A x \in (Conn \cup {Checker}) \ {t} : reg'[x] = reg[x] /\ pc'[x] = pc[x]
    BY <1>13, <1>t DEF LockAndScan, RecvName, Start, Await, RecvEnd, SendUserList, Drop, Dropped,
       Rejected, CloseAfterBye, Die, Recv, Stamp
  <2>3. \A s \in Conn \ {t} : ret'[s] = ret[s]
    BY <1>13, <1>t DEF LockAndScan, RecvName, Start, Await, RecvEnd, SendUserList, Drop, Dropped,
       Rejected, CloseAfterBye, Die, Recv, Stamp, call
  <2>4. pc[t] # "removed" /\ pc'[t] \notin {"remove", "removed", "send_all"}
        /\ (pc'[t] = "lock_all" => ret'[t] # "remove")
    <3>1. CASE Stamp(t)
      BY <1>t, <3>1 DEF Stamp, call, ReturnsToRemoval
    <3>2. CASE ~Stamp(t)
      BY <1>13, <1>t, <3>2 DEF LockAndScan, RecvName, Start, Await, RecvEnd, SendUserList, Drop, Dropped,
         Rejected, CloseAfterBye, Die, Recv, AtCall, ReturnsToRemoval
    <3> QED BY <3>1, <3>2
  <2>5. \A x \in Conn \cup {Checker} : Chosen(x)' => Chosen(x) /\ Place(x)' = Place(x)
    BY <2>1, <2>2, <2>3, <2>4 DEF Chosen, HalfRemoved, Place
  <2> QED BY <2>1, <2>2, <2>4, <2>5, <1>t, PlaceQuiet
<1> QED
  BY <1>1, <1>2, <1>3, <1>4, <1>5, <1>6, <1>7, <1>8, <1>9, <1>10, <1>11, <1>12, <1>13
     DEF Next, CheckerStep, ThreadStep, LockStep, ReceiveStep

--------------------------------------------------------------------------------
(* Each step adds a member, takes out the one that was chosen, chooses or       *)
(* spares one, or leaves the members as they are.                               *)

\* With history orderly, whoever is registered is written down completely.
LEMMA MembersTyped ==
  ASSUME TypeInv, WrittenInv
  PROVE  Members \subseteq Member
<1> SUFFICES ASSUME NEW k \in Slot, 0 <= k, k < Settled PROVE MemberAt(k) \in Member
  BY DEF Members
<1>1. k \in Int /\ num_clients \in Int
  BY DEF TypeInv, TypeOK, Slot
<1>2. k < num_clients
  BY <1>1 DEF Settled
<1> QED BY <1>2 DEF WrittenInv, Written

LEMMA SameMembers ==
  ASSUME UNCHANGED num_clients, RemovalUnderWay' <=> RemovalUnderWay,
         \A k \in Slot : 0 <= k /\ k < Settled => MemberAt(k)' = MemberAt(k)
  PROVE  Members' = Members
<1>1. Settled' = Settled
  BY DEF Settled
<1>2. Members' = {MemberAt(k)' : k \in {j \in Slot : 0 <= j /\ j < Settled'}}
  BY DEF Members
<1>3. Members' = {MemberAt(k)' : k \in {j \in Slot : 0 <= j /\ j < Settled}}
  BY <1>1, <1>2
<1> QED BY <1>3 DEF Members

ChosenAt(x) == IF Chosen(x) THEN {MemberAt(Place(x))} \cap Members ELSE {}

LEMMA ChosenApart == ChosenMembers = UNION {ChosenAt(x) : x \in Conn \cup {Checker}}
  BY DEF ChosenMembers, ChosenAt

\* Nobody but t changes a choice.
LEMMA OneChooses ==
  ASSUME NEW t \in Conn \cup {Checker}, Members' = Members, Members \subseteq Member,
         \A x \in (Conn \cup {Checker}) \ {t} : ChosenAt(x)' = ChosenAt(x),
         ChosenAt(t) = {} \/ ChosenAt(t)' = {} \/ ChosenAt(t)' = ChosenAt(t)
  PROVE  \/ ChosenMembers' = ChosenMembers
         \/ \E m \in Member : /\ m \in Members /\ ChosenMembers' = ChosenMembers \cup {m}
         \/ \E m \in Member : ChosenMembers' = ChosenMembers \ {m}
<1> DEFINE Others == UNION {ChosenAt(x) : x \in (Conn \cup {Checker}) \ {t}}
<1>1. ChosenMembers = Others \cup ChosenAt(t)
  BY ChosenApart
<1>2. ChosenMembers' = Others \cup ChosenAt(t)'
  <2>1. ChosenMembers' = UNION {ChosenAt(x)' : x \in Conn \cup {Checker}}
    BY DEF ChosenMembers, ChosenAt
  <2> QED BY <2>1
<1>3. /\ ChosenAt(t) = {} \/ \E m \in Members : ChosenAt(t) = {m}
      /\ ChosenAt(t)' = {} \/ \E m \in Members : ChosenAt(t)' = {m}
  <2>1. \A e : {e} \cap Members = {} \/ (e \in Members /\ {e} \cap Members = {e})
    OBVIOUS
  <2>2. ChosenAt(t) = {} \/ ChosenAt(t) = {MemberAt(Place(t))} \cap Members
    BY DEF ChosenAt
  <2>3. ChosenAt(t)' = {} \/ ChosenAt(t)' = {MemberAt(Place(t))'} \cap Members
    BY DEF ChosenAt
  <2>4. ChosenAt(t) = {} \/ \E m \in Members : ChosenAt(t) = {m}
    BY <2>1, <2>2, Zenon
  <2>5. ChosenAt(t)' = {} \/ \E m \in Members : ChosenAt(t)' = {m}
    BY <2>1, <2>3, Zenon
  <2> QED BY <2>4, <2>5
<1> HIDE DEF Others
<1>4. CASE ChosenAt(t)' = ChosenAt(t)
  BY <1>1, <1>2, <1>4
<1>5. CASE ChosenAt(t) = {}
  BY <1>1, <1>2, <1>3, <1>5
<1>6. CASE ChosenAt(t)' = {}
  <2>1. CASE ChosenAt(t) = {}
    BY <1>1, <1>2, <1>6, <2>1
  <2>2. ASSUME NEW m \in Members, ChosenAt(t) = {m}
        PROVE  ChosenMembers' = ChosenMembers \/ ChosenMembers' = ChosenMembers \ {m}
    BY <1>1, <1>2, <1>6, <2>2
  <2> QED BY <1>3, <2>1, <2>2
<1> QED BY <1>4, <1>5, <1>6

\* The shift of a removal that overlaps nothing takes out the entry at its index.
LEMMA ShiftLeaves ==
  ASSUME TypeInv, DistinctBelow(num_clients), NEW index \in Int, InPlace(index), clients' = Shifted(index),
         UNCHANGED num_clients, ~RemovalUnderWay, RemovalUnderWay'
  PROVE  Members' = Members \ {MemberAt(index)} /\ MemberAt(index) \in Members
<1>t. /\ num_clients \in Int /\ num_clients <= MaxSlot + 1 /\ MaxSlot \in Nat /\ Slot = (-MaxSlot)..MaxSlot
      /\ index \in Slot /\ 0 <= index /\ index < num_clients
  BY ChatAssumption DEF TypeInv, TypeOK, Sizes, Slot, InPlace
<1>1. Members = {MemberAt(k) : k \in {j \in Slot : 0 <= j /\ j < num_clients}}
  BY DEF Members, Settled
<1>2. Members' = {MemberAt(k)' : k \in {j \in Slot : 0 <= j /\ j < num_clients - 1}}
  BY DEF Members, Settled
<1>3. ASSUME NEW k \in Slot, 0 <= k, k < num_clients - 1
      PROVE  MemberAt(k)' = IF index <= k THEN MemberAt(k + 1) ELSE MemberAt(k)
  BY <1>3, <1>t DEF Shifted, MemberAt
<1>4. ASSUME NEW j \in Slot, 0 <= j, j < num_clients, j # index
      PROVE  MemberAt(j) # MemberAt(index)
  <2>1. clients[j].name # clients[index].name
    BY <1>t, <1>4 DEF DistinctBelow
  <2>2. MemberAt(j).name # MemberAt(index).name
    BY <2>1 DEF MemberAt
  <2> QED BY <2>2
<1>5. ASSUME NEW m \in Members' PROVE m \in Members \ {MemberAt(index)}
  <2>1. PICK k \in Slot : 0 <= k /\ k < num_clients - 1 /\ m = MemberAt(k)'
    BY <1>2
  <2>2. PICK j \in Slot : 0 <= j /\ j < num_clients /\ j # index /\ m = MemberAt(j)
    <3>1. CASE index <= k
      <4>1. k + 1 \in Slot /\ 0 <= k + 1 /\ k + 1 < num_clients /\ k + 1 # index /\ m = MemberAt(k + 1)
        BY <1>3, <1>t, <2>1, <3>1
      <4> QED BY <4>1
    <3>2. CASE ~(index <= k)
      <4>1. k < num_clients /\ k # index /\ m = MemberAt(k)
        BY <1>3, <1>t, <2>1, <3>2
      <4> QED BY <4>1, <2>1
    <3> QED BY <3>1, <3>2
  <2> QED BY <1>1, <1>4, <2>2
<1>6. ASSUME NEW m \in Members \ {MemberAt(index)} PROVE m \in Members'
  <2>1. PICK j \in Slot : 0 <= j /\ j < num_clients /\ m = MemberAt(j)
    BY <1>1
  <2>2. j # index
    BY <1>6, <2>1
  <2>3. CASE j < index
    <3>1. j < num_clients - 1 /\ MemberAt(j)' = m
      BY <1>3, <1>t, <2>1, <2>3
    <3> QED BY <1>2, <2>1, <3>1
  <2>4. CASE j > index
    <3> DEFINE k == j - 1
    <3>1. k \in Slot /\ 0 <= k /\ k < num_clients - 1 /\ index <= k /\ k + 1 = j
      BY <1>t, <2>1, <2>4
    <3>2. MemberAt(k)' = m
      BY <1>3, <2>1, <3>1
    <3> QED BY <1>2, <3>1, <3>2
  <2> QED BY <1>t, <2>2, <2>3, <2>4
<1>7. MemberAt(index) \in Members
  BY <1>1, <1>t
<1> QED BY <1>5, <1>6, <1>7

RollMove ==
  \/ Members' = Members /\ ChosenMembers' = ChosenMembers
  \/ \E m \in Member : m \in Members /\ Members' = Members /\ ChosenMembers' = ChosenMembers \cup {m}
  \/ \E m \in Member : Members' = Members /\ ChosenMembers' = ChosenMembers \ {m}
  \/ \E m \in Member : /\ m \in ChosenMembers
                       /\ Members' = Members \ {m} /\ ChosenMembers' = ChosenMembers \ {m}
  \/ \E m \in Member : /\ \A other \in Members : other.name # m.name
                       /\ Members' = Members \cup {m} /\ ChosenMembers' = ChosenMembers

LEMMA MoveOfRegistry == ASSUME InOrder, InOrder', RollMove PROVE [Roll!Next]_(Roll!vars)
<1>1. CASE Members' = Members /\ ChosenMembers' = ChosenMembers
  BY <1>1 DEF Roll!vars
<1>2. ASSUME NEW m \in Member, m \in Members, Members' = Members, ChosenMembers' = ChosenMembers \cup {m}
      PROVE  Roll!Next
  BY <1>2 DEF Roll!Next, Roll!Choose
<1>3. ASSUME NEW m \in Member, Members' = Members, ChosenMembers' = ChosenMembers \ {m} PROVE Roll!Next
  BY <1>3 DEF Roll!Next, Roll!Spare
<1>4. ASSUME NEW m \in Member, m \in ChosenMembers, Members' = Members \ {m},
             ChosenMembers' = ChosenMembers \ {m}
      PROVE  Roll!Next
  BY <1>4 DEF Roll!Next, Roll!Leave
<1>5. ASSUME NEW m \in Member, \A other \in Members : other.name # m.name, Members' = Members \cup {m},
             ChosenMembers' = ChosenMembers
      PROVE  Roll!Next
  BY <1>5 DEF Roll!Next, Roll!Join
<1> QED BY <1>1, <1>2, <1>3, <1>4, <1>5 DEF RollMove

LEMMA DisorderOfRegistry == ASSUME ~InOrder' PROVE [Roll!Next]_(Roll!vars)
<1>1. InOrder \in BOOLEAN /\ InOrder' = FALSE
  BY DEF InOrder, Up, At
<1>2. CASE InOrder
  <2>1. Roll!Disorder
    BY <1>1 DEF Roll!Disorder
  <2> QED BY <1>2, <2>1 DEF Roll!Next
<1>3. CASE ~InOrder
  <2>1. InOrder' = InOrder
    BY <1>1, <1>3
  <2> QED BY <1>1, <1>3, <2>1 DEF Roll!vars
<1> QED BY <1>2, <1>3

\* Steps that change no member and nobody's choice but that of t.
LEMMA QuietMove ==
  ASSUME TypeInv, WrittenInv, Placed, NEW t \in Conn \cup {Checker},
         UNCHANGED num_clients, \A k \in Slot : MemberAt(k)' = MemberAt(k),
         \A x \in Conn \cup {Checker} : At(x, "removed")' <=> At(x, "removed"),
         \A x \in (Conn \cup {Checker}) \ {t} :
           (Chosen(x)' <=> Chosen(x)) /\ (Chosen(x) => Place(x)' = Place(x)),
         ~Chosen(t) \/ ~Chosen(t)' \/ Place(t)' = Place(t)
  PROVE  RollMove
<1>1. RemovalUnderWay' <=> RemovalUnderWay
  BY DEF RemovalUnderWay
<1>2. Members' = Members
  BY <1>1, SameMembers
<1>3. Members \subseteq Member
  BY MembersTyped
<1>4. ASSUME NEW x \in Conn \cup {Checker}, Chosen(x), Chosen(x)', Place(x)' = Place(x)
      PROVE  ChosenAt(x)' = ChosenAt(x)
  <2>1. InPlace(Place(x))
    BY <1>4 DEF Placed
  <2>2. MemberAt(Place(x))' = MemberAt(Place(x))
    <3>1. PICK k \in Slot : k = Place(x)
      BY <2>1 DEF InPlace
    <3>2. MemberAt(k)' = MemberAt(k)
      OBVIOUS
    <3> QED BY <1>4, <3>1, <3>2 DEF MemberAt
  <2> QED BY <1>2, <1>4, <2>2 DEF ChosenAt
<1>5. \A x \in Conn \cup {Checker} : /\ ~Chosen(x) => ChosenAt(x) = {}
                                     /\ ~Chosen(x)' => ChosenAt(x)' = {}
  BY DEF ChosenAt
<1>6. \A x \in (Conn \cup {Checker}) \ {t} : ChosenAt(x)' = ChosenAt(x)
  <2> SUFFICES ASSUME NEW x \in (Conn \cup {Checker}) \ {t} PROVE ChosenAt(x)' = ChosenAt(x)
    OBVIOUS
  <2> QED BY <1>4, <1>5
<1>7. ChosenAt(t) = {} \/ ChosenAt(t)' = {} \/ ChosenAt(t)' = ChosenAt(t)
  BY <1>4, <1>5
<1>8. \/ ChosenMembers' = ChosenMembers
      \/ \E m \in Member : m \in Members /\ ChosenMembers' = ChosenMembers \cup {m}
      \/ \E m \in Member : ChosenMembers' = ChosenMembers \ {m}
  BY <1>2, <1>3, <1>6, <1>7, OneChooses
<1> QED BY <1>2, <1>8 DEF RollMove

LEMMA ShiftMove ==
  ASSUME TypeInv, WrittenInv, Orderly, Placed, NEW x \in Conn \cup {Checker}, Chosen(x), ~At(x, "removed"),
         Goto(x, "removed"), clients' = Shifted(Place(x)), NotedRemoval(x), history' # "raced",
         UNCHANGED <<num_clients, ret>>
  PROVE  RollMove
<1> USE Threads DEF At, Goto
<1>1. /\ pc' = [pc EXCEPT ![x] = "removed"] /\ pc \in [Thread -> Pc] /\ Slot \subseteq Int
      /\ \A y \in (Conn \cup {Checker}) \ {x} : ~Chosen(y) /\ pc[y] # "removed"
  BY NoOtherChosen DEF TypeInv, TypeOK, Slot
<1>2. ~RemovalUnderWay /\ RemovalUnderWay'
  BY <1>1 DEF RemovalUnderWay
<1>3. InPlace(Place(x)) /\ Place(x) \in Int
  BY <1>1 DEF Placed, InPlace
<1>4. DistinctBelow(num_clients)
  BY <1>2 DEF Orderly, Settled
<1> DEFINE m == MemberAt(Place(x))
<1>5. Members' = Members \ {m} /\ m \in Members
  BY <1>2, <1>3, <1>4, ShiftLeaves
<1>6. ChosenMembers = {m}
  BY <1>1, <1>5 DEF ChosenMembers
<1>7. \A y \in Conn \cup {Checker} : ~Chosen(y)'
  BY <1>1 DEF Chosen, HalfRemoved
<1>8. ChosenMembers' = {}
  BY <1>7 DEF ChosenMembers
<1>9. m \in Member
  BY <1>5, MembersTyped
<1> HIDE DEF m
<1> QED BY <1>5, <1>6, <1>8, <1>9 DEF RollMove

LEMMA UncountMove ==
  ASSUME TypeInv, Orderly, Placed, NEW x \in Conn \cup {Checker}, At(x, "removed"),
         NEW p \in {"close", "sweep"}, Goto(x, p), num_clients' = reg[x] - 1, NotedRemoval(x),
         history' # "raced", UNCHANGED <<clients, ret>>
  PROVE  RollMove
<1> USE Threads DEF At, Goto
<1>1. /\ pc' = [pc EXCEPT ![x] = p] /\ pc \in [Thread -> Pc]
      /\ \A y \in (Conn \cup {Checker}) \ {x} : ~Chosen(y) /\ pc[y] # "removed"
  BY NoOtherChosen DEF TypeInv, TypeOK
<1>2. RemovalUnderWay /\ ~RemovalUnderWay' /\ num_clients' = num_clients - 1
  BY <1>1 DEF Orderly, RemovalLoaded, RemovalUnderWay
<1>3. Settled' = Settled
  BY <1>2 DEF Settled
<1>4. Members' = Members
  BY <1>3 DEF Members, MemberAt
<1>5. \A y \in Conn \cup {Checker} : ~Chosen(y) /\ ~Chosen(y)'
  BY <1>1 DEF Chosen, HalfRemoved
<1>6. ChosenMembers = {} /\ ChosenMembers' = {}
  BY <1>5 DEF ChosenMembers
<1> QED BY <1>4, <1>6 DEF RollMove

\* The entry that is counted is the one that was written, under the name that was scanned.
LEMMA CountMove ==
  ASSUME TypeInv, WrittenInv, Orderly, Placed, NEW t \in Conn, CountEntry(t)
  PROVE  RollMove
<1> USE Threads DEF At, Goto
<1>1. /\ pc[t] = "count" /\ pc' = [pc EXCEPT ![t] = "list"] /\ pc \in [Thread -> Pc] /\ i' = i
      /\ clients' = clients /\ reg' = [reg EXCEPT ![t] = 0] /\ ret' = [ret EXCEPT ![t] = "lock_all"]
      /\ reg \in [Thread -> Int] /\ ret \in [Conn -> {"lock_all", "recv", "remove"}]
      /\ num_clients \in Slot /\ Slot \subseteq Int /\ 0 <= num_clients
  BY DEF CountEntry, TypeInv, TypeOK, Slot, Orderly, EntryWritten, Placed
<1>2. /\ num_clients' = num_clients + 1 /\ ~RemovalUnderWay /\ reg[t] = num_clients
      /\ clients[num_clients].name = username[t]
  BY <1>1 DEF CountEntry, Orderly, EntryWritten
<1>3. ~RemovalUnderWay'
  BY <1>1, <1>2 DEF RemovalUnderWay
<1> DEFINE m == MemberAt(num_clients)
<1>4. Members = {MemberAt(k) : k \in {j \in Slot : 0 <= j /\ j < num_clients}}
  BY <1>2 DEF Members, Settled
<1>5. Members' = {MemberAt(k) : k \in {j \in Slot : 0 <= j /\ j < num_clients + 1}}
  BY <1>1, <1>2, <1>3 DEF Members, Settled, MemberAt
<1>6. Members' = Members \cup {m}
  <2>1. \A j \in Slot : 0 <= j /\ j < num_clients + 1 <=> (0 <= j /\ j < num_clients) \/ j = num_clients
    BY <1>1
  <2> HIDE DEF m
  <2>2. ASSUME NEW e \in Members' PROVE e \in Members \cup {m}
    <3>1. PICK k \in Slot : 0 <= k /\ k < num_clients + 1 /\ e = MemberAt(k)
      BY <1>5
    <3> QED BY <1>4, <2>1, <3>1 DEF m
  <2>3. ASSUME NEW e \in Members \cup {m} PROVE e \in Members'
    <3>1. PICK k \in Slot : ((0 <= k /\ k < num_clients) \/ k = num_clients) /\ e = MemberAt(k)
      BY <1>1, <1>4 DEF m
    <3> QED BY <1>5, <2>1, <3>1
  <2> QED BY <2>2, <2>3
<1>7. m \in Member
  <2>1. Written(num_clients + 1)
    BY <1>1, <1>2 DEF WrittenInv
  <2> QED BY <1>1, <2>1 DEF Written
<1>8. \A other \in Members : other.name # m.name
  <2>1. \A k \in Slot : 0 <= k /\ k < num_clients => clients[k].name # clients[num_clients].name
    BY <1>1, <1>2 DEF Orderly, ScanStillTrue, Registered
  <2> QED BY <1>4, <2>1 DEF MemberAt
<1>9. \A x \in Conn \cup {Checker} : (Chosen(x)' <=> Chosen(x)) /\ (Chosen(x) => Place(x)' = Place(x))
  BY <1>1 DEF Chosen, HalfRemoved, Place
<1>10. \A x \in Conn \cup {Checker} : Chosen(x) => MemberAt(Place(x)) \in Members
  BY <1>4 DEF Placed, InPlace
<1>11. ChosenMembers' = ChosenMembers
  <2>1. ChosenMembers' = Members' \cap {MemberAt(Place(x))' : x \in {y \in Conn \cup {Checker} : Chosen(y)'}}
    BY DEF ChosenMembers
  <2>2. {MemberAt(Place(x))' : x \in {y \in Conn \cup {Checker} : Chosen(y)'}}
          = {MemberAt(Place(x)) : x \in {y \in Conn \cup {Checker} : Chosen(y)}}
    BY <1>1, <1>9 DEF MemberAt
  <2> QED BY <1>6, <1>10, <2>1, <2>2 DEF ChosenMembers
<1> HIDE DEF m
<1> QED BY <1>6, <1>7, <1>8, <1>11 DEF RollMove

\* An entry that is only written is nobody's yet.
LEMMA WriteMove ==
  ASSUME TypeInv, WrittenInv, Placed, NEW t \in Conn, WriteEntry(t)
  PROVE  RollMove
<1> USE Threads DEF At, Goto
<1>1. /\ pc[t] = "write" /\ pc' = [pc EXCEPT ![t] = "count"] /\ pc \in [Thread -> Pc] /\ i' = i /\ ret' = ret
      /\ reg' = [reg EXCEPT ![t] = num_clients] /\ num_clients' = num_clients /\ num_clients \in Slot
      /\ Slot \subseteq Int /\ \A k \in Slot \ {num_clients} : clients'[k] = clients[k]
  BY DEF WriteEntry, TypeInv, TypeOK, Slot, call
<1>2. \A k \in Slot : k < num_clients => MemberAt(k)' = MemberAt(k)
  BY <1>1 DEF MemberAt
<1>3. Members' = Members
  <2>1. RemovalUnderWay' <=> RemovalUnderWay
    BY <1>1 DEF RemovalUnderWay
  <2>2. \A k \in Slot : k < Settled => k < num_clients
    BY <1>1 DEF Settled
  <2> QED BY <1>1, <1>2, <2>1, <2>2, SameMembers
<1>4. \A x \in Conn \cup {Checker} : (Chosen(x)' <=> Chosen(x)) /\ (Chosen(x) => Place(x)' = Place(x))
  BY <1>1 DEF Chosen, HalfRemoved, Place
<1>5. ASSUME NEW x \in Conn \cup {Checker}, Chosen(x) PROVE MemberAt(Place(x))' = MemberAt(Place(x))
  <2>1. PICK k \in Slot : k = Place(x) /\ k < num_clients
    BY <1>5 DEF Placed, InPlace
  <2>2. MemberAt(k)' = MemberAt(k) /\ Place(x)' = Place(x)
    BY <1>2, <1>4, <1>5, <2>1
  <2> QED BY <2>1, <2>2 DEF MemberAt
<1>6. ChosenMembers' = ChosenMembers
  <2>1. ChosenMembers' = Members' \cap {MemberAt(Place(x))' : x \in {y \in Conn \cup {Checker} : Chosen(y)'}}
    BY DEF ChosenMembers
  <2>2. {MemberAt(Place(x))' : x \in {y \in Conn \cup {Checker} : Chosen(y)'}}
          = {MemberAt(Place(x)) : x \in {y \in Conn \cup {Checker} : Chosen(y)}}
    BY <1>4, <1>5
  <2> QED BY <1>3, <2>1, <2>2 DEF ChosenMembers
<1> QED BY <1>3, <1>6 DEF RollMove

\* The members stay in order until a removal overlaps another update.
LEMMA OrderNext == [Next]_vars /\ InOrder' => InOrder
<1> SUFFICES ASSUME [Next]_vars, InOrder' PROVE InOrder
  OBVIOUS
<1>1. CASE UNCHANGED vars
  BY <1>1 DEF vars, registry, InOrder, Up, At
<1>2. CASE Exit
  BY <1>2, Threads DEF Exit, AllAt, InOrder, Up, At
<1>3. ASSUME NEW t \in Conn,
             \/ ThreadStep(t) \/ LockStep(t) \/ ReceiveStep(t) \/ Hangup(t)
      PROVE  history' \in {history, "raced"}
  <2>1. CASE WriteEntry(t) \/ CountEntry(t) \/ Shift(t) \/ Uncount(t)
    BY <2>1 DEF WriteEntry, CountEntry, Shift, Uncount, NotedInsertion, NotedRemoval
  <2>2. CASE ReceiveStep(t)
    BY <2>2 DEF ReceiveStep, RecvName, Recv, registry
  <2>3. CASE \/ Start(t) \/ Await(t) \/ RecvEnd(t) \/ Drop(t) \/ Dropped(t) \/ Rejected(t) \/ SendUserList(t)
             \/ SendNext(t) \/ UnlockAll(t) \/ CloseAfterBye(t) \/ Die(t) \/ LockStep(t) \/ Hangup(t)
             \/ Stamp(t) \/ Bye(t)
    BY <2>3 DEF Start, Await, RecvEnd, Drop, Dropped, Rejected, SendUserList, SendNext, UnlockAll,
       CloseAfterBye, Die, Stamp, Bye, LockStep, LockAndScan, LockAll, Hangup, registry
  <2> QED BY <1>3, <2>1, <2>2, <2>3 DEF ThreadStep
<1>4. CASE Accept \/ MainStep \/ CheckerStep \/ Tick
  <2>1. history' \in {history, "raced"}
    <3>1. CASE ShiftTimedOut \/ UncountTimedOut
      BY <3>1 DEF ShiftTimedOut, UncountTimedOut, NotedRemoval
    <3>2. CASE \/ Accept \/ MainStep \/ Tick \/ LockSweep \/ KeepClient \/ Condemn \/ CloseTimedOut \/ CancelTimedOut
               \/ UnlockSweep
      BY <3>2 DEF Accept, MainStep, Refuse, Admit, LoadActive, StoreActive, CreateThread, Tick, LockSweep,
         KeepClient, Condemn, CloseTimedOut, CancelTimedOut, UnlockSweep, registry
    <3> QED BY <1>4, <3>1, <3>2 DEF CheckerStep
  <2>2. CASE Up
    BY <2>1, <2>2 DEF InOrder
  <2> QED BY <1>1, <2>2 DEF Next
<1> QED BY <1>1, <1>2, <1>3, <1>4 DEF Next, InOrder

\* Whose step it is decides who may be chosen or spared by it.
LEMMA OwnMove ==
  ASSUME TypeInv, WrittenInv, Placed, NEW t \in Conn \cup {Checker},
         UNCHANGED num_clients, \A k \in Slot : MemberAt(k)' = MemberAt(k),
         \A x \in (Conn \cup {Checker}) \ {t} : pc'[x] = pc[x] /\ reg'[x] = reg[x],
         \A x \in Conn \ {t} : ret'[x] = ret[x], t = Checker \/ i'[Checker] = i[Checker],
         pc[t] # "removed" /\ pc'[t] # "removed",
         ~Chosen(t) \/ ~Chosen(t)' \/ Place(t)' = Place(t)
  PROVE  RollMove
<1>1. \A x \in (Conn \cup {Checker}) \ {t} : (Chosen(x)' <=> Chosen(x)) /\ Place(x)' = Place(x)
  BY DEF Chosen, HalfRemoved, Place, At
<1>2. \A x \in Conn \cup {Checker} : At(x, "removed")' <=> At(x, "removed")
  BY DEF At
<1> QED BY <1>1, <1>2, QuietMove

LEMMA MemberStep ==
  ASSUME TypeInv, Unstarted, WrittenInv, Orderly, Placed, ReturnsToRemoval,
         InOrder', [Next]_vars
  PROVE  RollMove
<1> USE Threads DEF At, Goto, End
<1>t. /\ pc \in [Thread -> Pc] /\ ret \in [Conn -> {"lock_all", "recv", "remove"}]
      /\ reg \in [Thread -> Int] /\ i \in [Thread -> Int] /\ num_clients \in Int /\ clients \in [Slot -> Entry]
      /\ pc[Main] \in {"admit", "load", "store", "create"} => conn \in Conn /\ pc[conn] = "none"
      /\ history' # "raced"
  BY DEF TypeInv, TypeOK, Sizes, Unstarted, InOrder
<1>1. CASE UNCHANGED vars \/ Tick \/ \E t \in Conn : Hangup(t)
  <2>1. UNCHANGED <<num_clients, clients, pc, i, reg, ret>>
    BY <1>1 DEF vars, Tick, Hangup, registry, call
  <2>2. \A k \in Slot : MemberAt(k)' = MemberAt(k)
    BY <2>1 DEF MemberAt
  <2>3. \A x \in Conn \cup {Checker} : (Chosen(x)' <=> Chosen(x)) /\ Place(x)' = Place(x)
    BY <2>1 DEF Chosen, HalfRemoved, Place
  <2> QED BY <2>1, <2>2, <2>3, QuietMove
<1>2. CASE Accept \/ MainStep
  <2>1. UNCHANGED <<num_clients, clients, i, ret>>
    BY <1>2 DEF Accept, MainStep, Refuse, Admit, LoadActive, StoreActive, CreateThread, registry, call
  <2>2. \A x \in Conn \cup {Checker} : reg'[x] = reg[x] /\ (pc'[x] = pc[x] \/ (pc[x] = "none" /\ pc'[x] = "start"))
    <3>1. CASE CreateThread
      <4>1. /\ reg' = reg /\ conn \in Conn /\ pc[conn] = "none"
            /\ pc' = [pc EXCEPT ![Main] = "accept", ![conn] = "start"]
        BY <3>1, <1>t DEF CreateThread
      <4> QED BY <4>1, <1>t
    <3>2. CASE Accept \/ Refuse \/ Admit \/ LoadActive \/ StoreActive
      <4>1. \A x \in Conn \cup {Checker} : reg'[x] = reg[x]
        BY <3>2, <1>t DEF Accept, Refuse, Admit, LoadActive, StoreActive
      <4>2. \A x \in Conn \cup {Checker} : pc'[x] = pc[x]
        BY <3>2, <1>t DEF Accept, Refuse, Admit, LoadActive, StoreActive
      <4> QED BY <4>1, <4>2
    <3> QED BY <1>2, <3>1, <3>2 DEF MainStep
  <2>3. \A k \in Slot : MemberAt(k)' = MemberAt(k)
    BY <2>1 DEF MemberAt
  <2>4. \A x \in Conn \cup {Checker} : (Chosen(x)' <=> Chosen(x)) /\ Place(x)' = Place(x)
    BY <2>1, <2>2 DEF Chosen, HalfRemoved, Place
  <2> QED BY <2>1, <2>2, <2>3, <2>4, QuietMove
<1>3. CASE ShiftTimedOut
  <2>1. Chosen(Checker) /\ Place(Checker) = i[Checker]
    BY <1>3 DEF ShiftTimedOut, Chosen, Place
  <2> QED BY <1>3, <2>1, <1>t, ShiftMove DEF ShiftTimedOut, call
<1>4. CASE UncountTimedOut
  BY <1>4, <1>t, UncountMove DEF UncountTimedOut
<1>5. CASE LockSweep \/ UnlockSweep \/ KeepClient \/ Condemn \/ CloseTimedOut \/ CancelTimedOut
  <2>1. /\ UNCHANGED <<num_clients, clients, ret>>
        /\ \A x \in Conn : reg'[x] = reg[x] /\ pc'[x] = pc[x]
        /\ pc'[Checker] # "removed" /\ pc[Checker] # "removed"
    BY <1>5, <1>t DEF LockSweep, UnlockSweep, KeepClient, Condemn, CloseTimedOut, CancelTimedOut, Sweeping,
       registry, call
  <2>2. pc[Checker] \in {"notify", "closed", "cancelled"} => i' = i
    BY <1>5, <1>t DEF LockSweep, UnlockSweep, KeepClient, Condemn, CloseTimedOut, CancelTimedOut, Sweeping, call
  <2>3. ~Chosen(Checker) \/ Place(Checker)' = Place(Checker)
    BY <2>2 DEF Chosen, Place
  <2>4. \A k \in Slot : MemberAt(k)' = MemberAt(k)
    BY <2>1 DEF MemberAt
  <2> QED BY <2>1, <2>3, <2>4, OwnMove
<1>6. CASE Exit
  BY <1>6 DEF Exit, AllAt, InOrder, Up
<1>7. ASSUME NEW t \in Conn, Shift(t) PROVE RollMove
  <2>1. Chosen(t) /\ Place(t) = reg[t]
    BY <1>7 DEF Shift, Chosen, HalfRemoved, Place
  <2> QED BY <1>7, <2>1, <1>t, ShiftMove DEF Shift, call
<1>8. ASSUME NEW t \in Conn, Uncount(t) PROVE RollMove
  BY <1>8, <1>t, UncountMove DEF Uncount, call
<1>9. ASSUME NEW t \in Conn, CountEntry(t) PROVE RollMove
  BY <1>9, CountMove
<1>10. ASSUME NEW t \in Conn, WriteEntry(t) PROVE RollMove
  BY <1>10, WriteMove
<1>11. ASSUME NEW t \in Conn, Stamp(t) PROVE RollMove
  <2>1. /\ UNCHANGED <<num_clients, i>> /\ pc[t] = "stamp" /\ Renewed(t)
        /\ \A x \in (Conn \cup {Checker}) \ {t} : pc'[x] = pc[x] /\ reg'[x] = reg[x]
        /\ \A s \in Conn \ {t} : ret'[s] = ret[s]
        /\ pc'[t] \in {"list", "lock_all", "bye"}
    BY <1>11, <1>t DEF Stamp, call
  <2>2. ~Chosen(t)
    BY <2>1 DEF Chosen, HalfRemoved
  <2>3. \A k \in Slot : MemberAt(k)' = MemberAt(k)
    BY <1>t, <2>1, StampKeepsMembers
  <2> QED BY <2>1, <2>2, <2>3, OwnMove
<1>12. ASSUME NEW t \in Conn, LockAll(t) \/ SendNext(t) \/ UnlockAll(t) PROVE RollMove
  <2>1. /\ UNCHANGED <<num_clients, clients, reg>> /\ i'[Checker] = i[Checker]
        /\ \A x \in (Conn \cup {Checker}) \ {t} : pc'[x] = pc[x]
        /\ \A s \in Conn \ {t} : ret'[s] = ret[s]
    BY <1>12, <1>t DEF LockAll, SendNext, UnlockAll, registry, call
  <2>2. pc[t] \in {"lock_all", "send_all"} /\ pc'[t] # "removed"
    BY <1>12, <1>t DEF LockAll, SendNext, UnlockAll
  <2>3. Place(t)' = Place(t)
    BY <2>1 DEF Place
  <2>4. \A k \in Slot : MemberAt(k)' = MemberAt(k)
    BY <2>1 DEF MemberAt
  <2> QED BY <2>1, <2>2, <2>3, <2>4, OwnMove
<1>13. ASSUME NEW t \in Conn,
              \/ LockAndScan(t) \/ RecvName(t) \/ Start(t) \/ Await(t) \/ RecvEnd(t) \/ SendUserList(t)
              \/ Drop(t) \/ Dropped(t) \/ Rejected(t) \/ CloseAfterBye(t) \/ Recv(t) \/ Bye(t)
       PROVE  RollMove
  <2>1. UNCHANGED <<num_clients, clients>> /\ i'[Checker] = i[Checker]
    BY <1>13, <1>t DEF LockAndScan, RecvName, Start, Await, RecvEnd, SendUserList, Drop, Dropped,
       Rejected, CloseAfterBye, Recv, Bye, registry, call
  <2>2. \A x \in (Conn \cup {Checker}) \ {t} : reg'[x] = reg[x] /\ pc'[x] = pc[x]
    BY <1>13, <1>t DEF LockAndScan, RecvName, Start, Await, RecvEnd, SendUserList, Drop, Dropped,
       Rejected, CloseAfterBye, Recv, Bye
  <2>3. \A s \in Conn \ {t} : ret'[s] = ret[s]
    BY <1>13, <1>t DEF LockAndScan, RecvName, Start, Await, RecvEnd, SendUserList, Drop, Dropped,
       Rejected, CloseAfterBye, Recv, Bye, call
  <2>4. pc[t] \notin {"remove", "removed", "lock_all", "send_all"} /\ pc'[t] # "removed"
    BY <1>13, <1>t DEF LockAndScan, RecvName, Start, Await, RecvEnd, SendUserList, Drop, Dropped,
       Rejected, CloseAfterBye, Recv, Bye, AtCall
  <2>5. ~Chosen(t)
    BY <2>4 DEF Chosen, HalfRemoved
  <2>6. \A k \in Slot : MemberAt(k)' = MemberAt(k)
    BY <2>1 DEF MemberAt
  <2> QED BY <2>1, <2>2, <2>3, <2>4, <2>5, <2>6, OwnMove
<1>14. ASSUME NEW t \in Conn, Die(t) PROVE RollMove
  <2>1. /\ UNCHANGED <<num_clients, clients>> /\ i'[Checker] = i[Checker]
        /\ \A x \in (Conn \cup {Checker}) \ {t} : reg'[x] = reg[x] /\ pc'[x] = pc[x]
        /\ \A s \in Conn \ {t} : ret'[s] = ret[s]
        /\ pc[t] # "removed" /\ pc'[t] = "cancelled"
    BY <1>14, <1>t DEF Die, registry
  <2>2. ~Chosen(t)'
    BY <2>1 DEF Chosen, HalfRemoved
  <2>3. \A k \in Slot : MemberAt(k)' = MemberAt(k)
    BY <2>1 DEF MemberAt
  <2> QED BY <2>1, <2>2, <2>3, OwnMove
<1> QED
  BY <1>1, <1>2, <1>3, <1>4, <1>5, <1>6, <1>7, <1>8, <1>9, <1>10, <1>11, <1>12, <1>13, <1>14
     DEF Next, CheckerStep, ThreadStep, LockStep, ReceiveStep

LEMMA RollNext ==
  TypeInv /\ Unstarted /\ WrittenInv /\ UniqueInv /\ PlaceInv /\ [Next]_vars
    => [Roll!Next]_(Roll!vars)
<1> SUFFICES ASSUME TypeInv, Unstarted, WrittenInv, UniqueInv, PlaceInv, [Next]_vars
             PROVE  [Roll!Next]_(Roll!vars)
  OBVIOUS
<1>1. CASE InOrder'
  <2>1. InOrder /\ history # "raced"
    BY <1>1, OrderNext DEF InOrder
  <2>2. Orderly /\ Placed /\ ReturnsToRemoval
    BY <2>1 DEF UniqueInv, PlaceInv
  <2>3. RollMove
    BY <1>1, <2>2, MemberStep
  <2> QED BY <1>1, <2>1, <2>3, MoveOfRegistry
<1> QED BY <1>1, DisorderOfRegistry

LEMMA RollInit == Init => Roll!Init
<1> SUFFICES ASSUME Init PROVE Roll!Init
  OBVIOUS
<1>1. num_clients = 0 /\ history = "orderly" /\ \A x \in Conn \cup {Checker} : pc[x] \in {"none", "lock"}
  BY Threads DEF Init, AllAt
<1>2. InOrder = TRUE
  BY Threads DEF Init, AllAt, InOrder, Up, At
<1>3. ~RemovalUnderWay
  BY <1>1 DEF RemovalUnderWay, At
<1>4. Members = {}
  BY <1>1, <1>3 DEF Members, Settled, Slot
<1>5. ChosenMembers = {}
  BY <1>4 DEF ChosenMembers
<1> QED BY <1>2, <1>4, <1>5 DEF Roll!Init

\* Although an index waits outside the lock, the shift and the count are two steps each, and
\* every thread updates the registry, what num_clients counts is a registry of members with
\* distinct names, and nobody leaves it but the one found to leave, until a removal outside
\* the lock overlaps another update.
THEOREM RegistryImplemented == Spec => ImplementsRegistry
<1> QED
  BY TypeInit, TypeNext, UnstartedInit, UnstartedNext, LockInit, LockNext, UniqueInit, UniqueNext, HandedInit,
     HandedNext, NamedInit, NamedNext, WrittenInit, WrittenNext, PlaceInit, PlaceNext, RollInit, RollNext,
     PTL DEF Spec, ImplementsRegistry, Roll!Spec
===============================================================================
