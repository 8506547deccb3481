--------------------------- MODULE ChatServerProps ----------------------------
(* What the chat server promises, and what its documentation says of it.     *)
EXTENDS ChatServer

Ended(t) == pc[t] \in {"done", "cancelled"}
Live == {t \in Conn : pc[t] # "none" /\ ~Ended(t) /\ t \notin cancelled}
DeadHolder == client_mutex \in Conn /\ At(client_mutex, "cancelled")
Critical(t) == pc[t] \in {"reject", "rejected", "write", "count", "send_all"}

\* client_mutex: a thread inside a locked section of the code owns it, nobody else
\* does, and no thread leaves handle_client with it unless it is cancelled.
LockDiscipline ==
  /\ \A t \in Conn : Critical(t) => client_mutex = t
  /\ ~At(Checker, "lock") <=> client_mutex = Checker
  /\ client_mutex \in Conn => Critical(client_mutex) \/ At(client_mutex, "cancelled")

\* Whatever increments and decrements of active_clients are lost or repeated, it
\* never passes MAX_CLIENTS: a late store never undoes the test before an increment.
CounterBounded == active_clients <= MAX_CLIENTS \/ active_clients <= 0

\* remove_client moves entries down and leaves the curr_client of their threads
\* alone: an index goes stale in one direction only, never below the entry.
IndexNotBelowEntry ==
  \A k \in Slot, t \in Conn : clients[k].thread_id = t /\ ~Ended(t) => k <= curr_client[t]

\* No two entries carry the same username, as long as no removal outside the lock
\* has overlapped an insertion, another removal or a send_to_all.
UniqueNames == \A j, k \in Registered : j # k => clients[j].name # clients[k].name
RemovalUnderWay == At(Checker, "removed") \/ \E t \in Conn : At(t, "removed")
UniqueUnlessRaced == history = "raced" \/ RemovalUnderWay \/ UniqueNames

\* The registry as members: what is in order until a removal outside the lock overlaps another
\* update, or the process ends; who is chosen for removal, and where, between the step that finds
\* its entry and the shift that takes it out.
InOrder == history = "orderly" /\ Up
Chosen(x) == IF x = Checker THEN pc[x] \in {"notify", "closed", "cancelled"}
                            ELSE HalfRemoved(x) /\ ~At(x, "removed")
Place(x) == IF x = Checker THEN i[x] ELSE reg[x]
\* Below this index the entries are settled: a removal under way has the last one twice.
Settled == IF RemovalUnderWay THEN num_clients - 1 ELSE num_clients

Member == [name : Name, socket : Fd, thread_id : Conn]
MemberAt(k) == [name |-> clients[k].name, socket |-> clients[k].socket, thread_id |-> clients[k].thread_id]
Members == {MemberAt(k) : k \in {j \in Slot : 0 <= j /\ j < Settled}}
ChosenMembers == Members \cap {MemberAt(Place(x)) : x \in {y \in Conn \cup {Checker} : Chosen(y)}}

Roll == INSTANCE Registry WITH
          members <- IF InOrder THEN Members ELSE {},
          chosen  <- IF InOrder THEN ChosenMembers ELSE {},
          orderly <- InOrder
\* clients[] and num_clients implement Registry: each registration adds one member under a fresh
\* name, and each removal takes out the very member that was found before, although the index
\* waits outside the lock and the shift and the count are two steps.
ImplementsRegistry == Roll!Spec

\* When send_to_all's loop ends it has reached every registered socket but the
\* sender's, as long as no removal outside the lock moved the entries meanwhile.
BroadcastComplete ==
  \A t \in Conn : At(t, "send_all") /\ ~MoreToSend(t) =>
    {clients[k].socket : k \in Registered} \subseteq sent[t] \cup {client_socket[t]}
BroadcastUnlessRaced == history = "raced" \/ BroadcastComplete

\* timeout_checker picks a client to disconnect only when the last message received from it is
\* older than the timeout, or has been received and not noted yet, as long as the entry is where
\* its thread's curr_client points.
Idle(t) == current_time - seen[t] > TIMEOUT_SECONDS
EntryServedBy(t) == clients[i[Checker]].thread_id = t /\ ~Ended(t)
TimingOut(t) == At(Checker, "sweep") /\ pc'[Checker] = "notify" /\ EntryServedBy(t)
OnlyIdleTimedOutInPlace ==
  [][\A t \in Conn : TimingOut(t) /\ i[Checker] = curr_client[t] => Idle(t) \/ At(t, "stamp")]_vars

\* Every client accepted has a thread of its own: no two threads share a descriptor.
OneThreadPerClient ==
  \A s, t \in Live : s # t /\ client_socket[s] # None => client_socket[s] # client_socket[t]

\* The checker sweeps again and again while the process lives, until a thread is cancelled while
\* it holds the mutex, or whoever holds it sends for ever to a client that does not read.
StuckHolder == DeadHolder \/ (client_mutex # None /\ Waits(client_mutex))
SweepsUnlessStuck == []<>(At(Checker, "sweep")) \/ <>~Up \/ <>[]StuckHolder

\* The entry of a client that stays silent past the timeout does not stay: it is removed or
\* refreshed, unless the process ends or the holder of the mutex is stuck for ever. A send that
\* returns late is no excuse.
OverdueAt(k) == k \in Registered /\ now - clients[k].last_active > TIMEOUT_SECONDS
SilentRemoved ==
  \/ \A k \in {j \in Slot : 0 <= j} : OverdueAt(k) ~> (~OverdueAt(k) \/ ~Up)
  \/ <>[]StuckHolder
===============================================================================
