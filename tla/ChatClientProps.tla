--------------------------- MODULE ChatClientProps ----------------------------
(* What the chat client promises.                                            *)
EXTENDS ChatClient

\* Two threads read the user's lines and write them to one socket: they leave in the order in
\* which they were typed, none twice, and none is missing but the one that is about to be
\* sent, as long as the connection has not been reset.
InputInOrder ==
  /\ \A i \in 1..Len(sent) : sent[i] = i
  /\ \/ reset
     \/ typed = Len(sent)
     \/ typed = Len(sent) + 1 /\ \E x \in {Main, Outgoing} : pc[x] \in {"send_name", "send", "exited"}
                                                             /\ message[x] = typed

\* When main() leaves its loop, everything the server said before it closed has been shown,
\* the farewell included, although main() and the listener only share a flag; only a reset
\* can have destroyed some of it.
EndsAfterLastMessage == status = "success" => shown = said \/ reset

\* The client ends when the server has closed the connection, unless the compiler has made the
\* loop on chat_active endless: nothing but that flag tells main().
EndsWithConnection ==
  peer = "closed" /\ ~At(Incoming, "none") /\ ~hoisted ~> ~Running
===============================================================================
