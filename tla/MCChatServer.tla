----------------------------- MODULE MCChatServer -----------------------------
(* Model-checking instances of ChatServer.                                   *)
EXTENDS ChatServerProps, TLC

Symmetry == Permutations(Conn) \cup Permutations(Name)

\* For liveness runs, where TLC cannot use symmetry: the first connection and the first name are
\* fixed. Only Accept and RecvName are restricted, to which no fairness applies.
AConn == CHOOSE c \in Conn : TRUE
AName == CHOOSE n \in Name : TRUE
FirstChoices ==
  /\ conn = None => conn' \in {None, AConn}
  /\ clients = NoClient /\ (\A t \in Conn : username[t] = None)
     => \A t \in Conn : username'[t] \in {None, AName}

\* For one scenario: main() waits with the next accept() until the last client has named itself or
\* left, so that the race over new_socket plays no part in what the run shows.
OrderlyStart == new_socket' # new_socket => \A t \in Conn : pc[t] \notin {"start", "prompt", "name"}
===============================================================================
