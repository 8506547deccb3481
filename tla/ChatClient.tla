------------------------------ MODULE ChatClient ------------------------------
(***************************************************************************)
(* The chat client, final_submission/.../Q3/tcp_chat_client.c: main()       *)
(* connects, answers the prompt with a name, starts two listener threads   *)
(* and polls chat_active until the incoming listener has seen the end of   *)
(* the connection.                                                         *)
(*                                                                         *)
(* The server and the network are the environment: the server says things  *)
(* and closes when it likes. TCP keeps no message boundaries, so a read()  *)
(* returns any number of the messages that have arrived; once one side has *)
(* closed, a line that reaches it is answered with a reset, which may      *)
(* discard what the client has not read yet. The definitions named         *)
(* ...Forgotten, ...Early, ... are plausible bugs, used only to see that a  *)
(* property would notice them.                                             *)
(***************************************************************************)
EXTENDS Integers, Sequences

CONSTANTS
  MaxLines,      \* bound: lines the user types, empty ones not counted
  MaxMessages,   \* bound: messages the server sends
  Builds         \* whether the compiler has hoisted the unsynchronised read of chat_active
                 \* out of main()'s loop: a subset of BOOLEAN

ASSUME ClientAssumption ==
  /\ MaxLines \in Nat /\ MaxMessages \in Nat /\ Builds \subseteq BOOLEAN

VARIABLES
  pc, message,          \* of each thread: program counter, line in its buffer (0: empty)
  chat_active, status,  \* the shared flag; how the process ended
  hoisted,              \* this build reads chat_active only once
  typed, eof,           \* standard input: lines typed, whether it has ended
  sent,                 \* lines written to the socket
  peer, reset,          \* whether the server has closed, whether the client has been told so by a reset
  said, unread, shown   \* messages the server has sent; of these, not read yet, shown to the user

input == <<typed, eof>>
screen == <<unread, shown>>
network == <<peer, reset, said>>
vars == <<pc, message, chat_active, status, hoisted, input, sent, network, screen>>

Main == "main"
Incoming == "incoming"
Outgoing == "outgoing"
Thread == {Main, Incoming, Outgoing}
Pc == {"connect", "prompt", "name", "send_name", "set_up", "set_up_outgoing", "poll", "spin",
       "none", "read", "input", "send", "done", "exited"}

TypeOK ==
  /\ pc \in [Thread -> Pc] /\ message \in [Thread -> 0..MaxLines]
  /\ chat_active \in BOOLEAN /\ hoisted \in BOOLEAN
  /\ status \in {"running", "success", "failure", "killed"}
  /\ typed \in 0..MaxLines /\ eof \in BOOLEAN /\ sent \in Seq(1..MaxLines)
  /\ peer \in {"open", "closed"} /\ reset \in BOOLEAN
  /\ said \in 0..MaxMessages /\ unread \in 0..MaxMessages /\ shown \in 0..MaxMessages

Init ==
  /\ pc = [x \in Thread |-> IF x = Main THEN "connect" ELSE "none"]
  /\ message = [x \in Thread |-> 0]
  /\ chat_active = TRUE /\ status = "running" /\ hoisted \in Builds
  /\ typed = 0 /\ eof = FALSE /\ sent = <<>>
  /\ peer = "open" /\ reset = FALSE /\ said = 0 /\ unread = 0 /\ shown = 0

At(x, p) == pc[x] = p
Step(x, p, q) == pc[x] = p /\ pc' = [pc EXCEPT ![x] = q]
Running == status = "running"

End(how) ==
  /\ status' = how /\ pc' = [x \in Thread |-> "exited"]
  /\ UNCHANGED <<message, chat_active, hoisted, input, sent, network, screen>>

-------------------------------------------------------------------------------
(* The server and the network.                                               *)

Say ==
  /\ peer = "open" /\ ~At(Main, "connect") /\ said < MaxMessages
  /\ said' = said + 1 /\ unread' = unread + 1
  /\ UNCHANGED <<pc, message, chat_active, status, hoisted, input, sent, peer, reset, shown>>

CloseByServer ==
  /\ peer = "open" /\ ~At(Main, "connect") /\ peer' = "closed"
  /\ UNCHANGED <<pc, message, chat_active, status, hoisted, input, sent, reset, said, screen>>

\* The server closed with lines unread, or has been sent one since.
Reset ==
  /\ peer = "closed" /\ sent # <<>> /\ ~reset /\ reset' = TRUE
  /\ \E n \in 0..unread : unread' = n
  /\ UNCHANGED <<pc, message, chat_active, status, hoisted, input, sent, peer, said, shown>>

-------------------------------------------------------------------------------
(* Reading and writing.                                                      *)

KeptBuffer(x) == message[x]
EmptyBuffer(x) == 0

\* read_and_sanitize_user_input(): one fgets(), whose loop condition never holds. A line, an
\* empty one, or the end of the input, which leaves the buffer as it was.
ReadInput(x) ==
  \/ /\ ~eof /\ typed < MaxLines
     /\ typed' = typed + 1 /\ message' = [message EXCEPT ![x] = typed + 1] /\ UNCHANGED eof
  \/ /\ ~eof /\ message' = [message EXCEPT ![x] = 0] /\ UNCHANGED input
  \/ eof' = TRUE /\ message' = [message EXCEPT ![x] = EmptyBuffer(x)] /\ UNCHANGED typed

HasBytes(m) == m # 0

\* send(): nothing for an empty line; after a reset an error nobody looks at (or a signal, Kill).
Send(x) ==
  sent' = IF HasBytes(message[x]) /\ ~reset THEN Append(sent, message[x]) ELSE sent

Read ==
  \E n \in 1..unread : unread' = unread - n /\ shown' = shown + n

EndOfStreamEarly == peer = "closed"
EndOfStream == unread = 0 /\ peer = "closed"

-------------------------------------------------------------------------------
(* main()                                                                    *)

Connect ==
  /\ Step(Main, "connect", "prompt")
  /\ UNCHANGED <<message, chat_active, status, hoisted, input, sent, network, screen>>

ConnectFails == At(Main, "connect") /\ End("failure")

ReadPrompt ==
  /\ Step(Main, "prompt", "name") /\ Read
  /\ UNCHANGED <<message, chat_active, status, hoisted, input, sent, network>>

PromptFails == At(Main, "prompt") /\ EndOfStream /\ End("failure")

ReadName ==
  /\ Step(Main, "name", "send_name") /\ ReadInput(Main)
  /\ UNCHANGED <<chat_active, status, hoisted, sent, network, screen>>

SendName ==
  /\ Step(Main, "send_name", "set_up") /\ Send(Main)
  /\ message' = [message EXCEPT ![Main] = 0]
  /\ UNCHANGED <<chat_active, status, hoisted, input, network, screen>>

CreateListeners ==
  /\ \/ /\ At(Main, "set_up")
        /\ pc' = [pc EXCEPT ![Main] = "set_up_outgoing", ![Incoming] = "read"]
     \/ /\ At(Main, "set_up_outgoing")
        /\ pc' = [pc EXCEPT ![Main] = "poll", ![Outgoing] = "input"]
  /\ UNCHANGED <<message, chat_active, status, hoisted, input, sent, network, screen>>

CreateFails == pc[Main] \in {"set_up", "set_up_outgoing"} /\ End("failure")

\* while (chat_active); a build that reads the flag once never reads it again.
Poll == At(Main, "poll") /\ ~chat_active /\ End("success")

PollOnce ==
  /\ Step(Main, "poll", "spin") /\ hoisted /\ chat_active
  /\ UNCHANGED <<message, chat_active, status, hoisted, input, sent, network, screen>>

-------------------------------------------------------------------------------
(* The listeners.                                                            *)

\* handle_incoming_message(): only this thread changes chat_active, so that its own test of
\* it before a read() always succeeds.
Receive ==
  /\ At(Incoming, "read") /\ Read
  /\ UNCHANGED <<pc, message, chat_active, status, hoisted, input, sent, network>>

CloseChatForgotten == chat_active
CloseChat == FALSE

\* read() returns 0, or an error after a reset; set_close_chat(), whose mutex nobody else takes.
ReceiveEnd ==
  /\ Step(Incoming, "read", "done") /\ EndOfStream
  /\ chat_active' = CloseChat
  /\ UNCHANGED <<message, status, hoisted, input, sent, network, screen>>

\* handle_outgoing_message(); the buffer is empty before each line.
TypeLine ==
  /\ Step(Outgoing, "input", "send") /\ ReadInput(Outgoing)
  /\ UNCHANGED <<chat_active, status, hoisted, sent, network, screen>>

SendLine ==
  /\ Step(Outgoing, "send", "input") /\ Send(Outgoing)
  /\ UNCHANGED <<message, chat_active, status, hoisted, input, network, screen>>

\* SIGPIPE
Kill(x) == pc[x] \in {"send_name", "send"} /\ reset /\ End("killed")

-------------------------------------------------------------------------------
MainStep == \/ Connect \/ ConnectFails \/ ReadPrompt \/ PromptFails \/ SendName
            \/ CreateListeners \/ CreateFails \/ Poll \/ PollOnce
IncomingStep == Receive \/ ReceiveEnd
OutgoingStep == TypeLine \/ SendLine
Environment == Say \/ CloseByServer \/ Reset

Next ==
  /\ Running
  /\ \/ MainStep \/ ReadName \/ IncomingStep \/ OutgoingStep \/ Kill(Main) \/ Kill(Outgoing)
     \/ Environment

Spec == Init /\ [][Next]_vars

\* The threads run; the user need not type, nor the server say anything.
FairSpec == Spec /\ WF_vars(Running /\ MainStep) /\ WF_vars(Running /\ IncomingStep)
                 /\ WF_vars(Running /\ SendLine)
===============================================================================
