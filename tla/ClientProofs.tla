----------------------------- MODULE ClientProofs -----------------------------
(* Safety of the chat client, for any number of lines and messages; and of   *)
(* the file transfer client, for names, files and buffers of any size and    *)
(* every way to cut the stream.                                              *)
EXTENDS ChatClientProps, FileTransferClientProps, SequenceTheorems, TLAPS

-------------------------------------------------------------------------------
(* The chat client.                                                          *)

LEMMA Threads == /\ Main \in Thread /\ Incoming \in Thread /\ Outgoing \in Thread
                 /\ Main # Incoming /\ Main # Outgoing /\ Incoming # Outgoing
                 /\ \A x \in Thread : x \in {Main, Incoming, Outgoing}
  BY DEF Thread, Main, Incoming, Outgoing

-------------------------------------------------------------------------------
(* The server's messages: what has been shown and what is still unread never *)
(* exceed what was said, and make it up as long as nothing was reset. The    *)
(* flag is cleared when nothing is left and nothing more can come.           *)

SaidInv ==
  /\ shown + unread <= said
  /\ ~reset => shown + unread = said
  /\ ~chat_active \/ status = "success" => unread = 0 /\ peer = "closed"
TypeInv == TypeOK /\ SaidInv

LEMMA TypeInit == Init => TypeInv
<1> SUFFICES ASSUME Init PROVE TypeInv
  OBVIOUS
<1>1. hoisted \in BOOLEAN
  BY ClientAssumption, Zenon DEF Init
<1>s. sent \in Seq(1..MaxLines)
  BY EmptySeq, Zenon DEF Init
<1>p. /\ pc \in [Thread -> Pc] /\ message \in [Thread -> 0..MaxLines] /\ typed \in 0..MaxLines
      /\ said \in 0..MaxMessages /\ unread \in 0..MaxMessages /\ shown \in 0..MaxMessages
  BY ClientAssumption, Threads DEF Init, Pc
<1>b. chat_active \in BOOLEAN /\ eof \in BOOLEAN /\ reset \in BOOLEAN
  BY Zenon DEF Init
<1>2. TypeOK
  BY <1>1, <1>s, <1>p, <1>b DEF Init, TypeOK
<1> QED BY <1>2 DEF Init, TypeInv, SaidInv

LEMMA SendType ==
  ASSUME TypeOK, NEW x \in Thread, Send(x)
  PROVE  sent' \in Seq(1..MaxLines)
<1>1. message[x] \in 0..MaxLines /\ sent \in Seq(1..MaxLines) /\ MaxLines \in Nat
  BY ClientAssumption DEF TypeOK
<1>2. CASE sent' = sent
  BY <1>1, <1>2
<1>3. CASE sent' = Append(sent, message[x]) /\ message[x] # 0
  <2>1. message[x] \in 1..MaxLines
    BY <1>1, <1>3
  <2> QED BY <1>1, <1>3, <2>1, AppendProperties
<1> QED BY <1>2, <1>3 DEF Send, HasBytes

LEMMA TypeNext == TypeInv /\ [Next]_vars => TypeInv'
<1> SUFFICES ASSUME TypeInv, [Next]_vars PROVE TypeInv'
  OBVIOUS
<1> USE Threads, ClientAssumption DEF TypeInv, TypeOK, SaidInv, Pc, At, Step
<1>1. CASE UNCHANGED vars
  BY <1>1 DEF vars, input, network, screen
<1> USE DEF input, network, screen
<1>2. CASE Say
  BY <1>2 DEF Say
<1>3. CASE CloseByServer
  BY <1>3 DEF CloseByServer
<1>4. CASE Reset
  BY <1>4 DEF Reset
<1>5. CASE Connect \/ PollOnce
  BY <1>5 DEF Connect, PollOnce
<1>6. CASE CreateListeners
  BY <1>6 DEF CreateListeners
<1>7. CASE ReadPrompt \/ Receive
  <2>1. PICK n \in 1..unread : unread' = unread - n /\ shown' = shown + n
    BY <1>7 DEF ReadPrompt, Receive, Read
  <2>2. /\ unread \in Nat /\ unread <= MaxMessages /\ shown \in Nat /\ said \in Nat /\ said <= MaxMessages
        /\ shown + unread <= said /\ MaxMessages \in Nat
    OBVIOUS
  <2>3. unread' \in 0..MaxMessages /\ shown' \in 0..MaxMessages /\ shown' + unread' = shown + unread
    BY <2>1, <2>2
  <2>4. /\ pc' \in [Thread -> Pc]
        /\ UNCHANGED <<message, chat_active, status, hoisted, input, sent, network>>
    BY <1>7 DEF ReadPrompt, Receive
  <2>5. chat_active /\ status # "success"
    BY <2>1, <2>2
  <2> QED BY <2>3, <2>4, <2>5
<1>8. CASE ReadName \/ TypeLine
  <2>1. PICK x \in Thread : /\ ReadInput(x) /\ \E q \in Pc : pc' = [pc EXCEPT ![x] = q]
                            /\ UNCHANGED <<chat_active, status, hoisted, sent, network, screen>>
    BY <1>8 DEF ReadName, TypeLine
  <2>2. typed' \in 0..MaxLines /\ eof' \in BOOLEAN /\ message' \in [Thread -> 0..MaxLines]
    <3>1. CASE ~eof /\ typed < MaxLines /\ typed' = typed + 1 /\ message' = [message EXCEPT ![x] = typed + 1]
               /\ UNCHANGED eof
      BY <3>1
    <3>2. CASE (UNCHANGED eof \/ eof' = TRUE) /\ UNCHANGED typed /\ message' = [message EXCEPT ![x] = 0]
      <4>1. eof \in BOOLEAN
        OBVIOUS
      <4>2. eof' \in BOOLEAN
        BY <3>2, <4>1, Zenon
      <4>3. typed' \in 0..MaxLines /\ message' \in [Thread -> 0..MaxLines]
        BY <3>2
      <4> QED BY <4>2, <4>3
    <3> QED BY <2>1, <3>1, <3>2 DEF ReadInput, EmptyBuffer
  <2> QED BY <2>1, <2>2
<1>9. CASE SendName
  <2>1. sent' \in Seq(1..MaxLines)
    BY <1>9, SendType DEF SendName
  <2> QED BY <1>9, <2>1 DEF SendName
<1>10. CASE SendLine
  <2>1. sent' \in Seq(1..MaxLines)
    BY <1>10, SendType DEF SendLine
  <2> QED BY <1>10, <2>1 DEF SendLine
<1>11. CASE ReceiveEnd
  BY <1>11 DEF ReceiveEnd, EndOfStream, CloseChat
<1>12. CASE Poll
  BY <1>12 DEF Poll, End
<1>13. ASSUME NEW how \in {"failure", "killed"}, End(how) PROVE TypeInv'
  BY <1>13 DEF End
<1> QED BY <1>1, <1>2, <1>3, <1>4, <1>5, <1>6, <1>7, <1>8, <1>9, <1>10, <1>11, <1>12, <1>13
        DEF Next, MainStep, IncomingStep, OutgoingStep, Environment, ConnectFails, PromptFails, CreateFails,
            Kill

\* Every variable keeps its type; no message is shown that was not sent.
THEOREM TypeCorrect == Spec => []TypeOK
<1>1. TypeInv => TypeOK
  BY DEF TypeInv
<1> QED BY TypeInit, TypeNext, <1>1, PTL DEF Spec

\* main() only learns of the end through an unsynchronised flag, and still never leaves before
\* the last message has been shown.
THEOREM NothingUnshown == Spec => []EndsAfterLastMessage
<1>1. TypeInv => EndsAfterLastMessage
  BY DEF TypeInv, TypeOK, SaidInv, EndsAfterLastMessage
<1> QED BY TypeInit, TypeNext, <1>1, PTL DEF Spec

-------------------------------------------------------------------------------
(* The user's lines. main() writes to the socket before the outgoing listener *)
(* exists, so that at most one of them holds a line; what it holds is the     *)
(* line typed last, and all earlier ones have been sent.                      *)

Before == {"connect", "prompt", "name", "send_name", "set_up", "set_up_outgoing"}
Turns ==
  /\ pc[Main] \in Before \cup {"poll", "spin", "exited"}
  /\ pc[Incoming] \in {"none", "read", "done", "exited"}
  /\ pc[Outgoing] \in {"none", "input", "send", "exited"}
  /\ pc[Main] \in Before => pc[Outgoing] = "none"
Writing(x) == pc[x] \in {"send_name", "send"}

\* The line a thread is about to send is the last one; nothing else is missing.
Held(x) == /\ message[x] \in {0, typed}
           /\ ~reset => typed = Len(sent) + (IF message[x] = 0 THEN 0 ELSE 1)
LinesInv ==
  /\ Turns
  /\ \A i \in 1..Len(sent) : sent[i] = i
  /\ \A x \in Thread : Writing(x) => Held(x)
  /\ (\A x \in Thread : ~Writing(x)) /\ status = "running" => reset \/ typed = Len(sent)
  /\ status # "running" =>
       \/ reset \/ typed = Len(sent)
       \/ /\ typed = Len(sent) + 1 /\ pc[Main] = "exited" /\ pc[Outgoing] = "exited"
          /\ message[Main] = typed \/ message[Outgoing] = typed

LEMMA LinesInit == Init => LinesInv
<1> SUFFICES ASSUME Init PROVE LinesInv
  OBVIOUS
<1>1. sent = <<>> /\ Len(sent) = 0
  BY EmptySeq DEF Init
<1> QED BY <1>1, Threads DEF Init, LinesInv, Turns, Before, Writing, Held

\* The one thread that may send appends the next line, or nothing.
LEMMA SendKeepsOrder ==
  ASSUME TypeInv, LinesInv, NEW x \in Thread, Writing(x), Send(x), UNCHANGED <<typed, reset>>
  PROVE  /\ \A i \in 1..Len(sent') : sent'[i] = i
         /\ reset' \/ typed' = Len(sent')
<1>1. /\ sent \in Seq(1..MaxLines) /\ Len(sent) \in Nat /\ typed \in Nat /\ Held(x)
      /\ message[x] \in 0..MaxLines /\ \A i \in 1..Len(sent) : sent[i] = i
  BY ClientAssumption, LenProperties DEF TypeInv, TypeOK, LinesInv
<1>2. CASE HasBytes(message[x]) /\ ~reset
  <2>1. sent' = Append(sent, message[x]) /\ message[x] = Len(sent) + 1 /\ typed = Len(sent) + 1
    BY <1>1, <1>2 DEF Send, HasBytes, Held
  <2>2. message[x] \in 1..MaxLines
    BY <1>1, <1>2 DEF HasBytes
  <2>3. /\ Len(sent') = Len(sent) + 1 /\ sent'[Len(sent) + 1] = message[x]
        /\ \A i \in 1..Len(sent) : sent'[i] = sent[i]
    BY <1>1, <2>1, <2>2, AppendProperties
  <2> QED BY <1>1, <2>1, <2>3
<1>3. CASE ~HasBytes(message[x]) \/ reset
  <2>1. sent' = sent
    BY <1>3 DEF Send
  <2> QED BY <1>1, <1>3, <2>1 DEF HasBytes, Held
<1> QED BY <1>2, <1>3

\* A thread that reads a line when none is on its way holds the last one.
LEMMA LineTyped ==
  ASSUME TypeInv, LinesInv, NEW x \in Thread, status = "running", \A y \in Thread : ~Writing(y), ReadInput(x),
         UNCHANGED <<sent, reset>>
  PROVE  Held(x)'
<1>1. /\ message \in [Thread -> 0..MaxLines] /\ typed \in Nat /\ Len(sent) \in Nat
      /\ reset \/ typed = Len(sent)
  BY ClientAssumption, LenProperties DEF TypeInv, TypeOK, LinesInv
<1>2. CASE typed' = typed + 1 /\ message' = [message EXCEPT ![x] = typed + 1]
  BY <1>1, <1>2 DEF Held
<1>3. CASE typed' = typed /\ message' = [message EXCEPT ![x] = 0]
  BY <1>1, <1>3 DEF Held
<1> QED BY <1>2, <1>3 DEF ReadInput, EmptyBuffer, input

LEMMA LinesNext == TypeInv /\ LinesInv /\ [Next]_vars => LinesInv'
<1>1. UNCHANGED vars /\ LinesInv => LinesInv'
  BY DEF vars, input, network, LinesInv, Turns, Writing, Held
<1> SUFFICES ASSUME TypeInv, LinesInv, Next PROVE LinesInv'
  BY <1>1
<1> USE Threads DEF At, Step
<1>r. status = "running"
  BY DEF Next, Running
<1>t. /\ pc \in [Thread -> Pc] /\ message \in [Thread -> 0..MaxLines] /\ typed \in Nat
      /\ Len(sent) \in Nat /\ MaxLines \in Nat
  BY ClientAssumption, LenProperties DEF TypeInv, TypeOK
<1>2. CASE Environment
  BY <1>2 DEF Environment, Say, CloseByServer, Reset, input, LinesInv, Turns, Writing, Held
<1>3. CASE Connect \/ PollOnce \/ ReadPrompt
  BY <1>3, <1>t DEF Connect, PollOnce, ReadPrompt, input, network, LinesInv, Turns, Before, Writing, Held
<1>4. CASE CreateListeners \/ IncomingStep
  BY <1>4, <1>t DEF CreateListeners, IncomingStep, Receive, ReceiveEnd, input, network, LinesInv, Turns,
     Before, Writing, Held
<1>5. CASE ReadName
  <2>1. Turns' /\ pc'[Main] = "send_name" /\ (\A x \in Thread : ~Writing(x)) /\ sent' = sent /\ status' = status
        /\ reset' = reset /\ \A x \in Thread \ {Main} : ~Writing(x)'
    BY <1>5, <1>t DEF ReadName, LinesInv, Turns, Before, Writing, network
  <2>2. Held(Main)'
    BY <1>5, <1>r, <1>t, <2>1, LineTyped DEF ReadName
  <2> QED BY <1>r, <2>1, <2>2 DEF LinesInv, Writing
<1>6. CASE TypeLine
  <2>1. Turns' /\ pc'[Outgoing] = "send" /\ (\A x \in Thread : ~Writing(x)) /\ sent' = sent /\ status' = status
        /\ reset' = reset /\ \A x \in Thread \ {Outgoing} : ~Writing(x)'
    BY <1>6, <1>t DEF TypeLine, LinesInv, Turns, Before, Writing, network
  <2>2. Held(Outgoing)'
    BY <1>6, <1>r, <1>t, <2>1, LineTyped DEF TypeLine
  <2> QED BY <1>r, <2>1, <2>2 DEF LinesInv, Writing
<1>7. CASE SendName
  <2>1. (\A i \in 1..Len(sent') : sent'[i] = i) /\ (reset' \/ typed' = Len(sent'))
    BY <1>7, SendKeepsOrder DEF SendName, Writing, input, network
  <2>2. Turns' /\ \A x \in Thread : ~Writing(x)'
    BY <1>7, <1>t DEF SendName, LinesInv, Turns, Before, Writing
  <2> QED BY <2>1, <2>2 DEF LinesInv
<1>8. CASE SendLine
  <2>1. (\A i \in 1..Len(sent') : sent'[i] = i) /\ (reset' \/ typed' = Len(sent'))
    BY <1>8, SendKeepsOrder DEF SendLine, Writing, input, network
  <2>2. Turns' /\ \A x \in Thread : ~Writing(x)'
    BY <1>8, <1>t DEF SendLine, LinesInv, Turns, Before, Writing
  <2> QED BY <2>1, <2>2 DEF LinesInv
<1>9. ASSUME NEW how \in {"success", "failure", "killed"}, End(how) PROVE LinesInv'
  <2>1. /\ Turns' /\ \A x \in Thread : ~Writing(x)' /\ pc'[x] = "exited"
        /\ status' # "running" /\ UNCHANGED <<typed, sent, reset, message>>
    BY <1>9 DEF End, Turns, Before, Writing, input, network
  <2>2. \/ reset \/ typed = Len(sent)
        \/ typed = Len(sent) + 1 /\ (message[Main] = typed \/ message[Outgoing] = typed)
    BY <1>r, <1>t DEF LinesInv, Turns, Writing, Held
  <2> QED BY <2>1, <2>2 DEF LinesInv
<1> QED BY <1>2, <1>3, <1>4, <1>5, <1>6, <1>7, <1>8, <1>9
        DEF Next, MainStep, OutgoingStep, ConnectFails, PromptFails, CreateFails, Poll, Kill

\* However long the session: the name and then the lines go out as they were typed, and
\* only a reset loses any.
THEOREM LinesInOrder == Spec => []InputInOrder
<1>1. TypeInv /\ LinesInv => InputInOrder
  <2> SUFFICES ASSUME TypeInv, LinesInv PROVE InputInOrder
    OBVIOUS
  <2>1. /\ Len(sent) \in Nat /\ typed \in Nat /\ message \in [Thread -> 0..MaxLines]
    BY LenProperties, ClientAssumption DEF TypeInv, TypeOK
  <2>2. \A x \in Thread : Writing(x) => x \in {Main, Outgoing}
    BY Threads DEF LinesInv, Turns, Writing
  <2> QED BY <2>1, <2>2, Threads DEF LinesInv, InputInOrder, Writing, Held
<1> QED BY TypeInit, TypeNext, LinesInit, LinesNext, <1>1, PTL DEF Spec
-------------------------------------------------------------------------------
(* The file transfer client.                                                 *)

LEMMA TransferSizes == BUFFER_SIZE \in Nat \ {0} /\ Total \in Nat
  BY TransferAssumption DEF Total

LEMMA ListShape ==
  ASSUME NEW S, NEW k \in Nat, NEW s \in [1..k -> S]
  PROVE  s \in Seq(S) /\ Len(s) = k
  OBVIOUS

LEMMA PositionsShape ==
  ASSUME NEW a \in Nat, NEW b \in Nat, a <= b, b <= Total
  PROVE  /\ Positions(a, b) \in Seq(1..Total) /\ Len(Positions(a, b)) = b - a
         /\ \A i \in 1..(b - a) : Positions(a, b)[i] = a + i
<1>1. PICK k \in Nat : k = b - a
  OBVIOUS
<1>2. Positions(a, b) = [i \in 1..k |-> a + i]
  BY <1>1 DEF Positions
<1>3. Positions(a, b) \in [1..k -> 1..Total]
  BY <1>1, <1>2, TransferSizes
<1>4. PICK s : s = Positions(a, b)
  OBVIOUS
<1>5. s \in [1..k -> 1..Total]
  BY <1>3, <1>4
<1>6. s \in Seq(1..Total) /\ Len(s) = k
  BY <1>1, <1>5, ListShape
<1> QED BY <1>1, <1>2, <1>4, <1>6

\* s is some of the bytes from + 1 .. to of the stream, in order; all of them, if all.
Saved(s, from, to, all) ==
  /\ s \in Seq(1..Total)
  /\ \A j \in 1..Len(s) : from < s[j] /\ s[j] <= to
  /\ \A i, j \in 1..Len(s) : i < j => s[i] < s[j]
  /\ all => Len(s) = to - from /\ \A i \in 1..Len(s) : s[i] = from + i

\* The file holds what follows the name, up to the used part of the buffer not yet written.
Taken == IF transfer_pc = "write" THEN bytesRead ELSE 0
StreamInv ==
  /\ filename = Positions(0, IF nul <= filenameLength THEN nul - 1 ELSE filenameLength)
  /\ filenameLength + Taken <= received
  /\ Saved(file, filenameLength, received - Taken, ~short)
  /\ transfer_pc = "write" => /\ bytesRead \in 1..BUFFER_SIZE
                     /\ \A i \in 1..bytesRead : buffer[i] = received - bytesRead + i
  /\ transfer_pc \in {"connect", "name"} => filenameLength = 0 /\ received = 0
  /\ transfer_pc \in {"connect", "name", "create"} => file = <<>>
  /\ transfer_pc = "success" => ended = "closed" /\ received = pushed
TransferInv == TransferTypeOK /\ StreamInv

\* The elements of a concatenation.
LEMMA Continued ==
  ASSUME NEW S, NEW s \in Seq(S), NEW u \in Seq(S)
  PROVE  /\ s \o u \in Seq(S) /\ Len(s \o u) = Len(s) + Len(u)
         /\ \A i \in 1..Len(s) : (s \o u)[i] = s[i]
         /\ \A i \in 1..Len(u) : (s \o u)[Len(s) + i] = u[i]
<1>1. Len(s) \in Nat /\ Len(u) \in Nat
  BY LenProperties
<1>2. \A i \in 1..Len(u) : /\ Len(s) + i \in 1..(Len(s) + Len(u)) /\ ~(Len(s) + i <= Len(s))
                           /\ Len(s) + i - Len(s) = i
  BY <1>1
<1>3. \A i \in 1..Len(s) : i \in 1..(Len(s) + Len(u)) /\ i <= Len(s)
  BY <1>1
<1> QED BY <1>2, <1>3, ConcatProperties

\* The first n elements of a sequence.
LEMMA FirstPart ==
  ASSUME NEW S, NEW s, NEW n \in Nat, \A i \in 1..n : s[i] \in S
  PROVE  /\ SubSeq(s, 1, n) \in Seq(S) /\ Len(SubSeq(s, 1, n)) = n
         /\ \A i \in 1..n : SubSeq(s, 1, n)[i] = s[i]
<1>1. /\ SubSeq(s, 1, n) \in Seq(S) /\ Len(SubSeq(s, 1, n)) = (IF 1 <= n THEN n - 1 + 1 ELSE 0)
      /\ \A i \in 1..(n - 1 + 1) : SubSeq(s, 1, n)[i] = s[1 + i - 1]
  BY SubSeqProperties
<1>2. n - 1 + 1 = n /\ (1 <= n \/ n = 0) /\ \A i \in 1..n : 1 + i - 1 = i
  OBVIOUS
<1> QED BY <1>1, <1>2

LEMMA PositionsEmpty == Positions(0, 0) = <<>>
<1>1. PICK s : s = Positions(0, 0)
  OBVIOUS
<1>2. s \in Seq(1..Total) /\ Len(s) = 0
  <2>1. 0 \in Nat /\ 0 <= 0 /\ 0 <= Total /\ 0 - 0 = 0
    BY TransferSizes
  <2> QED BY <1>1, <2>1, PositionsShape
<1> QED BY <1>1, <1>2, EmptySeq

LEMMA Nothing == ASSUME NEW a, NEW b, NEW all, all => a = b, a \in Nat, b \in Nat
                 PROVE  Saved(<<>>, a, b, all)
  BY EmptySeq DEF Saved

\* s is the n bytes after b.
Follows(s, b, n) ==
  s \in Seq(1..Total) /\ Len(s) = n /\ \A i \in 1..n : s[i] = b + i

LEMMA Appended ==
  ASSUME NEW f, NEW a \in Nat, NEW b \in Nat, NEW all, Saved(f, a, b, all), a <= b,
         NEW n \in Nat, NEW s, Follows(s, b, n)
  PROVE  Saved(f \o s, a, b + n, all)
<1> DEFINE g == f \o s
<1>1. /\ f \in Seq(1..Total) /\ Len(f) \in Nat
      /\ g \in Seq(1..Total) /\ Len(g) = Len(f) + n
      /\ \A i \in 1..Len(f) : g[i] = f[i]
      /\ \A i \in 1..n : g[Len(f) + i] = b + i
  <2>1. f \in Seq(1..Total) /\ s \in Seq(1..Total)
    BY DEF Saved, Follows
  <2>2. /\ f \o s \in Seq(1..Total) /\ Len(f \o s) = Len(f) + Len(s)
        /\ \A i \in 1..Len(f) : (f \o s)[i] = f[i]
        /\ \A i \in 1..Len(s) : (f \o s)[Len(f) + i] = s[i]
    BY <2>1, Continued
  <2>3. Len(f) \in Nat
    BY <2>1, LenProperties
  <2>4. Len(s) = n /\ \A i \in 1..n : s[i] = b + i
    BY DEF Follows
  <2> QED BY <2>1, <2>2, <2>3, <2>4
<1>2. \A i \in 1..Len(f) : f[i] \in Nat
  <2>1. ASSUME NEW i \in 1..Len(f) PROVE f[i] \in 1..Total
    BY <1>1, ElementOfSeq
  <2> QED BY <2>1, TransferSizes
<1> HIDE DEF g
<1>3. ASSUME NEW i \in 1..Len(g), ~(i <= Len(f))
      PROVE  g[i] = b + (i - Len(f)) /\ i - Len(f) \in 1..n
  <2>1. i - Len(f) \in 1..n /\ i = Len(f) + (i - Len(f))
    BY <1>1, <1>3
  <2> QED BY <1>1, <2>1
<1>4. ASSUME NEW j \in 1..Len(g) PROVE a < g[j] /\ g[j] <= b + n
  <2>1. CASE j <= Len(f)
    BY <1>1, <1>2, <2>1 DEF Saved
  <2>2. CASE ~(j <= Len(f))
    BY <1>1, <1>3, <2>2
  <2> QED BY <2>1, <2>2
<1>5. ASSUME NEW i \in 1..Len(g), NEW j \in 1..Len(g), i < j PROVE g[i] < g[j]
  <2>1. CASE j <= Len(f)
    BY <1>1, <1>5, <2>1 DEF Saved
  <2>2. CASE i <= Len(f) /\ ~(j <= Len(f))
    <3>1. g[i] \in Nat /\ g[i] <= b
      BY <1>1, <1>2, <2>2 DEF Saved
    <3> QED BY <1>1, <1>3, <2>2, <3>1
  <2>3. CASE ~(i <= Len(f)) /\ ~(j <= Len(f))
    <3>1. g[i] = b + (i - Len(f)) /\ g[j] = b + (j - Len(f))
      BY <1>3, <2>3
    <3> QED BY <1>1, <1>5, <3>1
  <2> QED BY <1>1, <1>5, <2>1, <2>2, <2>3
<1>6. ASSUME all PROVE Len(g) = b + n - a /\ \A i \in 1..Len(g) : g[i] = a + i
  <2>1. Len(f) = b - a /\ \A i \in 1..Len(f) : f[i] = a + i
    BY <1>6 DEF Saved
  <2>2. ASSUME NEW i \in 1..Len(g) PROVE g[i] = a + i
    <3>1. CASE i <= Len(f)
      BY <1>1, <2>1, <3>1
    <3>2. CASE ~(i <= Len(f))
      BY <1>1, <1>3, <2>1, <3>2
    <3> QED BY <3>1, <3>2
  <2>3. Len(g) = b + n - a
    BY <1>1, <2>1
  <2> QED BY <2>2, <2>3
<1>7. Saved(g, a, b + n, all)
  BY <1>1, <1>4, <1>5, <1>6 DEF Saved
<1> QED BY <1>7 DEF g

\* What fwrite() and fclose() leave.
LEMMA KeptSaved ==
  ASSUME NEW data, NEW a \in Nat, NEW b \in Nat, Saved(data, a, b, ~short), short \in BOOLEAN,
         Kept(data)
  PROVE  Saved(file', a, b, ~short') /\ short' \in BOOLEAN
<1>1. PICK n \in 0..Len(data) : file' = SubSeq(data, 1, n) /\ short' = (short \/ n < Len(data))
  BY DEF Kept
<1>2. data \in Seq(1..Total) /\ Len(data) \in Nat
  BY LenProperties DEF Saved
<1>3. n \in Nat /\ n <= Len(data) /\ \A i \in 1..n : data[i] \in 1..Total /\ i \in 1..Len(data)
  <2>1. n \in Nat /\ n <= Len(data) /\ \A i \in 1..n : i \in 1..Len(data)
    BY <1>1, <1>2
  <2>2. ASSUME NEW i \in 1..Len(data) PROVE data[i] \in 1..Total
    BY <1>2, ElementOfSeq
  <2> QED BY <2>1, <2>2
<1>4. file' \in Seq(1..Total) /\ Len(file') = n /\ \A i \in 1..n : file'[i] = data[i]
  BY <1>1, <1>3, FirstPart
<1>5. ASSUME ~short' PROVE ~short /\ n = Len(data)
  <2>1. ~short /\ ~(n < Len(data))
    BY <1>1, <1>5, Zenon
  <2> QED BY <1>2, <1>3, <2>1
<1>6. ASSUME NEW t, t = file' PROVE Saved(t, a, b, ~short')
  <2>1. t \in Seq(1..Total) /\ Len(t) = n /\ \A i \in 1..n : t[i] = data[i] /\ i \in 1..Len(data)
    BY <1>3, <1>4, <1>6
  <2>2. \A j \in 1..Len(t) : a < t[j] /\ t[j] <= b
    BY <2>1 DEF Saved
  <2>3. \A i, j \in 1..Len(t) : i < j => t[i] < t[j]
    BY <2>1 DEF Saved
  <2>4. ~short' => Len(t) = b - a /\ \A i \in 1..Len(t) : t[i] = a + i
    BY <1>5, <2>1 DEF Saved
  <2> QED BY <2>1, <2>2, <2>3, <2>4 DEF Saved
<1>7. short' \in BOOLEAN
  BY <1>1
<1> QED BY <1>6, <1>7

LEMMA TransferInvInit == TransferInit => TransferInv
<1> SUFFICES ASSUME TransferInit PROVE TransferInv
  OBVIOUS
<1>1. filename = <<>> /\ file = <<>> /\ filename \in Seq(1..Total) /\ file \in Seq(1..Total)
  BY EmptySeq DEF TransferInit
<1>2. buffer \in [1..BUFFER_SIZE -> 0..Total] /\ bytesRead \in -1..BUFFER_SIZE
  BY TransferSizes DEF TransferInit
<1>3. TransferTypeOK
  <2>1. short \in BOOLEAN
    BY DEF TransferInit
  <2>2. filenameLength \in 0..BUFFER_SIZE /\ nul \in 1..(Total + 1) /\ pushed \in 0..Total /\ received \in 0..pushed
    BY TransferSizes DEF TransferInit
  <2> QED BY <1>1, <1>2, <2>1, <2>2 DEF TransferInit, TransferTypeOK, TransferPc
<1>4. filename = Positions(0, IF nul <= filenameLength THEN nul - 1 ELSE filenameLength)
  <2>1. (IF nul <= filenameLength THEN nul - 1 ELSE filenameLength) = 0
    BY TransferSizes DEF TransferInit
  <2> QED BY <1>1, <2>1, PositionsEmpty
<1>5. Saved(file, filenameLength, received - Taken, ~short)
  <2>1. filenameLength = 0 /\ received - Taken = 0 /\ 0 \in Nat
    BY DEF TransferInit, Taken
  <2> QED BY <1>1, <2>1, Nothing
<1>6. StreamInv
  BY <1>1, <1>4, <1>5 DEF TransferInit, StreamInv, Taken
<1> QED BY <1>3, <1>6 DEF TransferInv

\* fwrite() of the part of the buffer that the last recv() filled.
LEMMA WriteKeeps == TransferInv /\ WriteContent => TransferInv'
<1> SUFFICES ASSUME TransferInv, WriteContent PROVE TransferInv'
  OBVIOUS
<1>1. /\ transfer_pc = "write" /\ transfer_pc' = "recv" /\ Kept(file \o SubSeq(buffer, 1, bytesRead))
      /\ UNCHANGED <<name, buffer, bytesRead, received, stream>>
  BY DEF WriteContent, Go
<1>2. /\ bytesRead \in 1..BUFFER_SIZE /\ buffer \in [1..BUFFER_SIZE -> 0..Total]
      /\ \A i \in 1..bytesRead : buffer[i] = received - bytesRead + i
      /\ received \in 0..Total /\ filenameLength + bytesRead <= received
      /\ filenameLength \in Nat /\ short \in BOOLEAN
      /\ Saved(file, filenameLength, received - bytesRead, ~short)
  BY <1>1, TransferSizes DEF TransferInv, TransferTypeOK, StreamInv, Taken
<1>3. PICK n \in 1..BUFFER_SIZE : n = bytesRead
  BY <1>2
<1>4. PICK b \in Nat : b = received - n
  BY <1>2, <1>3, TransferSizes
<1>5. PICK s : s = SubSeq(buffer, 1, n)
  OBVIOUS
<1>6. /\ n \in Nat /\ b + n = received /\ filenameLength <= b
      /\ \A i \in 1..n : buffer[i] = b + i /\ buffer[i] \in 1..Total
  BY <1>2, <1>3, <1>4, TransferSizes
<1>7. Follows(s, b, n)
  BY <1>5, <1>6, FirstPart DEF Follows
<1>8. Saved(file \o s, filenameLength, received, ~short)
  <2>1. Saved(file, filenameLength, b, ~short)
    BY <1>2, <1>3, <1>4
  <2>2. Saved(file \o s, filenameLength, b + n, ~short)
    BY <1>2, <1>6, <1>7, <2>1, Appended
  <2> QED BY <1>6, <2>2
<1>9. Saved(file', filenameLength, received, ~short') /\ short' \in BOOLEAN
  <2>1. Kept(file \o s)
    BY <1>1, <1>3, <1>5
  <2>2. filenameLength \in Nat /\ received \in Nat
    BY <1>2, TransferSizes
  <2> QED BY <1>2, <1>8, <2>1, <2>2, KeptSaved
<1>10. TransferTypeOK'
  BY <1>1, <1>9 DEF TransferInv, TransferTypeOK, TransferPc, stream, name, Saved
<1>11. StreamInv'
  <2>1. Taken' = 0 /\ received' = received /\ received - 0 = received /\ filenameLength <= received
    BY <1>1, <1>2, TransferSizes DEF Taken
  <2>2. Saved(file', filenameLength', received' - Taken', ~short')
    BY <1>1, <1>9, <2>1 DEF name
  <2>3. filenameLength' = filenameLength /\ filenameLength' + Taken' <= received'
    BY <1>1, <1>2, <2>1 DEF name
  <2> QED BY <1>1, <2>2, <2>3 DEF TransferInv, StreamInv, name, stream
<1> QED BY <1>10, <1>11 DEF TransferInv

\* fclose(), and the end.
LEMMA EndKeeps == TransferInv /\ RecvEnd => TransferInv'
<1> SUFFICES ASSUME TransferInv, RecvEnd PROVE TransferInv'
  OBVIOUS
<1>1. /\ AtEnd /\ transfer_pc = "recv" /\ transfer_pc' = Outcome /\ Kept(file)
      /\ bytesRead' = (IF ended = "closed" THEN 0 ELSE -1)
      /\ UNCHANGED <<name, buffer, received, stream>>
  BY DEF RecvEnd, Go
<1>2. /\ received \in Nat /\ filenameLength \in Nat /\ short \in BOOLEAN /\ filenameLength <= received
      /\ Saved(file, filenameLength, received, ~short) /\ ended \in {"no", "closed", "reset"}
  BY <1>1, TransferSizes DEF TransferInv, TransferTypeOK, StreamInv, Taken
<1>3. Saved(file', filenameLength, received, ~short') /\ short' \in BOOLEAN
  BY <1>1, <1>2, KeptSaved
<1>4. transfer_pc' \in {"success", "failure"} /\ (transfer_pc' = "success" => ended = "closed" /\ received = pushed)
  BY <1>1, <1>2 DEF Outcome, AtEnd
<1>5. TransferTypeOK'
  BY <1>1, <1>3, <1>4, TransferSizes DEF TransferInv, TransferTypeOK, TransferPc, stream, name, Saved
<1>6. StreamInv'
  <2>1. Taken' = 0 /\ received' = received /\ received - 0 = received
    BY <1>1, <1>2, <1>4 DEF Taken
  <2>2. Saved(file', filenameLength', received' - Taken', ~short')
    BY <1>1, <1>3, <2>1 DEF name
  <2> QED BY <1>1, <1>2, <1>4, <2>1, <2>2 DEF TransferInv, StreamInv, name, stream
<1> QED BY <1>5, <1>6 DEF TransferInv

LEMMA TransferInvNext == TransferInv /\ [TransferNext]_transferVars => TransferInv'
<1> SUFFICES ASSUME TransferInv, [TransferNext]_transferVars PROVE TransferInv'
  OBVIOUS
<1>t. TransferTypeOK /\ StreamInv
  BY DEF TransferInv
<1> USE TransferSizes DEF TransferInv, TransferPc, Go, name, content
<1>1. CASE UNCHANGED transferVars
  BY <1>1, <1>t DEF transferVars, stream, TransferTypeOK, StreamInv, Taken
<1> USE DEF stream
<1>2. CASE Push
  BY <1>2, <1>t DEF Push, TransferTypeOK, StreamInv, Taken
<1>3. CASE EndOfConnection
  BY <1>3, <1>t DEF TransferNext, EndOfConnection, TransferTypeOK, StreamInv, Taken, Done
<1>4. CASE ConnectTransfer \/ Create \/ RecvNameFails
  BY <1>4, <1>t DEF ConnectTransfer, Create, RecvNameFails, TransferTypeOK, StreamInv, Taken
<1>5. CASE RecvName
  <2>1. PICK n \in 1..BUFFER_SIZE :
          /\ received + n <= pushed /\ received' = received + n /\ filenameLength' = n
          /\ filename' = Positions(0, IF nul <= n THEN nul - 1 ELSE n)
    BY <1>5 DEF RecvName, Arrived
  <2>2. /\ transfer_pc = "name" /\ transfer_pc' = "create" /\ UNCHANGED <<file, short, buffer, bytesRead, stream>>
        /\ file = <<>> /\ received = 0 /\ pushed \in 0..Total /\ nul \in 1..(Total + 1)
    BY <1>5, <1>t DEF RecvName, TransferTypeOK, StreamInv, Taken
  <2>3. PICK k \in Nat : k = (IF nul <= n THEN nul - 1 ELSE n)
    BY <2>2
  <2>4. filename' \in Seq(1..Total)
    <3>1. 0 \in Nat /\ 0 <= k /\ k <= Total /\ filename' = Positions(0, k)
      BY <2>1, <2>2, <2>3
    <3> QED BY <3>1, PositionsShape
  <2>5. TransferTypeOK'
    BY <1>t, <2>1, <2>2, <2>4 DEF TransferTypeOK
  <2>6. Saved(file', filenameLength', received' - Taken', ~short')
    <3>1. filenameLength' = n /\ received' - Taken' = n /\ n \in Nat /\ file' = <<>>
      BY <2>1, <2>2 DEF Taken
    <3> QED BY <3>1, Nothing
  <2>7. StreamInv'
    BY <2>1, <2>2, <2>6 DEF StreamInv, Taken
  <2> QED BY <2>5, <2>7
<1>6. CASE RecvContent
  <2>1. PICK n \in 1..BUFFER_SIZE :
          /\ received + n <= pushed /\ received' = received + n /\ bytesRead' = n
          /\ buffer' = [i \in 1..BUFFER_SIZE |-> IF i <= n THEN received + i ELSE buffer[i]]
    BY <1>6 DEF RecvContent, Arrived
  <2>2. /\ transfer_pc = "recv" /\ transfer_pc' = "write"
        /\ UNCHANGED <<filenameLength, filename, file, short, stream>>
    BY <1>6 DEF RecvContent
  <2>3. TransferTypeOK'
    BY <1>t, <2>1, <2>2 DEF TransferTypeOK
  <2>4. \A i \in 1..n : buffer'[i] = received' - n + i
    BY <1>t, <2>1 DEF TransferTypeOK
  <2>5. Saved(file, filenameLength, received, ~short) /\ filenameLength <= received /\ received \in Nat
        /\ filenameLength \in Nat
    BY <1>t, <2>2 DEF TransferTypeOK, StreamInv, Taken
  <2>6. Taken' = n /\ received' - n = received /\ filenameLength' + n <= received'
    BY <2>1, <2>2, <2>5 DEF Taken
  <2>7. Saved(file', filenameLength', received' - Taken', ~short')
    BY <2>2, <2>5, <2>6
  <2>8. StreamInv'
    BY <1>t, <2>1, <2>2, <2>4, <2>6, <2>7 DEF StreamInv
  <2> QED BY <2>3, <2>8
<1>7. CASE WriteContent
  BY <1>7, WriteKeeps
<1>8. CASE RecvEnd
  BY <1>8, EndKeeps
<1> QED BY <1>1, <1>2, <1>3, <1>4, <1>5, <1>6, <1>7, <1>8 DEF TransferNext, ClientStep

\* Every variable keeps its type: only bytes of the stream are written.
THEOREM TransferTypeCorrect == TransferSpec => []TransferTypeOK
<1>1. TransferInv => TransferTypeOK
  BY DEF TransferInv
<1> QED BY TransferInvInit, TransferInvNext, <1>1, PTL DEF TransferSpec

\* However the network cuts the stream, and whatever fwrite() and fclose() lose: the name is the
\* first recv() up to a byte 0, the file holds later bytes only, once and in order, all of them
\* if no write was short; and success means that all the server sent was received.
THEOREM EverythingSaved == TransferSpec => []NothingDropped
<1>1. TransferInv => NothingDropped
  <2> SUFFICES ASSUME TransferInv PROVE NothingDropped
    OBVIOUS
  <2>1. /\ filenameLength \in Nat /\ received \in Nat /\ received <= Total /\ filenameLength <= received
        /\ Saved(file, filenameLength, received - Taken, ~short)
        /\ Taken \in Nat
    BY TransferSizes DEF TransferInv, TransferTypeOK, StreamInv, Taken
  <2>2. \A j \in 1..Len(file) : filenameLength < file[j] /\ file[j] <= received
    <3>1. \A j \in 1..Len(file) : file[j] \in 1..Total
      BY <2>1, ElementOfSeq DEF Saved
    <3> QED BY <2>1, <3>1, TransferSizes DEF Saved
  <2>3. ASSUME ~short, transfer_pc # "write" PROVE file = Positions(filenameLength, received)
    <3>1. PICK s : s = Positions(filenameLength, received)
      OBVIOUS
    <3>2. /\ s \in Seq(1..Total) /\ Len(s) = received - filenameLength
          /\ \A i \in 1..(received - filenameLength) : s[i] = filenameLength + i
      BY <2>1, <3>1, PositionsShape
    <3>3. /\ file \in Seq(1..Total) /\ Len(file) = received - filenameLength
          /\ \A i \in 1..Len(file) : file[i] = filenameLength + i
      BY <2>1, <2>3 DEF Saved, Taken
    <3>4. file = s
      BY <3>2, <3>3, SeqEqual
    <3> QED BY <3>1, <3>4
  <2> QED BY <2>1, <2>2, <2>3 DEF TransferInv, StreamInv, NothingDropped, Saved
<1> QED BY TransferInvInit, TransferInvNext, <1>1, PTL DEF TransferSpec
===============================================================================
