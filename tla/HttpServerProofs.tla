-------------------------- MODULE HttpServerProofs ----------------------------
(* Invariants of the HTTP server, for every number of connections and        *)
(* descriptors and every site.                                               *)
EXTENDS HttpServerProps, SequenceTheorems, TLAPS

LEMMA Threads == /\ Main \in Thread /\ Conn \subseteq Thread /\ Main \notin Conn
                 /\ None \notin Conn /\ None \notin Fd /\ None # Main
                 /\ None \notin Request /\ None \notin Files
  BY HttpAssumption DEF Main, Thread, Request

\* While main() deals with a connection it has a thread yet to come; a handler past fopen()
\* has a file, one past recv() has a request.
MainHolds == At(Main, "create") => conn \in Conn /\ pc[conn] = "none"
FileOpen ==
  \A t \in Conn : /\ pc[t] \in {"header", "stream"} => name[t] \in Files /\ next[t] >= 1
                  /\ file[t] # None => pc[t] \in {"header", "stream"}
TypeInv == TypeOK /\ MainHolds /\ FileOpen

LEMMA SendType ==
  ASSUME sent \in [Conn -> Seq(Item)], NEW t \in Conn, NEW item \in Item, Send(t, item)
  PROVE  sent' \in [Conn -> Seq(Item)]
<1>1. \A c \in Conn : Append(sent[c], item) \in Seq(Item)
  BY AppendProperties
<1> QED BY <1>1 DEF Send

\* fopen() succeeds only for a file, with a descriptor that nothing else is open under.
LEMMA FopenType ==
  ASSUME NEW t \in Conn, NEW n, Fopen(t, n)
  PROVE  /\ n \in Files /\ UNCHANGED exhausted
         /\ \E f \in Fd : /\ file' = [file EXCEPT ![t] = f] /\ fdTab[f] = None
                          /\ \A u \in Conn : file[u] # f
         /\ name' = [name EXCEPT ![t] = n] /\ next' = [next EXCEPT ![t] = 1]
  BY DEF Fopen, Opens, Lowest, Free

LEMMA TypeInit == Init => TypeInv
<1> SUFFICES ASSUME Init PROVE TypeInv
  OBVIOUS
<1>1. sent \in [Conn -> Seq(Item)]
  BY EmptySeq DEF Init, Blank
<1> QED BY <1>1, Threads DEF Init, TypeInv, TypeOK, MainHolds, FileOpen, AllAt, Blank, MainPc, ThreadPc, At

LEMMA FopenKeepsType ==
  ASSUME TypeInv, NEW t \in Conn, pc[t] \in {"parsed", "openpage"}, NEW n, Fopen(t, n),
         NEW q \in {"header", "stream"}, pc' = [pc EXCEPT ![t] = q],
         UNCHANGED <<fd, args, request, conn, kernel, sent>>
  PROVE  TypeInv'
<1> USE Threads DEF At, MainPc, ThreadPc, kernel
<1>t. TypeOK /\ MainHolds /\ FileOpen
  BY DEF TypeInv
<1>1. PICK f \in Fd : file' = [file EXCEPT ![t] = f]
  BY FopenType
<1>2. n \in Files /\ name' = [name EXCEPT ![t] = n] /\ next' = [next EXCEPT ![t] = 1]
      /\ UNCHANGED exhausted
  BY FopenType
<1>3. TypeOK'
  BY <1>t, <1>1, <1>2 DEF TypeOK
<1>4. MainHolds'
  BY <1>t, <1>1, <1>2 DEF TypeOK, MainHolds
<1>5. FileOpen'
  BY <1>t, <1>1, <1>2 DEF TypeOK, FileOpen
<1> QED BY <1>3, <1>4, <1>5 DEF TypeInv

LEMMA FopenFailsKeepsType ==
  ASSUME TypeInv, NEW t \in Conn, pc[t] \in {"parsed", "openpage"}, NEW n, FopenFails(t, n),
         NEW q \in {"missing", "nopage"}, pc' = [pc EXCEPT ![t] = q],
         UNCHANGED <<fd, args, request, conn, kernel, sent>>
  PROVE  TypeInv'
<1> USE Threads DEF At, MainPc, ThreadPc, kernel
<1>t. TypeOK /\ MainHolds /\ FileOpen
  BY DEF TypeInv
<1>1. UNCHANGED <<name, file, next>> /\ exhausted' \subseteq Conn
  BY <1>t DEF FopenFails, TypeOK
<1>2. TypeOK'
  BY <1>t, <1>1 DEF TypeOK
<1>3. MainHolds'
  BY <1>t, <1>1 DEF TypeOK, MainHolds
<1>4. FileOpen'
  BY <1>t, <1>1 DEF TypeOK, FileOpen
<1> QED BY <1>2, <1>3, <1>4 DEF TypeInv

LEMMA TypeNext == TypeInv /\ [Next]_vars => TypeInv'
<1> SUFFICES ASSUME TypeInv, [Next]_vars PROVE TypeInv'
  OBVIOUS
<1> USE Threads DEF TypeInv, TypeOK, MainHolds, FileOpen, At, Step, MainPc, ThreadPc
<1>1. CASE UNCHANGED vars
  BY <1>1 DEF vars, handler, kernel
<1> USE DEF handler, kernel
<1>2. CASE Accept
  BY <1>2 DEF Accept, Lowest, Free
<1>3. CASE CreateThread \/ CreateFails
  BY <1>3 DEF CreateThread, CreateFails
<1>4. ASSUME NEW t \in Conn, Start(t) PROVE TypeInv'
  BY <1>4 DEF Start, HandedOver
<1>5. ASSUME NEW t \in Conn, RecvRequest(t) PROVE TypeInv'
  BY <1>5 DEF RecvRequest
<1>6. ASSUME NEW t \in Conn, RecvFails(t) PROVE TypeInv'
  BY <1>6 DEF RecvFails, CloseFailed, Close
<1>7. ASSUME NEW t \in Conn, CloseSocket(t) PROVE TypeInv'
  BY <1>7 DEF CloseSocket, Close
<1>8. ASSUME NEW t \in Conn, OpenFile(t) PROVE TypeInv'
  BY <1>8, FopenKeepsType, FopenFailsKeepsType DEF OpenFile
<1>9. ASSUME NEW t \in Conn, OpenPage(t) PROVE TypeInv'
  BY <1>9, FopenKeepsType, FopenFailsKeepsType DEF OpenPage
<1>10. ASSUME NEW t \in Conn, NotImplemented(t) \/ SendHeader(t) \/ SendNotFound(t) \/ SendError404(t)
       PROVE  TypeInv'
  <2>1. \A s \in Status : StatusLine(s) \in Item
    BY DEF StatusLine, Item
  <2>2. \E s \in Status : Send(t, StatusLine(s))
    BY <1>10 DEF NotImplemented, SendHeader, SendNotFound, SendError404, Status
  <2>3. sent' \in [Conn -> Seq(Item)]
    BY <2>1, <2>2, SendType
  <2>4. /\ \/ pc[t] \in {"parsed", "nopage"} /\ pc' = [pc EXCEPT ![t] = "close"]
           \/ pc[t] = "header" /\ pc' = [pc EXCEPT ![t] = "stream"]
           \/ pc[t] = "missing" /\ pc' = [pc EXCEPT ![t] = "openpage"]
        /\ UNCHANGED <<fd, args, handler, conn, kernel, exhausted>>
    BY <1>10 DEF NotImplemented, AfterError, SendHeader, SendNotFound, SendError404
  <2>5. TypeOK'
    <3>1. pc' \in [Thread -> MainPc \cup ThreadPc]
      BY <2>4
    <3> QED BY <3>1, <2>3, <2>4
  <2>6. MainHolds'
    BY <2>4
  <2>7. FileOpen'
    BY <2>4
  <2> QED BY <2>5, <2>6, <2>7
<1>11. ASSUME NEW t \in Conn, SendChunk(t) PROVE TypeInv'
  <2>1. Buffer(name[t], next[t]) \in Item
    BY <1>11 DEF SendChunk, Buffer, Item
  <2>2. sent' \in [Conn -> Seq(Item)]
    BY <1>11, <2>1, SendType DEF SendChunk
  <2>3. /\ next' = [next EXCEPT ![t] = @ + 1]
        /\ UNCHANGED <<pc, fd, args, request, name, file, conn, kernel, exhausted>>
    BY <1>11 DEF SendChunk
  <2>4. FileOpen'
    BY <2>3
  <2>5. MainHolds'
    BY <2>3
  <2>6. TypeOK'
    BY <2>2, <2>3
  <2> QED BY <2>4, <2>5, <2>6
<1>12. ASSUME NEW t \in Conn, CloseFile(t) PROVE TypeInv'
  BY <1>12 DEF CloseFile
<1>13. ASSUME NEW t \in Conn, Hangup(t) PROVE TypeInv'
  BY <1>13 DEF Hangup
<1>14. ASSUME NEW p \in MainPc, End(p), p # "create" PROVE TypeInv'
  <2>1. sent' \in [Conn -> Seq(Item)]
    BY <1>14, EmptySeq DEF End, Blank
  <2> QED BY <1>14, <2>1 DEF End, AllAt, Blank
<1> QED BY <1>1, <1>2, <1>3, <1>4, <1>5, <1>6, <1>7, <1>8, <1>9, <1>10, <1>11, <1>12, <1>13, <1>14
        DEF Next, MainStep, ThreadStep, SendStep, Kill, Crash

\* Every variable keeps its type: only files that exist are sent, from descriptors of the table.
THEOREM TypeCorrect == Spec => []TypeOK
<1>1. TypeInv => TypeOK
  BY DEF TypeInv
<1> QED BY TypeInit, TypeNext, <1>1, PTL DEF Spec

-------------------------------------------------------------------------------
(* Descriptors.                                                              *)

MainOwns == At(Main, "create") => fd[Main] \in Fd /\ fdTab[fd[Main]] = conn
HeldBy(t, f) == \/ At(t, "start") /\ f = args[t]
                \/ pc[t] \in Bound /\ f = fd[t]
                \/ At(t, "orphan")
OpenHeld ==
  \A f \in Fd, c \in Conn : fdTab[f] = c =>
    HeldBy(c, f) \/ (At(Main, "create") /\ c = conn /\ f = fd[Main])
OwnInv == OwnDescriptor /\ MainOwns /\ OpenHeld

LEMMA OwnInit == Init => OwnInv
  BY Threads DEF Init, OwnInv, OwnDescriptor, MainOwns, OpenHeld, HeldBy, AllAt, Blank, Bound, At

LEMMA OwnNext == TypeInv /\ OwnInv /\ [Next]_vars => OwnInv'
<1> SUFFICES ASSUME TypeInv, OwnInv, [Next]_vars PROVE OwnInv'
  OBVIOUS
<1> USE Threads DEF OwnInv, OwnDescriptor, MainOwns, OpenHeld, HeldBy, Bound, At, Step
<1>t. /\ pc \in [Thread -> MainPc \cup ThreadPc] /\ args \in [Conn -> Fd \cup {None}]
      /\ fd \in [Thread -> Fd \cup {None}] /\ fdTab \in [Fd -> Conn \cup {None}]
      /\ file \in [Conn -> Fd \cup {None}] /\ MainHolds
  BY DEF TypeInv, TypeOK
<1> USE DEF MainHolds
<1>1. CASE UNCHANGED vars
  BY <1>1 DEF vars, handler, kernel
<1> USE DEF handler, kernel
<1>2. CASE Accept
  BY <1>2, <1>t DEF Accept, Lowest, Free
<1>3. CASE CreateThread
  BY <1>3, <1>t DEF CreateThread
<1>4. CASE CreateFails
  BY <1>4, <1>t DEF CreateFails
<1>5. ASSUME NEW t \in Conn, Start(t) PROVE OwnInv'
  BY <1>5, <1>t DEF Start, HandedOver
<1>6. ASSUME NEW t \in Conn, RecvFails(t) \/ CloseSocket(t) PROVE OwnInv'
  <2>1. CASE RecvFails(t)
    BY <2>1, <1>t DEF RecvFails, CloseFailed, Close
  <2>2. CASE CloseSocket(t)
    BY <2>2, <1>t DEF CloseSocket, Close
  <2> QED BY <1>6, <2>1, <2>2
<1>7. ASSUME NEW t \in Conn, OpenFile(t) \/ OpenPage(t) PROVE OwnInv'
  BY <1>7, <1>t DEF OpenFile, OpenPage, Fopen, FopenFails, Lowest, Free
<1>8. ASSUME NEW t \in Conn, SendStep(t) PROVE OwnInv'
  BY <1>8, <1>t DEF SendStep, NotImplemented, AfterError, SendHeader, SendNotFound, SendError404, SendChunk
<1>9. ASSUME NEW t \in Conn, RecvRequest(t) \/ CloseFile(t) \/ Hangup(t) PROVE OwnInv'
  BY <1>9, <1>t DEF RecvRequest, CloseFile, Hangup
<1>10. ASSUME NEW p \in MainPc, End(p), p # "create" PROVE OwnInv'
  BY <1>10 DEF End, AllAt, Blank
<1> QED BY <1>1, <1>2, <1>3, <1>4, <1>5, <1>6, <1>7, <1>8, <1>9, <1>10
        DEF Next, MainStep, ThreadStep, Kill, Crash, MainPc

\* A handler works with the socket main() accepted for it, and with a file descriptor that
\* nobody else uses, however connections and files take turns at the table.
THEOREM HandlesItsOwn == Spec => []OwnDescriptor
<1>1. OwnInv => OwnDescriptor
  BY DEF OwnInv
<1> QED BY TypeInit, TypeNext, OwnInit, OwnNext, <1>1, PTL DEF Spec

\* Whatever is open is in use, or belongs to a connection whose thread was never created.
THEOREM EveryPathCloses == Spec => []NothingLeftOpen
<1>1. TypeInv /\ OwnInv => NothingLeftOpen
  BY Threads DEF TypeInv, TypeOK, FileOpen, OwnInv, OpenHeld, HeldBy, NothingLeftOpen, At
<1> QED BY TypeInit, TypeNext, OwnInit, OwnNext, <1>1, PTL DEF Spec

-------------------------------------------------------------------------------
(* Responses. The inductive invariant says, for each point a handler can have *)
(* reached, how many items of the response to its request it has sent.        *)

\* The first k items of the response to r have gone out on the connection of t.
SentUpTo(t, r, k) ==
  /\ Len(sent[t]) = k /\ k <= Len(Response(r))
  /\ \A i \in 1..k : sent[t][i] = Response(r)[i]

\* t is sending the file its request deserves.
RightFile(t, r) ==
  \/ FullPath(r) \in Files /\ name[t] = FullPath(r)
  \/ FullPath(r) \notin Files /\ Page \in Files /\ name[t] = Page

HandlerSent(t) ==
  LET r == request[t]
      n == FullPath(request[t])
      ok == r \in Request \ {Unsupported}
  IN  /\ pc[t] \in ThreadPc
      /\ pc[t] \in {"none", "orphan", "start", "recv"} => r = None /\ sent[t] = <<>>
      /\ At(t, "parsed") => r \in Request /\ SentUpTo(t, r, 0)
      /\ At(t, "header") => ok /\ n \in Files /\ name[t] = n /\ next[t] = 1 /\ SentUpTo(t, r, 0)
      /\ At(t, "missing") => ok /\ n \notin Files /\ SentUpTo(t, r, 0)
      /\ At(t, "openpage") => ok /\ n \notin Files /\ SentUpTo(t, r, 1)
      /\ At(t, "nopage") => ok /\ n \notin Files /\ Page \notin Files /\ SentUpTo(t, r, 1)
      /\ At(t, "stream") => /\ ok /\ RightFile(t, r) /\ next[t] <= Chunks[name[t]] + 1
                            /\ SentUpTo(t, r, next[t])
      /\ At(t, "close") => r \in Request /\ SentUpTo(t, r, Len(Response(r)))
      /\ At(t, "done") => \/ r = None /\ sent[t] = <<>>
                          \/ r \in Request /\ SentUpTo(t, r, Len(Response(r)))
ResponseInv == Up => \A t \in Conn \ exhausted : HandlerSent(t)

\* What Response(r) consists of.
LEMMA ResponseUnsupported ==
  /\ Response(Unsupported) \in Seq(Item) /\ Len(Response(Unsupported)) = 1
  /\ Response(Unsupported)[1] = StatusLine("501")
  BY DEF Response, Item, StatusLine, Status

LEMMA BodyShape ==
  ASSUME NEW n \in Files
  PROVE  /\ Chunks[n] \in Nat /\ Body(n) \in Seq(Item) /\ Len(Body(n)) = Chunks[n]
         /\ \A k \in 1..Chunks[n] : Body(n)[k] = Buffer(n, k)
<1>1. Chunks[n] \in Nat
  BY HttpAssumption
<1>2. Body(n) \in [1..Chunks[n] -> Item]
  BY <1>1 DEF Body, Buffer, Item
<1>3. Body(n) \in Seq(Item) /\ Len(Body(n)) = Chunks[n]
  BY <1>1, <1>2, IsASeq, LenProperties
<1> QED BY <1>1, <1>3 DEF Body

LEMMA ResponseFile ==
  ASSUME NEW r \in Request \ {Unsupported}, NEW n \in Files, NEW s \in Status,
         \/ n = FullPath(r) /\ s = "200"
         \/ n = Page /\ s = "404" /\ FullPath(r) \notin Files
  PROVE  /\ Response(r) \in Seq(Item) /\ Len(Response(r)) = Chunks[n] + 1
         /\ Response(r)[1] = StatusLine(s)
         /\ \A k \in 1..Chunks[n] : Response(r)[k + 1] = Buffer(n, k)
<1>1. Response(r) = <<StatusLine(s)>> \o Body(n)
  BY DEF Response
<1>2. <<StatusLine(s)>> \in Seq(Item) /\ Len(<<StatusLine(s)>>) = 1
  BY DEF StatusLine, Item
<1> QED BY <1>1, <1>2, BodyShape, ConcatProperties

LEMMA ResponseNoPage ==
  ASSUME NEW r \in Request \ {Unsupported}, FullPath(r) \notin Files, Page \notin Files
  PROVE  /\ Response(r) \in Seq(Item) /\ Len(Response(r)) = 2
         /\ Response(r)[1] = StatusLine("404") /\ Response(r)[2] = StatusLine("404")
  BY DEF Response, StatusLine, Item, Status

\* send() of the next item of the response.
LEMMA SendNext ==
  ASSUME TypeOK, NEW t \in Conn, NEW r, NEW k \in Nat, SentUpTo(t, r, k), k < Len(Response(r)),
         Response(r) \in Seq(Item), fd[t] \in Fd, fdTab[fd[t]] = t,
         Send(t, Response(r)[k + 1])
  PROVE  /\ SentUpTo(t, r, k + 1)'
         /\ \A u \in Conn \ {t} : sent'[u] = sent[u]
<1>1. sent'[t] = Append(sent[t], Response(r)[k + 1]) /\ \A u \in Conn \ {t} : sent'[u] = sent[u]
  BY DEF Send
<1>2. sent[t] \in Seq(Item)
  BY DEF TypeOK
<1>3. Response(r)[k + 1] \in Item
  BY LenProperties, ElementOfSeq
<1>4. /\ Len(sent'[t]) = k + 1
      /\ \A i \in 1..k : sent'[t][i] = sent[t][i]
      /\ sent'[t][k + 1] = Response(r)[k + 1]
  BY <1>1, <1>2, <1>3, AppendProperties DEF SentUpTo
<1>5. Len(Response(r)) \in Nat
  BY LenProperties
<1> QED BY <1>1, <1>4, <1>5 DEF SentUpTo

LEMMA ResponseSeq ==
  ASSUME NEW r \in Request
  PROVE  Response(r) \in Seq(Item) /\ Len(Response(r)) \in Nat /\ Len(Response(r)) >= 1
<1>1. CASE r = Unsupported
  BY <1>1, ResponseUnsupported
<1>2. CASE r # Unsupported /\ FullPath(r) \in Files
  BY <1>2, ResponseFile, BodyShape DEF Status
<1>3. CASE r # Unsupported /\ FullPath(r) \notin Files /\ Page \in Files
  BY <1>3, ResponseFile, BodyShape DEF Status
<1>4. CASE r # Unsupported /\ FullPath(r) \notin Files /\ Page \notin Files
  BY <1>4, ResponseNoPage
<1> QED BY <1>1, <1>2, <1>3, <1>4

\* What a handler has sent depends on its own state only.
LEMMA HandlerSame ==
  ASSUME NEW t \in Conn, HandlerSent(t), pc'[t] = pc[t], request'[t] = request[t],
         name'[t] = name[t], next'[t] = next[t], sent'[t] = sent[t]
  PROVE  HandlerSent(t)'
  BY DEF HandlerSent, SentUpTo, RightFile, At, Response

LEMMA ResponseInit == Init => ResponseInv
  BY Threads DEF Init, ResponseInv, HandlerSent, AllAt, Blank, At, ThreadPc, Thread

LEMMA SendStepResponse ==
  ASSUME TypeInv, OwnInv, NEW t \in Conn, HandlerSent(t), SendStep(t)
  PROVE  HandlerSent(t)' /\ \A u \in Conn \ {t} : sent'[u] = sent[u]
<1> USE Threads DEF At, Step, ThreadPc
<1>1. PICK r : r = request[t]
  OBVIOUS
<1>2. TypeOK /\ pc \in [Thread -> MainPc \cup ThreadPc] /\ request \in [Conn -> Request \cup {None}]
  BY DEF TypeInv, TypeOK
<1>3. request' = request /\ pc[t] \in Bound
  BY DEF SendStep, NotImplemented, SendHeader, SendNotFound, SendError404, SendChunk, handler, Bound
<1>4. fd[t] \in Fd /\ fdTab[fd[t]] = t
  BY <1>3 DEF OwnInv, OwnDescriptor
<1>5. CASE NotImplemented(t)
  <2>1. r = Unsupported /\ SentUpTo(t, r, 0) /\ pc'[t] = "close" /\ r \in Request
    BY <1>1, <1>2, <1>5 DEF NotImplemented, AfterError, HandlerSent, Request
  <2>2. Send(t, Response(r)[0 + 1]) /\ Response(r) \in Seq(Item) /\ Len(Response(r)) = 1
    BY <1>5, <2>1, ResponseUnsupported DEF NotImplemented
  <2>3. SentUpTo(t, r, 0 + 1)' /\ \A u \in Conn \ {t} : sent'[u] = sent[u]
    BY <1>2, <1>4, <2>1, <2>2, SendNext
  <2> QED BY <1>1, <1>3, <2>1, <2>2, <2>3 DEF HandlerSent
<1>6. CASE SendHeader(t)
  <2>1. /\ r \in Request \ {Unsupported} /\ FullPath(r) \in Files /\ name[t] = FullPath(r)
        /\ next[t] = 1 /\ SentUpTo(t, r, 0) /\ pc'[t] = "stream" /\ UNCHANGED <<name, next>>
    BY <1>1, <1>2, <1>6 DEF SendHeader, HandlerSent, handler
  <2>2. /\ Send(t, Response(r)[0 + 1]) /\ Response(r) \in Seq(Item)
        /\ 0 < Len(Response(r))
    BY <1>6, <2>1, ResponseFile, ResponseSeq DEF SendHeader, Status
  <2>3. SentUpTo(t, r, 0 + 1)' /\ \A u \in Conn \ {t} : sent'[u] = sent[u]
    BY <1>2, <1>4, <2>1, <2>2, SendNext
  <2>4. Chunks[FullPath(r)] \in Nat
    BY <2>1, BodyShape
  <2> QED BY <1>1, <1>3, <2>1, <2>3, <2>4 DEF HandlerSent, RightFile
<1>7. CASE SendNotFound(t)
  <2>1. /\ r \in Request \ {Unsupported} /\ FullPath(r) \notin Files
        /\ SentUpTo(t, r, 0) /\ pc'[t] = "openpage"
    BY <1>1, <1>2, <1>7 DEF SendNotFound, HandlerSent
  <2>2. Response(r)[1] = StatusLine("404")
    BY <2>1, ResponseFile, ResponseNoPage DEF Status
  <2>3. Send(t, Response(r)[0 + 1]) /\ Response(r) \in Seq(Item) /\ 0 < Len(Response(r))
    BY <1>7, <2>1, <2>2, ResponseSeq DEF SendNotFound
  <2>4. SentUpTo(t, r, 0 + 1)' /\ \A u \in Conn \ {t} : sent'[u] = sent[u]
    BY <1>2, <1>4, <2>1, <2>3, SendNext
  <2> QED BY <1>1, <1>3, <2>1, <2>4 DEF HandlerSent
<1>8. CASE SendError404(t)
  <2>1. /\ r \in Request \ {Unsupported} /\ FullPath(r) \notin Files /\ Page \notin Files
        /\ SentUpTo(t, r, 1) /\ pc'[t] = "close"
    BY <1>1, <1>2, <1>8 DEF SendError404, HandlerSent
  <2>2. PICK k \in Nat : k = 1
    OBVIOUS
  <2>3. Response(r) \in Seq(Item) /\ Len(Response(r)) = k + 1
    BY <2>1, <2>2, ResponseNoPage
  <2>4. Send(t, Response(r)[k + 1]) /\ SentUpTo(t, r, k) /\ k < Len(Response(r))
    BY <1>8, <2>1, <2>2, <2>3, ResponseNoPage DEF SendError404
  <2>5. SentUpTo(t, r, k + 1)' /\ \A u \in Conn \ {t} : sent'[u] = sent[u]
    BY <1>2, <1>4, <2>3, <2>4, SendNext
  <2> QED BY <1>1, <1>3, <2>1, <2>3, <2>5 DEF HandlerSent
<1>9. CASE SendChunk(t)
  <2>1. PICK k \in Nat : k = next[t]
    BY DEF TypeInv, TypeOK
  <2>2. PICK n : n = name[t]
    OBVIOUS
  <2>3. /\ r \in Request \ {Unsupported} /\ RightFile(t, r) /\ n \in Files
        /\ 1 <= k /\ k <= Chunks[n] /\ SentUpTo(t, r, k)
        /\ pc'[t] = "stream" /\ name' = name /\ next'[t] = k + 1 /\ Send(t, Buffer(n, k))
    BY <1>1, <1>2, <1>9, <2>1, <2>2
       DEF SendChunk, MoreToSend, HandlerSent, TypeInv, TypeOK, FileOpen
  <2>4. /\ Response(r) \in Seq(Item) /\ Len(Response(r)) = Chunks[n] + 1
        /\ \A i \in 1..Chunks[n] : Response(r)[i + 1] = Buffer(n, i)
    BY <2>2, <2>3, ResponseFile DEF RightFile, Status
  <2>5. Chunks[n] \in Nat
    BY <2>3, BodyShape
  <2>6. Send(t, Response(r)[k + 1]) /\ k < Len(Response(r))
    BY <2>3, <2>4, <2>5
  <2>7. SentUpTo(t, r, k + 1)' /\ \A u \in Conn \ {t} : sent'[u] = sent[u]
    BY <1>2, <1>4, <2>3, <2>4, <2>6, SendNext
  <2> QED BY <1>1, <1>3, <2>2, <2>3, <2>5, <2>7 DEF HandlerSent, RightFile
<1> QED BY <1>5, <1>6, <1>7, <1>8, <1>9 DEF SendStep

\* Steps of a handler that send nothing.
LEMMA QuietStepResponse ==
  ASSUME TypeInv, OwnInv, NEW t \in Conn, HandlerSent(t), t \notin exhausted',
         \/ Start(t) \/ RecvRequest(t) \/ RecvFails(t) \/ OpenFile(t) \/ OpenPage(t)
         \/ CloseFile(t) \/ CloseSocket(t)
  PROVE  HandlerSent(t)'
<1> USE Threads DEF At, Step, handler, ThreadPc
<1>1. PICK r : r = request[t]
  OBVIOUS
<1>2. TypeOK /\ pc \in [Thread -> MainPc \cup ThreadPc] /\ request \in [Conn -> Request \cup {None}]
  BY DEF TypeInv, TypeOK
<1>3. CASE Start(t)
  BY <1>2, <1>3 DEF Start, HandlerSent
<1>4. CASE RecvRequest(t)
  <2>1. PICK q \in Request : request'[t] = q
    BY <1>2, <1>4 DEF RecvRequest
  <2>2. pc'[t] = "parsed" /\ sent' = sent /\ sent[t] = <<>>
    BY <1>2, <1>4 DEF RecvRequest, HandlerSent
  <2>3. SentUpTo(t, q, 0)'
    BY <2>2, ResponseSeq, EmptySeq DEF SentUpTo
  <2> QED BY <2>1, <2>2, <2>3 DEF HandlerSent
<1>5. CASE RecvFails(t)
  BY <1>2, <1>5 DEF RecvFails, HandlerSent
<1>6. CASE OpenFile(t)
  <2>1. /\ r \in Request \ {Unsupported} /\ SentUpTo(t, r, 0) /\ request' = request /\ sent' = sent
        /\ \/ pc'[t] = "header" /\ Fopen(t, FullPath(r))
           \/ pc'[t] = "missing" /\ FopenFails(t, FullPath(r))
    BY <1>1, <1>2, <1>6 DEF OpenFile, HandlerSent
  <2>2. SentUpTo(t, r, 0)'
    BY <2>1 DEF SentUpTo
  <2>3. \/ /\ pc'[t] = "header" /\ FullPath(r) \in Files
           /\ name'[t] = FullPath(r) /\ next'[t] = 1
        \/ pc'[t] = "missing" /\ FullPath(r) \notin Files
    BY <1>2, <2>1, FopenType DEF FopenFails, TypeOK
  <2> QED BY <1>1, <2>1, <2>2, <2>3 DEF HandlerSent
<1>7. CASE OpenPage(t)
  <2>1. /\ r \in Request \ {Unsupported} /\ FullPath(r) \notin Files /\ SentUpTo(t, r, 1)
        /\ request' = request /\ sent' = sent
        /\ \/ pc'[t] = "stream" /\ Fopen(t, Page)
           \/ pc'[t] = "nopage" /\ FopenFails(t, Page)
    BY <1>1, <1>2, <1>7 DEF OpenPage, HandlerSent
  <2>2. SentUpTo(t, r, 1)'
    BY <2>1 DEF SentUpTo
  <2>3. \/ pc'[t] = "stream" /\ Page \in Files /\ name'[t] = Page /\ next'[t] = 1
        \/ pc'[t] = "nopage" /\ Page \notin Files
    BY <1>2, <2>1, FopenType DEF FopenFails, TypeOK
  <2> QED BY <1>1, <2>1, <2>2, <2>3, BodyShape DEF HandlerSent, RightFile
<1>8. CASE CloseFile(t)
  <2>1. /\ r \in Request \ {Unsupported} /\ RightFile(t, r) /\ next[t] <= Chunks[name[t]] + 1
        /\ SentUpTo(t, r, next[t]) /\ ~(next[t] <= Chunks[name[t]]) /\ next[t] \in Nat
        /\ request' = request /\ sent' = sent /\ pc'[t] = "close"
    BY <1>1, <1>2, <1>8 DEF CloseFile, HandlerSent, MoreToSend, TypeOK
  <2>2. Len(Response(r)) = Chunks[name[t]] + 1 /\ Chunks[name[t]] \in Nat
    BY <2>1, ResponseFile, BodyShape DEF RightFile, Status
  <2>3. SentUpTo(t, r, Len(Response(r)))
    BY <2>1, <2>2
  <2>4. SentUpTo(t, r, Len(Response(r)))'
    BY <2>1, <2>3 DEF SentUpTo
  <2> QED BY <1>1, <2>1, <2>4 DEF HandlerSent
<1>9. CASE CloseSocket(t)
  BY <1>2, <1>9 DEF CloseSocket, HandlerSent, SentUpTo, Response
<1> QED BY <1>3, <1>4, <1>5, <1>6, <1>7, <1>8, <1>9

LEMMA ResponseNext == TypeInv /\ OwnInv /\ ResponseInv /\ [Next]_vars => ResponseInv'
<1> SUFFICES ASSUME TypeInv, OwnInv, ResponseInv, [Next]_vars, Up',
                    NEW u \in Conn, u \notin exhausted'
             PROVE  HandlerSent(u)'
  BY DEF ResponseInv
<1> USE Threads DEF At, Step
<1>t. /\ pc \in [Thread -> MainPc \cup ThreadPc] /\ MainHolds
      /\ request \in [Conn -> Request \cup {None}] /\ name \in [Conn -> Files \cup {None}]
      /\ next \in [Conn -> Nat]
  BY DEF TypeInv, TypeOK
<1>1. CASE UNCHANGED vars
  BY <1>1, HandlerSame DEF vars, handler, kernel, ResponseInv, Up
<1>2. CASE Next
  <2>1. HandlerSent(u) /\ u \notin exhausted
    <3>1. Up /\ (exhausted \subseteq exhausted' \/ \E p \in {"killed", "crashed"} : End(p))
      BY <1>2 DEF Next, MainStep, Accept, CreateThread, CreateFails, Crash, ThreadStep, SendStep, Hangup,
         Start, RecvRequest, RecvFails, OpenFile, OpenPage, Fopen, FopenFails, NotImplemented,
         SendHeader, SendNotFound, SendError404, SendChunk, CloseFile, CloseSocket, Kill
    <3>2. ~\E p \in {"killed", "crashed"} : End(p)
      BY DEF End, AllAt, Up
    <3> QED BY <3>1, <3>2 DEF ResponseInv
  <2>2. CASE Accept \/ Hangup(u) \/ \E t \in Conn : Hangup(t)
    BY <1>t, <2>1, <2>2, HandlerSame DEF Accept, Hangup, handler
  <2>3. CASE CreateThread \/ CreateFails
    <3>1. /\ UNCHANGED <<handler, sent>>
          /\ pc'[u] = pc[u] \/ (pc[u] = "none" /\ pc'[u] \in {"start", "orphan"})
      BY <1>t, <2>3 DEF CreateThread, CreateFails, MainHolds
    <3>2. CASE pc'[u] = pc[u]
      BY <2>1, <3>1, <3>2, HandlerSame DEF handler
    <3>3. CASE pc'[u] # pc[u]
      BY <2>1, <3>1, <3>3 DEF HandlerSent, handler, ThreadPc
    <3> QED BY <3>2, <3>3
  <2>4. ASSUME NEW t \in Conn, SendStep(t) PROVE HandlerSent(u)'
    <3>1. CASE t = u
      BY <2>1, <2>4, <3>1, SendStepResponse
    <3>2. CASE t # u
      <4>1. fd[t] \in Fd /\ fdTab[fd[t]] = t
        BY <2>4 DEF SendStep, NotImplemented, SendHeader, SendNotFound, SendError404, SendChunk,
           OwnInv, OwnDescriptor, Bound
      <4>2. sent'[u] = sent[u]
        BY <2>4, <3>2, <4>1 DEF SendStep, NotImplemented, SendHeader, SendNotFound, SendError404,
           SendChunk, Send
      <4>3. pc'[u] = pc[u] /\ request'[u] = request[u] /\ name'[u] = name[u] /\ next'[u] = next[u]
        BY <1>t, <2>4, <3>2 DEF SendStep, NotImplemented, SendHeader, SendNotFound, SendError404,
           SendChunk, handler
      <4> QED BY <2>1, <4>2, <4>3, HandlerSame
    <3> QED BY <3>1, <3>2
  <2>5. ASSUME NEW t \in Conn,
               \/ Start(t) \/ RecvRequest(t) \/ RecvFails(t) \/ OpenFile(t) \/ OpenPage(t)
               \/ CloseFile(t) \/ CloseSocket(t)
        PROVE  HandlerSent(u)'
    <3>1. CASE t = u
      BY <2>1, <2>5, <3>1, QuietStepResponse
    <3>2. CASE t # u
      <4>1. /\ pc'[u] = pc[u] /\ request'[u] = request[u] /\ name'[u] = name[u]
            /\ next'[u] = next[u] /\ sent'[u] = sent[u]
        BY <1>t, <2>5, <3>2 DEF Start, RecvRequest, RecvFails, OpenFile, OpenPage, Fopen, FopenFails,
           CloseFile, CloseSocket, handler
      <4> QED BY <2>1, <4>1, HandlerSame
    <3> QED BY <3>1, <3>2
  <2>6. ASSUME NEW p \in {"killed", "crashed"}, End(p) PROVE FALSE
    BY <2>6 DEF End, AllAt, Up
  <2> QED BY <1>2, <2>2, <2>3, <2>4, <2>5, <2>6 DEF Next, MainStep, ThreadStep, Kill, Crash
<1> QED BY <1>1, <1>2

\* For every site: each connection carries the response to its own request and nothing else,
\* in order and, once its socket is closed, complete; unless the descriptors ran out on it.
THEOREM RespondsToItsRequest == Spec => []ResponseUnlessExhausted
<1>1. TypeInv /\ ResponseInv => ResponseUnlessExhausted
  <2> SUFFICES ASSUME TypeInv, ResponseInv, Up, NEW t \in Conn, t \notin exhausted
               PROVE  IF request[t] = None THEN sent[t] = <<>>
                      ELSE /\ IsPrefix(sent[t], Response(request[t]))
                           /\ pc[t] \in {"close", "done"} => sent[t] = Response(request[t])
    BY DEF ResponseUnlessExhausted
  <2>1. PICK r : r = request[t]
    OBVIOUS
  <2>2. HandlerSent(t) /\ pc[t] \in MainPc \cup ThreadPc /\ r \in Request \cup {None}
        /\ sent[t] \in Seq(Item) /\ next[t] \in Nat
    BY <2>1, Threads DEF ResponseInv, TypeInv, TypeOK
  <2>3. CASE r = None
    BY <2>1, <2>2, <2>3, Threads DEF HandlerSent, At, ThreadPc
  <2>4. CASE r # None
    <3>1. Response(r) \in Seq(Item) /\ Len(Response(r)) \in Nat
      BY <2>2, <2>4, ResponseSeq
    <3>2. PICK k \in Nat : SentUpTo(t, r, k) /\ (pc[t] \in {"close", "done"} => k = Len(Response(r)))
      BY <2>1, <2>2, <2>4, <3>1 DEF HandlerSent, At, ThreadPc
    <3>3. pc[t] \in {"close", "done"} => sent[t] = Response(r)
      BY <2>2, <3>1, <3>2, SeqEqual DEF SentUpTo
    <3>4. IsPrefix(sent[t], Response(r))
      BY <2>2, <3>1, <3>2 DEF SentUpTo, IsPrefix
    <3> QED BY <2>1, <2>4, <3>3, <3>4
  <2> QED BY <2>3, <2>4
<1> QED BY TypeInit, TypeNext, OwnInit, OwnNext, ResponseInit, ResponseNext, <1>1, PTL DEF Spec

-------------------------------------------------------------------------------
(* The server implements Connections, as the music server does.              *)

LEMMA MoveStep ==
  ASSUME NEW c \in Conn, NEW a, NEW b, Up' = Up, PhaseOf(c) = a, PhaseOf(c)' = b,
         \A d \in Conn \ {c} : PhaseOf(d)' = PhaseOf(d)
  PROVE  Abstract!Move(c, a, b)
  BY Zenon DEF Abstract!Move

LEMMA StutterStep ==
  ASSUME Up' = Up, \A d \in Conn : PhaseOf(d)' = PhaseOf(d)
  PROVE  UNCHANGED Abstract!vars
  BY Zenon DEF Abstract!vars

LEMMA RefinementInit == Init => Abstract!Init
<1> SUFFICES ASSUME Init PROVE Abstract!Init
  OBVIOUS
<1>1. Up = TRUE
  BY DEF Init, AllAt, Up, Thread
<1>2. \A c \in Conn : PhaseOf(c) = "new"
  BY Threads DEF Init, AllAt, Blank, Up, PhaseOf, IsOpen, At
<1> QED BY <1>1, <1>2, Zenon DEF Abstract!Init

LEMMA RefinementNext ==
  TypeInv /\ OwnInv /\ [Next]_vars => [Abstract!Next]_Abstract!vars
<1> SUFFICES ASSUME TypeInv, OwnInv, Next PROVE Abstract!Next \/ UNCHANGED Abstract!vars
  <2>1. UNCHANGED vars => UNCHANGED Abstract!vars
    BY StutterStep DEF vars, kernel, PhaseOf, IsOpen, IsServed, Up, At
  <2> QED BY <2>1
<1> USE Threads DEF At, Step, PhaseOf, IsOpen, IsServed, Bound, Up
<1>t. /\ pc \in [Thread -> MainPc \cup ThreadPc] /\ args \in [Conn -> Fd \cup {None}]
      /\ fd \in [Thread -> Fd \cup {None}] /\ fdTab \in [Fd -> Conn \cup {None}]
      /\ At(Main, "create") => conn \in Conn /\ pc[conn] = "none"
  BY DEF TypeInv, TypeOK, MainHolds
<1>o. /\ OwnDescriptor
      /\ At(Main, "create") => fd[Main] \in Fd /\ fdTab[fd[Main]] = conn
      /\ OpenHeld
  BY DEF OwnInv, MainOwns
<1>u. Up
  BY DEF Next
<1> USE DEF kernel
<1>1. CASE Accept
  <2>1. PICK c \in Conn, f \in Fd :
          /\ pc[c] = "none" /\ c \notin gone /\ fdTab[f] = None
          /\ fdTab' = [fdTab EXCEPT ![f] = c]
    BY <1>1 DEF Accept, Lowest, Free
  <2>2. Up' = Up /\ pc' = [pc EXCEPT ![Main] = "create"] /\ gone' = gone
        /\ \A d \in Conn : fd'[d] = fd[d]
    BY <1>1, <1>t, <1>u DEF Accept
  <2>3. ~\E g \in Fd : fdTab[g] = c
    BY <1>1, <1>o, <2>1 DEF Accept, OpenHeld, HeldBy
  <2>4. PhaseOf(c) = "new" /\ PhaseOf(c)' = "accepted"
    BY <2>1, <2>2, <2>3, <1>t, <1>u
  <2>5. \A d \in Conn \ {c} : PhaseOf(d)' = PhaseOf(d)
    BY <2>1, <2>2, <1>t
  <2> QED BY <1>u, <2>2, <2>4, <2>5, MoveStep, Zenon DEF Abstract!Next, Abstract!Accept
<1>2. CASE CreateThread
  <2>1. PICK c \in Conn : c = conn /\ pc[c] = "none"
    BY <1>2, <1>t DEF CreateThread
  <2>2. Up' = Up /\ PhaseOf(c) = "accepted" /\ PhaseOf(c)' = "started"
    BY <1>2, <1>t, <1>o, <1>u, <2>1 DEF CreateThread
  <2>3. \A d \in Conn \ {c} : PhaseOf(d)' = PhaseOf(d)
    BY <1>2, <1>t, <1>u, <2>1 DEF CreateThread
  <2> QED BY <1>u, <2>2, <2>3, MoveStep, Zenon DEF Abstract!Next, Abstract!StartThread
<1>3. CASE CreateFails
  <2>1. Up' = Up /\ \A d \in Conn : PhaseOf(d)' = PhaseOf(d)
    BY <1>3, <1>t, <1>o, <1>u DEF CreateFails
  <2> QED BY <2>1, StutterStep
<1>4. ASSUME NEW t \in Conn, Start(t) PROVE Abstract!Next
  <2>1. Up' = Up /\ PhaseOf(t) = "started" /\ PhaseOf(t)' = "served"
    BY <1>4, <1>t, <1>o, <1>u DEF Start, HandedOver, OwnDescriptor
  <2>2. \A d \in Conn \ {t} : PhaseOf(d)' = PhaseOf(d)
    BY <1>4, <1>t DEF Start
  <2> QED BY <1>u, <2>1, <2>2, MoveStep, Zenon DEF Abstract!Next, Abstract!Serve
<1>5. ASSUME NEW t \in Conn, RecvFails(t) \/ CloseSocket(t) PROVE Abstract!Next
  <2>0. /\ pc[t] \in Bound /\ pc' = [pc EXCEPT ![t] = "done"] /\ Close(fd[t])
        /\ fd' = fd /\ gone' = gone
    BY <1>5 DEF RecvFails, CloseSocket, CloseFailed
  <2>1. Up' = Up /\ PhaseOf(t) = "served"
    BY <2>0, <1>t, <1>o, <1>u DEF OwnDescriptor
  <2>2. ~IsOpen(t)'
    BY <2>0, <1>t, <1>o DEF Close, OpenHeld, HeldBy
  <2>3. PhaseOf(t)' = "closed"
    BY <2>0, <1>t, <2>2
  <2>4. \A d \in Conn \ {t} : PhaseOf(d)' = PhaseOf(d)
    BY <2>0, <1>t, <1>o DEF Close, OwnDescriptor
  <2> QED BY <1>u, <2>1, <2>3, <2>4, MoveStep, Zenon DEF Abstract!Next, Abstract!Finish
<1>6. ASSUME NEW t \in Conn, \/ RecvRequest(t) \/ OpenFile(t) \/ OpenPage(t) \/ SendStep(t)
                             \/ CloseFile(t)
      PROVE  UNCHANGED Abstract!vars
  <2>1. /\ UNCHANGED <<fd, kernel>>
        /\ \E q \in Bound : pc[t] \in Bound /\ pc' = [pc EXCEPT ![t] = q]
    BY <1>6, <1>t DEF RecvRequest, OpenFile, OpenPage, SendStep, NotImplemented, AfterError, SendHeader,
       SendNotFound, SendError404, SendChunk, CloseFile
  <2>2. PICK q \in Bound : pc[t] \in Bound /\ pc' = [pc EXCEPT ![t] = q]
    BY <2>1
  <2>3. Up' = Up /\ \A d \in Conn : PhaseOf(d)' = PhaseOf(d)
    BY <2>1, <2>2, <1>t
  <2> QED BY <2>3, StutterStep
<1>7. ASSUME NEW t \in Conn, Hangup(t) PROVE UNCHANGED Abstract!vars
  BY <1>7, StutterStep DEF Hangup
<1>8. ASSUME NEW p \in {"killed", "crashed"}, End(p) PROVE Abstract!Next
  <2>1. Up' = FALSE
    BY <1>8 DEF End, AllAt
  <2>2. \A d \in Conn : PhaseOf(d)' = "closed"
    BY <2>1
  <2> QED BY <1>u, <2>1, <2>2, Zenon DEF Abstract!Next, Abstract!End
<1> QED BY <1>1, <1>2, <1>3, <1>4, <1>5, <1>6, <1>7, <1>8 DEF Next, MainStep, ThreadStep, Kill, Crash

\* Every connection goes through accepted, started, served and closed, each served by its own
\* thread; one whose thread could not be created stays accepted for good.
THEOREM ServerImplementsConnections == Spec => ImplementsConnections
<1>1. Init => Abstract!Init
  BY RefinementInit
<1>2. TypeInv /\ OwnInv /\ [Next]_vars => [Abstract!Next]_Abstract!vars
  BY RefinementNext
<1> QED BY TypeInit, TypeNext, OwnInit, OwnNext, <1>1, <1>2, PTL DEF Spec, ImplementsConnections, Abstract!Spec
===============================================================================
