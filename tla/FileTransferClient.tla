-------------------------- MODULE FileTransferClient --------------------------
(***************************************************************************)
(* The file transfer client, file_transfer/client.c: it connects, takes    *)
(* what the first recv() returns for the name of the file and everything   *)
(* that follows, until the end of the connection, for its content.         *)
(*                                                                         *)
(* The server is external: it sends the name and then the content, byte    *)
(* 1, 2, ... of one stream, and its connection may end anywhere. A byte is  *)
(* its position in that stream, and nul is the position of the first byte  *)
(* that is 0: what is received for the name is used as a C string. recv()  *)
(* returns any number of the bytes that have arrived, up to BUFFER_SIZE;   *)
(* fwrite() and fclose() may lose bytes, a full disk say. The definitions  *)
(* named ...Ignored and ...Retried are plausible bugs, used only to see    *)
(* that a property would notice them.                                      *)
(***************************************************************************)
EXTENDS Integers, Sequences

CONSTANTS BUFFER_SIZE, NameLength, ContentLength

ASSUME TransferAssumption ==
  /\ BUFFER_SIZE \in Nat \ {0} /\ NameLength \in Nat \ {0} /\ ContentLength \in Nat

Total == NameLength + ContentLength
Positions(a, b) == [i \in 1..(b - a) |-> a + i]     \* bytes a+1 .. b of the stream

VARIABLES
  transfer_pc, \* of main()
  filenameLength, \* bytes recv() returned for the name
  filename,    \* the name as a C string, and so the name of the file
  file,        \* bytes written to the file
  short,       \* bytes given to fwrite() have been lost (auxiliary)
  buffer,      \* what the last recv() left in the buffer
  bytesRead,   \* its result
  pushed,      \* bytes the server has sent
  received,    \* bytes recv() has returned
  ended,       \* the server's side of the connection: "no", "closed" or "reset"
  nul          \* where the server's stream has its first byte 0; Total + 1 if it has none

stream == <<pushed, ended, nul>>
name == <<filenameLength, filename>>
content == <<file, short>>
transferVars == <<transfer_pc, name, content, buffer, bytesRead, received, stream>>

TransferPc == {"connect", "name", "create", "recv", "write", "success", "failure"}

TransferTypeOK ==
  /\ transfer_pc \in TransferPc /\ filenameLength \in 0..BUFFER_SIZE
  /\ filename \in Seq(1..Total) /\ file \in Seq(1..Total) /\ short \in BOOLEAN
  /\ buffer \in [1..BUFFER_SIZE -> 0..Total] /\ bytesRead \in -1..BUFFER_SIZE
  /\ pushed \in 0..Total /\ received \in 0..pushed /\ ended \in {"no", "closed", "reset"}
  /\ nul \in 1..(Total + 1)

TransferInit ==
  /\ transfer_pc = "connect" /\ filenameLength = 0 /\ filename = <<>> /\ file = <<>> /\ short = FALSE
  /\ buffer = [i \in 1..BUFFER_SIZE |-> 0] /\ bytesRead = 0
  /\ pushed = 0 /\ received = 0 /\ ended = "no"
  /\ nul \in 1..(Total + 1)

Done == transfer_pc \in {"success", "failure"}
Go(p, q) == transfer_pc = p /\ transfer_pc' = q

-------------------------------------------------------------------------------
(* The server.                                                               *)

Push ==
  /\ ended = "no" /\ transfer_pc # "connect" /\ \E n \in (pushed + 1)..Total : pushed' = n
  /\ UNCHANGED <<transfer_pc, name, content, buffer, bytesRead, received, ended, nul>>

\* The server has finished, has died, or the connection is cut.
EndOfConnection ==
  /\ ended = "no" /\ transfer_pc # "connect" /\ ended' \in {"closed", "reset"}
  /\ UNCHANGED <<transfer_pc, name, content, buffer, bytesRead, received, pushed, nul>>

-------------------------------------------------------------------------------
(* main()                                                                    *)

ConnectTransfer ==
  /\ Go("connect", "name") \/ Go("connect", "failure")
  /\ UNCHANGED <<name, content, buffer, bytesRead, received, stream>>

\* recv() returns n bytes: some of those that have arrived.
Arrived(n) == n \in 1..BUFFER_SIZE /\ received + n <= pushed

\* recv() reports the end: 0, or an error, which may overtake what has arrived.
AtEnd == ended # "no" /\ (ended = "reset" \/ received = pushed)

RecvName ==
  /\ \E n \in 1..BUFFER_SIZE :
       /\ Arrived(n) /\ Go("name", "create")
       /\ filenameLength' = n /\ received' = received + n
       /\ filename' = Positions(0, IF nul <= n THEN nul - 1 ELSE n)
  /\ UNCHANGED <<content, buffer, bytesRead, stream>>

RecvNameFails ==
  /\ Go("name", "failure") /\ AtEnd
  /\ UNCHANGED <<name, content, buffer, bytesRead, received, stream>>

\* fopen() of "./" and the name, which fails for an empty name and may fail for any.
Create ==
  /\ \/ Go("create", "recv") /\ filename # <<>>
     \/ Go("create", "failure")
  /\ UNCHANGED <<name, content, buffer, bytesRead, received, stream>>

RecvContent ==
  /\ \E n \in 1..BUFFER_SIZE :
       /\ Arrived(n) /\ Go("recv", "write") /\ bytesRead' = n /\ received' = received + n
       /\ buffer' = [i \in 1..BUFFER_SIZE |-> IF i <= n THEN received + i ELSE buffer[i]]
  /\ UNCHANGED <<name, content, stream>>

\* fwrite() and fclose() leave all of data in the file, or they lose a tail of it and report
\* an error, which nothing looks at.
Kept(data) ==
  \E n \in 0..Len(data) :
    /\ file' = SubSeq(data, 1, n)
    /\ short' = (short \/ n < Len(data))

WriteContent ==
  /\ Go("write", "recv") /\ Kept(file \o SubSeq(buffer, 1, bytesRead))
  /\ UNCHANGED <<name, buffer, bytesRead, received, stream>>

\* 0 ends the loop with success, whoever closed the connection and why, and whatever became
\* of the bytes; an error is a failure. Both ends close the file.
OutcomeIgnored == "success"
OutcomeRetried == IF ended = "closed" THEN "recv" ELSE "failure"
Outcome == IF ended = "closed" THEN "success" ELSE "failure"

RecvEnd ==
  /\ AtEnd /\ Go("recv", Outcome) /\ bytesRead' = (IF ended = "closed" THEN 0 ELSE -1)
  /\ Kept(file)
  /\ UNCHANGED <<name, buffer, received, stream>>

-------------------------------------------------------------------------------
ClientStep == ConnectTransfer \/ RecvName \/ RecvNameFails \/ Create \/ RecvContent \/ WriteContent \/ RecvEnd

TransferNext == ~Done /\ (ClientStep \/ Push \/ EndOfConnection)

TransferSpec == TransferInit /\ [][TransferNext]_transferVars

\* The client runs; the server need not send anything, nor close.
FairTransferSpec == TransferSpec /\ WF_transferVars(~Done /\ ClientStep)
===============================================================================
