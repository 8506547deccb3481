------------------------ MODULE FileTransferClientProps -----------------------
(* What the file transfer client promises.                                   *)
EXTENDS FileTransferClient, SequencesExt

\* However the stream is cut into recv() results, and whatever fwrite() loses: the name is what
\* the first recv() returned, up to its first byte 0; a byte it returned is never in the file,
\* and the others are there at most once and in the order sent. As long as nothing written was
\* lost, the file is all that has been received after the name. When the client reports
\* success, it has received all that the server has sent.
NothingDropped ==
  /\ filename = Positions(0, IF nul <= filenameLength THEN nul - 1 ELSE filenameLength)
  /\ \A j \in 1..Len(file) : filenameLength < file[j] /\ file[j] <= received
  /\ \A i, j \in 1..Len(file) : i < j => file[i] < file[j]
  /\ ~short /\ transfer_pc # "write" => file = Positions(filenameLength, received)
  /\ transfer_pc = "success" => received = pushed

\* The client ends once the connection has, whatever it was doing and however much is unread:
\* a server that dies does not leave it in recv().
TransferEnds == ended # "no" ~> Done
===============================================================================
