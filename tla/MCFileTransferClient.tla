------------------------- MODULE MCFileTransferClient -------------------------
(* Model-checking instances of FileTransferClient.                           *)
EXTENDS FileTransferClientProps
===============================================================================
