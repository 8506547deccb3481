-------------------------- MODULE MCMicrophoneServer --------------------------
(* Model-checking instances of MicrophoneServer.                             *)
EXTENDS MicrophoneServerProps
===============================================================================
