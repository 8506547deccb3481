----------------------------- MODULE MCChatClient -----------------------------
(* Model-checking instances of ChatClient.                                   *)
EXTENDS ChatClientProps
===============================================================================
