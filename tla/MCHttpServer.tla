----------------------------- MODULE MCHttpServer -----------------------------
(* Model-checking instances of HttpServer.                                   *)
EXTENDS HttpServerProps, TLC

Symmetry == Permutations(Conn)

\* An index of two buffers, an error page of one.
Site == Index :> 2 @@ Page :> 1
===============================================================================
