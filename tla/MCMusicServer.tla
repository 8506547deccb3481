---------------------------- MODULE MCMusicServer -----------------------------
(* Model-checking instances of MusicServer.                                  *)
EXTENDS MusicServerProps, TLC

Symmetry == Permutations(Conn)
===============================================================================
