---------------------------- MODULE MCSessionLog ----------------------------
(***************************************************************************)
(* SessionLog for TLC: a queue of two, frames enough to fill it again and  *)
(* again, and the two threads that call stop() in the program.             *)
(***************************************************************************)
EXTENDS SessionLog
=============================================================================
