---------------------------- MODULE MCCapturePath ----------------------------
(***************************************************************************)
(* CapturePath for TLC.  The bounds on periods and restarts are constants  *)
(* of the module; the configurations choose a topology, rings of one or    *)
(* two chunks, and a period of two hops as realtime_pipeline.cpp computes. *)
(***************************************************************************)
EXTENDS CapturePath
=============================================================================
