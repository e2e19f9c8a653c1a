---------------------------- MODULE MCNlmsFilter ----------------------------
(***************************************************************************)
(* NlmsFilter for TLC: a ring of three that wraps three times over.        *)
(***************************************************************************)
EXTENDS NlmsFilter
=============================================================================
