--------------------------- MODULE MCSpectralPath ---------------------------
(***************************************************************************)
(* SpectralPath for TLC.  Its bound on the input is a constant; windows of *)
(* five samples and hops of two overlap unevenly, as 512 and 80 do.        *)
(***************************************************************************)
EXTENDS SpectralPath
=============================================================================
