------------------------------ MODULE MCFrontEnd ------------------------------
(***************************************************************************)
(* FrontEnd for TLC, with three kinds of hop: silence, speech on which the *)
(* impulse detector is unsure, and a crack on which the voice detector is. *)
(***************************************************************************)
EXTENDS FrontEnd

Kind(wave, energy, flatness, zcr, transient) ==
  [wave |-> wave, energy |-> energy, flatness |-> flatness, zcr |-> zcr, transient |-> transient]

Kinds ==
  {Silent, Kind(<<8, -8>>, -20, 1, 20, 50), Kind(<<9, 0>>, -10, 80, 45, 100)}
==============================================================================
