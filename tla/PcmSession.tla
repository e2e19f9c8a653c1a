----------------------------- MODULE PcmSession -----------------------------
(***************************************************************************)
(* What AlsaBackend (embedded/audio/alsa_backend.cpp) promises to ALSA     *)
(* over any number of starts and stops: the audio threads use the pcm      *)
(* handles only while these are open, each thread runs once at a time,     *)
(* comes only while no stop is asked for and goes only when one is, and    *)
(* the handles are closed when the last thread is gone.                    *)
(***************************************************************************)
CONSTANT User   \* the audio threads

VARIABLES
  held,      \* the pcm handles are open
  users,     \* the threads that use them
  asked      \* the threads are asked to stop

vars == <<held, users, asked>>

\* initialize() has opened the devices.
Init ==
  /\ held = TRUE
  /\ users = {}
  /\ asked = FALSE

Open ==
  /\ ~held /\ asked
  /\ held' = TRUE
  /\ UNCHANGED <<users, asked>>

\* A start(): the request of the last stop() is withdrawn before a thread exists.
Arm ==
  /\ held /\ users = {}
  /\ asked' = FALSE
  /\ UNCHANGED <<held, users>>

Attach(t) ==
  /\ held /\ ~asked
  /\ t \notin users
  /\ users' = users \cup {t}
  /\ UNCHANGED <<held, asked>>

Ask ==
  /\ held
  /\ asked' = TRUE
  /\ UNCHANGED <<held, users>>

Detach(t) ==
  /\ held /\ asked
  /\ t \in users
  /\ users' = users \ {t}
  /\ UNCHANGED <<held, asked>>

Close ==
  /\ held /\ asked /\ users = {}
  /\ held' = FALSE
  /\ UNCHANGED <<users, asked>>

Next ==
  \/ Open \/ Arm \/ Ask \/ Close
  \/ \E t \in User : Attach(t) \/ Detach(t)

Spec == Init /\ [][Next]_vars
=============================================================================
