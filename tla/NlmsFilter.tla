----------------------------- MODULE NlmsFilter -----------------------------
(***************************************************************************)
(* NLMSFilter (dsp/nlms.cpp): process(), which the processing thread calls *)
(* for each sample of a hop whose reference is fit, and reset(), which     *)
(* main (in start()) and the IPC thread call without a lock.               *)
(*                                                                         *)
(* A reference is its number among those the filter was given, from 1;     *)
(* Silence is zero.  The weights are left out: what matters is which       *)
(* references they are multiplied with.  A call keeps history_idx in a     *)
(* register or reads it again, as the build has it; a slot out of range    *)
(* reads anything.  One reset() runs at a time.                            *)
(***************************************************************************)
EXTENDS Integers

CONSTANTS
  Taps,           \* filter_length
  MaxSamples      \* bound: references given

ASSUME NlmsAssumption == Taps \in Nat \ {0} /\ MaxSamples \in Nat

VARIABLES
  phase,          \* where process() is
  taken,          \* references given so far
  history,        \* history, the circular buffer
  history_idx,    \* where its next reference goes
  base,           \* history_idx as the call has read it
  taps,           \* what its last loop has read for each weight
  resetting,      \* what reset() clears next, or "none"
  cleared,        \* slots it has cleared
  crossed,        \* have the call and the reset() under way crossed?
  reset_at,       \* history variable: taken when the last reset() began
  settled         \* ... how many of the last references no reset() has crossed

ring == <<history, history_idx>>
call == <<phase, taken, base, taps>>
clearing == <<resetting, cleared, crossed, reset_at>>
vars == <<ring, call, clearing, settled>>

Silence == 0
Garbled == -1
Slot == 0 .. Taps - 1
Phase == {"idle", "inserted", "estimated", "adapted"}
Reference == (0 .. MaxSamples) \cup {Garbled}

\* After initialize().
Init ==
  /\ phase = "idle" /\ taken = 0
  /\ history = [k \in Slot |-> Silence] /\ history_idx = 0
  /\ base = 0 /\ taps = [i \in Slot |-> Silence]
  /\ resetting = "none" /\ cleared = 0 /\ crossed = FALSE
  /\ reset_at = 0 /\ settled = Taps

------------------------------------------------------------------------------
\* process() for one sample.

\* The reference goes to the head of the ring.
Insert ==
  /\ phase = "idle" /\ phase' = "inserted"
  /\ taken < MaxSamples
  /\ taken' = taken + 1
  /\ history' = [history EXCEPT ![history_idx] = taken']
  /\ base' = history_idx
  /\ crossed' = (resetting # "none")
  /\ settled' = IF crossed' THEN 0 ELSE IF settled < Taps THEN settled + 1 ELSE Taps
  /\ UNCHANGED <<history_idx, taps, resetting, cleared, reset_at>>

At(k) == IF k \in Slot THEN history[k] ELSE Garbled

\* The index is in a register or is read again.
Index == {base, history_idx}

\* Faulty variant: the second span starts one slot late.
ReadLate(part1) ==
  \E index \in [Slot -> Index] :
    taps' = [i \in Slot |-> IF i <= part1 THEN At(index[i] - i)
                                          ELSE At((index[i] + Taps - i + 1) % Taps)]

\* The loop over the weights is cut in two spans where the ring wraps: up to part1
\* from the newest reference backwards, then from the end of the ring.
Read(part1) ==
  \E index \in [Slot -> Index] :
    taps' = [i \in Slot |-> IF i <= part1 THEN At(index[i] - i) ELSE At(index[i] + Taps - i)]

\* The estimate and the norm ...
Estimate ==
  /\ phase = "inserted" /\ phase' = "estimated"
  /\ base' \in Index
  /\ Read(base')
  /\ UNCHANGED <<taken, ring, clearing, settled>>

\* ... and the update of the weights, which reads the history once more.
Adapt ==
  /\ phase = "estimated" /\ phase' = "adapted"
  /\ Read(base)
  /\ UNCHANGED <<taken, base, ring, clearing, settled>>

Advance ==
  /\ phase = "adapted" /\ phase' = "idle"
  /\ \E index \in Index : history_idx' = (index + 1) % Taps
  /\ crossed' = (crossed /\ resetting # "none")
  /\ UNCHANGED <<taken, base, taps, history, resetting, cleared, reset_at, settled>>

------------------------------------------------------------------------------
\* reset(): the weights, the history from its first slot on, then the index.

ResetBegins ==
  /\ resetting = "none" /\ resetting' = "history"
  /\ reset_at' = taken
  /\ IF phase = "idle" THEN UNCHANGED <<crossed, settled>>
                       ELSE crossed' = TRUE /\ settled' = 0
  /\ UNCHANGED <<ring, call, cleared>>

ResetSlot ==
  /\ resetting = "history"
  /\ history' = [history EXCEPT ![cleared] = Silence]
  /\ IF cleared = Taps - 1
       THEN resetting' = "index" /\ cleared' = 0
       ELSE cleared' = cleared + 1 /\ UNCHANGED resetting
  /\ UNCHANGED <<history_idx, call, crossed, reset_at, settled>>

\* A reset() that no call has crossed leaves silence before the next reference.
ResetIndex ==
  /\ resetting = "index" /\ resetting' = "none"
  /\ history_idx' = 0
  /\ crossed' = (crossed /\ phase # "idle")
  /\ settled' = IF crossed THEN settled ELSE Taps
  /\ UNCHANGED <<history, call, cleared, reset_at>>

Next == Insert \/ Estimate \/ Adapt \/ Advance \/ ResetBegins \/ ResetSlot \/ ResetIndex

Spec == Init /\ [][Next]_vars

------------------------------------------------------------------------------
\* Properties.

TypeOK ==
  /\ phase \in Phase
  /\ taken \in 0 .. MaxSamples /\ reset_at \in 0 .. MaxSamples
  /\ history \in [Slot -> Reference] /\ taps \in [Slot -> Reference]
  /\ {history_idx, base, cleared} \subseteq Slot
  /\ resetting \in {"none", "history", "index"} /\ crossed \in BOOLEAN
  /\ settled \in 0 .. Taps

\* The reference given i samples ago, or the silence before the last reset.
Due(i) == IF taken - i > reset_at THEN taken - i ELSE Silence

\* The estimate and the update take weight i with the reference given i samples ago,
\* wherever the ring has wrapped, for as many samples back as no reset() has crossed;
\* a reset() between two samples loses none.
TapsAligned ==
  phase \in {"estimated", "adapted"} => \A i \in Slot : i < settled => taps[i] = Due(i)

\* Documented (nlms.hpp): the estimate is the product of the weights and the last
\* references, each in its place unless a reset() has cleared it, here for every call
\* but those that a reset() has crossed.
ExactProduct ==
  phase \in {"estimated", "adapted"} /\ ~crossed => \A i \in Slot : taps[i] \in {Due(i), Silence}
=============================================================================
