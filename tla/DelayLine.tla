------------------------------ MODULE DelayLine ------------------------------
(***************************************************************************)
(* What the enhancement branch (dsp/stft.cpp, ai/onnx_engine.cpp) promises *)
(* to the fusion controller: a delay line.  It moves by HopSize places for *)
(* each hop of input, whose samples fill the first of these; the others    *)
(* keep what they held.  Each hop is answered by as many samples from the  *)
(* front; or, from the first failure on and for ever, by that hop itself.  *)
(* The line may be silenced; if a hop comes in or is unanswered then, what *)
(* is on the line is lost.                                                 *)
(***************************************************************************)
EXTENDS Integers

CONSTANTS Sample, Silence, Garbled, Length, HopSize

VARIABLES
  line,       \* the last places of the input, oldest first
  settled,    \* how many of the newest are known
  fed,        \* a hop has come in and is not yet answered
  count,      \* its samples
  out,        \* the last answers
  raw,        \* hops are passed through
  clearing    \* the line is being silenced

vars == <<line, settled, fed, count, out, raw, clearing>>

Window == 0..(Length - 1)
Hop == 0..(HopSize - 1)
Value == Sample \cup {Silence, Garbled}

Init ==
  /\ line = [n \in Window |-> Silence]
  /\ settled = Length
  /\ fed = FALSE /\ count = 0
  /\ out = [i \in Hop |-> Silence]
  /\ raw \in BOOLEAN
  /\ clearing = FALSE

Lost == line' \in [Window -> Value] /\ settled' = 0

Feed(hop, samples) ==
  /\ ~fed
  /\ fed' = TRUE
  /\ count' = samples
  /\ \/ /\ ~clearing
        /\ line' = [n \in Window |->
             IF n < Length - HopSize THEN line[n + HopSize]
             ELSE IF n - (Length - HopSize) < samples THEN hop[n - (Length - HopSize)]
             ELSE line[n]]
        /\ settled' = IF settled + HopSize < Length THEN settled + HopSize ELSE Length
     \/ clearing /\ Lost
  /\ UNCHANGED <<out, raw, clearing>>

\* Samples of the line from a place on, as far as they are known.
AnswerFrom(place) ==
  /\ fed
  /\ fed' = FALSE
  /\ out' \in [Hop -> Value]
  /\ \A i \in Hop :
       /\ i < count /\ place + i >= Length - settled => out'[i] = line[place + i]
       /\ i >= count => out'[i] = out[i]
  /\ UNCHANGED <<line, settled, count, clearing>>

Answer == ~raw /\ AnswerFrom(0) /\ UNCHANGED raw

AnswerRaw == AnswerFrom(Length - HopSize) /\ raw' = TRUE

BeginClear ==
  /\ ~clearing
  /\ clearing' = TRUE
  /\ UNCHANGED <<line, settled, fed, count, out, raw>>

Clear ==
  /\ clearing /\ ~fed
  /\ line' = [n \in Window |-> Silence]
  /\ UNCHANGED <<settled, fed, count, out, raw, clearing>>

\* A hop crosses.
Lose ==
  /\ clearing' = TRUE
  /\ Lost
  /\ UNCHANGED <<fed, count, out, raw>>

EndClear ==
  /\ clearing
  /\ clearing' = FALSE
  /\ \/ settled = 0 /\ UNCHANGED settled
     \/ line = [n \in Window |-> Silence] /\ settled' = Length
  /\ UNCHANGED <<line, fed, count, out, raw>>

Next ==
  \/ \E samples \in 1..HopSize : \E hop \in [0..(samples - 1) -> Sample] : Feed(hop, samples)
  \/ Answer \/ AnswerRaw
  \/ BeginClear \/ Clear \/ Lose \/ EndClear

Spec == Init /\ [][Next]_vars
=============================================================================
