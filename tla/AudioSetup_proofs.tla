--------------------------- MODULE AudioSetup_proofs ---------------------------
(***************************************************************************)
(* The devices, the internal rate and the decimator's window, proved for   *)
(* every set of files, filter length, chunk size and number of starts.     *)
(***************************************************************************)
EXTENDS AudioSetup, TLAPS

Steps == {"initialize", "done", "failed", "exit", "idle", "run"} \cup Role

LEMMA NextRoleType ==
  ASSUME NEW role \in Role
  PROVE  NextRole(role) \in Role \cup {"done"}
BY DEF NextRole, Role

LEMMA ClosedType ==
  ASSUME opened \in [Role -> Int], NEW roles, Closed(roles)
  PROVE  opened' \in [Role -> Int]
BY DEF Closed

\* The types of the variables the calls and the capture thread share.
THEOREM TypeCorrect == Spec => []TypeOK
<1>1. Init => TypeOK
  <2> SUFFICES ASSUME Init PROVE TypeOK
    OBVIOUS
  <2>1. pc \in Steps /\ caller \in {"main", "start"} /\ handle \subseteq Role /\ running \in BOOLEAN
    BY Zenon DEF Init, Steps
  <2>2. opened \in [Role -> Int]
    BY DEF Init
  <2>3. {starts, captured, produced, pending, filled} \subseteq Nat /\ decimation \in 0 .. 2
    BY DEF Init
  <2>4. /\ ring \in [0 .. Taps - 1 -> Int] /\ history_index \in 0 .. Taps - 1
        /\ recent \in [1 .. Taps -> Int]
    BY AudioSetupAssumption DEF Init, Silence, NoSample
  <2> QED BY <2>1, <2>2, <2>3, <2>4 DEF TypeOK, Steps
<1>2. TypeOK /\ [Next]_vars => TypeOK'
  <2> SUFFICES ASSUME TypeOK, [Next]_vars PROVE TypeOK'
    OBVIOUS
  <2>1. CASE Initialize \/ Failed \/ Initialized
    BY <2>1 DEF Initialize, Failed, Initialized, TypeOK, devices, capture, decimator, Role
  <2>8. CASE Start
    <3>1. pc' \in {"run", "initialize"} /\ starts' \in Nat /\ caller' = "start"
      BY <2>8 DEF Start, TypeOK
    <3> QED BY <2>8, <3>1 DEF Start, TypeOK, devices, capture, decimator
  <2>2. CASE Run
    <3>1. /\ ring' \in [0 .. Taps - 1 -> Int] /\ history_index' \in 0 .. Taps - 1
          /\ recent' \in [1 .. Taps -> Int] /\ decimation' \in 0 .. 2
      BY <2>2, AudioSetupAssumption DEF Run, Silence, NoSample
    <3>2. running' \in BOOLEAN
      BY <2>2, Zenon DEF Run
    <3> QED BY <2>2, <3>1, <3>2 DEF Run, TypeOK, devices
  <2>3. CASE Stop
    BY <2>3, ClosedType DEF Stop, TypeOK, capture, decimator
  <2>4. CASE Convert
    <3>1. Taps \in Nat \ {0} /\ history_index \in 0 .. Taps - 1 /\ pending \in Nat /\ pending > 0
          /\ captured \in Nat /\ filled \in Nat /\ produced \in Nat /\ decimation \in 0 .. 2
      BY <2>4, AudioSetupAssumption DEF Convert, TypeOK
    <3> DEFINE sample == captured - pending + 1
    <3>2. sample \in Int
      BY <3>1
    <3> HIDE DEF sample
    <3>3. history_index' \in 0 .. Taps - 1 /\ decimation' \in 0 .. 2
      BY <2>4, <3>1 DEF Convert, Phase
    <3>4. ring' = [ring EXCEPT ![history_index] = sample]
          /\ recent' = [i \in 1 .. Taps |-> IF i = 1 THEN sample ELSE recent[i - 1]]
      BY <2>4 DEF Convert, sample
    <3>5. ring' \in [0 .. Taps - 1 -> Int] /\ recent' \in [1 .. Taps -> Int]
      BY <3>1, <3>2, <3>4 DEF TypeOK
    <3>6. filled + 1 \in Nat /\ filled + 0 \in Nat
          /\ produced + (filled + 1) \in Nat /\ produced + (filled + 0) \in Nat
      BY <3>1
    <3>7. pending' \in Nat /\ filled' \in Nat /\ produced' \in Nat
      BY <2>4, <3>1, <3>6 DEF Convert
    <3> QED BY <2>4, <3>3, <3>5, <3>7 DEF Convert, TypeOK, devices
  <2>5. ASSUME NEW role \in Role, OpenDevice(role) \/ OpenFails(role)
        PROVE  TypeOK'
    <3>1. pc' \in Steps
      BY <2>5, NextRoleType DEF OpenDevice, OpenFails, Steps
    <3>2. opened' \in [Role -> Int]
      BY <2>5, ClosedType DEF OpenDevice, OpenFails, TypeOK
    <3>3. handle' \subseteq Role
      BY <2>5 DEF OpenDevice, OpenFails, TypeOK
    <3> QED BY <2>5, <3>1, <3>2, <3>3 DEF OpenDevice, OpenFails, TypeOK, Steps, capture, decimator
  <2>6. ASSUME NEW frames \in 1 .. MaxRead, Read(frames)
        PROVE  TypeOK'
    <3>1. /\ frames \in Nat /\ captured \in Nat /\ produced \in Nat
          /\ pending \in Nat /\ filled \in Nat
      BY <2>6, AudioSetupAssumption DEF TypeOK
    <3>2. captured' = captured + frames /\ produced' \in {produced, produced + frames}
          /\ pending' \in {pending, frames} /\ filled' \in {filled, 0}
      BY <2>6 DEF Read
    <3>3. {captured', produced', pending', filled'} \subseteq Nat
      BY <3>1, <3>2
    <3> QED BY <2>6, <3>3 DEF Read, TypeOK, devices, decimator
  <2>7. CASE UNCHANGED vars
    BY <2>7 DEF vars, TypeOK, devices, capture, decimator
  <2> QED BY <2>1, <2>2, <2>3, <2>4, <2>5, <2>6, <2>7, <2>8 DEF Next
<1> QED BY <1>1, <1>2, PTL DEF Spec

------------------------------------------------------------------------------
\* The devices that are open at each point of initialize() and start().
HandleInv ==
  /\ \A r \in Role : opened[r] = IF r \in handle THEN 1 ELSE 0
  /\ pc \in {"initialize", "primary", "failed", "exit"} => handle = {}
  /\ pc = "reference" => Topology = "two_devices" /\ handle = {"primary"}
  /\ pc = "playback" => handle = Needed \ {"playback"}
  /\ pc \in {"done", "run"} => handle = Needed
  /\ pc = "idle" => handle \in {{}, Needed}
  /\ running => pc = "idle" /\ handle = Needed

LEMMA HandleStep ==
  ASSUME TypeOK, HandleInv, [Next]_vars
  PROVE  HandleInv'
<1>1. Topology' = Topology /\ Needed' = Needed
  BY DEF Next, Initialize, Failed, Initialized, Start, Run, Stop, Convert, OpenDevice,
         OpenFails, Read, vars, Topology, Needed
<1>2. /\ Needed = Role \/ (Needed = Role \ {"reference"} /\ Topology # "two_devices")
      /\ Topology # "two_devices" => Needed = Role \ {"reference"}
      /\ opened \in [Role -> Int] /\ handle \subseteq Role
  BY DEF Needed, TypeOK
<1>3. CASE Initialize \/ Failed \/ Initialized
  BY <1>1, <1>3 DEF Initialize, Failed, Initialized, HandleInv, devices, Role
<1>4. CASE Start
  <2>1. handle \in {{}, Needed} /\ ~running /\ UNCHANGED <<opened, handle, running>>
        /\ pc' = IF {"primary", "playback"} \subseteq handle THEN "run" ELSE "initialize"
    BY <1>4 DEF Start, HandleInv, devices
  <2>2. CASE handle = Needed
    <3>1. {"primary", "playback"} \subseteq handle
      BY <1>2, <2>2 DEF Role
    <3> QED BY <1>1, <2>1, <2>2, <3>1 DEF HandleInv
  <2>3. CASE handle = {}
    <3>1. pc' = "initialize"
      BY <2>1, <2>3
    <3> QED BY <1>1, <2>1, <2>3, <3>1 DEF HandleInv
  <2> QED BY <2>1, <2>2, <2>3
<1>5. CASE Run
  BY <1>1, <1>5 DEF Run, HandleInv, devices
<1>6. CASE Stop
  <2>1. \A r \in Role : opened'[r] = 0
    BY <1>2, <1>6 DEF Stop, Closed, HandleInv
  <2> QED BY <1>1, <1>6, <2>1 DEF Stop, HandleInv
<1>7. CASE Convert
  BY <1>1, <1>7 DEF Convert, HandleInv, devices
<1>8. ASSUME NEW role \in Role, OpenDevice(role)
      PROVE  HandleInv'
  <2>1. /\ pc = role /\ pc' = NextRole(role) /\ handle' = handle \cup {role}
        /\ opened' = [opened EXCEPT ![role] = @ + 1] /\ running' = running /\ ~running
    BY <1>8 DEF OpenDevice, HandleInv, Role
  <2>2. role \notin handle
    BY <1>2, <2>1 DEF HandleInv, Role
  <2>3. \A r \in Role : opened'[r] = IF r \in handle' THEN 1 ELSE 0
    BY <1>2, <2>1, <2>2 DEF HandleInv
  <2>4. CASE role = "primary"
    BY <1>1, <1>2, <2>1, <2>3, <2>4 DEF HandleInv, NextRole, Role
  <2>5. CASE role = "reference"
    BY <1>1, <1>2, <2>1, <2>3, <2>5 DEF HandleInv, NextRole, Role, Needed
  <2>6. CASE role = "playback"
    BY <1>1, <1>2, <2>1, <2>3, <2>6 DEF HandleInv, NextRole, Role
  <2> QED BY <2>4, <2>5, <2>6 DEF Role
<1>9. ASSUME NEW role \in Role, OpenFails(role)
      PROVE  HandleInv'
  <2>1. \A r \in Role : opened'[r] = 0
    BY <1>2, <1>9 DEF OpenFails, Closed, HandleInv
  <2>2. pc' = "failed" /\ handle' = {} /\ ~running'
    BY <1>9 DEF OpenFails, HandleInv, Role
  <2> QED BY <1>1, <2>1, <2>2 DEF HandleInv
<1>10. ASSUME NEW frames \in 1 .. MaxRead, Read(frames)
       PROVE  HandleInv'
  BY <1>1, <1>10 DEF Read, HandleInv, devices
<1>11. CASE UNCHANGED vars
  BY <1>1, <1>11 DEF vars, HandleInv, devices
<1> QED BY <1>3, <1>4, <1>5, <1>6, <1>7, <1>8, <1>9, <1>10, <1>11 DEF Next

\* Whatever open fails, in whatever call (the error paths of
\* AlsaBackend::initialize and configure_pcm_handle).
THEOREM HandlesClosed == Spec => []NoHandleLeak
<1>1. Init => HandleInv
  BY DEF Init, HandleInv, Role
<1>2. TypeOK /\ HandleInv /\ [Next]_vars => HandleInv'
  BY HandleStep
<1>3. HandleInv => NoHandleLeak
  BY DEF HandleInv, NoHandleLeak
<1> QED BY <1>1, <1>2, <1>3, TypeCorrect, PTL DEF Spec

------------------------------------------------------------------------------
\* A sum of two slots of Decimator3's ring wraps at most once.
LEMMA SlotSum ==
  ASSUME NEW x \in 0 .. Taps - 1, NEW y \in 0 .. Taps
  PROVE  (x + y) % Taps = IF x + y < Taps THEN x + y ELSE x + y - Taps
<1>1. Taps \in Nat \ {0}
  BY AudioSetupAssumption
<1> DEFINE z == x + y
<1>2. z \in Nat /\ z < 2 * Taps
  BY <1>1
<1>3. z = Taps * (z \div Taps) + (z % Taps) /\ z % Taps \in 0 .. Taps - 1 /\ z \div Taps \in Int
  BY <1>1, <1>2
<1> DEFINE d == z \div Taps
<1>4. d = 0 \/ d = 1
  <2>1. CASE d >= 2
    <3>1. Taps * d >= 2 * Taps
      BY <1>1, <1>3, <2>1
    <3> QED BY <1>1, <1>2, <1>3, <3>1
  <2>2. CASE d <= -1
    <3>1. Taps * d <= -Taps
      BY <1>1, <1>3, <2>2
    <3> QED BY <1>1, <1>2, <1>3, <3>1
  <2> QED BY <1>3, <2>1, <2>2
<1> HIDE DEF z
<1>5. z % Taps = IF z < Taps THEN z ELSE z - Taps
  BY <1>1, <1>2, <1>3, <1>4
<1> QED BY <1>1, <1>2, <1>5 DEF z

\* A frame moves every tap by one slot and takes the place of the oldest.
LEMMA ConvertStep ==
  ASSUME TypeOK, WindowExact, Convert
  PROVE  WindowExact'
<1> DEFINE sample == captured - pending + 1
<1>1. Taps \in Nat \ {0} /\ history_index \in 0 .. Taps - 1 /\ Taps \in Int
  BY AudioSetupAssumption DEF TypeOK
<1>2. history_index' = IF history_index = Taps - 1 THEN 0 ELSE history_index + 1
  <2>1. 1 \in 0 .. Taps /\ history_index' = (history_index + 1) % Taps
    BY <1>1 DEF Convert
  <2>2. (history_index + 1) % Taps
          = IF history_index + 1 < Taps THEN history_index + 1 ELSE history_index + 1 - Taps
    BY <1>1, <2>1, SlotSum
  <2> QED BY <1>1, <2>1, <2>2
<1>3. \A k \in 0 .. Taps - 1 : ring'[k] = IF k = history_index THEN sample ELSE ring[k]
  BY <1>1 DEF Convert, TypeOK
<1>4. \A i \in 1 .. Taps : recent'[i] = IF i = 1 THEN sample ELSE recent[i - 1]
  BY DEF Convert
<1>5. \A t \in 0 .. Taps - 1 : ring[(history_index + t) % Taps] = recent[Taps - t]
  BY DEF WindowExact, Tap
<1> HIDE DEF sample
<1>6. ASSUME NEW t \in 0 .. Taps - 1
      PROVE  ring'[(history_index' + t) % Taps] = recent'[Taps - t]
  <2>1. (history_index' + t) % Taps
          = IF history_index' + t < Taps THEN history_index' + t ELSE history_index' + t - Taps
    <3>1. history_index' \in 0 .. Taps - 1 /\ t \in 0 .. Taps
      BY <1>1, <1>2
    <3> QED BY <3>1, SlotSum
  <2>2. CASE t = Taps - 1
    <3>1. (history_index' + t) % Taps = history_index
      BY <1>1, <1>2, <2>1, <2>2
    <3>2. Taps - t = 1
      BY <1>1, <2>2
    <3> QED BY <1>1, <1>3, <1>4, <3>1, <3>2
  <2>3. CASE t # Taps - 1
    <3>1. t + 1 \in 0 .. Taps - 1
      BY <1>1, <2>3
    <3>2. (history_index + (t + 1)) % Taps
            = IF history_index + (t + 1) < Taps THEN history_index + (t + 1)
              ELSE history_index + (t + 1) - Taps
      <4>1. t + 1 \in 0 .. Taps
        BY <1>1, <3>1
      <4> QED BY <1>1, <4>1, SlotSum
    <3>3. (history_index' + t) % Taps = (history_index + (t + 1)) % Taps
          /\ (history_index' + t) % Taps # history_index
          /\ (history_index' + t) % Taps \in 0 .. Taps - 1
      BY <1>1, <1>2, <2>1, <3>1, <3>2
    <3>4. ring[(history_index + (t + 1)) % Taps] = recent[Taps - (t + 1)]
      BY <1>5, <3>1
    <3>5. ring'[(history_index' + t) % Taps] = ring[(history_index' + t) % Taps]
      BY <1>3, <3>3
    <3>6. Taps - t \in 1 .. Taps /\ Taps - t # 1 /\ (Taps - t) - 1 = Taps - (t + 1)
      BY <1>1, <2>3
    <3>7. recent'[Taps - t] = recent[Taps - (t + 1)]
      BY <1>4, <3>6
    <3> QED BY <3>3, <3>4, <3>5, <3>7
  <2> QED BY <2>2, <2>3
<1> QED BY <1>6 DEF WindowExact, Tap

\* Decimator3's sum runs over the last frames of the session for every length of
\* the filter (process and reset in decimator.hpp).
THEOREM WindowKept == Spec => []WindowExact
<1>1. ASSUME ring = Silence, history_index = 0, recent = [i \in 1 .. Taps |-> NoSample]
      PROVE  WindowExact
  <2>1. Taps \in Nat \ {0} /\ 0 \in 0 .. Taps - 1
    BY AudioSetupAssumption
  <2>2. ASSUME NEW t \in 0 .. Taps - 1
        PROVE  ring[(0 + t) % Taps] = recent[Taps - t]
    <3>1. (0 + t) % Taps = t
      <4>1. t \in 0 .. Taps
        BY <2>1
      <4>2. (0 + t) % Taps = IF 0 + t < Taps THEN 0 + t ELSE 0 + t - Taps
        BY <2>1, <4>1, SlotSum, Zenon
      <4> QED BY <2>1, <4>2
    <3> QED BY <1>1, <2>1, <3>1 DEF Silence
  <2> QED BY <1>1, <2>2 DEF WindowExact, Tap
<1>2. Init => WindowExact
  BY <1>1 DEF Init
<1>3. TypeOK /\ WindowExact /\ [Next]_vars => WindowExact'
  <2> SUFFICES ASSUME TypeOK, WindowExact, [Next]_vars PROVE WindowExact'
    OBVIOUS
  <2>1. CASE Convert
    BY <2>1, ConvertStep
  <2>2. CASE Run
    <3>1. ring' = Silence' /\ history_index' = 0 /\ recent' = [i \in 1 .. Taps |-> NoSample]
      BY <2>2 DEF Run, Silence, NoSample
    <3>2. (ring = Silence /\ history_index = 0 /\ recent = [i \in 1 .. Taps |-> NoSample]
             => WindowExact)'
      BY <1>1, PTL
    <3> QED BY <3>1, <3>2
  <2>3. CASE UNCHANGED <<ring, history_index, recent>>
    BY <2>3 DEF WindowExact, Tap
  <2> QED BY <2>1, <2>2, <2>3
          DEF Next, Initialize, Failed, Initialized, Start, Stop, OpenDevice, OpenFails, Read,
              vars, capture, decimator
<1> QED BY <1>2, <1>3, TypeCorrect, PTL DEF Spec

------------------------------------------------------------------------------
\* The configurations whose rates the capture loops can turn into each other: a
\* third of the hardware's for the single microphone, the same for two.
RatesMatch == Ratio = IF Topology = "single" THEN 3 ELSE 1

\* Frames converted, samples of them in the chunk or pushed, and what is left of
\* the read; a chunk is not full before its last sample is due.
RateInv ==
  /\ ~running \/ pending = 0 => filled = 0
  /\ ~running => pending = 0
  /\ Topology = "single" =>
       /\ 3 * (produced + filled) + decimation = captured - pending
       /\ pending > 0 => 3 * filled + decimation + pending <= 3 * ChunkCapacity + 2
  /\ Topology # "single" => produced = captured /\ pending = 0

LEMMA RateStep ==
  ASSUME TypeOK, HandleInv, RateInv, [Next]_vars
  PROVE  RateInv'
<1>1. Topology' = Topology
  BY DEF Next, Initialize, Failed, Initialized, Start, Run, Stop, Convert, OpenDevice,
         OpenFails, Read, vars, Topology
<1>2. /\ captured \in Nat /\ produced \in Nat /\ pending \in Nat /\ filled \in Nat
      /\ decimation \in 0 .. 2 /\ running \in BOOLEAN
      /\ ChunkCapacity \in Nat /\ MaxRead \in Nat /\ MaxRead <= 3 * ChunkCapacity
  BY AudioSetupAssumption DEF TypeOK
<1>3. CASE UNCHANGED <<captured, produced, pending, filled, decimation, running>>
  BY <1>1, <1>3 DEF RateInv
<1>4. CASE Run
  <2>1. pending = 0 /\ filled = 0
    BY <1>2, <1>4 DEF Run, HandleInv, RateInv
  <2>2. /\ captured' = 0 /\ produced' = 0 /\ pending' = 0 /\ filled' = 0 /\ decimation' = 0
    BY <1>4, <2>1 DEF Run
  <2> QED BY <1>1, <1>2, <2>2 DEF RateInv
<1>5. CASE Stop
  BY <1>1, <1>2, <1>5 DEF Stop, RateInv, capture, decimator
<1>6. CASE Convert
  <2> DEFINE now == filled + (IF Phase = 0 /\ filled < ChunkCapacity THEN 1 ELSE 0)
  <2>1. /\ pending > 0 /\ pending' = pending - 1 /\ decimation' = Phase
        /\ filled' = IF pending = 1 THEN 0 ELSE now
        /\ produced' = IF pending = 1 THEN produced + now ELSE produced
        /\ captured' = captured /\ running' = running
    BY <1>6 DEF Convert
  <2>2. running /\ Topology = "single"
    BY <1>2, <2>1 DEF RateInv
  <2>3. 3 * (produced + filled) + decimation = captured - pending
        /\ 3 * filled + decimation + pending <= 3 * ChunkCapacity + 2
    BY <2>1, <2>2 DEF RateInv
  <2>4. Phase = IF decimation = 2 THEN 0 ELSE decimation + 1
    BY DEF Phase
  <2>5. decimation = 2 => filled < ChunkCapacity
    BY <1>2, <2>1, <2>3
  <2>6. 3 * now + Phase = 3 * filled + decimation + 1 /\ now \in Nat
    BY <1>2, <2>4, <2>5
  <2> HIDE DEF now
  <2>7. 3 * (produced' + filled') + decimation' = captured' - pending'
    <3>1. Phase \in Nat
      BY <1>2, <2>4
    <3> HIDE DEF Phase
    <3>2. CASE pending = 1
      <4>1. filled' = 0 /\ produced' = produced + now /\ pending' = 0
        BY <2>1, <3>2
      <4> QED BY <1>2, <2>1, <2>3, <2>6, <3>1, <3>2, <4>1
    <3>3. CASE pending # 1
      <4>1. filled' = now /\ produced' = produced
        BY <2>1, <3>3
      <4> QED BY <1>2, <2>1, <2>3, <2>6, <3>1, <4>1
    <3> QED BY <3>2, <3>3
  <2>8. pending' > 0 => 3 * filled' + decimation' + pending' <= 3 * ChunkCapacity + 2
    BY <1>2, <2>1, <2>3, <2>6
  <2>9. pending' = 0 => filled' = 0
    BY <1>2, <2>1
  <2> QED BY <1>1, <2>1, <2>2, <2>7, <2>8, <2>9 DEF RateInv
<1>7. ASSUME NEW frames \in 1 .. MaxRead, Read(frames)
      PROVE  RateInv'
  <2>1. /\ running /\ running' = running /\ pending = 0 /\ filled = 0
        /\ captured' = captured + frames /\ decimation' = decimation
    BY <1>2, <1>7 DEF Read, RateInv, decimator
  <2>2. CASE Topology = "single"
    <3>1. pending' = frames /\ filled' = 0 /\ produced' = produced
      BY <1>7, <2>2 DEF Read
    <3> QED BY <1>1, <1>2, <2>1, <2>2, <3>1 DEF RateInv
  <2>3. CASE Topology # "single"
    <3>1. produced' = produced + frames /\ pending' = pending /\ filled' = filled
      BY <1>7, <2>3 DEF Read
    <3> QED BY <1>1, <1>2, <2>1, <2>3, <3>1 DEF RateInv
  <2> QED BY <2>2, <2>3
<1> QED BY <1>3, <1>4, <1>5, <1>6, <1>7
        DEF Next, Initialize, Failed, Initialized, Start, OpenDevice, OpenFails, vars, capture,
            decimator

LEMMA RateHolds == Spec => [](TypeOK /\ RateInv)
<1>1. Init => HandleInv /\ RateInv
  BY DEF Init, HandleInv, RateInv, Role
<1>2. TypeOK /\ HandleInv /\ RateInv /\ [Next]_vars => HandleInv' /\ RateInv'
  BY HandleStep, RateStep
<1> QED BY <1>1, <1>2, TypeCorrect, PTL DEF Spec

\* The single microphone's loop hands over every third frame it captured and the other
\* loops every frame, whatever the rates and however the frames are cut into reads
\* (single_microphone_capture_thread_loop, capture_thread_loop).
THEOREM EveryThirdKept == Spec => []EveryThird
<1>1. TypeOK /\ RateInv => EveryThird
  <2> SUFFICES ASSUME TypeOK, RateInv, running, pending = 0
               PROVE  produced = captured \div Divisor
    BY DEF EveryThird
  <2>1. captured \in Nat /\ produced \in Nat /\ decimation \in 0 .. 2
    BY DEF TypeOK
  <2>2. CASE Topology = "single"
    <3>1. Divisor = 3 /\ 3 * produced + decimation = captured
      BY <2>1, <2>2 DEF Divisor, RateInv
    <3> QED BY <2>1, <3>1
  <2>3. CASE Topology # "single"
    <3>1. Divisor = 1 /\ produced = captured
      BY <2>1, <2>3 DEF Divisor, RateInv
    <3> QED BY <2>1, <3>1
  <2> QED BY <2>2, <2>3
<1> QED BY <1>1, RateHolds, PTL

\* A chunk has room for each sample that is due: the decimator's test of its capacity
\* never drops one of a read that three chunks can hold (Decimator3::process).
THEOREM NoSampleCut == Spec => []NothingCut
<1>1. TypeOK /\ RateInv => NothingCut
  <2> SUFFICES ASSUME TypeOK, RateInv, pending > 0, Phase = 0
               PROVE  filled < ChunkCapacity
    BY DEF NothingCut
  <2>1. /\ pending \in Nat /\ filled \in Nat /\ decimation \in 0 .. 2
        /\ ChunkCapacity \in Nat
    BY AudioSetupAssumption DEF TypeOK
  <2>2. decimation = 2
    BY <2>1 DEF Phase
  <2>3. Topology = "single"
    BY <2>1 DEF RateInv
  <2>4. 3 * filled + decimation + pending <= 3 * ChunkCapacity + 2
    BY <2>3 DEF RateInv
  <2> QED BY <2>1, <2>2, <2>4
<1> QED BY <1>1, RateHolds, PTL

\* One sample at the internal rate for every frame divided by the ratio, for
\* every cut into reads, where the ratio is one the capture loop handles.
THEOREM RateKept == Spec => [](RatesMatch => InternalRate)
<1>1. EveryThird => (RatesMatch => InternalRate)
  BY DEF EveryThird, RatesMatch, InternalRate, Divisor
<1> QED BY <1>1, EveryThirdKept, PTL
==============================================================================
