--------------------------- MODULE SessionLog_proofs ---------------------------
(***************************************************************************)
(* What the session log promises, for every queue size, number of frames   *)
(* and set of threads that stop the pipeline: the closed log is complete,  *)
(* no record is in a file twice, and the files are in order.               *)
(***************************************************************************)
EXTENDS SessionLog, TLAPS

IsQueued(r) == \E k \in 1..Len(queue) : queue[k] = r

\* Sequences: what appending and taking the head do to the elements.
LEMMA AppendElements ==
  ASSUME NEW s \in Seq(Nat), NEW r \in Nat
  PROVE  /\ Append(s, r) \in Seq(Nat) /\ Len(Append(s, r)) = Len(s) + 1
         /\ \A x : (\E k \in 1..Len(s) : s[k] = x) =>
              \E k \in 1..Len(Append(s, r)) : Append(s, r)[k] = x
         /\ \E k \in 1..Len(Append(s, r)) : Append(s, r)[k] = r
<1>1. /\ Append(s, r) \in Seq(Nat) /\ Len(Append(s, r)) = Len(s) + 1
      /\ Append(s, r)[Len(s) + 1] = r
      /\ \A k \in 1..Len(s) : Append(s, r)[k] = s[k]
  OBVIOUS
<1>2. Len(s) \in Nat
  OBVIOUS
<1>3. Len(s) + 1 \in 1..Len(Append(s, r)) /\ 1..Len(s) \subseteq 1..Len(Append(s, r))
  BY <1>1, <1>2
<1> QED BY <1>1, <1>3

LEMMA TailElements ==
  ASSUME NEW s \in Seq(Nat), s # <<>>
  PROVE  /\ Head(s) \in Nat /\ Tail(s) \in Seq(Nat) /\ Len(Tail(s)) = Len(s) - 1
         /\ \A x : (\E k \in 1..Len(s) : s[k] = x) =>
              x = Head(s) \/ \E k \in 1..Len(Tail(s)) : Tail(s)[k] = x
<1>1. /\ Head(s) \in Nat /\ Tail(s) \in Seq(Nat) /\ Len(Tail(s)) = Len(s) - 1
      /\ Len(s) \in Nat /\ Head(s) = s[1]
      /\ \A k \in 1..Len(Tail(s)) : Tail(s)[k] = s[k + 1]
  OBVIOUS
<1>2. ASSUME NEW k \in 1..Len(s), k # 1
      PROVE  k - 1 \in 1..Len(Tail(s)) /\ Tail(s)[k - 1] = s[k]
  <2>1. k - 1 \in 1..Len(Tail(s)) /\ (k - 1) + 1 = k
    BY <1>1, <1>2
  <2> QED BY <1>1, <2>1
<1> QED BY <1>1, <1>2

\* A write appends to one file: nothing written before is lost.
LEMMA WriteKeeps ==
  ASSUME TypeOK, NEW f \in File, NEW r \in Nat, Write(f, r)
  PROVE  /\ log' \in [File -> Seq(Nat)] /\ open' = open
         /\ IsIn(r, f)'
         /\ \A x : \A g \in File : IsIn(x, g) => IsIn(x, g)'
<1>1. log' = [log EXCEPT ![f] = Append(@, r)] /\ open' = open
  BY DEF Write
<1>2. log[f] \in Seq(Nat) /\ log \in [File -> Seq(Nat)]
  BY DEF TypeOK
<1>3. log'[f] = Append(log[f], r) /\ \A g \in File \ {f} : log'[g] = log[g]
  BY <1>1, <1>2
<1>4. log' \in [File -> Seq(Nat)]
  BY <1>1, <1>2, AppendElements
<1>7. /\ \A x : (\E k \in 1..Len(log[f]) : log[f][k] = x) =>
            \E k \in 1..Len(log'[f]) : log'[f][k] = x
      /\ \E k \in 1..Len(log'[f]) : log'[f][k] = r
  <2>1. /\ \A x : (\E k \in 1..Len(log[f]) : log[f][k] = x) =>
              \E k \in 1..Len(Append(log[f], r)) : Append(log[f], r)[k] = x
        /\ \E k \in 1..Len(Append(log[f], r)) : Append(log[f], r)[k] = r
    BY <1>2, AppendElements
  <2> QED BY <1>3, <2>1
<1>5. IsIn(r, f)'
  BY <1>7 DEF IsIn
<1>6. ASSUME NEW x, NEW g \in File, IsIn(x, g) PROVE IsIn(x, g)'
  <2>1. CASE g = f
    BY <1>6, <1>7, <2>1 DEF IsIn
  <2>2. CASE g # f
    <3>1. log'[g] = log[g]
      BY <1>3, <2>2
    <3> QED BY <1>6, <3>1 DEF IsIn
  <2> QED BY <2>1, <2>2
<1> QED BY <1>1, <1>4, <1>5, <1>6

------------------------------------------------------------------------------
\* Types.

LEMMA InitTyped == Init => TypeOK
<1> SUFFICES ASSUME Init PROVE TypeOK
  OBVIOUS
<1>1. queue = <<0>> /\ <<0>> \in Seq(Nat) /\ Len(<<0>>) = 1
  BY DEF Init, Started
<1>2. 1 <= MaxQueue
  BY LogAssumption
<1>3. /\ queue \in Seq(Nat) /\ Len(queue) <= MaxQueue
  BY <1>1, <1>2
<1>4. log \in [File -> Seq(Nat)]
  BY DEF Init
<1>5. /\ {dropped, frame, item} \subseteq Nat
      /\ {accepted, late, failed} \subseteq SUBSET Nat
  BY DEF Init, Started
<1>6. /\ at \in [Closer -> {"ready", "call", "join", "drain", "take", "write", "report",
                            "close", "unset", "done", "raised"}]
      /\ hand \in [Closer -> Nat]
  BY DEF Init, Started
<1> QED BY <1>3, <1>4, <1>5, <1>6 DEF Init, TypeOK

LEMMA AudioTyped == ASSUME TypeOK, Audio PROVE TypeOK'
<1>1. CASE SeeLogger
  BY <1>1 DEF TypeOK, SeeLogger, logger, files, writing, closing, history
<1>2. CASE CallLogger
  BY <1>2 DEF TypeOK, CallLogger, logger, files, writing, closing, history
<1>3. CASE LogFrame
  BY <1>3 DEF TypeOK, LogFrame, logger, files, writing, closing, history
<1>4. CASE Put
  <2>1. CASE Len(queue) < MaxQueue
    <3>1. queue' = Append(queue, frame) /\ queue \in Seq(Nat) /\ frame \in Nat
      BY <1>4, <2>1 DEF Put, Accept, TypeOK
    <3>2. queue' \in Seq(Nat) /\ Len(queue') = Len(queue) + 1 /\ Len(queue) \in Nat
      BY <3>1, AppendElements
    <3>3. Len(queue') <= MaxQueue
      BY <2>1, <3>2, LogAssumption
    <3> QED BY <1>4, <2>1, <3>2, <3>3 DEF TypeOK, Put, Accept, files, writing, closing
  <2>2. CASE ~(Len(queue) < MaxQueue)
    BY <1>4, <2>2 DEF TypeOK, Put, files, writing, closing
  <2> QED BY <2>1, <2>2
<1> QED BY <1>1, <1>2, <1>3, <1>4 DEF Audio

LEMMA WriterTyped == ASSUME TypeOK, Writer PROVE TypeOK'
<1>0. item \in Nat /\ Destination(item) \in File /\ "csv" \in File
  BY DEF TypeOK, Destination, File
<1>1. CASE WriterTest
  BY <1>1 DEF TypeOK, WriterTest, logger, files, hop, closing, history
<1>2. CASE WriterGet
  <2>1. queue \in Seq(Nat) /\ queue # <<>> /\ queue' = Tail(queue) /\ item' = Head(queue)
    BY <1>2 DEF WriterGet, TypeOK
  <2>2. /\ queue' \in Seq(Nat) /\ item' \in Nat
        /\ Len(queue') = Len(queue) - 1 /\ Len(queue) \in Nat
    BY <2>1, TailElements
  <2>3. Len(queue') <= MaxQueue
    BY <2>2, LogAssumption DEF TypeOK
  <2> QED BY <1>2, <2>2, <2>3 DEF TypeOK, WriterGet, files, hop, closing, history
<1>3. CASE WriterGetEmpty
  BY <1>3 DEF TypeOK, WriterGetEmpty, logger, files, hop, closing, history
<1>4. CASE WriteRecord
  <2>1. log' \in [File -> Seq(Nat)] /\ open' = open
    BY <1>0, <1>4, WriteKeeps DEF WriteRecord
  <2> QED BY <1>4, <2>1 DEF TypeOK, WriteRecord, Write, logger, hop, closing, history
<1>5. CASE WriteRow
  <2>1. log' \in [File -> Seq(Nat)] /\ open' = open
    BY <1>0, <1>5, WriteKeeps DEF WriteRow
  <2> QED BY <1>5, <2>1 DEF TypeOK, WriteRow, Write, logger, hop, closing, history
<1>6. CASE WriterRaises
  BY <1>0, <1>6 DEF TypeOK, WriterRaises, WriteRaises, logger, files, hop, closing
<1> QED BY <1>1, <1>2, <1>3, <1>4, <1>5, <1>6 DEF Writer

LEMMA StopTyped == ASSUME TypeOK, NEW c \in Closer, Stop(c) PROVE TypeOK'
<1>0. /\ hand[c] \in Nat /\ Destination(hand[c]) \in File
      /\ hand \in [Closer -> Nat]
      /\ at \in [Closer -> {"ready", "call", "join", "drain", "take", "write", "report",
                            "close", "unset", "done", "raised"}]
  BY DEF TypeOK, Destination, File
<1>1. at' \in [Closer -> {"ready", "call", "join", "drain", "take", "write", "report",
                          "close", "unset", "done", "raised"}]
  BY <1>0 DEF Stop, StopCheck, StopCall, Join, JoinTimeout, DrainTest, DrainGet,
    DrainGetEmpty, DrainWrite, DrainRaises, Report, CloseFile, FilesClosed, Unset, Goto
<1>2. CASE StopCheck(c) \/ StopCall(c) \/ Join(c) \/ JoinTimeout(c) \/ DrainTest(c)
             \/ DrainGetEmpty(c) \/ Report(c) \/ CloseFile(c) \/ FilesClosed(c) \/ Unset(c)
  <2>1. /\ UNCHANGED <<queue, dropped, log, hop, writing, hand, accepted, late, failed>>
        /\ open' \subseteq open
        /\ running' \in {running, FALSE} /\ session_logger' \in {session_logger, FALSE}
        /\ timed_out' \in {timed_out, TRUE}
    BY <1>2 DEF StopCheck, StopCall, Join, JoinTimeout, DrainTest, DrainGetEmpty, Report,
      CloseFile, FilesClosed, Unset, logger, files, history
  <2> QED BY <1>1, <2>1 DEF TypeOK, hop, writing
<1>3. CASE DrainGet(c)
  <2>1. queue \in Seq(Nat) /\ queue # <<>> /\ queue' = Tail(queue)
        /\ hand' = [hand EXCEPT ![c] = Head(queue)]
    BY <1>3 DEF DrainGet, TypeOK
  <2>2. /\ queue' \in Seq(Nat) /\ Head(queue) \in Nat
        /\ Len(queue') = Len(queue) - 1 /\ Len(queue) \in Nat
    BY <2>1, TailElements
  <2>3. Len(queue') <= MaxQueue
    BY <2>2, LogAssumption DEF TypeOK
  <2>4. hand' \in [Closer -> Nat]
    BY <1>0, <2>1, <2>2
  <2> QED BY <1>1, <1>3, <2>2, <2>3, <2>4 DEF TypeOK, DrainGet, files, hop, writing, history
<1>4. CASE DrainWrite(c)
  <2>1. log' \in [File -> Seq(Nat)] /\ open' = open
    BY <1>0, <1>4, WriteKeeps DEF DrainWrite
  <2> QED
    BY <1>1, <1>4, <2>1 DEF TypeOK, DrainWrite, Write, logger, hop, writing, history
<1>5. CASE DrainRaises(c)
  BY <1>0, <1>1, <1>5 DEF TypeOK, DrainRaises, WriteRaises, logger, files, hop, writing
<1> QED BY <1>2, <1>3, <1>4, <1>5 DEF Stop

LEMMA StepTyped == TypeOK /\ [Next]_vars => TypeOK'
<1>1. TypeOK /\ UNCHANGED vars => TypeOK'
  BY DEF TypeOK, vars, logger, files, hop, writing, closing, history
<1> QED BY <1>1, AudioTyped, WriterTyped, StopTyped DEF Next

\* The queue never exceeds its size, and every variable keeps its type
\* (SessionLogger and the threads that use it).
THEOREM TypeCorrect == Spec => []TypeOK
BY InitTyped, StepTyped, PTL DEF Spec

------------------------------------------------------------------------------
\* Completeness.

Joined(c) == at[c] \in {"drain", "take", "write", "report", "close", "unset"}

\* The writer ends only after the flag is cleared, and unless a join timed out
\* nobody takes from the queue or closes a file before.
WriterInv ==
  /\ writer = "ended" => ~running
  /\ ~timed_out /\ writer # "ended" =>
       /\ open = File /\ session_logger
       /\ \A c \in Closer : ~Joined(c)

\* A record queued in time is in its files, or still on its way to them.
InHand(r) ==
  /\ r = item
  /\ writer = "write" \/ (writer = "row" /\ item # Started /\ IsIn(item, "jsonl"))

KeptInv ==
  ~timed_out =>
    \A r \in accepted \ (late \cup failed) :
      Logged(r) \/ (writer # "ended" /\ (IsQueued(r) \/ InHand(r)))

CompleteInv == TypeOK /\ WriterInv /\ KeptInv

LEMMA InitComplete == Init => CompleteInv
<1> SUFFICES ASSUME Init PROVE CompleteInv
  OBVIOUS
<1>1. queue = <<0>> /\ Len(<<0>>) = 1 /\ <<0>>[1] = 0
  BY DEF Init, Started
<1>2. \A r \in accepted : IsQueued(r)
  BY <1>1 DEF Init, Started, IsQueued
<1>3. KeptInv
  BY <1>2 DEF Init, KeptInv
<1>4. WriterInv
  BY DEF Init, WriterInv, Joined
<1> QED BY <1>3, <1>4, InitTyped DEF CompleteInv

LEMMA WriterStep ==
  ASSUME TypeOK, WriterInv, [Next]_vars
  PROVE  WriterInv'
<1>1. CASE Audio
  BY <1>1 DEF Audio, SeeLogger, CallLogger, LogFrame, Put, Accept, WriterInv, Joined,
    logger, files, writing, closing, history
<1>2. CASE Writer
  BY <1>2 DEF Writer, WriterTest, WriterGet, WriterGetEmpty, WriteRecord, WriteRow,
    WriterRaises, Write, WriteRaises, WriterInv, Joined, logger, files, closing, history
<1>3. ASSUME NEW c \in Closer, Stop(c) PROVE WriterInv'
  <2>0. DOMAIN at = Closer
    BY DEF TypeOK
  <2>1. writer' = writer /\ (running' = running \/ running' = FALSE)
    BY <1>3 DEF Stop, StopCheck, StopCall, Join, JoinTimeout, DrainTest, DrainGet,
      DrainGetEmpty, DrainWrite, DrainRaises, Report, CloseFile, FilesClosed, Unset,
      Write, WriteRaises, logger, writing
  <2>2. CASE writer = "ended"
    BY <2>1, <2>2 DEF WriterInv
  <2>3. CASE timed_out' /\ writer # "ended"
    BY <2>1, <2>3 DEF WriterInv
  <2>4. CASE ~timed_out' /\ writer # "ended"
    <3>1. ~timed_out /\ ~Joined(c) /\ ~JoinTimeout(c) /\ ~Join(c)
      BY <1>3, <2>4 DEF Stop, StopCheck, StopCall, Join, JoinTimeout, DrainTest, DrainGet,
        DrainGetEmpty, DrainWrite, DrainRaises, Report, CloseFile, FilesClosed, Unset,
        Write, WriteRaises, WriterInv, Joined, history
    <3>2. StopCheck(c) \/ StopCall(c)
      BY <1>3, <3>1 DEF Stop, DrainTest, DrainGet, DrainGetEmpty, DrainWrite, DrainRaises,
        Report, CloseFile, FilesClosed, Unset, Joined
    <3>3. open' = open /\ session_logger' = session_logger
      BY <3>2 DEF StopCheck, StopCall, files
    <3>4. /\ \A d \in Closer \ {c} : at'[d] = at[d]
          /\ at'[c] \in {"call", "done", "join", "raised"}
      BY <2>0, <3>2 DEF StopCheck, StopCall, Goto
    <3>5. \A d \in Closer : ~Joined(d)'
      BY <2>4, <3>1, <3>4 DEF WriterInv, Joined
    <3> QED BY <2>1, <2>4, <3>1, <3>3, <3>5 DEF WriterInv
  <2> QED BY <2>2, <2>3, <2>4
<1>4. CASE UNCHANGED vars
  BY <1>4 DEF vars, WriterInv, Joined, logger, files, writing, closing, history
<1> QED BY <1>1, <1>2, <1>3, <1>4 DEF Next

LEMMA KeptStep ==
  ASSUME TypeOK, WriterInv, KeptInv, [Next]_vars
  PROVE  KeptInv'
<1> SUFFICES ASSUME ~timed_out',
                    NEW r \in accepted', r \notin late', r \notin failed'
             PROVE  Logged(r)' \/ (writer' # "ended" /\ (IsQueued(r)' \/ InHand(r)'))
  BY DEF KeptInv
<1>0. /\ queue \in Seq(Nat) /\ frame \in Nat /\ item \in Nat
      /\ Destination(item) \in File /\ "csv" \in File
  BY DEF TypeOK, Destination, File
<1>kept. ASSUME r \in accepted, r \notin late, r \notin failed, ~timed_out
      PROVE  Logged(r) \/ (writer # "ended" /\ (IsQueued(r) \/ InHand(r)))
  BY <1>kept DEF KeptInv
<1>1. CASE SeeLogger \/ CallLogger \/ LogFrame \/ UNCHANGED vars
  BY <1>1, <1>kept DEF SeeLogger, CallLogger, LogFrame, vars, logger, files, writing, closing,
    history, Logged, IsIn, IsQueued, InHand
<1>2. CASE Put
  <2>1. /\ log' = log /\ writer' = writer /\ item' = item /\ running' = running
        /\ timed_out' = timed_out /\ failed' = failed
    BY <1>2 DEF Put, files, writing
  <2>2. CASE Accept
    <3>1. queue' = Append(queue, frame)
      BY <2>2 DEF Accept
    <3>2. /\ \A x : (\E k \in 1..Len(queue) : queue[k] = x) =>
               \E k \in 1..Len(queue') : queue'[k] = x
          /\ \E k \in 1..Len(queue') : queue'[k] = frame
      <4>1. /\ \A x : (\E k \in 1..Len(queue) : queue[k] = x) =>
                 \E k \in 1..Len(Append(queue, frame)) : Append(queue, frame)[k] = x
            /\ \E k \in 1..Len(Append(queue, frame)) : Append(queue, frame)[k] = frame
        BY <1>0, AppendElements, ZenonT(30)
      <4> QED BY <3>1, <4>1
    <3>3. CASE r \in accepted /\ r \notin late
      <4>1. Logged(r) \/ (writer # "ended" /\ (IsQueued(r) \/ InHand(r)))
        BY <1>kept, <2>1, <3>3
      <4>2. IsQueued(r) => IsQueued(r)'
        BY <3>2 DEF IsQueued
      <4> QED BY <2>1, <4>1, <4>2 DEF Logged, IsIn, InHand
    <3>4. CASE ~(r \in accepted /\ r \notin late)
      <4>1. r = frame /\ running
        BY <2>2, <3>4 DEF Accept
      <4>2. \E k \in 1..Len(queue') : queue'[k] = r
        BY <3>2, <4>1
      <4> QED BY <2>1, <4>1, <4>2 DEF WriterInv, IsQueued
    <3> QED BY <3>3, <3>4
  <2>3. CASE UNCHANGED <<queue, accepted, late>>
    BY <1>kept, <2>1, <2>3 DEF Logged, IsIn, IsQueued, InHand
  <2> QED BY <1>2, <2>2, <2>3 DEF Put
<1>3. CASE WriterTest
  <2>1. UNCHANGED <<queue, log, item, accepted, late, failed, timed_out>>
    BY <1>3 DEF WriterTest, logger, files, history
  <2>2. writer' = "ended" => ~IsQueued(r)
    BY <1>3 DEF WriterTest, IsQueued
  <2>3. writer = "test" /\ ~InHand(r)
    BY <1>3 DEF WriterTest, InHand
  <2>4. Logged(r) \/ IsQueued(r)
    BY <1>kept, <2>1, <2>3
  <2> QED BY <2>1, <2>2, <2>4 DEF Logged, IsIn, IsQueued
<1>4. CASE WriterGet
  <2>1. /\ UNCHANGED <<log, accepted, late, failed, timed_out>>
        /\ queue' = Tail(queue) /\ item' = Head(queue) /\ queue # <<>>
        /\ writer = "get" /\ writer' = "write"
    BY <1>4 DEF WriterGet, files, history
  <2>2. \A x : IsQueued(x) => x = item' \/ IsQueued(x)'
    BY <1>0, <2>1, TailElements DEF IsQueued
  <2>3. ~InHand(r)
    BY <2>1 DEF InHand
  <2> QED BY <1>kept, <2>1, <2>2, <2>3 DEF Logged, IsIn, InHand
<1>5. CASE WriterGetEmpty
  BY <1>5, <1>kept DEF WriterGetEmpty, logger, files, history, Logged, IsIn, IsQueued, InHand
<1>6. CASE WriteRecord
  <2>1. /\ UNCHANGED <<queue, item, accepted, late, failed, timed_out>>
        /\ writer = "write" /\ writer' = IF item = Started THEN "test" ELSE "row"
    BY <1>6 DEF WriteRecord, Write, logger, history
  <2>2. /\ IsIn(item, Destination(item))'
        /\ \A x : \A g \in File : IsIn(x, g) => IsIn(x, g)'
    BY <1>0, <1>6, WriteKeeps DEF WriteRecord
  <2>3. Logged(r) => Logged(r)'
    BY <2>2 DEF Logged, File
  <2>4. ASSUME r = item PROVE Logged(r)' \/ InHand(r)'
    BY <2>1, <2>2, <2>4 DEF Logged, Destination, InHand
  <2> QED BY <1>kept, <2>1, <2>3, <2>4 DEF IsQueued, InHand
<1>7. CASE WriteRow
  <2>1. /\ UNCHANGED <<queue, item, accepted, late, failed, timed_out>>
        /\ writer = "row" /\ writer' = "test"
    BY <1>7 DEF WriteRow, Write, logger, history
  <2>2. /\ IsIn(item, "csv")'
        /\ \A x : \A g \in File : IsIn(x, g) => IsIn(x, g)'
    BY <1>0, <1>7, WriteKeeps DEF WriteRow
  <2>3. Logged(r) => Logged(r)'
    BY <2>2 DEF Logged, File
  <2>4. ASSUME InHand(r) PROVE Logged(r)'
    BY <2>1, <2>2, <2>4 DEF Logged, InHand, File
  <2> QED BY <1>kept, <2>1, <2>3, <2>4 DEF IsQueued
<1>8. CASE WriterRaises
  <2>1. /\ UNCHANGED <<queue, log, item, accepted, late, timed_out>>
        /\ writer \in {"write", "row"} /\ writer' = "test"
    BY <1>8 DEF WriterRaises, WriteRaises, logger, files
  <2>2. failed' = failed \cup {item}
    BY <1>0, <1>8, <2>1 DEF WriterRaises, WriteRaises, WriterInv
  <2>3. r # item /\ ~InHand(r)
    BY <2>2 DEF InHand
  <2> QED BY <1>kept, <2>1, <2>2, <2>3 DEF Logged, IsIn, IsQueued
<1>9. ASSUME NEW c \in Closer, Stop(c)
      PROVE  Logged(r)' \/ (writer' # "ended" /\ (IsQueued(r)' \/ InHand(r)'))
  <2>1. /\ UNCHANGED <<writer, item, accepted, late>> /\ ~timed_out /\ failed \subseteq failed'
    BY <1>9 DEF Stop, StopCheck, StopCall, Join, JoinTimeout, DrainTest, DrainGet,
      DrainGetEmpty, DrainWrite, DrainRaises, Report, CloseFile, FilesClosed, Unset,
      Write, WriteRaises, writing, history
  <2>2. Logged(r) \/ (writer # "ended" /\ (IsQueued(r) \/ InHand(r)))
    BY <1>kept, <2>1
  <2>3. CASE DrainWrite(c)
    <3>1. hand[c] \in Nat /\ Destination(hand[c]) \in File
      BY DEF TypeOK, Destination, File
    <3>2. \A x : \A g \in File : IsIn(x, g) => IsIn(x, g)'
      BY <2>3, <3>1, WriteKeeps DEF DrainWrite
    <3>3. queue' = queue
      BY <2>3 DEF DrainWrite, logger
    <3> QED BY <2>1, <2>2, <3>2, <3>3 DEF Logged, IsQueued, InHand, File
  <2>4. CASE DrainGet(c)
    <3>1. log' = log /\ Joined(c)
      BY <2>4 DEF DrainGet, files, Joined
    <3>2. writer = "ended"
      BY <2>1, <3>1 DEF WriterInv
    <3> QED BY <2>2, <3>1, <3>2 DEF Logged, IsIn
  <2>5. CASE ~DrainWrite(c) /\ ~DrainGet(c)
    <3>1. UNCHANGED <<queue, log>>
      BY <1>9, <2>5 DEF Stop, StopCheck, StopCall, Join, JoinTimeout, DrainTest,
        DrainGetEmpty, DrainRaises, Report, CloseFile, FilesClosed, Unset, WriteRaises,
        logger, files
    <3> QED BY <2>1, <2>2, <3>1 DEF Logged, IsIn, IsQueued, InHand
  <2> QED BY <2>3, <2>4, <2>5
<1> QED BY <1>1, <1>2, <1>3, <1>4, <1>5, <1>6, <1>7, <1>8, <1>9 DEF Next, Audio, Writer

\* Once the pipeline has let go of its logger, every record queued in time is in
\* its files unless the disk failed on it or a join timed out (close in
\* session_logger.py), however hops, writer and closers interleave.
THEOREM LogComplete == Spec => []CompleteLog
<1>1. CompleteInv /\ [Next]_vars => CompleteInv'
  BY StepTyped, WriterStep, KeptStep DEF CompleteInv
<1>2. CompleteInv => CompleteLog
  BY DEF CompleteInv, CompleteLog, WriterInv, KeptInv
<1> QED BY InitComplete, <1>1, <1>2, PTL DEF Spec

------------------------------------------------------------------------------
\* Order.

\* The number of the next record that may be queued, and the records before it
\* and before all that are queued.
NextFrame == IF audio \in {"call", "log_frame", "put"} THEN frame ELSE frame + 1

Below(x) == x < NextFrame /\ \A k \in 1..Len(queue) : x < queue[k]

\* The queue is in order, and what has been taken from it is older than the rest.
FifoInv ==
  /\ \A j, k \in 1..Len(queue) : j < k => queue[j] < queue[k]
  /\ \A k \in 1..Len(queue) : queue[k] < NextFrame
  /\ \A f \in File : \A k \in 1..Len(log[f]) : Below(log[f][k])
  /\ writer \in {"write", "row"} => Below(item)
  /\ \A c \in Closer : at[c] = "write" => Below(hand[c])

\* A write is the last element of its file.
LEMMA WriteExact ==
  ASSUME TypeOK, NEW f \in File, NEW r \in Nat, Write(f, r)
  PROVE  /\ \A g \in File \ {f} : log'[g] = log[g]
         /\ Len(log'[f]) = Len(log[f]) + 1 /\ Len(log[f]) \in Nat
         /\ log'[f][Len(log[f]) + 1] = r
         /\ \A k \in 1..Len(log[f]) : log'[f][k] = log[f][k]
         /\ \A k \in 1..Len(log'[f]) : k = Len(log[f]) + 1 \/ k \in 1..Len(log[f])
<1>1. log' = [log EXCEPT ![f] = Append(@, r)] /\ log \in [File -> Seq(Nat)]
  BY DEF Write, TypeOK
<1>2. log'[f] = Append(log[f], r) /\ \A g \in File \ {f} : log'[g] = log[g]
  BY <1>1
<1>3. log[f] \in Seq(Nat)
  BY <1>1
<1>4. /\ Len(Append(log[f], r)) = Len(log[f]) + 1 /\ Len(log[f]) \in Nat
      /\ Append(log[f], r)[Len(log[f]) + 1] = r
      /\ \A k \in 1..Len(log[f]) : Append(log[f], r)[k] = log[f][k]
  BY <1>3
<1> QED BY <1>2, <1>4

LEMMA TakeExact ==
  ASSUME TypeOK, queue # <<>>, queue' = Tail(queue)
  PROVE  /\ Head(queue) = queue[1] /\ Len(queue) \in Nat /\ Len(queue) > 0
         /\ Len(queue') = Len(queue) - 1
         /\ \A k \in 1..Len(queue') : queue'[k] = queue[k + 1] /\ k + 1 \in 1..Len(queue)
<1>1. queue \in Seq(Nat)
  BY DEF TypeOK
<1>2. /\ Len(Tail(queue)) = Len(queue) - 1 /\ Len(queue) \in Nat /\ Head(queue) = queue[1]
      /\ \A k \in 1..Len(Tail(queue)) : Tail(queue)[k] = queue[k + 1]
  BY <1>1
<1>3. Len(queue) > 0
  BY <1>1, <1>2
<1> QED BY <1>2, <1>3

\* What is taken is below what stays, and with it what was below all before.
LEMMA TakeBelow ==
  ASSUME TypeOK, FifoInv, queue # <<>>, queue' = Tail(queue), UNCHANGED hop
  PROVE  /\ \A j, k \in 1..Len(queue') : j < k => queue'[j] < queue'[k]
         /\ \A k \in 1..Len(queue') : queue'[k] < NextFrame'
         /\ \A x \in Nat : Below(x) => Below(x)' /\ x < Head(queue)
         /\ \A x \in Nat : x = Head(queue) => Below(x)'
<1>1. /\ Head(queue) = queue[1] /\ Len(queue) \in Nat /\ Len(queue) > 0
      /\ Len(queue') = Len(queue) - 1
      /\ \A k \in 1..Len(queue') : queue'[k] = queue[k + 1] /\ k + 1 \in 1..Len(queue)
  BY TakeExact
<1>2. NextFrame' = NextFrame
  BY DEF NextFrame, hop
<1>3. 1 \in 1..Len(queue) /\ \A k \in 1..Len(queue') : 1 < k + 1
  BY <1>1
<1>4. \A j, k \in 1..Len(queue') : j < k => queue'[j] < queue'[k]
  BY <1>1 DEF FifoInv
<1>5. \A k \in 1..Len(queue') : queue'[k] < NextFrame' /\ queue[1] < queue'[k]
  BY <1>1, <1>2, <1>3 DEF FifoInv
<1>6. ASSUME NEW x \in Nat, Below(x) PROVE Below(x)' /\ x < Head(queue)
  BY <1>1, <1>2, <1>3, <1>6 DEF Below
<1>7. ASSUME NEW x \in Nat, x = Head(queue) PROVE Below(x)'
  <2>1. queue[1] < NextFrame
    BY <1>3 DEF FifoInv
  <2> QED BY <1>1, <1>2, <1>5, <1>7, <2>1 DEF Below
<1> QED BY <1>4, <1>5, <1>6, <1>7

\* All that is in the files stays below after a write.
LEMMA WriteBelow ==
  ASSUME TypeOK, FifoInv, NEW f \in File, NEW r \in Nat, Write(f, r), Below(r),
         UNCHANGED <<queue, hop>>
  PROVE  /\ \A g \in File : \A k \in 1..Len(log'[g]) : Below(log'[g][k])
         /\ \A x : Below(x) => Below(x)'
<1>1. \A x : Below(x) => Below(x)'
  BY DEF Below, NextFrame, hop
<1>2. ASSUME NEW g \in File, NEW k \in 1..Len(log'[g]) PROVE Below(log'[g][k])
  <2>1. CASE g = f
    <3>1. k = Len(log[f]) + 1 \/ k \in 1..Len(log[f])
      BY <2>1, WriteExact
    <3>2. log'[g][k] = IF k \in 1..Len(log[f]) THEN log[f][k] ELSE r
      BY <2>1, <3>1, WriteExact
    <3> QED BY <3>2 DEF FifoInv
  <2>2. CASE g # f
    <3>1. log'[g] = log[g]
      BY <2>2, WriteExact
    <3> QED BY <3>1 DEF FifoInv
  <2> QED BY <2>1, <2>2
<1> QED BY <1>1, <1>2

LEMMA FifoStep ==
  ASSUME TypeOK, FifoInv, [Next]_vars
  PROVE  FifoInv'
<1>0. /\ queue \in Seq(Nat) /\ frame \in Nat /\ item \in Nat
      /\ Destination(item) \in File /\ "csv" \in File
      /\ log \in [File -> Seq(Nat)] /\ hand \in [Closer -> Nat] /\ NextFrame \in Nat
      /\ \A c \in Closer : Destination(hand[c]) \in File
  BY DEF TypeOK, Destination, File, NextFrame
<1>1. CASE /\ UNCHANGED <<queue, log, item, hand>> /\ NextFrame' >= NextFrame /\ NextFrame' \in Nat
           /\ writer' \in {"write", "row"} => writer \in {"write", "row"}
           /\ \A c \in Closer : at'[c] = "write" => at[c] = "write"
  <2>1. ASSUME NEW x \in Nat, Below(x) PROVE Below(x)'
    <3>1. queue' = queue
      BY <1>1
    <3>2. x < NextFrame /\ \A k \in 1..Len(queue) : x < queue[k]
      BY <2>1 DEF Below
    <3>3. x < NextFrame'
      BY <1>0, <1>1, <3>2
    <3> QED BY <3>1, <3>2, <3>3 DEF Below
  <2>2. \A k \in 1..Len(queue) : queue[k] \in Nat
    BY <1>0
  <2>3. \A f \in File : \A k \in 1..Len(log[f]) : log[f][k] \in Nat
    BY <1>0
  <2>4. \A k \in 1..Len(queue') : queue'[k] < NextFrame'
    BY <1>0, <1>1, <2>2 DEF FifoInv
  <2>5. \A f \in File : \A k \in 1..Len(log'[f]) : Below(log[f][k])'
    BY <1>1, <2>1, <2>3 DEF FifoInv
  <2>6. writer' \in {"write", "row"} => Below(item)'
    BY <1>0, <1>1, <2>1 DEF FifoInv, Below
  <2>7. \A c \in Closer : at'[c] = "write" => Below(hand[c])'
    BY <1>0, <1>1, <2>1 DEF FifoInv, Below
  <2> QED BY <1>1, <2>4, <2>5, <2>6, <2>7 DEF FifoInv
<1>2. CASE SeeLogger \/ CallLogger \/ LogFrame \/ UNCHANGED vars
  BY <1>0, <1>1, <1>2 DEF SeeLogger, CallLogger, LogFrame, NextFrame, vars, logger, files, hop,
     writing, closing
<1>3. CASE Put
  <2>1. /\ NextFrame = frame /\ NextFrame' = frame + 1
        /\ UNCHANGED <<log, writer, item, at, hand>>
    BY <1>3 DEF Put, NextFrame, files, writing, closing
  <2>2. CASE UNCHANGED queue
    BY <1>0, <1>1, <2>1, <2>2
  <2>3. CASE Accept
    <3>1. queue' = Append(queue, frame)
      BY <2>3 DEF Accept
    <3>2. /\ Len(queue') = Len(queue) + 1 /\ Len(queue) \in Nat
          /\ queue'[Len(queue) + 1] = frame
          /\ \A k \in 1..Len(queue) : queue'[k] = queue[k]
      BY <1>0, <3>1
    <3>3. \A k \in 1..Len(queue') : k = Len(queue) + 1 \/ k \in 1..Len(queue)
      BY <3>2
    <3>4. \A k \in 1..Len(queue) : queue[k] \in Nat /\ queue[k] < frame
      BY <1>0, <2>1 DEF FifoInv
    <3>5. ASSUME NEW k \in 1..Len(queue') PROVE queue'[k] < NextFrame'
      <4>1. CASE k \in 1..Len(queue)
        <5>1. queue'[k] = queue[k] /\ queue[k] \in Nat /\ queue[k] < frame
          BY <3>2, <3>4, <4>1
        <5> QED BY <1>0, <2>1, <5>1
      <4>2. CASE k = Len(queue) + 1
        BY <1>0, <2>1, <3>2, <4>2
      <4> QED BY <3>3, <4>1, <4>2
    <3>6. \A j, k \in 1..Len(queue') : j < k => queue'[j] < queue'[k]
      <4> SUFFICES ASSUME NEW j \in 1..Len(queue'), NEW k \in 1..Len(queue'), j < k
                   PROVE  queue'[j] < queue'[k]
        OBVIOUS
      <4>1. j \in 1..Len(queue)
        BY <3>2, <3>3
      <4>2. CASE k \in 1..Len(queue)
        BY <3>2, <4>1, <4>2 DEF FifoInv
      <4>3. CASE k = Len(queue) + 1
        BY <3>2, <3>4, <4>1, <4>3
      <4> QED BY <3>3, <4>2, <4>3
    <3>7. ASSUME NEW x \in Nat, Below(x) PROVE Below(x)'
      <4>1. x < frame /\ \A k \in 1..Len(queue) : x < queue[k]
        BY <2>1, <3>7 DEF Below
      <4>2. \A k \in 1..Len(queue') : x < queue'[k]
        BY <3>2, <3>3, <4>1
      <4>3. x < frame + 1
        BY <1>0, <4>1
      <4> QED BY <2>1, <4>2, <4>3 DEF Below
    <3>8. \A f \in File : \A k \in 1..Len(log[f]) : log[f][k] \in Nat
      BY <1>0
    <3>9. \A f \in File : \A k \in 1..Len(log'[f]) : Below(log[f][k])'
      BY <2>1, <3>7, <3>8 DEF FifoInv
    <3>10. writer' \in {"write", "row"} => Below(item)'
      BY <1>0, <2>1, <3>7 DEF FifoInv, Below
    <3>11. \A c \in Closer : at'[c] = "write" => Below(hand[c])'
      BY <1>0, <2>1, <3>7 DEF FifoInv, Below
    <3> QED BY <3>5, <3>6, <3>9, <3>10, <3>11 DEF FifoInv
  <2> QED BY <1>3, <2>2, <2>3 DEF Put
<1>4. CASE WriterTest \/ WriterGetEmpty \/ WriterRaises
  BY <1>0, <1>1, <1>4 DEF WriterTest, WriterGetEmpty, WriterRaises, WriteRaises, NextFrame,
     logger, files, hop, closing
<1>5. CASE WriterGet
  <2>1. /\ queue # <<>> /\ queue' = Tail(queue) /\ item' = Head(queue)
        /\ UNCHANGED <<hop, log, at, hand>>
    BY <1>5 DEF WriterGet, files, closing
  <2>2. Head(queue) \in Nat
    BY <1>0, <2>1, TailElements
  <2>3. /\ \A j, k \in 1..Len(queue') : j < k => queue'[j] < queue'[k]
        /\ \A k \in 1..Len(queue') : queue'[k] < NextFrame'
        /\ \A x \in Nat : Below(x) => Below(x)'
        /\ \A x \in Nat : x = Head(queue) => Below(x)'
    BY <2>1, TakeBelow
  <2>4. \A f \in File : \A k \in 1..Len(log[f]) : log[f][k] \in Nat
    BY <1>0
  <2>5. \A f \in File : \A k \in 1..Len(log'[f]) : Below(log[f][k])'
    BY <2>1, <2>3, <2>4 DEF FifoInv
  <2>6. \A x \in Nat : x = item' => Below(x)'
    BY <2>1, <2>3
  <2>7. Below(item)'
    BY <2>1, <2>2, <2>6 DEF Below
  <2>8. \A c \in Closer : at'[c] = "write" => Below(hand[c])'
    BY <1>0, <2>1, <2>3 DEF FifoInv, Below
  <2> QED BY <2>3, <2>5, <2>7, <2>8 DEF FifoInv
<1>6. CASE WriteRecord \/ WriteRow
  <2>1. /\ UNCHANGED <<queue, hop, item, at, hand>> /\ writer \in {"write", "row"}
        /\ \E f \in File : Write(f, item)
    BY <1>0, <1>6 DEF WriteRecord, WriteRow, logger, closing
  <2>2. PICK f \in File : Write(f, item)
    BY <2>1
  <2>3. Below(item)
    BY <2>1 DEF FifoInv
  <2>4. /\ \A g \in File : \A k \in 1..Len(log'[g]) : Below(log'[g][k])
        /\ \A x : Below(x) => Below(x)'
    BY <1>0, <2>1, <2>2, <2>3, WriteBelow
  <2>5. NextFrame' = NextFrame
    BY <2>1 DEF NextFrame, hop
  <2> QED BY <2>1, <2>3, <2>4, <2>5 DEF FifoInv, Below
<1>7. ASSUME NEW c \in Closer, Stop(c)
      PROVE  FifoInv'
  <2>0. at \in [Closer -> {"ready", "call", "join", "drain", "take", "write", "report",
                           "close", "unset", "done", "raised"}]
    BY DEF TypeOK
  <2>1. CASE DrainGet(c)
    <3>1. /\ queue # <<>> /\ queue' = Tail(queue) /\ hand' = [hand EXCEPT ![c] = Head(queue)]
          /\ at' = [at EXCEPT ![c] = "write"]
          /\ UNCHANGED <<hop, log, writer, item>>
      BY <2>1 DEF DrainGet, Goto, files, writing
    <3>2. Head(queue) \in Nat
      BY <1>0, <3>1, TailElements
    <3>3. /\ \A j, k \in 1..Len(queue') : j < k => queue'[j] < queue'[k]
          /\ \A k \in 1..Len(queue') : queue'[k] < NextFrame'
          /\ \A x \in Nat : Below(x) => Below(x)'
          /\ \A x \in Nat : x = Head(queue) => Below(x)'
      BY <3>1, TakeBelow
    <3>4. \A f \in File : \A k \in 1..Len(log[f]) : log[f][k] \in Nat
      BY <1>0
    <3>5. \A f \in File : \A k \in 1..Len(log'[f]) : Below(log[f][k])'
      BY <3>1, <3>3, <3>4 DEF FifoInv
    <3>6. writer' \in {"write", "row"} => Below(item)'
      BY <1>0, <3>1, <3>3 DEF FifoInv, Below
    <3>7. ASSUME NEW d \in Closer, at'[d] = "write" PROVE Below(hand[d])'
      <4>1. CASE d = c
        <5>1. hand'[d] = Head(queue)
          BY <1>0, <3>1, <4>1
        <5>2. \A x \in Nat : x = hand'[d] => Below(x)'
          BY <3>3, <5>1
        <5> QED BY <3>2, <5>1, <5>2 DEF Below
      <4>2. CASE d # c
        <5>1. hand'[d] = hand[d] /\ at[d] = "write" /\ hand[d] \in Nat
          BY <1>0, <2>0, <3>1, <3>7, <4>2
        <5>2. \A x \in Nat : x = hand[d] => Below(x)'
          BY <3>3, <5>1 DEF FifoInv
        <5> QED BY <5>1, <5>2 DEF Below
      <4> QED BY <4>1, <4>2
    <3> QED BY <3>3, <3>5, <3>6, <3>7 DEF FifoInv
  <2>2. CASE DrainWrite(c)
    <3>1. /\ UNCHANGED <<queue, hop, writer, item, hand>> /\ at[c] = "write"
          /\ at' = [at EXCEPT ![c] = "drain"] /\ Write(Destination(hand[c]), hand[c])
      BY <2>2 DEF DrainWrite, Goto, logger, writing
    <3>2. Below(hand[c])
      BY <3>1 DEF FifoInv
    <3>3. /\ \A g \in File : \A k \in 1..Len(log'[g]) : Below(log'[g][k])
          /\ \A x : Below(x) => Below(x)'
      BY <1>0, <3>1, <3>2, WriteBelow
    <3>4. NextFrame' = NextFrame
      BY <3>1 DEF NextFrame, hop
    <3>5. \A d \in Closer : at'[d] = "write" => at[d] = "write"
      BY <2>0, <3>1
    <3> QED BY <3>1, <3>3, <3>4, <3>5 DEF FifoInv, Below
  <2>3. CASE ~DrainGet(c) /\ ~DrainWrite(c)
    <3>1. /\ UNCHANGED <<queue, log, hop, writer, item, hand>>
          /\ \E place : place # "write" /\ (at' = at \/ Goto(c, place))
      BY <1>7, <2>3 DEF Stop, StopCheck, StopCall, Join, JoinTimeout, DrainTest,
        DrainGetEmpty, DrainRaises, Report, CloseFile, FilesClosed, Unset, WriteRaises,
        logger, files, writing
    <3>2. NextFrame' = NextFrame
      BY <3>1 DEF NextFrame, hop
    <3>3. \A d \in Closer : at'[d] = "write" => at[d] = "write"
      BY <2>0, <3>1 DEF Goto
    <3> QED BY <1>0, <1>1, <3>1, <3>2, <3>3
  <2> QED BY <2>1, <2>2, <2>3
<1> QED BY <1>2, <1>3, <1>4, <1>5, <1>6, <1>7 DEF Next, Audio, Writer

------------------------------------------------------------------------------
\* Once.

\* A record on its way to the files is in none of those it goes to, and on no
\* other way.
OnceInv ==
  /\ LoggedOnce
  /\ writer \in {"write", "row"} =>
       /\ ~IsIn(item, "csv")
       /\ \A c \in Closer : at[c] = "write" => hand[c] # item
  /\ writer = "write" => ~IsIn(item, "jsonl") /\ ~IsIn(item, "errors")
  /\ \A c \in Closer : at[c] = "write" => ~IsIn(hand[c], "jsonl") /\ ~IsIn(hand[c], "errors")
  /\ \A c, d \in Closer : at[c] = "write" /\ at[d] = "write" /\ hand[c] = hand[d] => c = d

\* Writing what is not in the file yet.
LEMMA WriteOnce ==
  ASSUME TypeOK, LoggedOnce, NEW f \in File, NEW r \in Nat, Write(f, r), ~IsIn(r, f)
  PROVE  /\ LoggedOnce'
         /\ \A g \in File, x \in Nat : IsIn(x, g)' => IsIn(x, g) \/ (g = f /\ x = r)
<1>1. /\ \A g \in File \ {f} : log'[g] = log[g]
      /\ Len(log'[f]) = Len(log[f]) + 1 /\ Len(log[f]) \in Nat
      /\ log'[f][Len(log[f]) + 1] = r
      /\ \A k \in 1..Len(log[f]) : log'[f][k] = log[f][k]
      /\ \A k \in 1..Len(log'[f]) : k = Len(log[f]) + 1 \/ k \in 1..Len(log[f])
  BY WriteExact
<1>2. \A k \in 1..Len(log[f]) : log[f][k] # r
  BY DEF IsIn
<1>3. ASSUME NEW g \in File, NEW j \in 1..Len(log'[g]), NEW k \in 1..Len(log'[g]),
             log'[g][j] = log'[g][k]
      PROVE  j = k
  <2>1. CASE g # f
    <3>1. log'[g] = log[g]
      BY <1>1, <2>1
    <3> QED BY <1>3, <3>1 DEF LoggedOnce
  <2>2. CASE g = f
    <3>1. CASE j \in 1..Len(log[f]) /\ k \in 1..Len(log[f])
      <4>1. log[f][j] = log[f][k]
        BY <1>1, <1>3, <2>2, <3>1
      <4> QED BY <3>1, <4>1 DEF LoggedOnce
    <3>2. CASE j \notin 1..Len(log[f]) /\ k \in 1..Len(log[f])
      BY <1>1, <1>2, <1>3, <2>2, <3>2
    <3>3. CASE j \in 1..Len(log[f]) /\ k \notin 1..Len(log[f])
      BY <1>1, <1>2, <1>3, <2>2, <3>3
    <3>4. CASE j \notin 1..Len(log[f]) /\ k \notin 1..Len(log[f])
      BY <1>1, <2>2, <3>4
    <3> QED BY <3>1, <3>2, <3>3, <3>4
  <2> QED BY <2>1, <2>2
<1>4. ASSUME NEW g \in File, NEW x \in Nat, IsIn(x, g)'
      PROVE  IsIn(x, g) \/ (g = f /\ x = r)
  <2>1. PICK k \in 1..Len(log'[g]) : log'[g][k] = x
    BY <1>4 DEF IsIn
  <2>2. CASE g # f
    <3>1. log'[g] = log[g]
      BY <1>1, <2>2
    <3> QED BY <2>1, <3>1 DEF IsIn
  <2>3. CASE g = f
    BY <1>1, <2>1, <2>3 DEF IsIn
  <2> QED BY <2>2, <2>3
<1> QED BY <1>3, <1>4 DEF LoggedOnce

\* What is taken from the queue has not been seen before.
LEMMA HeadUnseen ==
  ASSUME TypeOK, FifoInv, queue # <<>>, queue' = Tail(queue), UNCHANGED hop
  PROVE  /\ Head(queue) \in Nat
         /\ \A f \in File : ~IsIn(Head(queue), f)
         /\ writer \in {"write", "row"} => item # Head(queue)
         /\ \A c \in Closer : at[c] = "write" => hand[c] # Head(queue)
<1>1. Head(queue) \in Nat /\ \A x \in Nat : Below(x) => x < Head(queue)
  BY TakeBelow, TailElements DEF TypeOK
<1>2. /\ \A f \in File : \A k \in 1..Len(log[f]) : log[f][k] \in Nat
      /\ item \in Nat /\ \A c \in Closer : hand[c] \in Nat
  BY SMTT(30) DEF TypeOK
<1>3. ASSUME NEW x \in Nat, Below(x) PROVE x # Head(queue)
  <2>1. x < Head(queue)
    BY <1>1, <1>3
  <2> QED BY <1>1, <2>1
<1>4. \A f \in File : ~IsIn(Head(queue), f)
  BY <1>2, <1>3 DEF FifoInv, IsIn
<1> QED BY <1>1, <1>2, <1>3, <1>4 DEF FifoInv

LEMMA OnceStep ==
  ASSUME TypeOK, FifoInv, OnceInv, [Next]_vars
  PROVE  OnceInv'
<1>0. /\ item \in Nat /\ Destination(item) \in {"jsonl", "errors"} /\ {"jsonl", "csv", "errors"} = File
      /\ hand \in [Closer -> Nat]
      /\ \A c \in Closer : Destination(hand[c]) \in {"jsonl", "errors"}
      /\ at \in [Closer -> {"ready", "call", "join", "drain", "take", "write", "report",
                            "close", "unset", "done", "raised"}]
  BY DEF TypeOK, Destination, File
<1>1. CASE /\ UNCHANGED <<log, item, hand>>
           /\ writer' \in {"write", "row"} => writer' = writer
           /\ \A c \in Closer : at'[c] = "write" => at[c] = "write"
  <2>1. /\ LoggedOnce' /\ \A f : \A x : IsIn(x, f)' <=> IsIn(x, f)
    BY <1>1 DEF OnceInv, LoggedOnce, IsIn
  <2> QED BY <1>1, <2>1 DEF OnceInv, IsIn
<1>2. CASE Audio \/ WriterTest \/ WriterGetEmpty \/ WriterRaises \/ UNCHANGED vars
  BY <1>1, <1>2 DEF Audio, SeeLogger, CallLogger, LogFrame, Put, WriterTest, WriterGetEmpty,
     WriterRaises, WriteRaises, vars, files, writing, closing
<1>3. CASE WriterGet
  <2>1. /\ queue # <<>> /\ queue' = Tail(queue) /\ item' = Head(queue) /\ writer' = "write"
        /\ UNCHANGED <<hop, log, at, hand>>
    BY <1>3 DEF WriterGet, files, closing
  <2>2. /\ \A f \in File : ~IsIn(Head(queue), f)
        /\ \A c \in Closer : at[c] = "write" => hand[c] # Head(queue)
    BY <2>1, HeadUnseen
  <2>3. \A f \in File : ~IsIn(item, f)'
    BY <2>1, <2>2 DEF IsIn
  <2>4. LoggedOnce' /\ \A c \in Closer : \A f : IsIn(hand[c], f)' => IsIn(hand[c], f)
    BY <2>1 DEF OnceInv, LoggedOnce, IsIn
  <2> QED BY <1>0, <2>1, <2>2, <2>3, <2>4 DEF OnceInv
<1>4. CASE WriteRecord
  <2>1. /\ UNCHANGED <<item, at, hand>> /\ writer = "write" /\ writer' \in {"test", "row"}
        /\ Write(Destination(item), item)
    BY <1>4 DEF WriteRecord, closing
  <2>2. ~IsIn(item, Destination(item))
    BY <1>0, <2>1 DEF OnceInv
  <2>3. /\ LoggedOnce'
        /\ \A g \in File, x \in Nat : IsIn(x, g)' => IsIn(x, g) \/ (g = Destination(item) /\ x = item)
    BY <1>0, <2>1, <2>2, WriteOnce DEF OnceInv
  <2>4. ~IsIn(item, "csv")'
    <3>1. \A x \in Nat : x = item => ~IsIn(x, "csv")'
      BY <1>0, <2>1, <2>3 DEF OnceInv
    <3> QED BY <1>0, <2>1, <3>1 DEF IsIn
  <2>5. ASSUME NEW c \in Closer, at'[c] = "write"
        PROVE  ~IsIn(hand[c], "jsonl")' /\ ~IsIn(hand[c], "errors")'
    <3>1. at[c] = "write" /\ hand[c] # item /\ hand[c] \in Nat
      BY <1>0, <2>1, <2>5 DEF OnceInv
    <3>2. \A x \in Nat : x = hand[c] => ~IsIn(x, "jsonl")' /\ ~IsIn(x, "errors")'
      BY <1>0, <2>3, <3>1 DEF OnceInv
    <3> QED BY <2>1, <3>1, <3>2 DEF IsIn
  <2> QED BY <2>1, <2>3, <2>4, <2>5 DEF OnceInv
<1>5. CASE WriteRow
  <2>1. /\ UNCHANGED <<item, at, hand>> /\ writer = "row" /\ writer' = "test"
        /\ Write("csv", item)
    BY <1>5 DEF WriteRow, closing
  <2>2. ~IsIn(item, "csv")
    BY <2>1 DEF OnceInv
  <2>3. /\ LoggedOnce'
        /\ \A g \in File, x \in Nat : IsIn(x, g)' => IsIn(x, g) \/ (g = "csv" /\ x = item)
    BY <1>0, <2>1, <2>2, WriteOnce DEF OnceInv
  <2>5. ASSUME NEW c \in Closer, at'[c] = "write"
        PROVE  ~IsIn(hand[c], "jsonl")' /\ ~IsIn(hand[c], "errors")'
    <3>1. at[c] = "write" /\ hand[c] \in Nat
      BY <1>0, <2>1, <2>5
    <3>2. \A x \in Nat : x = hand[c] => ~IsIn(x, "jsonl")' /\ ~IsIn(x, "errors")'
      BY <1>0, <2>3, <3>1 DEF OnceInv
    <3> QED BY <2>1, <3>1, <3>2 DEF IsIn
  <2> QED BY <2>1, <2>3, <2>5 DEF OnceInv
<1>6. ASSUME NEW c \in Closer, Stop(c)
      PROVE  OnceInv'
  <2>1. CASE DrainGet(c)
    <3>1. /\ queue # <<>> /\ queue' = Tail(queue) /\ hand' = [hand EXCEPT ![c] = Head(queue)]
          /\ at[c] = "take" /\ at' = [at EXCEPT ![c] = "write"]
          /\ UNCHANGED <<hop, log, writer, item>>
      BY <2>1 DEF DrainGet, Goto, files, writing
    <3>2. /\ \A f \in File : ~IsIn(Head(queue), f)
          /\ writer \in {"write", "row"} => item # Head(queue)
          /\ \A d \in Closer : at[d] = "write" => hand[d] # Head(queue)
      BY <3>1, HeadUnseen
    <3>3. /\ hand'[c] = Head(queue) /\ at'[c] = "write"
          /\ \A d \in Closer \ {c} : hand'[d] = hand[d] /\ at'[d] = at[d]
      BY <1>0, <3>1
    <3>4. /\ LoggedOnce'
          /\ \A f : IsIn(item, f)' => IsIn(item, f)
          /\ \A f \in File : ~IsIn(hand[c], f)'
          /\ \A d \in Closer \ {c} : \A f : IsIn(hand[d], f)' => IsIn(hand[d], f)
      BY <3>1, <3>2, <3>3 DEF OnceInv, LoggedOnce, IsIn
    <3>5. writer' \in {"write", "row"} => ~IsIn(item, "csv")' /\
            \A d \in Closer : at'[d] = "write" => hand'[d] # item'
      BY <3>1, <3>2, <3>3, <3>4 DEF OnceInv
    <3>6. writer' = "write" => ~IsIn(item, "jsonl")' /\ ~IsIn(item, "errors")'
      BY <3>1, <3>4 DEF OnceInv
    <3>7. \A d \in Closer : at'[d] = "write" => ~IsIn(hand[d], "jsonl")' /\ ~IsIn(hand[d], "errors")'
      BY <1>0, <3>3, <3>4 DEF OnceInv
    <3>8. \A d, e \in Closer : at'[d] = "write" /\ at'[e] = "write" /\ hand'[d] = hand'[e] => d = e
      BY <3>2, <3>3 DEF OnceInv
    <3> QED BY <3>4, <3>5, <3>6, <3>7, <3>8 DEF OnceInv
  <2>2. CASE DrainWrite(c)
    <3>1. /\ UNCHANGED <<writer, item, hand>> /\ at[c] = "write"
          /\ at' = [at EXCEPT ![c] = "drain"] /\ Write(Destination(hand[c]), hand[c])
      BY <2>2 DEF DrainWrite, Goto, writing
    <3>2. ~IsIn(hand[c], Destination(hand[c])) /\ hand[c] \in Nat /\ Destination(hand[c]) \in File
      BY <1>0, <3>1 DEF OnceInv
    <3>3. /\ LoggedOnce'
          /\ \A g \in File, x \in Nat :
               IsIn(x, g)' => IsIn(x, g) \/ (g = Destination(hand[c]) /\ x = hand[c])
      BY <3>1, <3>2, WriteOnce DEF OnceInv
    <3>4. at'[c] # "write" /\ \A d \in Closer \ {c} : at'[d] = at[d]
      BY <1>0, <3>1
    <3>5. ASSUME writer \in {"write", "row"}
          PROVE  /\ ~IsIn(item, "csv")'
                 /\ writer = "write" => ~IsIn(item, "jsonl")' /\ ~IsIn(item, "errors")'
      <4>1. item # hand[c]
        BY <3>1, <3>5 DEF OnceInv
      <4>2. \A x \in Nat : x = item =>
              /\ ~IsIn(x, "csv")'
              /\ writer = "write" => ~IsIn(x, "jsonl")' /\ ~IsIn(x, "errors")'
        BY <1>0, <3>3, <3>5, <4>1 DEF OnceInv
      <4> QED BY <1>0, <3>1, <4>2 DEF IsIn
    <3>6. ASSUME NEW d \in Closer, at'[d] = "write"
          PROVE  ~IsIn(hand[d], "jsonl")' /\ ~IsIn(hand[d], "errors")'
      <4>1. d # c /\ at[d] = "write" /\ hand[d] # hand[c] /\ hand[d] \in Nat
        BY <1>0, <3>1, <3>4, <3>6 DEF OnceInv
      <4>2. \A x \in Nat : x = hand[d] => ~IsIn(x, "jsonl")' /\ ~IsIn(x, "errors")'
        BY <1>0, <3>3, <4>1 DEF OnceInv
      <4> QED BY <3>1, <4>1, <4>2 DEF IsIn
    <3>7. \A d \in Closer : at'[d] = "write" => at[d] = "write"
      BY <3>4
    <3> QED BY <3>1, <3>3, <3>5, <3>6, <3>7 DEF OnceInv
  <2>3. CASE ~DrainGet(c) /\ ~DrainWrite(c)
    <3>1. /\ UNCHANGED <<log, writer, item, hand>>
          /\ \E place : place # "write" /\ (at' = at \/ Goto(c, place))
      BY <1>6, <2>3 DEF Stop, StopCheck, StopCall, Join, JoinTimeout, DrainTest,
        DrainGetEmpty, DrainRaises, Report, CloseFile, FilesClosed, Unset, WriteRaises,
        files, writing
    <3>2. \A d \in Closer : at'[d] = "write" => at[d] = "write"
      BY <1>0, <3>1 DEF Goto
    <3> QED BY <1>1, <3>1, <3>2
  <2> QED BY <2>1, <2>2, <2>3
<1> QED BY <1>2, <1>3, <1>4, <1>5, <1>6 DEF Next, Writer

LEMMA InitOnce == Init => FifoInv /\ OnceInv
<1> SUFFICES ASSUME Init PROVE FifoInv /\ OnceInv
  OBVIOUS
<1>1. queue = <<0>> /\ Len(<<0>>) = 1 /\ <<0>>[1] = 0
  BY DEF Init, Started
<1>2. /\ \A f \in File : Len(log[f]) = 0 /\ log[f] = <<>>
      /\ writer = "test" /\ NextFrame = 1 /\ \A c \in Closer : at[c] # "write"
  BY DEF Init, NextFrame
<1>3. FifoInv
  BY <1>1, <1>2 DEF FifoInv
<1>4. OnceInv
  BY <1>2 DEF OnceInv, LoggedOnce
<1> QED BY <1>3, <1>4

\* No record is in a file twice, however the writer and the closers share the
\* queue after a join that timed out (_writer_loop and close).
THEOREM NeverTwice == Spec => []LoggedOnce
<1>1. TypeOK /\ FifoInv /\ OnceInv /\ [Next]_vars => FifoInv' /\ OnceInv'
  BY FifoStep, OnceStep
<1>2. OnceInv => LoggedOnce
  BY DEF OnceInv
<1> QED BY InitOnce, <1>1, <1>2, TypeCorrect, PTL DEF Spec

------------------------------------------------------------------------------
\* In order.

Increasing(f) == \A j, k \in 1..Len(log[f]) : j < k => log[f][j] < log[f][k]
Newer(x, f) == \A k \in 1..Len(log[f]) : log[f][k] < x

\* The row on its way to metrics.csv is newer than those in it.
RowsInv == Increasing("csv") /\ (writer \in {"write", "row"} => Newer(item, "csv"))

\* So is the record on its way to the other files, with the writer before it ended
\* and with one closer after.
RecordsInv ==
  \A f \in {"jsonl", "errors"} :
    /\ Increasing(f)
    /\ writer = "write" => Newer(item, f)
    /\ \A c \in Closer : at[c] = "write" => Newer(hand[c], f)

\* When the writer has ended one record at most may still come, so that no two
\* closers ever hold one at a time.
LastInv ==
  writer = "ended" =>
    /\ audio = "put" => queue = <<>> /\ \A c \in Closer : at[c] # "write"
    /\ queue # <<>> => Len(queue) = 1 /\ \A c \in Closer : at[c] # "write"
    /\ \A c, d \in Closer : at[c] = "write" /\ at[d] = "write" => c = d

OrderInv == RowsInv /\ (~timed_out => RecordsInv /\ LastInv)

LEMMA WriteInOrder ==
  ASSUME TypeOK, NEW f \in File, NEW r \in Nat, Write(f, r), Increasing(f), Newer(r, f)
  PROVE  Increasing(f)' /\ \A g \in File \ {f} : log'[g] = log[g]
<1>1. ASSUME NEW j \in 1..Len(log'[f]), NEW k \in 1..Len(log'[f]), j < k
      PROVE  log'[f][j] < log'[f][k]
  <2>1. /\ Len(log'[f]) = Len(log[f]) + 1 /\ Len(log[f]) \in Nat
        /\ log'[f][Len(log[f]) + 1] = r
        /\ \A i \in 1..Len(log[f]) : log'[f][i] = log[f][i]
    BY WriteExact
  <2>2. j \in 1..Len(log[f])
    BY <1>1, <2>1
  <2>3. CASE k \in 1..Len(log[f])
    BY <1>1, <2>1, <2>2, <2>3 DEF Increasing
  <2>4. CASE k = Len(log[f]) + 1
    BY <2>1, <2>2, <2>4 DEF Newer
  <2> QED BY <1>1, <2>1, <2>3, <2>4
<1> QED BY <1>1, WriteExact DEF Increasing

\* What is taken from the queue is newer than all that was written.
LEMMA HeadNewer ==
  ASSUME TypeOK, FifoInv, queue # <<>>, queue' = Tail(queue), UNCHANGED hop
  PROVE  \A f \in File : Newer(Head(queue), f)
<1>1. \A x \in Nat : Below(x) => x < Head(queue)
  BY TakeBelow
<1>2. \A f \in File : \A k \in 1..Len(log[f]) : log[f][k] \in Nat
  BY DEF TypeOK
<1> QED BY <1>1, <1>2 DEF FifoInv, Newer

LEMMA OrderStep ==
  ASSUME TypeOK, WriterInv, FifoInv, OrderInv, [Next]_vars
  PROVE  OrderInv'
<1>0. /\ item \in Nat /\ Destination(item) \in {"jsonl", "errors"} /\ {"jsonl", "csv", "errors"} = File
      /\ hand \in [Closer -> Nat] /\ queue \in Seq(Nat)
      /\ \A c \in Closer : Destination(hand[c]) \in {"jsonl", "errors"}
      /\ at \in [Closer -> {"ready", "call", "join", "drain", "take", "write", "report",
                            "close", "unset", "done", "raised"}]
  BY DEF TypeOK, Destination, File
<1>1. \* Nobody takes a record or writes one.
      ASSUME UNCHANGED <<log, item, hand>>,
             writer' \in {"write", "row"} => writer' = writer,
             \A c \in Closer : at'[c] = "write" => at[c] = "write",
             ~timed_out' => ~timed_out
      PROVE  RowsInv' /\ (~timed_out' => RecordsInv')
  BY <1>1 DEF OrderInv, RowsInv, RecordsInv, Increasing, Newer
<1>2. CASE SeeLogger \/ CallLogger \/ LogFrame \/ WriterGetEmpty \/ WriterRaises \/ UNCHANGED vars
  <2>1. /\ UNCHANGED <<log, item, hand, queue, at, timed_out, running>>
        /\ writer' = writer \/ writer' = "test"
        /\ audio' = "put" => audio = "put" \/ (writer' = writer /\ running)
    BY <1>2 DEF SeeLogger, CallLogger, LogFrame, WriterGetEmpty, WriterRaises, WriteRaises,
       vars, logger, files, writing, closing, hop, history
  <2>2. ~timed_out' => LastInv'
    BY <2>1 DEF OrderInv, LastInv, WriterInv
  <2> QED BY <1>1, <2>1, <2>2 DEF OrderInv
<1>3. CASE Put
  <2>1. /\ UNCHANGED <<log, item, hand, at, timed_out, writer>>
        /\ audio = "put" /\ audio' = "hop"
        /\ queue' = queue \/ queue' = Append(queue, frame)
    BY <1>3 DEF Put, Accept, files, writing, closing
  <2>2. ASSUME queue = <<>> PROVE Len(Append(queue, frame)) = 1
    BY <2>2, <1>0
  <2>3. ~timed_out' => LastInv'
    BY <2>1, <2>2 DEF OrderInv, LastInv
  <2> QED BY <1>1, <2>1, <2>3 DEF OrderInv
<1>4. CASE WriterTest
  <2>1. /\ UNCHANGED <<log, item, hand, queue, at, timed_out, running>>
        /\ writer = "test" /\ writer' \in {"get", "ended"}
        /\ writer' = "ended" => queue = <<>>
    BY <1>4 DEF WriterTest, logger, files, closing, history
  <2>2. ~timed_out => \A c \in Closer : at[c] # "write"
    BY <2>1 DEF WriterInv, Joined
  <2>3. ~timed_out' => LastInv'
    BY <2>1, <2>2 DEF LastInv
  <2> QED BY <1>1, <2>1, <2>3 DEF OrderInv
<1>5. CASE WriterGet
  <2>1. /\ queue # <<>> /\ queue' = Tail(queue) /\ item' = Head(queue) /\ writer' = "write"
        /\ UNCHANGED <<hop, log, at, hand, timed_out>>
    BY <1>5 DEF WriterGet, files, closing, history
  <2>2. \A f \in File : Newer(Head(queue), f)
    BY <2>1, HeadNewer
  <2>3. /\ \A f \in File : \A k \in 1..Len(log'[f]) : log'[f][k] < item'
        /\ \A f \in File : Increasing(f) => Increasing(f)'
    BY <2>1, <2>2 DEF Newer, Increasing
  <2>4. RowsInv'
    BY <1>0, <2>3 DEF OrderInv, RowsInv, Newer
  <2>5. ~timed_out' => RecordsInv'
    BY <1>0, <2>1, <2>3 DEF OrderInv, RecordsInv, Newer
  <2>6. LastInv'
    BY <2>1 DEF LastInv
  <2> QED BY <2>4, <2>5, <2>6 DEF OrderInv
<1>6. CASE WriteRecord
  <2>1. /\ UNCHANGED <<item, at, hand, timed_out>> /\ writer = "write" /\ writer' \in {"test", "row"}
        /\ Write(Destination(item), item)
    BY <1>6 DEF WriteRecord, Write, closing, history
  <2>2. Destination(item) \in File /\ \A g \in File \ {Destination(item)} : log'[g] = log[g]
    BY <1>0, <2>1, WriteExact
  <2>3. log'["csv"] = log["csv"]
    BY <1>0, <2>2
  <2>4. RowsInv'
    BY <2>1, <2>3 DEF OrderInv, RowsInv, Increasing, Newer
  <2>5. ASSUME ~timed_out PROVE RecordsInv'
    <3>1. Increasing(Destination(item)) /\ Newer(item, Destination(item))
      BY <1>0, <2>1, <2>5 DEF OrderInv, RecordsInv
    <3>2. /\ \A f \in {"jsonl", "errors"} : f # Destination(item) => Increasing(f)'
          /\ \A f \in {"jsonl", "errors"} : f = Destination(item) => Increasing(f)'
      <4>1. Increasing(Destination(item)) => \A j, k \in 1..Len(log'[Destination(item)]) :
              j < k => log'[Destination(item)][j] < log'[Destination(item)][k]
        <5>1. \A f \in File : f = Destination(item) => Increasing(f)'
          BY <1>0, <2>1, <3>1, WriteInOrder
        <5> QED BY <2>2, <5>1 DEF Increasing
      <4> QED BY <1>0, <2>2, <2>5, <3>1, <4>1 DEF OrderInv, RecordsInv, Increasing
    <3>3. \A c \in Closer : at'[c] # "write"
      BY <2>1, <2>5 DEF WriterInv, Joined
    <3> QED BY <2>1, <3>2, <3>3 DEF RecordsInv
  <2>6. LastInv'
    BY <2>1 DEF LastInv
  <2> QED BY <2>1, <2>4, <2>5, <2>6 DEF OrderInv
<1>7. CASE WriteRow
  <2>1. /\ UNCHANGED <<item, at, hand, timed_out>> /\ writer = "row" /\ writer' = "test"
        /\ Write("csv", item)
    BY <1>7 DEF WriteRow, Write, closing, history
  <2>2. Increasing("csv")' /\ \A g \in File \ {"csv"} : log'[g] = log[g]
    BY <1>0, <2>1, WriteInOrder DEF OrderInv, RowsInv
  <2>3. log'["jsonl"] = log["jsonl"] /\ log'["errors"] = log["errors"]
    BY <1>0, <2>2
  <2>4. ~timed_out' => RecordsInv'
    BY <2>1, <2>3 DEF OrderInv, RecordsInv, Increasing, Newer
  <2> QED BY <2>1, <2>2, <2>4 DEF OrderInv, RowsInv, LastInv
<1>8. ASSUME NEW c \in Closer, Stop(c)
      PROVE  OrderInv'
  <2>1. CASE DrainGet(c)
    <3>1. /\ queue # <<>> /\ queue' = Tail(queue) /\ hand' = [hand EXCEPT ![c] = Head(queue)]
          /\ at[c] = "take" /\ at' = [at EXCEPT ![c] = "write"]
          /\ UNCHANGED <<hop, log, writer, item, timed_out>>
      BY <2>1 DEF DrainGet, Goto, files, writing, history
    <3>2. \A f \in File : Newer(Head(queue), f)
      BY <3>1, HeadNewer
    <3>3. /\ hand'[c] = Head(queue) /\ at'[c] = "write"
          /\ \A d \in Closer \ {c} : hand'[d] = hand[d] /\ at'[d] = at[d]
      BY <1>0, <3>1
    <3>4. RowsInv'
      BY <3>1 DEF OrderInv, RowsInv, Increasing, Newer
    <3>5. ASSUME ~timed_out PROVE RecordsInv'
      BY <1>0, <3>1, <3>2, <3>3, <3>5 DEF OrderInv, RecordsInv, Increasing, Newer
    <3>6. ASSUME ~timed_out, writer = "ended" PROVE LastInv'
      <4>1. Len(queue) = 1 /\ audio # "put" /\ \A d \in Closer : at[d] # "write"
        BY <3>1, <3>6 DEF OrderInv, LastInv
      <4>2. queue' = <<>>
        BY <1>0, <3>1, <4>1
      <4> QED BY <3>1, <3>3, <4>1, <4>2 DEF LastInv, hop
    <3>7. writer # "ended" => LastInv'
      BY <3>1 DEF LastInv
    <3> QED BY <3>1, <3>4, <3>5, <3>6, <3>7 DEF OrderInv
  <2>2. CASE DrainWrite(c)
    <3>1. /\ UNCHANGED <<queue, audio, writer, item, hand, timed_out>> /\ at[c] = "write"
          /\ at' = [at EXCEPT ![c] = "drain"] /\ Write(Destination(hand[c]), hand[c])
      BY <2>2 DEF DrainWrite, Write, Goto, logger, hop, writing, history
    <3>2. hand[c] \in Nat /\ Destination(hand[c]) \in File
      BY <1>0
    <3>3. \A g \in File \ {Destination(hand[c])} : log'[g] = log[g]
      BY <3>1, <3>2, WriteExact
    <3>4. log'["csv"] = log["csv"]
      BY <1>0, <3>3
    <3>5. RowsInv'
      BY <3>1, <3>4 DEF OrderInv, RowsInv, Increasing, Newer
    <3>6. at'[c] # "write" /\ \A d \in Closer \ {c} : at'[d] = at[d]
      BY <1>0, <3>1
    <3>7. ASSUME ~timed_out PROVE RecordsInv' /\ LastInv'
      <4>1. writer = "ended"
        BY <3>1, <3>7 DEF WriterInv, Joined
      <4>2. \A d \in Closer : at'[d] # "write"
        BY <3>1, <3>6, <3>7, <4>1 DEF OrderInv, LastInv
      <4>3. Increasing(Destination(hand[c])) /\ Newer(hand[c], Destination(hand[c]))
        BY <1>0, <3>1, <3>7 DEF OrderInv, RecordsInv
      <4>4. \A f \in File : f = Destination(hand[c]) => Increasing(f)'
        BY <3>1, <3>2, <4>3, WriteInOrder
      <4>5. \A f \in File : f # Destination(hand[c]) /\ Increasing(f) => Increasing(f)'
        BY <3>3 DEF Increasing
      <4>6. \A f \in {"jsonl", "errors"} : Increasing(f)'
        BY <1>0, <3>7, <4>4, <4>5 DEF OrderInv, RecordsInv
      <4> QED BY <3>1, <3>7, <4>1, <4>2, <4>6 DEF OrderInv, RecordsInv, LastInv
    <3> QED BY <3>1, <3>5, <3>7 DEF OrderInv
  <2>3. CASE ~DrainGet(c) /\ ~DrainWrite(c)
    <3>1. /\ UNCHANGED <<log, writer, item, hand, queue, audio>>
          /\ ~timed_out' => ~timed_out
          /\ \E place : place # "write" /\ (at' = at \/ Goto(c, place))
      BY <1>8, <2>3 DEF Stop, StopCheck, StopCall, Join, JoinTimeout, DrainTest,
        DrainGetEmpty, DrainRaises, Report, CloseFile, FilesClosed, Unset, WriteRaises,
        logger, files, hop, writing, history
    <3>2. \A d \in Closer : at'[d] = "write" => at[d] = "write"
      BY <1>0, <3>1 DEF Goto
    <3>3. ~timed_out' => LastInv'
      BY <3>1, <3>2 DEF OrderInv, LastInv
    <3> QED BY <1>1, <3>1, <3>2, <3>3 DEF OrderInv
  <2> QED BY <2>1, <2>2, <2>3
<1> QED BY <1>2, <1>3, <1>4, <1>5, <1>6, <1>7, <1>8 DEF Next, Audio, Writer

\* Rows of metrics.csv are always in the order of the frames, and the records of
\* the other files unless a join timed out (_writer_loop and close).
THEOREM InOrder == Spec => []LoggedInOrder
<1>1. Init => OrderInv
  BY DEF Init, OrderInv, RowsInv, RecordsInv, LastInv, Increasing, Newer, File
<1>2. TypeOK /\ WriterInv /\ FifoInv /\ OrderInv /\ [Next]_vars
        => WriterInv' /\ FifoInv' /\ OrderInv'
  BY WriterStep, FifoStep, OrderStep
<1>3. OrderInv => LoggedInOrder
  BY DEF OrderInv, RowsInv, RecordsInv, Increasing, LoggedInOrder, File
<1>4. Init => WriterInv
  BY InitComplete DEF CompleteInv
<1> QED BY InitOnce, <1>1, <1>2, <1>3, <1>4, TypeCorrect, PTL DEF Spec

------------------------------------------------------------------------------
\* The end of the session: what the audio thread can still do once the flag is
\* cleared, and how the closers come to an end.

LateInv ==
  /\ running \/ audio = "put" => late = {}
  /\ \A r, s \in late : r = s
  /\ Started \in accepted

ClosingInv == \A c \in Closer : at[c] \in Closing => ~running

\* The audio thread may enter the queue once more after the flag is cleared.
LEMMA LateStep ==
  ASSUME LateInv, [Next]_vars
  PROVE  LateInv'
<1>1. CASE Put
  <2>1. audio = "put" /\ late = {} /\ audio' = "hop" /\ running' = running
        /\ late' \in {late, late \cup {frame}} /\ (running => late' = late)
        /\ accepted \subseteq accepted'
    BY <1>1 DEF Put, Accept, LateInv
  <2> QED BY <2>1 DEF LateInv
<1>2. CASE SeeLogger \/ CallLogger \/ LogFrame
  <2>1. UNCHANGED <<late, accepted>> /\ running' = running /\ (audio' = "put" => running)
    BY <1>2 DEF SeeLogger, CallLogger, LogFrame, logger, history
  <2> QED BY <2>1 DEF LateInv
<1>3. CASE Writer
  <2>1. UNCHANGED <<late, accepted>> /\ running' = running /\ audio' = audio
    BY <1>3 DEF Writer, WriterTest, WriterGet, WriterGetEmpty, WriteRecord, WriteRow,
      WriterRaises, Write, WriteRaises, logger, hop, history
  <2> QED BY <2>1 DEF LateInv
<1>4. ASSUME NEW c \in Closer, Stop(c) PROVE LateInv'
  <2>1. UNCHANGED <<late, accepted>> /\ (running' => running) /\ audio' = audio
    BY <1>4 DEF Stop, StopCheck, StopCall, Join, JoinTimeout, DrainTest, DrainGet,
      DrainGetEmpty, DrainWrite, DrainRaises, Report, CloseFile, FilesClosed, Unset,
      Write, WriteRaises, logger, hop, history
  <2> QED BY <2>1 DEF LateInv
<1>5. CASE UNCHANGED vars
  BY <1>5 DEF vars, LateInv, logger, hop, history
<1> QED BY <1>1, <1>2, <1>3, <1>4, <1>5 DEF Next, Audio

\* All accepted records but one are in the closed log unless the disk failed on them
\* or a join timed out: the record exempted from CompleteLog is one at most.
THEOREM LogMissesOne == Spec => []AllButOne
<1>1. Init => LateInv
  BY DEF Init, LateInv
<1>2. LateInv /\ [Next]_vars => LateInv'
  BY LateStep
<1>3. CompleteLog /\ LateInv => AllButOne
  <2> SUFFICES ASSUME CompleteLog, LateInv, ~session_logger, ~timed_out
               PROVE  \E last \in accepted : \A r \in accepted \ failed : r = last \/ Logged(r)
    BY DEF AllButOne
  <2>1. \A r \in accepted \ (late \cup failed) : Logged(r)
    BY DEF CompleteLog
  <2>2. CASE accepted \cap late = {}
    BY <2>1, <2>2 DEF LateInv
  <2>3. CASE accepted \cap late # {}
    <3>1. PICK last \in accepted : last \in late
      BY <2>3
    <3>2. \A r \in accepted \ failed : r = last \/ Logged(r)
      BY <2>1, <3>1 DEF LateInv
    <3> QED BY <3>2
  <2> QED BY <2>2, <2>3
<1> QED BY <1>1, <1>2, <1>3, LogComplete, PTL DEF Spec

\* The flag is not set again.
LEMMA ClosingStep ==
  ASSUME TypeOK, ClosingInv, [Next]_vars
  PROVE  ClosingInv'
<1>1. CASE UNCHANGED <<running, at>>
  BY <1>1 DEF ClosingInv
<1>2. ASSUME NEW c \in Closer, Stop(c) PROVE ClosingInv'
  <2>1. /\ running' => running
        /\ at[c] \notin Closing => at'[c] \notin Closing \/ ~running'
        /\ \A d \in Closer \ {c} : at'[d] = at[d]
    BY <1>2 DEF TypeOK, Stop, StopCheck, StopCall, Join, JoinTimeout, DrainTest, DrainGet,
      DrainGetEmpty, DrainWrite, DrainRaises, Report, CloseFile, FilesClosed, Unset,
      Goto, Closing, logger
  <2> QED BY <2>1 DEF ClosingInv
<1>3. Audio \/ Writer \/ UNCHANGED vars => UNCHANGED <<running, at>>
  BY DEF Audio, SeeLogger, CallLogger, LogFrame, Put, Writer, WriterTest, WriterGet,
    WriterGetEmpty, WriteRecord, WriteRow, WriterRaises, vars, logger, closing
<1> QED BY <1>1, <1>2, <1>3 DEF Next

\* What is still to be drained or closed.
Remaining == Len(queue) + IF audio = "put" THEN 1 ELSE 0
Files == IsOpen("jsonl") + IsOpen("csv") + IsOpen("errors")

LeftSum ==
  /\ Remaining \in Nat /\ Files \in Nat
  /\ \A c \in Closer : at[c] \in Closing \cup {"done", "raised"} =>
       Place[at[c]] \in Nat /\ Left(c) = 3 * Remaining + Files + Place[at[c]]

LEMMA LeftFacts == TypeOK => LeftSum
<1> SUFFICES ASSUME TypeOK PROVE LeftSum
  OBVIOUS
<1>1. Len(queue) \in Nat
  BY DEF TypeOK
<1>2. Remaining \in Nat /\ Files \in Nat
  BY <1>1 DEF Remaining, Files, IsOpen
<1>3. \A x \in Closing \cup {"done", "raised"} : Place[x] \in Nat
  BY DEF Place, Closing
<1>4. ASSUME NEW c \in Closer, at[c] \in Closing \cup {"done", "raised"}
      PROVE  Left(c) = 3 * Remaining + Files + Place[at[c]]
  <2>1. Place[at[c]] \in Nat /\ {IsOpen("jsonl"), IsOpen("csv"), IsOpen("errors")} \subseteq Nat
    BY <1>3, <1>4 DEF IsOpen
  <2> QED BY <1>2, <2>1 DEF Left, Remaining, Files
<1> QED BY <1>2, <1>3, <1>4 DEF LeftSum

LEMMA LeftFactsNext == TypeOK' => LeftSum'
BY LeftFacts, PTL

\* Once the flag is cleared, whatever is drained or closed stays so: a put takes the
\* place of the record it was about to queue.
LEMMA OthersHelp ==
  ASSUME TypeOK, ~running, [Next]_vars
  PROVE  Remaining' <= Remaining /\ Files' <= Files
<1>q. Len(queue) \in Nat /\ queue \in Seq(Nat) /\ open \subseteq File /\ frame \in Nat
  BY DEF TypeOK
<1>1. CASE UNCHANGED <<queue, audio, open>>
  BY <1>1, <1>q DEF Remaining, Files, IsOpen
<1>2. CASE SeeLogger \/ CallLogger \/ LogFrame
  <2>1. UNCHANGED <<queue, open>> /\ audio # "put" /\ audio' # "put"
    BY <1>2 DEF SeeLogger, CallLogger, LogFrame, logger, files
  <2> QED BY <1>q, <2>1 DEF Remaining, Files, IsOpen
<1>3. CASE Put
  <2>1. open' = open /\ audio = "put" /\ audio' = "hop"
    BY <1>3 DEF Put, files
  <2>2. CASE Len(queue) < MaxQueue
    <3>1. Len(queue') = Len(queue) + 1
      BY <1>3, <1>q, <2>2, AppendElements DEF Put, Accept
    <3> QED BY <1>q, <2>1, <3>1 DEF Remaining, Files, IsOpen
  <2>3. CASE ~(Len(queue) < MaxQueue)
    <3>1. queue' = queue
      BY <1>3, <2>3 DEF Put
    <3> QED BY <1>q, <2>1, <3>1 DEF Remaining, Files, IsOpen
  <2> QED BY <2>2, <2>3
<1>4. CASE queue # <<>> /\ queue' = Tail(queue) /\ UNCHANGED <<audio, open>>
  <2>1. Len(queue') = Len(queue) - 1
    BY <1>4, <1>q, TailElements
  <2> QED BY <1>q, <1>4, <2>1 DEF Remaining, Files, IsOpen
<1>5. CASE open' \subseteq open /\ UNCHANGED <<queue, audio>>
  BY <1>q, <1>5 DEF Remaining, Files, IsOpen
<1>6. CASE Writer
  <2>1. CASE WriterGet
    BY <1>4, <2>1 DEF WriterGet, files, hop
  <2>2. CASE ~WriterGet
    BY <1>1, <1>6, <2>2 DEF Writer, WriterTest, WriterGetEmpty, WriteRecord, WriteRow,
      WriterRaises, Write, WriteRaises, logger, files, hop
  <2> QED BY <2>1, <2>2
<1>7. ASSUME NEW c \in Closer, Stop(c) PROVE Remaining' <= Remaining /\ Files' <= Files
  <2>1. CASE DrainGet(c)
    BY <1>4, <2>1 DEF DrainGet, files, hop
  <2>2. CASE ~DrainGet(c)
    BY <1>5, <1>7, <2>2 DEF Stop, StopCheck, StopCall, Join, JoinTimeout, DrainTest,
      DrainGetEmpty, DrainWrite, DrainRaises, Report, CloseFile, FilesClosed, Unset,
      Write, WriteRaises, logger, files, hop
  <2> QED BY <2>1, <2>2
<1>8. CASE UNCHANGED vars
  BY <1>1, <1>8 DEF vars, logger, files, hop
<1> QED BY <1>2, <1>3, <1>6, <1>7, <1>8 DEF Next, Audio

\* A step of the closer itself.
LEMMA CloserAdvances ==
  ASSUME TypeOK, NEW c \in Closer, at[c] \in Closing, Stop(c),
         Remaining' <= Remaining, Files' <= Files
  PROVE  /\ at'[c] \in Closing \cup {"done", "raised"}
         /\ \/ Place[at'[c]] < Place[at[c]]
            \/ Place[at'[c]] = Place[at[c]] /\ Files' < Files
            \/ Place[at'[c]] = Place[at[c]] + 2 /\ Remaining' < Remaining
<1>q. /\ at \in [Closer -> {"ready", "call", "join", "drain", "take", "write", "report",
                            "close", "unset", "done", "raised"}]
      /\ queue \in Seq(Nat) /\ Len(queue) \in Nat /\ open \subseteq File
  BY DEF TypeOK
<1>p. /\ Place["join"] = 7 /\ Place["write"] = 6 /\ Place["drain"] = 5 /\ Place["take"] = 4
      /\ Place["report"] = 3 /\ Place["close"] = 2 /\ Place["unset"] = 1
      /\ Place["done"] = 0 /\ Place["raised"] = 0
  BY DEF Place
<1>1. CASE DrainGet(c)
  <2>1. at[c] = "take" /\ at'[c] = "write" /\ audio' = audio /\ queue # <<>> /\ queue' = Tail(queue)
    BY <1>1, <1>q DEF DrainGet, Goto, hop
  <2>2. Len(queue') = Len(queue) - 1
    BY <1>q, <2>1, TailElements
  <2>3. Remaining' < Remaining
    BY <1>q, <2>1, <2>2 DEF Remaining
  <2> QED BY <1>p, <2>1, <2>3 DEF Closing
<1>2. CASE CloseFile(c)
  <2>1. /\ at[c] = "close" /\ at'[c] \in {"close", "unset"}
        /\ \E f \in open : open' = open \ {f}
    BY <1>2, <1>q DEF CloseFile, Goto
  <2>2. Files' < Files
    BY <1>q, <2>1 DEF Files, IsOpen, File
  <2> QED BY <1>p, <2>1, <2>2 DEF Closing
<1>3. CASE ~DrainGet(c) /\ ~CloseFile(c)
  <2>1. \/ at[c] = "join" /\ at'[c] = "drain"
        \/ at[c] = "drain" /\ at'[c] \in {"report", "take"}
        \/ at[c] = "take" /\ at'[c] = "report"
        \/ at[c] = "write" /\ at'[c] \in {"drain", "report"}
        \/ at[c] = "report" /\ at'[c] \in {"close", "raised"}
        \/ at[c] = "close" /\ at'[c] = "unset"
        \/ at[c] = "unset" /\ at'[c] = "done"
    BY <1>3, <1>q DEF Stop, StopCheck, StopCall, Join, JoinTimeout, DrainTest,
      DrainGetEmpty, DrainWrite, DrainRaises, Report, FilesClosed, Unset, Goto, Closing
  <2> QED BY <1>p, <2>1 DEF Closing
<1> QED BY <1>1, <1>2, <1>3

\* Each step of a closer within close() brings it nearer to its end, and no other
\* thread's step takes it further away: with that, and since it never waits for ever,
\* a scheduled closer leaves close() (SessionLogger.close).
THEOREM EveryCloserAdvances == Spec => ClosingEnds
<1>1. Init => ClosingInv
  BY DEF Init, ClosingInv, Closing
<1>2. TypeOK /\ ClosingInv /\ [Next]_vars => ClosingInv'
  BY ClosingStep
<1>3. TypeOK /\ TypeOK' /\ ClosingInv /\ [Next]_vars =>
        [\A c \in Closer : at[c] \in Closing =>
           /\ Left(c)' <= Left(c)
           /\ Stop(c) => Left(c)' < Left(c)]_vars
  <2> SUFFICES ASSUME TypeOK, TypeOK', ClosingInv, [Next]_vars, NEW c \in Closer, at[c] \in Closing
               PROVE  /\ Left(c)' <= Left(c)
                      /\ Stop(c) => Left(c)' < Left(c)
    OBVIOUS
  <2>1. Remaining' <= Remaining /\ Files' <= Files
    BY OthersHelp DEF ClosingInv
  <2>2. LeftSum /\ LeftSum'
    BY LeftFacts, LeftFactsNext
  <2>3. /\ {Remaining, Remaining', Files, Files'} \subseteq Nat
        /\ Place[at[c]] \in Nat /\ Left(c) = 3 * Remaining + Files + Place[at[c]]
    BY <2>2 DEF LeftSum
  <2>4. at'[c] \in Closing \cup {"done", "raised"} =>
          Place[at'[c]] \in Nat /\ Left(c)' = 3 * Remaining' + Files' + Place[at'[c]]
    BY <2>2 DEF LeftSum
  <2>5. CASE Stop(c)
    BY <2>1, <2>3, <2>4, <2>5, CloserAdvances
  <2>6. CASE ~Stop(c)
    <3>1. CASE Audio \/ Writer \/ UNCHANGED vars
      BY <2>1, <2>3, <2>4, <2>6, <3>1 DEF Audio, SeeLogger, CallLogger, LogFrame, Put, Writer,
        WriterTest, WriterGet, WriterGetEmpty, WriteRecord, WriteRow, WriterRaises, vars, closing
    <3>2. ASSUME NEW d \in Closer \ {c}, Stop(d) PROVE at'[c] = at[c]
      BY <3>2 DEF TypeOK, Stop, StopCheck, StopCall, Join, JoinTimeout, DrainTest, DrainGet,
        DrainGetEmpty, DrainWrite, DrainRaises, Report, CloseFile, FilesClosed, Unset, Goto
    <3>3. CASE \E d \in Closer \ {c} : Stop(d)
      BY <2>1, <2>3, <2>4, <2>6, <3>2, <3>3
    <3> QED BY <2>6, <3>1, <3>3 DEF Next
  <2> QED BY <2>5, <2>6
<1> QED BY <1>1, <1>2, <1>3, TypeCorrect, PTL DEF Spec, ClosingEnds
==============================================================================
