------------------------------ MODULE SessionLog ------------------------------
(***************************************************************************)
(* SessionLogger (ai/runtime/session_logger.py) within the Python          *)
(* RealtimePipeline (ai/runtime/realtime_pipeline.py): a bounded queue     *)
(* between the audio thread, which must not block, and a writer thread;    *)
(* and stop(), called by main and by handlers of IPC clients, which closes *)
(* the logger while the other threads may be anywhere.                     *)
(*                                                                         *)
(* A record is its frame number; Started is the event of the constructor.  *)
(* What a line contains is left out, and so are the lines about failures.  *)
(* The disk may fail at any write.                                         *)
(***************************************************************************)
EXTENDS Integers, Sequences

CONSTANTS
  Closer,      \* the threads that call stop()
  MaxQueue,    \* max_queue_size
  MaxFrames    \* bound: hops processed

ASSUME LogAssumption == MaxQueue \in Nat \ {0} /\ MaxFrames \in Nat

VARIABLES
  session_logger,   \* whether the pipeline has a logger
  running,          \* _running
  queue,            \* _queue
  dropped,          \* _dropped_log_records
  open,             \* the files that are not closed
  log,              \* what was written to each file
  audio,            \* where the audio thread is in process_hop()
  frame,            \* processed_frames
  writer,           \* where the writer thread is in _writer_loop()
  item,             \* its record
  at,               \* where each closer is in stop() and close()
  hand,             \* the record each closer drains
  accepted, late,   \* history: records queued, those queued while closing
  failed,           \* history: records the disk failed on
  timed_out         \* history: some join timed out

logger == <<running, queue, dropped>>
files == <<open, log>>
hop == <<audio, frame>>
writing == <<writer, item>>
closing == <<at, hand>>
history == <<accepted, late, failed, timed_out>>
vars == <<session_logger, logger, files, hop, writing, closing, history>>

Started == 0
File == {"jsonl", "csv", "errors"}
Destination(r) == IF r = Started THEN "errors" ELSE "jsonl"

Init ==
  /\ session_logger = TRUE
  /\ running = TRUE
  /\ queue = <<Started>>
  /\ dropped = 0
  /\ open = File
  /\ log = [f \in File |-> <<>>]
  /\ audio = "hop" /\ frame = 0
  /\ writer = "test" /\ item = Started
  /\ at = [c \in Closer |-> "ready"]
  /\ hand = [c \in Closer |-> Started]
  /\ accepted = {Started} /\ late = {} /\ failed = {}
  /\ timed_out = FALSE

\* A write succeeds only on an open file ...
Write(f, r) ==
  /\ f \in open
  /\ log' = [log EXCEPT ![f] = Append(@, r)]
  /\ UNCHANGED <<open, history>>

\* ... and may raise in any case, for a failing disk or for a closed file.
WriteRaises(f, r) ==
  /\ failed' = IF f \in open THEN failed \cup {r} ELSE failed
  /\ UNCHANGED <<files, accepted, late, timed_out>>

------------------------------------------------------------------------------
\* The audio thread: process_hop() tests the attribute, loads it again and
\* calls log_frame(), which tests the flag and queues the record or drops it.

SeeLogger ==
  /\ audio = "hop"
  /\ frame < MaxFrames
  /\ frame' = frame + 1
  /\ audio' = IF session_logger THEN "call" ELSE "hop"
  /\ UNCHANGED <<session_logger, logger, files, writing, closing, history>>

CallLogger ==
  /\ audio = "call"
  /\ audio' = IF session_logger THEN "log_frame" ELSE "raised"
  /\ UNCHANGED <<session_logger, logger, files, frame, writing, closing, history>>

LogFrame ==
  /\ audio = "log_frame"
  /\ audio' = IF running THEN "put" ELSE "hop"
  /\ UNCHANGED <<session_logger, logger, files, frame, writing, closing, history>>

Accept ==
  /\ queue' = Append(queue, frame)
  /\ accepted' = accepted \cup {frame}
  /\ late' = IF running THEN late ELSE late \cup {frame}
  /\ UNCHANGED dropped

Put ==
  /\ audio = "put"
  /\ audio' = "hop"
  /\ IF Len(queue) < MaxQueue
       THEN Accept
       ELSE dropped' = dropped + 1 /\ UNCHANGED <<queue, accepted, late>>
  /\ UNCHANGED <<session_logger, running, files, frame, writing, closing, failed, timed_out>>

Audio == SeeLogger \/ CallLogger \/ LogFrame \/ Put

------------------------------------------------------------------------------
\* The writer thread.

\* Faulty variant: the loop ends as soon as the logger closes.
WriterTestRunning ==
  /\ writer = "test"
  /\ writer' = IF running THEN "get" ELSE "ended"
  /\ UNCHANGED <<session_logger, logger, files, hop, item, closing, history>>

WriterTest ==
  /\ writer = "test"
  /\ writer' = IF running \/ queue # <<>> THEN "get" ELSE "ended"
  /\ UNCHANGED <<session_logger, logger, files, hop, item, closing, history>>

\* Faulty variant: a LifoQueue.
WriterGetNewest ==
  /\ writer = "get"
  /\ queue # <<>>
  /\ item' = queue[Len(queue)]
  /\ queue' = SubSeq(queue, 1, Len(queue) - 1)
  /\ writer' = "write"
  /\ UNCHANGED <<session_logger, running, dropped, files, hop, closing, history>>

WriterGet ==
  /\ writer = "get"
  /\ queue # <<>>
  /\ item' = Head(queue)
  /\ queue' = Tail(queue)
  /\ writer' = "write"
  /\ UNCHANGED <<session_logger, running, dropped, files, hop, closing, history>>

\* get() waits a tenth of a second.
WriterGetEmpty ==
  /\ writer = "get"
  /\ queue = <<>>
  /\ writer' = "test"
  /\ UNCHANGED <<session_logger, logger, files, hop, item, closing, history>>

WriteRecord ==
  /\ writer = "write"
  /\ Write(Destination(item), item)
  /\ writer' = IF item = Started THEN "test" ELSE "row"
  /\ UNCHANGED <<session_logger, logger, hop, item, closing>>

WriteRow ==
  /\ writer = "row"
  /\ Write("csv", item)
  /\ writer' = "test"
  /\ UNCHANGED <<session_logger, logger, hop, item, closing>>

\* The loop catches the exception and goes on with the next record.
WriterRaises ==
  /\ \/ writer = "write" /\ WriteRaises(Destination(item), item)
     \/ writer = "row" /\ WriteRaises("csv", item)
  /\ writer' = "test"
  /\ UNCHANGED <<session_logger, logger, hop, item, closing>>

Writer ==
  WriterTest \/ WriterGet \/ WriterGetEmpty \/ WriteRecord \/ WriteRow \/ WriterRaises

------------------------------------------------------------------------------
\* stop() and, within it, close().

Goto(c, place) == at' = [at EXCEPT ![c] = place]

StopCheck(c) ==
  /\ at[c] = "ready"
  /\ Goto(c, IF session_logger THEN "call" ELSE "done")
  /\ UNCHANGED <<session_logger, logger, files, hop, writing, hand, history>>

\* The attribute is loaded again; close() begins by clearing the flag.
StopCall(c) ==
  /\ at[c] = "call"
  /\ IF session_logger
       THEN running' = FALSE /\ Goto(c, "join")
       ELSE Goto(c, "raised") /\ UNCHANGED running
  /\ UNCHANGED <<session_logger, queue, dropped, files, hop, writing, hand, history>>

Join(c) ==
  /\ at[c] = "join"
  /\ writer = "ended"
  /\ Goto(c, "drain")
  /\ UNCHANGED <<session_logger, logger, files, hop, writing, hand, history>>

\* Faulty variant: join() without a timeout.
JoinForever(c) == Join(c)

\* The writer is still at it after two seconds.
JoinTimeout(c) ==
  /\ at[c] = "join"
  /\ writer # "ended"
  /\ timed_out' = TRUE
  /\ Goto(c, "drain")
  /\ UNCHANGED <<session_logger, logger, files, hop, writing, hand, accepted, late, failed>>

DrainTest(c) ==
  /\ at[c] = "drain"
  /\ Goto(c, IF queue = <<>> THEN "report" ELSE "take")
  /\ UNCHANGED <<session_logger, logger, files, hop, writing, hand, history>>

\* Faulty variant: the record is read and not taken.
DrainGetCopy(c) ==
  /\ at[c] = "take"
  /\ queue # <<>>
  /\ hand' = [hand EXCEPT ![c] = Head(queue)]
  /\ Goto(c, "write")
  /\ UNCHANGED <<session_logger, logger, files, hop, writing, history>>

DrainGet(c) ==
  /\ at[c] = "take"
  /\ queue # <<>>
  /\ hand' = [hand EXCEPT ![c] = Head(queue)]
  /\ queue' = Tail(queue)
  /\ Goto(c, "write")
  /\ UNCHANGED <<session_logger, running, dropped, files, hop, writing, history>>

\* Another thread took the record: get_nowait() raises and the loop ends.
DrainGetEmpty(c) ==
  /\ at[c] = "take"
  /\ queue = <<>>
  /\ Goto(c, "report")
  /\ UNCHANGED <<session_logger, logger, files, hop, writing, hand, history>>

\* No row is written to metrics.csv here.
DrainWrite(c) ==
  /\ at[c] = "write"
  /\ Write(Destination(hand[c]), hand[c])
  /\ Goto(c, "drain")
  /\ UNCHANGED <<session_logger, logger, hop, writing, hand>>

DrainRaises(c) ==
  /\ at[c] = "write"
  /\ WriteRaises(Destination(hand[c]), hand[c])
  /\ Goto(c, "report")
  /\ UNCHANGED <<session_logger, logger, hop, writing, hand>>

\* The line about dropped records; what it raises, close() and stop() raise.
Report(c) ==
  /\ at[c] = "report"
  /\ \/ (dropped = 0 \/ "errors" \in open) /\ Goto(c, "close")
     \/ dropped > 0 /\ Goto(c, "raised")
  /\ UNCHANGED <<session_logger, logger, files, hop, writing, hand, history>>

\* One file after the other.  An error while closing leaves the rest open.
CloseFile(c) ==
  /\ at[c] = "close"
  /\ \E f \in open :
       /\ f = "jsonl" \/ (f = "csv" /\ "jsonl" \notin open) \/ open = {"errors"}
       /\ open' = open \ {f}
  /\ at' = at \/ Goto(c, "unset")
  /\ UNCHANGED <<session_logger, logger, log, hop, writing, hand, history>>

FilesClosed(c) ==
  /\ at[c] = "close"
  /\ open = {}
  /\ Goto(c, "unset")
  /\ UNCHANGED <<session_logger, logger, files, hop, writing, hand, history>>

Unset(c) ==
  /\ at[c] = "unset"
  /\ session_logger' = FALSE
  /\ Goto(c, "done")
  /\ UNCHANGED <<logger, files, hop, writing, hand, history>>

Stop(c) ==
  \/ StopCheck(c) \/ StopCall(c) \/ Join(c) \/ JoinTimeout(c)
  \/ DrainTest(c) \/ DrainGet(c) \/ DrainGetEmpty(c) \/ DrainWrite(c) \/ DrainRaises(c)
  \/ Report(c) \/ CloseFile(c) \/ FilesClosed(c) \/ Unset(c)

Next == Audio \/ Writer \/ \E c \in Closer : Stop(c)

Spec == Init /\ [][Next]_vars

\* A thread in stop() runs, and its timeouts pass.  The disk may hold the writer
\* for ever, and nobody has to call stop().
FairSpec == Spec /\ \A c \in Closer : WF_vars(at[c] # "ready" /\ Stop(c))

------------------------------------------------------------------------------
\* Properties.

TypeOK ==
  /\ session_logger \in BOOLEAN /\ running \in BOOLEAN /\ timed_out \in BOOLEAN
  /\ queue \in Seq(Nat) /\ Len(queue) <= MaxQueue
  /\ {dropped, frame, item} \subseteq Nat
  /\ open \subseteq File
  /\ log \in [File -> Seq(Nat)]
  /\ audio \in {"hop", "call", "log_frame", "put", "raised"}
  /\ writer \in {"test", "get", "write", "row", "ended"}
  /\ at \in [Closer -> {"ready", "call", "join", "drain", "take", "write", "report",
                        "close", "unset", "done", "raised"}]
  /\ hand \in [Closer -> Nat]
  /\ {accepted, late, failed} \subseteq SUBSET Nat

\* No record is in a file twice, although the writer and any number of closers
\* may empty the queue at once after a join that timed out.
LoggedOnce ==
  \A f \in File : \A j, k \in 1..Len(log[f]) : log[f][j] = log[f][k] => j = k

\* Rows of metrics.csv are in the order of the frames, and records of
\* runtime.jsonl are too unless a join timed out.
LoggedInOrder ==
  \A f \in IF timed_out THEN {"csv"} ELSE File :
    \A j, k \in 1..Len(log[f]) : j < k => log[f][j] < log[f][k]

IsIn(r, f) == \E k \in 1..Len(log[f]) : log[f][k] = r
Logged(r) == IF r = Started THEN IsIn(r, "errors") ELSE IsIn(r, "jsonl") /\ IsIn(r, "csv")

\* Once the pipeline has let go of its logger, every record queued before the
\* closing began is in its files, in both of them, unless the disk failed on it
\* or a join timed out ("flush all remaining items", close).
CompleteLog ==
  ~session_logger /\ ~timed_out =>
    \A r \in accepted \ (late \cup failed) : Logged(r)

\* What is exempt there is one record at most, in whichever order the calls of stop()
\* and process_hop() meet: unless a join timed out or the disk failed, the log that
\* the pipeline has let go of misses at most one of the records it accepted.
AllButOne ==
  ~session_logger /\ ~timed_out =>
    \E last \in accepted : \A r \in accepted \ failed : r = last \/ Logged(r)

\* How far a closer within close() is from its end: three steps for each record that
\* is queued or about to be, one for each open file, and its place.
Closing == {"join", "drain", "take", "write", "report", "close", "unset"}
Place == [join |-> 7, write |-> 6, drain |-> 5, take |-> 4, report |-> 3, close |-> 2,
          unset |-> 1, done |-> 0, raised |-> 0]
IsOpen(f) == IF f \in open THEN 1 ELSE 0
Left(c) ==
  3 * (Len(queue) + IF audio = "put" THEN 1 ELSE 0)
    + IsOpen("jsonl") + IsOpen("csv") + IsOpen("errors") + Place[at[c]]

\* Each step of a closer brings it nearer to its end, and no step of another thread
\* takes it further away, although the audio thread may still queue a record, the
\* writer may hang and other closers drain the same queue (close, "while not empty").
ClosingEnds ==
  [][\A c \in Closer : at[c] \in Closing =>
       /\ Left(c)' <= Left(c)
       /\ Stop(c) => Left(c)' < Left(c)]_vars

\* stop() returns or raises, also when the writer hangs on the disk and the audio
\* thread keeps logging.
StopReturns ==
  \A c \in Closer : at[c] # "ready" ~> at[c] \in {"done", "raised"}
===============================================================================
