------------------------------- MODULE Logger -------------------------------
(***************************************************************************)
(* The flight log (src/src/logger.cpp, logger.hpp, log-rotation.hpp): any  *)
(* thread queues lines, a bounded queue drops its oldest line when full,   *)
(* and the writer thread writes a marker for the drops before the next     *)
(* line, rotating the file when it is full.                                *)
(*                                                                         *)
(* Lines are numbered in the order log() queues them; lines above the      *)
(* configured verbosity never get a number.  A line, and a marker, is one  *)
(* unit of text.  The device may refuse any write, and a rotation may fail *)
(* to open the new file.  Waiting is a guard here: Shutdown models the     *)
(* condition variables.                                                    *)
(***************************************************************************)
EXTENDS Naturals, Sequences

CONSTANTS
  MaxQueued,     \* max_queued, as passed to the constructor
  MaxLogBytes,   \* max_log_bytes, in units of text
  MaxRotations,  \* max_rotations: fmu.log.1 .. fmu.log.MaxRotations
  Absent, Old,   \* no such file; a file left by an earlier process
  MaxLines       \* bound on lines logged

ASSUME LoggerAssumption ==
  /\ MaxQueued \in Nat /\ MaxLogBytes \in Nat \ {0} /\ MaxRotations \in Nat \ {0}
  /\ Absent \notin Nat /\ Old \notin Nat /\ Absent # Old
  /\ MaxLines \in Nat

VARIABLES
  logging_enabled,
  line_queue, dropped_lines, worker_running,  \* guarded by queue_lock
  pc, line, dropped,   \* workerLoop: where it is and what it has claimed
  file_open, bytes_written, archive,  \* fmu.log and its rotations
  issued,              \* history: lines queued by log()
  covered,             \* history: lines the text on disk accounts for, read from its start
  lost,                \* history: lines whose write, or whose marker's write, did not happen
  text                 \* history: units of text really in fmu.log

queueVars  == <<line_queue, dropped_lines>>
workerVars == <<pc, line, dropped>>
fileVars   == <<file_open, bytes_written, archive, text>>
vars == <<logging_enabled, queueVars, worker_running, workerVars, fileVars, issued, covered, lost>>

\* The constructor floors the bound at 1.
max_queued_lines == IF MaxQueued > 0 THEN MaxQueued ELSE 1

-----------------------------------------------------------------------------
(* The constructor: the directory or the file may not open, and then there *)
(* is no worker.  Its rotation leaves slot 1 to the previous process's log.*)

Init ==
  /\ logging_enabled \in BOOLEAN
  /\ line_queue = <<>> /\ dropped_lines = 0 /\ worker_running = TRUE
  /\ pc = IF logging_enabled THEN "wait" ELSE "done"
  /\ line = 0 /\ dropped = 0
  /\ file_open = logging_enabled /\ bytes_written = 0 /\ text = 0
  /\ archive \in [1 .. MaxRotations -> {Absent, Old}]
  /\ issued = 0 /\ covered = 0 /\ lost = 0

-----------------------------------------------------------------------------
(* Producers.                                                              *)

\* At the bound the oldest queued line makes room for the new one.
log ==
  /\ logging_enabled /\ worker_running /\ issued < MaxLines
  /\ issued' = issued + 1
  /\ IF Len(line_queue) >= max_queued_lines
     THEN /\ line_queue' = Append(Tail(line_queue), issued + 1)
          /\ dropped_lines' = dropped_lines + 1
     ELSE /\ line_queue' = Append(line_queue, issued + 1)
          /\ UNCHANGED dropped_lines
  /\ UNCHANGED <<logging_enabled, worker_running, workerVars, fileVars, covered, lost>>

\* The owner destroys the logger once no thread that logs is left (Shutdown).
stopWorker ==
  /\ worker_running
  /\ worker_running' = FALSE
  /\ UNCHANGED <<logging_enabled, queueVars, workerVars, fileVars, issued, covered, lost>>

-----------------------------------------------------------------------------
(* The file.                                                               *)

\* MUTANT: a refused write counts towards the rotation.
CountRefusedWrites(write_ok, bytes) ==
  [bytes_written |-> bytes + 1, rotate |-> bytes + 1 >= MaxLogBytes]

\* next_rotation_state: only text that reached the disk counts.
next_rotation_state(write_ok, bytes) ==
  [bytes_written |-> IF write_ok THEN bytes + 1 ELSE bytes,
   rotate |-> write_ok /\ bytes + 1 >= MaxLogBytes]

\* Each file moves up one slot if it exists, the last one is overwritten.
rotate(base) ==
  [i \in 1 .. MaxRotations |->
     IF i = 1 THEN base
     ELSE IF archive[i - 1] # Absent THEN archive[i - 1]
     ELSE IF i = MaxRotations THEN archive[i] ELSE Absent]

\* The new file may not open; nothing opens one again.
openFresh(base) ==
  /\ archive' = rotate(base)
  /\ file_open' \in BOOLEAN
  /\ bytes_written' = 0 /\ text' = 0

\* One attempted write of an entry that accounts for n lines.
writeLine(n) ==
  \/ /\ ~file_open
     /\ lost' = lost + n
     /\ UNCHANGED <<fileVars, covered>>
  \/ /\ file_open
     /\ \E write_ok \in BOOLEAN :
          LET next  == next_rotation_state(write_ok, bytes_written)
              units == IF write_ok THEN text + 1 ELSE text
          IN  /\ IF write_ok THEN covered' = covered + n /\ UNCHANGED lost
                             ELSE lost' = lost + n /\ UNCHANGED covered
              /\ IF next.rotate
                 THEN openFresh(units)
                 ELSE /\ bytes_written' = next.bytes_written /\ text' = units
                      /\ UNCHANGED <<file_open, archive>>

-----------------------------------------------------------------------------
(* workerLoop.                                                             *)

\* MUTANT: the drops are not reset when they are claimed.
ClaimWithoutDrops ==
  /\ pc = "wait" /\ line_queue # <<>>
  /\ line' = Head(line_queue) /\ line_queue' = Tail(line_queue)
  /\ dropped' = dropped_lines
  /\ pc' = IF dropped_lines > 0 THEN "marker" ELSE "line"
  /\ UNCHANGED <<dropped_lines, logging_enabled, worker_running, fileVars, issued, covered, lost>>

\* MUTANT: a stopping worker leaves what is queued.
StopAtOnce ==
  /\ pc = "wait" /\ ~worker_running
  /\ pc' = "done"
  /\ UNCHANGED <<logging_enabled, queueVars, worker_running, line, dropped, fileVars, issued, covered, lost>>

\* One lock region takes the front line and the drops counted before it.
Claim ==
  /\ pc = "wait" /\ line_queue # <<>>
  /\ line' = Head(line_queue) /\ line_queue' = Tail(line_queue)
  /\ dropped' = dropped_lines /\ dropped_lines' = 0
  /\ pc' = IF dropped_lines > 0 THEN "marker" ELSE "line"
  /\ UNCHANGED <<logging_enabled, worker_running, fileVars, issued, covered, lost>>

WriteMarker ==
  /\ pc = "marker"
  /\ writeLine(dropped)
  /\ pc' = "line"
  /\ UNCHANGED <<logging_enabled, queueVars, worker_running, line, dropped, issued>>

\* MUTANT: a worker whose file is gone waits for it to come back.
WriteOnceOpen ==
  /\ pc = "line"
  /\ \/ ~file_open /\ UNCHANGED vars
     \/ /\ file_open /\ writeLine(1)
        /\ pc' = "wait" /\ line' = 0 /\ dropped' = 0
        /\ UNCHANGED <<logging_enabled, queueVars, worker_running, issued>>

WriteClaimed ==
  /\ pc = "line"
  /\ writeLine(1)
  /\ pc' = "wait" /\ line' = 0 /\ dropped' = 0
  /\ UNCHANGED <<logging_enabled, queueVars, worker_running, issued>>

Exit ==
  /\ pc = "wait" /\ ~worker_running /\ line_queue = <<>>
  /\ pc' = "done"
  /\ UNCHANGED <<logging_enabled, queueVars, worker_running, line, dropped, fileVars, issued, covered, lost>>

workerLoop == Claim \/ WriteMarker \/ WriteClaimed \/ Exit

\* The process has joined the worker and exited.
Exited == pc = "done" /\ ~worker_running /\ UNCHANGED vars

Next == log \/ stopWorker \/ workerLoop \/ Exited

Spec == Init /\ [][Next]_vars

\* A write returns: the device errs rather than hangs.
FairSpec == Spec /\ WF_vars(workerLoop)

-----------------------------------------------------------------------------
(* Properties.                                                             *)

\* The variables keep their types, the queue its bound and the file its size:
\* a full file is rotated at once, whatever the device refuses (writeLine).
TypeOK ==
  /\ logging_enabled \in BOOLEAN /\ worker_running \in BOOLEAN /\ file_open \in BOOLEAN
  /\ line_queue \in Seq(Nat) /\ Len(line_queue) <= max_queued_lines
  /\ dropped_lines \in Nat /\ line \in Nat /\ dropped \in Nat
  /\ pc \in {"wait", "marker", "line", "done"}
  /\ bytes_written \in Nat /\ text \in Nat /\ bytes_written < MaxLogBytes
  /\ archive \in [1 .. MaxRotations -> Nat \cup {Absent, Old}]
  /\ issued \in Nat /\ covered \in Nat /\ lost \in Nat

\* When a line is about to be written, the log already accounts for every
\* line before it, written or counted in a marker, except those the device
\* refused: a hole made by the bound is marked where it is, with its true
\* size, however many lines are dropped while the worker writes.
GapsAreMarked == pc = "line" => line = covered + lost + 1

\* Whenever the worker is idle or has exited, no queued line and no unreported
\* drop is left: flush() returning, and the join at shutdown, mean that the log
\* accounts for every line but the ones the device refused.
IdleMeansAccounted ==
  pc = "done" \/ (pc = "wait" /\ line_queue = <<>>) => covered + lost = issued /\ dropped_lines = 0

\* Rotation discards the oldest file, so it must be paid for with text: every
\* file this process archived is full, however many writes were refused.
ArchivedFilesAreFull ==
  \A i \in 1 .. MaxRotations : archive[i] \in Nat => archive[i] >= MaxLogBytes

\* A stopped logger finishes, with the device refusing writes or not.
StopFinishes == ~worker_running ~> pc = "done"
=============================================================================
