---------------------------- MODULE LoggerProofs ----------------------------
(***************************************************************************)
(* Proofs for Logger, for every queue bound, file size and number of       *)
(* rotations: a hole in the log is marked where it is with its true size,  *)
(* nothing is left behind when the worker stops, and only text that        *)
(* reached the disk rotates files.                                         *)
(***************************************************************************)
EXTENDS Logger, TLAPS

\* Lines the worker has claimed and not yet disposed of.
InFlight == IF pc = "marker" THEN dropped + 1 ELSE IF pc = "line" THEN 1 ELSE 0

\* The queue holds the newest lines, with none missing between them.
Newest == \A i \in 1 .. Len(line_queue) : line_queue[i] = (issued - Len(line_queue)) + i

\* What came before them is on disk, refused, in flight or counted as dropped.
Books ==
  /\ issued = covered + lost + InFlight + dropped_lines + Len(line_queue)
  /\ dropped_lines > 0 => Len(line_queue) > 0
  /\ pc = "marker" => line = covered + lost + dropped + 1
  /\ pc = "line" => line = covered + lost + 1
  /\ pc = "done" => Len(line_queue) = 0 /\ ~(logging_enabled /\ worker_running)

Accounting == Newest /\ Books

\* The counter of the current file is the text in it.
Counting ==
  /\ bytes_written = text
  /\ ArchivedFilesAreFull

Inv == TypeOK /\ Accounting /\ Counting

LEMMA InitInv == Init => Inv
  <1> SUFFICES ASSUME Init PROVE Inv
    OBVIOUS
  <1> USE LoggerAssumption
  <1>1. TypeOK
    BY DEF Init, TypeOK, max_queued_lines
  <1>2. Accounting
    BY DEF Init, Accounting, Newest, Books, InFlight
  <1>3. Counting
    BY DEF Init, Counting, ArchivedFilesAreFull
  <1>4. QED
    BY <1>1, <1>2, <1>3 DEF Inv

\* What one attempted write does to the books and to the files.
LEMMA WriteLineInv ==
  ASSUME TypeOK, Counting, NEW n \in Nat, writeLine(n)
  PROVE  /\ covered' \in Nat /\ lost' \in Nat /\ covered' + lost' = covered + lost + n
         /\ file_open' \in BOOLEAN /\ bytes_written' \in Nat /\ text' \in Nat
         /\ bytes_written' < MaxLogBytes
         /\ archive' \in [1 .. MaxRotations -> Nat \cup {Absent, Old}]
         /\ Counting'
  <1> USE LoggerAssumption
  <1>1. CASE ~file_open /\ lost' = lost + n /\ UNCHANGED <<fileVars, covered>>
    BY <1>1 DEF TypeOK, Counting, ArchivedFilesAreFull, fileVars
  <1>2. ASSUME NEW write_ok \in BOOLEAN,
               LET next  == next_rotation_state(write_ok, bytes_written)
                   units == IF write_ok THEN text + 1 ELSE text
               IN  /\ IF write_ok THEN covered' = covered + n /\ UNCHANGED lost
                                  ELSE lost' = lost + n /\ UNCHANGED covered
                   /\ IF next.rotate
                      THEN openFresh(units)
                      ELSE /\ bytes_written' = next.bytes_written /\ text' = units
                           /\ UNCHANGED <<file_open, archive>>
        PROVE  /\ covered' \in Nat /\ lost' \in Nat /\ covered' + lost' = covered + lost + n
               /\ file_open' \in BOOLEAN /\ bytes_written' \in Nat /\ text' \in Nat
               /\ bytes_written' < MaxLogBytes
               /\ archive' \in [1 .. MaxRotations -> Nat \cup {Absent, Old}]
               /\ Counting'
    <2>1. /\ covered' \in Nat /\ lost' \in Nat /\ covered' + lost' = covered + lost + n
      BY <1>2 DEF TypeOK
    <2>2. CASE write_ok /\ bytes_written + 1 >= MaxLogBytes
      <3>1. openFresh(text + 1)
        BY <1>2, <2>2 DEF next_rotation_state
      <3>2. bytes_written' = 0 /\ text' = 0 /\ file_open' \in BOOLEAN
        BY <3>1 DEF openFresh
      <3>3. text + 1 \in Nat /\ text + 1 >= MaxLogBytes
        BY <2>2 DEF TypeOK, Counting
      <3>4. archive' = rotate(text + 1)
        BY <3>1 DEF openFresh
      <3>5. archive' \in [1 .. MaxRotations -> Nat \cup {Absent, Old}]
        BY <3>3, <3>4 DEF rotate, TypeOK
      <3>6. \A i \in 1 .. MaxRotations : archive'[i] \in Nat => archive'[i] >= MaxLogBytes
        BY <3>3, <3>4 DEF rotate, Counting, ArchivedFilesAreFull
      <3>7. QED
        BY <2>1, <3>2, <3>5, <3>6 DEF Counting, ArchivedFilesAreFull
    <2>3. CASE ~(write_ok /\ bytes_written + 1 >= MaxLogBytes)
      <3>1. /\ bytes_written' = IF write_ok THEN bytes_written + 1 ELSE bytes_written
            /\ text' = IF write_ok THEN text + 1 ELSE text
            /\ UNCHANGED <<file_open, archive>>
        BY <1>2, <2>3 DEF next_rotation_state
      <3>2. bytes_written' \in Nat /\ bytes_written' < MaxLogBytes /\ bytes_written' = text'
        <4>1. CASE write_ok
          BY <2>3, <3>1, <4>1 DEF TypeOK, Counting
        <4>2. CASE ~write_ok
          BY <3>1, <4>2 DEF TypeOK, Counting
        <4>3. QED
          BY <4>1, <4>2
      <3>3. file_open' \in BOOLEAN
        BY <3>1 DEF TypeOK
      <3>4. archive' = archive
        BY <3>1
      <3>5. QED
        BY <2>1, <3>2, <3>3, <3>4 DEF TypeOK, Counting, ArchivedFilesAreFull
    <2>4. QED
      BY <2>2, <2>3
  <1>3. QED
    BY <1>1, <1>2 DEF writeLine

LEMMA LogInv == Inv /\ log => Inv'
  <1> SUFFICES ASSUME Inv, log PROVE Inv'
    OBVIOUS
  <1> USE LoggerAssumption DEF Inv
  <1>1. issued \in Nat /\ line_queue \in Seq(Nat) /\ max_queued_lines \in Nat \ {0}
    BY DEF TypeOK, max_queued_lines
  <1>2. Counting'
    BY DEF log, Counting, ArchivedFilesAreFull, fileVars
  <1>3. CASE Len(line_queue) >= max_queued_lines
    <2>1. line_queue' = Append(Tail(line_queue), issued + 1) /\ dropped_lines' = dropped_lines + 1
          /\ issued' = issued + 1
      BY <1>3 DEF log
    <2>2. Len(line_queue) > 0
      BY <1>1, <1>3
    <2>3. line_queue' \in Seq(Nat) /\ Len(line_queue') = Len(line_queue)
      BY <1>1, <2>1, <2>2
    <2>4. \A i \in 1 .. Len(line_queue') : line_queue'[i] = (issued' - Len(line_queue')) + i
      <3> SUFFICES ASSUME NEW i \in 1 .. Len(line_queue')
                   PROVE  line_queue'[i] = (issued' - Len(line_queue')) + i
        OBVIOUS
      <3>1. i \in 1 .. Len(line_queue) /\ Len(line_queue) \in Nat
            /\ Len(line_queue') = Len(line_queue) /\ issued' = issued + 1
        BY <1>1, <2>1, <2>3
      <3>2. CASE i = Len(line_queue)
        <4>1. line_queue'[i] = issued + 1
          BY <1>1, <2>1, <2>2, <3>2
        <4>2. QED
          BY <1>1, <3>1, <3>2, <4>1
      <3>3. CASE i < Len(line_queue)
        <4>1. i + 1 \in 1 .. Len(line_queue)
          BY <1>1, <3>3
        <4>2. line_queue'[i] = line_queue[i + 1]
          BY <1>1, <2>1, <2>2, <3>3
        <4>3. line_queue[i + 1] = (issued - Len(line_queue)) + (i + 1)
          BY <4>1 DEF Accounting, Newest
        <4>4. QED
          BY <1>1, <3>1, <4>2, <4>3
      <3>4. QED
        BY <1>1, <3>1, <3>2, <3>3
    <2>5. TypeOK'
      <3>1. Len(line_queue') <= max_queued_lines
        BY <2>3 DEF TypeOK
      <3>2. QED
        <4>1. dropped_lines' \in Nat /\ issued' \in Nat
          BY <1>1, <2>1 DEF TypeOK
        <4>2. UNCHANGED <<logging_enabled, worker_running, pc, line, dropped, file_open, bytes_written,
                          archive, text, covered, lost>>
          BY DEF log, workerVars, fileVars
        <4>3. QED
          BY <2>3, <3>1, <4>1, <4>2 DEF TypeOK, max_queued_lines
    <2>6. Accounting'
      <3>1. Books'
        <4>1. UNCHANGED <<pc, line, dropped, covered, lost, logging_enabled, worker_running>>
              /\ logging_enabled /\ worker_running /\ issued' = issued + 1 /\ dropped_lines' = dropped_lines + 1
          BY <2>1 DEF log, workerVars
        <4>2. InFlight' = InFlight /\ InFlight \in Nat /\ Len(line_queue) \in Nat
          BY <1>1, <4>1 DEF InFlight, TypeOK
        <4>3. issued' = covered' + lost' + InFlight' + dropped_lines' + Len(line_queue')
          BY <2>3, <4>1, <4>2 DEF Accounting, Books, TypeOK
        <4>4. Len(line_queue') > 0
          BY <2>2, <2>3
        <4>5. QED
          BY <4>1, <4>3, <4>4 DEF Accounting, Books
      <3>2. QED
        BY <2>4, <3>1 DEF Accounting, Newest
    <2>7. QED
      BY <1>2, <2>5, <2>6
  <1>4. CASE Len(line_queue) < max_queued_lines
    <2>1. line_queue' = Append(line_queue, issued + 1) /\ dropped_lines' = dropped_lines
          /\ issued' = issued + 1
      BY <1>1, <1>4 DEF log
    <2>2. line_queue' \in Seq(Nat) /\ Len(line_queue') = Len(line_queue) + 1
      BY <1>1, <2>1
    <2>3. \A i \in 1 .. Len(line_queue') : line_queue'[i] = (issued' - Len(line_queue')) + i
      BY <1>1, <2>1, <2>2 DEF Accounting, Newest
    <2>4. TypeOK'
      BY <1>1, <1>4, <2>1, <2>2 DEF log, TypeOK, workerVars, fileVars, max_queued_lines
    <2>5. Accounting'
      <3>1. Books'
        BY <1>1, <2>1, <2>2 DEF log, Accounting, Books, InFlight, TypeOK, workerVars
      <3>2. QED
        BY <2>3, <3>1 DEF Accounting, Newest
    <2>6. QED
      BY <1>2, <2>4, <2>5
  <1>5. QED
    BY <1>1, <1>3, <1>4

LEMMA ClaimInv == Inv /\ Claim => Inv'
  <1> SUFFICES ASSUME Inv, Claim PROVE Inv'
    OBVIOUS
  <1> USE LoggerAssumption DEF Inv
  <1>1. line_queue \in Seq(Nat) /\ Len(line_queue) > 0 /\ max_queued_lines \in Nat
    BY DEF TypeOK, Claim, max_queued_lines
  <1>2. /\ line_queue' \in Seq(Nat) /\ Len(line_queue') = Len(line_queue) - 1
        /\ \A i \in 1 .. Len(line_queue') : line_queue'[i] = line_queue[i + 1]
        /\ line' = line_queue[1] /\ line' \in Nat
    BY <1>1 DEF Claim
  <1>3. TypeOK'
    BY <1>1, <1>2 DEF Claim, TypeOK, fileVars, max_queued_lines
  <1>4. line' = covered + lost + dropped_lines + 1
    BY <1>1, <1>2 DEF Accounting, Newest, Books, InFlight, Claim, TypeOK
  <1>5. \A i \in 1 .. Len(line_queue') : line_queue'[i] = (issued' - Len(line_queue')) + i
    BY <1>1, <1>2 DEF Accounting, Newest, Claim, TypeOK
  <1>6. Accounting'
    <2>1. pc' \in {"marker", "line"} /\ dropped' = dropped_lines /\ dropped_lines' = 0
          /\ (pc' = "marker" <=> dropped_lines > 0) /\ UNCHANGED <<issued, covered, lost>>
      BY DEF Claim
    <2>2. InFlight' = dropped_lines + 1
      BY <2>1 DEF InFlight, TypeOK
    <2>3. issued = covered + lost + dropped_lines + Len(line_queue)
      BY DEF Accounting, Books, InFlight, Claim, TypeOK
    <2>4. Books'
      BY <1>1, <1>2, <1>4, <2>1, <2>2, <2>3 DEF Books, TypeOK
    <2>5. QED
      BY <1>5, <2>4 DEF Accounting, Newest
  <1>7. Counting'
    BY DEF Claim, Counting, ArchivedFilesAreFull, fileVars
  <1>8. QED
    BY <1>3, <1>6, <1>7

LEMMA NextInv == Inv /\ [Next]_vars => Inv'
  <1> SUFFICES ASSUME Inv, [Next]_vars PROVE Inv'
    OBVIOUS
  <1> USE LoggerAssumption
  <1>1. CASE log
    BY <1>1, LogInv
  <1>2. CASE stopWorker
    BY <1>2 DEF stopWorker, Inv, TypeOK, Accounting, Newest, Books, InFlight, Counting, ArchivedFilesAreFull,
                queueVars, workerVars, fileVars, max_queued_lines
  <1>3. CASE Claim
    BY <1>3, ClaimInv
  <1>4. CASE WriteMarker
    <2>1. dropped \in Nat /\ TypeOK /\ Counting
      BY DEF Inv, TypeOK
    <2>2. /\ covered' \in Nat /\ lost' \in Nat /\ covered' + lost' = covered + lost + dropped
          /\ file_open' \in BOOLEAN /\ bytes_written' \in Nat /\ text' \in Nat
          /\ bytes_written' < MaxLogBytes
          /\ archive' \in [1 .. MaxRotations -> Nat \cup {Absent, Old}]
          /\ Counting'
      BY <1>4, <2>1, WriteLineInv DEF WriteMarker
    <2>3. TypeOK'
      BY <1>4, <2>1, <2>2 DEF WriteMarker, TypeOK, queueVars, max_queued_lines
    <2>4. Accounting'
      <3>1. UNCHANGED <<line_queue, dropped_lines, issued, line, dropped>> /\ pc = "marker" /\ pc' = "line"
        BY <1>4 DEF WriteMarker, queueVars
      <3>2. issued = covered + lost + dropped + 1 + dropped_lines + Len(line_queue)
            /\ line = covered + lost + dropped + 1 /\ (dropped_lines > 0 => Len(line_queue) > 0)
        BY <3>1 DEF Inv, Accounting, Books, InFlight, TypeOK
      <3>3. Len(line_queue) \in Nat
        BY DEF Inv, TypeOK
      <3>4. Books'
        BY <2>1, <2>2, <3>1, <3>2, <3>3 DEF Books, InFlight, TypeOK
      <3>5. QED
        BY <3>1, <3>4 DEF Inv, Accounting, Newest
    <2>5. QED
      BY <2>2, <2>3, <2>4 DEF Inv
  <1>5. CASE WriteClaimed
    <2>1. TypeOK /\ Counting
      BY DEF Inv
    <2>2. /\ covered' \in Nat /\ lost' \in Nat /\ covered' + lost' = covered + lost + 1
          /\ file_open' \in BOOLEAN /\ bytes_written' \in Nat /\ text' \in Nat
          /\ bytes_written' < MaxLogBytes
          /\ archive' \in [1 .. MaxRotations -> Nat \cup {Absent, Old}]
          /\ Counting'
      BY <1>5, <2>1, WriteLineInv DEF WriteClaimed
    <2>3. TypeOK'
      BY <1>5, <2>1, <2>2 DEF WriteClaimed, TypeOK, queueVars, max_queued_lines
    <2>4. Accounting'
      <3>1. UNCHANGED <<line_queue, dropped_lines, issued>> /\ pc = "line" /\ pc' = "wait"
        BY <1>5 DEF WriteClaimed, queueVars
      <3>2. issued = covered + lost + 1 + dropped_lines + Len(line_queue)
            /\ (dropped_lines > 0 => Len(line_queue) > 0)
        BY <3>1 DEF Inv, Accounting, Books, InFlight, TypeOK
      <3>3. Len(line_queue) \in Nat
        BY DEF Inv, TypeOK
      <3>4. Books'
        <4>1. dropped_lines \in Nat /\ issued \in Nat /\ covered \in Nat /\ lost \in Nat
          BY <2>1 DEF TypeOK
        <4>3. issued' = covered' + lost' + InFlight' + dropped_lines' + Len(line_queue')
          <5>1. issued' = issued /\ dropped_lines' = dropped_lines /\ Len(line_queue') = Len(line_queue)
            BY <3>1
          <5>2. PICK c \in Nat, l \in Nat : covered' = c /\ lost' = l /\ c + l = covered + lost + 1
            BY <2>2
          <5>3. issued = covered + lost + 1 + dropped_lines + Len(line_queue)
            BY <3>2
          <5>4. QED
            BY <3>1, <3>3, <4>1, <5>1, <5>2, <5>3 DEF InFlight
        <4>4. pc' # "marker" /\ pc' # "line" /\ pc' # "done"
          BY <3>1
        <4>5. dropped_lines' > 0 => Len(line_queue') > 0
          BY <3>1, <3>2
        <4>6. QED
          BY <4>3, <4>4, <4>5 DEF Books
      <3>5. QED
        BY <3>1, <3>4 DEF Inv, Accounting, Newest
    <2>5. QED
      BY <2>2, <2>3, <2>4 DEF Inv
  <1>6. CASE Exit
    BY <1>6 DEF Exit, Inv, TypeOK, Accounting, Newest, Books, InFlight, Counting, ArchivedFilesAreFull,
                queueVars, fileVars, max_queued_lines
  <1>7. CASE UNCHANGED vars
    BY <1>7 DEF vars, Inv, TypeOK, Accounting, Newest, Books, InFlight, Counting, ArchivedFilesAreFull,
                queueVars, workerVars, fileVars, max_queued_lines
  <1>8. QED
    BY <1>1, <1>2, <1>3, <1>4, <1>5, <1>6, <1>7 DEF Next, workerLoop, Exited

LEMMA InvHolds == Spec => []Inv
  BY InitInv, NextInv, PTL DEF Spec

\* Whatever the bounds, the variables keep their types, the queue its bound
\* and the current file its size.
THEOREM LoggerTyped == Spec => []TypeOK
  <1>1. Inv => TypeOK
    BY DEF Inv
  <1>2. QED
    BY <1>1, InvHolds, PTL

\* Whatever the bounds, when a line is written the log accounts for every
\* line before it that the device did not refuse.
THEOREM LogGapsAreMarked == Spec => []GapsAreMarked
  <1>1. Inv => GapsAreMarked
    BY DEF Inv, Accounting, Books, GapsAreMarked
  <1>2. QED
    BY <1>1, InvHolds, PTL

\* Whatever the bounds, an idle or finished worker has left nothing behind.
THEOREM LogIdleMeansAccounted == Spec => []IdleMeansAccounted
  <1>1. Inv => IdleMeansAccounted
    BY DEF Inv, TypeOK, Accounting, Books, InFlight, IdleMeansAccounted
  <1>2. QED
    BY <1>1, InvHolds, PTL

\* Whatever the bounds, refused writes never rotate a file out.
THEOREM LogArchivedFilesAreFull == Spec => []ArchivedFilesAreFull
  <1>1. Inv => ArchivedFilesAreFull
    BY DEF Inv, Counting
  <1>2. QED
    BY <1>1, InvHolds, PTL
=============================================================================
