--------------------------- MODULE ShutdownProofs ---------------------------
(***************************************************************************)
(* Proofs for Shutdown, for any commands and any number of inputs: no      *)
(* thread outlives what it calls into, no socket is dialled over a recv    *)
(* thread that was not joined, no ack is lost at shutdown, and the queues  *)
(* keep their bounds.                                                      *)
(***************************************************************************)
EXTENDS Shutdown, FiniteSetTheorems, TLAPS

-----------------------------------------------------------------------------
(* The inductive invariant.                                                *)

\* The stages of run() and of the destructors, each with the ones after it.
AppGone           == {"exited"}
FssJoined         == {"end_app"} \cup AppGone
FssStopping       == {"join_fss"} \cup FssJoined
MavGone           == {"stop_fss"} \cup FssStopping
HeartbeatJoined   == {"join_recv"} \cup MavGone
SmmGone           == {"stop_heartbeat", "join_heartbeat"} \cup HeartbeatJoined
SignalJoined      == {"stop_smm", "join_smm"} \cup SmmGone
ReconnectorJoined == {"join_signal"} \cup SignalJoined
LoopLeft          == {"join_reconnector"} \cup ReconnectorJoined

Waiting == {"lock", "check", "blocked"}

\* Where each thread can be.
Labels ==
  /\ DOMAIN pc = Threads
  /\ pc["main"] \in {"start"} \cup Waiting \cup LoopLeft
  /\ pc["reconnector"] \in {"none", "top", "join_recv", "dial", "done"} \cup Waiting
  /\ pc["heartbeat"] \in {"none", "top", "done"} \cup Waiting
  /\ pc["smm"] \in {"done"} \cup Waiting /\ pc["fss"] \in {"done"} \cup Waiting
  /\ pc["signal"] \in {"wait", "touch", "done"}
  /\ pc["mav_recv"] \in {"none", "run", "done"}

\* What main has joined has ended, and what it has not yet destroyed is alive.
Joined ==
  /\ running <=> pc["signal"] = "wait"
  /\ pc["main"] = "start" => pc["reconnector"] = "none" /\ pc["heartbeat"] = "none"
  /\ pc["main"] \in LoopLeft => ~running
  /\ pc["main"] \in ReconnectorJoined => Finished("reconnector")
  /\ pc["main"] \in SignalJoined => Finished("signal")
  /\ pc["main"] \in SmmGone => Finished("smm")
  /\ pc["main"] \in HeartbeatJoined => Finished("heartbeat")
  /\ pc["main"] \in MavGone => pc["mav_recv"] # "run"
  /\ pc["main"] \in FssJoined => Finished("fss")
  /\ alive = {x \in Components : pc["main"] \notin
                CASE x = "smm" -> SmmGone [] x = "mav" -> MavGone [] x = "fss" -> FssJoined [] OTHER -> AppGone}

\* A recv thread that may be dialled over was joined.
Dialled ==
  /\ pc["main"] = "start" => ~fd_open /\ pc["mav_recv"] = "none"
  /\ pc["reconnector"] = "join_recv" => ~fd_open
  /\ pc["reconnector"] = "dial" => ~fd_open /\ ~broken /\ pc["mav_recv"] = "none"
  /\ ~fd_open /\ ~broken /\ pc["reconnector"] \in {"top"} \cup Waiting => pc["mav_recv"] = "none"

InQueue(q) == {q[i] : i \in DOMAIN q}

Queues ==
  /\ running \in BOOLEAN /\ fd_open \in BOOLEAN /\ broken \in BOOLEAN
  /\ event_queue \in Seq(Events) /\ task_queue \in [{"smm", "fss"} -> Seq(Tasks)]
  /\ early \subseteq Commands /\ sent \subseteq Commands

\* An early command waits for its dispatch, for its send, or was sent; the send
\* worker ends with an empty queue, and nobody fills it again.
Flushed ==
  /\ early \subseteq InQueue(event_queue) \cup InQueue(task_queue["fss"]) \cup sent
  /\ pc["main"] \in LoopLeft => early \subseteq InQueue(task_queue["fss"]) \cup sent
  /\ "fss" \in stopping => pc["main"] \in FssStopping
  /\ Finished("fss") => "fss" \in stopping /\ task_queue["fss"] = <<>>

\* At most one position and one retry wait in a worker's queue.
Single(q) ==
  \A kind \in {"position", "retry"} : \A i, j \in DOMAIN q : q[i] = kind /\ q[j] = kind => i = j

\* The commands among the members of a queue.
Load(Q) == Cardinality(Commands \cap Q)

\* Every event was raised by a producer, is a command not queued before, or is
\* the reconnector's parting nudge.
EventBound ==
  Len(event_queue) <= inputs + Load(InQueue(event_queue)) + IF Finished("reconnector") THEN 1 ELSE 0

Bounds ==
  /\ stopping \subseteq Waiters /\ inputs \in 0 .. MaxInputs
  /\ EventBound
  /\ \A w \in {"smm", "fss"} : Single(task_queue[w])

IInv == Labels /\ Joined /\ Dialled /\ Queues /\ Flushed /\ Bounds

-----------------------------------------------------------------------------
(* Dialling.                                                               *)

\* What a pass that may dial does to the threads and to the socket.
Dialling ==
  /\ DOMAIN pc' = Threads /\ pc'["reconnector"] = "lock"
  /\ \A t \in {"main", "heartbeat", "fss", "signal"} : pc'[t] = pc[t]
  /\ pc'["smm"] # pc["smm"] => pc["smm"] = "blocked" /\ pc'["smm"] = "lock"
  /\ \/ pc'["mav_recv"] = pc["mav_recv"] /\ UNCHANGED mavVars
     \/ pc'["mav_recv"] = "run" /\ ~fd_open /\ fd_open' = TRUE /\ broken' = FALSE
  /\ UNCHANGED <<flagVars, event_queue, alive, ghostVars>>

LEMMA DialsAndRetries == ASSUME Labels, DialAndRetry PROVE Dialling
  <1>1. PICK moved :
          /\ moved = [pc EXCEPT !["reconnector"] = "lock"] \/ moved = Woken("reconnector", "lock", {"smm"})
          /\ connect_to_mav(moved)
    BY DEF DialAndRetry
  <1>2. /\ DOMAIN moved = Threads /\ moved["reconnector"] = "lock" /\ moved["mav_recv"] = pc["mav_recv"]
        /\ \A t \in {"main", "heartbeat", "fss", "signal"} : moved[t] = pc[t]
        /\ moved["smm"] # pc["smm"] => pc["smm"] = "blocked" /\ moved["smm"] = "lock"
    <2>1. CASE moved = [pc EXCEPT !["reconnector"] = "lock"]
      BY <2>1 DEF Labels, Threads, Waiters
    <2>2. CASE moved = Woken("reconnector", "lock", {"smm"})
      BY <2>2 DEF Labels, Woken, Threads, Waiters
    <2> QED BY <1>1, <2>1, <2>2
  <1>3. CASE pc' = moved /\ UNCHANGED mavVars
    BY <1>2, <1>3 DEF Dialling, DialAndRetry
  <1>4. CASE /\ ~fd_open /\ fd_open' = TRUE /\ broken' = FALSE
             /\ pc' = [moved EXCEPT !["mav_recv"] = "run"]
    BY <1>2, <1>4 DEF Dialling, DialAndRetry, Threads, Waiters
  <1> QED BY <1>1, <1>3, <1>4 DEF connect_to_mav

-----------------------------------------------------------------------------
(* What FSS::enqueue and SMM::enqueue keep.                                *)

\* Erasing a kind keeps everything else, once and in its type: the places left
\* are taken, one to one, from the places the kind did not have.
LEMMA Erased ==
  ASSUME NEW S, NEW q \in Seq(S), NEW kind
  PROVE  /\ Without(q, kind) \in Seq(S)
         /\ \A i \in DOMAIN q : q[i] # kind => \E n \in DOMAIN Without(q, kind) : Without(q, kind)[n] = q[i]
         /\ \A n \in DOMAIN Without(q, kind) : Without(q, kind)[n] # kind
         /\ Single(q) => Single(Without(q, kind))
  <1> DEFINE kept == {i \in DOMAIN q : q[i] # kind}
             upto(i) == {j \in kept : j <= i}
             size == Cardinality(kept)
             pick(n) == CHOOSE i \in kept : Cardinality(upto(i)) = n
  <1>1. IsFiniteSet(kept) /\ size \in Nat /\ kept \subseteq Nat
    <2>1. Len(q) \in Nat /\ DOMAIN q = 1 .. Len(q)
      OBVIOUS
    <2>2. IsFiniteSet(1 .. Len(q))
      BY <2>1, FS_Interval
    <2>3. kept \in SUBSET (1 .. Len(q))
      BY <2>1
    <2>4. IsFiniteSet(kept)
      BY <2>2, <2>3, FS_Subset
    <2> QED BY <2>1, <2>3, <2>4, FS_CardinalityType
  <1>2. \A i \in kept : IsFiniteSet(upto(i)) /\ Cardinality(upto(i)) \in 1 .. size
    <2> SUFFICES ASSUME NEW i \in kept PROVE IsFiniteSet(upto(i)) /\ Cardinality(upto(i)) \in 1 .. size
      OBVIOUS
    <2>1. upto(i) \in SUBSET kept /\ i \in upto(i)
      BY <1>1
    <2>2. IsFiniteSet(upto(i)) /\ Cardinality(upto(i)) <= size
      BY <2>1, <1>1, FS_Subset
    <2>3. Cardinality(upto(i)) \in Nat /\ Cardinality(upto(i)) # 0
      BY <2>1, <2>2, FS_CardinalityType, FS_EmptySet
    <2> HIDE DEF upto, size
    <2> QED BY <2>2, <2>3, <1>1
  <1>3. \A i, j \in kept : Cardinality(upto(i)) = Cardinality(upto(j)) => i = j
    <2>1. ASSUME NEW i \in kept, NEW j \in kept, i < j, Cardinality(upto(i)) = Cardinality(upto(j))
          PROVE  FALSE
      <3>1. upto(i) \in SUBSET upto(j) /\ j \in upto(j) /\ j \notin upto(i)
        BY <2>1, <1>1
      <3>2. upto(j) = upto(i)
        BY <3>1, <2>1, <1>2, FS_Subset
      <3> QED BY <3>1, <3>2
    <2>2. \A i, j \in kept : i = j \/ i < j \/ j < i
      BY <1>1
    <2> QED BY <2>1, <2>2
  <1>4. \A n \in 1 .. size : \E i \in kept : Cardinality(upto(i)) = n
    <2> DEFINE f == [i \in kept |-> Cardinality(upto(i))]
    <2>1. IsFiniteSet(1 .. size) /\ Cardinality(1 .. size) = size
      BY <1>1, FS_Interval
    <2> HIDE DEF upto, size, kept
    <2>2. f \in Injection(kept, 1 .. size)
      BY <1>2, <1>3 DEF Injection, IsInjective
    <2>3. f \in Surjection(kept, 1 .. size)
      BY <2>1, <2>2, FS_Injection DEF size
    <2> QED BY <2>3 DEF Surjection
  <1> HIDE DEF upto, size
  <1>5. \A n \in 1 .. size : pick(n) \in kept /\ Cardinality(upto(pick(n))) = n
    BY <1>4
  <1>6. \A i \in kept : pick(Cardinality(upto(i))) = i
    BY <1>2, <1>3, <1>5
  <1>7. Without(q, kind) = [n \in 1 .. size |-> q[pick(n)]]
    BY DEF Without, upto, size
  <1> HIDE DEF pick
  <1>8. Without(q, kind) \in Seq(S)
    <2>1. \A n \in 1 .. size : q[pick(n)] \in S
      BY <1>5
    <2> QED BY <1>1, <1>7, <2>1
  <1>9. \A i \in DOMAIN q : q[i] # kind => \E n \in DOMAIN Without(q, kind) : Without(q, kind)[n] = q[i]
    BY <1>2, <1>6, <1>7
  <1>10. \A n \in DOMAIN Without(q, kind) : Without(q, kind)[n] # kind
    BY <1>5, <1>7
  <1>11. ASSUME NEW x, \A i, j \in DOMAIN q : q[i] = x /\ q[j] = x => i = j,
                NEW m \in DOMAIN Without(q, kind), NEW n \in DOMAIN Without(q, kind),
                Without(q, kind)[m] = x, Without(q, kind)[n] = x
         PROVE  m = n
    <2>1. pick(m) = pick(n)
      BY <1>5, <1>7, <1>11
    <2> QED BY <2>1, <1>5, <1>7
  <1>12. Single(q) => Single(Without(q, kind))
    BY <1>11 DEF Single
  <1> QED BY <1>8, <1>9, <1>10, <1>12

LEMMA AppendKeeps ==
  ASSUME NEW S, NEW q \in Seq(S), NEW x \in S
  PROVE  /\ Append(q, x) \in Seq(S) /\ InQueue(Append(q, x)) = InQueue(q) \cup {x}
         /\ Len(q) \in Nat /\ Len(Append(q, x)) = Len(q) + 1
         /\ Single(q) /\ (x \in {"position", "retry"} => x \notin InQueue(q)) => Single(Append(q, x))
  <1>1. /\ Append(q, x) \in Seq(S) /\ Len(q) \in Nat /\ Len(Append(q, x)) = Len(q) + 1
        /\ DOMAIN q = 1 .. Len(q) /\ DOMAIN Append(q, x) = 1 .. Len(q) + 1
        /\ \A i \in 1 .. Len(q) : Append(q, x)[i] = q[i]
        /\ Append(q, x)[Len(q) + 1] = x
    OBVIOUS
  <1> DEFINE r == Append(q, x)
  <1> HIDE DEF r
  <1>2. /\ DOMAIN q = 1 .. Len(q) /\ DOMAIN r = 1 .. Len(q) + 1 /\ Len(q) \in Nat
        /\ \A i \in 1 .. Len(q) : r[i] = q[i]
        /\ r[Len(q) + 1] = x
    BY <1>1 DEF r
  <1>3. InQueue(r) = InQueue(q) \cup {x}
    BY <1>2 DEF InQueue
  <1>4. ASSUME Single(q), x \in {"position", "retry"} => x \notin InQueue(q) PROVE Single(r)
    <2> SUFFICES ASSUME NEW kind \in {"position", "retry"}, NEW i \in DOMAIN r, NEW j \in DOMAIN r,
                        r[i] = kind, r[j] = kind
                 PROVE  i = j
      BY DEF Single
    <2>1. CASE x = kind
      <3>1. \A h \in 1 .. Len(q) : r[h] # kind
        BY <1>2, <1>4, <2>1 DEF InQueue
      <3> QED BY <1>2, <3>1
    <2>2. CASE x # kind
      <3>1. i \in 1 .. Len(q) /\ j \in 1 .. Len(q)
        BY <1>2, <2>2
      <3> QED BY <1>2, <1>4, <3>1 DEF Single
    <2> QED BY <2>1, <2>2
  <1> QED BY <1>1, <1>3, <1>4 DEF r

LEMMA FrontTaken ==
  ASSUME NEW S, NEW q \in Seq(S), q # <<>>
  PROVE  /\ Head(q) \in S /\ Tail(q) \in Seq(S) /\ Len(q) \in Nat /\ Len(Tail(q)) = Len(q) - 1
         /\ InQueue(q) \subseteq InQueue(Tail(q)) \cup {Head(q)} /\ InQueue(Tail(q)) \subseteq InQueue(q)
         /\ Single(q) => Single(Tail(q))
  <1>1. /\ Head(q) = q[1] /\ q[1] \in S /\ Tail(q) \in Seq(S) /\ Len(q) \in Nat /\ Len(q) # 0
        /\ Len(Tail(q)) = Len(q) - 1 /\ DOMAIN q = 1 .. Len(q) /\ DOMAIN Tail(q) = 1 .. Len(q) - 1
        /\ \A i \in 1 .. Len(q) - 1 : Tail(q)[i] = q[i + 1]
    OBVIOUS
  <1> DEFINE r == Tail(q)
  <1> HIDE DEF r
  <1>2. /\ Len(q) \in Nat /\ Len(q) # 0 /\ DOMAIN q = 1 .. Len(q) /\ DOMAIN r = 1 .. Len(q) - 1
        /\ \A i \in 1 .. Len(q) - 1 : r[i] = q[i + 1]
    BY <1>1 DEF r
  <1>3. InQueue(q) \subseteq InQueue(r) \cup {q[1]}
    <2> SUFFICES ASSUME NEW i \in 1 .. Len(q), i # 1 PROVE q[i] \in InQueue(r)
      BY <1>2 DEF InQueue
    <2>1. i - 1 \in 1 .. Len(q) - 1 /\ r[i - 1] = q[(i - 1) + 1] /\ (i - 1) + 1 = i
      BY <1>2
    <2> QED BY <2>1, <1>2 DEF InQueue
  <1>4. InQueue(r) \subseteq InQueue(q)
    <2>1. \A i \in DOMAIN r : i + 1 \in DOMAIN q /\ r[i] = q[i + 1]
      BY <1>2
    <2> QED BY <2>1 DEF InQueue
  <1>5. Single(q) => Single(r)
    <2> SUFFICES ASSUME Single(q), NEW kind \in {"position", "retry"}, NEW i \in DOMAIN r, NEW j \in DOMAIN r,
                        r[i] = kind, r[j] = kind
                 PROVE  i = j
      BY DEF Single
    <2>1. i + 1 = j + 1
      BY <1>2 DEF Single
    <2> QED BY <2>1, <1>2
  <1> QED BY <1>1, <1>3, <1>4, <1>5 DEF r

\* A queued command stays queued, whatever is enqueued after it, and no more
\* than one position and one retry is.
LEMMA Enqueued ==
  ASSUME NEW q \in Seq(Tasks), NEW new \in Tasks
  PROVE  /\ Enqueue(q, new) \in Seq(Tasks)
         /\ \A c \in Commands : c \in InQueue(q) => c \in InQueue(Enqueue(q, new))
         /\ new \in Commands => new \in InQueue(Enqueue(q, new))
         /\ Single(q) => Single(Enqueue(q, new))
  <1>a. {"position", "retry"} \cap Commands = {}
    BY ShutdownAssumption
  <1>1. CASE new = "position"
    <2> DEFINE r == Without(q, new)
    <2>1. Enqueue(q, new) = Append(r, new)
      BY <1>1 DEF Enqueue
    <2>2. /\ r \in Seq(Tasks)
          /\ \A i \in DOMAIN q : q[i] # new => \E n \in DOMAIN r : r[n] = q[i]
          /\ \A n \in DOMAIN r : r[n] # new
          /\ Single(q) => Single(r)
      BY Erased
    <2> HIDE DEF r
    <2>3. \A c \in Commands : c \in InQueue(q) => c \in InQueue(r)
      BY <2>2, <1>1, <1>a DEF InQueue
    <2>4. new \notin InQueue(r)
      BY <2>2 DEF InQueue
    <2>5. /\ Append(r, new) \in Seq(Tasks) /\ InQueue(Append(r, new)) = InQueue(r) \cup {new}
          /\ Single(r) => Single(Append(r, new))
      BY <2>2, <2>4, AppendKeeps
    <2> QED BY <2>1, <2>2, <2>3, <2>5
  <1>2. CASE new = "retry" /\ \E i \in DOMAIN q : q[i] = new
    <2>1. Enqueue(q, new) = q
      BY <1>2 DEF Enqueue
    <2> QED BY <2>1, <1>2, <1>a
  <1>3. CASE new # "position" /\ ~(new = "retry" /\ \E i \in DOMAIN q : q[i] = new)
    <2>1. Enqueue(q, new) = Append(q, new)
      BY <1>3 DEF Enqueue
    <2>2. new \in {"position", "retry"} => new \notin InQueue(q)
      BY <1>3 DEF InQueue
    <2>3. /\ Append(q, new) \in Seq(Tasks) /\ InQueue(Append(q, new)) = InQueue(q) \cup {new}
          /\ Single(q) => Single(Append(q, new))
      BY <2>2, AppendKeeps
    <2> QED BY <2>1, <2>3
  <1> QED BY <1>1, <1>2, <1>3

-----------------------------------------------------------------------------
(* Raising an event.                                                       *)

\* Besides its own thread, a producer moves at most main, out of its wait.
LEMMA MainWoken ==
  ASSUME NEW t, t # "main", NEW label, pc' = Woken(t, label, {"main"})
  PROVE  /\ DOMAIN pc' = Threads /\ \A x \in Threads \ {t, "main"} : pc'[x] = pc[x]
         /\ pc'["main"] = pc["main"] \/ (pc["main"] = "blocked" /\ pc'["main"] = "lock")
  BY DEF Woken, Threads, Waiters

LEMMA Raised ==
  ASSUME event_queue \in Seq(Events), NEW e \in Events, enqueue_event(e)
  PROVE  /\ event_queue' \in Seq(Events) /\ InQueue(event_queue') = InQueue(event_queue) \cup {e}
         /\ Len(event_queue) \in Nat /\ Len(event_queue') = Len(event_queue) + 1
  BY AppendKeeps DEF enqueue_event

-----------------------------------------------------------------------------
(* What a step does to the workers' queues.                                *)

\* A worker's queue keeps its type and its bounds, and the commands in it.
Posted(w) ==
  /\ task_queue'[w] \in Seq(Tasks)
  /\ \A c \in Commands : c \in InQueue(task_queue[w]) => c \in InQueue(task_queue'[w])
  /\ Single(task_queue[w]) => Single(task_queue'[w])

\* A retry goes to the SMM worker only.
LEMMA RetryPosted ==
  ASSUME Queues, DialAndRetry
  PROVE  /\ task_queue' \in [{"smm", "fss"} -> Seq(Tasks)]
         /\ Posted("smm") /\ task_queue'["fss"] = task_queue["fss"]
  <1>1. CASE UNCHANGED task_queue
    BY <1>1 DEF Queues, Posted
  <1>2. CASE task_queue' = [task_queue EXCEPT !["smm"] = Enqueue(@, "retry")]
    <2>1. "retry" \in Tasks /\ task_queue["smm"] \in Seq(Tasks)
      BY DEF Tasks, Queues
    <2>2. /\ Enqueue(task_queue["smm"], "retry") \in Seq(Tasks)
          /\ \A c \in Commands : c \in InQueue(task_queue["smm"]) => c \in InQueue(Enqueue(task_queue["smm"], "retry"))
          /\ Single(task_queue["smm"]) => Single(Enqueue(task_queue["smm"], "retry"))
      BY <2>1, Enqueued
    <2>3. task_queue'["smm"] = Enqueue(task_queue["smm"], "retry") /\ task_queue'["fss"] = task_queue["fss"]
      BY <1>2 DEF Queues
    <2> QED BY <1>2, <2>2, <2>3 DEF Posted, Queues
  <1> QED BY <1>1, <1>2 DEF DialAndRetry

\* A dispatched event reaches both workers' queues, a command its ack's.
LEMMA EventPosted ==
  ASSUME Queues, Dispatch
  PROVE  /\ task_queue' \in [{"smm", "fss"} -> Seq(Tasks)]
         /\ \A w \in {"smm", "fss"} : Posted(w)
         /\ Head(event_queue) \in Commands => Head(event_queue) \in InQueue(task_queue'["fss"])
  <1> DEFINE event == Head(event_queue)
  <1>1. event \in Events
    BY FrontTaken DEF Queues, Dispatch
  <1>2. PICK posts \in Handlers(event) :
          task_queue' = [w \in {"smm", "fss"} |-> EnqueueAll(task_queue[w], posts[w])]
    BY DEF Dispatch
  <1> HIDE DEF event
  <1>3. /\ \A w \in {"smm", "fss"} : posts[w] = <<>> \/ \E x \in Tasks : posts[w] = <<x>>
        /\ event \in Commands => posts["fss"] = <<event>>
    <2>1. CASE event \in Commands
      BY <1>2, <2>1, ShutdownAssumption DEF Handlers, Tasks
    <2>2. CASE event = "position"
      BY <1>2, <2>2, ShutdownAssumption DEF Handlers, Tasks
    <2>3. CASE event = "report"
      BY <1>2, <2>3, ShutdownAssumption DEF Handlers, Tasks
    <2>4. CASE event = "nudge"
      BY <1>2, <2>4, ShutdownAssumption DEF Handlers, Tasks
    <2> QED BY <1>1, <2>1, <2>2, <2>3, <2>4 DEF Events
  <1>4. ASSUME NEW w \in {"smm", "fss"} PROVE Posted(w)
    <2>1. task_queue'[w] = EnqueueAll(task_queue[w], posts[w]) /\ task_queue[w] \in Seq(Tasks)
      BY <1>2 DEF Queues
    <2>2. CASE posts[w] = <<>>
      BY <2>1, <2>2 DEF EnqueueAll, Posted
    <2>3. ASSUME NEW x \in Tasks, posts[w] = <<x>> PROVE Posted(w)
      <3>1. task_queue'[w] = Enqueue(task_queue[w], x)
        BY <2>1, <2>3 DEF EnqueueAll
      <3> QED BY <2>1, <3>1, Enqueued DEF Posted
    <2> QED BY <1>3, <2>2, <2>3
  <1>5. event \in Commands => event \in InQueue(task_queue'["fss"])
    <2> SUFFICES ASSUME event \in Commands PROVE event \in InQueue(task_queue'["fss"])
      OBVIOUS
    <2>1. task_queue'["fss"] = Enqueue(task_queue["fss"], event)
      BY <1>2, <1>3 DEF EnqueueAll
    <2>2. task_queue["fss"] \in Seq(Tasks) /\ event \in Tasks
      BY DEF Queues, Tasks
    <2> QED BY <2>1, <2>2, Enqueued
  <1>6. task_queue' \in [{"smm", "fss"} -> Seq(Tasks)]
    BY <1>2, <1>4 DEF Posted
  <1> QED BY <1>4, <1>5, <1>6 DEF event

\* A worker takes the task at the front.
LEMMA TaskTaken ==
  ASSUME Queues, NEW w \in {"smm", "fss"}, task_queue[w] # <<>>,
         task_queue' = [task_queue EXCEPT ![w] = Tail(@)]
  PROVE  /\ task_queue' \in [{"smm", "fss"} -> Seq(Tasks)]
         /\ \A v \in {"smm", "fss"} \ {w} : task_queue'[v] = task_queue[v]
         /\ InQueue(task_queue[w]) \subseteq InQueue(task_queue'[w]) \cup {Head(task_queue[w])}
         /\ Single(task_queue[w]) => Single(task_queue'[w])
  <1>1. task_queue[w] \in Seq(Tasks) /\ task_queue'[w] = Tail(task_queue[w])
    BY DEF Queues
  <1>2. /\ Tail(task_queue[w]) \in Seq(Tasks)
        /\ InQueue(task_queue[w]) \subseteq InQueue(Tail(task_queue[w])) \cup {Head(task_queue[w])}
        /\ Single(task_queue[w]) => Single(Tail(task_queue[w]))
    BY <1>1, FrontTaken
  <1> QED BY <1>1, <1>2 DEF Queues

-----------------------------------------------------------------------------
(* Counting the commands of a queue.                                       *)

LEMMA Loads ==
  ASSUME NEW A, NEW B, NEW h
  PROVE  /\ Load(A) \in Nat /\ Load(A) <= Cardinality(Commands) /\ Cardinality(Commands) \in Nat
         /\ A \subseteq B => Load(A) <= Load(B)
         /\ B \subseteq A \cup {h} => Load(B) <= Load(A) + 1
         /\ h \in Commands \ A => Load(A \cup {h}) = Load(A) + 1
  <1>1. \A X : IsFiniteSet(Commands \cap X) /\ Load(X) \in Nat /\ Load(X) <= Cardinality(Commands)
    <2> SUFFICES ASSUME NEW X
                 PROVE  IsFiniteSet(Commands \cap X) /\ Load(X) \in Nat /\ Load(X) <= Cardinality(Commands)
      OBVIOUS
    <2>1. IsFiniteSet(Commands) /\ Commands \cap X \in SUBSET Commands
      BY ShutdownAssumption
    <2> QED BY <2>1, FS_Subset, FS_CardinalityType DEF Load
  <1>2. \A X, Y : X \subseteq Y => Load(X) <= Load(Y)
    <2> SUFFICES ASSUME NEW X, NEW Y, X \subseteq Y PROVE Load(X) <= Load(Y)
      OBVIOUS
    <2>1. IsFiniteSet(Commands \cap Y) /\ Commands \cap X \in SUBSET (Commands \cap Y)
      BY <1>1
    <2> QED BY <2>1, FS_Subset DEF Load
  <1>3. Load(A \cup {h}) = IF h \in Commands \ A THEN Load(A) + 1 ELSE Load(A)
    <2>1. IsFiniteSet(Commands \cap A)
      BY <1>1
    <2>2. CASE h \in Commands \ A
      <3>1. Commands \cap (A \cup {h}) = (Commands \cap A) \cup {h} /\ h \notin Commands \cap A
        BY <2>2
      <3> QED BY <2>1, <2>2, <3>1, FS_AddElement DEF Load
    <2>3. CASE h \notin Commands \ A
      <3>1. Commands \cap (A \cup {h}) = Commands \cap A
        BY <2>3
      <3> QED BY <2>3, <3>1 DEF Load
    <2> QED BY <2>2, <2>3
  <1>4. ASSUME B \subseteq A \cup {h} PROVE Load(B) <= Load(A) + 1
    <2>1. Load(B) <= Load(A \cup {h}) /\ Load(A) \in Nat /\ Load(B) \in Nat
      BY <1>1, <1>2, <1>4
    <2> QED BY <2>1, <1>3
  <1>5. Cardinality(Commands) \in Nat
    BY ShutdownAssumption, FS_CardinalityType
  <1> QED BY <1>1, <1>2, <1>3, <1>4, <1>5

\* What leaves room in the event queue's bound.
LEMMA CommandFits ==
  ASSUME Queues, EventBound, inputs \in Nat, NEW c \in Commands \ InQueue(event_queue),
         enqueue_event(c), inputs' = inputs, pc'["reconnector"] = pc["reconnector"]
  PROVE  EventBound'
  <1>1. /\ Len(event_queue) \in Nat /\ Len(event_queue') = Len(event_queue) + 1
        /\ InQueue(event_queue') = InQueue(event_queue) \cup {c}
    BY Raised DEF Events, Queues
  <1>2. Load(InQueue(event_queue')) = Load(InQueue(event_queue)) + 1 /\ Load(InQueue(event_queue)) \in Nat
    BY <1>1, Loads
  <1> QED BY <1>1, <1>2 DEF EventBound, Finished, Load

LEMMA OtherFits ==
  ASSUME Queues, EventBound, inputs \in Nat, NEW e \in Events, enqueue_event(e),
         \/ inputs' = inputs + 1 /\ pc'["reconnector"] = pc["reconnector"]
         \/ inputs' = inputs /\ ~Finished("reconnector") /\ pc'["reconnector"] = "done"
  PROVE  EventBound'
  <1>1. /\ Len(event_queue) \in Nat /\ Len(event_queue') = Len(event_queue) + 1
        /\ InQueue(event_queue) \subseteq InQueue(event_queue')
    BY Raised DEF Queues
  <1>2. /\ Load(InQueue(event_queue)) <= Load(InQueue(event_queue'))
        /\ Load(InQueue(event_queue)) \in Nat /\ Load(InQueue(event_queue')) \in Nat
    BY <1>1, Loads
  <1> QED BY <1>1, <1>2 DEF EventBound, Finished, Load

LEMMA TakenFits ==
  ASSUME Queues, EventBound, inputs \in Nat, event_queue # <<>>, event_queue' = Tail(event_queue),
         inputs' = inputs, pc'["reconnector"] = pc["reconnector"]
  PROVE  EventBound'
  <1>1. /\ Len(event_queue) \in Nat /\ Len(event_queue') = Len(event_queue) - 1
        /\ InQueue(event_queue) \subseteq InQueue(event_queue') \cup {Head(event_queue)}
    BY FrontTaken DEF Queues
  <1>2. /\ Load(InQueue(event_queue)) <= Load(InQueue(event_queue')) + 1
        /\ Load(InQueue(event_queue)) \in Nat /\ Load(InQueue(event_queue')) \in Nat
    BY <1>1, Loads
  <1> QED BY <1>1, <1>2 DEF EventBound, Finished, Load

LEMMA EmptyFits ==
  ASSUME event_queue' = <<>>, inputs' \in Nat
  PROVE  EventBound'
  <1>1. Load(InQueue(event_queue')) \in Nat
    BY Loads
  <1>2. Len(event_queue') = 0
    OBVIOUS
  <1> QED BY <1>1, <1>2 DEF EventBound, Load

-----------------------------------------------------------------------------
(* One lemma per part of the invariant, one step per action.               *)

LEMMA LabelsKept == ASSUME IInv, [Next]_vars PROVE Labels'
  <1> USE DEF IInv, flagVars, mavVars, ghostVars
  <1> USE DEF Labels, Queues, Finished, Woken, Threads, Waiters, Waiting, LoopLeft, ReconnectorJoined, SignalJoined, SmmGone, HeartbeatJoined, MavGone, FssStopping, FssJoined, AppGone, Predicate, Components
  <1>1. CASE RecvCommand
    BY <1>1 DEF RecvCommand, enqueue_event
  <1>2. CASE RecvPosition
    BY <1>2 DEF RecvPosition, Raises, enqueue_event
  <1>3. CASE RecvEnds
    BY <1>3 DEF RecvEnds, Goto
  <1>4. CASE StoreRunning
    BY <1>4 DEF StoreRunning
  <1>5. CASE TouchReconnectLock
    BY <1>5 DEF TouchReconnectLock
  <1>6. CASE SoundPass
    <2>1. Dialling
      BY <1>6, DialsAndRetries DEF SoundPass
    <2> QED BY <1>6, <2>1 DEF SoundPass, Dialling
  <1>7. CASE RetireSocket
    BY <1>7 DEF RetireSocket, Goto
  <1>8. CASE ReconnectorJoins
    BY <1>8 DEF ReconnectorJoins, RecvEnded, RecvJoinable
  <1>9. CASE ReconnectorDials
    <2>1. Dialling
      BY <1>9, DialsAndRetries DEF ReconnectorDials
    <2> QED BY <1>9, <2>1 DEF ReconnectorDials, Dialling
  <1>10. CASE Wakes("reconnector")
    BY <1>10 DEF Wakes, Moves, Goto
  <1>11. CASE PartingNudge
    BY <1>11 DEF PartingNudge, enqueue_event
  <1>12. CASE HeartbeatPass
    BY <1>12 DEF HeartbeatPass, Raises, RaisesNone, enqueue_event, Goto
  <1>13. CASE HeartbeatEnds
    BY <1>13 DEF HeartbeatEnds, Moves, Goto
  <1>14. CASE Wakes("heartbeat")
    BY <1>14 DEF Wakes, Moves, Goto
  <1>15. CASE SmmWork
    BY <1>15 DEF SmmWork, Raises, RaisesNone, enqueue_event, Goto
  <1>16. CASE WorkerEnds("smm")
    BY <1>16 DEF WorkerEnds, Goto
  <1>17. CASE FssWork
    BY <1>17 DEF FssWork
  <1>18. CASE WorkerEnds("fss")
    BY <1>18 DEF WorkerEnds, Goto
  <1>19. CASE Start
    BY <1>19 DEF Start, connect_to_mav
  <1>20. CASE Dispatch
    BY <1>20 DEF Dispatch
  <1>21. CASE LoopEnds
    BY <1>21 DEF LoopEnds, Moves, Goto
  <1>22. CASE JoinReconnector
    BY <1>22 DEF JoinReconnector, Moves, Goto
  <1>23. CASE JoinSignalAndDrain
    BY <1>23 DEF JoinSignalAndDrain, Goto
  <1>24. CASE Stop("smm", "stop_smm", "join_smm")
    BY <1>24 DEF Stop
  <1>25. CASE DestroySmm
    BY <1>25 DEF DestroySmm, Destroy, Goto
  <1>26. CASE Stop("heartbeat", "stop_heartbeat", "join_heartbeat")
    BY <1>26 DEF Stop
  <1>27. CASE ShutMav
    BY <1>27 DEF ShutMav, Goto
  <1>28. CASE DestroyMav
    BY <1>28 DEF DestroyMav, Destroy, RecvEnded, RecvJoinable, Goto
  <1>29. CASE Stop("fss", "stop_fss", "join_fss")
    BY <1>29 DEF Stop
  <1>30. CASE DestroyFss
    BY <1>30 DEF DestroyFss, Destroy, Goto
  <1>31. CASE DestroyApp
    BY <1>31 DEF DestroyApp, Destroy, Goto
  <1>32. CASE Exited
    BY <1>32 DEF Exited, vars
  <1>33. ASSUME NEW w \in Waiters, Evaluate(w) \/ Block(w) \/ Timeout(w)
         PROVE  Labels'
    BY <1>33 DEF Evaluate, Block, Timeout, Moves, Goto
  <1>34. CASE UNCHANGED vars
    BY <1>34 DEF vars
  <1> QED BY <1>1, <1>2, <1>3, <1>4, <1>5, <1>6, <1>7, <1>8, <1>9, <1>10, <1>11, <1>12,
            <1>13, <1>14, <1>15, <1>16, <1>17, <1>18, <1>19, <1>20, <1>21, <1>22, <1>23, <1>24,
            <1>25, <1>26, <1>27, <1>28, <1>29, <1>30, <1>31, <1>32, <1>33, <1>34
         DEF Next, fss_reconnector, heartbeat_loop, smm_worker, fss_worker, run, destructors, Waits

LEMMA JoinedKept == ASSUME IInv, [Next]_vars PROVE Joined'
  <1> USE DEF IInv, flagVars, mavVars, ghostVars
  <1> USE DEF Joined, Labels, Queues, Finished, Woken, Threads, Waiters, Waiting, LoopLeft, ReconnectorJoined, SignalJoined, SmmGone, HeartbeatJoined, MavGone, FssStopping, FssJoined, AppGone, Components
  <1>1. CASE RecvCommand
    <2>1. /\ \A x \in Threads \ {"main"} : pc'[x] = pc[x]
          /\ pc'["main"] = pc["main"] \/ (pc["main"] = "blocked" /\ pc'["main"] = "lock")
      BY <1>1, MainWoken DEF RecvCommand
    <2> QED BY <1>1, <2>1 DEF RecvCommand
  <1>2. CASE RecvPosition
    BY <1>2 DEF RecvPosition, Raises, enqueue_event
  <1>3. CASE RecvEnds
    BY <1>3 DEF RecvEnds, Goto
  <1>4. CASE StoreRunning
    BY <1>4 DEF StoreRunning
  <1>5. CASE TouchReconnectLock
    BY <1>5 DEF TouchReconnectLock
  <1>6. CASE SoundPass
    <2>1. Dialling
      BY <1>6, DialsAndRetries DEF SoundPass
    <2> QED BY <1>6, <2>1 DEF SoundPass, Dialling
  <1>7. CASE RetireSocket
    BY <1>7 DEF RetireSocket, Goto
  <1>8. CASE ReconnectorJoins
    BY <1>8 DEF ReconnectorJoins, RecvEnded, RecvJoinable
  <1>9. CASE ReconnectorDials
    <2>1. Dialling
      BY <1>9, DialsAndRetries DEF ReconnectorDials
    <2> QED BY <1>9, <2>1 DEF ReconnectorDials, Dialling
  <1>10. CASE Wakes("reconnector")
    BY <1>10 DEF Wakes, Moves, Goto
  <1>11. CASE PartingNudge
    BY <1>11 DEF PartingNudge, enqueue_event
  <1>12. CASE HeartbeatPass
    BY <1>12 DEF HeartbeatPass, Raises, RaisesNone, enqueue_event, Goto
  <1>13. CASE HeartbeatEnds
    BY <1>13 DEF HeartbeatEnds, Moves, Goto
  <1>14. CASE Wakes("heartbeat")
    BY <1>14 DEF Wakes, Moves, Goto
  <1>15. CASE SmmWork
    <2>1. /\ DOMAIN pc' = Threads /\ \A t \in Threads \ {"main"} : pc'[t] = pc[t]
          /\ pc'["main"] # pc["main"] => pc["main"] = "blocked" /\ pc'["main"] = "lock"
      BY <1>15 DEF SmmWork, Raises, RaisesNone, Goto
    <2> QED BY <1>15, <2>1 DEF SmmWork
  <1>16. CASE WorkerEnds("smm")
    BY <1>16 DEF WorkerEnds, Goto
  <1>17. CASE FssWork
    BY <1>17 DEF FssWork
  <1>18. CASE WorkerEnds("fss")
    BY <1>18 DEF WorkerEnds, Goto
  <1>19. CASE Start
    <2>1. /\ pc'["main"] = "lock" /\ pc["main"] = "start"
          /\ \A t \in {"smm", "fss", "signal"} : pc'[t] = pc[t]
          /\ UNCHANGED <<running, alive>>
      BY <1>19 DEF Start, connect_to_mav
    <2> QED BY <2>1
  <1>20. CASE Dispatch
    BY <1>20 DEF Dispatch
  <1>21. CASE LoopEnds
    BY <1>21 DEF LoopEnds, Moves, Goto
  <1>22. CASE JoinReconnector
    BY <1>22 DEF JoinReconnector, Moves, Goto
  <1>23. CASE JoinSignalAndDrain
    BY <1>23 DEF JoinSignalAndDrain, Goto
  <1>24. CASE Stop("smm", "stop_smm", "join_smm")
    BY <1>24 DEF Stop
  <1>25. CASE DestroySmm
    BY <1>25 DEF DestroySmm, Destroy, Goto
  <1>26. CASE Stop("heartbeat", "stop_heartbeat", "join_heartbeat")
    BY <1>26 DEF Stop
  <1>27. CASE ShutMav
    BY <1>27 DEF ShutMav, Goto
  <1>28. CASE DestroyMav
    BY <1>28 DEF DestroyMav, Destroy, RecvEnded, RecvJoinable, Goto
  <1>29. CASE Stop("fss", "stop_fss", "join_fss")
    BY <1>29 DEF Stop
  <1>30. CASE DestroyFss
    BY <1>30 DEF DestroyFss, Destroy, Goto
  <1>31. CASE DestroyApp
    BY <1>31 DEF DestroyApp, Destroy, Goto
  <1>32. CASE Exited
    BY <1>32 DEF Exited, vars
  <1>33. ASSUME NEW w \in Waiters, Evaluate(w) \/ Block(w) \/ Timeout(w)
         PROVE  Joined'
    BY <1>33 DEF Evaluate, Block, Timeout, Moves, Goto
  <1>34. CASE UNCHANGED vars
    BY <1>34 DEF vars
  <1> QED BY <1>1, <1>2, <1>3, <1>4, <1>5, <1>6, <1>7, <1>8, <1>9, <1>10, <1>11, <1>12,
            <1>13, <1>14, <1>15, <1>16, <1>17, <1>18, <1>19, <1>20, <1>21, <1>22, <1>23, <1>24,
            <1>25, <1>26, <1>27, <1>28, <1>29, <1>30, <1>31, <1>32, <1>33, <1>34
         DEF Next, fss_reconnector, heartbeat_loop, smm_worker, fss_worker, run, destructors, Waits

LEMMA DialledKept == ASSUME IInv, [Next]_vars PROVE Dialled'
  <1> USE DEF IInv, flagVars, mavVars, ghostVars
  <1> USE DEF Dialled, Joined, Labels, Queues, Finished, Woken, Threads, Waiters, Waiting, LoopLeft, ReconnectorJoined, SignalJoined, SmmGone, HeartbeatJoined, MavGone, FssStopping, FssJoined, AppGone, Components
  <1>1. CASE RecvCommand
    BY <1>1 DEF RecvCommand, enqueue_event
  <1>2. CASE RecvPosition
    BY <1>2 DEF RecvPosition, Raises, enqueue_event
  <1>3. CASE RecvEnds
    BY <1>3 DEF RecvEnds, Goto
  <1>4. CASE StoreRunning
    BY <1>4 DEF StoreRunning
  <1>5. CASE TouchReconnectLock
    BY <1>5 DEF TouchReconnectLock
  <1>6. CASE SoundPass
    <2>1. Dialling
      BY <1>6, DialsAndRetries DEF SoundPass
    <2> QED BY <1>6, <2>1 DEF SoundPass, Dialling
  <1>7. CASE RetireSocket
    BY <1>7 DEF RetireSocket, Goto
  <1>8. CASE ReconnectorJoins
    BY <1>8 DEF ReconnectorJoins, RecvEnded, RecvJoinable
  <1>9. CASE ReconnectorDials
    <2>1. Dialling
      BY <1>9, DialsAndRetries DEF ReconnectorDials
    <2> QED BY <1>9, <2>1 DEF ReconnectorDials, Dialling
  <1>10. CASE Wakes("reconnector")
    BY <1>10 DEF Wakes, Moves, Goto
  <1>11. CASE PartingNudge
    BY <1>11 DEF PartingNudge, enqueue_event
  <1>12. CASE HeartbeatPass
    BY <1>12 DEF HeartbeatPass, Raises, RaisesNone, enqueue_event, Goto
  <1>13. CASE HeartbeatEnds
    BY <1>13 DEF HeartbeatEnds, Moves, Goto
  <1>14. CASE Wakes("heartbeat")
    BY <1>14 DEF Wakes, Moves, Goto
  <1>15. CASE SmmWork
    BY <1>15 DEF SmmWork, Raises, RaisesNone, enqueue_event, Goto
  <1>16. CASE WorkerEnds("smm")
    BY <1>16 DEF WorkerEnds, Goto
  <1>17. CASE FssWork
    BY <1>17 DEF FssWork
  <1>18. CASE WorkerEnds("fss")
    BY <1>18 DEF WorkerEnds, Goto
  <1>19. CASE Start
    BY <1>19 DEF Start, connect_to_mav
  <1>20. CASE Dispatch
    BY <1>20 DEF Dispatch
  <1>21. CASE LoopEnds
    BY <1>21 DEF LoopEnds, Moves, Goto
  <1>22. CASE JoinReconnector
    BY <1>22 DEF JoinReconnector, Moves, Goto
  <1>23. CASE JoinSignalAndDrain
    BY <1>23 DEF JoinSignalAndDrain, Goto
  <1>24. CASE Stop("smm", "stop_smm", "join_smm")
    BY <1>24 DEF Stop
  <1>25. CASE DestroySmm
    BY <1>25 DEF DestroySmm, Destroy, Goto
  <1>26. CASE Stop("heartbeat", "stop_heartbeat", "join_heartbeat")
    BY <1>26 DEF Stop
  <1>27. CASE ShutMav
    BY <1>27 DEF ShutMav, Goto
  <1>28. CASE DestroyMav
    BY <1>28 DEF DestroyMav, Destroy, RecvEnded, RecvJoinable, Goto
  <1>29. CASE Stop("fss", "stop_fss", "join_fss")
    BY <1>29 DEF Stop
  <1>30. CASE DestroyFss
    BY <1>30 DEF DestroyFss, Destroy, Goto
  <1>31. CASE DestroyApp
    BY <1>31 DEF DestroyApp, Destroy, Goto
  <1>32. CASE Exited
    BY <1>32 DEF Exited, vars
  <1>33. ASSUME NEW w \in Waiters, Evaluate(w) \/ Block(w) \/ Timeout(w)
         PROVE  Dialled'
    BY <1>33 DEF Evaluate, Block, Timeout, Moves, Goto
  <1>34. CASE UNCHANGED vars
    BY <1>34 DEF vars
  <1> QED BY <1>1, <1>2, <1>3, <1>4, <1>5, <1>6, <1>7, <1>8, <1>9, <1>10, <1>11, <1>12,
            <1>13, <1>14, <1>15, <1>16, <1>17, <1>18, <1>19, <1>20, <1>21, <1>22, <1>23, <1>24,
            <1>25, <1>26, <1>27, <1>28, <1>29, <1>30, <1>31, <1>32, <1>33, <1>34
         DEF Next, fss_reconnector, heartbeat_loop, smm_worker, fss_worker, run, destructors, Waits

LEMMA QueuesKept == ASSUME IInv, [Next]_vars PROVE Queues'
  <1> USE DEF IInv, flagVars, mavVars, ghostVars
  <1> USE DEF Queues
  <1>1. CASE RecvCommand
    <2>1. PICK c \in Commands : enqueue_event(c) /\ early' \in {early, early \cup {c}}
      BY <1>1 DEF RecvCommand
    <2>2. event_queue' \in Seq(Events)
      BY <2>1, Raised DEF Events
    <2> QED BY <1>1, <2>1, <2>2 DEF RecvCommand
  <1>2. CASE RecvPosition
    <2>1. event_queue' \in Seq(Events)
      BY <1>2, Raised DEF RecvPosition, Raises, Events
    <2> QED BY <1>2, <2>1 DEF RecvPosition
  <1>3. CASE RecvEnds
    BY <1>3 DEF RecvEnds, Goto
  <1>4. CASE StoreRunning
    BY <1>4 DEF StoreRunning
  <1>5. CASE TouchReconnectLock
    BY <1>5 DEF TouchReconnectLock
  <1>6. CASE SoundPass
    <2>1. Dialling /\ task_queue' \in [{"smm", "fss"} -> Seq(Tasks)]
      BY <1>6, DialsAndRetries, RetryPosted DEF SoundPass
    <2> QED BY <2>1 DEF Dialling
  <1>7. CASE RetireSocket
    BY <1>7 DEF RetireSocket, Goto
  <1>8. CASE ReconnectorJoins
    BY <1>8 DEF ReconnectorJoins, RecvEnded, RecvJoinable
  <1>9. CASE ReconnectorDials
    <2>1. Dialling /\ task_queue' \in [{"smm", "fss"} -> Seq(Tasks)]
      BY <1>9, DialsAndRetries, RetryPosted DEF ReconnectorDials
    <2> QED BY <2>1 DEF Dialling
  <1>10. CASE Wakes("reconnector")
    BY <1>10 DEF Wakes, Moves, Goto
  <1>11. CASE PartingNudge
    <2>1. event_queue' \in Seq(Events)
      BY <1>11, Raised DEF PartingNudge, Events
    <2> QED BY <1>11, <2>1 DEF PartingNudge
  <1>12. CASE HeartbeatPass
    <2>1. event_queue' \in Seq(Events)
      BY <1>12, Raised DEF HeartbeatPass, Raises, RaisesNone, Events
    <2> QED BY <1>12, <2>1 DEF HeartbeatPass
  <1>13. CASE HeartbeatEnds
    BY <1>13 DEF HeartbeatEnds, Moves, Goto
  <1>14. CASE Wakes("heartbeat")
    BY <1>14 DEF Wakes, Moves, Goto
  <1>15. CASE SmmWork
    <2>1. event_queue' \in Seq(Events)
      BY <1>15, Raised DEF SmmWork, Raises, RaisesNone, Events
    <2>2. task_queue' \in [{"smm", "fss"} -> Seq(Tasks)]
      BY <1>15, TaskTaken DEF SmmWork
    <2> QED BY <1>15, <2>1, <2>2 DEF SmmWork
  <1>16. CASE WorkerEnds("smm")
    BY <1>16 DEF WorkerEnds, Goto
  <1>17. CASE FssWork
    <2>1. task_queue' \in [{"smm", "fss"} -> Seq(Tasks)]
      BY <1>17, TaskTaken DEF FssWork
    <2> QED BY <1>17, <2>1 DEF FssWork
  <1>18. CASE WorkerEnds("fss")
    BY <1>18 DEF WorkerEnds, Goto
  <1>19. CASE Start
    BY <1>19 DEF Start, connect_to_mav
  <1>20. CASE Dispatch
    <2>1. task_queue' \in [{"smm", "fss"} -> Seq(Tasks)]
      BY <1>20, EventPosted
    <2>2. event_queue' \in Seq(Events)
      BY <1>20, FrontTaken DEF Dispatch
    <2> QED BY <1>20, <2>1, <2>2 DEF Dispatch
  <1>21. CASE LoopEnds
    BY <1>21 DEF LoopEnds, Moves, Goto
  <1>22. CASE JoinReconnector
    BY <1>22 DEF JoinReconnector, Moves, Goto
  <1>23. CASE JoinSignalAndDrain
    BY <1>23 DEF JoinSignalAndDrain, Goto
  <1>24. CASE Stop("smm", "stop_smm", "join_smm")
    BY <1>24 DEF Stop
  <1>25. CASE DestroySmm
    BY <1>25 DEF DestroySmm, Destroy, Goto
  <1>26. CASE Stop("heartbeat", "stop_heartbeat", "join_heartbeat")
    BY <1>26 DEF Stop
  <1>27. CASE ShutMav
    BY <1>27 DEF ShutMav, Goto
  <1>28. CASE DestroyMav
    BY <1>28 DEF DestroyMav, Destroy, RecvEnded, RecvJoinable, Goto
  <1>29. CASE Stop("fss", "stop_fss", "join_fss")
    BY <1>29 DEF Stop
  <1>30. CASE DestroyFss
    BY <1>30 DEF DestroyFss, Destroy, Goto
  <1>31. CASE DestroyApp
    BY <1>31 DEF DestroyApp, Destroy, Goto
  <1>32. CASE Exited
    BY <1>32 DEF Exited, vars
  <1>33. ASSUME NEW w \in Waiters, Evaluate(w) \/ Block(w) \/ Timeout(w)
         PROVE  Queues'
    BY <1>33 DEF Evaluate, Block, Timeout, Moves, Goto
  <1>34. CASE UNCHANGED vars
    BY <1>34 DEF vars
  <1> QED BY <1>1, <1>2, <1>3, <1>4, <1>5, <1>6, <1>7, <1>8, <1>9, <1>10, <1>11, <1>12,
            <1>13, <1>14, <1>15, <1>16, <1>17, <1>18, <1>19, <1>20, <1>21, <1>22, <1>23, <1>24,
            <1>25, <1>26, <1>27, <1>28, <1>29, <1>30, <1>31, <1>32, <1>33, <1>34
         DEF Next, fss_reconnector, heartbeat_loop, smm_worker, fss_worker, run, destructors, Waits

LEMMA FlushedKept == ASSUME IInv, [Next]_vars PROVE Flushed'
  <1> USE DEF IInv, flagVars, mavVars, ghostVars
  <1> USE DEF Flushed, Labels, Queues, Finished, Woken, Threads, Waiters, Waiting, LoopLeft, ReconnectorJoined, SignalJoined, SmmGone, HeartbeatJoined, MavGone, FssStopping, FssJoined, AppGone, Components
  <1>1. CASE RecvCommand
    <2>1. PICK c \in Commands : enqueue_event(c) /\ early' = IF running THEN early \cup {c} ELSE early
      BY <1>1 DEF RecvCommand
    <2>2. InQueue(event_queue') = InQueue(event_queue) \cup {c}
      BY <2>1, Raised DEF Events
    <2>3. pc'["fss"] = pc["fss"] /\ (pc'["main"] = pc["main"] \/ (pc["main"] = "blocked" /\ pc'["main"] = "lock"))
      BY <1>1, MainWoken DEF RecvCommand
    <2>4. UNCHANGED <<stopping, task_queue, sent>>
      BY <1>1 DEF RecvCommand
    <2> QED BY <2>1, <2>2, <2>3, <2>4 DEF Joined
  <1>2. CASE RecvPosition
    <2>1. InQueue(event_queue) \subseteq InQueue(event_queue')
      BY <1>2, Raised DEF RecvPosition, Raises, Events
    <2>2. pc'["fss"] = pc["fss"] /\ (pc'["main"] = pc["main"] \/ (pc["main"] = "blocked" /\ pc'["main"] = "lock"))
      BY <1>2, MainWoken DEF RecvPosition, Raises, Goto
    <2> QED BY <1>2, <2>1, <2>2 DEF RecvPosition
  <1>3. CASE RecvEnds
    BY <1>3 DEF RecvEnds, Goto
  <1>4. CASE StoreRunning
    BY <1>4 DEF StoreRunning
  <1>5. CASE TouchReconnectLock
    BY <1>5 DEF TouchReconnectLock
  <1>6. CASE SoundPass
    <2>1. Dialling /\ task_queue'["fss"] = task_queue["fss"]
      BY <1>6, DialsAndRetries, RetryPosted DEF SoundPass
    <2> QED BY <2>1 DEF Dialling
  <1>7. CASE RetireSocket
    BY <1>7 DEF RetireSocket, Goto
  <1>8. CASE ReconnectorJoins
    BY <1>8 DEF ReconnectorJoins, RecvEnded, RecvJoinable
  <1>9. CASE ReconnectorDials
    <2>1. Dialling /\ task_queue'["fss"] = task_queue["fss"]
      BY <1>9, DialsAndRetries, RetryPosted DEF ReconnectorDials
    <2> QED BY <2>1 DEF Dialling
  <1>10. CASE Wakes("reconnector")
    BY <1>10 DEF Wakes, Moves, Goto
  <1>11. CASE PartingNudge
    <2>1. InQueue(event_queue) \subseteq InQueue(event_queue')
      BY <1>11, Raised DEF PartingNudge, Events
    <2>2. pc'["fss"] = pc["fss"] /\ (pc'["main"] = pc["main"] \/ (pc["main"] = "blocked" /\ pc'["main"] = "lock"))
      BY <1>11, MainWoken DEF PartingNudge, Goto
    <2> QED BY <1>11, <2>1, <2>2 DEF PartingNudge
  <1>12. CASE HeartbeatPass
    <2>1. InQueue(event_queue) \subseteq InQueue(event_queue')
      BY <1>12, Raised DEF HeartbeatPass, Raises, RaisesNone, Events
    <2>2. pc'["fss"] = pc["fss"] /\ (pc'["main"] = pc["main"] \/ (pc["main"] = "blocked" /\ pc'["main"] = "lock"))
      BY <1>12, MainWoken DEF HeartbeatPass, Raises, RaisesNone, Goto
    <2> QED BY <1>12, <2>1, <2>2 DEF HeartbeatPass
  <1>13. CASE HeartbeatEnds
    BY <1>13 DEF HeartbeatEnds, Moves, Goto
  <1>14. CASE Wakes("heartbeat")
    BY <1>14 DEF Wakes, Moves, Goto
  <1>15. CASE SmmWork
    <2>1. InQueue(event_queue) \subseteq InQueue(event_queue')
      BY <1>15, Raised DEF SmmWork, Raises, RaisesNone, Events
    <2>2. pc'["fss"] = pc["fss"] /\ (pc'["main"] = pc["main"] \/ (pc["main"] = "blocked" /\ pc'["main"] = "lock"))
      BY <1>15, MainWoken DEF SmmWork, Raises, RaisesNone, Goto
    <2>3. task_queue'["fss"] = task_queue["fss"]
      BY <1>15, TaskTaken DEF SmmWork
    <2> QED BY <1>15, <2>1, <2>2, <2>3 DEF SmmWork
  <1>16. CASE WorkerEnds("smm")
    BY <1>16 DEF WorkerEnds, Goto
  <1>17. CASE FssWork
    <2>1. InQueue(task_queue["fss"]) \subseteq InQueue(task_queue'["fss"]) \cup {Head(task_queue["fss"])}
      BY <1>17, TaskTaken DEF FssWork
    <2>2. early \cap InQueue(task_queue["fss"]) \subseteq InQueue(task_queue'["fss"]) \cup sent'
      BY <1>17, <2>1 DEF FssWork
    <2> QED BY <1>17, <2>2 DEF FssWork
  <1>18. CASE WorkerEnds("fss")
    BY <1>18 DEF WorkerEnds, Goto
  <1>19. CASE Start
    BY <1>19 DEF Start, connect_to_mav
  <1>20. CASE Dispatch
    <2>1. /\ \A c \in Commands : c \in InQueue(task_queue["fss"]) => c \in InQueue(task_queue'["fss"])
          /\ Head(event_queue) \in Commands => Head(event_queue) \in InQueue(task_queue'["fss"])
      BY <1>20, EventPosted DEF Posted
    <2>2. InQueue(event_queue) \subseteq InQueue(event_queue') \cup {Head(event_queue)}
      BY <1>20, FrontTaken DEF Dispatch
    <2>3. early' \subseteq InQueue(event_queue') \cup InQueue(task_queue'["fss"]) \cup sent'
      BY <1>20, <2>1, <2>2 DEF Dispatch
    <2>4. pc["main"] = "lock" /\ pc'["main"] = "lock" /\ UNCHANGED stopping
      BY <1>20 DEF Dispatch
    <2>5. "fss" \notin stopping /\ pc'["fss"] # "done"
      BY <1>20, <2>4 DEF Dispatch
    <2> QED BY <2>3, <2>4, <2>5
  <1>21. CASE LoopEnds
    <2>1. InQueue(event_queue) = {}
      BY <1>21 DEF LoopEnds, InQueue
    <2> QED BY <1>21, <2>1 DEF LoopEnds, Moves, Goto
  <1>22. CASE JoinReconnector
    BY <1>22 DEF JoinReconnector, Moves, Goto
  <1>23. CASE JoinSignalAndDrain
    BY <1>23 DEF JoinSignalAndDrain, Goto
  <1>24. CASE Stop("smm", "stop_smm", "join_smm")
    BY <1>24 DEF Stop
  <1>25. CASE DestroySmm
    BY <1>25 DEF DestroySmm, Destroy, Goto
  <1>26. CASE Stop("heartbeat", "stop_heartbeat", "join_heartbeat")
    BY <1>26 DEF Stop
  <1>27. CASE ShutMav
    BY <1>27 DEF ShutMav, Goto
  <1>28. CASE DestroyMav
    BY <1>28 DEF DestroyMav, Destroy, RecvEnded, RecvJoinable, Goto
  <1>29. CASE Stop("fss", "stop_fss", "join_fss")
    BY <1>29 DEF Stop
  <1>30. CASE DestroyFss
    BY <1>30 DEF DestroyFss, Destroy, Goto
  <1>31. CASE DestroyApp
    BY <1>31 DEF DestroyApp, Destroy, Goto
  <1>32. CASE Exited
    BY <1>32 DEF Exited, vars
  <1>33. ASSUME NEW w \in Waiters, Evaluate(w) \/ Block(w) \/ Timeout(w)
         PROVE  Flushed'
    BY <1>33 DEF Evaluate, Block, Timeout, Moves, Goto
  <1>34. CASE UNCHANGED vars
    BY <1>34 DEF vars
  <1> QED BY <1>1, <1>2, <1>3, <1>4, <1>5, <1>6, <1>7, <1>8, <1>9, <1>10, <1>11, <1>12,
            <1>13, <1>14, <1>15, <1>16, <1>17, <1>18, <1>19, <1>20, <1>21, <1>22, <1>23, <1>24,
            <1>25, <1>26, <1>27, <1>28, <1>29, <1>30, <1>31, <1>32, <1>33, <1>34
         DEF Next, fss_reconnector, heartbeat_loop, smm_worker, fss_worker, run, destructors, Waits

LEMMA BoundsKept == ASSUME IInv, [Next]_vars PROVE Bounds'
  <1> USE DEF IInv, flagVars, mavVars, ghostVars
  <1> USE DEF Bounds, Queues, Labels, Finished, Woken, Threads, Waiters, Waiting
  <1>same. ASSUME UNCHANGED <<inputs, event_queue, task_queue>>, Finished("reconnector")' = Finished("reconnector"),
                  stopping' \subseteq Waiters
           PROVE  Bounds'
    BY <1>same DEF EventBound
  <1>1. CASE RecvCommand
    <2>1. PICK c \in Commands \ InQueue(event_queue) : enqueue_event(c)
      BY <1>1 DEF RecvCommand, CommandsSeen, InQueue
    <2>2. pc'["reconnector"] = pc["reconnector"] /\ UNCHANGED <<stopping, inputs, task_queue>>
      BY <1>1 DEF RecvCommand
    <2>3. EventBound'
      BY <2>1, <2>2, CommandFits
    <2> QED BY <2>2, <2>3
  <1>2. CASE RecvPosition
    <2>1. pc'["reconnector"] = pc["reconnector"] /\ UNCHANGED stopping
      BY <1>2 DEF RecvPosition, Raises
    <2>2. inputs' \in 0 .. MaxInputs /\ EventBound'
      BY <1>2, <2>1, OtherFits, ShutdownAssumption DEF RecvPosition, Raises, Events, EventBound
    <2> QED BY <1>2, <2>1, <2>2 DEF RecvPosition
  <1>3. CASE RecvEnds
    BY <1>3, <1>same DEF RecvEnds, Goto
  <1>4. CASE StoreRunning
    BY <1>4, <1>same DEF StoreRunning
  <1>5. CASE TouchReconnectLock
    BY <1>5, <1>same DEF TouchReconnectLock
  <1>6. CASE SoundPass
    <2>1. /\ Dialling /\ pc["reconnector"] # "done"
          /\ \A w \in {"smm", "fss"} : Single(task_queue'[w])
      BY <1>6, DialsAndRetries, RetryPosted DEF SoundPass, Posted
    <2>2. EventBound'
      BY <2>1 DEF Dialling, EventBound
    <2> QED BY <2>1, <2>2 DEF Dialling
  <1>7. CASE RetireSocket
    BY <1>7, <1>same DEF RetireSocket, Goto
  <1>8. CASE ReconnectorJoins
    BY <1>8, <1>same DEF ReconnectorJoins, RecvEnded, RecvJoinable
  <1>9. CASE ReconnectorDials
    <2>1. /\ Dialling /\ pc["reconnector"] # "done"
          /\ \A w \in {"smm", "fss"} : Single(task_queue'[w])
      BY <1>9, DialsAndRetries, RetryPosted DEF ReconnectorDials, Posted
    <2>2. EventBound'
      BY <2>1 DEF Dialling, EventBound
    <2> QED BY <2>1, <2>2 DEF Dialling
  <1>10. CASE Wakes("reconnector")
    BY <1>10, <1>same DEF Wakes, Moves, Goto
  <1>11. CASE PartingNudge
    <2>1. /\ pc["reconnector"] # "done" /\ pc'["reconnector"] = "done" /\ enqueue_event("nudge")
          /\ UNCHANGED <<stopping, inputs, task_queue>>
      BY <1>11 DEF PartingNudge
    <2>2. EventBound'
      BY <2>1, OtherFits DEF Events, Finished
    <2> QED BY <2>1, <2>2
  <1>12. CASE HeartbeatPass
    <2>1. pc'["reconnector"] = pc["reconnector"] /\ UNCHANGED stopping
      BY <1>12 DEF HeartbeatPass, Raises, RaisesNone, Goto
    <2>2. inputs' \in 0 .. MaxInputs /\ EventBound'
      BY <1>12, <2>1, OtherFits, ShutdownAssumption DEF HeartbeatPass, Raises, RaisesNone, Goto, Events, EventBound
    <2> QED BY <1>12, <2>1, <2>2 DEF HeartbeatPass
  <1>13. CASE HeartbeatEnds
    BY <1>13, <1>same DEF HeartbeatEnds, Moves, Goto
  <1>14. CASE Wakes("heartbeat")
    BY <1>14, <1>same DEF Wakes, Moves, Goto
  <1>15. CASE SmmWork
    <2>1. pc'["reconnector"] = pc["reconnector"] /\ UNCHANGED stopping
      BY <1>15 DEF SmmWork, Raises, RaisesNone, Goto
    <2>2. inputs' \in 0 .. MaxInputs /\ EventBound'
      BY <1>15, <2>1, OtherFits, ShutdownAssumption DEF SmmWork, Raises, RaisesNone, Goto, Events, EventBound
    <2>3. \A w \in {"smm", "fss"} : Single(task_queue'[w])
      BY <1>15, TaskTaken DEF SmmWork
    <2> QED BY <2>1, <2>2, <2>3
  <1>16. CASE WorkerEnds("smm")
    BY <1>16, <1>same DEF WorkerEnds, Goto
  <1>17. CASE FssWork
    <2>1. \A w \in {"smm", "fss"} : Single(task_queue'[w])
      BY <1>17, TaskTaken DEF FssWork
    <2>2. EventBound'
      BY <1>17 DEF FssWork, EventBound
    <2> QED BY <1>17, <2>1, <2>2 DEF FssWork
  <1>18. CASE WorkerEnds("fss")
    BY <1>18, <1>same DEF WorkerEnds, Goto
  <1>19. CASE Start
    <2>1. pc["reconnector"] = "none" /\ pc'["reconnector"] = "top" /\ UNCHANGED event_queue /\ UNCHANGED inputs
      BY <1>19 DEF Start, connect_to_mav, Joined
    <2>2. EventBound'
      BY <2>1 DEF EventBound
    <2> QED BY <1>19, <2>2 DEF Start
  <1>20. CASE Dispatch
    <2>1. \A w \in {"smm", "fss"} : Single(task_queue'[w])
      BY <1>20, EventPosted DEF Posted
    <2>2. pc'["reconnector"] = pc["reconnector"] /\ UNCHANGED <<stopping, inputs>>
      BY <1>20 DEF Dispatch
    <2>3. EventBound'
      BY <1>20, <2>2, TakenFits DEF Dispatch
    <2> QED BY <2>1, <2>2, <2>3
  <1>21. CASE LoopEnds
    BY <1>21, <1>same DEF LoopEnds, Moves, Goto
  <1>22. CASE JoinReconnector
    BY <1>22, <1>same DEF JoinReconnector, Moves, Goto
  <1>23. CASE JoinSignalAndDrain
    <2>1. EventBound'
      BY <1>23, EmptyFits DEF JoinSignalAndDrain
    <2> QED BY <1>23, <2>1 DEF JoinSignalAndDrain
  <1>24. CASE Stop("smm", "stop_smm", "join_smm")
    BY <1>24, <1>same DEF Stop
  <1>25. CASE DestroySmm
    BY <1>25, <1>same DEF DestroySmm, Destroy, Goto
  <1>26. CASE Stop("heartbeat", "stop_heartbeat", "join_heartbeat")
    BY <1>26, <1>same DEF Stop
  <1>27. CASE ShutMav
    BY <1>27, <1>same DEF ShutMav, Goto
  <1>28. CASE DestroyMav
    BY <1>28, <1>same DEF DestroyMav, Destroy, RecvEnded, RecvJoinable, Goto
  <1>29. CASE Stop("fss", "stop_fss", "join_fss")
    BY <1>29, <1>same DEF Stop
  <1>30. CASE DestroyFss
    BY <1>30, <1>same DEF DestroyFss, Destroy, Goto
  <1>31. CASE DestroyApp
    BY <1>31, <1>same DEF DestroyApp, Destroy, Goto
  <1>32. CASE Exited
    BY <1>32, <1>same DEF Exited, vars
  <1>33. ASSUME NEW w \in Waiters, Evaluate(w) \/ Block(w) \/ Timeout(w)
         PROVE  Bounds'
    BY <1>33, <1>same DEF Evaluate, Block, Timeout, Moves, Goto
  <1>34. CASE UNCHANGED vars
    BY <1>34, <1>same DEF vars
  <1> QED BY <1>1, <1>2, <1>3, <1>4, <1>5, <1>6, <1>7, <1>8, <1>9, <1>10, <1>11, <1>12,
            <1>13, <1>14, <1>15, <1>16, <1>17, <1>18, <1>19, <1>20, <1>21, <1>22, <1>23, <1>24,
            <1>25, <1>26, <1>27, <1>28, <1>29, <1>30, <1>31, <1>32, <1>33, <1>34
         DEF Next, fss_reconnector, heartbeat_loop, smm_worker, fss_worker, run, destructors, Waits

-----------------------------------------------------------------------------
(* The theorems.                                                           *)

LEMMA InitInv == Init => IInv
  <1> SUFFICES ASSUME Init PROVE IInv
    OBVIOUS
  <1>1. Labels /\ Joined /\ Dialled
    BY DEF Init, Labels, Joined, Dialled, Finished, Threads, Waiters, Waiting, Components, LoopLeft,
           ReconnectorJoined, SignalJoined, SmmGone, HeartbeatJoined, MavGone, FssStopping, FssJoined, AppGone
  <1>2. Queues
    <2>1. <<>> \in Seq(Events) /\ <<>> \in Seq(Tasks)
      OBVIOUS
    <2>2. task_queue \in [{"smm", "fss"} -> Seq(Tasks)]
      BY <2>1 DEF Init
    <2> QED BY <2>1, <2>2 DEF Init, Queues
  <1>3. Flushed
    BY DEF Init, Flushed, Finished, Threads, Waiters, LoopLeft, ReconnectorJoined, SignalJoined, SmmGone,
           HeartbeatJoined, MavGone, FssStopping, FssJoined, AppGone
  <1>4. Bounds
    <2>1. Load(InQueue(event_queue)) \in Nat
      BY Loads
    <2>2. EventBound
      BY <2>1 DEF Init, EventBound
    <2>3. \A w \in {"smm", "fss"} : Single(task_queue[w])
      BY DEF Init, Single
    <2> QED BY <2>2, <2>3, ShutdownAssumption DEF Init, Bounds
  <1> QED BY <1>1, <1>2, <1>3, <1>4 DEF IInv

\* From any state run() and the threads it starts can reach, a step leads to
\* one: main's progress, the threads it joined, the socket, the queues and the
\* acks under way stay consistent with each other until the process exits.
THEOREM ShutdownConsistent == Spec => []IInv
  <1>1. IInv /\ [Next]_vars => IInv'
    BY LabelsKept, JoinedKept, DialledKept, QueuesKept, FlushedKept, BoundsKept DEF IInv
  <1> QED BY <1>1, InitInv, PTL DEF Spec

\* However slow a worker and however many positions and retries are raised, the
\* queue FSS::enqueue or SMM::enqueue fills holds at most one of each, and
\* App::event_queue at most what its producers raised.
THEOREM QueuesBounded == Spec => []TypeOK
  <1>1. IInv => TypeOK
    <2> SUFFICES ASSUME IInv PROVE TypeOK
      OBVIOUS
    <2>1. ASSUME NEW w \in {"smm", "fss"}, NEW kind \in {"position", "retry"}
          PROVE  Cardinality({i \in DOMAIN task_queue[w] : task_queue[w][i] = kind}) <= 1
      <3> DEFINE S == {i \in DOMAIN task_queue[w] : task_queue[w][i] = kind}
      <3>1. \A i, j \in S : i = j
        BY DEF IInv, Bounds, Single
      <3>2. CASE S = {}
        BY <3>2, FS_EmptySet
      <3>3. ASSUME NEW i \in S PROVE Cardinality(S) <= 1
        <4>1. S = {i}
          BY <3>1, <3>3
        <4> QED BY <4>1, FS_Singleton
      <3> QED BY <3>2, <3>3
    <2>2. Len(event_queue) <= MaxInputs + Cardinality(Commands) + 1
      <3>1. /\ Load(InQueue(event_queue)) \in Nat /\ Load(InQueue(event_queue)) <= Cardinality(Commands)
            /\ Cardinality(Commands) \in Nat
        BY Loads
      <3>2. Len(event_queue) \in Nat
        BY DEF IInv, Queues
      <3> QED BY <3>1, <3>2, ShutdownAssumption DEF IInv, Bounds, EventBound
    <2>3. alive \subseteq Components
      BY DEF IInv, Joined
    <2> QED BY <2>1, <2>2, <2>3 DEF TypeOK, IInv, Labels, Queues, Bounds
  <1> QED BY <1>1, ShutdownConsistent, PTL

\* ~App and run() join a thread before they destroy anything it may still
\* call into: the SMM worker before the MAV, the heartbeat and recv threads
\* before the event queue, the reconnector before all three components.
THEOREM NoThreadOutlives == Spec => []ThreadsOutlived
  <1>1. IInv => ThreadsOutlived
    <2> USE DEF IInv, Labels, Joined, Needs, Finished, Threads, Waiters, Waiting, Components, LoopLeft,
                ReconnectorJoined, SignalJoined, SmmGone, HeartbeatJoined, MavGone, FssStopping, FssJoined, AppGone
    <2> SUFFICES ASSUME IInv, NEW t \in Threads \ {"main"}, pc[t] # "none", ~Finished(t)
                 PROVE  Needs(t) \subseteq alive
      BY DEF ThreadsOutlived
    <2>1. CASE t = "smm"
      BY <2>1
    <2>2. CASE t = "heartbeat"
      BY <2>2
    <2>3. CASE t = "mav_recv"
      BY <2>3
    <2>4. CASE t = "fss"
      BY <2>4
    <2>5. CASE t = "signal"
      BY <2>5
    <2>6. CASE t = "reconnector"
      BY <2>6
    <2> QED BY <2>1, <2>2, <2>3, <2>4, <2>5, <2>6
  <1> QED BY <1>1, ShutdownConsistent, PTL

\* An FSS command queued before the signal handler cleared running has its ack
\* sent before ~FSS returns, and ~FSS leaves no task behind.
THEOREM NoAckLost == Spec => []AcksFlushed
  <1>1. IInv => AcksFlushed
    <2> SUFFICES ASSUME IInv, "fss" \notin alive PROVE early \subseteq sent /\ task_queue["fss"] = <<>>
      BY DEF AcksFlushed
    <2>1. pc["main"] \in FssJoined
      BY DEF IInv, Joined, Components
    <2>2. Finished("fss") /\ pc["main"] \in LoopLeft
      BY <2>1 DEF IInv, Joined, LoopLeft, ReconnectorJoined, SignalJoined, SmmGone, HeartbeatJoined, MavGone,
                  FssStopping
    <2>3. task_queue["fss"] = <<>> /\ InQueue(task_queue["fss"]) = {}
      BY <2>2 DEF IInv, Flushed, InQueue
    <2> QED BY <2>2, <2>3 DEF IInv, Flushed
  <1> QED BY <1>1, ShutdownConsistent, PTL

\* connect_to_mav starts a recv thread only where no thread is left to join, in
\* start() and in attemptReconnect alike.
THEOREM NeverDialsOver == Spec => DialsJoined
  <1>1. IInv /\ [Next]_vars => [~fd_open /\ fd_open' => ~RecvJoinable]_vars
    <2> SUFFICES ASSUME IInv, Next, ~fd_open, fd_open' PROVE pc["mav_recv"] = "none"
      BY DEF RecvJoinable
    <2>1. SoundPass \/ ReconnectorDials \/ Start
      BY DEF Next, RecvCommand, RecvPosition, RecvEnds, StoreRunning, TouchReconnectLock, fss_reconnector,
             RetireSocket, ReconnectorJoins, Wakes, Moves, PartingNudge, heartbeat_loop, HeartbeatPass,
             HeartbeatEnds, smm_worker, SmmWork, WorkerEnds, fss_worker, FssWork, run, Dispatch, LoopEnds,
             JoinReconnector, JoinSignalAndDrain, destructors, Stop, DestroySmm, ShutMav, DestroyMav,
             DestroyFss, DestroyApp, Destroy, Exited, vars, Waits, Evaluate, Block, Timeout, mavVars
    <2> QED BY <2>1 DEF SoundPass, ReconnectorDials, Start, IInv, Dialled, Waiting
  <1> QED BY <1>1, ShutdownConsistent, PTL DEF Spec, DialsJoined
=============================================================================
