------------------------------ MODULE Shutdown ------------------------------
(***************************************************************************)
(* The threads of the process and how they stop (src/src/main.cpp, with    *)
(* the workers of fss/fss.cpp, smm/smm.cpp and mav/mavlink.cpp).           *)
(*                                                                         *)
(* Five threads wait on a condition variable of their own, with a          *)
(* predicate that reads a queue or a shutdown flag.  A waiter at "check"   *)
(* has found its predicate false and still holds its mutex; at "blocked"   *)
(* it has released it and only a notify, or its timeout, moves it.  Every  *)
(* other critical section is one step, the notify that follows it          *)
(* included, so a mutex is held exactly at "check".  Taking an event or a  *)
(* task off a queue is one step with its handling, which runs unlocked and *)
(* commutes with whatever other threads do in between.                     *)
(*                                                                         *)
(* The outcomes of SMM work and the comms edges are one kind of event, and *)
(* the log writer, which outlives App, has the module Logger.              *)
(***************************************************************************)
EXTENDS Naturals, Sequences, FiniteSets, TaskQueue

CONSTANTS
  Commands,   \* FSS commands that may arrive, each with an ack to be sent
  MaxInputs   \* bound on the other events the producers raise

ASSUME ShutdownAssumption ==
  /\ MaxInputs \in Nat /\ IsFiniteSet(Commands)
  /\ {"position", "report", "nudge", "search", "retry"} \cap Commands = {}

Waiters    == {"main", "reconnector", "heartbeat", "smm", "fss"}
Threads    == Waiters \cup {"signal", "mav_recv"}
Components == {"smm", "mav", "fss", "app"}

VARIABLES
  pc,           \* where each thread is
  running,      \* App::running
  stopping,     \* waiters whose own shutdown flag is set
  event_queue,  \* App::event_queue
  task_queue,   \* of the SMM worker and of the FSS send worker
  fd_open, broken,  \* mav_connection
  alive,        \* components not yet destroyed
  inputs,       \* bound: events raised so far, commands apart
  early,        \* history: commands queued before running was cleared
  sent          \* history: commands whose ack was sent

flagVars  == <<running, stopping>>
mavVars   == <<fd_open, broken>>
ghostVars == <<inputs, early, sent>>
vars == <<pc, flagVars, event_queue, task_queue, mavVars, alive, ghostVars>>

Finished(t)  == pc[t] = "done"
MutexFree(w) == pc[w] # "check"
Goto(t, label) == pc' = [pc EXCEPT ![t] = label]

\* The program counters once t is at label and the waiters ws are notified: one
\* that is blocked takes its mutex again and looks again.
Woken(t, label, ws) ==
  [x \in Threads |-> CASE x = t -> label
                       [] x # t /\ x \in ws /\ pc[x] = "blocked" -> "lock"
                       [] OTHER -> pc[x]]

\* A step of control only.
Moves(t, from, to) ==
  /\ pc[t] = from /\ Goto(t, to)
  /\ UNCHANGED <<flagVars, event_queue, task_queue, mavVars, alive, ghostVars>>

\* The constructors have started the workers of SMM and FSS; run() has
\* registered the callbacks and started the signal thread.
Init ==
  /\ pc = [t \in Threads |-> CASE t = "main" -> "start"
                               [] t \in {"smm", "fss"} -> "lock"
                               [] t = "signal" -> "wait"
                               [] OTHER -> "none"]
  /\ running = TRUE /\ stopping = {}
  /\ event_queue = <<>>
  /\ task_queue = [w \in {"smm", "fss"} |-> <<>>]
  /\ fd_open = FALSE /\ broken = FALSE
  /\ alive = Components
  /\ inputs = 0 /\ early = {} /\ sent = {}

-----------------------------------------------------------------------------
(* Condition variables.                                                    *)

\* The predicate each waiter passes to wait() or wait_for().
Predicate(w) ==
  CASE w = "main"        -> event_queue # <<>> \/ ~running
    [] w = "reconnector" -> ~running
    [] w = "heartbeat"   -> w \in stopping
    [] OTHER             -> task_queue[w] # <<>> \/ w \in stopping

\* The predicate is false: the waiter is about to block, and does.
Evaluate(w) == ~Predicate(w) /\ Moves(w, "lock", "check")
Block(w) == Moves(w, "check", "blocked")

\* On the two waits that have a timeout: it expires, or the predicate holds.
Timeout(w) == w \in {"reconnector", "heartbeat"} /\ Moves(w, "blocked", "top")
Wakes(w) == Predicate(w) /\ Moves(w, "lock", "top")

enqueue_event(event) ==
  /\ MutexFree("main")
  /\ event_queue' = Append(event_queue, event)

\* Thread t raises one more event, on its way to label.
Raises(t, label, event) ==
  /\ inputs < MaxInputs
  /\ inputs' = inputs + 1
  /\ enqueue_event(event)
  /\ pc' = Woken(t, label, {"main"})

RaisesNone(t, label) == Goto(t, label) /\ UNCHANGED <<inputs, event_queue>>

-----------------------------------------------------------------------------
(* The recv threads.  The FSS library's run until the FSS is destroyed.    *)

CommandsSeen == {event_queue[i] : i \in DOMAIN event_queue} \cup early
                  \cup {task_queue["fss"][i] : i \in DOMAIN task_queue["fss"]} \cup sent

RecvCommand ==
  /\ "fss" \in alive
  /\ \E c \in Commands \ CommandsSeen :
       /\ enqueue_event(c)
       /\ early' = IF running THEN early \cup {c} ELSE early
  /\ pc' = Woken("none", "none", {"main"})
  /\ UNCHANGED <<flagVars, task_queue, mavVars, alive, inputs, sent>>

RecvPosition ==
  /\ pc["mav_recv"] = "run"
  /\ Raises("mav_recv", "run", "position")
  /\ UNCHANGED <<flagVars, task_queue, mavVars, alive, early, sent>>

\* processMessages leaves its loop: the socket was shut down, or it failed.
RecvEnds ==
  /\ pc["mav_recv"] = "run"
  /\ broken' = TRUE
  /\ Goto("mav_recv", "done")
  /\ UNCHANGED <<flagVars, event_queue, task_queue, fd_open, alive, ghostVars>>

-----------------------------------------------------------------------------
(* signal_waiter.                                                          *)

\* sigwait returns, on SIGINT or SIGTERM: running is cleared under the event
\* loop's mutex, which is then notified.
StoreRunning ==
  /\ pc["signal"] = "wait" /\ MutexFree("main")
  /\ running' = FALSE
  /\ pc' = Woken("signal", "touch", {"main"})
  /\ UNCHANGED <<stopping, event_queue, task_queue, mavVars, alive, ghostVars>>

\* MUTANT: the reconnector is notified without touching its mutex.
NotifyUntouched ==
  /\ pc["signal"] = "touch"
  /\ pc' = Woken("signal", "done", {"reconnector"})
  /\ UNCHANGED <<flagVars, event_queue, task_queue, mavVars, alive, ghostVars>>

\* reconnect_lock is taken and released, so the reconnector is not between its
\* predicate and its block, and the reconnector is notified.
TouchReconnectLock ==
  /\ pc["signal"] = "touch" /\ MutexFree("reconnector")
  /\ pc' = Woken("signal", "done", {"reconnector"})
  /\ UNCHANGED <<flagVars, event_queue, task_queue, mavVars, alive, ghostVars>>

-----------------------------------------------------------------------------
(* fss_reconnector.                                                        *)

\* MUTANT: tasks pile up behind a slow call.
EnqueueEach(queue, new) == Append(queue, new)

\* What FSS::enqueue and SMM::enqueue make of a task: a newer position
\* replaces a queued one, and one retry is queued at a time.
Enqueue(queue, new) ==
  CASE new = "position" -> Append(Without(queue, new), new)
    [] new = "retry" /\ \E i \in DOMAIN queue : queue[i] = new -> queue
    [] OTHER -> Append(queue, new)

\* connect_to_mav: a socket and its recv thread, or no address answers.
connect_to_mav(moved) ==
  \/ /\ ~fd_open /\ fd_open' = TRUE /\ broken' = FALSE
     /\ pc' = [moved EXCEPT !["mav_recv"] = "run"]
  \/ pc' = moved /\ UNCHANGED mavVars

\* The rest of a pass: a dial unless the socket is open or the backoff is not
\* over, then retryPendingSearch, which queues a retry when one is due.
DialAndRetry ==
  /\ \/ /\ connect_to_mav([pc EXCEPT !["reconnector"] = "lock"])
        /\ UNCHANGED task_queue
     \/ /\ MutexFree("smm")
        /\ connect_to_mav(Woken("reconnector", "lock", {"smm"}))
        /\ task_queue' = [task_queue EXCEPT !["smm"] = Enqueue(@, "retry")]
  /\ UNCHANGED <<flagVars, event_queue, alive, ghostVars>>

\* A pass of a sound socket, or none.  reconnectAll leaves its work to the
\* library.
SoundPass == running /\ pc["reconnector"] = "top" /\ ~broken /\ DialAndRetry

\* MUTANT: the retired socket's recv thread is left to end by itself.
RetireUnjoined ==
  /\ running /\ pc["reconnector"] = "top" /\ broken
  /\ fd_open' = FALSE
  /\ Goto("reconnector", "dial")
  /\ UNCHANGED <<flagVars, event_queue, task_queue, broken, alive, ghostVars>>

\* A pass of a broken socket: attemptReconnect shuts it down, which ends its
\* recv thread.
RetireSocket ==
  /\ running /\ pc["reconnector"] = "top" /\ broken
  /\ fd_open' = FALSE
  /\ Goto("reconnector", "join_recv")
  /\ UNCHANGED <<flagVars, event_queue, task_queue, broken, alive, ghostVars>>

\* recv_thread.join() returns: no thread was started, or it has ended.
RecvJoinable == pc["mav_recv"] # "none"
RecvEnded == RecvJoinable => Finished("mav_recv")

ReconnectorJoins ==
  /\ pc["reconnector"] = "join_recv" /\ RecvEnded
  /\ pc' = [pc EXCEPT !["reconnector"] = "dial", !["mav_recv"] = "none"]
  /\ broken' = FALSE
  /\ UNCHANGED <<flagVars, event_queue, task_queue, fd_open, alive, ghostVars>>

ReconnectorDials == pc["reconnector"] = "dial" /\ DialAndRetry

\* running was cleared: the thread ends, with a parting Nudge.
PartingNudge ==
  /\ ~running /\ pc["reconnector"] = "top"
  /\ enqueue_event("nudge")
  /\ pc' = Woken("reconnector", "done", {"main"})
  /\ UNCHANGED <<flagVars, task_queue, mavVars, alive, ghostVars>>

fss_reconnector ==
  \/ SoundPass \/ RetireSocket \/ ReconnectorJoins \/ ReconnectorDials
  \/ Wakes("reconnector") \/ PartingNudge

-----------------------------------------------------------------------------
(* heartbeat_loop.                                                         *)

HeartbeatEnds == "heartbeat" \in stopping /\ Moves("heartbeat", "top", "done")

\* One pass: a comms edge may be reported, a silent socket flagged.
HeartbeatPass ==
  /\ "heartbeat" \notin stopping /\ pc["heartbeat"] = "top"
  /\ \/ Raises("heartbeat", "lock", "report")
     \/ RaisesNone("heartbeat", "lock")
  /\ broken' \in {broken, broken \/ fd_open}
  /\ UNCHANGED <<flagVars, task_queue, fd_open, alive, early, sent>>

heartbeat_loop == HeartbeatPass \/ HeartbeatEnds \/ Wakes("heartbeat")

-----------------------------------------------------------------------------
(* The workers of SMM and FSS: the queue is drained even when stopping.    *)

\* MUTANT: a stopping worker leaves its queue.
EndStopping(w) ==
  /\ pc[w] = "lock" /\ w \in stopping
  /\ Goto(w, "done")
  /\ UNCHANGED <<flagVars, event_queue, task_queue, mavVars, alive, ghostVars>>

WorkerEnds(w) ==
  /\ pc[w] = "lock" /\ w \in stopping /\ task_queue[w] = <<>>
  /\ Goto(w, "done")
  /\ UNCHANGED <<flagVars, event_queue, task_queue, mavVars, alive, ghostVars>>

\* The next task and its blocking SMM calls, whose outcome may be an event.
SmmWork ==
  /\ pc["smm"] = "lock" /\ task_queue["smm"] # <<>>
  /\ \/ Raises("smm", "lock", "report")
     \/ RaisesNone("smm", "lock")
  /\ task_queue' = [task_queue EXCEPT !["smm"] = Tail(@)]
  /\ UNCHANGED <<flagVars, mavVars, alive, early, sent>>

\* The next task and its blocking send.
FssWork ==
  /\ pc["fss"] = "lock" /\ task_queue["fss"] # <<>>
  /\ sent' = sent \cup ({Head(task_queue["fss"])} \cap Commands)
  /\ task_queue' = [task_queue EXCEPT !["fss"] = Tail(@)]
  /\ UNCHANGED <<pc, flagVars, event_queue, mavVars, alive, inputs, early>>

smm_worker == SmmWork \/ WorkerEnds("smm")
fss_worker == FssWork \/ WorkerEnds("fss")

-----------------------------------------------------------------------------
(* run().                                                                  *)

\* mav->start() dials once and starts the heartbeat thread; then the
\* reconnector is started.
Start ==
  /\ pc["main"] = "start"
  /\ connect_to_mav([pc EXCEPT !["main"] = "lock", !["heartbeat"] = "top", !["reconnector"] = "top"])
  /\ UNCHANGED <<flagVars, event_queue, task_queue, alive, ghostVars>>

\* The tasks an event's handler queues.  Entering the searching state, on a
\* command or on a report, queues a search.
Handlers(event) ==
  CASE event \in Commands -> {[fss |-> <<event>>, smm |-> s] : s \in {<<>>, <<"search">>}}
    [] event = "position" -> {[fss |-> <<event>>, smm |-> <<event>>]}
    [] event = "report"   -> {[fss |-> <<>>, smm |-> s] : s \in {<<>>, <<"search">>}}
    [] event = "nudge"    -> {[fss |-> <<>>, smm |-> <<>>]}

EnqueueAll(queue, new) == IF new = <<>> THEN queue ELSE Enqueue(queue, Head(new))

\* dispatch() runs without main_lock.
Dispatch ==
  /\ pc["main"] = "lock" /\ event_queue # <<>>
  /\ event_queue' = Tail(event_queue)
  /\ \E posts \in Handlers(Head(event_queue)) :
       LET notified == {w \in {"smm", "fss"} : posts[w] # <<>>}
       IN  /\ \A w \in notified : MutexFree(w)
           /\ task_queue' = [w \in {"smm", "fss"} |-> EnqueueAll(task_queue[w], posts[w])]
           /\ pc' = Woken("main", "lock", notified)
  /\ UNCHANGED <<flagVars, mavVars, alive, ghostVars>>

\* The loop takes events until none is left and the flag is cleared.
LoopEnds == ~running /\ event_queue = <<>> /\ Moves("main", "lock", "join_reconnector")

JoinReconnector == Finished("reconnector") /\ Moves("main", "join_reconnector", "join_signal")

\* What was queued since the loop ended is discarded.
JoinSignalAndDrain ==
  /\ Finished("signal") /\ pc["main"] = "join_signal"
  /\ event_queue' = <<>>
  /\ Goto("main", "stop_smm")
  /\ UNCHANGED <<flagVars, task_queue, mavVars, alive, ghostVars>>

run == Start \/ Dispatch \/ LoopEnds \/ JoinReconnector \/ JoinSignalAndDrain

-----------------------------------------------------------------------------
(* The destructors, in the reverse order of App's members: smm, mav, fss,  *)
(* then the queue and its locks.                                           *)

\* A shutdown flag is published under its waiter's mutex, which is then notified.
Stop(w, from, to) ==
  /\ pc["main"] = from /\ MutexFree(w)
  /\ stopping' = stopping \cup {w}
  /\ pc' = Woken("main", to, {w})
  /\ UNCHANGED <<running, event_queue, task_queue, mavVars, alive, ghostVars>>

Destroy(component, from, to) ==
  /\ pc["main"] = from
  /\ alive' = alive \ {component}
  /\ Goto("main", to)
  /\ UNCHANGED <<flagVars, event_queue, task_queue, mavVars, ghostVars>>

DestroySmm == Finished("smm") /\ Destroy("smm", "join_smm", "stop_heartbeat")

\* disconnect_from_mav: the socket is shut down, then its recv thread joined.
ShutMav ==
  /\ Finished("heartbeat") /\ pc["main"] = "join_heartbeat"
  /\ fd_open' = FALSE
  /\ Goto("main", "join_recv")
  /\ UNCHANGED <<flagVars, event_queue, task_queue, broken, alive, ghostVars>>

\* MUTANT: the MAV is destroyed without waiting for its recv thread.
DestroyMavUnjoined == Destroy("mav", "join_recv", "stop_fss")

DestroyMav == RecvEnded /\ Destroy("mav", "join_recv", "stop_fss")
DestroyFss == Finished("fss") /\ Destroy("fss", "join_fss", "end_app")
DestroyApp == Destroy("app", "end_app", "exited")

destructors ==
  \/ Stop("smm", "stop_smm", "join_smm") \/ DestroySmm
  \/ Stop("heartbeat", "stop_heartbeat", "join_heartbeat") \/ ShutMav \/ DestroyMav
  \/ Stop("fss", "stop_fss", "join_fss") \/ DestroyFss
  \/ DestroyApp

Exited == pc["main"] = "exited" /\ UNCHANGED vars

-----------------------------------------------------------------------------
Waits(w) == Evaluate(w) \/ Block(w)

Next ==
  \/ RecvCommand \/ RecvPosition \/ RecvEnds
  \/ StoreRunning \/ TouchReconnectLock \/ fss_reconnector \/ heartbeat_loop
  \/ smm_worker \/ fss_worker \/ run \/ destructors \/ Exited
  \/ \E w \in Waiters : Waits(w) \/ Timeout(w)

Spec == Init /\ [][Next]_vars

\* Threads run when they can, and a recv thread sees its socket shut down.
\* A destructor gets the mutex of a thread that releases it again and again:
\* the heartbeat holds its own for an instant each second.
\* Nothing is assumed of the signal, of the inputs, or of the timeouts: the
\* reconnect interval may be as long as an hour.
FairSpec ==
  /\ Spec
  /\ WF_vars(TouchReconnectLock) /\ WF_vars(fss_reconnector) /\ WF_vars(heartbeat_loop)
  /\ WF_vars(smm_worker) /\ WF_vars(fss_worker)
  /\ WF_vars(run) /\ SF_vars(destructors)
  /\ WF_vars(~fd_open /\ RecvEnds)
  /\ \A w \in Waiters : WF_vars(Waits(w))

-----------------------------------------------------------------------------
(* Properties.                                                             *)

Tasks == {"position", "search", "retry"} \cup Commands
Events == {"position", "report", "nudge"} \cup Commands

\* The variables keep their types and the queues their bounds: coalescing and
\* deduplication leave at most one position and one retry in a worker's queue,
\* however slow the worker.
TypeOK ==
  /\ DOMAIN pc = Threads
  /\ running \in BOOLEAN /\ stopping \subseteq Waiters
  /\ event_queue \in Seq(Events) /\ Len(event_queue) <= MaxInputs + Cardinality(Commands) + 1
  /\ \A w \in {"smm", "fss"} :
       /\ task_queue[w] \in Seq(Tasks)
       /\ \A kind \in {"position", "retry"} :
            Cardinality({i \in DOMAIN task_queue[w] : task_queue[w][i] = kind}) <= 1
  /\ fd_open \in BOOLEAN /\ broken \in BOOLEAN
  /\ alive \subseteq Components
  /\ inputs \in 0 .. MaxInputs
  /\ early \subseteq Commands /\ sent \subseteq Commands

\* What a thread may touch as long as it runs: the SMM worker reads the MAV's
\* position, every producer reaches the event queue, the reconnector calls all
\* three.
Needs(t) ==
  CASE t = "smm"                        -> {"smm", "mav", "app"}
    [] t \in {"heartbeat", "mav_recv"}  -> {"mav", "app"}
    [] t = "fss"                        -> {"fss"}
    [] t = "signal"                     -> {"app"}
    [] OTHER                            -> Components

\* No thread outlives what it may still call into: the destruction order and
\* the joins never leave a live thread with a destroyed component.
ThreadsOutlived ==
  \A t \in Threads \ {"main"} : pc[t] = "none" \/ Finished(t) \/ Needs(t) \subseteq alive

\* A socket is dialled only once the recv thread of the one before it was
\* joined: assigning over a joinable std::thread would end the process.
DialsJoined == [][~fd_open /\ fd_open' => ~RecvJoinable]_vars

\* A command queued before running was cleared is dispatched, and its ack is
\* sent before the FSS is destroyed; so is the ack of every command dispatched.
AcksFlushed == "fss" \notin alive => early \subseteq sent /\ task_queue["fss"] = <<>>

\* Once SIGTERM has cleared running the process exits, without waiting for any
\* timeout to expire.
SignalExits == ~running ~> pc["main"] = "exited"
=============================================================================
