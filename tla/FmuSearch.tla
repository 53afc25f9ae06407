------------------------------ MODULE FmuSearch ------------------------------
(***************************************************************************)
(* Searching: the SMM worker (src/src/smm/smm.cpp, search-acquire.hpp)     *)
(* acquires searches from the Search Management Map and reports outcomes   *)
(* as events; the event loop (event-dispatcher.cpp) applies them to the    *)
(* state machine, which grants and revokes the searching role the worker   *)
(* re-checks around its blocking calls.                                    *)
(*                                                                         *)
(* A search is a model value; the server may offer any of them, or none,   *)
(* at any fetch.  The retry backoff is whether search_retry_ts lies ahead. *)
(* The MAV link stays up (MavLink models it).  Inputs of the other         *)
(* producers of events are applied directly, as in MavLink.                *)
(***************************************************************************)
EXTENDS Naturals, Sequences, FiniteSets, TaskQueue

CONSTANTS
  Commands,          \* FSS commands the environment issues
  NoTarget,
  Searches, None,
  OperatorCommands,  \* what the SMM operator issues
  MaxRetries,        \* candidates tried per acquisition: 3 in tryAcquireSearch
  MaxTasks,          \* bound: inputs pause while more tasks are queued
  MaxEvents          \* bound: inputs pause while more SMM events are queued

ASSUME SearchAssumption ==
  /\ Commands \subseteq {"continue", "hold", "rtl", "manual"}
  /\ None \notin Searches
  /\ OperatorCommands \subseteq {"none", "abandon_search", "mission_complete"}
  /\ MaxRetries \in Nat \ {0} /\ MaxTasks \in Nat /\ MaxEvents \in Nat

VARIABLES
  \* the state machine and its ports (FMUStateMachine)
  current_state, fss_command, fss_command_target, smm_command,
  low_battery_count, low_battery,
  altitude_breach_count, altitude_clear_count, altitude_breach,
  terminated, fss_comms_lost, mav_comms_lost,
  resolution, search_active, autopilot,
  loaded,           \* the search the autopilot was given to fly
  \* SMM
  task_queue, current_search, backoff, asset,
  operator_command, last_seen_operator_command,
  pc, candidate, retries,  \* the worker inside tryAcquireSearch
  smm_events        \* SmmLoadSearch, SmmRtl and SmmOperatorCommand events queued

machineVars == <<current_state, fss_command, fss_command_target, smm_command, low_battery_count, low_battery,
                 altitude_breach_count, altitude_clear_count, altitude_breach, terminated, fss_comms_lost,
                 mav_comms_lost, resolution, autopilot, search_active>>
acquireVars == <<pc, candidate, retries>>
serverVars  == <<asset, operator_command, last_seen_operator_command>>
vars == <<machineVars, loaded, task_queue, current_search, backoff, serverVars, acquireVars, smm_events>>

FMU == INSTANCE FMUStateMachine WITH
         link <- TRUE, Targets <- {}, LowBatteryLatchCount <- 1, AltitudeBreachLatchCount <- 1

-----------------------------------------------------------------------------
(* Queues.                                                                 *)

Task(kind) == [kind |-> kind]
Reached(last) == [kind |-> "reached", last |-> last]
Load(s) == [kind |-> "load", search |-> s]
Outcome(kind) == [kind |-> kind]

\* A newer position replaces a queued one; one retry is queued at most.
enqueue(task) ==
  CASE task.kind = "report" -> Append(Without(task_queue, task), task)
    [] task.kind = "retry" /\ (\E i \in 1 .. Len(task_queue) : task_queue[i] = task) -> task_queue
    [] OTHER -> Append(task_queue, task)

Emits(outcome) == smm_events' = Append(smm_events, outcome)

\* Inputs pause while the queues are past their bounds; the threads never do.
Room == Len(task_queue) <= MaxTasks /\ Len(smm_events) <= MaxEvents

-----------------------------------------------------------------------------
(* The event loop.                                                         *)

\* What actionState does beyond FMUStateMachine: searching enqueues a SearchTask
\* (SMM::search), every other state takes the autopilot out of the mission.
Actioned ==
  /\ task_queue' = IF current_state' = "searching" /\ current_state # "searching"
                   THEN enqueue(Task("search")) ELSE task_queue
  /\ loaded' = IF current_state' = "searching" THEN loaded ELSE None

loadSearch(s) == loaded' = s

Dispatches(kinds) ==
  /\ smm_events # <<>> /\ Head(smm_events).kind \in kinds
  /\ smm_events' = Tail(smm_events)
  /\ UNCHANGED <<current_search, backoff, serverVars, acquireVars>>

\* MUTANT: an acquired search is uploaded whatever the aircraft is doing.
LoadSearchUnguarded ==
  /\ Dispatches({"load"})
  /\ loadSearch(Head(smm_events).search)
  /\ UNCHANGED <<machineVars, task_queue>>

\* SmmLoadSearch: uploaded while searching, resumed through the state machine
\* while waiting for tasking, dropped in any other state.
DispatchLoadSearch ==
  /\ Dispatches({"load"})
  /\ \/ FMU!isSearching /\ loadSearch(Head(smm_events).search) /\ UNCHANGED <<machineVars, task_queue>>
     \/ FMU!isWaitingForTasking /\ FMU!SMMNewCommand("none") /\ Actioned
     \/ ~FMU!isSearching /\ ~FMU!isWaitingForTasking /\ UNCHANGED <<machineVars, task_queue, loaded>>

\* SmmRtl and SmmOperatorCommand.
DispatchSmmCommand ==
  /\ Dispatches({"rtl", "abandon_search", "mission_complete"})
  /\ FMU!SMMNewCommand(IF Head(smm_events).kind = "rtl" THEN "mission_complete" ELSE Head(smm_events).kind)
  /\ Actioned

\* Inputs of the other producers.
OtherInput ==
  /\ Room
  /\ \/ \E cmd \in Commands : FMU!FSSNewCommand(cmd, NoTarget)
     \/ \E failed \in BOOLEAN : failed # fss_comms_lost /\ FMU!setCommsFailure(failed)
  /\ Actioned
  /\ UNCHANGED <<current_search, backoff, serverVars, acquireVars, smm_events>>

Submit(task) ==
  /\ Room
  /\ task_queue' = enqueue(task)
  /\ UNCHANGED <<machineVars, loaded, current_search, backoff, serverVars, acquireVars, smm_events>>

\* A position report; its altitude stays below the cap here.
reportPosition == Submit(Task("report"))
\* The autopilot reached a point of the mission it flies, perhaps the last one.
reachedPoint == FMU!isSearching /\ loaded # None /\ \E last \in BOOLEAN : Submit(Reached(last))
\* SMM settings arrive from FSS.
connect == Submit(Task("connect"))
\* The reconnector thread's timer.
retryPendingSearch == Submit(Task("retry"))

-----------------------------------------------------------------------------
(* The worker.  It owns the held search and everything of an acquisition.  *)

Takes(kind) ==
  /\ pc = "idle"
  /\ task_queue # <<>> /\ Head(task_queue).kind = kind
  /\ task_queue' = Tail(task_queue)
  /\ UNCHANGED <<machineVars, loaded, operator_command, candidate, retries>>

\* maybeAcquire: acquire only while a search is wanted and none is held.
maybeAcquire(held) == pc' = IF search_active /\ held = None THEN "acquire" ELSE "idle"

\* Connect, log in and find the asset, with either result.
doConnect ==
  /\ Takes("connect")
  /\ asset' \in BOOLEAN
  /\ UNCHANGED <<current_search, backoff, last_seen_operator_command, pc, smm_events>>

doRetryPending ==
  /\ Takes("retry")
  /\ maybeAcquire(current_search)
  /\ UNCHANGED <<asset, last_seen_operator_command, current_search, backoff, smm_events>>

\* A command is acted on once, when it differs from the last one seen.
checkOperatorCommand ==
  /\ last_seen_operator_command' = operator_command
  /\ \/ operator_command = last_seen_operator_command /\ UNCHANGED <<current_search, backoff, smm_events>>
     \/ /\ operator_command # last_seen_operator_command
        /\ \/ operator_command = "abandon_search" /\ current_search' = None /\ backoff' = FALSE
              /\ Emits(Outcome("abandon_search"))
           \/ operator_command = "mission_complete" /\ Emits(Outcome("mission_complete"))
              /\ UNCHANGED <<current_search, backoff>>
           \/ operator_command = "none" /\ UNCHANGED <<current_search, backoff, smm_events>>

\* The command is checked if an asset is known and a report is due.
doReportPosition ==
  /\ Takes("report")
  /\ \/ asset /\ checkOperatorCommand
     \/ UNCHANGED <<current_search, backoff, last_seen_operator_command, smm_events>>
  /\ maybeAcquire(current_search')
  /\ UNCHANGED asset

\* The last point completes the held search; any other only moves its cursor.
doReachedPoint ==
  /\ Takes("reached")
  /\ \/ /\ current_search # None /\ Head(task_queue).last
        /\ current_search' = None
        /\ Emits(Outcome("rtl"))
     \/ /\ current_search = None \/ ~Head(task_queue).last
        /\ UNCHANGED <<current_search, smm_events>>
  /\ UNCHANGED <<asset, backoff, last_seen_operator_command, pc>>

\* Resume the held search, or acquire one without inheriting a backoff.
doSearch ==
  /\ Takes("search")
  /\ backoff' = FALSE
  /\ \/ current_search # None /\ Emits(Load(current_search)) /\ UNCHANGED pc
     \/ current_search = None /\ pc' = "acquire" /\ UNCHANGED smm_events
  /\ UNCHANGED <<asset, current_search, last_seen_operator_command>>

\* A step of tryAcquireSearch; its blocking calls lie between steps.
Acquiring(at) == pc = at /\ UNCHANGED <<machineVars, loaded, task_queue, serverVars>>
GoesOn(to) == pc' = to /\ UNCHANGED <<retries, current_search, backoff, smm_events>>
Return == pc' = "idle" /\ retries' = 0 /\ candidate' = None

\* Nothing to fly: report it, and back off until the next attempt.
GiveUp == Emits(Outcome("rtl")) /\ backoff' = TRUE /\ Return /\ UNCHANGED current_search
Abort == Return /\ UNCHANGED <<current_search, backoff, smm_events>>

search_acquire_action ==
  IF backoff THEN "backoff" ELSE IF asset THEN "fetch" ELSE "disconnected_rtl"

BeginAcquire ==
  /\ Acquiring("acquire")
  /\ \/ search_acquire_action = "backoff" /\ Abort
     \/ search_acquire_action = "disconnected_rtl" /\ GiveUp
     \/ search_acquire_action = "fetch" /\ GoesOn("fetch") /\ UNCHANGED candidate

\* MUTANT: a fetch that finds nothing is not reported.
FetchedNothingSilent ==
  /\ Acquiring("fetch")
  /\ \/ Abort
     \/ search_active /\ GoesOn("check") /\ candidate' \in Searches

\* fetchSearch returns: the role is re-checked, a null search gives up.
Fetched ==
  /\ Acquiring("fetch")
  /\ \/ ~search_active /\ Abort
     \/ search_active /\ GiveUp
     \/ search_active /\ GoesOn("check") /\ candidate' \in Searches

\* The last check before the accept: the role, and the candidate's waypoints.
CheckCandidate ==
  /\ Acquiring("check")
  /\ \/ search_active /\ GoesOn("accept")
     \/ GoesOn("refused")
  /\ UNCHANGED candidate

\* MUTANT: an accepted search is held but never reported.
AcceptedSilently ==
  /\ Acquiring("accept")
  /\ \/ current_search' = candidate /\ backoff' = FALSE /\ Return /\ UNCHANGED smm_events
     \/ GoesOn("refused") /\ UNCHANGED candidate

\* The server answers the accept; an accepted search is held and reported.
Accepted ==
  /\ Acquiring("accept")
  /\ \/ current_search' = candidate /\ Emits(Load(candidate)) /\ backoff' = FALSE /\ Return
     \/ GoesOn("refused") /\ UNCHANGED candidate

\* Not accepted: stop if the role is gone, else fetch another or give up.
Refused ==
  /\ Acquiring("refused")
  /\ \/ ~search_active /\ Abort
     \/ search_active /\ retries + 1 >= MaxRetries /\ GiveUp
     \/ /\ search_active /\ retries + 1 < MaxRetries
        /\ retries' = retries + 1 /\ pc' = "fetch" /\ candidate' = None
        /\ UNCHANGED <<current_search, backoff, smm_events>>

-----------------------------------------------------------------------------
\* The backoff interval passes.
BackoffOver ==
  /\ backoff /\ backoff' = FALSE
  /\ UNCHANGED <<machineVars, loaded, task_queue, current_search, serverVars, acquireVars, smm_events>>

\* The server's operator issues another command.
OperatorActs ==
  /\ operator_command' \in OperatorCommands \ {operator_command}
  /\ UNCHANGED <<machineVars, loaded, task_queue, current_search, backoff, asset,
                 last_seen_operator_command, acquireVars, smm_events>>

Init ==
  /\ FMU!Init
  /\ loaded = None
  /\ task_queue = <<>> /\ current_search = None /\ backoff = FALSE /\ asset = FALSE
  /\ operator_command = "none" /\ last_seen_operator_command = "none"
  /\ pc = "idle" /\ candidate = None /\ retries = 0
  /\ smm_events = <<>>

Dispatch == DispatchLoadSearch \/ DispatchSmmCommand
Worker == doConnect \/ doRetryPending \/ doReportPosition \/ doReachedPoint \/ doSearch
          \/ BeginAcquire \/ Fetched \/ CheckCandidate \/ Accepted \/ Refused
Next ==
  \/ Dispatch \/ OtherInput \/ reportPosition \/ reachedPoint \/ connect
  \/ Worker
  \/ retryPendingSearch \/ BackoffOver \/ OperatorActs

\* The event loop and the worker thread keep running: neither waits on the
\* other (enqueue never blocks), and every SMM call is bounded by a timeout.
Fairness == WF_vars(Dispatch) /\ WF_vars(Worker)

Spec == Init /\ [][Next]_vars
FairSpec == Spec /\ Fairness

-----------------------------------------------------------------------------
(* Properties.                                                             *)

Tasks == [kind : {"report", "connect", "retry", "search"}] \cup [kind : {"reached"}, last : BOOLEAN]
Events == [kind : {"rtl", "abandon_search", "mission_complete"}] \cup [kind : {"load"}, search : Searches]

\* Types; a candidate is in hand exactly between its fetch and its disposal
\* (tryAcquireSearch), and tasks are queued with at most one position.
TypeOK ==
  /\ \A i \in 1 .. Len(task_queue) : task_queue[i] \in Tasks
  /\ \A i \in 1 .. Len(smm_events) : smm_events[i] \in Events
  /\ \A i, j \in 1 .. Len(task_queue) :
       task_queue[i].kind = "report" /\ task_queue[j].kind = "report" => i = j
  /\ loaded \in Searches \cup {None} /\ current_search \in Searches \cup {None}
  /\ backoff \in BOOLEAN /\ asset \in BOOLEAN
  /\ pc \in {"idle", "acquire", "fetch", "check", "accept", "refused"}
  /\ candidate \in IF pc \in {"check", "accept", "refused"} THEN Searches ELSE {None}
  /\ retries \in 0 .. MaxRetries - 1

\* The autopilot flies a search only while the machine is searching: an outcome
\* reported before a command took over never overrides it (SmmLoadSearch).
SearchFlownOnlyWhileSearching == loaded # None => FMU!isSearching

Quiet == pc = "idle" /\ task_queue = <<>> /\ smm_events = <<>>

\* Searching is never a fiction: when every queued outcome and task has been
\* handled, a searching aircraft flies the search the SMM worker holds.  Lost,
\* dropped or overtaken outcomes (SmmLoadSearch, SmmRtl) would break it.
QuietSearchIsFlown == Quiet /\ FMU!isSearching => current_search # None /\ loaded = current_search

\* An aircraft told to search gets a search to fly or leaves searching: every
\* path of the acquisition reports an outcome (tryAcquireSearch, doSearch).
SearchIsServed == FMU!isSearching ~> (loaded # None \/ ~FMU!isSearching)

\* While waiting for tasking the searching role stays granted, so that the
\* background acquire-retry loop keeps running (fmu.hpp, isWaitingForTasking).
WaitingKeepsRole == FMU!isWaitingForTasking => search_active
=============================================================================
