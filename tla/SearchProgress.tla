--------------------------- MODULE SearchProgress ---------------------------
(***************************************************************************)
(* How far a search has been flown.  The layout of a mission               *)
(* (src/src/mav/mission-plan.hpp), the autopilot flying it, the            *)
(* MISSION_ITEM_REACHED messages that come back, the event loop that turns *)
(* them into search progress (event-dispatcher.cpp), the worker that moves *)
(* current_point or completes the search (smm.cpp), and the interruptions  *)
(* a search is resumed after (mavlink.cpp: loadSearch, mission_ack).       *)
(*                                                                         *)
(* Searches are numbered in the order they are acquired.  Acquisition is   *)
(* one step here (FmuSearch has its steps), an upload ends in one step     *)
(* (MavUpload has its races), and the link to the autopilot is up and      *)
(* keeps its order (MavLink has the drops).                                *)
(***************************************************************************)
EXTENDS Integers, Sequences

CONSTANTS
  Sizes,         \* how many waypoints a search may have
  SeqLimit,      \* mission sequence numbers: 2^16 in MAVLink
  MaxSearches,   \* bound: searches the server hands out
  MaxInFlight    \* bound: inputs pause while more messages, events and tasks wait

\* A search has a waypoint (isValid) and its mission fits the 16-bit
\* MISSION_COUNT (uploadSearch only warns about one that does not).
ASSUME ProgressAssumption ==
  /\ SeqLimit \in Nat /\ 3 < SeqLimit
  /\ Sizes \subseteq {n \in Nat : 0 < n /\ n + 3 < SeqLimit} /\ Sizes # {}
  /\ MaxSearches \in Nat /\ MaxInFlight \in Nat

VARIABLES
  fss, smm,             \* fss_command and smm_command
  search_active,
  held, point, size,    \* current_search; current_point and points of each
  tasks,                \* task_queue of the SMM worker
  search, upload, search_loaded,  \* mav_connection
  events,               \* the event queue
  mission, engaged, current,      \* the autopilot: its mission, AUTO, the item
  link,                 \* MISSION_ITEM_REACHED messages on their way
  issued,               \* searches the server handed out
  \* history: the last upload was refused; the points of the held search the
  \* autopilot reached, and whether that search took an item of another mission
  refused, flown, tainted

machineVars   == <<fss, smm, search_active>>
searchVars    == <<held, point, size, issued, flown, tainted>>
mavVars       == <<search, upload, search_loaded, refused>>
autopilotVars == <<mission, engaged, current>>
vars == <<machineVars, searchVars, tasks, mavVars, events, autopilotVars, link>>

Searches == 1 .. MaxSearches
None == 0

\* Inputs pause while the queues are past their bound; the threads never do.
Room == Len(link) + Len(events) + Len(tasks) <= MaxInFlight

-----------------------------------------------------------------------------
(* mission-plan.hpp.                                                       *)

search_first_point_seq == 2

\* MUTANT: a search is resumed at the bare index of its point.
BarePointIndex(point_index) == point_index % SeqLimit

search_point_mission_seq(point_index) == (point_index + search_first_point_seq) % SeqLimit

\* MUTANT: the inverse of search_point_mission_seq, so progress lags by a point.
ReachedItself(seq) == seq - search_first_point_seq
\* MUTANT: the setup items are not taken off, so progress runs ahead.
ReachedAhead(seq) == seq

next_search_point_after_reached_seq(seq) == seq - search_first_point_seq + 1

Rtl == [kind |-> "rtl", point_index |-> 0]

mission_item_for(seq, num_points, mode) ==
  CASE mode = "goto" /\ seq >= 2 -> Rtl
    [] mode = "goto" /\ seq < 2 -> [kind |-> "goto_point", point_index |-> 0]
    [] mode = "search" /\ seq <= 1 -> [kind |-> "takeoff", point_index |-> 0]
    [] mode = "search" /\ seq > num_points + 1 -> Rtl
    [] OTHER -> [kind |-> "search_point", point_index |-> seq - 2]

mission_count_for(num_points, mode) == IF mode = "goto" THEN 3 ELSE num_points + 3

\* What the autopilot holds once the upload is complete: it asks for the items
\* 0 .. count - 1 of the 16-bit count it was told.
MissionCount(num_points, mode) == mission_count_for(num_points, mode) % SeqLimit

-----------------------------------------------------------------------------
(* The state machine: no latch is engaged here, so current_state is what   *)
(* commandedState maps the two commands to.                                *)

commandedState(f, s) ==
  CASE f # "continue" -> f
    [] f = "continue" /\ s = "mission_complete" -> "waiting_for_tasking"
    [] OTHER -> "searching"

State == commandedState(fss, smm)
isSearching == State = "searching"
isWaitingForTasking == State = "waiting_for_tasking"

\* invalidateInFlightUploadLocked: an open search upload takes `search` with it.
Invalidated == IF upload = "search" THEN None ELSE search

\* setMode of a mode other than AUTO.
LeavesMission ==
  /\ search' = Invalidated /\ upload' = "none" /\ search_loaded' = FALSE /\ refused' = FALSE
  /\ engaged' = FALSE /\ UNCHANGED <<mission, current>>

\* commandGoto: RTL, then an upload of the goto mission is opened.
commandGoto ==
  /\ search' = Invalidated /\ upload' = "goto" /\ search_loaded' = FALSE /\ refused' = FALSE
  /\ engaged' = FALSE /\ UNCHANGED <<mission, current>>

\* actionState of a state just entered.
actionState(state) ==
  \/ /\ state = "searching"
     /\ search_active' = TRUE /\ tasks' = Append(tasks, [kind |-> "search"])
     /\ UNCHANGED <<mavVars, autopilotVars>>
  \/ state = "waiting_for_tasking" /\ LeavesMission /\ UNCHANGED <<search_active, tasks>>
  \/ state = "hold" /\ LeavesMission /\ search_active' = FALSE /\ UNCHANGED tasks
  \/ state = "goto" /\ commandGoto /\ search_active' = FALSE /\ UNCHANGED tasks

\* A command is stored; the state it leads to is actioned when it changes.
NewCommand(f, s) ==
  /\ fss' = f /\ smm' = s
  /\ \/ commandedState(f, s) # State /\ actionState(commandedState(f, s))
     \/ commandedState(f, s) = State /\ UNCHANGED <<search_active, tasks, mavVars, autopilotVars>>

SMMNewCommand(s) == NewCommand(fss, s)

\* FSS commands: the one in force is not repeated.
FSSNewCommand(f) ==
  /\ Room /\ f # fss /\ NewCommand(f, smm)
  /\ UNCHANGED <<searchVars, events, link>>

-----------------------------------------------------------------------------
(* The event loop.                                                         *)

Dispatches(kind) ==
  /\ events # <<>> /\ Head(events).kind = kind
  /\ events' = Tail(events)
  /\ UNCHANGED <<searchVars, link>>

\* uploadSearch: RTL, and an upload for this search is opened.
uploadSearch(s) ==
  /\ search' = s /\ upload' = "search" /\ search_loaded' = FALSE /\ refused' = FALSE
  /\ engaged' = FALSE /\ UNCHANGED <<mission, current>>

\* MUTANT: a search known already is taken to be loaded still.
LoadsOnlyNew(s) ==
  \/ search # s /\ uploadSearch(s)
  \/ search = s /\ UNCHANGED <<mavVars, autopilotVars>>

\* loadSearch: nothing to do for the search that is loaded already.
loadSearch(s) ==
  \/ (search # s \/ ~search_loaded) /\ uploadSearch(s)
  \/ search = s /\ search_loaded /\ UNCHANGED <<mavVars, autopilotVars>>

DispatchLoadSearch ==
  /\ Dispatches("load")
  /\ \/ isSearching /\ loadSearch(Head(events).search) /\ UNCHANGED <<machineVars, tasks>>
     \/ isWaitingForTasking /\ SMMNewCommand("none")
     \/ ~isSearching /\ ~isWaitingForTasking /\ UNCHANGED <<machineVars, tasks, mavVars, autopilotVars>>

DispatchSmmCommand ==
  \/ Dispatches("rtl") /\ SMMNewCommand("mission_complete")
  \/ Dispatches("abandon") /\ SMMNewCommand("abandon_search")

\* ReachedPoint: progress only while searching.
DispatchReachedPoint ==
  /\ Dispatches("reached")
  /\ \/ isSearching /\ tasks' = Append(tasks, Head(events))
     \/ ~isSearching /\ UNCHANGED tasks
  /\ UNCHANGED <<machineVars, mavVars, autopilotVars>>

-----------------------------------------------------------------------------
(* The MAVLink receive thread.                                             *)

Load(s) == [kind |-> "load", search |-> s]
Reached(p, from) == [kind |-> "reached", point |-> p, from |-> from]

\* report_reached: setup items are dropped, the others become events.
report_reached ==
  /\ link # <<>> /\ link' = Tail(link)
  /\ LET seq == Head(link).seq IN
     events' = IF seq >= search_first_point_seq
               THEN Append(events, Reached(next_search_point_after_reached_seq(seq), Head(link).from))
               ELSE events
  /\ UNCHANGED <<machineVars, searchVars, tasks, mavVars, autopilotVars>>

\* The upload ends and mission_ack handles its answer: an accepted mission is
\* jumped into and engaged, a search from its current point.
mission_ack ==
  /\ upload # "none" /\ upload' = "none"
  /\ \/ /\ upload = "goto" /\ mission' = [mode |-> "goto", of |-> None]
        /\ current' = 0 /\ engaged' = TRUE
        /\ UNCHANGED <<search, search_loaded, refused>>
     \/ /\ upload = "search" /\ mission' = [mode |-> "search", of |-> search]
        /\ search_loaded' = TRUE
        /\ current' = search_point_mission_seq(point[search]) /\ engaged' = TRUE
        /\ UNCHANGED <<search, refused>>
     \/ /\ search' = Invalidated /\ refused' = TRUE
        /\ UNCHANGED <<search_loaded, autopilotVars>>
  /\ UNCHANGED <<machineVars, searchVars, tasks, events, link>>

-----------------------------------------------------------------------------
(* The autopilot (external).                                               *)

SizeOf(m) == IF m.mode = "search" THEN size[m.of] ELSE 0
ItemAt(m, seq) == mission_item_for(seq, SizeOf(m), m.mode)

\* It reaches the item it flies to and says so; the terminator sends it home,
\* with or without a message.
ReachItem ==
  /\ engaged /\ current < MissionCount(SizeOf(mission), mission.mode) /\ Room
  /\ current' = current + 1
  /\ \/ link' = Append(link, [seq |-> current, from |-> mission.of])
     \/ ItemAt(mission, current).kind = "rtl" /\ UNCHANGED link
  /\ flown' = IF ItemAt(mission, current).kind = "search_point" /\ mission.of = held
              THEN flown \cup {ItemAt(mission, current).point_index} ELSE flown
  /\ UNCHANGED <<mission, engaged, machineVars, held, point, size, issued, tainted, tasks, mavVars, events>>

-----------------------------------------------------------------------------
(* The SMM worker.                                                         *)

Working == UNCHANGED <<machineVars, mavVars, autopilotVars, link>>
Takes(kind) == Working /\ tasks # <<>> /\ Head(tasks).kind = kind /\ tasks' = Tail(tasks)
Emits(event) == events' = Append(events, event)
\* publishSearch: another search, or none, is held.
publishSearch(s) == held' = s /\ flown' = {} /\ tainted' = FALSE

\* MUTANT: a new search starts at the point the last one had come to.
AcquiresAtOldPoint ==
  \/ /\ search_active /\ issued < MaxSearches
     /\ issued' = issued + 1 /\ publishSearch(issued + 1)
     /\ point' = [point EXCEPT ![issued + 1] = IF issued = 0 THEN 0 ELSE point[issued]]
     /\ size' = [size EXCEPT ![issued + 1] = 2] /\ Emits(Load(issued + 1))
  \/ Emits([kind |-> "rtl"]) /\ UNCHANGED searchVars
  \/ ~search_active /\ UNCHANGED <<searchVars, events>>

\* tryAcquireSearch: a search is accepted while the role is granted, or none is
\* to be had and that is reported, or the role is gone and nothing happens.
tryAcquireSearch ==
  \/ /\ search_active /\ issued < MaxSearches
     /\ issued' = issued + 1 /\ publishSearch(issued + 1)
     /\ \E n \in Sizes : size' = [size EXCEPT ![issued + 1] = n]
     /\ Emits(Load(issued + 1))
     /\ UNCHANGED point
  \/ Emits([kind |-> "rtl"]) /\ UNCHANGED searchVars
  \/ ~search_active /\ UNCHANGED <<searchVars, events>>

doSearch ==
  /\ Takes("search")
  /\ \/ held # None /\ Emits(Load(held)) /\ UNCHANGED searchVars
     \/ held = None /\ tryAcquireSearch

\* maybeAcquire, on a position report or on the reconnector's timer.
maybeAcquire ==
  /\ Working /\ UNCHANGED tasks /\ Room
  /\ search_active /\ held = None /\ tryAcquireSearch

\* A new operator command: the search is abandoned, or the mission is over.
checkOperatorCommand ==
  /\ Working /\ UNCHANGED tasks /\ Room
  /\ \/ publishSearch(None) /\ Emits([kind |-> "abandon"])
     \/ UNCHANGED <<held, flown, tainted>> /\ Emits([kind |-> "rtl"])
  /\ UNCHANGED <<point, size, issued>>

MovesTo(p) ==
  /\ point' = [point EXCEPT ![held] = p] /\ tainted' = (tainted \/ Head(tasks).from # held)
  /\ UNCHANGED <<held, flown, events>>

\* The held search moves to the point, or is complete and is dropped; with none
\* held there is nothing to do.
doReachedPoint ==
  /\ Takes("reached")
  /\ \/ /\ held # None /\ Head(tasks).point >= size[held]
        /\ publishSearch(None) /\ Emits([kind |-> "rtl"]) /\ UNCHANGED point
     \/ held # None /\ Head(tasks).point < size[held] /\ MovesTo(Head(tasks).point)
     \/ held = None /\ UNCHANGED <<searchVars, events>>
  /\ UNCHANGED <<size, issued>>

-----------------------------------------------------------------------------
\* The FMU starts with no FSS command, which also means searching
\* (fss_cmd_unknown); its search task is queued as the link comes up.
Init ==
  /\ fss = "continue" /\ smm = "none" /\ search_active = TRUE
  /\ held = None /\ point = [s \in Searches |-> 0] /\ size = [s \in Searches |-> CHOOSE n \in Sizes : TRUE]
  /\ tasks = <<[kind |-> "search"]>> /\ events = <<>> /\ link = <<>>
  /\ search = None /\ upload = "none" /\ search_loaded = FALSE
  /\ mission = [mode |-> "goto", of |-> None] /\ engaged = FALSE /\ current = 0
  /\ issued = 0
  /\ refused = FALSE /\ flown = {} /\ tainted = FALSE

Dispatch == DispatchLoadSearch \/ DispatchSmmCommand \/ DispatchReachedPoint
Worker == doSearch \/ doReachedPoint
Next ==
  \/ \E f \in {"continue", "hold", "goto"} : FSSNewCommand(f)
  \/ Dispatch \/ Worker
  \/ report_reached \/ mission_ack
  \/ ReachItem
  \/ maybeAcquire \/ checkOperatorCommand

\* The threads run, position reports keep coming, an upload ends one way or the
\* other and an autopilot in AUTO gets to its next item.  The last two are held
\* back only by the bound on the queues, hence the strong fairness.
Fairness ==
  /\ WF_vars(Dispatch) /\ WF_vars(Worker) /\ WF_vars(report_reached) /\ WF_vars(mission_ack)
  /\ SF_vars(ReachItem) /\ SF_vars(maybeAcquire)

Spec == Init /\ [][Next]_vars
FairSpec == Spec /\ Fairness

-----------------------------------------------------------------------------
(* Properties.                                                             *)

ReachedRecords == [kind : {"reached"}, point : 1 .. SeqLimit, from : Searches \cup {None}]
Events == [kind : {"load"}, search : Searches] \cup [kind : {"rtl", "abandon"}] \cup ReachedRecords

\* Types; the point of a search stays below its size, so that getPoint and the
\* item it resumes at are within the mission (SMMSearch, send_waypoint).
TypeOK ==
  /\ fss \in {"continue", "hold", "goto"} /\ smm \in {"none", "mission_complete", "abandon_search"}
  /\ search_active \in BOOLEAN /\ search_loaded \in BOOLEAN /\ engaged \in BOOLEAN /\ refused \in BOOLEAN
  /\ issued \in 0 .. MaxSearches /\ held \in 0 .. issued /\ search \in 0 .. issued
  /\ size \in [Searches -> Sizes] /\ point \in [Searches -> Nat]
  /\ \A s \in Searches : point[s] < size[s]
  /\ tasks \in Seq([kind : {"search"}] \cup ReachedRecords)
  /\ events \in Seq(Events)
  /\ link \in Seq([seq : 0 .. SeqLimit - 1, from : Searches \cup {None}])
  /\ upload \in {"none", "search", "goto"} /\ (upload = "search" => search # None)
  /\ mission \in [mode : {"search"}, of : Searches] \cup [mode : {"goto"}, of : {None}]
  /\ current \in 0 .. MissionCount(SizeOf(mission), mission.mode)
  /\ flown \subseteq 0 .. SeqLimit /\ tainted \in BOOLEAN

\* No point is skipped: however often the held search was interrupted and
\* resumed, every point below its current_point was reached
\* (next_search_point_after_reached_seq, search_point_mission_seq), unless an
\* item of another mission moved it: a reached event names a point, not the
\* mission it belongs to, and the guard of ReachedPoint lets some through.
NoPointSkipped ==
  held # None /\ ~tainted => 0 .. point[held] - 1 \subseteq flown

\* A search is completed on the server only when each of its points was
\* reached (doReachedPoint), with the same exception.
CompletedFullyFlown ==
  [][(doReachedPoint /\ held' # held /\ ~tainted /\ Head(tasks).from = held) =>
       0 .. size[held] - 1 \subseteq flown]_vars

\* An accepted search mission is entered at the search's current point, never
\* at a setup item, and ends with its only terminator (mission_ack,
\* mission_item_for, mission_count_for).
EnteredAtCurrentPoint ==
  [][engaged' /\ ~engaged /\ mission'.mode = "search" =>
       LET s == mission'.of
           last == MissionCount(size[s], "search") - 1
       IN /\ mission_item_for(current', size[s], "search") = [kind |-> "search_point", point_index |-> point[s]]
          /\ \A seq \in current' .. last : mission_item_for(seq, size[s], "search").kind = "rtl" <=> seq = last]_vars

\* An aircraft does not search for ever: it flies what it holds to the end and
\* goes to waiting for tasking, unless the autopilot refuses an upload, which
\* nothing re-drives (doReachedPoint, SmmRtl).
SearchEnds == isSearching ~> (~isSearching \/ refused)
=============================================================================
