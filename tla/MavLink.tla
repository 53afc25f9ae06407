------------------------------- MODULE MavLink -------------------------------
(***************************************************************************)
(* The MAVLink session (src/src/mav/mavlink.cpp, mav-comms.hpp) driving    *)
(* the FMU state machine: the heartbeat thread that reports comms edges,   *)
(* the recv thread that hears heartbeats and detects autopilot restarts,   *)
(* the reconnector that replaces a broken socket, and the event loop that  *)
(* re-commands the autopilot.                                              *)
(*                                                                         *)
(* Commands are the ones the autopilot executes as a flight mode (rtl,     *)
(* hold, manual): until its first heartbeat tells the airframe type they   *)
(* are deferred, and replayed on that heartbeat.                           *)
(*                                                                         *)
(* Time is abstracted to whether the last heartbeat and the last connect   *)
(* are younger than heartbeat_timeout_ms.  Only events of this component   *)
(* go through mav_events; an input of another, independent producer is     *)
(* applied directly, which is the case where its event was queued first.   *)
(*                                                                         *)
(* MavProofs extends this module and MavUpload, so what the two would name *)
(* alike is prefixed here.                                                 *)
(***************************************************************************)
EXTENDS Naturals, Sequences

CONSTANTS
  Commands,     \* FSS commands the environment issues
  NoTarget,
  MaxEvents     \* bound on queued MAV events

ASSUME CommandsAssumption == Commands \subseteq {"rtl", "hold", "manual", "continue"}
ASSUME MaxEventsAssumption == MaxEvents \in Nat \ {0, 1}

VARIABLES
  \* the state machine and its ports (FMUStateMachine)
  current_state, fss_command, fss_command_target, smm_command,
  low_battery_count, low_battery,
  altitude_breach_count, altitude_clear_count, altitude_breach,
  terminated, fss_comms_lost, mav_comms_lost,
  resolution, search_active, autopilot,
  \* mav_connection
  fd_open,          \* fd != -1
  path_up,          \* the far end of the current socket is still there
  broken,           \* flagged for the reconnector
  heartbeat_fresh,  \* now - last_heartbeat_ts <= heartbeat_timeout_ms
  connected_fresh,  \* now - connected_since_ts <= heartbeat_timeout_ms
  mav_comms_ok,     \* last reported status
  airframe_known,   \* a heartbeat has told the airframe type
  pending_mode,     \* pending_mode_command: deferred until it has
  hb_pc, hb_fd_open,  \* heartbeat_loop: where it is, and the fd it sampled
  rc_pc,            \* attemptReconnect: where it is
  restart_unseen,   \* the autopilot rebooted, its new uptime not yet heard
  mav_events,       \* MavCommsStatus and MavAutopilotRestart events queued
  lapse             \* history: the link failed while reported up, and no down edge since

machineVars == <<current_state, fss_command, fss_command_target, smm_command,
                 low_battery_count, low_battery, altitude_breach_count, altitude_clear_count,
                 altitude_breach, terminated, fss_comms_lost, mav_comms_lost, resolution,
                 search_active>>
socketVars == <<fd_open, path_up, broken, connected_fresh, rc_pc>>
heartbeatVars == <<heartbeat_fresh, mav_comms_ok, hb_pc, hb_fd_open>>
modeVars == <<airframe_known, pending_mode>>
linkVars == <<machineVars, autopilot, modeVars, socketVars, heartbeatVars, restart_unseen, mav_events, lapse>>

\* A message sent now reaches the autopilot (sendMavLinkMsgLocked).
LinkOpen == fd_open /\ path_up

FMU == INSTANCE FMUStateMachine WITH
         link <- LinkOpen /\ airframe_known, Targets <- {}, LowBatteryLatchCount <- 1, AltitudeBreachLatchCount <- 1

-----------------------------------------------------------------------------
(* The far end.                                                            *)

\* The peer closes or resets the connection, or the path to it is gone for good.
PathLost ==
  /\ LinkOpen
  /\ path_up' = FALSE
  /\ lapse' = (lapse \/ mav_comms_ok)
  /\ UNCHANGED <<machineVars, autopilot, modeVars, fd_open, broken, connected_fresh, rc_pc, heartbeatVars,
                 restart_unseen, mav_events>>

\* The autopilot reboots and forgets what it was told.
AutopilotReboots ==
  /\ autopilot' = FMU!NoMavCommand
  /\ restart_unseen' = TRUE
  /\ UNCHANGED <<machineVars, modeVars, socketVars, heartbeatVars, mav_events, lapse>>

\* heartbeat_timeout_ms passes with no heartbeat ...
HeartbeatAges ==
  /\ heartbeat_fresh
  /\ heartbeat_fresh' = FALSE
  /\ UNCHANGED <<machineVars, autopilot, modeVars, socketVars, mav_comms_ok, hb_pc, hb_fd_open,
                 restart_unseen, mav_events, lapse>>

\* ... or since the socket was connected.
ConnectAges ==
  /\ connected_fresh
  /\ connected_fresh' = FALSE
  /\ UNCHANGED <<machineVars, autopilot, modeVars, fd_open, path_up, broken, rc_pc, heartbeatVars,
                 restart_unseen, mav_events, lapse>>

-----------------------------------------------------------------------------
(* The recv thread.                                                        *)

\* The HEARTBEAT case of processMavLinkMsg, with replayPendingMode.
HeartbeatHeard ==
  /\ LinkOpen
  /\ heartbeat_fresh' = TRUE
  /\ airframe_known' = TRUE
  /\ autopilot' = IF pending_mode = FMU!NoMavCommand THEN autopilot ELSE pending_mode
  /\ pending_mode' = FMU!NoMavCommand
  /\ UNCHANGED <<machineVars, socketVars, mav_comms_ok, hb_pc, hb_fd_open,
                 restart_unseen, mav_events, lapse>>

\* noteTimeBootMs sees the uptime jump backwards, past the skew margin.
RecvRestart ==
  /\ LinkOpen /\ restart_unseen
  /\ Len(mav_events) < MaxEvents - 1
  /\ restart_unseen' = FALSE
  /\ mav_events' = Append(mav_events, "restart")
  /\ UNCHANGED <<machineVars, autopilot, modeVars, socketVars, heartbeatVars, lapse>>

\* recv() or a send() on the dead socket fails.  A half-open socket need not.
SocketFails ==
  /\ fd_open /\ ~path_up
  /\ broken' = TRUE
  /\ UNCHANGED <<machineVars, autopilot, modeVars, fd_open, path_up, connected_fresh, rc_pc, heartbeatVars,
                 restart_unseen, mav_events, lapse>>

-----------------------------------------------------------------------------
(* The heartbeat thread: one pass samples fd, then decides.                *)

HeartbeatSample ==
  /\ hb_pc = "idle"
  /\ hb_pc' = "decide"
  /\ hb_fd_open' = fd_open
  /\ UNCHANGED <<machineVars, autopilot, modeVars, socketVars, heartbeat_fresh, mav_comms_ok,
                 restart_unseen, mav_events, lapse>>

mav_comms_is_up == hb_fd_open /\ heartbeat_fresh
\* MUTANT: a socket gets its window again whenever the link is already down.
RetireOnEdgeOnly == hb_fd_open /\ ~heartbeat_fresh /\ ~connected_fresh /\ mav_comms_ok
mav_link_should_retire == hb_fd_open /\ ~heartbeat_fresh /\ ~connected_fresh

\* MUTANT: only down edges are reported.
HeartbeatDecideDownOnly ==
  /\ hb_pc = "decide"
  /\ hb_pc' = "idle"
  /\ IF mav_comms_ok /\ ~mav_comms_is_up
     THEN /\ Len(mav_events) < MaxEvents
          /\ mav_events' = Append(mav_events, "failure")
     ELSE UNCHANGED mav_events
  /\ lapse' = IF mav_comms_is_up # mav_comms_ok THEN mav_comms_is_up /\ ~LinkOpen ELSE lapse
  /\ mav_comms_ok' = mav_comms_is_up
  /\ broken' = (broken \/ mav_link_should_retire)
  /\ UNCHANGED <<machineVars, autopilot, modeVars, fd_open, path_up, connected_fresh, rc_pc,
                 heartbeat_fresh, hb_fd_open, restart_unseen>>

HeartbeatDecide ==
  /\ hb_pc = "decide"
  /\ hb_pc' = "idle"
  /\ IF mav_comms_is_up # mav_comms_ok
     THEN /\ Len(mav_events) < MaxEvents
          /\ mav_events' = Append(mav_events, IF mav_comms_is_up THEN "ok" ELSE "failure")
          /\ lapse' = (mav_comms_is_up /\ ~LinkOpen)
     ELSE UNCHANGED <<mav_events, lapse>>
  /\ mav_comms_ok' = mav_comms_is_up
  /\ broken' = (broken \/ mav_link_should_retire)
  /\ UNCHANGED <<machineVars, autopilot, modeVars, fd_open, path_up, connected_fresh, rc_pc,
                 heartbeat_fresh, hb_fd_open, restart_unseen>>

-----------------------------------------------------------------------------
(* The reconnector thread: attemptReconnect.                               *)

\* disconnect_from_mav, then the broken flag is cleared.
disconnect_from_mav ==
  /\ rc_pc = "idle" /\ broken
  /\ fd_open' = FALSE /\ path_up' = FALSE
  /\ broken' = FALSE
  /\ rc_pc' = "dial"
  /\ lapse' = (lapse \/ (LinkOpen /\ mav_comms_ok))
  /\ UNCHANGED <<machineVars, autopilot, modeVars, connected_fresh, heartbeatVars, restart_unseen, mav_events>>

\* Backoff over and the dial succeeds.  last_heartbeat_ts is left as it was.
connect_to_mav ==
  /\ ~fd_open
  /\ rc_pc = "dial" \/ ~broken
  /\ fd_open' = TRUE /\ path_up' = TRUE
  /\ broken' = FALSE
  /\ connected_fresh' = TRUE
  /\ rc_pc' = "idle"
  /\ UNCHANGED <<machineVars, autopilot, modeVars, heartbeatVars, restart_unseen, mav_events, lapse>>

\* The backoff is not over, or the dial fails.
NoDial ==
  /\ rc_pc = "dial"
  /\ rc_pc' = "idle"
  /\ UNCHANGED <<machineVars, autopilot, modeVars, fd_open, path_up, broken, connected_fresh, heartbeatVars,
                 restart_unseen, mav_events, lapse>>

-----------------------------------------------------------------------------
(* The event loop.                                                         *)

\* setResolvedMode with no airframe type: the mode that actionState asks for is
\* kept for the first heartbeat, the newest one only.
Deferral(reapplied) ==
  /\ UNCHANGED airframe_known
  /\ pending_mode' =
       IF ~airframe_known /\ current_state' # "searching" /\ (reapplied \/ current_state' # current_state)
       THEN FMU!MavCommandOf(current_state', NoTarget) ELSE pending_mode

\* The machine's MAV events: EventDispatcher's MavCommsStatus and
\* MavAutopilotRestart handlers.
DispatchMavEvent ==
  /\ mav_events # <<>>
  /\ mav_events' = Tail(mav_events)
  /\ \/ Head(mav_events) = "failure" /\ FMU!setMavCommsFailure(TRUE)
     \/ Head(mav_events) = "ok" /\ FMU!setMavCommsFailure(FALSE)
     \/ Head(mav_events) = "restart" /\ FMU!reassertState
  /\ Deferral(Head(mav_events) = "restart" \/ (Head(mav_events) = "ok" /\ mav_comms_lost))
  /\ UNCHANGED <<socketVars, heartbeatVars, restart_unseen, lapse>>

\* Inputs of the other producers.
OtherInput ==
  /\ \/ \E cmd \in Commands : FMU!FSSNewCommand(cmd, NoTarget)
     \/ \E failed \in BOOLEAN : FMU!setCommsFailure(failed)
     \/ \E low \in BOOLEAN : FMU!setLowBattery(low)
  /\ Deferral(FALSE)
  /\ UNCHANGED <<socketVars, heartbeatVars, restart_unseen, mav_events, lapse>>

LinkInit ==
  /\ airframe_known = FALSE /\ pending_mode = FMU!NoMavCommand
  /\ fd_open \in BOOLEAN /\ path_up = fd_open  \* start() has dialled, with either result
  /\ broken = FALSE
  /\ connected_fresh = fd_open
  /\ heartbeat_fresh = FALSE /\ mav_comms_ok = TRUE
  /\ hb_pc = "idle" /\ hb_fd_open = FALSE
  /\ rc_pc = "idle"
  /\ restart_unseen = FALSE
  /\ mav_events = <<>>
  /\ lapse = ~fd_open
  /\ FMU!Init

HeartbeatThread == HeartbeatSample \/ HeartbeatDecide
Reconnector == disconnect_from_mav \/ connect_to_mav \/ NoDial
LinkRecvThread == HeartbeatHeard \/ RecvRestart \/ SocketFails
FarEnd == PathLost \/ AutopilotReboots \/ HeartbeatAges \/ ConnectAges
LinkEventLoop == DispatchMavEvent \/ OtherInput

LinkNext == HeartbeatThread \/ Reconnector \/ LinkRecvThread \/ FarEnd \/ LinkEventLoop

\* Threads keep running and time passes: the event loop drains its queue, the
\* heartbeat loop passes every second, the reconnector visits a broken socket.
\* Nothing is assumed of the far end, of a dial, or of a dead socket reporting.
Fairness ==
  /\ WF_linkVars(DispatchMavEvent)
  /\ WF_linkVars(HeartbeatSample) /\ WF_linkVars(HeartbeatDecide)
  /\ WF_linkVars(disconnect_from_mav) /\ WF_linkVars(NoDial)
  /\ WF_linkVars(HeartbeatAges /\ ~LinkOpen) /\ WF_linkVars(ConnectAges)

LinkSpec == LinkInit /\ [][LinkNext]_linkVars
FairSpec == LinkSpec /\ Fairness

-----------------------------------------------------------------------------
\* Types; a mode is deferred only until the airframe type is known.
LinkTypeOK ==
  /\ {fd_open, path_up, broken, heartbeat_fresh, connected_fresh, mav_comms_ok, hb_fd_open,
      airframe_known, restart_unseen, lapse} \subseteq BOOLEAN
  /\ path_up => fd_open
  /\ pending_mode \in FMU!MavCommand
  /\ airframe_known => pending_mode = FMU!NoMavCommand
  /\ hb_pc \in {"idle", "decide"} /\ rc_pc \in {"idle", "dial"}
  /\ mav_events \in Seq({"failure", "ok", "restart"}) /\ Len(mav_events) <= MaxEvents

\* The queued comms edges, by their places in the queue.
Edges == {i \in DOMAIN mav_events : mav_events[i] # "restart"}
Edge(up) == IF up THEN "ok" ELSE "failure"

\* The machine, once the queue is drained, believes what was last reported: the
\* first edge queued contradicts what it believes, every other one the edge
\* before it, and the last is what was reported (heartbeat_loop, setMavCommsFailure).
EdgesAlternate ==
  /\ \A i \in Edges : (\A j \in Edges : i <= j) => mav_events[i] = Edge(mav_comms_lost)
  /\ \A i, j \in Edges : i < j /\ (\A k \in Edges : k <= i \/ j <= k) => mav_events[i] # mav_events[j]
  /\ \A i \in Edges : (\A j \in Edges : j <= i) => mav_events[i] = Edge(mav_comms_ok)
  /\ Edges = {} => mav_comms_ok = ~mav_comms_lost

\* The link and the machine's view of it have settled.
Settled == LinkOpen /\ airframe_known /\ mav_comms_ok /\ mav_events = <<>> /\ ~restart_unseen

\* The autopilot is executing the command of the current state (searching hands
\* the autopilot to the SMM upload instead).
AutopilotObeys ==
  \/ current_state = "searching" \/ FMU!Unevaluated
  \/ autopilot = FMU!MavCommandOf(current_state, fss_command_target)

\* Whatever was lost to dead sockets, reboots and reconnects in between, once the
\* link has settled the autopilot executes the current state, provided each loss
\* was reported as a down edge (setMavCommsFailure and reassertState re-command).
RecoveryRedrives == Settled /\ ~lapse => AutopilotObeys

\* A socket whose far end is gone is torn down even if it never reports an error
\* (mav_link_should_retire in heartbeat_loop, attemptReconnect).
DeadSocketRetired == (fd_open /\ ~path_up) ~> ~fd_open

\* A link lost for good engages the MAV comms failsafe for good, and a link that
\* stays healthy releases it for good (heartbeat_loop's edges).
CommsViewConverges ==
  /\ <>[](~LinkOpen) => <>[]mav_comms_lost
  /\ <>[](LinkOpen /\ heartbeat_fresh) => <>[](~mav_comms_lost)
=============================================================================
