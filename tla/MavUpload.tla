------------------------------ MODULE MavUpload ------------------------------
(***************************************************************************)
(* Flight modes and mission uploads of mav_connection                      *)
(* (src/src/mav/mavlink.cpp): the event loop commands modes, gotos and     *)
(* searches while the recv thread serves mission items, engages AUTO on a  *)
(* MISSION_ACK and replays a deferred mode on a heartbeat.  A step is one  *)
(* region under state_lock, or one message sent under send_lock.           *)
(*                                                                         *)
(* A mission is abstracted to one item, named by what it flies.  A message *)
(* sent on an open link takes effect at the autopilot at once; its answers *)
(* queue up in from_ap.                                                    *)
(***************************************************************************)
EXTENDS Naturals, Sequences

CONSTANTS
  GotoPoints, Searches,  \* what missions fly: disjoint
  None,
  Modes,                 \* mode commands that take control
  MaxUploads,            \* bound on MISSION_COUNTs sent
  MaxReplies             \* bound on queued autopilot messages

ASSUME MissionAssumption ==
  /\ GotoPoints \cap Searches = {}
  /\ None \notin GotoPoints \cup Searches \cup Modes \cup {"auto"}
  /\ Modes \subseteq {"rtl", "hold", "manual"} /\ "rtl" \in Modes
  /\ MaxUploads \in Nat /\ MaxReplies \in Nat

Missions == GotoPoints \cup Searches

VARIABLES
  \* mav_connection, under state_lock
  goto_active, goto_ack_pending, goto_position,
  search, search_loading, search_loaded, pending_mode_command,
  type_known,      \* the heartbeat has told the airframe type
  \* the event loop's call: [op, arg] with op in mode, disarm, goto, search
  ev_pc, ev_cmd,
  \* the recv thread, between two lock regions, and what it holds
  rx_pc, rx_held,
  \* the link and the autopilot
  link_up, from_ap, ap_mode, ap_mission, ap_upload, ap_rebooted,
  \* history
  uploads,         \* MISSION_COUNTs sent; the latest one opened upload number uploads
  stray,           \* an answer to a superseded upload was acted upon
  overtaken,       \* the last command ran while the recv thread was acting
  lost,            \* what the last command sends met a closed link, or a reboot erased it
  cut,             \* since the last command the link dropped, a restart was noticed, or a
                   \* down edge gave its goto up
  landed           \* the upload the autopilot accepted last

flagVars == <<goto_active, goto_ack_pending, goto_position, search, search_loading, search_loaded>>
apVars == <<link_up, from_ap, ap_mode, ap_mission, ap_upload, ap_rebooted>>
evVars == <<ev_pc, ev_cmd>>
rxVars == <<rx_pc, rx_held>>
historyVars == <<uploads, stray, overtaken, lost, cut, landed>>
vars == <<flagVars, pending_mode_command, type_known, evVars, rxVars, apVars, historyVars>>

Request(u) == [type |-> "request", upload |-> u]
Ack(u, accepted) == [type |-> IF accepted THEN "accepted" ELSE "rejected", upload |-> u]

-----------------------------------------------------------------------------
(* Shared by both threads.                                                 *)

\* MUTANT: a mission already loaded still counts as loaded.
InvalidateKeepsLoaded ==
  /\ search' = IF search_loading THEN None ELSE search
  /\ goto_active' = FALSE /\ goto_ack_pending' = FALSE /\ search_loading' = FALSE
  /\ UNCHANGED <<goto_position, search_loaded>>

invalidateInFlightUploadLocked ==
  /\ search' = IF search_loading THEN None ELSE search
  /\ goto_active' = FALSE /\ goto_ack_pending' = FALSE
  /\ search_loading' = FALSE /\ search_loaded' = FALSE
  /\ UNCHANGED goto_position

\* SET_MODE as it reaches the autopilot.
setFlightMode(mode) == ap_mode' = IF link_up THEN mode ELSE ap_mode

-----------------------------------------------------------------------------
(* The event loop: commandRTL, commandHold, commandManual, commandDisARM   *)
(* (commandForceDisARM and commandTerminate run the same steps),           *)
(* commandGoto and loadSearch.                                             *)

OpenedBy(cmd) == IF cmd.op = "mode" THEN cmd.arg ELSE "rtl"

Begin(cmd) ==
  /\ ev_pc = "idle"
  /\ ev_cmd' = cmd
  /\ overtaken' = (rx_pc # "idle")
  /\ lost' = FALSE /\ cut' = FALSE
  /\ UNCHANGED <<pending_mode_command, type_known, rxVars, apVars, uploads, stray, landed>>

\* commandRTL, commandHold, commandManual, and commandGoto's RTL.
BeginMode == \E mode \in Modes :
  Begin([op |-> "mode", arg |-> mode]) /\ ev_pc' = "set_mode" /\ UNCHANGED flagVars

BeginGoto == \E p \in GotoPoints :
  /\ uploads < MaxUploads
  /\ Begin([op |-> "goto", arg |-> p]) /\ ev_pc' = "set_mode" /\ UNCHANGED flagVars

commandDisARM == Begin([op |-> "disarm", arg |-> None]) /\ ev_pc' = "invalidate" /\ UNCHANGED flagVars

\* A search already loaded is left flying; otherwise it is uploaded.
loadSearch == \E s \in Searches :
  /\ uploads < MaxUploads
  /\ search # s \/ ~search_loaded
  /\ Begin([op |-> "search", arg |-> s])
  /\ search' = s
  /\ ev_pc' = "set_mode"
  /\ UNCHANGED <<goto_active, goto_ack_pending, goto_position, search_loading, search_loaded>>

\* setResolvedMode, up to its state_lock region.
SetMode ==
  /\ ev_pc = "set_mode"
  /\ \/ type_known /\ setFlightMode(OpenedBy(ev_cmd)) /\ ev_pc' = "invalidate" /\ lost' = (lost \/ ~link_up)
     \/ ~type_known /\ ev_pc' = "defer" /\ UNCHANGED <<ap_mode, lost>>
  /\ UNCHANGED <<flagVars, pending_mode_command, type_known, ev_cmd, rxVars, link_up, from_ap,
                 ap_mission, ap_upload, ap_rebooted, uploads, stray, overtaken, cut, landed>>

\* MUTANT: taking control does not invalidate an upload still in flight.
TakeControlKeepsUpload ==
  /\ ev_pc \in {"invalidate", "defer"}
  /\ UNCHANGED flagVars
  /\ pending_mode_command' = CASE ev_pc = "defer" -> OpenedBy(ev_cmd)
                               [] ev_pc = "invalidate" /\ ev_cmd.op # "disarm" -> None
                               [] OTHER -> pending_mode_command
  /\ ev_pc' = IF ev_cmd.op \in {"goto", "search"} THEN "open" ELSE "idle"
  /\ UNCHANGED <<type_known, ev_cmd, rxVars, apVars, historyVars>>

\* ... and its state_lock region; a disarm only invalidates.
TakeControl ==
  /\ ev_pc \in {"invalidate", "defer"}
  /\ invalidateInFlightUploadLocked
  /\ pending_mode_command' = CASE ev_pc = "defer" -> OpenedBy(ev_cmd)
                               [] ev_pc = "invalidate" /\ ev_cmd.op # "disarm" -> None
                               [] OTHER -> pending_mode_command
  /\ ev_pc' = IF ev_cmd.op \in {"goto", "search"} THEN "open" ELSE "idle"
  /\ UNCHANGED <<type_known, ev_cmd, rxVars, apVars, historyVars>>

\* MUTANT: uploadSearch trusts the member search to have survived its RTL.
OpenUploadTrustsSearch ==
  /\ ev_pc = "open"
  /\ goto_active' = (ev_cmd.op = "goto")
  /\ search_loading' = (search_loading \/ ev_cmd.op = "search")
  /\ search_loaded' = FALSE
  /\ goto_position' = IF ev_cmd.op = "goto" THEN ev_cmd.arg ELSE goto_position
  /\ goto_ack_pending' = (goto_ack_pending /\ ev_cmd.op = "goto")
  /\ ev_pc' = "count"
  /\ UNCHANGED <<search, pending_mode_command, type_known, ev_cmd, rxVars, apVars, historyVars>>

\* commandGoto and uploadSearch register the upload ...
OpenUpload ==
  /\ ev_pc = "open"
  /\ \/ /\ ev_cmd.op = "goto"
        /\ goto_position' = ev_cmd.arg /\ goto_active' = TRUE /\ search_loaded' = FALSE
        /\ UNCHANGED <<goto_ack_pending, search, search_loading>>
     \/ /\ ev_cmd.op = "search"
        /\ goto_active' = FALSE /\ goto_ack_pending' = FALSE
        /\ search' = ev_cmd.arg /\ search_loading' = TRUE /\ search_loaded' = FALSE
        /\ UNCHANGED goto_position
  /\ ev_pc' = "count"
  /\ UNCHANGED <<pending_mode_command, type_known, ev_cmd, rxVars, apVars, historyVars>>

\* ... and send MISSION_COUNT; the autopilot drops any upload it had open.
SendCount ==
  /\ ev_pc = "count"
  /\ \/ /\ link_up
        /\ Len(from_ap) < MaxReplies
        /\ uploads' = uploads + 1
        /\ ap_upload' = uploads + 1
        /\ from_ap' = Append(from_ap, Request(uploads + 1))
        /\ ev_pc' = IF ev_cmd.op = "goto" THEN "ack_pending" ELSE "idle"
        /\ UNCHANGED lost
     \/ /\ ~link_up
        /\ ev_pc' = "idle"
        /\ lost' = TRUE
        /\ UNCHANGED <<uploads, ap_upload, from_ap>>
  /\ UNCHANGED <<flagVars, pending_mode_command, type_known, ev_cmd, rxVars, link_up, ap_mode, ap_mission,
                 ap_rebooted, stray, overtaken, cut, landed>>

\* MUTANT: the ack of the goto is not waited for.
AckNotAwaited ==
  /\ ev_pc = "ack_pending"
  /\ ev_pc' = "idle"
  /\ UNCHANGED <<flagVars, pending_mode_command, type_known, ev_cmd, rxVars, apVars, historyVars>>

MarkAckPending ==
  /\ ev_pc = "ack_pending"
  /\ goto_ack_pending' = TRUE
  /\ ev_pc' = "idle"
  /\ UNCHANGED <<goto_active, goto_position, search, search_loading, search_loaded, pending_mode_command,
                 type_known, ev_cmd, rxVars, apVars, historyVars>>

-----------------------------------------------------------------------------
(* The recv thread.                                                        *)

Receives(type) ==
  /\ rx_pc = "idle"
  /\ from_ap # <<>> /\ Head(from_ap).type = type
  /\ from_ap' = Tail(from_ap)
  /\ UNCHANGED <<link_up, ap_mode, ap_mission, ap_upload, ap_rebooted>>

Superseded == Head(from_ap).upload # uploads

\* History of a recv step that acts on a message.
Acting(on_superseded) ==
  /\ stray' = (stray \/ on_superseded)
  /\ overtaken' = (overtaken \/ ev_pc # "idle")

\* MISSION_REQUEST: send_waypoint copies what is being uploaded, if anything.
RecvRequest ==
  /\ Receives("request")
  /\ \/ ~goto_active /\ ~search_loading /\ UNCHANGED <<rxVars, stray, overtaken>>
     \/ /\ goto_active \/ search_loading
        /\ rx_pc' = "item"
        /\ rx_held' = IF goto_active THEN goto_position ELSE search
        /\ Acting(Superseded)
  /\ UNCHANGED <<flagVars, pending_mode_command, type_known, evVars, uploads, lost, cut, landed>>

\* The item goes out; the autopilot has its mission and accepts or rejects it.
send_waypoint ==
  /\ rx_pc = "item"
  /\ rx_pc' = "idle" /\ rx_held' = None
  /\ IF link_up /\ ap_upload # 0
     THEN /\ Len(from_ap) < MaxReplies
          /\ \E accepted \in BOOLEAN :
               /\ from_ap' = Append(from_ap, Ack(ap_upload, accepted))
               /\ ap_mission' = IF accepted THEN rx_held ELSE ap_mission
               /\ landed' = IF accepted THEN ap_upload ELSE landed
          /\ ap_upload' = 0
     ELSE UNCHANGED <<from_ap, ap_mission, ap_upload, landed>>
  /\ UNCHANGED <<flagVars, pending_mode_command, type_known, evVars, link_up, ap_mode, ap_rebooted,
                 uploads, stray, overtaken, lost, cut>>

\* MUTANT: a rejected mission is engaged as well.
MissionAckUnchecked(accepted) ==
  /\ Receives(IF accepted THEN "accepted" ELSE "rejected")
  /\ goto_active' = (goto_active /\ ~goto_ack_pending)
  /\ goto_ack_pending' = FALSE /\ search_loading' = FALSE
  /\ search_loaded' = (search_loaded \/ search_loading)
  /\ rx_pc' = IF goto_ack_pending \/ search_loading THEN "engage" ELSE "idle"
  /\ IF goto_ack_pending \/ search_loading THEN Acting(Superseded) ELSE UNCHANGED <<stray, overtaken>>
  /\ UNCHANGED <<goto_position, search, rx_held, pending_mode_command, type_known, evVars, uploads, lost, cut, landed>>

\* MISSION_ACK: the upload still pending, if any, ends with it ...
mission_ack(accepted) ==
  /\ Receives(IF accepted THEN "accepted" ELSE "rejected")
  /\ goto_active' = (goto_active /\ ~goto_ack_pending)
  /\ goto_ack_pending' = FALSE
  /\ search_loading' = FALSE
  /\ search_loaded' = (search_loaded \/ (search_loading /\ accepted))
  /\ search' = IF search_loading /\ ~accepted THEN None ELSE search
  /\ rx_pc' = IF accepted /\ (goto_ack_pending \/ search_loading) THEN "engage" ELSE "idle"
  /\ IF goto_ack_pending \/ search_loading THEN Acting(Superseded) ELSE UNCHANGED <<stray, overtaken>>
  /\ UNCHANGED <<goto_position, rx_held, pending_mode_command, type_known, evVars, uploads, lost, cut, landed>>

\* ... and, outside the lock, setCurrentWP and commandAuto fly it.
commandAuto ==
  /\ rx_pc = "engage"
  /\ \/ type_known /\ setFlightMode("auto") /\ rx_pc' = "engaged" /\ lost' = (lost \/ ~link_up)
     \/ ~type_known /\ rx_pc' = "deferred" /\ UNCHANGED <<ap_mode, lost>>
  /\ UNCHANGED <<flagVars, pending_mode_command, type_known, evVars, rx_held, link_up, from_ap, ap_mission,
                 ap_upload, ap_rebooted, uploads, stray, overtaken, cut, landed>>

AutoCommanded ==
  /\ rx_pc \in {"engaged", "deferred"}
  /\ rx_pc' = "idle"
  /\ pending_mode_command' = IF rx_pc = "engaged" THEN None ELSE "auto"
  /\ UNCHANGED <<flagVars, type_known, evVars, rx_held, apVars, historyVars>>

\* HEARTBEAT: the type is stored and replayPendingMode reads what was deferred ...
RecvHeartbeat ==
  /\ link_up /\ rx_pc = "idle"
  /\ ~type_known \/ pending_mode_command # None
  /\ type_known' = TRUE
  /\ \/ pending_mode_command = None /\ UNCHANGED <<rxVars, stray, overtaken>>
     \/ /\ pending_mode_command # None
        /\ rx_pc' = "replay" /\ rx_held' = pending_mode_command
        /\ Acting(FALSE)
  /\ UNCHANGED <<flagVars, pending_mode_command, evVars, apVars, uploads, lost, cut, landed>>

ReplaySend ==
  /\ rx_pc = "replay"
  /\ setFlightMode(rx_held)
  /\ lost' = (lost \/ ~link_up)
  /\ rx_pc' = "replayed"
  /\ UNCHANGED <<flagVars, pending_mode_command, type_known, evVars, rx_held, link_up, from_ap, ap_mission,
                 ap_upload, ap_rebooted, uploads, stray, overtaken, cut, landed>>

\* ... and, once it is sent, forgets it unless a newer one is pending.
replayPendingMode ==
  /\ rx_pc = "replayed"
  /\ rx_pc' = "idle" /\ rx_held' = None
  /\ pending_mode_command' = IF pending_mode_command = rx_held THEN None ELSE pending_mode_command
  /\ search_loaded' = (search_loaded /\ rx_held = "auto")
  /\ UNCHANGED <<goto_active, goto_ack_pending, goto_position, search, search_loading, type_known, evVars,
                 apVars, historyVars>>

\* The autopilot's uptime went backwards: what was uploaded is gone.
handleAutopilotRestart ==
  /\ link_up /\ rx_pc = "idle" /\ ap_rebooted
  /\ ap_rebooted' = FALSE
  /\ invalidateInFlightUploadLocked
  /\ cut' = TRUE
  /\ UNCHANGED <<pending_mode_command, type_known, evVars, rxVars, link_up, from_ap, ap_mode, ap_mission,
                 ap_upload, uploads, stray, overtaken, lost, landed>>

-----------------------------------------------------------------------------
(* The link, the heartbeat thread's down edge, and the autopilot.          *)

\* The socket is lost, with whatever the autopilot had answered on it.
LinkDrops ==
  /\ link_up
  /\ link_up' = FALSE /\ from_ap' = <<>>
  /\ cut' = TRUE
  /\ UNCHANGED <<flagVars, pending_mode_command, type_known, evVars, rxVars, ap_mode, ap_mission, ap_upload,
                 ap_rebooted, uploads, stray, overtaken, lost, landed>>

LinkRestored ==
  /\ ~link_up
  /\ link_up' = TRUE
  /\ UNCHANGED <<flagVars, pending_mode_command, type_known, evVars, rxVars, from_ap, ap_mode, ap_mission,
                 ap_upload, ap_rebooted, historyVars>>

\* heartbeat_loop's down edge gives up a goto upload in flight.  The socket may
\* be open: five seconds without a heartbeat make an edge too, and so does the
\* first pass after a connect.  The ack can then still arrive.
DownEdge ==
  /\ goto_ack_pending
  /\ goto_ack_pending' = FALSE
  /\ cut' = TRUE
  /\ UNCHANGED <<goto_active, goto_position, search, search_loading, search_loaded, pending_mode_command,
                 type_known, evVars, rxVars, apVars, uploads, stray, overtaken, lost, landed>>

\* The autopilot asks again for an item it has not received.
ApAsksAgain ==
  /\ link_up /\ ap_upload # 0 /\ Len(from_ap) < MaxReplies
  /\ from_ap' = Append(from_ap, Request(ap_upload))
  /\ UNCHANGED <<flagVars, pending_mode_command, type_known, evVars, rxVars, link_up, ap_mode, ap_mission,
                 ap_upload, ap_rebooted, historyVars>>

\* The autopilot reboots, into a mode of its own and with nothing loaded.
ApReboots ==
  /\ ap_mode' = "boot" /\ ap_mission' = None /\ ap_upload' = 0
  /\ ap_rebooted' = TRUE
  /\ lost' = TRUE
  /\ UNCHANGED <<flagVars, pending_mode_command, type_known, evVars, rxVars, link_up, from_ap, uploads, stray,
                 overtaken, cut, landed>>

Init ==
  /\ goto_active = FALSE /\ goto_ack_pending = FALSE /\ goto_position = None
  /\ search = None /\ search_loading = FALSE /\ search_loaded = FALSE
  /\ pending_mode_command = None /\ type_known = FALSE
  /\ ev_pc = "idle" /\ ev_cmd = [op |-> "none", arg |-> None]
  /\ rx_pc = "idle" /\ rx_held = None
  /\ link_up \in BOOLEAN /\ from_ap = <<>>
  /\ ap_mode = "boot" /\ ap_mission = None /\ ap_upload = 0 /\ ap_rebooted = FALSE
  /\ uploads = 0 /\ stray = FALSE /\ overtaken = FALSE /\ lost = FALSE /\ cut = FALSE /\ landed = 0

EventLoop == BeginMode \/ BeginGoto \/ commandDisARM \/ loadSearch \/ SetMode \/ TakeControl
             \/ OpenUpload \/ SendCount \/ MarkAckPending
RecvThread == RecvRequest \/ send_waypoint \/ (\E accepted \in BOOLEAN : mission_ack(accepted))
              \/ commandAuto \/ AutoCommanded \/ RecvHeartbeat \/ ReplaySend \/ replayPendingMode
              \/ handleAutopilotRestart
Environment == LinkDrops \/ LinkRestored \/ DownEdge \/ ApAsksAgain \/ ApReboots

Next == EventLoop \/ RecvThread \/ Environment

Spec == Init /\ [][Next]_vars

-----------------------------------------------------------------------------
(* Properties.                                                             *)

Idle == ev_pc = "idle" /\ rx_pc = "idle"

\* Types: in particular, no mode reaches the autopilot that was not commanded.
TypeOK ==
  /\ {goto_active, goto_ack_pending, search_loading, search_loaded, type_known, link_up, ap_rebooted,
      stray, overtaken, lost, cut} \subseteq BOOLEAN
  /\ goto_position \in GotoPoints \cup {None} /\ search \in Searches \cup {None}
  /\ pending_mode_command \in Modes \cup {"auto", None}
  /\ ev_pc \in {"idle", "set_mode", "invalidate", "defer", "open", "count", "ack_pending"}
  /\ ev_cmd \in [op : {"none", "mode", "disarm", "goto", "search"}, arg : Modes \cup Missions \cup {None}]
  /\ rx_pc \in {"idle", "item", "engage", "engaged", "deferred", "replay", "replayed"}
  /\ rx_held \in Modes \cup Missions \cup {"auto", None}
  /\ ap_mode \in Modes \cup {"auto", "boot"} /\ ap_mission \in Missions \cup {None}
  /\ uploads \in 0 .. MaxUploads /\ ap_upload \in 0 .. uploads /\ landed \in 0 .. uploads
  /\ from_ap \in Seq([type : {"request", "accepted", "rejected"}, upload : 1 .. uploads])
  /\ Len(from_ap) <= MaxReplies

\* A search being uploaded stands alone, whichever thread gave an upload up last:
\* send_waypoint dereferences search for every item of it, and an item request or
\* an ack could not tell it from a goto (uploadSearch, send_waypoint, mission_ack).
UploadsExclusive == search_loading => search # None /\ ~goto_active

\* A mode command the event loop completed with the recv thread at rest holds,
\* whatever answers of an earlier upload arrive later: it is in force, or will be
\* replayed (setResolvedMode and its invalidation of the upload in flight).
ModeHolds ==
  Idle /\ ev_cmd.op = "mode" /\ ~overtaken /\ ~lost =>
    IF pending_mode_command = None THEN ap_mode = ev_cmd.arg ELSE pending_mode_command = ev_cmd.arg

\* In AUTO the autopilot flies the mission the event loop asked for last, as long
\* as no answer to a superseded upload was taken for an answer to the current one.
AutoFliesCommanded ==
  Idle /\ ap_mode = "auto" /\ ev_cmd.op # "disarm" /\ ~overtaken /\ ~lost /\ ~stray =>
    ev_cmd.op \in {"goto", "search"} /\ ap_mission = ev_cmd.arg

\* loadSearch does nothing for a search it believes loaded; that search is the
\* one the autopilot holds and flies, or will on the next heartbeat.
SearchLoadedIsFlown ==
  Idle /\ search_loaded /\ ~overtaken /\ ~lost /\ ~stray =>
    ap_mission = search /\ "auto" \in {ap_mode, pending_mode_command}

\* A mission the autopilot accepted is flown: its ack, once handled, engages AUTO
\* or leaves it to the next heartbeat.  The exceptions are a link or an autopilot
\* that went away meanwhile, a goto that a down edge gave up, on an open socket
\* too, and an upload whose messages were handled before its sender was done with
\* it: commandGoto expects the ack only after it has sent MISSION_COUNT
\* (mission_ack, heartbeat_loop, commandGoto, uploadSearch).
AcceptedIsEngaged ==
  Idle /\ from_ap = <<>> /\ ev_cmd.op \in {"goto", "search"} /\ landed = uploads
       /\ ~overtaken /\ ~lost /\ ~stray /\ ~cut =>
    "auto" \in {ap_mode, pending_mode_command}

\* An ack that a newer mode overtook is ignored, never acted upon (the comment in
\* mission_ack): once a mode command completed, the autopilot is not in AUTO, even
\* if the recv thread was working on an ack meanwhile.
SafetyModeHolds ==
  Idle /\ ev_cmd.op = "mode" /\ ~lost /\ pending_mode_command = None => ap_mode # "auto"
=============================================================================
