------------------------------ MODULE MavProofs ------------------------------
(***************************************************************************)
(* Proofs for the two models of mav_connection.                            *)
(*                                                                         *)
(* MavUpload, for any missions, modes and bounds: uploads are exclusive, a *)
(* completed mode command holds, and AUTO flies the mission commanded      *)
(* last.                                                                   *)
(*                                                                         *)
(* MavLink, for any commands and any length of its queue: the queued comms *)
(* edges alternate, and once the link has settled the autopilot executes   *)
(* the current state.                                                      *)
(***************************************************************************)
EXTENDS MavUpload, MavLink, TLAPS

-----------------------------------------------------------------------------
(* The uploads: their inductive invariant.                                 *)

\* The calls of the event loop: what each stage of one knows of its command.
EvShape ==
  /\ ev_pc # "idle" => ev_cmd.op # "none"
  /\ ev_pc \in {"set_mode", "defer"} => ev_cmd.op # "disarm"
  /\ ev_pc \in {"open", "count"} => ev_cmd.op \in {"goto", "search"}
  /\ ev_pc = "ack_pending" => ev_cmd.op = "goto"
  /\ ev_cmd.op = "mode" => ev_cmd.arg \in Modes
  /\ ev_cmd.op = "goto" => ev_cmd.arg \in GotoPoints
  /\ ev_cmd.op = "search" => ev_cmd.arg \in Searches
  /\ ev_pc \in {"set_mode", "invalidate", "defer", "open", "count"} /\ ev_cmd.op \in {"goto", "search"}
       => uploads < MaxUploads

\* What the recv thread holds, and what it needs the airframe type for.
RxShape ==
  /\ goto_active => goto_position \in GotoPoints
  /\ rx_pc = "item" => rx_held \in Missions
  /\ rx_pc \in {"replay", "replayed"} => rx_held \in Modes \cup {"auto"}
  /\ rx_pc \in {"replay", "replayed", "engaged"} => type_known
  /\ ~type_known => ap_mode = "boot"

\* A search being uploaded stands alone, and none is left when an upload is opened.
Exclusive == UploadsExclusive /\ (ev_pc = "open" => ~search_loading)

\* The autopilot answers the latest upload once.
IsAck(m) == m.type \in {"accepted", "rejected"} /\ m.upload = uploads
Wire ==
  /\ ap_upload \in {0, uploads}
  /\ ap_upload # 0 => landed # uploads
  /\ \A i \in 1 .. Len(from_ap) :
       IsAck(from_ap[i]) => ap_upload = 0 /\ (from_ap[i].type = "accepted" <=> landed = uploads)
  /\ \A i, j \in 1 .. Len(from_ap) : IsAck(from_ap[i]) /\ IsAck(from_ap[j]) => i = j

\* While a command that nothing overtook runs, the recv thread rests.
Quiet == ~overtaken /\ ev_pc # "idle" => rx_pc = "idle"

Cleared == ~goto_active /\ ~goto_ack_pending /\ ~search_loading /\ ~search_loaded

\* A command that neither the recv thread nor a lost message disturbed, stage by
\* stage.
Undisturbed == ~overtaken /\ ~lost
Commanding ==
  Undisturbed =>
    /\ ev_pc = "invalidate" /\ ev_cmd.op # "disarm" => ap_mode = OpenedBy(ev_cmd)
    /\ ev_pc = "defer" => ap_mode = "boot"
    /\ ev_pc \in {"open", "count", "ack_pending"} =>
         /\ <<pending_mode_command, ap_mode>> \in {<<None, "rtl">>, <<"rtl", "boot">>}
         /\ ~search_loaded /\ ~goto_ack_pending
    /\ ev_pc \in {"count", "ack_pending"} =>
         /\ goto_active => ev_cmd.op = "goto" /\ goto_position = ev_cmd.arg
         /\ search_loading => ev_cmd.op = "search" /\ search = ev_cmd.arg
         /\ ~cut /\ ev_cmd.op = "search" => search_loading
    /\ ev_pc = "ack_pending" => ap_upload = uploads /\ uploads # 0 /\ (~cut => link_up)

\* After a mode command, a disarm, or none at all, no upload is under way.
Resting ==
  Undisturbed /\ ev_pc = "idle" /\ ev_cmd.op \notin {"goto", "search"} =>
    /\ Cleared
    /\ rx_pc \in {"idle", "replay", "replayed"}
    /\ ev_cmd.op = "none" => ap_mode = "boot" /\ pending_mode_command = None /\ rx_pc = "idle"
    /\ ev_cmd.op = "mode" =>
         \/ pending_mode_command = None /\ ap_mode = ev_cmd.arg /\ rx_pc = "idle"
         \/ /\ pending_mode_command = ev_cmd.arg /\ ap_mode \in {"boot", ev_cmd.arg}
            /\ rx_pc # "idle" => rx_held = ev_cmd.arg
            /\ rx_pc = "replayed" => ap_mode = ev_cmd.arg

\* After a goto or a search only its own upload is answered, and AUTO is engaged
\* only for it.
Engaging == rx_pc \in {"engage", "engaged", "deferred"}
Flown == pending_mode_command = "auto" \/ (ap_mode = "auto" /\ pending_mode_command = None)
Flying ==
  Undisturbed /\ ~stray /\ ev_pc = "idle" /\ ev_cmd.op \in {"goto", "search"} =>
    /\ goto_active => ev_cmd.op = "goto" /\ goto_position = ev_cmd.arg
    /\ search_loading => ev_cmd.op = "search" /\ search = ev_cmd.arg
    /\ goto_ack_pending => ev_cmd.op = "goto"
    /\ rx_pc = "item" => rx_held = ev_cmd.arg
    /\ landed = uploads => ap_mission = ev_cmd.arg
    /\ Engaging => landed = uploads
    /\ rx_pc = "engaged" => ap_mode = "auto"
    /\ pending_mode_command \in {None, "rtl", "auto"}
    /\ "auto" \in {ap_mode, pending_mode_command} => landed = uploads
    /\ rx_pc \in {"replay", "replayed"} => rx_held = pending_mode_command
    /\ rx_pc = "replayed" => ap_mode = rx_held
    /\ search_loaded => ev_cmd.op = "search" /\ search = ev_cmd.arg /\ landed = uploads /\ (Engaging \/ Flown)
    /\ ~cut =>
         /\ link_up
         /\ ap_upload # 0 => goto_ack_pending \/ search_loading
         /\ landed = uploads =>
              \/ Engaging \/ Flown
              \/ /\ goto_ack_pending \/ search_loading
                 /\ \E i \in 1 .. Len(from_ap) : IsAck(from_ap[i])

IInv == TypeOK /\ EvShape /\ RxShape /\ Exclusive /\ Wire /\ Quiet /\ Commanding /\ Resting /\ Flying

-----------------------------------------------------------------------------
(* Queues.                                                                 *)

Messages(u) == [type : {"request", "accepted", "rejected"}, upload : 1 .. u]

\* One more message, of a later upload or of the same.
LEMMA QueueGrows ==
  ASSUME NEW u \in Nat, NEW v \in Nat, u <= v, NEW s \in Seq(Messages(u)), NEW m \in Messages(v)
  PROVE  /\ Append(s, m) \in Seq(Messages(v)) /\ Len(s) \in Nat /\ Len(Append(s, m)) = Len(s) + 1
         /\ \A i \in 1 .. Len(s) : Append(s, m)[i] = s[i]
         /\ Append(s, m)[Len(s) + 1] = m
  <1>1. \A x : x \in Messages(u) => x \in Messages(v)
    BY DEF Messages
  <1>2. s \in Seq(Messages(v))
    <2> HIDE DEF Messages
    <2>1. Len(s) \in Nat /\ s \in [1 .. Len(s) -> Messages(u)]
      OBVIOUS
    <2>2. s \in [1 .. Len(s) -> Messages(v)]
      BY <2>1, <1>1
    <2> QED BY <2>1, <2>2
  <1> HIDE DEF Messages
  <1> QED BY <1>2

\* The first message is taken off.
LEMMA QueueShrinks ==
  ASSUME NEW S, NEW s \in Seq(S), s # <<>>
  PROVE  /\ Head(s) = s[1] /\ s[1] \in S /\ Len(s) \in Nat /\ Len(s) # 0
         /\ Tail(s) \in Seq(S) /\ Len(Tail(s)) = Len(s) - 1
         /\ \A i \in 1 .. Len(Tail(s)) : Tail(s)[i] = s[i + 1]
  OBVIOUS

-----------------------------------------------------------------------------
(* Types.                                                                  *)

Booleans ==
  /\ goto_active \in BOOLEAN /\ goto_ack_pending \in BOOLEAN /\ search_loading \in BOOLEAN
  /\ search_loaded \in BOOLEAN /\ type_known \in BOOLEAN /\ link_up \in BOOLEAN /\ ap_rebooted \in BOOLEAN
  /\ stray \in BOOLEAN /\ overtaken \in BOOLEAN /\ lost \in BOOLEAN /\ cut \in BOOLEAN
Scalars ==
  /\ goto_position \in GotoPoints \cup {None} /\ search \in Searches \cup {None}
  /\ pending_mode_command \in Modes \cup {"auto", None}
  /\ ev_pc \in {"idle", "set_mode", "invalidate", "defer", "open", "count", "ack_pending"}
  /\ ev_cmd \in [op : {"none", "mode", "disarm", "goto", "search"}, arg : Modes \cup Missions \cup {None}]
  /\ rx_pc \in {"idle", "item", "engage", "engaged", "deferred", "replay", "replayed"}
  /\ rx_held \in Modes \cup Missions \cup {"auto", None}
  /\ ap_mode \in Modes \cup {"auto", "boot"} /\ ap_mission \in Missions \cup {None}
  /\ uploads \in 0 .. MaxUploads /\ ap_upload \in 0 .. uploads /\ landed \in 0 .. uploads
Queued == from_ap \in Seq(Messages(uploads)) /\ Len(from_ap) <= MaxReplies

\* TypeOK, in the parts the provers take.
LEMMA TypeParts == TypeOK <=> Booleans /\ Scalars /\ Queued
  <1>1. {goto_active, goto_ack_pending, search_loading, search_loaded, type_known, link_up, ap_rebooted,
         stray, overtaken, lost, cut} \subseteq BOOLEAN <=> Booleans
    BY DEF Booleans
  <1> QED BY <1>1 DEF TypeOK, Scalars, Queued, Messages

LEMMA BooleansKept == ASSUME IInv, [Next]_vars PROVE Booleans'
  <1> USE DEF IInv, flagVars, apVars, evVars, rxVars, historyVars
  <1> USE DEF Booleans
  <1>t. Booleans
    BY TypeParts
  <1>1. CASE BeginMode
    BY <1>1, <1>t DEF BeginMode, Begin
  <1>2. CASE BeginGoto
    BY <1>2, <1>t DEF BeginGoto, Begin
  <1>3. CASE commandDisARM
    BY <1>3, <1>t DEF commandDisARM, Begin
  <1>4. CASE loadSearch
    BY <1>4, <1>t DEF loadSearch, Begin
  <1>5. CASE SetMode
    BY <1>5, <1>t DEF SetMode, setFlightMode
  <1>6. CASE TakeControl
    BY <1>6, <1>t DEF TakeControl, invalidateInFlightUploadLocked
  <1>7. CASE OpenUpload
    BY <1>7, <1>t DEF OpenUpload
  <1>8. CASE SendCount
    BY <1>8, <1>t DEF SendCount, Request
  <1>9. CASE MarkAckPending
    BY <1>9, <1>t DEF MarkAckPending
  <1>10. CASE RecvRequest
    BY <1>10, <1>t DEF RecvRequest, Receives, Acting, Superseded
  <1>11. CASE send_waypoint
    BY <1>11, <1>t DEF send_waypoint, Ack
  <1>12. ASSUME NEW accepted \in BOOLEAN, mission_ack(accepted)
         PROVE  Booleans'
    BY <1>12, <1>t DEF mission_ack, Receives, Acting, Superseded
  <1>13. CASE commandAuto
    BY <1>13, <1>t DEF commandAuto, setFlightMode
  <1>14. CASE AutoCommanded
    BY <1>14, <1>t DEF AutoCommanded
  <1>15. CASE RecvHeartbeat
    BY <1>15, <1>t DEF RecvHeartbeat, Acting
  <1>16. CASE ReplaySend
    BY <1>16, <1>t DEF ReplaySend, setFlightMode
  <1>17. CASE replayPendingMode
    BY <1>17, <1>t DEF replayPendingMode
  <1>18. CASE handleAutopilotRestart
    BY <1>18, <1>t DEF handleAutopilotRestart, invalidateInFlightUploadLocked
  <1>19. CASE LinkDrops
    BY <1>19, <1>t DEF LinkDrops
  <1>20. CASE LinkRestored
    BY <1>20, <1>t DEF LinkRestored
  <1>21. CASE DownEdge
    BY <1>21, <1>t DEF DownEdge
  <1>22. CASE ApAsksAgain
    BY <1>22, <1>t DEF ApAsksAgain, Request
  <1>23. CASE ApReboots
    BY <1>23, <1>t DEF ApReboots
  <1>24. CASE UNCHANGED vars
    BY <1>24, <1>t DEF vars
  <1> QED BY <1>1, <1>2, <1>3, <1>4, <1>5, <1>6, <1>7, <1>8, <1>9, <1>10, <1>11, <1>12,
            <1>13, <1>14, <1>15, <1>16, <1>17, <1>18, <1>19, <1>20, <1>21, <1>22, <1>23, <1>24
         DEF Next, EventLoop, RecvThread, Environment

LEMMA ScalarsKept == ASSUME IInv, [Next]_vars PROVE Scalars'
  <1> USE DEF IInv, flagVars, apVars, evVars, rxVars, historyVars
  <1> USE MissionAssumption DEF Scalars, Missions, OpenedBy
  <1>t. Booleans /\ Scalars /\ EvShape /\ RxShape /\ Exclusive
    BY TypeParts
  <1> USE DEF Booleans, EvShape, RxShape, Exclusive, UploadsExclusive
  <1>1. CASE BeginMode
    BY <1>1, <1>t DEF BeginMode, Begin
  <1>2. CASE BeginGoto
    BY <1>2, <1>t DEF BeginGoto, Begin
  <1>3. CASE commandDisARM
    BY <1>3, <1>t DEF commandDisARM, Begin
  <1>4. CASE loadSearch
    BY <1>4, <1>t DEF loadSearch, Begin
  <1>5. CASE SetMode
    BY <1>5, <1>t DEF SetMode, setFlightMode
  <1>6. CASE TakeControl
    BY <1>6, <1>t DEF TakeControl, invalidateInFlightUploadLocked
  <1>7. CASE OpenUpload
    BY <1>7, <1>t DEF OpenUpload
  <1>8. CASE SendCount
    BY <1>8, <1>t DEF SendCount, Request
  <1>9. CASE MarkAckPending
    BY <1>9, <1>t DEF MarkAckPending
  <1>10. CASE RecvRequest
    BY <1>10, <1>t DEF RecvRequest, Receives, Acting, Superseded
  <1>11. CASE send_waypoint
    <2>1. rx_held \in Missions /\ uploads \in Nat /\ ap_upload \in 0 .. uploads
      BY <1>11, <1>t DEF send_waypoint
    <2>2. ap_mission' \in {rx_held, ap_mission} /\ landed' \in {ap_upload, landed} /\ ap_upload' \in {0, ap_upload}
      BY <1>11 DEF send_waypoint
    <2>3. ap_mission' \in Missions \cup {None} /\ ap_upload' \in 0 .. uploads /\ landed' \in 0 .. uploads
      BY <2>1, <2>2, <1>t
    <2> QED BY <1>11, <2>3, <1>t DEF send_waypoint
  <1>12. ASSUME NEW accepted \in BOOLEAN, mission_ack(accepted)
         PROVE  Scalars'
    BY <1>12, <1>t DEF mission_ack, Receives, Acting, Superseded
  <1>13. CASE commandAuto
    BY <1>13, <1>t DEF commandAuto, setFlightMode
  <1>14. CASE AutoCommanded
    BY <1>14, <1>t DEF AutoCommanded
  <1>15. CASE RecvHeartbeat
    BY <1>15, <1>t DEF RecvHeartbeat, Acting
  <1>16. CASE ReplaySend
    BY <1>16, <1>t DEF ReplaySend, setFlightMode
  <1>17. CASE replayPendingMode
    BY <1>17, <1>t DEF replayPendingMode
  <1>18. CASE handleAutopilotRestart
    BY <1>18, <1>t DEF handleAutopilotRestart, invalidateInFlightUploadLocked
  <1>19. CASE LinkDrops
    BY <1>19, <1>t DEF LinkDrops
  <1>20. CASE LinkRestored
    BY <1>20, <1>t DEF LinkRestored
  <1>21. CASE DownEdge
    BY <1>21, <1>t DEF DownEdge
  <1>22. CASE ApAsksAgain
    BY <1>22, <1>t DEF ApAsksAgain, Request
  <1>23. CASE ApReboots
    BY <1>23, <1>t DEF ApReboots
  <1>24. CASE UNCHANGED vars
    BY <1>24, <1>t DEF vars
  <1> QED BY <1>1, <1>2, <1>3, <1>4, <1>5, <1>6, <1>7, <1>8, <1>9, <1>10, <1>11, <1>12,
            <1>13, <1>14, <1>15, <1>16, <1>17, <1>18, <1>19, <1>20, <1>21, <1>22, <1>23, <1>24
         DEF Next, EventLoop, RecvThread, Environment

LEMMA QueuedKept == ASSUME IInv, [Next]_vars PROVE Queued'
  <1> USE DEF IInv, flagVars, apVars, evVars, rxVars, historyVars
  <1> USE DEF Queued
  <1>t. uploads \in Nat /\ from_ap \in Seq(Messages(uploads)) /\ Len(from_ap) <= MaxReplies
        /\ Len(from_ap) \in Nat /\ MaxReplies \in Nat /\ ap_upload \in 0 .. uploads
    BY TypeParts, MissionAssumption DEF Queued, Scalars
  <1>1. CASE BeginMode
    BY <1>1, <1>t DEF BeginMode, Begin
  <1>2. CASE BeginGoto
    BY <1>2, <1>t DEF BeginGoto, Begin
  <1>3. CASE commandDisARM
    BY <1>3, <1>t DEF commandDisARM, Begin
  <1>4. CASE loadSearch
    BY <1>4, <1>t DEF loadSearch, Begin
  <1>5. CASE SetMode
    BY <1>5, <1>t DEF SetMode, setFlightMode
  <1>6. CASE TakeControl
    BY <1>6, <1>t DEF TakeControl, invalidateInFlightUploadLocked
  <1>7. CASE OpenUpload
    BY <1>7, <1>t DEF OpenUpload
  <1>8. CASE SendCount
    <2>1. Request(uploads + 1) \in Messages(uploads + 1) /\ uploads + 1 \in Nat /\ uploads <= uploads + 1
      BY <1>8, <1>t DEF SendCount, Request, Messages
    <2>2. Append(from_ap, Request(uploads + 1)) \in Seq(Messages(uploads + 1)) /\ Len(Append(from_ap, Request(uploads + 1))) = Len(from_ap) + 1
      BY <2>1, <1>t, QueueGrows
    <2> QED BY <1>8, <2>2, <1>t DEF SendCount
  <1>9. CASE MarkAckPending
    BY <1>9, <1>t DEF MarkAckPending
  <1>10. CASE RecvRequest
    <2>1. from_ap # <<>> /\ from_ap' = Tail(from_ap) /\ UNCHANGED uploads
      BY <1>10 DEF RecvRequest, Receives
    <2>2. from_ap' \in Seq(Messages(uploads)) /\ Len(from_ap') = Len(from_ap) - 1
      BY <2>1, <1>t, QueueShrinks
    <2> QED BY <2>1, <2>2, <1>t
  <1>11. CASE send_waypoint
    <2>1. CASE link_up /\ ap_upload # 0
      <3>1. PICK accepted \in BOOLEAN : from_ap' = Append(from_ap, Ack(ap_upload, accepted))
        BY <1>11, <2>1 DEF send_waypoint
      <3>2. Ack(ap_upload, accepted) \in Messages(uploads)
        BY <2>1, <1>t DEF Ack, Messages
      <3>3. from_ap' \in Seq(Messages(uploads)) /\ Len(from_ap') = Len(from_ap) + 1
        BY <3>1, <3>2, <1>t, QueueGrows
      <3> QED BY <1>11, <2>1, <3>3, <1>t DEF send_waypoint
    <2>2. CASE ~(link_up /\ ap_upload # 0)
      BY <1>11, <2>2, <1>t DEF send_waypoint
    <2> QED BY <2>1, <2>2
  <1>12. ASSUME NEW accepted \in BOOLEAN, mission_ack(accepted)
         PROVE  Queued'
    <2>1. from_ap # <<>> /\ from_ap' = Tail(from_ap) /\ UNCHANGED uploads
      BY <1>12 DEF mission_ack, Receives
    <2>2. from_ap' \in Seq(Messages(uploads)) /\ Len(from_ap') = Len(from_ap) - 1
      BY <2>1, <1>t, QueueShrinks
    <2> QED BY <2>1, <2>2, <1>t
  <1>13. CASE commandAuto
    BY <1>13, <1>t DEF commandAuto, setFlightMode
  <1>14. CASE AutoCommanded
    BY <1>14, <1>t DEF AutoCommanded
  <1>15. CASE RecvHeartbeat
    BY <1>15, <1>t DEF RecvHeartbeat, Acting
  <1>16. CASE ReplaySend
    BY <1>16, <1>t DEF ReplaySend, setFlightMode
  <1>17. CASE replayPendingMode
    BY <1>17, <1>t DEF replayPendingMode
  <1>18. CASE handleAutopilotRestart
    BY <1>18, <1>t DEF handleAutopilotRestart, invalidateInFlightUploadLocked
  <1>19. CASE LinkDrops
    <2>1. from_ap' = <<>> /\ UNCHANGED uploads
      BY <1>19 DEF LinkDrops
    <2>2. from_ap' \in Seq(Messages(uploads)) /\ Len(from_ap') = 0
      BY <2>1
    <2> QED BY <2>1, <2>2, <1>t
  <1>20. CASE LinkRestored
    BY <1>20, <1>t DEF LinkRestored
  <1>21. CASE DownEdge
    BY <1>21, <1>t DEF DownEdge
  <1>22. CASE ApAsksAgain
    <2>1. Request(ap_upload) \in Messages(uploads) /\ uploads \in Nat /\ uploads <= uploads
      BY <1>22, <1>t DEF ApAsksAgain, Request, Messages
    <2>2. Append(from_ap, Request(ap_upload)) \in Seq(Messages(uploads)) /\ Len(Append(from_ap, Request(ap_upload))) = Len(from_ap) + 1
      BY <2>1, <1>t, QueueGrows
    <2> QED BY <1>22, <2>2, <1>t DEF ApAsksAgain
  <1>23. CASE ApReboots
    BY <1>23, <1>t DEF ApReboots
  <1>24. CASE UNCHANGED vars
    BY <1>24, <1>t DEF vars
  <1> QED BY <1>1, <1>2, <1>3, <1>4, <1>5, <1>6, <1>7, <1>8, <1>9, <1>10, <1>11, <1>12,
            <1>13, <1>14, <1>15, <1>16, <1>17, <1>18, <1>19, <1>20, <1>21, <1>22, <1>23, <1>24
         DEF Next, EventLoop, RecvThread, Environment

-----------------------------------------------------------------------------
(* The calls of the event loop, the recv thread and the uploads.           *)

LEMMA EvShapeKept == ASSUME IInv, [Next]_vars PROVE EvShape'
  <1> USE DEF IInv, flagVars, apVars, evVars, rxVars, historyVars
  <1> USE DEF EvShape, TypeOK
  <1>1. CASE BeginMode
    BY <1>1 DEF BeginMode, Begin
  <1>2. CASE BeginGoto
    BY <1>2 DEF BeginGoto, Begin
  <1>3. CASE commandDisARM
    BY <1>3 DEF commandDisARM, Begin
  <1>4. CASE loadSearch
    BY <1>4 DEF loadSearch, Begin
  <1>5. CASE SetMode
    BY <1>5 DEF SetMode, setFlightMode
  <1>6. CASE TakeControl
    BY <1>6 DEF TakeControl, invalidateInFlightUploadLocked
  <1>7. CASE OpenUpload
    BY <1>7 DEF OpenUpload
  <1>8. CASE SendCount
    BY <1>8 DEF SendCount, Request
  <1>9. CASE MarkAckPending
    BY <1>9 DEF MarkAckPending
  <1>10. CASE RecvRequest
    BY <1>10 DEF RecvRequest, Receives, Acting, Superseded
  <1>11. CASE send_waypoint
    BY <1>11 DEF send_waypoint, Ack
  <1>12. ASSUME NEW accepted \in BOOLEAN, mission_ack(accepted)
         PROVE  EvShape'
    BY <1>12 DEF mission_ack, Receives, Acting, Superseded
  <1>13. CASE commandAuto
    BY <1>13 DEF commandAuto, setFlightMode
  <1>14. CASE AutoCommanded
    BY <1>14 DEF AutoCommanded
  <1>15. CASE RecvHeartbeat
    BY <1>15 DEF RecvHeartbeat, Acting
  <1>16. CASE ReplaySend
    BY <1>16 DEF ReplaySend, setFlightMode
  <1>17. CASE replayPendingMode
    BY <1>17 DEF replayPendingMode
  <1>18. CASE handleAutopilotRestart
    BY <1>18 DEF handleAutopilotRestart, invalidateInFlightUploadLocked
  <1>19. CASE LinkDrops
    BY <1>19 DEF LinkDrops
  <1>20. CASE LinkRestored
    BY <1>20 DEF LinkRestored
  <1>21. CASE DownEdge
    BY <1>21 DEF DownEdge
  <1>22. CASE ApAsksAgain
    BY <1>22 DEF ApAsksAgain, Request
  <1>23. CASE ApReboots
    BY <1>23 DEF ApReboots
  <1>24. CASE UNCHANGED vars
    BY <1>24 DEF vars
  <1> QED BY <1>1, <1>2, <1>3, <1>4, <1>5, <1>6, <1>7, <1>8, <1>9, <1>10, <1>11, <1>12,
            <1>13, <1>14, <1>15, <1>16, <1>17, <1>18, <1>19, <1>20, <1>21, <1>22, <1>23, <1>24
         DEF Next, EventLoop, RecvThread, Environment

LEMMA RxShapeKept == ASSUME IInv, [Next]_vars PROVE RxShape'
  <1> USE DEF IInv, flagVars, apVars, evVars, rxVars, historyVars
  <1> USE MissionAssumption DEF RxShape, EvShape, Exclusive, UploadsExclusive, TypeOK, Missions
  <1>1. CASE BeginMode
    BY <1>1 DEF BeginMode, Begin
  <1>2. CASE BeginGoto
    BY <1>2 DEF BeginGoto, Begin
  <1>3. CASE commandDisARM
    BY <1>3 DEF commandDisARM, Begin
  <1>4. CASE loadSearch
    BY <1>4 DEF loadSearch, Begin
  <1>5. CASE SetMode
    BY <1>5 DEF SetMode, setFlightMode
  <1>6. CASE TakeControl
    BY <1>6 DEF TakeControl, invalidateInFlightUploadLocked
  <1>7. CASE OpenUpload
    BY <1>7 DEF OpenUpload
  <1>8. CASE SendCount
    BY <1>8 DEF SendCount, Request
  <1>9. CASE MarkAckPending
    BY <1>9 DEF MarkAckPending
  <1>10. CASE RecvRequest
    BY <1>10 DEF RecvRequest, Receives, Acting, Superseded
  <1>11. CASE send_waypoint
    BY <1>11 DEF send_waypoint, Ack
  <1>12. ASSUME NEW accepted \in BOOLEAN, mission_ack(accepted)
         PROVE  RxShape'
    BY <1>12 DEF mission_ack, Receives, Acting, Superseded
  <1>13. CASE commandAuto
    BY <1>13 DEF commandAuto, setFlightMode
  <1>14. CASE AutoCommanded
    BY <1>14 DEF AutoCommanded
  <1>15. CASE RecvHeartbeat
    BY <1>15 DEF RecvHeartbeat, Acting
  <1>16. CASE ReplaySend
    BY <1>16 DEF ReplaySend, setFlightMode
  <1>17. CASE replayPendingMode
    BY <1>17 DEF replayPendingMode
  <1>18. CASE handleAutopilotRestart
    BY <1>18 DEF handleAutopilotRestart, invalidateInFlightUploadLocked
  <1>19. CASE LinkDrops
    BY <1>19 DEF LinkDrops
  <1>20. CASE LinkRestored
    BY <1>20 DEF LinkRestored
  <1>21. CASE DownEdge
    BY <1>21 DEF DownEdge
  <1>22. CASE ApAsksAgain
    BY <1>22 DEF ApAsksAgain, Request
  <1>23. CASE ApReboots
    BY <1>23 DEF ApReboots
  <1>24. CASE UNCHANGED vars
    BY <1>24 DEF vars
  <1> QED BY <1>1, <1>2, <1>3, <1>4, <1>5, <1>6, <1>7, <1>8, <1>9, <1>10, <1>11, <1>12,
            <1>13, <1>14, <1>15, <1>16, <1>17, <1>18, <1>19, <1>20, <1>21, <1>22, <1>23, <1>24
         DEF Next, EventLoop, RecvThread, Environment

LEMMA ExclusiveKept == ASSUME IInv, [Next]_vars PROVE Exclusive'
  <1> USE DEF IInv, flagVars, apVars, evVars, rxVars, historyVars
  <1> USE MissionAssumption DEF Exclusive, UploadsExclusive, EvShape
  <1>1. CASE BeginMode
    BY <1>1 DEF BeginMode, Begin
  <1>2. CASE BeginGoto
    BY <1>2 DEF BeginGoto, Begin
  <1>3. CASE commandDisARM
    BY <1>3 DEF commandDisARM, Begin
  <1>4. CASE loadSearch
    BY <1>4 DEF loadSearch, Begin
  <1>5. CASE SetMode
    BY <1>5 DEF SetMode, setFlightMode
  <1>6. CASE TakeControl
    BY <1>6 DEF TakeControl, invalidateInFlightUploadLocked
  <1>7. CASE OpenUpload
    BY <1>7 DEF OpenUpload
  <1>8. CASE SendCount
    BY <1>8 DEF SendCount, Request
  <1>9. CASE MarkAckPending
    BY <1>9 DEF MarkAckPending
  <1>10. CASE RecvRequest
    BY <1>10 DEF RecvRequest, Receives, Acting, Superseded
  <1>11. CASE send_waypoint
    BY <1>11 DEF send_waypoint, Ack
  <1>12. ASSUME NEW accepted \in BOOLEAN, mission_ack(accepted)
         PROVE  Exclusive'
    BY <1>12 DEF mission_ack, Receives, Acting, Superseded
  <1>13. CASE commandAuto
    BY <1>13 DEF commandAuto, setFlightMode
  <1>14. CASE AutoCommanded
    BY <1>14 DEF AutoCommanded
  <1>15. CASE RecvHeartbeat
    BY <1>15 DEF RecvHeartbeat, Acting
  <1>16. CASE ReplaySend
    BY <1>16 DEF ReplaySend, setFlightMode
  <1>17. CASE replayPendingMode
    BY <1>17 DEF replayPendingMode
  <1>18. CASE handleAutopilotRestart
    BY <1>18 DEF handleAutopilotRestart, invalidateInFlightUploadLocked
  <1>19. CASE LinkDrops
    BY <1>19 DEF LinkDrops
  <1>20. CASE LinkRestored
    BY <1>20 DEF LinkRestored
  <1>21. CASE DownEdge
    BY <1>21 DEF DownEdge
  <1>22. CASE ApAsksAgain
    BY <1>22 DEF ApAsksAgain, Request
  <1>23. CASE ApReboots
    BY <1>23 DEF ApReboots
  <1>24. CASE UNCHANGED vars
    BY <1>24 DEF vars
  <1> QED BY <1>1, <1>2, <1>3, <1>4, <1>5, <1>6, <1>7, <1>8, <1>9, <1>10, <1>11, <1>12,
            <1>13, <1>14, <1>15, <1>16, <1>17, <1>18, <1>19, <1>20, <1>21, <1>22, <1>23, <1>24
         DEF Next, EventLoop, RecvThread, Environment

LEMMA QuietKept == ASSUME IInv, [Next]_vars PROVE Quiet'
  <1> USE DEF IInv, flagVars, apVars, evVars, rxVars, historyVars
  <1> USE DEF Quiet, TypeOK
  <1>1. CASE BeginMode
    BY <1>1 DEF BeginMode, Begin
  <1>2. CASE BeginGoto
    BY <1>2 DEF BeginGoto, Begin
  <1>3. CASE commandDisARM
    BY <1>3 DEF commandDisARM, Begin
  <1>4. CASE loadSearch
    BY <1>4 DEF loadSearch, Begin
  <1>5. CASE SetMode
    BY <1>5 DEF SetMode, setFlightMode
  <1>6. CASE TakeControl
    BY <1>6 DEF TakeControl, invalidateInFlightUploadLocked
  <1>7. CASE OpenUpload
    BY <1>7 DEF OpenUpload
  <1>8. CASE SendCount
    BY <1>8 DEF SendCount, Request
  <1>9. CASE MarkAckPending
    BY <1>9 DEF MarkAckPending
  <1>10. CASE RecvRequest
    BY <1>10 DEF RecvRequest, Receives, Acting, Superseded
  <1>11. CASE send_waypoint
    BY <1>11 DEF send_waypoint, Ack
  <1>12. ASSUME NEW accepted \in BOOLEAN, mission_ack(accepted)
         PROVE  Quiet'
    BY <1>12 DEF mission_ack, Receives, Acting, Superseded
  <1>13. CASE commandAuto
    BY <1>13 DEF commandAuto, setFlightMode
  <1>14. CASE AutoCommanded
    BY <1>14 DEF AutoCommanded
  <1>15. CASE RecvHeartbeat
    BY <1>15 DEF RecvHeartbeat, Acting
  <1>16. CASE ReplaySend
    BY <1>16 DEF ReplaySend, setFlightMode
  <1>17. CASE replayPendingMode
    BY <1>17 DEF replayPendingMode
  <1>18. CASE handleAutopilotRestart
    BY <1>18 DEF handleAutopilotRestart, invalidateInFlightUploadLocked
  <1>19. CASE LinkDrops
    BY <1>19 DEF LinkDrops
  <1>20. CASE LinkRestored
    BY <1>20 DEF LinkRestored
  <1>21. CASE DownEdge
    BY <1>21 DEF DownEdge
  <1>22. CASE ApAsksAgain
    BY <1>22 DEF ApAsksAgain, Request
  <1>23. CASE ApReboots
    BY <1>23 DEF ApReboots
  <1>24. CASE UNCHANGED vars
    BY <1>24 DEF vars
  <1> QED BY <1>1, <1>2, <1>3, <1>4, <1>5, <1>6, <1>7, <1>8, <1>9, <1>10, <1>11, <1>12,
            <1>13, <1>14, <1>15, <1>16, <1>17, <1>18, <1>19, <1>20, <1>21, <1>22, <1>23, <1>24
         DEF Next, EventLoop, RecvThread, Environment

-----------------------------------------------------------------------------
(* The answers of the autopilot.                                           *)

LEMMA WireShrinks ==
  ASSUME Wire, Queued, from_ap # <<>>, from_ap' = Tail(from_ap), UNCHANGED <<uploads, ap_upload, landed>>
  PROVE  Wire'
  <1>1. /\ Len(from_ap) \in Nat /\ Len(from_ap') = Len(from_ap) - 1
        /\ \A i \in 1 .. Len(from_ap') : from_ap'[i] = from_ap[i + 1]
    BY QueueShrinks DEF Queued
  <1>2. \A i \in 1 .. Len(from_ap') : i + 1 \in 1 .. Len(from_ap)
    BY <1>1
  <1>3. \A i \in 1 .. Len(from_ap') : IsAck(from_ap[i])' <=> IsAck(from_ap[i + 1])
    BY <1>1 DEF IsAck
  <1>4. \A i, j \in 1 .. Len(from_ap') : IsAck(from_ap[i])' /\ IsAck(from_ap[j])' => i = j
    <2> SUFFICES ASSUME NEW i \in 1 .. Len(from_ap'), NEW j \in 1 .. Len(from_ap'),
                        IsAck(from_ap[i])', IsAck(from_ap[j])'
                 PROVE  i = j
      OBVIOUS
    <2>1. i + 1 = j + 1
      BY <1>2, <1>3 DEF Wire
    <2> QED BY <2>1
  <1> QED BY <1>1, <1>2, <1>3, <1>4 DEF Wire

LEMMA WireKept == ASSUME IInv, [Next]_vars PROVE Wire'
  <1> USE DEF IInv, flagVars, apVars, evVars, rxVars, historyVars
  <1>t. /\ uploads \in Nat /\ landed \in 0 .. uploads /\ ap_upload \in 0 .. uploads
        /\ from_ap \in Seq(Messages(uploads)) /\ Len(from_ap) \in Nat /\ Queued
        /\ \A i \in 1 .. Len(from_ap) : from_ap[i].upload \in 1 .. uploads
    <2>1. uploads \in Nat /\ landed \in 0 .. uploads /\ ap_upload \in 0 .. uploads /\ Queued
      BY TypeParts DEF Scalars
    <2>2. from_ap \in Seq(Messages(uploads)) /\ Len(from_ap) \in Nat
      BY <2>1 DEF Queued
    <2>3. \A i \in 1 .. Len(from_ap) : from_ap[i] \in Messages(uploads)
      BY <2>2
    <2> QED BY <2>1, <2>2, <2>3 DEF Messages
  <1>same. ASSUME UNCHANGED <<uploads, ap_upload, landed, from_ap>> PROVE Wire'
    BY <1>same DEF Wire, IsAck
  <1>1. CASE BeginMode
    BY <1>1, <1>same DEF BeginMode, Begin
  <1>2. CASE BeginGoto
    BY <1>2, <1>same DEF BeginGoto, Begin
  <1>3. CASE commandDisARM
    BY <1>3, <1>same DEF commandDisARM, Begin
  <1>4. CASE loadSearch
    BY <1>4, <1>same DEF loadSearch, Begin
  <1>5. CASE SetMode
    BY <1>5, <1>same DEF SetMode, setFlightMode
  <1>6. CASE TakeControl
    BY <1>6, <1>same DEF TakeControl, invalidateInFlightUploadLocked
  <1>7. CASE OpenUpload
    BY <1>7, <1>same DEF OpenUpload
  <1>8. CASE SendCount
    <2>1. CASE link_up
      <3>1. uploads' = uploads + 1 /\ ap_upload' = uploads + 1 /\ landed' = landed
            /\ from_ap' = Append(from_ap, Request(uploads + 1))
        BY <1>8, <2>1 DEF SendCount
      <3>2. Request(uploads + 1) \in Messages(uploads + 1)
        BY <1>t DEF Request, Messages
      <3>3. /\ Len(from_ap') = Len(from_ap) + 1 /\ from_ap'[Len(from_ap) + 1] = Request(uploads + 1)
            /\ \A i \in 1 .. Len(from_ap) : from_ap'[i] = from_ap[i]
        BY <3>1, <3>2, <1>t, QueueGrows
      <3>4. \A i \in 1 .. Len(from_ap) : from_ap'[i].upload # uploads'
        BY <3>1, <3>3, <1>t
      <3>5. from_ap'[Len(from_ap) + 1].type = "request"
        BY <3>3 DEF Request
      <3>6. \A i \in 1 .. Len(from_ap') : ~IsAck(from_ap[i])'
        BY <3>3, <3>4, <3>5, <1>t DEF IsAck
      <3> QED BY <3>1, <3>6, <1>t DEF Wire
    <2>2. CASE ~link_up
      BY <1>8, <2>2, <1>same DEF SendCount
    <2> QED BY <2>1, <2>2
  <1>9. CASE MarkAckPending
    BY <1>9, <1>same DEF MarkAckPending
  <1>10. CASE RecvRequest
    <2>1. from_ap # <<>> /\ from_ap' = Tail(from_ap) /\ UNCHANGED <<uploads, ap_upload, landed>>
      BY <1>10 DEF RecvRequest, Receives
    <2> QED BY <2>1, <1>t, WireShrinks
  <1>11. CASE send_waypoint
    <2>1. CASE link_up /\ ap_upload # 0
      <3>1. PICK accepted \in BOOLEAN :
              /\ from_ap' = Append(from_ap, Ack(ap_upload, accepted))
              /\ landed' = IF accepted THEN ap_upload ELSE landed
        BY <1>11, <2>1 DEF send_waypoint
      <3>2. ap_upload' = 0 /\ uploads' = uploads /\ ap_upload = uploads /\ landed # uploads
        BY <1>11, <2>1 DEF send_waypoint, Wire
      <3>3. Ack(ap_upload, accepted) \in Messages(uploads)
        BY <2>1, <1>t DEF Ack, Messages
      <3>4. /\ Len(from_ap') = Len(from_ap) + 1 /\ from_ap'[Len(from_ap) + 1] = Ack(ap_upload, accepted)
            /\ \A i \in 1 .. Len(from_ap) : from_ap'[i] = from_ap[i]
        BY <3>1, <3>3, <1>t, QueueGrows
      <3>5. \A i \in 1 .. Len(from_ap) : ~IsAck(from_ap[i])
        BY <2>1 DEF Wire
      <3>6. \A i \in 1 .. Len(from_ap') : IsAck(from_ap[i])' => i = Len(from_ap) + 1
        BY <3>2, <3>4, <3>5, <1>t DEF IsAck
      <3>7. from_ap'[Len(from_ap) + 1].type = "accepted" <=> landed' = uploads
        BY <3>1, <3>2, <3>4 DEF Ack
      <3> QED BY <3>2, <3>6, <3>7, <1>t DEF Wire
    <2>2. CASE ~(link_up /\ ap_upload # 0)
      BY <1>11, <2>2, <1>same DEF send_waypoint
    <2> QED BY <2>1, <2>2
  <1>12. ASSUME NEW accepted \in BOOLEAN, mission_ack(accepted)
         PROVE  Wire'
    <2>1. from_ap # <<>> /\ from_ap' = Tail(from_ap) /\ UNCHANGED <<uploads, ap_upload, landed>>
      BY <1>12 DEF mission_ack, Receives
    <2> QED BY <2>1, <1>t, WireShrinks
  <1>13. CASE commandAuto
    BY <1>13, <1>same DEF commandAuto, setFlightMode
  <1>14. CASE AutoCommanded
    BY <1>14, <1>same DEF AutoCommanded
  <1>15. CASE RecvHeartbeat
    BY <1>15, <1>same DEF RecvHeartbeat, Acting
  <1>16. CASE ReplaySend
    BY <1>16, <1>same DEF ReplaySend, setFlightMode
  <1>17. CASE replayPendingMode
    BY <1>17, <1>same DEF replayPendingMode
  <1>18. CASE handleAutopilotRestart
    BY <1>18, <1>same DEF handleAutopilotRestart, invalidateInFlightUploadLocked
  <1>19. CASE LinkDrops
    <2>1. from_ap' = <<>> /\ UNCHANGED <<uploads, ap_upload, landed>>
      BY <1>19 DEF LinkDrops
    <2> QED BY <2>1 DEF Wire, IsAck
  <1>20. CASE LinkRestored
    BY <1>20, <1>same DEF LinkRestored
  <1>21. CASE DownEdge
    BY <1>21, <1>same DEF DownEdge
  <1>22. CASE ApAsksAgain
    <2>1. from_ap' = Append(from_ap, Request(ap_upload)) /\ UNCHANGED <<uploads, ap_upload, landed>>
          /\ Request(ap_upload) \in Messages(uploads)
      BY <1>22, <1>t DEF ApAsksAgain, Request, Messages
    <2>2. /\ Len(from_ap') = Len(from_ap) + 1 /\ from_ap'[Len(from_ap) + 1] = Request(ap_upload)
          /\ \A i \in 1 .. Len(from_ap) : from_ap'[i] = from_ap[i]
      BY <2>1, <1>t, QueueGrows
    <2>3. \A i \in 1 .. Len(from_ap') : IsAck(from_ap[i])' => i \in 1 .. Len(from_ap) /\ IsAck(from_ap[i])
      BY <2>1, <2>2, <1>t DEF IsAck, Request
    <2> QED BY <2>1, <2>2, <2>3 DEF Wire
  <1>23. CASE ApReboots
    BY <1>23, <1>t DEF ApReboots, Wire, IsAck
  <1>24. CASE UNCHANGED vars
    BY <1>24, <1>same DEF vars
  <1> QED BY <1>1, <1>2, <1>3, <1>4, <1>5, <1>6, <1>7, <1>8, <1>9, <1>10, <1>11, <1>12,
            <1>13, <1>14, <1>15, <1>16, <1>17, <1>18, <1>19, <1>20, <1>21, <1>22, <1>23, <1>24
         DEF Next, EventLoop, RecvThread, Environment

-----------------------------------------------------------------------------
(* Commands that nothing disturbed.                                        *)

LEMMA CommandingKept == ASSUME IInv, [Next]_vars PROVE Commanding'
  <1> USE DEF IInv, flagVars, apVars, evVars, rxVars, historyVars
  <1> USE DEF Commanding, Undisturbed, Quiet, EvShape, RxShape, Exclusive, UploadsExclusive, TypeOK, OpenedBy
  <1>1. CASE BeginMode
    BY <1>1 DEF BeginMode, Begin
  <1>2. CASE BeginGoto
    BY <1>2 DEF BeginGoto, Begin
  <1>3. CASE commandDisARM
    BY <1>3 DEF commandDisARM, Begin
  <1>4. CASE loadSearch
    BY <1>4 DEF loadSearch, Begin
  <1>5. CASE SetMode
    BY <1>5 DEF SetMode, setFlightMode
  <1>6. CASE TakeControl
    BY <1>6 DEF TakeControl, invalidateInFlightUploadLocked
  <1>7. CASE OpenUpload
    BY <1>7 DEF OpenUpload
  <1>8. CASE SendCount
    BY <1>8 DEF SendCount, Request
  <1>9. CASE MarkAckPending
    BY <1>9 DEF MarkAckPending
  <1>10. CASE RecvRequest
    BY <1>10 DEF RecvRequest, Receives, Acting, Superseded
  <1>11. CASE send_waypoint
    BY <1>11 DEF send_waypoint, Ack
  <1>12. ASSUME NEW accepted \in BOOLEAN, mission_ack(accepted)
         PROVE  Commanding'
    BY <1>12 DEF mission_ack, Receives, Acting, Superseded
  <1>13. CASE commandAuto
    BY <1>13 DEF commandAuto, setFlightMode
  <1>14. CASE AutoCommanded
    BY <1>14 DEF AutoCommanded
  <1>15. CASE RecvHeartbeat
    BY <1>15 DEF RecvHeartbeat, Acting
  <1>16. CASE ReplaySend
    BY <1>16 DEF ReplaySend, setFlightMode
  <1>17. CASE replayPendingMode
    BY <1>17 DEF replayPendingMode
  <1>18. CASE handleAutopilotRestart
    BY <1>18 DEF handleAutopilotRestart, invalidateInFlightUploadLocked
  <1>19. CASE LinkDrops
    BY <1>19 DEF LinkDrops
  <1>20. CASE LinkRestored
    BY <1>20 DEF LinkRestored
  <1>21. CASE DownEdge
    BY <1>21 DEF DownEdge
  <1>22. CASE ApAsksAgain
    BY <1>22 DEF ApAsksAgain, Request
  <1>23. CASE ApReboots
    BY <1>23 DEF ApReboots
  <1>24. CASE UNCHANGED vars
    BY <1>24 DEF vars
  <1> QED BY <1>1, <1>2, <1>3, <1>4, <1>5, <1>6, <1>7, <1>8, <1>9, <1>10, <1>11, <1>12,
            <1>13, <1>14, <1>15, <1>16, <1>17, <1>18, <1>19, <1>20, <1>21, <1>22, <1>23, <1>24
         DEF Next, EventLoop, RecvThread, Environment

LEMMA RestingKept == ASSUME IInv, [Next]_vars PROVE Resting'
  <1> USE DEF IInv, flagVars, apVars, evVars, rxVars, historyVars
  <1> USE DEF Resting, Undisturbed, Cleared, Commanding, Quiet, EvShape, RxShape, TypeOK, OpenedBy
  <1>1. CASE BeginMode
    BY <1>1 DEF BeginMode, Begin
  <1>2. CASE BeginGoto
    BY <1>2 DEF BeginGoto, Begin
  <1>3. CASE commandDisARM
    BY <1>3 DEF commandDisARM, Begin
  <1>4. CASE loadSearch
    BY <1>4 DEF loadSearch, Begin
  <1>5. CASE SetMode
    BY <1>5 DEF SetMode, setFlightMode
  <1>6. CASE TakeControl
    BY <1>6 DEF TakeControl, invalidateInFlightUploadLocked
  <1>7. CASE OpenUpload
    BY <1>7 DEF OpenUpload
  <1>8. CASE SendCount
    BY <1>8 DEF SendCount, Request
  <1>9. CASE MarkAckPending
    BY <1>9 DEF MarkAckPending
  <1>10. CASE RecvRequest
    BY <1>10 DEF RecvRequest, Receives, Acting, Superseded
  <1>11. CASE send_waypoint
    BY <1>11 DEF send_waypoint, Ack
  <1>12. ASSUME NEW accepted \in BOOLEAN, mission_ack(accepted)
         PROVE  Resting'
    BY <1>12 DEF mission_ack, Receives, Acting, Superseded
  <1>13. CASE commandAuto
    BY <1>13 DEF commandAuto, setFlightMode
  <1>14. CASE AutoCommanded
    BY <1>14 DEF AutoCommanded
  <1>15. CASE RecvHeartbeat
    BY <1>15 DEF RecvHeartbeat, Acting
  <1>16. CASE ReplaySend
    BY <1>16 DEF ReplaySend, setFlightMode
  <1>17. CASE replayPendingMode
    BY <1>17 DEF replayPendingMode
  <1>18. CASE handleAutopilotRestart
    BY <1>18 DEF handleAutopilotRestart, invalidateInFlightUploadLocked
  <1>19. CASE LinkDrops
    BY <1>19 DEF LinkDrops
  <1>20. CASE LinkRestored
    BY <1>20 DEF LinkRestored
  <1>21. CASE DownEdge
    BY <1>21 DEF DownEdge
  <1>22. CASE ApAsksAgain
    BY <1>22 DEF ApAsksAgain, Request
  <1>23. CASE ApReboots
    BY <1>23 DEF ApReboots
  <1>24. CASE UNCHANGED vars
    BY <1>24 DEF vars
  <1> QED BY <1>1, <1>2, <1>3, <1>4, <1>5, <1>6, <1>7, <1>8, <1>9, <1>10, <1>11, <1>12,
            <1>13, <1>14, <1>15, <1>16, <1>17, <1>18, <1>19, <1>20, <1>21, <1>22, <1>23, <1>24
         DEF Next, EventLoop, RecvThread, Environment

LEMMA FlyingKept == ASSUME IInv, [Next]_vars PROVE Flying'
  <1> USE DEF IInv, flagVars, apVars, evVars, rxVars, historyVars
  <1> USE MissionAssumption DEF Flying, Undisturbed, Engaging, Flown, Commanding, Quiet, Wire, IsAck, EvShape, RxShape,
             Exclusive, UploadsExclusive, TypeOK, OpenedBy, Missions
  <1>1. CASE BeginMode
    BY <1>1 DEF BeginMode, Begin
  <1>2. CASE BeginGoto
    BY <1>2 DEF BeginGoto, Begin
  <1>3. CASE commandDisARM
    BY <1>3 DEF commandDisARM, Begin
  <1>4. CASE loadSearch
    BY <1>4 DEF loadSearch, Begin
  <1>5. CASE SetMode
    BY <1>5 DEF SetMode, setFlightMode
  <1>6. CASE TakeControl
    BY <1>6 DEF TakeControl, invalidateInFlightUploadLocked
  <1>7. CASE OpenUpload
    BY <1>7 DEF OpenUpload
  <1>8. CASE SendCount
    BY <1>8 DEF SendCount, Request
  <1>9. CASE MarkAckPending
    BY <1>9 DEF MarkAckPending
  <1>10. CASE RecvRequest
    <2> SUFFICES ASSUME Undisturbed', ~stray', ev_pc' = "idle", ev_cmd'.op \in {"goto", "search"}
                 PROVE  Flying'
      BY DEF Flying
    <2> DEFINE acts == rx_pc' = "item" /\ rx_held' = IF goto_active THEN goto_position ELSE search
    <2>1. /\ rx_pc = "idle" /\ from_ap # <<>> /\ Head(from_ap).type = "request" /\ from_ap' = Tail(from_ap)
          /\ UNCHANGED <<flagVars, pending_mode_command, evVars, link_up, ap_mode, ap_mission, ap_upload,
                         uploads, lost, cut, landed>>
      BY <1>10 DEF RecvRequest, Receives
    <2>2. (stray => stray') /\ (overtaken => overtaken')
      BY <1>10 DEF RecvRequest, Acting
    <2>3. UNCHANGED rxVars \/ ((goto_active \/ search_loading) /\ acts)
      BY <1>10 DEF RecvRequest
    <2>4. Undisturbed /\ ~stray
      BY <2>1, <2>2
    <2>5. (\E i \in 1 .. Len(from_ap) : IsAck(from_ap[i])) => \E i \in 1 .. Len(from_ap') : IsAck(from_ap[i])'
      <3>1. /\ Head(from_ap) = from_ap[1] /\ Len(from_ap) \in Nat /\ Len(from_ap') = Len(from_ap) - 1
            /\ \A i \in 1 .. Len(from_ap') : from_ap'[i] = from_ap[i + 1]
        BY <2>1, TypeParts, QueueShrinks DEF Queued
      <3> SUFFICES ASSUME NEW i \in 1 .. Len(from_ap), IsAck(from_ap[i])
                   PROVE  \E j \in 1 .. Len(from_ap') : IsAck(from_ap[j])'
        OBVIOUS
      <3>2. i # 1
        BY <2>1, <3>1
      <3>3. i - 1 \in 1 .. Len(from_ap') /\ from_ap'[i - 1] = from_ap[i]
        BY <3>1, <3>2
      <3> QED BY <2>1, <3>3
    <2>6. rx_pc' \in {"idle", "item"} /\ (rx_pc' = "item" => rx_held' = ev_cmd.arg)
      BY <2>1, <2>3, <2>4
    <2> HIDE DEF IsAck
    <2> QED BY <2>1, <2>4, <2>5, <2>6
  <1>11. CASE send_waypoint
    <2> SUFFICES ASSUME Undisturbed', ~stray', ev_pc' = "idle", ev_cmd'.op \in {"goto", "search"}
                 PROVE  Flying'
      BY DEF Flying
    <2>1. /\ rx_pc = "item" /\ rx_pc' = "idle"
          /\ UNCHANGED <<flagVars, pending_mode_command, evVars, link_up, ap_mode, uploads, stray, overtaken,
                         lost, cut>>
      BY <1>11 DEF send_waypoint
    <2>2. Undisturbed /\ ~stray /\ rx_held = ev_cmd.arg
      BY <2>1
    <2>3. CASE link_up /\ ap_upload # 0
      <3>1. PICK accepted \in BOOLEAN :
              /\ from_ap' = Append(from_ap, Ack(ap_upload, accepted))
              /\ ap_mission' = (IF accepted THEN rx_held ELSE ap_mission)
              /\ landed' = (IF accepted THEN ap_upload ELSE landed)
        BY <1>11, <2>3 DEF send_waypoint
      <3>2. ap_upload' = 0 /\ ap_upload = uploads /\ landed # uploads
        BY <1>11, <2>3 DEF send_waypoint
      <3>3. accepted => \E i \in 1 .. Len(from_ap') : IsAck(from_ap[i])'
        <4>1. uploads \in Nat /\ Len(from_ap) \in Nat /\ from_ap \in Seq(Messages(uploads))
              /\ Ack(ap_upload, accepted) \in Messages(uploads)
          BY <2>3, <3>2, TypeParts DEF Queued, Scalars, Ack, Messages
        <4>2. Len(from_ap') = Len(from_ap) + 1 /\ from_ap'[Len(from_ap) + 1] = Ack(ap_upload, accepted)
          BY <3>1, <4>1, QueueGrows
        <4>3. accepted => IsAck(from_ap'[Len(from_ap) + 1])
          BY <3>2, <4>2 DEF Ack
        <4>4. Len(from_ap) + 1 \in 1 .. Len(from_ap')
          BY <4>1, <4>2
        <4> QED BY <2>1, <4>3, <4>4
      <3> HIDE DEF IsAck
      <3> QED BY <2>1, <2>2, <2>3, <3>1, <3>2, <3>3
    <2>4. CASE ~(link_up /\ ap_upload # 0)
      <3>1. UNCHANGED <<from_ap, ap_mission, ap_upload, landed>>
        BY <1>11, <2>4 DEF send_waypoint
      <3> QED BY <2>1, <2>2, <3>1
    <2> QED BY <2>3, <2>4
  <1>12. ASSUME NEW accepted \in BOOLEAN, mission_ack(accepted)
         PROVE  Flying'
    BY <1>12 DEF mission_ack, Receives, Acting, Superseded
  <1>13. CASE commandAuto
    BY <1>13 DEF commandAuto, setFlightMode
  <1>14. CASE AutoCommanded
    BY <1>14 DEF AutoCommanded
  <1>15. CASE RecvHeartbeat
    BY <1>15 DEF RecvHeartbeat, Acting
  <1>16. CASE ReplaySend
    BY <1>16 DEF ReplaySend, setFlightMode
  <1>17. CASE replayPendingMode
    BY <1>17 DEF replayPendingMode
  <1>18. CASE handleAutopilotRestart
    BY <1>18 DEF handleAutopilotRestart, invalidateInFlightUploadLocked
  <1>19. CASE LinkDrops
    BY <1>19 DEF LinkDrops
  <1>20. CASE LinkRestored
    BY <1>20 DEF LinkRestored
  <1>21. CASE DownEdge
    BY <1>21 DEF DownEdge
  <1>22. CASE ApAsksAgain
    BY <1>22 DEF ApAsksAgain, Request
  <1>23. CASE ApReboots
    BY <1>23 DEF ApReboots
  <1>24. CASE UNCHANGED vars
    BY <1>24 DEF vars
  <1> QED BY <1>1, <1>2, <1>3, <1>4, <1>5, <1>6, <1>7, <1>8, <1>9, <1>10, <1>11, <1>12,
            <1>13, <1>14, <1>15, <1>16, <1>17, <1>18, <1>19, <1>20, <1>21, <1>22, <1>23, <1>24
         DEF Next, EventLoop, RecvThread, Environment

-----------------------------------------------------------------------------
(* The results.                                                            *)

LEMMA InitInv == Init => IInv
  <1> SUFFICES ASSUME Init PROVE IInv
    OBVIOUS
  <1>1. TypeOK
    <2>1. Booleans
      BY DEF Init, Booleans
    <2>2. Scalars
      BY MissionAssumption DEF Init, Scalars
    <2>3. Queued
      BY MissionAssumption DEF Init, Queued
    <2> QED BY <2>1, <2>2, <2>3, TypeParts
  <1>2. EvShape /\ RxShape /\ Exclusive /\ Quiet
    BY DEF Init, EvShape, RxShape, Exclusive, UploadsExclusive, Quiet
  <1>3. Wire
    BY DEF Init, Wire
  <1>4. Commanding /\ Resting /\ Flying
    BY DEF Init, Commanding, Resting, Flying, Cleared
  <1> QED BY <1>1, <1>2, <1>3, <1>4 DEF IInv

\* The inductive invariant: the flags of an upload, the stage of the command that
\* opened it, the recv thread and the autopilot's answers agree in every reachable
\* state (setResolvedMode, commandGoto, loadSearch, mission_ack, replayPendingMode).
THEOREM UploadsConsistent == Spec => []IInv
  <1>1. IInv /\ [Next]_vars => IInv'
    <2> SUFFICES ASSUME IInv, [Next]_vars PROVE IInv'
      OBVIOUS
    <2>1. TypeOK'
      <3>1. Booleans' /\ Scalars' /\ Queued'
        BY BooleansKept, ScalarsKept, QueuedKept
      <3>2. TypeOK' <=> Booleans' /\ Scalars' /\ Queued'
        BY TypeParts, PTL
      <3> QED BY <3>1, <3>2
    <2> QED BY <2>1, EvShapeKept, RxShapeKept, ExclusiveKept, WireKept, QuietKept, CommandingKept,
               RestingKept, FlyingKept DEF IInv
  <1> QED BY <1>1, InitInv, PTL DEF Spec

\* Types; no mode reaches the autopilot that was not commanded (doSetFlightMode).
THEOREM UploadTyped == Spec => []TypeOK
  <1>1. IInv => TypeOK
    BY DEF IInv
  <1> QED BY <1>1, UploadsConsistent, PTL

\* A search being uploaded stands alone (uploadSearch, send_waypoint, mission_ack).
THEOREM UploadsAreExclusive == Spec => []UploadsExclusive
  <1>1. IInv => UploadsExclusive
    BY DEF IInv, Exclusive
  <1> QED BY <1>1, UploadsConsistent, PTL

\* A mode command the recv thread did not interrupt holds (setResolvedMode).
THEOREM CommandedModeHolds == Spec => []ModeHolds
  <1>1. IInv => ModeHolds
    BY MissionAssumption DEF IInv, ModeHolds, Resting, EvShape, Idle, Undisturbed
  <1> QED BY <1>1, UploadsConsistent, PTL

\* In AUTO the autopilot flies the mission asked for last (mission_ack, commandAuto).
THEOREM AutoIsCommanded == Spec => []AutoFliesCommanded
  <1>1. IInv => AutoFliesCommanded
    BY MissionAssumption DEF IInv, AutoFliesCommanded, Resting, Flying, EvShape, TypeOK, Idle, Undisturbed
  <1> QED BY <1>1, UploadsConsistent, PTL

\* A search believed loaded is held and flown, or will be (loadSearch, mission_ack).
THEOREM LoadedSearchFlown == Spec => []SearchLoadedIsFlown
  <1>1. IInv => SearchLoadedIsFlown
    BY DEF IInv, SearchLoadedIsFlown, Resting, Flying, Cleared, Engaging, Flown, Idle, Undisturbed
  <1> QED BY <1>1, UploadsConsistent, PTL

\* A mission the autopilot accepted is engaged once its ack is handled, or will be
\* on the next heartbeat (mission_ack, commandGoto, uploadSearch).
THEOREM AcceptedMissionEngaged == Spec => []AcceptedIsEngaged
  <1>1. IInv => AcceptedIsEngaged
    <2>1. from_ap = <<>> => ~ \E i \in 1 .. Len(from_ap) : IsAck(from_ap[i])
      OBVIOUS
    <2> QED BY <2>1 DEF IInv, AcceptedIsEngaged, Flying, Engaging, Flown, Idle, Undisturbed
  <1> QED BY <1>1, UploadsConsistent, PTL

-----------------------------------------------------------------------------
(* The session: alternating edges, of any queue.                           *)

MavEvents == {"failure", "ok", "restart"}
EdgesIn(q) == {i \in DOMAIN q : q[i] # "restart"}

\* What EdgesAlternate says of a queue between a belief and a report.
Alternates(q, down, ok) ==
  /\ \A i \in EdgesIn(q) : (\A j \in EdgesIn(q) : i <= j) => q[i] = Edge(down)
  /\ \A i, j \in EdgesIn(q) : i < j /\ (\A k \in EdgesIn(q) : k <= i \/ j <= k) => q[i] # q[j]
  /\ \A i \in EdgesIn(q) : (\A j \in EdgesIn(q) : j <= i) => q[i] = Edge(ok)
  /\ EdgesIn(q) = {} => ok = ~down

LEMMA Appended ==
  ASSUME NEW q \in Seq(MavEvents), NEW x \in MavEvents
  PROVE  /\ Append(q, x) \in Seq(MavEvents)
         /\ Len(q) + 1 \in DOMAIN Append(q, x) /\ Append(q, x)[Len(q) + 1] = x
  OBVIOUS

\* heartbeat_loop queues an edge exactly when it contradicts the last one.
LEMMA EdgeQueued ==
  ASSUME NEW q \in Seq(MavEvents), NEW down \in BOOLEAN, NEW ok \in BOOLEAN, Alternates(q, down, ok)
  PROVE  Alternates(Append(q, Edge(~ok)), down, ~ok)
  <1> DEFINE r == Append(q, Edge(~ok))
             n == Len(q) + 1
  <1>1. /\ Edge(~ok) \in MavEvents \ {"restart"} /\ Edge(ok) # Edge(~ok)
        /\ (ok = ~down => Edge(~ok) = Edge(down))
    BY DEF Edge, MavEvents
  <1>2. /\ n \in Nat /\ 1 <= n /\ DOMAIN q = 1 .. n - 1 /\ DOMAIN r = 1 .. n
        /\ r[n] = Edge(~ok) /\ \A i \in 1 .. n - 1 : r[i] = q[i]
    BY <1>1
  <1> HIDE DEF r, n
  <1>3. /\ EdgesIn(r) = EdgesIn(q) \cup {n} /\ \A i \in EdgesIn(q) : i \in Nat /\ i < n /\ r[i] = q[i]
    <2>1. \A i \in EdgesIn(q) : i \in Nat /\ i < n /\ r[i] = q[i] /\ i \in EdgesIn(r)
      BY <1>2 DEF EdgesIn
    <2>2. n \in EdgesIn(r)
      BY <1>1, <1>2 DEF EdgesIn
    <2>3. \A i \in EdgesIn(r) : i = n \/ i \in EdgesIn(q)
      BY <1>2 DEF EdgesIn
    <2> QED BY <2>1, <2>2, <2>3
  <1>4. ASSUME NEW i \in EdgesIn(r), \A j \in EdgesIn(r) : i <= j PROVE r[i] = Edge(down)
    <2>1. CASE i \in EdgesIn(q)
      BY <1>3, <1>4, <2>1 DEF Alternates
    <2>2. CASE i = n
      <3>1. ASSUME NEW j \in EdgesIn(q) PROVE FALSE
        BY <1>2, <1>3, <1>4, <2>2
      <3> QED BY <1>1, <1>2, <2>2, <3>1 DEF Alternates
    <2> QED BY <1>3, <2>1, <2>2
  <1>5. ASSUME NEW i \in EdgesIn(r), NEW j \in EdgesIn(r), i < j, \A k \in EdgesIn(r) : k <= i \/ j <= k
        PROVE  r[i] # r[j]
    <2>1. i \in EdgesIn(q)
      BY <1>2, <1>3, <1>5
    <2>2. CASE j \in EdgesIn(q)
      BY <1>3, <1>5, <2>1, <2>2 DEF Alternates
    <2>3. CASE j = n
      <3>1. \A k \in EdgesIn(q) : k <= i
        BY <1>2, <1>3, <1>5, <2>3
      <3>2. q[i] = Edge(ok)
        BY <2>1, <3>1 DEF Alternates
      <3> QED BY <1>1, <1>2, <1>3, <2>1, <2>3, <3>2
    <2> QED BY <1>3, <2>2, <2>3
  <1>6. ASSUME NEW i \in EdgesIn(r), \A j \in EdgesIn(r) : j <= i PROVE r[i] = Edge(~ok)
    <2>1. i = n
      BY <1>2, <1>3, <1>6
    <2> QED BY <1>2, <2>1
  <1> QED BY <1>3, <1>4, <1>5, <1>6 DEF Alternates, r

\* A restart report is no edge, wherever it is.
LEMMA RestartQueued ==
  ASSUME NEW q \in Seq(MavEvents), NEW down \in BOOLEAN, NEW ok \in BOOLEAN, Alternates(q, down, ok)
  PROVE  Alternates(Append(q, "restart"), down, ok)
  <1> DEFINE r == Append(q, "restart")
  <1>1. EdgesIn(r) = EdgesIn(q) /\ \A i \in EdgesIn(q) : r[i] = q[i]
    <2>1. /\ Len(q) \in Nat /\ DOMAIN q = 1 .. Len(q) /\ DOMAIN r = 1 .. Len(q) + 1 /\ r[Len(q) + 1] = "restart"
          /\ \A i \in 1 .. Len(q) : r[i] = q[i]
      BY DEF MavEvents
    <2> HIDE DEF r
    <2> QED BY <2>1 DEF EdgesIn
  <1> HIDE DEF r
  <1> QED BY <1>1 DEF Alternates, r

\* The front event is a restart, or an edge that contradicts the belief.
LEMMA EdgeTaken ==
  ASSUME NEW q \in Seq(MavEvents), q # <<>>, NEW down \in BOOLEAN, NEW ok \in BOOLEAN, Alternates(q, down, ok)
  PROVE  /\ Head(q) = "restart" => Alternates(Tail(q), down, ok)
         /\ Head(q) # "restart" => Head(q) = Edge(down) /\ Alternates(Tail(q), ~down, ok)
  <1> DEFINE r == Tail(q)
  <1>1. /\ Head(q) = q[1] /\ 1 \in DOMAIN q
        /\ \A i \in DOMAIN q : i \in Nat /\ 1 <= i /\ q[i] \in MavEvents /\ (i # 1 => i - 1 \in DOMAIN r /\ r[i - 1] = q[i])
        /\ \A i \in DOMAIN r : i \in Nat /\ 1 <= i /\ i + 1 \in DOMAIN q /\ r[i] = q[i + 1]
    BY DEF MavEvents
  <1> HIDE DEF r
  <1>2. /\ \A i \in EdgesIn(q) : i # 1 => i - 1 \in EdgesIn(r)
        /\ \A i \in EdgesIn(r) : i \in Nat /\ 1 <= i /\ i + 1 \in EdgesIn(q) /\ r[i] = q[i + 1]
        /\ \A i \in EdgesIn(q) : i \in Nat /\ 1 <= i /\ q[i] \in {"ok", "failure"}
    BY <1>1 DEF EdgesIn, MavEvents
  <1>3. ASSUME NEW i \in EdgesIn(r), NEW j \in EdgesIn(r), i < j, \A k \in EdgesIn(r) : k <= i \/ j <= k
        PROVE  r[i] # r[j]
    <2>1. \A k \in EdgesIn(q) : k <= i + 1 \/ j + 1 <= k
      <3> SUFFICES ASSUME NEW k \in EdgesIn(q), k # 1 PROVE k <= i + 1 \/ j + 1 <= k
        BY <1>2
      <3>1. k - 1 <= i \/ j <= k - 1
        BY <1>2, <1>3
      <3> QED BY <1>2, <3>1
    <2>2. q[i + 1] # q[j + 1]
      BY <1>2, <1>3, <2>1 DEF Alternates
    <2> QED BY <1>2, <2>2
  <1>4. ASSUME NEW i \in EdgesIn(r), \A j \in EdgesIn(r) : j <= i PROVE r[i] = Edge(ok)
    <2>1. \A j \in EdgesIn(q) : j <= i + 1
      <3> SUFFICES ASSUME NEW j \in EdgesIn(q), j # 1 PROVE j <= i + 1
        BY <1>2
      <3>1. j - 1 <= i
        BY <1>2, <1>4
      <3> QED BY <1>2, <3>1
    <2> QED BY <1>2, <2>1 DEF Alternates
  <1>5. CASE q[1] = "restart"
    <2>1. 1 \notin EdgesIn(q)
      BY <1>5 DEF EdgesIn
    <2>2. ASSUME NEW i \in EdgesIn(r), \A j \in EdgesIn(r) : i <= j PROVE r[i] = Edge(down)
      <3>1. \A j \in EdgesIn(q) : i + 1 <= j
        <4> SUFFICES ASSUME NEW j \in EdgesIn(q) PROVE i + 1 <= j
          OBVIOUS
        <4>1. i <= j - 1
          BY <1>2, <2>1, <2>2
        <4> QED BY <1>2, <4>1
      <3> QED BY <1>2, <3>1 DEF Alternates
    <2>3. EdgesIn(r) = {} => EdgesIn(q) = {}
      BY <1>2, <2>1
    <2> QED BY <1>1, <1>3, <1>4, <1>5, <2>2, <2>3 DEF Alternates, r
  <1>6. CASE q[1] # "restart"
    <2>1. 1 \in EdgesIn(q)
      BY <1>1, <1>6 DEF EdgesIn
    <2>2. q[1] = Edge(down)
      BY <1>2, <2>1 DEF Alternates
    <2>3. ASSUME NEW i \in EdgesIn(r), \A j \in EdgesIn(r) : i <= j PROVE r[i] = Edge(~down)
      <3>1. \A k \in EdgesIn(q) : k <= 1 \/ i + 1 <= k
        <4> SUFFICES ASSUME NEW k \in EdgesIn(q), k # 1 PROVE i + 1 <= k
          BY <1>2
        <4>1. i <= k - 1
          BY <1>2, <2>3
        <4> QED BY <1>2, <4>1
      <3>2. q[1] # q[i + 1] /\ q[i + 1] \in {"ok", "failure"}
        BY <1>2, <2>1, <3>1 DEF Alternates
      <3> QED BY <1>2, <2>2, <3>2 DEF Edge
    <2>4. EdgesIn(r) = {} => ok = ~~down
      <3> SUFFICES ASSUME EdgesIn(r) = {} PROVE ok = ~~down
        OBVIOUS
      <3>1. \A j \in EdgesIn(q) : j <= 1
        BY <1>2
      <3>2. q[1] = Edge(ok)
        BY <2>1, <3>1 DEF Alternates
      <3> QED BY <2>2, <3>2 DEF Edge
    <2> QED BY <1>1, <1>3, <1>4, <1>6, <2>2, <2>3, <2>4 DEF Alternates, r
  <1> QED BY <1>5, <1>6

-----------------------------------------------------------------------------
(* The inductive invariant of the session.                                 *)

\* The machine's fields that decide what it commands.
MachineFields ==
  /\ current_state \in FMU!FMUState
  /\ fss_command \in FMU!FSSCommand /\ smm_command \in FMU!SMMCommand
  /\ fss_command_target = NoTarget
  /\ terminated \in BOOLEAN /\ low_battery \in BOOLEAN /\ altitude_breach \in BOOLEAN
  /\ fss_comms_lost \in BOOLEAN /\ mav_comms_lost \in BOOLEAN

LinkTypes ==
  /\ fd_open \in BOOLEAN /\ path_up \in BOOLEAN /\ mav_comms_ok \in BOOLEAN /\ airframe_known \in BOOLEAN
  /\ hb_fd_open \in BOOLEAN /\ heartbeat_fresh \in BOOLEAN /\ lapse \in BOOLEAN
  /\ restart_unseen \in BOOLEAN
  /\ mav_events \in Seq(MavEvents)
  /\ MachineFields

\* A link that is down while it is reported up has lapsed.
LossesLapse == mav_comms_ok /\ ~LinkOpen => lapse

\* Until the airframe type is known the deferred mode is the current state's.
ModeDeferred ==
  IF airframe_known THEN pending_mode = FMU!NoMavCommand
  ELSE \/ current_state = "searching" \/ FMU!Unevaluated
       \/ pending_mode = FMU!MavCommandOf(current_state, NoTarget)

\* The autopilot obeys, or something is still to come that re-commands it.
Pending == \E i \in DOMAIN mav_events : mav_events[i] # "failure"
Redriven == lapse \/ ~mav_comms_ok \/ restart_unseen \/ ~airframe_known \/ Pending \/ AutopilotObeys

LinkInv == LinkTypes /\ LossesLapse /\ ModeDeferred /\ Redriven /\ EdgesAlternate

-----------------------------------------------------------------------------
(* What an operation of the machine does to what it commands.              *)

\* It re-commands the current state, whenever that changed or is re-applied;
\* or it changes nothing, and was not the machine's first evaluation.
Commanded ==
  autopilot' = IF current_state' = "searching" \/ ~(LinkOpen /\ airframe_known)
               THEN autopilot ELSE FMU!MavCommandOf(current_state', NoTarget)
MachineStep(again) ==
  \/ /\ again \/ current_state' # current_state
     /\ Commanded
  \/ /\ ~again /\ current_state' = current_state /\ autopilot' = autopilot
     /\ FMU!Unevaluated => FMU!Unevaluated'

\* Every state commands the autopilot something, searching excepted.
LEMMA StatesCommand ==
  ASSUME NEW state \in FMU!FMUState, state # "searching"
  PROVE  FMU!MavCommandOf(state, NoTarget) # FMU!NoMavCommand
  BY DEF FMU!FMUState, FMU!MavCommandOf, FMU!MavOpOf, FMU!NoMavCommand

\* updateState yields a state; the machine is constructed in manual with the FSS
\* comms lost, where a first evaluation would yield anything but manual.
LEMMA Evaluated ==
  ASSUME MachineFields, NEW cmd \in FMU!FSSCommand, NEW smm \in FMU!SMMCommand,
         NEW term \in BOOLEAN, NEW low \in BOOLEAN, NEW down \in BOOLEAN, NEW breach \in BOOLEAN
  PROVE  /\ FMU!Arbitrated(term, low, down, breach, FMU!commandedState(cmd, smm)) \in FMU!FMUState
         /\ term \/ low \/ down \/ cmd # "manual" =>
              FMU!Arbitrated(term, low, down, breach, FMU!commandedState(cmd, smm)) # "manual"
  <1>1. FMU!commandedState(cmd, smm) \in FMU!FMUState /\ (cmd # "manual" => FMU!commandedState(cmd, smm) # "manual")
    BY DEF FMU!commandedState, FMU!map_fss_state, FMU!map_smm_state, FMU!FSSCommand, FMU!SMMCommand,
           FMU!FMUState
  <1>2. {"terminate", "low_battery", "failsafe", "rtl"} \subseteq FMU!FMUState
    BY DEF FMU!FMUState
  <1> QED BY <1>1, <1>2 DEF FMU!Arbitrated

\* if (changed_to) actionState (*changed_to)
LEMMA Changed ==
  ASSUME FMU!ActionChange, fss_command_target' = NoTarget
  PROVE  \/ current_state' # current_state /\ Commanded
         \/ current_state' = current_state /\ autopilot' = autopilot
  BY DEF FMU!ActionChange, FMU!actionState, FMU!portVars, Commanded

LEMMA FSSCommandMoves ==
  ASSUME MachineFields, NEW cmd \in Commands, FMU!FSSNewCommand(cmd, NoTarget)
  PROVE  MachineFields' /\ MachineStep(FALSE) /\ mav_comms_lost' = mav_comms_lost
  <1>1. /\ fss_command' = cmd /\ fss_command_target' = NoTarget
        /\ UNCHANGED <<smm_command, low_battery, altitude_breach, fss_comms_lost, mav_comms_lost>>
        /\ FMU!updateState /\ FMU!ActionChange
    BY DEF FMU!FSSNewCommand, FMU!batteryVars, FMU!altitudeVars, FMU!commsVars
  <1>2. cmd \in FMU!FSSCommand
    BY CommandsAssumption DEF FMU!FSSCommand
  <1>3. MachineFields' /\ (FMU!Unevaluated => current_state' # "manual")
    BY <1>1, <1>2, Evaluated DEF FMU!updateState, MachineFields, FMU!Unevaluated
  <1> QED BY <1>1, <1>3, Changed DEF MachineStep, FMU!Unevaluated

LEMMA CommsFailureMoves ==
  ASSUME MachineFields, NEW failed \in BOOLEAN, FMU!setCommsFailure(failed)
  PROVE  MachineFields' /\ MachineStep(FALSE) /\ mav_comms_lost' = mav_comms_lost
  <1>1. /\ fss_comms_lost' = failed
        /\ UNCHANGED <<fss_command, fss_command_target, smm_command, low_battery, altitude_breach, mav_comms_lost>>
        /\ FMU!updateState /\ FMU!ActionChange
    BY DEF FMU!setCommsFailure, FMU!commandVars, FMU!batteryVars, FMU!altitudeVars
  <1>2. MachineFields' /\ (FMU!Unevaluated => current_state' # "manual")
    BY <1>1, Evaluated DEF FMU!updateState, MachineFields, FMU!Unevaluated
  <1> QED BY <1>1, <1>2, Changed DEF MachineStep, FMU!Unevaluated, MachineFields

LEMMA LowBatteryMoves ==
  ASSUME MachineFields, NEW low \in BOOLEAN, FMU!setLowBattery(low)
  PROVE  MachineFields' /\ MachineStep(FALSE) /\ mav_comms_lost' = mav_comms_lost
  <1>1. /\ low_battery' \in BOOLEAN
        /\ UNCHANGED <<fss_command, fss_command_target, smm_command, altitude_breach, fss_comms_lost, mav_comms_lost>>
    BY DEF FMU!setLowBattery, FMU!commandVars, FMU!altitudeVars, FMU!commsVars
  <1>2. CASE low_battery' # low_battery
    <2>1. FMU!updateState /\ FMU!ActionChange
      BY <1>2 DEF FMU!setLowBattery
    <2>2. MachineFields' /\ (FMU!Unevaluated => current_state' # "manual")
      BY <1>1, <2>1, Evaluated DEF FMU!updateState, MachineFields, FMU!Unevaluated
    <2> QED BY <1>1, <2>1, <2>2, Changed DEF MachineStep, FMU!Unevaluated, MachineFields
  <1>3. CASE low_battery' = low_battery
    <2>1. UNCHANGED <<current_state, terminated, autopilot>>
      BY <1>3 DEF FMU!setLowBattery, FMU!NoTransition, FMU!portVars
    <2> QED BY <1>1, <1>3, <2>1 DEF MachineFields, MachineStep, FMU!Unevaluated
  <1> QED BY <1>2, <1>3

\* Only a recovery the machine had noticed re-commands an unchanged state.
LEMMA MavCommsMoves ==
  ASSUME MachineFields, NEW failed \in BOOLEAN, FMU!setMavCommsFailure(failed)
  PROVE  MachineFields' /\ MachineStep(mav_comms_lost /\ ~failed) /\ mav_comms_lost' = failed
  <1>1. /\ mav_comms_lost' = failed
        /\ UNCHANGED <<fss_command, fss_command_target, smm_command, low_battery, altitude_breach, fss_comms_lost>>
        /\ FMU!updateState
    BY DEF FMU!setMavCommsFailure, FMU!commandVars, FMU!batteryVars, FMU!altitudeVars
  <1>2. MachineFields' /\ (FMU!Unevaluated => current_state' # "manual")
    BY <1>1, Evaluated DEF FMU!updateState, MachineFields, FMU!Unevaluated
  <1>3. fss_command_target' = NoTarget
    BY <1>1 DEF MachineFields
  <1>4. CASE current_state' = current_state /\ mav_comms_lost /\ ~failed
    <2>1. Commanded
      BY <1>3, <1>4 DEF FMU!setMavCommsFailure, FMU!actionState, Commanded
    <2> QED BY <1>1, <1>2, <1>4, <2>1 DEF MachineStep
  <1>5. CASE ~(current_state' = current_state /\ mav_comms_lost /\ ~failed)
    <2>1. FMU!ActionChange
      BY <1>5 DEF FMU!setMavCommsFailure
    <2> QED BY <1>1, <1>2, <1>3, <1>5, <2>1, Changed DEF MachineStep, FMU!Unevaluated
  <1> QED BY <1>4, <1>5

LEMMA ReassertMoves ==
  ASSUME MachineFields, FMU!reassertState
  PROVE  MachineFields' /\ MachineStep(TRUE) /\ mav_comms_lost' = mav_comms_lost
  BY DEF FMU!reassertState, FMU!actionState, FMU!commandVars, FMU!batteryVars, FMU!altitudeVars,
         FMU!commsVars, MachineFields, MachineStep, Commanded

-----------------------------------------------------------------------------
(* The session's steps.                                                    *)

\* What the threads other than the event loop leave alone.
LEMMA MachineUntouched ==
  ASSUME MachineFields, UNCHANGED machineVars
  PROVE  /\ MachineFields' /\ mav_comms_lost' = mav_comms_lost /\ current_state' = current_state
         /\ FMU!Unevaluated' = FMU!Unevaluated
         /\ autopilot' = autopilot => AutopilotObeys' = AutopilotObeys
  BY DEF machineVars, MachineFields, FMU!Unevaluated, AutopilotObeys

\* An operation of the event loop keeps the deferred mode the current state's,
\* and commands the autopilot unless the link is known to have lapsed.
LEMMA Obeyed ==
  ASSUME LinkInv, MachineFields', NEW again \in BOOLEAN, MachineStep(again), Deferral(again),
         UNCHANGED <<socketVars, heartbeatVars, restart_unseen, lapse>>
  PROVE  /\ ModeDeferred' /\ LossesLapse'
         /\ again \/ AutopilotObeys \/ current_state' # current_state =>
              lapse \/ ~mav_comms_ok \/ ~airframe_known \/ AutopilotObeys'
  <1> USE DEF LinkInv, LinkTypes, socketVars, heartbeatVars
  <1>1. LossesLapse'
    BY DEF LossesLapse, LinkOpen
  <1>2. ModeDeferred'
    BY DEF ModeDeferred, Deferral, MachineStep
  <1>3. CASE (again \/ current_state' # current_state) /\ Commanded
    BY <1>1, <1>2, <1>3 DEF Commanded, LossesLapse, AutopilotObeys, MachineFields
  <1>4. CASE /\ ~again /\ current_state' = current_state /\ autopilot' = autopilot
             /\ FMU!Unevaluated => FMU!Unevaluated'
    BY <1>1, <1>2, <1>4 DEF AutopilotObeys, MachineFields
  <1> QED BY <1>1, <1>2, <1>3, <1>4 DEF MachineStep

LEMMA OtherInputKeeps ==
  ASSUME LinkInv, OtherInput
  PROVE  LinkInv'
  <1>1. MachineFields' /\ MachineStep(FALSE) /\ mav_comms_lost' = mav_comms_lost
    <2>1. CASE \E cmd \in Commands : FMU!FSSNewCommand(cmd, NoTarget)
      BY <2>1, FSSCommandMoves DEF LinkInv, LinkTypes
    <2>2. CASE \E failed \in BOOLEAN : FMU!setCommsFailure(failed)
      BY <2>2, CommsFailureMoves DEF LinkInv, LinkTypes
    <2>3. CASE \E low \in BOOLEAN : FMU!setLowBattery(low)
      BY <2>3, LowBatteryMoves DEF LinkInv, LinkTypes
    <2> QED BY <2>1, <2>2, <2>3 DEF OtherInput
  <1>2. /\ Deferral(FALSE)
        /\ UNCHANGED <<socketVars, heartbeatVars, restart_unseen, mav_events, lapse>>
    BY DEF OtherInput
  <1>3. /\ ModeDeferred' /\ LossesLapse'
        /\ AutopilotObeys => lapse \/ ~mav_comms_ok \/ ~airframe_known \/ AutopilotObeys'
    BY <1>1, <1>2, Obeyed
  <1>4. LinkTypes'
    BY <1>1, <1>2 DEF LinkInv, LinkTypes, Deferral, socketVars, heartbeatVars
  <1>5. Redriven'
    BY <1>2, <1>3 DEF LinkInv, LinkTypes, Redriven, Pending, heartbeatVars, Deferral
  <1>6. EdgesAlternate'
    BY <1>1, <1>2 DEF LinkInv, EdgesAlternate, Edges, heartbeatVars
  <1> QED BY <1>3, <1>4, <1>5, <1>6 DEF LinkInv

\* The front event re-applies the state: a restart, or a recovery from a loss.
Reapplies == Head(mav_events) = "restart" \/ (Head(mav_events) = "ok" /\ mav_comms_lost)

LEMMA MavEventKeeps ==
  ASSUME LinkInv, DispatchMavEvent
  PROVE  LinkInv'
  <1>1. /\ mav_events \in Seq(MavEvents) /\ mav_events # <<>> /\ mav_events' = Tail(mav_events)
        /\ mav_comms_lost \in BOOLEAN /\ mav_comms_ok \in BOOLEAN /\ MachineFields
        /\ Alternates(mav_events, mav_comms_lost, mav_comms_ok)
    BY DEF DispatchMavEvent, LinkInv, LinkTypes, MachineFields, EdgesAlternate, Edges, EdgesIn, Alternates
  <1>2. /\ Head(mav_events) = "restart" => Alternates(Tail(mav_events), mav_comms_lost, mav_comms_ok)
        /\ Head(mav_events) # "restart" =>
              Head(mav_events) = Edge(mav_comms_lost) /\ Alternates(Tail(mav_events), ~mav_comms_lost, mav_comms_ok)
    BY <1>1, EdgeTaken
  <1>3. /\ MachineFields' /\ MachineStep(Reapplies)
        /\ mav_comms_lost' = IF Head(mav_events) = "restart" THEN mav_comms_lost ELSE ~mav_comms_lost
        /\ Head(mav_events) # "failure" => Reapplies
    <2>1. CASE Head(mav_events) = "failure" /\ FMU!setMavCommsFailure(TRUE)
      BY <1>1, <1>2, <2>1, MavCommsMoves DEF Edge, Reapplies
    <2>2. CASE Head(mav_events) = "ok" /\ FMU!setMavCommsFailure(FALSE)
      BY <1>1, <1>2, <2>2, MavCommsMoves DEF Edge, Reapplies
    <2>3. CASE Head(mav_events) = "restart" /\ FMU!reassertState
      BY <1>1, <2>3, ReassertMoves DEF Reapplies
    <2> QED BY <2>1, <2>2, <2>3 DEF DispatchMavEvent
  <1>4. /\ Deferral(Reapplies)
        /\ UNCHANGED <<socketVars, heartbeatVars, restart_unseen, lapse>>
    BY DEF DispatchMavEvent, Reapplies
  <1>5. /\ ModeDeferred' /\ LossesLapse'
        /\ Reapplies \/ AutopilotObeys => lapse \/ ~mav_comms_ok \/ ~airframe_known \/ AutopilotObeys'
    <2>1. Reapplies \in BOOLEAN
      BY DEF Reapplies
    <2> QED BY <1>3, <1>4, <2>1, Obeyed
  <1>6. LinkTypes'
    <2>1. Tail(mav_events) \in Seq(MavEvents)
      BY <1>1
    <2> QED BY <1>1, <1>3, <1>4, <2>1 DEF LinkInv, LinkTypes, Deferral, socketVars, heartbeatVars
  <1>7. Pending => Pending' \/ Head(mav_events) # "failure"
    <2> SUFFICES ASSUME NEW i \in DOMAIN mav_events, mav_events[i] # "failure", i # 1 PROVE Pending'
      BY <1>1 DEF Pending
    <2>1. i - 1 \in DOMAIN Tail(mav_events) /\ Tail(mav_events)[i - 1] = mav_events[i]
      BY <1>1
    <2> QED BY <1>1, <2>1 DEF Pending
  <1>8. Redriven'
    BY <1>3, <1>4, <1>5, <1>7 DEF LinkInv, LinkTypes, Redriven, heartbeatVars, Deferral
  <1>9. EdgesAlternate'
    <2>1. Alternates(mav_events', mav_comms_lost', mav_comms_ok')
      BY <1>1, <1>2, <1>3, <1>4 DEF heartbeatVars
    <2> QED BY <2>1 DEF EdgesAlternate, Edges, EdgesIn, Alternates
  <1> QED BY <1>5, <1>6, <1>8, <1>9 DEF LinkInv

LEMMA HeartbeatDecideKeeps ==
  ASSUME LinkInv, HeartbeatDecide
  PROVE  LinkInv'
  <1>1. /\ UNCHANGED machineVars
        /\ UNCHANGED <<autopilot, airframe_known, pending_mode, fd_open, path_up, heartbeat_fresh, hb_fd_open, restart_unseen>>
        /\ mav_comms_ok' = mav_comms_is_up
    BY DEF HeartbeatDecide, modeVars
  <1>2. MachineFields' /\ mav_comms_lost' = mav_comms_lost /\ AutopilotObeys' = AutopilotObeys
    BY <1>1, MachineUntouched DEF LinkInv, LinkTypes
  <1>3. ModeDeferred'
    BY <1>1, MachineUntouched DEF LinkInv, LinkTypes, ModeDeferred
  <1>4. mav_comms_is_up \in BOOLEAN /\ mav_comms_ok \in BOOLEAN /\ mav_events \in Seq(MavEvents)
    BY DEF mav_comms_is_up, LinkInv, LinkTypes
  <1>5. CASE mav_comms_is_up = mav_comms_ok
    <2>1. UNCHANGED <<mav_events, lapse, mav_comms_ok>>
      BY <1>1, <1>5 DEF HeartbeatDecide
    <2> QED BY <1>1, <1>2, <1>3, <2>1 DEF LinkInv, LinkTypes, LossesLapse, LinkOpen, Redriven, Pending,
                                          EdgesAlternate, Edges
  <1>6. CASE mav_comms_is_up # mav_comms_ok
    <2>1. /\ mav_events' = Append(mav_events, Edge(~mav_comms_ok))
          /\ mav_comms_ok' = ~mav_comms_ok /\ lapse' = (~mav_comms_ok /\ ~LinkOpen)
      BY <1>1, <1>4, <1>6 DEF HeartbeatDecide, Edge
    <2>2. Edge(~mav_comms_ok) \in MavEvents
      BY DEF Edge, MavEvents
    <2>3. mav_events' \in Seq(MavEvents) /\ (~mav_comms_ok => Pending')
      <3>1. /\ Append(mav_events, Edge(~mav_comms_ok)) \in Seq(MavEvents)
            /\ Len(mav_events) + 1 \in DOMAIN Append(mav_events, Edge(~mav_comms_ok))
            /\ Append(mav_events, Edge(~mav_comms_ok))[Len(mav_events) + 1] = Edge(~mav_comms_ok)
        BY <1>4, <2>2, Appended
      <3> QED BY <2>1, <3>1 DEF Pending, Edge
    <2>4. LinkTypes' /\ LossesLapse' /\ Redriven'
      BY <1>1, <1>2, <1>4, <2>1, <2>3 DEF LinkInv, LinkTypes, LossesLapse, LinkOpen, Redriven
    <2>5. EdgesAlternate'
      <3>1. mav_comms_lost \in BOOLEAN /\ Alternates(mav_events, mav_comms_lost, mav_comms_ok)
        BY DEF LinkInv, LinkTypes, MachineFields, EdgesAlternate, Edges, EdgesIn, Alternates
      <3>2. Alternates(mav_events', mav_comms_lost', mav_comms_ok')
        BY <1>2, <1>4, <2>1, <3>1, EdgeQueued
      <3> QED BY <3>2 DEF EdgesAlternate, Edges, EdgesIn, Alternates
    <2> QED BY <1>3, <2>4, <2>5 DEF LinkInv
  <1> QED BY <1>5, <1>6

LEMMA RestartKeeps ==
  ASSUME LinkInv, RecvRestart
  PROVE  LinkInv'
  <1>1. /\ UNCHANGED machineVars /\ restart_unseen' = FALSE /\ mav_events' = Append(mav_events, "restart")
        /\ UNCHANGED <<autopilot, airframe_known, pending_mode, fd_open, path_up, heartbeat_fresh, mav_comms_ok, hb_fd_open, lapse>>
    BY DEF RecvRestart, modeVars, socketVars, heartbeatVars
  <1>2. MachineFields' /\ mav_comms_lost' = mav_comms_lost
    BY <1>1, MachineUntouched DEF LinkInv, LinkTypes
  <1>3. ModeDeferred'
    BY <1>1, MachineUntouched DEF LinkInv, LinkTypes, ModeDeferred
  <1>4. mav_events' \in Seq(MavEvents) /\ Pending'
    <2>1. /\ Append(mav_events, "restart") \in Seq(MavEvents)
          /\ Len(mav_events) + 1 \in DOMAIN Append(mav_events, "restart")
          /\ Append(mav_events, "restart")[Len(mav_events) + 1] = "restart"
      BY Appended DEF LinkInv, LinkTypes, MavEvents
    <2> QED BY <1>1, <2>1 DEF Pending
  <1>5. LinkTypes' /\ LossesLapse' /\ Redriven'
    BY <1>1, <1>2, <1>4 DEF LinkInv, LinkTypes, LossesLapse, LinkOpen, Redriven
  <1>6. EdgesAlternate'
    <2>1. /\ mav_comms_lost \in BOOLEAN /\ mav_comms_ok \in BOOLEAN /\ mav_events \in Seq(MavEvents)
          /\ Alternates(mav_events, mav_comms_lost, mav_comms_ok)
      BY DEF LinkInv, LinkTypes, MachineFields, EdgesAlternate, Edges, EdgesIn, Alternates
    <2>2. Alternates(mav_events', mav_comms_lost', mav_comms_ok')
      BY <1>1, <1>2, <2>1, RestartQueued
    <2> QED BY <2>2 DEF EdgesAlternate, Edges, EdgesIn, Alternates
  <1> QED BY <1>3, <1>5, <1>6 DEF LinkInv

\* The first heartbeat replays the deferred mode, which is the current state's.
LEMMA HeartbeatKeeps ==
  ASSUME LinkInv, HeartbeatHeard
  PROVE  LinkInv'
  <1>1. /\ UNCHANGED machineVars /\ heartbeat_fresh' = TRUE /\ airframe_known' = TRUE
        /\ pending_mode' = FMU!NoMavCommand
        /\ autopilot' = IF pending_mode = FMU!NoMavCommand THEN autopilot ELSE pending_mode
        /\ UNCHANGED <<fd_open, path_up, mav_comms_ok, hb_fd_open, restart_unseen, mav_events, lapse>>
    BY DEF HeartbeatHeard, socketVars
  <1>2. /\ MachineFields' /\ mav_comms_lost' = mav_comms_lost /\ current_state' = current_state
        /\ FMU!Unevaluated' = FMU!Unevaluated
        /\ autopilot' = autopilot => AutopilotObeys' = AutopilotObeys
    BY <1>1, MachineUntouched DEF LinkInv, LinkTypes
  <1>3. CASE airframe_known
    <2>1. autopilot' = autopilot
      BY <1>1, <1>3 DEF LinkInv, ModeDeferred
    <2> QED BY <1>1, <1>2, <1>3, <2>1 DEF LinkInv, LinkTypes, LossesLapse, LinkOpen, ModeDeferred, Redriven, Pending,
                                          EdgesAlternate, Edges
  <1>4. CASE ~airframe_known
    <2>1. AutopilotObeys'
      <3>1. CASE current_state = "searching" \/ FMU!Unevaluated
        BY <1>2, <3>1 DEF AutopilotObeys
      <3>2. CASE current_state # "searching" /\ pending_mode = FMU!MavCommandOf(current_state, NoTarget)
        <4>1. pending_mode # FMU!NoMavCommand
          BY <3>2, StatesCommand DEF LinkInv, LinkTypes, MachineFields
        <4> QED BY <1>1, <1>2, <3>2, <4>1 DEF AutopilotObeys, MachineFields
      <3> QED BY <1>4, <3>1, <3>2 DEF LinkInv, ModeDeferred
    <2> QED BY <1>1, <1>2, <2>1 DEF LinkInv, LinkTypes, LossesLapse, LinkOpen, ModeDeferred, Redriven,
                                    EdgesAlternate, Edges
  <1> QED BY <1>3, <1>4 DEF LinkInv, LinkTypes

\* The steps that touch neither the queue nor what is reported, deferred or known
\* of the airframe: what they do to the link they do to lapse as well.
LEMMA LinkKeeps ==
  ASSUME LinkInv, UNCHANGED machineVars,
         UNCHANGED <<airframe_known, pending_mode, mav_comms_ok, mav_events>>,
         fd_open' \in BOOLEAN, path_up' \in BOOLEAN, heartbeat_fresh' \in BOOLEAN, hb_fd_open' \in BOOLEAN,
         lapse' \in BOOLEAN, restart_unseen' \in BOOLEAN, lapse => lapse',
         LossesLapse', restart_unseen' \/ UNCHANGED <<autopilot, restart_unseen>>
  PROVE  LinkInv'
  <1>1. /\ MachineFields' /\ mav_comms_lost' = mav_comms_lost
        /\ (autopilot' = autopilot => AutopilotObeys' = AutopilotObeys)
    BY MachineUntouched DEF LinkInv, LinkTypes
  <1>2. ModeDeferred'
    BY MachineUntouched DEF LinkInv, LinkTypes, ModeDeferred
  <1>3. Redriven'
    BY <1>1 DEF LinkInv, LinkTypes, Redriven, Pending
  <1> QED BY <1>1, <1>2, <1>3 DEF LinkInv, LinkTypes, EdgesAlternate, Edges

LEMMA OtherThreadsKeep ==
  ASSUME LinkInv, \/ HeartbeatSample \/ disconnect_from_mav \/ connect_to_mav \/ NoDial
                  \/ SocketFails \/ FarEnd
  PROVE  LinkInv'
  <1> USE DEF LinkInv, LinkTypes, LossesLapse, LinkOpen, socketVars, heartbeatVars, modeVars
  <1>1. CASE HeartbeatSample
    BY <1>1, LinkKeeps DEF HeartbeatSample
  <1>2. CASE disconnect_from_mav
    BY <1>2, LinkKeeps DEF disconnect_from_mav
  <1>3. CASE connect_to_mav
    BY <1>3, LinkKeeps DEF connect_to_mav
  <1>4. CASE NoDial
    BY <1>4, LinkKeeps DEF NoDial
  <1>5. CASE SocketFails
    BY <1>5, LinkKeeps DEF SocketFails
  <1>6. CASE PathLost
    BY <1>6, LinkKeeps DEF PathLost
  <1>7. CASE AutopilotReboots
    BY <1>7, LinkKeeps DEF AutopilotReboots
  <1>8. CASE HeartbeatAges
    BY <1>8, LinkKeeps DEF HeartbeatAges
  <1>9. CASE ConnectAges
    BY <1>9, LinkKeeps DEF ConnectAges
  <1> QED BY <1>1, <1>2, <1>3, <1>4, <1>5, <1>6, <1>7, <1>8, <1>9 DEF FarEnd

-----------------------------------------------------------------------------
(* The theorems of the session.                                            *)

\* The session's threads and the event loop stay consistent, whatever links are
\* lost and autopilots restarted: queued comms edges lead from what the machine
\* believes to what was reported, a dead link reported up has lapsed, and the
\* autopilot obeys unless something that re-commands it is still to come.
THEOREM LinkConsistent == LinkSpec => []LinkInv
  <1>1. LinkInit => LinkInv
    <2> SUFFICES ASSUME LinkInit PROVE LinkInv
      OBVIOUS
    <2>1. MachineFields /\ FMU!Unevaluated
      BY DEF LinkInit, FMU!Init, MachineFields, FMU!Unevaluated, FMU!FMUState, FMU!FSSCommand, FMU!SMMCommand
    <2>2. LinkTypes
      <3>1. mav_events \in Seq(MavEvents)
        BY DEF LinkInit
      <3> QED BY <2>1, <3>1 DEF LinkInit, LinkTypes
    <2>3. LossesLapse
      BY DEF LinkInit, LossesLapse, LinkOpen
    <2>4. ModeDeferred /\ Redriven
      BY <2>1 DEF LinkInit, ModeDeferred, Redriven, AutopilotObeys
    <2>5. EdgesAlternate
      <3>1. mav_events = <<>> /\ mav_comms_ok = TRUE /\ mav_comms_lost = FALSE
        BY DEF LinkInit, FMU!Init
      <3>2. Edges = {}
        BY <3>1 DEF Edges
      <3> QED BY <3>1, <3>2 DEF EdgesAlternate
    <2> QED BY <2>2, <2>3, <2>4, <2>5 DEF LinkInv
  <1>2. LinkInv /\ [LinkNext]_linkVars => LinkInv'
    <2> SUFFICES ASSUME LinkInv, [LinkNext]_linkVars PROVE LinkInv'
      OBVIOUS
    <2>1. CASE UNCHANGED linkVars
      <3>1. /\ UNCHANGED machineVars
            /\ UNCHANGED <<autopilot, airframe_known, pending_mode, mav_comms_ok, mav_events, fd_open, path_up,
                           heartbeat_fresh, hb_fd_open, lapse, restart_unseen>>
        BY <2>1 DEF linkVars, modeVars, socketVars, heartbeatVars
      <3> QED BY <3>1, LinkKeeps DEF LinkInv, LinkTypes, LossesLapse, LinkOpen
    <2>2. CASE HeartbeatThread
      BY <2>2, HeartbeatDecideKeeps, OtherThreadsKeep DEF HeartbeatThread
    <2>3. CASE Reconnector
      BY <2>3, OtherThreadsKeep DEF Reconnector
    <2>4. CASE LinkRecvThread
      BY <2>4, HeartbeatKeeps, RestartKeeps, OtherThreadsKeep DEF LinkRecvThread
    <2>5. CASE FarEnd
      BY <2>5, OtherThreadsKeep
    <2>6. CASE LinkEventLoop
      BY <2>6, MavEventKeeps, OtherInputKeeps DEF LinkEventLoop
    <2> QED BY <2>1, <2>2, <2>3, <2>4, <2>5, <2>6 DEF LinkNext
  <1> QED BY <1>1, <1>2, PTL DEF LinkSpec

\* The comms edges heartbeat_loop queues alternate, from what the machine believes
\* to what was last reported, so that setMavCommsFailure always hears a change.
THEOREM EdgesLeadToReport == LinkSpec => []EdgesAlternate
  <1>1. LinkInv => EdgesAlternate
    BY DEF LinkInv
  <1> QED BY <1>1, LinkConsistent, PTL

\* Once the link has settled, every loss having been reported, the autopilot flies
\* the current state: setMavCommsFailure, reassertState and replayPendingMode
\* between them re-command whatever a dead socket or a reboot lost.
THEOREM SettledLinkObeys == LinkSpec => []RecoveryRedrives
  <1>1. LinkInv => RecoveryRedrives
    <2> SUFFICES ASSUME LinkInv, Settled, ~lapse PROVE AutopilotObeys
      BY DEF RecoveryRedrives
    <2>1. ~Pending
      BY DEF Settled, Pending
    <2> QED BY <2>1 DEF LinkInv, Redriven, Settled
  <1> QED BY <1>1, LinkConsistent, PTL
=============================================================================
