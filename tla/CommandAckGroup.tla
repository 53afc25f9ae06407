--------------------------- MODULE CommandAckGroup ---------------------------
(***************************************************************************)
(* Redundant command delivery and its acknowledgement                      *)
(* (src/src/fss/command-ack-group.hpp, fss-client-ssl.cpp, fss.cpp): the   *)
(* operator's command reaches the FMU once per FSS server, on one recv     *)
(* thread per connection.  The group decides under its mutex which copy    *)
(* actuates; the event loop resolves it; the FSS send worker acks every    *)
(* copy.                                                                   *)
(*                                                                         *)
(* Command k is the k-th the operator issues.  Its content (command and    *)
(* payload, as CommandPayload::sameAs tells payloads apart) is a model     *)
(* value; server c stamps it 2k + Skew[c] and, if it negotiated ids,       *)
(* numbers it k.  Terminal acks are recorded when they are handed to the   *)
(* connection; the phase-1 receipt is left out.                            *)
(***************************************************************************)
EXTENDS Naturals, Sequences, FiniteSets

CONSTANTS
  Connections,
  Numbered,       \* connections that negotiated server_command_id
  Skew,           \* clock skew of each server, below the gap between commands
  Contents,       \* command and payload
  Unactionable,   \* the contents handleCommandFrom rejects
  Resolutions,    \* what FSSNewCommand may answer
  ToleranceMs,    \* command_dedup_tolerance_ms
  MaxCommands,    \* bound on operator commands
  MaxDeliveries   \* bound on delivered copies

ASSUME GroupAssumption ==
  /\ Numbered \subseteq Connections /\ Unactionable \subseteq Contents
  /\ Skew \in [Connections -> {0, 1}]
  \* the dedup window is wider than the servers' clocks are apart; commands are
  \* stamped two apart, so skew alone never reorders two of them
  /\ ToleranceMs \in Nat /\ 1 < ToleranceMs /\ MaxCommands \in Nat /\ MaxDeliveries \in Nat
  /\ {"none", "rejected", "newer_command"} \cap Resolutions = {}

VARIABLES
  issued,        \* contents of the operator's commands so far
  last_sent,     \* per connection, the latest command its server sent
  \* CommandAckGroup, under mtx
  epoch,         \* 0: not active
  command, timestamp, pending, group_resolution, last_id_by_connection,
  \* handleCommandFrom, between onDelivery and report_command
  rx_event,      \* per connection, the event still to be enqueued
  event_queue,   \* FSSCommandEvents for the event loop
  ack_tasks,     \* FssAckTasks for the send worker
  \* history
  copies,        \* the copies delivered: their command and their group's epoch
  ack, ack_count,  \* per copy, the terminal ack and how many were sent
  opened,        \* the command that opened each group, by epoch
  in_force,      \* the command the event loop actuated last
  raced          \* a group was opened before the event of the one before it was queued

groupVars == <<epoch, command, timestamp, pending, group_resolution, last_id_by_connection>>
sourceVars == <<issued, last_sent>>
vars == <<sourceVars, groupVars, rx_event, event_queue, ack_tasks, copies, ack, ack_count, opened, in_force, raced>>

NoEvent == [epoch |-> 0, command |-> 0]
Copies == 1 .. MaxDeliveries
TimeStamp(k, c) == 2 * k + Skew[c]
ServerCommandId(k, c) == IF c \in Numbered THEN k ELSE 0

\* sendCommandAck to every copy of a set.
Acknowledge(targets, outcome) ==
  /\ ack' = [n \in Copies |-> IF n \in targets THEN outcome ELSE ack[n]]
  /\ ack_count' = [n \in Copies |-> ack_count[n] + IF n \in targets THEN 1 ELSE 0]

-----------------------------------------------------------------------------
(* The operator and the servers.                                           *)

Issue ==
  /\ Len(issued) < MaxCommands
  /\ \E content \in Contents : issued' = Append(issued, content)
  /\ UNCHANGED <<last_sent, groupVars, rx_event, event_queue, ack_tasks, copies, ack, ack_count, opened, in_force, raced>>

\* A server sends commands in order, may skip some, and sends its latest one
\* again after a reconnect.
Sends(c, k) ==
  /\ k \in 1 .. Len(issued) /\ k >= last_sent[c]
  /\ Len(copies) < MaxDeliveries
  /\ rx_event[c] = NoEvent
  /\ last_sent' = [last_sent EXCEPT ![c] = k]
  /\ UNCHANGED issued

-----------------------------------------------------------------------------
(* handleCommandFrom, on the recv thread of connection c.                  *)

withinTolerance(ts) ==
  (IF ts >= timestamp THEN ts - timestamp ELSE timestamp - ts) < ToleranceMs

same_logical_command(k) == epoch # 0 /\ issued[command] = issued[k]

deliberate_retry(k, c) ==
  epoch # 0 /\ ServerCommandId(k, c) # 0 /\ last_id_by_connection[c] \notin {0, ServerCommandId(k, c)}

\* MUTANT: a different, older command is stale only within the tolerance.
IsStaleBounded(k, c) ==
  /\ epoch # 0 /\ ~same_logical_command(k) /\ ~deliberate_retry(k, c)
  /\ TimeStamp(k, c) < timestamp /\ withinTolerance(TimeStamp(k, c))

\* onDelivery's two early returns: a repeat of the active command ...
IsRepeat(k, c) ==
  same_logical_command(k) /\ ~deliberate_retry(k, c) /\ withinTolerance(TimeStamp(k, c))
\* ... and a different command older than the active one.
IsStale(k, c) ==
  /\ epoch # 0 /\ ~same_logical_command(k) /\ ~deliberate_retry(k, c)
  /\ TimeStamp(k, c) < timestamp

ThisCopy == Len(copies) + 1
Joins(k, e) == copies' = Append(copies, [command |-> k, epoch |-> e])

\* An unknown command, or a goto to no valid position.
RejectDelivery(c, k) ==
  /\ Sends(c, k)
  /\ issued[k] \in Unactionable
  /\ Joins(k, 0)
  /\ Acknowledge({ThisCopy}, "rejected")
  /\ UNCHANGED <<groupVars, rx_event, event_queue, ack_tasks, opened, in_force, raced>>

\* already_resolved, or pending.
OnRepeat(c, k) ==
  /\ Sends(c, k)
  /\ issued[k] \notin Unactionable /\ IsRepeat(k, c)
  /\ Joins(k, epoch)
  /\ last_id_by_connection' = IF ServerCommandId(k, c) = 0 THEN last_id_by_connection
                              ELSE [last_id_by_connection EXCEPT ![c] = k]
  /\ \/ /\ group_resolution # "none"
        /\ Acknowledge({ThisCopy}, group_resolution)
        /\ UNCHANGED pending
     \/ /\ group_resolution = "none"
        /\ pending' = pending \cup {ThisCopy}
        /\ UNCHANGED <<ack, ack_count>>
  /\ UNCHANGED <<epoch, command, timestamp, group_resolution, rx_event, event_queue, ack_tasks, opened, in_force, raced>>

\* stale_superseded.
OnStale(c, k) ==
  /\ Sends(c, k)
  /\ issued[k] \notin Unactionable /\ IsStale(k, c)
  /\ Joins(k, 0)
  /\ Acknowledge({ThisCopy}, "newer_command")
  /\ UNCHANGED <<groupVars, rx_event, event_queue, ack_tasks, opened, in_force, raced>>

\* MUTANT: the copies of a displaced command are never answered.
OnNewCommandForgets(c, k) ==
  /\ Sends(c, k)
  /\ issued[k] \notin Unactionable /\ ~IsRepeat(k, c) /\ ~IsStale(k, c)
  /\ Joins(k, epoch + 1)
  /\ epoch' = epoch + 1 /\ command' = k /\ timestamp' = TimeStamp(k, c)
  /\ pending' = {ThisCopy} /\ group_resolution' = "none"
  /\ last_id_by_connection' = [d \in Connections |-> IF d = c THEN ServerCommandId(k, c) ELSE 0]
  /\ rx_event' = [rx_event EXCEPT ![c] = [epoch |-> epoch + 1, command |-> k]]
  /\ opened' = Append(opened, k) /\ raced' = (raced \/ \E d \in Connections : rx_event[d] # NoEvent)
  /\ UNCHANGED <<event_queue, ack_tasks, ack, ack_count, in_force>>

\* actuate: a new group; the copies of the displaced one are acked as superseded.
OnNewCommand(c, k) ==
  /\ Sends(c, k)
  /\ issued[k] \notin Unactionable /\ ~IsRepeat(k, c) /\ ~IsStale(k, c)
  /\ Joins(k, epoch + 1)
  /\ Acknowledge(pending, "newer_command")
  /\ epoch' = epoch + 1 /\ command' = k /\ timestamp' = TimeStamp(k, c)
  /\ pending' = {ThisCopy} /\ group_resolution' = "none"
  /\ last_id_by_connection' = [d \in Connections |-> IF d = c THEN ServerCommandId(k, c) ELSE 0]
  /\ rx_event' = [rx_event EXCEPT ![c] = [epoch |-> epoch + 1, command |-> k]]
  /\ opened' = Append(opened, k) /\ raced' = (raced \/ \E d \in Connections : rx_event[d] # NoEvent)
  /\ UNCHANGED <<event_queue, ack_tasks, in_force>>

\* MUTANT: the event is queued ahead of the ones that wait.
ReportCommandFirst(c) ==
  /\ rx_event[c] # NoEvent
  /\ event_queue' = <<rx_event[c]>> \o event_queue
  /\ rx_event' = [rx_event EXCEPT ![c] = NoEvent]
  /\ UNCHANGED <<sourceVars, groupVars, ack_tasks, copies, ack, ack_count, opened, in_force, raced>>

\* The command callback enqueues the event, outside the group's mutex.
report_command(c) ==
  /\ rx_event[c] # NoEvent
  /\ event_queue' = Append(event_queue, rx_event[c])
  /\ rx_event' = [rx_event EXCEPT ![c] = NoEvent]
  /\ UNCHANGED <<sourceVars, groupVars, ack_tasks, copies, ack, ack_count, opened, in_force, raced>>

-----------------------------------------------------------------------------
\* The event loop: FSSNewCommand answers, postAck hands the answer to the worker.
Dispatch ==
  /\ event_queue # <<>>
  /\ event_queue' = Tail(event_queue)
  /\ in_force' = Head(event_queue).command
  /\ \E res \in Resolutions :
       ack_tasks' = Append(ack_tasks, [epoch |-> Head(event_queue).epoch, res |-> res])
  /\ UNCHANGED <<sourceVars, groupVars, rx_event, copies, ack, ack_count, opened, raced>>

\* MUTANT: only the copy that opened the group is answered.
ResolveOpener ==
  /\ ack_tasks # <<>>
  /\ ack_tasks' = Tail(ack_tasks)
  /\ \/ /\ Head(ack_tasks).epoch = epoch
        /\ group_resolution' = Head(ack_tasks).res
        /\ pending' = {}
        /\ Acknowledge({n \in pending : \A m \in pending : n <= m}, Head(ack_tasks).res)
     \/ /\ Head(ack_tasks).epoch # epoch
        /\ UNCHANGED <<group_resolution, pending, ack, ack_count>>
  /\ UNCHANGED <<sourceVars, epoch, command, timestamp, last_id_by_connection, rx_event, event_queue,
                 copies, opened, in_force, raced>>

\* The FSS send worker runs the responder: resolve, then ack what it returns.
resolve ==
  /\ ack_tasks # <<>>
  /\ ack_tasks' = Tail(ack_tasks)
  /\ \/ /\ Head(ack_tasks).epoch = epoch
        /\ group_resolution' = Head(ack_tasks).res
        /\ pending' = {}
        /\ Acknowledge(pending, Head(ack_tasks).res)
     \/ /\ Head(ack_tasks).epoch # epoch
        /\ UNCHANGED <<group_resolution, pending, ack, ack_count>>
  /\ UNCHANGED <<sourceVars, epoch, command, timestamp, last_id_by_connection, rx_event, event_queue,
                 copies, opened, in_force, raced>>

Init ==
  /\ issued = <<>> /\ last_sent = [c \in Connections |-> 0]
  /\ epoch = 0 /\ command = 0 /\ timestamp = 0
  /\ pending = {} /\ group_resolution = "none"
  /\ last_id_by_connection = [c \in Connections |-> 0]
  /\ rx_event = [c \in Connections |-> NoEvent]
  /\ event_queue = <<>> /\ ack_tasks = <<>>
  /\ copies = <<>> /\ ack = [n \in Copies |-> "none"] /\ ack_count = [n \in Copies |-> 0]
  /\ opened = <<>> /\ in_force = 0 /\ raced = FALSE

handleCommandFrom(c) == \E k \in 1 .. Len(issued) :
  RejectDelivery(c, k) \/ OnRepeat(c, k) \/ OnStale(c, k) \/ OnNewCommand(c, k)

Next ==
  \/ Issue
  \/ \E c \in Connections : handleCommandFrom(c) \/ report_command(c)
  \/ Dispatch \/ resolve

Spec == Init /\ [][Next]_vars

\* A recv thread that took a command finishes with it; the event loop and the
\* send worker drain their queues.  Nothing is assumed of operator or servers.
FairSpec == Spec /\ (\A c \in Connections : WF_vars(report_command(c))) /\ WF_vars(Dispatch) /\ WF_vars(resolve)

-----------------------------------------------------------------------------
(* Properties.                                                             *)

\* Types of the group and of the history.
TypeOK ==
  /\ issued \in Seq(Contents) /\ last_sent \in [Connections -> 0 .. Len(issued)]
  /\ epoch \in Nat /\ command \in 0 .. Len(issued) /\ timestamp \in Nat
  /\ pending \subseteq 1 .. Len(copies)
  /\ group_resolution \in Resolutions \cup {"none"}
  /\ last_id_by_connection \in [Connections -> 0 .. Len(issued)]
  /\ ack \in [Copies -> Resolutions \cup {"none", "rejected", "newer_command"}]
  /\ ack_count \in [Copies -> Nat] /\ raced \in BOOLEAN

\* Every copy delivered gets its terminal ack (no operator row is left without
\* one): displaced, resolved or late, it is answered in the end.
EveryCopyAcked == \A n \in Copies : (n <= Len(copies)) ~> (ack_count[n] > 0)

\* As long as the operator never repeats himself, each command is actuated once,
\* however many servers deliver it and however often ("we action it exactly once").
ActuatedOnce ==
  (\A k, l \in 1 .. Len(issued) : k # l => issued[k] # issued[l])
    => \A i, j \in 1 .. Len(opened) : i # j => opened[i] # opened[j]

\* Once everything is drained the aircraft flies the group's command, and none
\* whose copies were told that a newer one replaced it: the queue keeps the order
\* of the group's decisions, unless two recv threads decided before the first of
\* them had queued its event (onDelivery, report_command, dispatch).
GroupCommandInForce ==
  (epoch # 0 /\ event_queue = <<>> /\ \A c \in Connections : rx_event[c] = NoEvent)
    => in_force = command \/ raced

\* The group implements its specification: whatever the servers' clocks, ids,
\* repeats and the threads do, a group is answered as a whole, once, with one
\* outcome, and late copies get that outcome (CommandAckGroup as the servers see it).
Promise == INSTANCE CommandAckSpec WITH
  delivered <- Len(copies), latest <- epoch, sent <- ack_count,
  group <- [n \in Copies |-> IF n <= Len(copies) THEN copies[n].epoch ELSE 0]
ImplementsAckSpec == Promise!Spec
=============================================================================
