------------------------ MODULE CommandAckGroupProofs ------------------------
(***************************************************************************)
(* Proofs for CommandAckGroup, for any number of servers, commands and     *)
(* copies and every tolerance above the skew of the servers' clocks: the   *)
(* group implements CommandAckSpec, each command is actuated once, and the *)
(* command in force is the group's.                                        *)
(***************************************************************************)
EXTENDS CommandAckGroup, TLAPS

-----------------------------------------------------------------------------
(* The inductive invariants.                                               *)

Event == [epoch : Nat, command : Nat]
Answers == Resolutions \cup {"none", "rejected", "newer_command"}

\* TypeOK, and the types of what it leaves out.
Types ==
  /\ TypeOK
  /\ rx_event \in [Connections -> Event]
  /\ event_queue \in Seq(Event)
  /\ ack_tasks \in Seq([epoch : Nat, res : Resolutions])
  /\ copies \in Seq(Event) /\ Len(copies) <= MaxDeliveries
  /\ opened \in Seq(Nat) /\ Len(opened) = epoch
  /\ in_force \in Nat

Members(e) == {n \in 1 .. Len(copies) : copies[n].epoch = e}

\* The answers: none to a copy that was not delivered, one to every other but
\* the pending ones; the active group is pending, or answered, as a whole.
Answered ==
  /\ \A n \in Copies : ack_count[n] = IF ack[n] = "none" THEN 0 ELSE 1
  /\ \A n \in Copies : n > Len(copies) => ack[n] = "none"
  /\ \A n \in 1 .. Len(copies) : copies[n].epoch <= epoch
  /\ epoch = 0 => group_resolution = "none" /\ pending = {}
  /\ epoch # 0 => Members(epoch) # {}
  /\ epoch # 0 /\ group_resolution = "none" =>
       /\ pending = Members(epoch)
       /\ \A n \in Members(epoch) : ack[n] = "none"
  /\ epoch # 0 /\ group_resolution # "none" =>
       /\ pending = {}
       /\ \A n \in Members(epoch) : ack[n] = group_resolution

\* A group's event is in one place at a time: with the recv thread, in the event
\* queue, or, answered, with the send worker.  None is left once it is resolved.
Open(e) == e \in 1 .. epoch /\ (e = epoch => group_resolution = "none")
Tokens ==
  /\ \A c \in Connections : rx_event[c] # NoEvent => Open(rx_event[c].epoch)
  /\ \A i \in 1 .. Len(event_queue) : Open(event_queue[i].epoch)
  /\ \A i \in 1 .. Len(ack_tasks) : Open(ack_tasks[i].epoch)
  /\ \A c, d \in Connections :
       rx_event[c] # NoEvent /\ rx_event[c].epoch = rx_event[d].epoch => c = d
  /\ \A i, j \in 1 .. Len(event_queue) : event_queue[i].epoch = event_queue[j].epoch => i = j
  /\ \A i, j \in 1 .. Len(ack_tasks) : ack_tasks[i].epoch = ack_tasks[j].epoch => i = j
  /\ \A c \in Connections, i \in 1 .. Len(event_queue) : rx_event[c].epoch # event_queue[i].epoch
  /\ \A c \in Connections, i \in 1 .. Len(ack_tasks) : rx_event[c].epoch # ack_tasks[i].epoch
  /\ \A i \in 1 .. Len(event_queue), j \in 1 .. Len(ack_tasks) : event_queue[i].epoch # ack_tasks[j].epoch

\* The copies of a group, the active or an earlier one, are answered alike.
Alike ==
  \A m, n \in 1 .. Len(copies) :
    copies[m].epoch = copies[n].epoch /\ copies[m].epoch # 0 => ack[m] = ack[n]

\* As long as the operator never repeats himself the commands of the groups
\* only grow: what a server numbered in this group is the group's command.
Distinct == \A k, l \in 1 .. Len(issued) : k # l => issued[k] # issued[l]
Increasing ==
  /\ epoch # 0 => command # 0 /\ opened[epoch] = command
  /\ epoch # 0 => timestamp \in {2 * command, 2 * command + 1}
  /\ \A c \in Connections : last_id_by_connection[c] <= last_sent[c]
  /\ Distinct =>
       /\ \A c \in Connections : last_id_by_connection[c] \in {0, command}
       /\ \A i, j \in 1 .. Len(opened) : i < j => opened[i] < opened[j]

\* Unless raced, the group's event is the last one under way.
Latest ==
  ~raced =>
    /\ \A c \in Connections : rx_event[c] # NoEvent => rx_event[c].command = command
    /\ (epoch # 0 /\ \A c \in Connections : rx_event[c] = NoEvent) =>
         IF event_queue = <<>> THEN in_force = command
         ELSE event_queue[Len(event_queue)].command = command

IInv == Types /\ Answered /\ Tokens /\ Alike /\ Increasing /\ Latest

-----------------------------------------------------------------------------
(* Sequences, as far as queues need them.                                  *)

LEMMA Appended ==
  ASSUME NEW S, NEW s \in Seq(S), NEW x \in S
  PROVE  /\ Append(s, x) \in Seq(S) /\ Len(Append(s, x)) = Len(s) + 1
         /\ \A i \in 1 .. Len(s) : Append(s, x)[i] = s[i]
         /\ Append(s, x)[Len(s) + 1] = x
  OBVIOUS

LEMMA FrontTaken ==
  ASSUME NEW S, NEW s \in Seq(S), s # <<>>
  PROVE  /\ Head(s) \in S /\ Head(s) = s[1] /\ Len(s) \in Nat /\ Len(s) # 0
         /\ Tail(s) \in Seq(S) /\ Len(Tail(s)) = Len(s) - 1
         /\ \A i \in 1 .. Len(Tail(s)) : Tail(s)[i] = s[i + 1]
  OBVIOUS

LEMMA StampBounds ==
  ASSUME NEW k \in Nat, NEW c \in Connections
  PROVE  TimeStamp(k, c) \in {2 * k, 2 * k + 1} /\ TimeStamp(k, c) \in Nat
  BY GroupAssumption DEF TimeStamp

\* sendCommandAck keeps the types, whomever it is sent to.
LEMMA AcknowledgeTypes ==
  ASSUME Types, NEW targets, NEW outcome \in Answers, Acknowledge(targets, outcome)
  PROVE  /\ ack' \in [Copies -> Answers] /\ ack_count' \in [Copies -> Nat]
  BY DEF Acknowledge, Types, TypeOK, Answers

-----------------------------------------------------------------------------
(* Types.                                                                  *)

LEMMA InitTypes == Init => Types
  <1> SUFFICES ASSUME Init PROVE Types
    OBVIOUS
  <1>0. issued \in Seq(Contents) /\ Len(issued) = 0
    BY DEF Init
  <1>1. TypeOK
    <2>1. ack \in [Copies -> Resolutions \cup {"none", "rejected", "newer_command"}]
      BY DEF Init
    <2>2. last_sent \in [Connections -> 0 .. 0] /\ last_id_by_connection \in [Connections -> 0 .. 0]
      BY DEF Init
    <2>3. ack_count \in [Copies -> Nat]
      BY DEF Init
    <2>4. epoch \in Nat /\ command \in 0 .. 0 /\ timestamp \in Nat /\ pending = {}
      BY DEF Init
    <2>5. group_resolution \in Resolutions \cup {"none"} /\ raced \in BOOLEAN
      BY DEF Init
    <2> QED BY <1>0, <2>1, <2>2, <2>3, <2>4, <2>5, Zenon DEF TypeOK
  <1>2. rx_event \in [Connections -> Event] /\ in_force \in Nat
    BY DEF Init, Event, NoEvent
  <1>3. copies \in Seq(Event) /\ Len(copies) <= MaxDeliveries /\ opened \in Seq(Nat) /\ Len(opened) = epoch
    BY GroupAssumption DEF Init
  <1>4. event_queue \in Seq(Event) /\ ack_tasks \in Seq([epoch : Nat, res : Resolutions])
    BY DEF Init
  <1> QED BY <1>1, <1>2, <1>3, <1>4 DEF Types

\* What a delivery of command k into group e does, whichever way it ends.
Delivered(c, k, e) ==
  /\ issued' = issued /\ last_sent' \in [Connections -> 0 .. Len(issued)]
  /\ k \in Nat /\ k # 0 /\ last_sent[c] <= k
  /\ last_sent' = [last_sent EXCEPT ![c] = k]
  /\ Len(copies) \in Nat /\ Len(copies') = Len(copies) + 1 /\ Len(copies') <= MaxDeliveries
  /\ ThisCopy = Len(copies) + 1 /\ ThisCopy \in Copies
  /\ copies' \in Seq(Event)
  /\ \A n \in 1 .. Len(copies) : copies'[n] = copies[n]
  /\ copies'[ThisCopy] = [command |-> k, epoch |-> e]
  /\ rx_event[c] = NoEvent

LEMMA Delivery ==
  ASSUME Types, NEW c \in Connections, NEW k \in 1 .. Len(issued), NEW e \in Nat, Sends(c, k), Joins(k, e)
  PROVE  Delivered(c, k, e)
  <1>1. k \in Nat /\ k # 0 /\ [command |-> k, epoch |-> e] \in Event /\ Len(issued) \in Nat
    BY DEF Types, TypeOK, Event
  <1>2. copies' = Append(copies, [command |-> k, epoch |-> e]) /\ copies \in Seq(Event)
    BY DEF Joins, Types
  <1>3. issued' = issued /\ last_sent' = [last_sent EXCEPT ![c] = k] /\ last_sent[c] <= k
        /\ Len(copies) < MaxDeliveries /\ rx_event[c] = NoEvent
    BY DEF Sends
  <1>4. last_sent' \in [Connections -> 0 .. Len(issued)]
    BY <1>3 DEF Types, TypeOK
  <1>5. Len(copies) \in Nat
    BY <1>2
  <1>6. ThisCopy = Len(copies) + 1 /\ ThisCopy \in Copies
    BY <1>3, <1>5, GroupAssumption DEF ThisCopy, Copies
  <1>7. /\ copies' \in Seq(Event) /\ Len(copies') = Len(copies) + 1
        /\ \A n \in 1 .. Len(copies) : copies'[n] = copies[n]
        /\ copies'[Len(copies) + 1] = [command |-> k, epoch |-> e]
    BY <1>1, <1>2, Appended
  <1> QED
    BY <1>1, <1>3, <1>4, <1>5, <1>6, <1>7, GroupAssumption DEF Delivered

LEMMA TypesKept == ASSUME Types, [Next]_vars PROVE Types'
  <1> USE DEF Types
  <1>t. epoch \in Nat /\ Len(issued) \in Nat /\ MaxDeliveries \in Nat
    BY GroupAssumption DEF TypeOK
  <1>1. CASE Issue
    <2>1. PICK content \in Contents : issued' = Append(issued, content)
      BY <1>1 DEF Issue
    <2>2. issued' \in Seq(Contents) /\ Len(issued') = Len(issued) + 1
      BY <2>1, Appended DEF TypeOK
    <2> QED BY <1>1, <2>2, <1>t DEF Issue, TypeOK, groupVars
  <1>2. ASSUME NEW c \in Connections, NEW k \in 1 .. Len(issued),
               RejectDelivery(c, k) \/ OnStale(c, k)
        PROVE  Types'
    <2>1. Sends(c, k) /\ Joins(k, 0) /\ UNCHANGED <<groupVars, rx_event, event_queue, ack_tasks, opened, in_force, raced>>
      BY <1>2 DEF RejectDelivery, OnStale
    <2>2. PICK outcome \in Answers : Acknowledge({ThisCopy}, outcome)
      BY <1>2 DEF RejectDelivery, OnStale, Answers
    <2>3. Delivered(c, k, 0)
      BY <2>1, Delivery
    <2>4. ack' \in [Copies -> Answers] /\ ack_count' \in [Copies -> Nat]
      BY <2>2, AcknowledgeTypes
    <2> QED BY <2>1, <2>3, <2>4, <1>t DEF Delivered, TypeOK, Answers, groupVars
  <1>3. ASSUME NEW c \in Connections, NEW k \in 1 .. Len(issued), OnRepeat(c, k)
        PROVE  Types'
    <2>1. Delivered(c, k, epoch)
      BY <1>3, <1>t, Delivery DEF OnRepeat
    <2>2. ack' \in [Copies -> Answers] /\ ack_count' \in [Copies -> Nat]
      <3>1. CASE Acknowledge({ThisCopy}, group_resolution)
        BY <3>1, AcknowledgeTypes DEF TypeOK, Answers
      <3>2. CASE UNCHANGED <<ack, ack_count>>
        BY <3>2 DEF TypeOK, Answers
      <3> QED BY <1>3, <3>1, <3>2 DEF OnRepeat
    <2>3. pending' \subseteq 1 .. Len(copies')
      <3>1. pending' \subseteq pending \cup {ThisCopy}
        BY <1>3 DEF OnRepeat
      <3>2. pending \subseteq 1 .. Len(copies)
        BY DEF TypeOK
      <3>3. Len(copies) \in Nat /\ Len(copies') = Len(copies) + 1 /\ ThisCopy = Len(copies) + 1
        BY <2>1 DEF Delivered
      <3> HIDE DEF Types
      <3> QED BY <3>1, <3>2, <3>3
    <2>4. last_id_by_connection' \in [Connections -> 0 .. Len(issued)]
      BY <1>3, <2>1, <1>t DEF Delivered, OnRepeat, TypeOK
    <2> QED BY <1>3, <2>1, <2>2, <2>3, <2>4, <1>t DEF Delivered, OnRepeat, TypeOK, Answers
  <1>4. ASSUME NEW c \in Connections, NEW k \in 1 .. Len(issued), OnNewCommand(c, k)
        PROVE  Types'
    <2>1. Delivered(c, k, epoch + 1) /\ epoch + 1 \in Nat
      BY <1>4, <1>t, Delivery DEF OnNewCommand
    <2>2. ack' \in [Copies -> Answers] /\ ack_count' \in [Copies -> Nat]
      BY <1>4, AcknowledgeTypes DEF OnNewCommand, Answers
    <2>3. last_id_by_connection' \in [Connections -> 0 .. Len(issued)]
      BY <1>4, <1>t DEF OnNewCommand, ServerCommandId
    <2>4. opened' \in Seq(Nat) /\ Len(opened') = epoch + 1
      BY <1>4, <1>t, Appended DEF OnNewCommand
    <2>5. rx_event' \in [Connections -> Event]
      BY <1>4, <1>t DEF OnNewCommand, Event
    <2>6. timestamp' \in Nat /\ command' \in 0 .. Len(issued) /\ epoch' = epoch + 1
      BY <1>4, <1>t, StampBounds DEF OnNewCommand
    <2>7. pending' \subseteq 1 .. Len(copies') /\ group_resolution' = "none" /\ raced' \in BOOLEAN
      BY <1>4, <2>1 DEF Delivered, OnNewCommand, TypeOK
    <2> QED BY <1>4, <2>1, <2>2, <2>3, <2>4, <2>5, <2>6, <2>7, <1>t DEF Delivered, OnNewCommand, TypeOK, Answers
  <1>5. ASSUME NEW c \in Connections, report_command(c)
        PROVE  Types'
    <2>1. event_queue' \in Seq(Event) /\ rx_event' \in [Connections -> Event]
      BY <1>5, Appended DEF report_command, NoEvent, Event
    <2> QED BY <1>5, <2>1 DEF report_command, TypeOK, groupVars, sourceVars
  <1>6. CASE Dispatch
    <2>1. Head(event_queue) \in Event /\ event_queue' \in Seq(Event)
      BY <1>6, FrontTaken DEF Dispatch
    <2>2. PICK res \in Resolutions :
            ack_tasks' = Append(ack_tasks, [epoch |-> Head(event_queue).epoch, res |-> res])
      BY <1>6 DEF Dispatch
    <2>3. ack_tasks' \in Seq([epoch : Nat, res : Resolutions]) /\ in_force' \in Nat
      BY <1>6, <2>1, <2>2, Appended DEF Event, Dispatch
    <2> QED BY <1>6, <2>1, <2>3 DEF Dispatch, TypeOK, groupVars, sourceVars
  <1>7. CASE resolve
    <2>0. Head(ack_tasks) \in [epoch : Nat, res : Resolutions] /\ ack_tasks' \in Seq([epoch : Nat, res : Resolutions])
      BY <1>7, FrontTaken DEF resolve
    <2>1. Head(ack_tasks).res \in Resolutions /\ ack_tasks' \in Seq([epoch : Nat, res : Resolutions])
      BY <2>0
    <2>2. ack' \in [Copies -> Answers] /\ ack_count' \in [Copies -> Nat]
      <3>1. CASE Acknowledge(pending, Head(ack_tasks).res)
        BY <3>1, <2>1, AcknowledgeTypes DEF Answers
      <3>2. CASE UNCHANGED <<ack, ack_count>>
        BY <3>2 DEF TypeOK, Answers
      <3> QED BY <1>7, <3>1, <3>2 DEF resolve
    <2> QED BY <1>7, <2>1, <2>2 DEF resolve, TypeOK, Answers, sourceVars
  <1>8. CASE UNCHANGED vars
    BY <1>8 DEF vars, TypeOK, groupVars, sourceVars
  <1> QED BY <1>1, <1>2, <1>3, <1>4, <1>5, <1>6, <1>7, <1>8 DEF Next, handleCommandFrom

-----------------------------------------------------------------------------
(* Answers.                                                                *)

Counted == \A n \in Copies : ack_count[n] = IF ack[n] = "none" THEN 0 ELSE 1

LEMMA Acknowledged ==
  ASSUME Types, Counted, NEW targets, \A n \in targets : n \in Copies => ack[n] = "none",
         NEW outcome \in Answers \ {"none"}, Acknowledge(targets, outcome)
  PROVE  /\ Counted'
         /\ \A n \in Copies : ack'[n] = IF n \in targets THEN outcome ELSE ack[n]
  BY DEF Acknowledge, Counted, Types, TypeOK, Answers

\* The members of group e after the step.
MembersAfter(e) == {n \in 1 .. Len(copies') : copies'[n].epoch = e}

LEMMA MemberJoins ==
  ASSUME Types, NEW c \in Connections, NEW k \in Nat, NEW e \in Nat, Delivered(c, k, e)
  PROVE  /\ MembersAfter(e) = Members(e) \cup {ThisCopy}
         /\ \A f \in Nat : f # e => MembersAfter(f) = Members(f)
         /\ \A f \in Nat : ThisCopy \notin Members(f)
         /\ Members(e) \subseteq Copies
  <1>1. /\ Len(copies) \in Nat /\ Len(copies') = Len(copies) + 1 /\ ThisCopy = Len(copies) + 1
        /\ Len(copies') <= MaxDeliveries
        /\ \A n \in 1 .. Len(copies) : copies'[n] = copies[n]
        /\ copies'[ThisCopy].epoch = e
    BY DEF Delivered
  <1> QED BY <1>1, GroupAssumption DEF Members, MembersAfter, Copies

\* The resolutions of the code are none of the answers the group gives itself.
LEMMA ResolutionsApart == "none" \notin Resolutions /\ Resolutions \subseteq Answers \ {"none"}
  BY GroupAssumption DEF Answers

LEMMA InitAnswered == Init => Answered /\ Alike
  BY DEF Init, Answered, Alike, Members

LEMMA AnsweredKept == ASSUME IInv, [Next]_vars PROVE Answered' /\ Alike'
  <1> USE DEF IInv
  <1>t. epoch \in Nat /\ Len(copies) \in Nat /\ MaxDeliveries \in Nat /\ pending \subseteq Members(epoch)
    BY GroupAssumption DEF Types, TypeOK, Answered
  <1>c. Counted /\ \A n \in 1 .. Len(copies) : n \in Copies
    BY <1>t DEF Answered, Counted, Types, Copies
  <1>same. ASSUME UNCHANGED <<epoch, pending, group_resolution, copies, ack, ack_count>>
           PROVE  Answered' /\ Alike'
    BY <1>same DEF Answered, Alike, Members
  <1>1. CASE Issue
    BY <1>1, <1>same DEF Issue, groupVars
  <1>2. ASSUME NEW c \in Connections, NEW k \in 1 .. Len(issued),
               RejectDelivery(c, k) \/ OnStale(c, k)
        PROVE  Answered' /\ Alike'
    <2>1. PICK outcome \in Answers \ {"none"} : Acknowledge({ThisCopy}, outcome)
      BY <1>2 DEF RejectDelivery, OnStale, Answers
    <2>2. Delivered(c, k, 0) /\ UNCHANGED <<epoch, pending, group_resolution>> /\ k \in Nat
      BY <1>2, Delivery DEF RejectDelivery, OnStale, groupVars
    <2>3. ThisCopy \in Copies /\ ThisCopy = Len(copies) + 1 /\ Len(copies') = Len(copies) + 1
          /\ ack[ThisCopy] = "none"
      BY <2>2, <1>t DEF Delivered, Answered
    <2>4. Counted' /\ \A n \in Copies : ack'[n] = IF n = ThisCopy THEN outcome ELSE ack[n]
      <3>1. \A n \in {ThisCopy} : n \in Copies => ack[n] = "none"
        BY <2>3
      <3>2. Counted' /\ \A n \in Copies : ack'[n] = IF n \in {ThisCopy} THEN outcome ELSE ack[n]
        BY <2>1, <3>1, <1>c, Acknowledged
      <3> QED BY <3>2
    <2>5. /\ \A f \in Nat : f # 0 => MembersAfter(f) = Members(f)
          /\ \A f \in Nat : ThisCopy \notin Members(f)
      BY <2>2, MemberJoins
    <2>6. \A n \in 1 .. Len(copies) : copies'[n] = copies[n]
      BY <2>2 DEF Delivered
    <2>7. copies'[ThisCopy].epoch = 0
      BY <2>2 DEF Delivered
    <2>8. Answered'
      <3>1. \A n \in 1 .. Len(copies') : copies'[n].epoch <= epoch'
        BY <2>2, <2>3, <2>6, <2>7, <1>t DEF Answered
      <3>2. \A n \in Copies : n > Len(copies') => ack'[n] = "none"
        BY <2>3, <2>4, <1>t DEF Answered, Copies
      <3>3. epoch # 0 => Members(epoch)' = Members(epoch)
        BY <2>2, <2>5, <1>t DEF Members, MembersAfter
      <3>4. \A n \in Members(epoch) : ack'[n] = ack[n]
        BY <2>4, <2>5, <1>t, <1>c DEF Members
      <3> QED BY <2>2, <2>4, <3>1, <3>2, <3>3, <3>4 DEF Answered, Counted
    <2>9. Alike'
      BY <2>3, <2>4, <2>6, <2>7, <1>t, <1>c DEF Alike
    <2> QED BY <2>8, <2>9
  <1>3. ASSUME NEW c \in Connections, NEW k \in 1 .. Len(issued), OnRepeat(c, k)
        PROVE  Answered' /\ Alike'
    <2>1. Delivered(c, k, epoch) /\ epoch # 0 /\ UNCHANGED <<epoch, group_resolution>> /\ k \in Nat
      BY <1>3, <1>t, Delivery DEF OnRepeat, IsRepeat, same_logical_command
    <2>2. ThisCopy \in Copies /\ ThisCopy = Len(copies) + 1 /\ Len(copies') = Len(copies) + 1
          /\ ack[ThisCopy] = "none"
      BY <2>1, <1>t DEF Delivered, Answered
    <2>3. Members(epoch)' = Members(epoch) \cup {ThisCopy} /\ ThisCopy \notin Members(epoch)
      <3>1. MembersAfter(epoch) = Members(epoch) \cup {ThisCopy} /\ ThisCopy \notin Members(epoch)
        BY <2>1, <1>t, MemberJoins
      <3> QED BY <3>1, <2>1 DEF Members, MembersAfter
    <2>4. Counted' /\ \A n \in Copies : ack'[n] = IF n = ThisCopy /\ group_resolution # "none"
                                                  THEN group_resolution ELSE ack[n]
      <3>1. CASE group_resolution # "none"
        <4>1. Acknowledge({ThisCopy}, group_resolution) /\ group_resolution \in Answers \ {"none"}
          BY <1>3, <3>1, ResolutionsApart DEF OnRepeat, Types, TypeOK, Answers
        <4>2. \A n \in {ThisCopy} : n \in Copies => ack[n] = "none"
          BY <2>2
        <4>3. Counted' /\ \A n \in Copies : ack'[n] = IF n \in {ThisCopy} THEN group_resolution ELSE ack[n]
          BY <4>1, <4>2, <1>c, Acknowledged
        <4> QED BY <4>3, <3>1
      <3>2. CASE group_resolution = "none"
        BY <1>3, <3>2, <1>c DEF OnRepeat, Counted
      <3> QED BY <3>1, <3>2
    <2>5. \A n \in 1 .. Len(copies) : copies'[n] = copies[n]
      BY <2>1 DEF Delivered
    <2>6. copies'[ThisCopy].epoch = epoch
      BY <2>1 DEF Delivered
    <2>7. pending' = IF group_resolution = "none" THEN pending \cup {ThisCopy} ELSE pending
      BY <1>3 DEF OnRepeat
    <2>8. \A n \in Members(epoch)' : ack'[n] = group_resolution
      <3>1. \A n \in Members(epoch) : n \in Copies /\ ack[n] = group_resolution
        BY <2>1, <1>c DEF Answered, Members
      <3> QED BY <3>1, <2>2, <2>3, <2>4
    <2>9. Answered'
      <3>1. \A n \in 1 .. Len(copies') : copies'[n].epoch <= epoch
        BY <2>2, <2>5, <2>6, <1>t DEF Answered
      <3>2. \A n \in Copies : n > Len(copies') => ack'[n] = "none"
        BY <2>2, <2>4, <1>t DEF Answered, Copies
      <3>3. pending' = IF group_resolution = "none" THEN Members(epoch)' ELSE {}
        BY <2>1, <2>3, <2>7 DEF Answered
      <3> QED BY <2>1, <2>3, <2>4, <2>8, <3>1, <3>2, <3>3 DEF Answered, Counted
    <2>10. Alike'
      <3>1. ASSUME NEW m \in 1 .. Len(copies'), NEW n \in 1 .. Len(copies'),
                   copies'[m].epoch = copies'[n].epoch, copies'[m].epoch # 0
            PROVE  ack'[m] = ack'[n]
        <4>1. CASE copies'[m].epoch = epoch
          BY <3>1, <4>1, <2>1, <2>8 DEF Members
        <4>2. CASE copies'[m].epoch # epoch
          <5>1. m # ThisCopy /\ n # ThisCopy
            BY <3>1, <4>2, <2>6
          <5>2. m \in 1 .. Len(copies) /\ n \in 1 .. Len(copies)
            BY <5>1, <2>2, <1>t
          <5>3. ack'[m] = ack[m] /\ ack'[n] = ack[n]
            BY <5>1, <5>2, <2>4, <1>c
          <5> QED BY <3>1, <5>2, <5>3, <2>5 DEF Alike
        <4> QED BY <4>1, <4>2
      <3> QED BY <3>1 DEF Alike
    <2> QED BY <2>9, <2>10
  <1>4. ASSUME NEW c \in Connections, NEW k \in 1 .. Len(issued), OnNewCommand(c, k)
        PROVE  Answered' /\ Alike'
    <2>1. Delivered(c, k, epoch + 1) /\ epoch' = epoch + 1 /\ k \in Nat
          /\ pending' = {ThisCopy} /\ group_resolution' = "none"
      BY <1>4, <1>t, Delivery DEF OnNewCommand
    <2>2. ThisCopy \in Copies /\ ThisCopy = Len(copies) + 1 /\ Len(copies') = Len(copies) + 1
          /\ ack[ThisCopy] = "none" /\ ThisCopy \notin pending
      BY <2>1, <1>t DEF Delivered, Answered, Members
    <2>3. \A n \in 1 .. Len(copies) : copies'[n] = copies[n] /\ copies[n].epoch <= epoch /\ copies[n].epoch \in Nat
      <3>1. \A n \in 1 .. Len(copies) : copies'[n] = copies[n]
        BY <2>1 DEF Delivered
      <3>2. \A n \in 1 .. Len(copies) : copies[n] \in Event
        BY DEF Types
      <3>3. \A n \in 1 .. Len(copies) : copies[n].epoch \in Nat
        BY <3>2 DEF Event
      <3> QED BY <3>1, <3>3 DEF Answered
    <2>4. copies'[ThisCopy].epoch = epoch + 1
      BY <2>1 DEF Delivered
    <2>5. Members(epoch)' = {ThisCopy}
      BY <2>1, <2>2, <2>3, <2>4, <1>t DEF Members
    <2>6. \A n \in pending : ack[n] = "none"
      BY <1>t DEF Answered
    <2>7. Counted' /\ \A n \in Copies : ack'[n] = IF n \in pending THEN "newer_command" ELSE ack[n]
      <3>1. Acknowledge(pending, "newer_command") /\ "newer_command" \in Answers \ {"none"}
        BY <1>4 DEF OnNewCommand, Answers
      <3> QED BY <3>1, <2>6, <1>c, Acknowledged
    <2>8. Answered'
      <3>1. \A n \in 1 .. Len(copies') : copies'[n].epoch <= epoch + 1
        BY <2>2, <2>3, <2>4, <1>t
      <3>2. \A n \in Copies : n > Len(copies') => ack'[n] = "none"
        BY <2>2, <2>7, <1>t DEF Answered, Copies, Members
      <3>3. ack'[ThisCopy] = "none"
        BY <2>2, <2>7
      <3>4. epoch' # 0
        BY <2>1, <1>t
      <3> QED BY <2>1, <2>5, <2>7, <3>1, <3>2, <3>3, <3>4 DEF Answered, Counted
    <2>9. Alike'
      <3>1. ASSUME NEW m \in 1 .. Len(copies'), NEW n \in 1 .. Len(copies'),
                   copies'[m].epoch = copies'[n].epoch, copies'[m].epoch # 0
            PROVE  ack'[m] = ack'[n]
        <4>1. CASE m = ThisCopy \/ n = ThisCopy
          <5>1. m = ThisCopy /\ n = ThisCopy
            BY <3>1, <4>1, <2>2, <2>3, <2>4, <1>t
          <5> QED BY <5>1
        <4>2. CASE m # ThisCopy /\ n # ThisCopy
          <5>1. m \in 1 .. Len(copies) /\ n \in 1 .. Len(copies) /\ m \in Copies /\ n \in Copies
            BY <4>2, <2>2, <1>t, <1>c
          <5>2. ack[m] = ack[n] /\ copies[m].epoch = copies[n].epoch /\ copies[m].epoch # 0
            BY <3>1, <5>1, <2>3 DEF Alike
          <5>3. m \in pending <=> n \in pending
            BY <5>1, <5>2 DEF Answered, Members
          <5> QED BY <5>1, <5>2, <5>3, <2>7
        <4> QED BY <4>1, <4>2
      <3> QED BY <3>1 DEF Alike
    <2> QED BY <2>8, <2>9
  <1>5. ASSUME NEW c \in Connections, report_command(c)
        PROVE  Answered' /\ Alike'
    BY <1>5, <1>same DEF report_command, groupVars
  <1>6. CASE Dispatch
    BY <1>6, <1>same DEF Dispatch, groupVars
  <1>7. CASE resolve
    <2>1. CASE UNCHANGED <<group_resolution, pending, ack, ack_count>>
      BY <1>7, <2>1, <1>same DEF resolve
    <2>2. CASE Head(ack_tasks).epoch = epoch /\ group_resolution' = Head(ack_tasks).res
               /\ pending' = {} /\ Acknowledge(pending, Head(ack_tasks).res)
      <3>1. Head(ack_tasks) \in [epoch : Nat, res : Resolutions] /\ Head(ack_tasks) = ack_tasks[1]
            /\ 1 \in 1 .. Len(ack_tasks)
        <4>1. ack_tasks \in Seq([epoch : Nat, res : Resolutions]) /\ ack_tasks # <<>>
          BY <1>7 DEF resolve, Types
        <4>2. Head(ack_tasks) \in [epoch : Nat, res : Resolutions] /\ Head(ack_tasks) = ack_tasks[1]
              /\ Len(ack_tasks) \in Nat /\ Len(ack_tasks) # 0
          BY <4>1, FrontTaken
        <4> QED BY <4>2
      <3>2. epoch # 0 /\ group_resolution = "none"
        BY <3>1, <2>2, <1>t DEF Tokens, Open
      <3>3. pending = Members(epoch) /\ \A n \in pending : ack[n] = "none"
        BY <3>2 DEF Answered
      <3>4. Head(ack_tasks).res \in Answers \ {"none"} /\ Head(ack_tasks).res # "none"
        BY <3>1, ResolutionsApart
      <3>5. Counted' /\ \A n \in Copies : ack'[n] = IF n \in pending THEN Head(ack_tasks).res ELSE ack[n]
        BY <2>2, <3>3, <3>4, <1>c, Acknowledged
      <3>6. UNCHANGED <<epoch, copies>> /\ Members(epoch)' = Members(epoch)
        BY <1>7 DEF resolve, Members
      <3>7. Answered'
        <4>1. \A n \in Members(epoch) : ack'[n] = group_resolution' /\ n \in Copies
          BY <2>2, <3>3, <3>5, <1>c DEF Members
        <4>2. \A n \in Copies : n > Len(copies') => ack'[n] = "none"
          BY <3>3, <3>5, <3>6, <1>t DEF Answered, Members, Copies
        <4> QED BY <2>2, <3>2, <3>4, <3>5, <3>6, <4>1, <4>2 DEF Answered, Counted
      <3>8. Alike'
        BY <3>3, <3>5, <3>6, <1>c DEF Alike, Members
      <3> QED BY <3>7, <3>8
    <2> QED BY <1>7, <2>1, <2>2 DEF resolve
  <1>8. CASE UNCHANGED vars
    BY <1>8, <1>same DEF vars, groupVars
  <1> QED BY <1>1, <1>2, <1>3, <1>4, <1>5, <1>6, <1>7, <1>8 DEF Next, handleCommandFrom

-----------------------------------------------------------------------------
(* Events and ack tasks.                                                   *)

LEMMA InitTokens == Init => Tokens
  BY DEF Init, Tokens, NoEvent

\* The epochs under way are the group's or older, as numbers.
LEMMA TokenTypes ==
  ASSUME Types
  PROVE  /\ epoch \in Nat /\ Len(event_queue) \in Nat /\ Len(ack_tasks) \in Nat
         /\ \A c \in Connections : rx_event[c].epoch \in Nat
         /\ \A i \in 1 .. Len(event_queue) : event_queue[i].epoch \in Nat
         /\ \A i \in 1 .. Len(ack_tasks) : ack_tasks[i].epoch \in Nat
  <1>1. epoch \in Nat /\ Len(event_queue) \in Nat /\ Len(ack_tasks) \in Nat
    BY DEF Types, TypeOK
  <1>2. \A c \in Connections : rx_event[c].epoch \in Nat
    BY DEF Types, Event
  <1>3. \A i \in 1 .. Len(event_queue) : event_queue[i] \in Event
    BY DEF Types
  <1>4. \A i \in 1 .. Len(ack_tasks) : ack_tasks[i] \in [epoch : Nat, res : Resolutions]
    <2> DEFINE Task == [epoch : Nat, res : Resolutions]
    <2>1. ack_tasks \in Seq(Task)
      BY DEF Types
    <2> HIDE DEF Task
    <2>2. \A i \in 1 .. Len(ack_tasks) : ack_tasks[i] \in Task
      BY <2>1
    <2> QED BY <2>2 DEF Task
  <1> QED BY <1>1, <1>2, <1>3, <1>4 DEF Event

OpenAfter(e) == e \in 1 .. epoch' /\ (e = epoch' => group_resolution' = "none")

LEMMA TokensKept == ASSUME IInv, [Next]_vars PROVE Tokens'
  <1> USE DEF IInv
  <1>t. /\ epoch \in Nat /\ Len(event_queue) \in Nat /\ Len(ack_tasks) \in Nat
        /\ \A c \in Connections : rx_event[c].epoch \in Nat
        /\ \A i \in 1 .. Len(event_queue) : event_queue[i].epoch \in Nat
        /\ \A i \in 1 .. Len(ack_tasks) : ack_tasks[i].epoch \in Nat
    BY TokenTypes
  <1>same. ASSUME UNCHANGED <<epoch, group_resolution, rx_event, event_queue, ack_tasks>>
           PROVE  Tokens'
    BY <1>same DEF Tokens, Open
  <1>1. CASE Issue
    BY <1>1, <1>same DEF Issue, groupVars
  <1>2. ASSUME NEW c \in Connections, NEW k \in 1 .. Len(issued),
               RejectDelivery(c, k) \/ OnStale(c, k) \/ OnRepeat(c, k)
        PROVE  Tokens'
    BY <1>2, <1>same DEF RejectDelivery, OnStale, OnRepeat, groupVars
  <1>3. ASSUME NEW c \in Connections, NEW k \in 1 .. Len(issued), OnNewCommand(c, k)
        PROVE  Tokens'
    <2>1. epoch' = epoch + 1 /\ group_resolution' = "none" /\ UNCHANGED <<event_queue, ack_tasks>>
          /\ rx_event[c] = NoEvent
      BY <1>3 DEF OnNewCommand, Sends
    <2>2. rx_event'[c].epoch = epoch + 1 /\ \A d \in Connections \ {c} : rx_event'[d] = rx_event[d]
      BY <1>3 DEF OnNewCommand, Types
    <2>3. \A e \in Nat : Open(e) => OpenAfter(e) /\ e <= epoch
      BY <2>1, <1>t DEF Open, OpenAfter
    <2>4. OpenAfter(epoch + 1) /\ epoch + 1 \in Nat
      BY <2>1, <1>t DEF OpenAfter
    <2>5. /\ \A d \in Connections : rx_event[d].epoch <= epoch
          /\ \A i \in 1 .. Len(event_queue) : event_queue[i].epoch <= epoch
          /\ \A i \in 1 .. Len(ack_tasks) : ack_tasks[i].epoch <= epoch
      <3>1. \A d \in Connections : rx_event[d] # NoEvent => Open(rx_event[d].epoch)
        BY DEF Tokens
      <3>2. \A d \in Connections : rx_event[d] = NoEvent => rx_event[d].epoch = 0
        BY DEF NoEvent
      <3>3. \A d \in Connections : rx_event[d].epoch <= epoch
        BY <3>1, <3>2, <2>3, <1>t
      <3>4. /\ \A i \in 1 .. Len(event_queue) : Open(event_queue[i].epoch)
            /\ \A i \in 1 .. Len(ack_tasks) : Open(ack_tasks[i].epoch)
        BY DEF Tokens
      <3>5. \A i \in 1 .. Len(event_queue) : event_queue[i].epoch <= epoch
        BY <3>4, <2>3, <1>t
      <3>6. \A i \in 1 .. Len(ack_tasks) : ack_tasks[i].epoch <= epoch
        BY <3>4, <2>3, <1>t
      <3> QED BY <3>3, <3>5, <3>6
    <2>6. \A d \in Connections : rx_event'[d] # NoEvent => OpenAfter(rx_event'[d].epoch)
      BY <2>2, <2>3, <2>4, <1>t DEF Tokens
    <2>7. /\ \A i \in 1 .. Len(event_queue) : OpenAfter(event_queue[i].epoch)
          /\ \A i \in 1 .. Len(ack_tasks) : OpenAfter(ack_tasks[i].epoch)
      BY <2>3, <1>t DEF Tokens
    <2>8. \A d, f \in Connections : rx_event'[d] # NoEvent /\ rx_event'[d].epoch = rx_event'[f].epoch => d = f
      <3>1. \A d, f \in Connections : rx_event[d] # NoEvent /\ rx_event[d].epoch = rx_event[f].epoch => d = f
        BY DEF Tokens
      <3>2. \A d \in Connections \ {c} : rx_event'[d].epoch # epoch + 1
        BY <2>2, <2>5, <1>t
      <3> QED BY <2>2, <3>1, <3>2
    <2>9. /\ \A d \in Connections, i \in 1 .. Len(event_queue) : rx_event'[d].epoch # event_queue[i].epoch
          /\ \A d \in Connections, i \in 1 .. Len(ack_tasks) : rx_event'[d].epoch # ack_tasks[i].epoch
      <3>1. /\ \A i \in 1 .. Len(event_queue) : event_queue[i].epoch # epoch + 1
            /\ \A i \in 1 .. Len(ack_tasks) : ack_tasks[i].epoch # epoch + 1
        BY <2>5, <1>t
      <3>2. \A d \in Connections, i \in 1 .. Len(event_queue) : rx_event'[d].epoch # event_queue[i].epoch
        BY <2>2, <3>1 DEF Tokens
      <3>3. \A d \in Connections, i \in 1 .. Len(ack_tasks) : rx_event'[d].epoch # ack_tasks[i].epoch
        BY <2>2, <3>1 DEF Tokens
      <3> QED BY <3>2, <3>3
    <2> QED BY <2>1, <2>6, <2>7, <2>8, <2>9 DEF Tokens, Open, OpenAfter
  <1>4. ASSUME NEW c \in Connections, report_command(c)
        PROVE  Tokens'
    <2>1. UNCHANGED <<epoch, group_resolution, ack_tasks>> /\ rx_event[c] # NoEvent
      BY <1>4 DEF report_command, groupVars
    <2>2. rx_event'[c] = NoEvent /\ \A d \in Connections \ {c} : rx_event'[d] = rx_event[d]
      BY <1>4 DEF report_command, Types
    <2>3. /\ Len(event_queue') = Len(event_queue) + 1
          /\ \A i \in 1 .. Len(event_queue) : event_queue'[i] = event_queue[i]
          /\ event_queue'[Len(event_queue) + 1] = rx_event[c]
      BY <1>4, Appended DEF report_command, Types
    <2>4. \A i \in 1 .. Len(event_queue') :
            \/ i = Len(event_queue) + 1 /\ event_queue'[i] = rx_event[c]
            \/ i \in 1 .. Len(event_queue) /\ event_queue'[i] = event_queue[i]
      BY <2>3, <1>t
    <2>5. NoEvent.epoch = 0
      BY DEF NoEvent
    <2>6. /\ \A d \in Connections : rx_event'[d] # NoEvent => Open(rx_event'[d].epoch)
          /\ \A i \in 1 .. Len(event_queue') : Open(event_queue'[i].epoch)
      BY <2>1, <2>2, <2>4 DEF Tokens
    <2>7. /\ \A d, f \in Connections : rx_event'[d] # NoEvent /\ rx_event'[d].epoch = rx_event'[f].epoch => d = f
          /\ \A d \in Connections, i \in 1 .. Len(ack_tasks) : rx_event'[d].epoch # ack_tasks[i].epoch
      <3>1. rx_event'[c].epoch = 0
        BY <2>2, <2>5
      <3>2. \A d \in Connections : rx_event[d] # NoEvent => rx_event[d].epoch # 0
        BY <1>t DEF Tokens, Open
      <3>3. \A i \in 1 .. Len(ack_tasks) : ack_tasks[i].epoch # 0
        BY <1>t DEF Tokens, Open
      <3>4. \A d, f \in Connections : rx_event[d] # NoEvent /\ rx_event[d].epoch = rx_event[f].epoch => d = f
        BY DEF Tokens
      <3>5. \A d \in Connections, i \in 1 .. Len(ack_tasks) : rx_event[d].epoch # ack_tasks[i].epoch
        BY DEF Tokens
      <3>6. \A d, f \in Connections : rx_event'[d] # NoEvent /\ rx_event'[d].epoch = rx_event'[f].epoch => d = f
        BY <2>2, <3>1, <3>2, <3>4
      <3>7. \A d \in Connections, i \in 1 .. Len(ack_tasks) : rx_event'[d].epoch # ack_tasks[i].epoch
        BY <2>2, <3>1, <3>3, <3>5
      <3> QED BY <3>6, <3>7
    <2>8. \A i, j \in 1 .. Len(event_queue') : event_queue'[i].epoch = event_queue'[j].epoch => i = j
      BY <2>4, <1>t DEF Tokens
    <2>9. \A i \in 1 .. Len(event_queue'), j \in 1 .. Len(ack_tasks) : event_queue'[i].epoch # ack_tasks[j].epoch
      BY <2>4, <1>t DEF Tokens
    <2>10. \A d \in Connections, i \in 1 .. Len(event_queue') : rx_event'[d].epoch # event_queue'[i].epoch
      <3>1. rx_event'[c].epoch = 0 /\ rx_event[c].epoch # 0
        BY <2>1, <2>2, <2>5, <1>t DEF Tokens, Open
      <3>2. \A i \in 1 .. Len(event_queue) : event_queue[i].epoch # 0
        BY <1>t DEF Tokens, Open
      <3> QED BY <2>1, <2>2, <2>4, <3>1, <3>2, <1>t DEF Tokens
    <2> QED BY <2>1, <2>6, <2>7, <2>8, <2>9, <2>10 DEF Tokens, Open
  <1>5. CASE Dispatch
    <2>1. UNCHANGED <<epoch, group_resolution, rx_event>>
      BY <1>5 DEF Dispatch, groupVars
    <2>2. Head(event_queue) = event_queue[1] /\ Head(event_queue) \in Event /\ 1 \in 1 .. Len(event_queue)
          /\ Len(event_queue') = Len(event_queue) - 1
          /\ \A i \in 1 .. Len(event_queue') : event_queue'[i] = event_queue[i + 1]
      <3>1. event_queue \in Seq(Event) /\ event_queue # <<>> /\ event_queue' = Tail(event_queue)
        BY <1>5 DEF Dispatch, Types
      <3>2. /\ Head(event_queue) \in Event /\ Head(event_queue) = event_queue[1] /\ Len(event_queue) \in Nat
            /\ Len(event_queue) # 0 /\ Len(event_queue') = Len(event_queue) - 1
            /\ \A i \in 1 .. Len(event_queue') : event_queue'[i] = event_queue[i + 1]
        BY <3>1, FrontTaken
      <3> QED BY <3>2
    <2>3. PICK res \in Resolutions :
            ack_tasks' = Append(ack_tasks, [epoch |-> event_queue[1].epoch, res |-> res])
      BY <1>5, <2>2 DEF Dispatch
    <2>4. /\ Len(ack_tasks') = Len(ack_tasks) + 1
          /\ \A i \in 1 .. Len(ack_tasks) : ack_tasks'[i] = ack_tasks[i]
          /\ ack_tasks'[Len(ack_tasks) + 1] = [epoch |-> event_queue[1].epoch, res |-> res]
      <3>1. [epoch |-> event_queue[1].epoch, res |-> res] \in [epoch : Nat, res : Resolutions]
        BY <2>2, <1>t
      <3> QED BY <2>3, <3>1, Appended DEF Types
    <2>5. \A i \in 1 .. Len(ack_tasks') :
            \/ i = Len(ack_tasks) + 1 /\ ack_tasks'[i].epoch = event_queue[1].epoch
            \/ i \in 1 .. Len(ack_tasks) /\ ack_tasks'[i].epoch = ack_tasks[i].epoch
      BY <2>4, <1>t
    <2>6. \A i \in 1 .. Len(event_queue') :
            i + 1 \in 1 .. Len(event_queue) /\ i + 1 # 1 /\ event_queue'[i].epoch = event_queue[i + 1].epoch
      BY <2>2, <1>t
    <2>7. /\ \A i \in 1 .. Len(event_queue') : Open(event_queue'[i].epoch)
          /\ \A i \in 1 .. Len(ack_tasks') : Open(ack_tasks'[i].epoch)
      BY <2>2, <2>5, <2>6 DEF Tokens
    <2>8. \A i, j \in 1 .. Len(event_queue') : event_queue'[i].epoch = event_queue'[j].epoch => i = j
      <3> SUFFICES ASSUME NEW i \in 1 .. Len(event_queue'), NEW j \in 1 .. Len(event_queue'),
                          event_queue'[i].epoch = event_queue'[j].epoch
                   PROVE  i = j
        OBVIOUS
      <3>1. i + 1 = j + 1
        BY <2>6 DEF Tokens
      <3> QED BY <3>1
    <2>9. \A i, j \in 1 .. Len(ack_tasks') : ack_tasks'[i].epoch = ack_tasks'[j].epoch => i = j
      BY <2>2, <2>5 DEF Tokens
    <2>10. \A i \in 1 .. Len(event_queue'), j \in 1 .. Len(ack_tasks') : event_queue'[i].epoch # ack_tasks'[j].epoch
      BY <2>2, <2>5, <2>6 DEF Tokens
    <2>11. /\ \A d \in Connections, i \in 1 .. Len(event_queue') : rx_event[d].epoch # event_queue'[i].epoch
           /\ \A d \in Connections, i \in 1 .. Len(ack_tasks') : rx_event[d].epoch # ack_tasks'[i].epoch
      BY <2>2, <2>5, <2>6 DEF Tokens
    <2> QED BY <2>1, <2>7, <2>8, <2>9, <2>10, <2>11 DEF Tokens, Open
  <1>6. CASE resolve
    <2>1. UNCHANGED <<epoch, rx_event, event_queue>>
      BY <1>6 DEF resolve
    <2>2. Head(ack_tasks) = ack_tasks[1] /\ 1 \in 1 .. Len(ack_tasks)
          /\ Len(ack_tasks') = Len(ack_tasks) - 1
          /\ \A i \in 1 .. Len(ack_tasks') : ack_tasks'[i] = ack_tasks[i + 1]
      <3> DEFINE Task == [epoch : Nat, res : Resolutions]
      <3>1. ack_tasks \in Seq(Task) /\ ack_tasks # <<>> /\ ack_tasks' = Tail(ack_tasks)
        BY <1>6 DEF resolve, Types
      <3> HIDE DEF Task
      <3>2. /\ Head(ack_tasks) = ack_tasks[1] /\ Len(ack_tasks) \in Nat
            /\ Len(ack_tasks) # 0 /\ Len(ack_tasks') = Len(ack_tasks) - 1
            /\ \A i \in 1 .. Len(ack_tasks') : ack_tasks'[i] = ack_tasks[i + 1]
        BY <3>1, FrontTaken
      <3> QED BY <3>2
    <2>3. \A i \in 1 .. Len(ack_tasks') :
            i + 1 \in 1 .. Len(ack_tasks) /\ i + 1 # 1 /\ ack_tasks'[i].epoch = ack_tasks[i + 1].epoch
      BY <2>2, <1>t
    <2>4. group_resolution' = group_resolution \/ ack_tasks[1].epoch = epoch
      BY <1>6, <2>2 DEF resolve
    <2>5. \A e \in Nat : Open(e) /\ e # ack_tasks[1].epoch => OpenAfter(e)
      BY <2>1, <2>4 DEF Open, OpenAfter
    <2>6. /\ \A d \in Connections : rx_event[d] # NoEvent => OpenAfter(rx_event[d].epoch)
          /\ \A i \in 1 .. Len(event_queue) : OpenAfter(event_queue[i].epoch)
          /\ \A i \in 1 .. Len(ack_tasks') : OpenAfter(ack_tasks'[i].epoch)
      <3> DEFINE e == ack_tasks[1].epoch
      <3>1. \A d \in Connections : rx_event[d] # NoEvent => Open(rx_event[d].epoch) /\ rx_event[d].epoch # e
        BY <2>2 DEF Tokens
      <3>2. \A i \in 1 .. Len(event_queue) : Open(event_queue[i].epoch) /\ event_queue[i].epoch # e
        BY <2>2 DEF Tokens
      <3>3. \A i \in 1 .. Len(ack_tasks) : Open(ack_tasks[i].epoch) /\ (i # 1 => ack_tasks[i].epoch # e)
        BY <2>2 DEF Tokens
      <3> HIDE DEF e
      <3>4. \A f \in Nat : Open(f) /\ f # e => OpenAfter(f)
        BY <2>5 DEF e
      <3>5. \A d \in Connections : rx_event[d] # NoEvent => OpenAfter(rx_event[d].epoch)
        BY <3>1, <3>4, <1>t
      <3>6. \A i \in 1 .. Len(event_queue) : OpenAfter(event_queue[i].epoch)
        BY <3>2, <3>4, <1>t
      <3>7. \A i \in 1 .. Len(ack_tasks) : i # 1 => OpenAfter(ack_tasks[i].epoch)
        BY <3>3, <3>4, <1>t
      <3>8. \A i \in 1 .. Len(ack_tasks') : OpenAfter(ack_tasks'[i].epoch)
        BY <3>7, <2>3
      <3> QED BY <3>5, <3>6, <3>8
    <2>7. \A i, j \in 1 .. Len(ack_tasks') : ack_tasks'[i].epoch = ack_tasks'[j].epoch => i = j
      <3> SUFFICES ASSUME NEW i \in 1 .. Len(ack_tasks'), NEW j \in 1 .. Len(ack_tasks'),
                          ack_tasks'[i].epoch = ack_tasks'[j].epoch
                   PROVE  i = j
        OBVIOUS
      <3>1. i + 1 = j + 1
        BY <2>3 DEF Tokens
      <3> QED BY <3>1
    <2>8. /\ \A d \in Connections, i \in 1 .. Len(ack_tasks') : rx_event[d].epoch # ack_tasks'[i].epoch
          /\ \A i \in 1 .. Len(event_queue), j \in 1 .. Len(ack_tasks') : event_queue[i].epoch # ack_tasks'[j].epoch
      BY <2>3 DEF Tokens
    <2> QED BY <2>1, <2>6, <2>7, <2>8 DEF Tokens, Open, OpenAfter
  <1>7. CASE UNCHANGED vars
    BY <1>7, <1>same DEF vars, groupVars
  <1> QED BY <1>1, <1>2, <1>3, <1>4, <1>5, <1>6, <1>7 DEF Next, handleCommandFrom

-----------------------------------------------------------------------------
(* The order of the groups' commands, and the command in force.            *)

LEMMA InitOrder == Init => Increasing /\ Latest
  BY DEF Init, Increasing, Latest

\* Of two commands issued, the later one is stamped no earlier; copies of one
\* command are stamped within the tolerance of each other.
LEMMA StampsOrdered ==
  ASSUME Types, Increasing, epoch # 0, NEW k \in Nat, NEW c \in Connections
  PROVE  /\ k < command => TimeStamp(k, c) < timestamp
         /\ k = command => withinTolerance(TimeStamp(k, c))
  <1>1. TimeStamp(k, c) \in {2 * k, 2 * k + 1}
    BY StampBounds
  <1>2. timestamp \in {2 * command, 2 * command + 1} /\ command \in Nat
    BY DEF Increasing, Types, TypeOK
  <1>3. ToleranceMs \in Nat /\ 1 < ToleranceMs
    BY GroupAssumption
  <1> DEFINE ts == TimeStamp(k, c)
  <1>4. withinTolerance(ts) <=> (IF ts >= timestamp THEN ts - timestamp ELSE timestamp - ts) < ToleranceMs
    BY DEF withinTolerance
  <1> HIDE DEF ts
  <1>5. ts \in {2 * k, 2 * k + 1}
    BY <1>1 DEF ts
  <1>6. k < command => ts < timestamp
    BY <1>2, <1>5
  <1>7. k = command => withinTolerance(ts)
    BY <1>2, <1>3, <1>4, <1>5
  <1> QED BY <1>6, <1>7 DEF ts

\* The step the argument turns on: a delivery that opens a group brings a later
\* command than the active one, if the operator never repeats himself.
LEMMA NewCommandIsLater ==
  ASSUME IInv, Distinct, epoch # 0, NEW c \in Connections, NEW k \in 1 .. Len(issued), OnNewCommand(c, k)
  PROVE  command < k
  <1>t. k \in Nat /\ k # 0 /\ command \in 1 .. Len(issued) /\ Len(issued) \in Nat
    BY DEF IInv, Types, TypeOK, Increasing
  <1>1. k >= last_sent[c] /\ ~IsRepeat(k, c) /\ ~IsStale(k, c)
    BY DEF OnNewCommand, Sends
  <1>2. (k < command => TimeStamp(k, c) < timestamp) /\ (k = command => withinTolerance(TimeStamp(k, c)))
    BY <1>t, StampsOrdered DEF IInv
  <1>3. same_logical_command(k) <=> k = command
    BY <1>t DEF same_logical_command, Distinct
  <1>4. CASE deliberate_retry(k, c)
    <2>1. last_id_by_connection[c] \notin {0, k}
      BY <1>4 DEF deliberate_retry, ServerCommandId
    <2>2. last_id_by_connection[c] = command /\ command <= last_sent[c] /\ last_sent[c] \in Nat
      BY <2>1 DEF IInv, Increasing, Types, TypeOK
    <2> QED BY <1>t, <1>1, <2>1, <2>2
  <1>5. CASE ~deliberate_retry(k, c)
    <2>1. k # command
      BY <1>1, <1>2, <1>3, <1>5 DEF IsRepeat
    <2>2. ~(k < command)
      BY <1>1, <1>2, <1>3, <1>5, <2>1 DEF IsStale
    <2> QED BY <1>t, <2>1, <2>2
  <1> QED BY <1>4, <1>5

LEMMA IncreasingKept == ASSUME IInv, [Next]_vars PROVE Increasing'
  <1> USE DEF IInv
  <1>t. /\ epoch \in Nat /\ command \in Nat /\ Len(issued) \in Nat /\ opened \in Seq(Nat) /\ Len(opened) = epoch
        /\ \A c \in Connections : last_sent[c] \in Nat /\ last_id_by_connection[c] \in Nat
        /\ last_sent \in [Connections -> Nat] /\ last_id_by_connection \in [Connections -> Nat]
    BY DEF Types, TypeOK
  <1>same. ASSUME UNCHANGED <<issued, last_sent, epoch, command, timestamp, last_id_by_connection, opened>>
           PROVE  Increasing'
    BY <1>same DEF Increasing, Distinct
  <1>1. CASE Issue
    <2>1. PICK content \in Contents : issued' = Append(issued, content)
      BY <1>1 DEF Issue
    <2>2. Len(issued') = Len(issued) + 1 /\ \A i \in 1 .. Len(issued) : issued'[i] = issued[i]
      BY <2>1, Appended DEF Types, TypeOK
    <2>3. Distinct' => Distinct
      BY <2>2, <1>t DEF Distinct
    <2> QED BY <1>1, <2>3 DEF Issue, groupVars, Increasing
  <1>2. ASSUME NEW c \in Connections, NEW k \in 1 .. Len(issued),
               RejectDelivery(c, k) \/ OnStale(c, k)
        PROVE  Increasing'
    <2>1. Sends(c, k) /\ UNCHANGED <<issued, epoch, command, timestamp, last_id_by_connection, opened>>
      BY <1>2 DEF RejectDelivery, OnStale, groupVars, Sends
    <2>2. \A d \in Connections : last_id_by_connection[d] <= last_sent'[d]
      BY <2>1, <1>t DEF Sends, Increasing
    <2>3. Distinct' <=> Distinct
      BY <2>1 DEF Distinct
    <2> QED BY <2>1, <2>2, <2>3 DEF Increasing
  <1>3. ASSUME NEW c \in Connections, NEW k \in 1 .. Len(issued), OnRepeat(c, k)
        PROVE  Increasing'
    <2>1. Sends(c, k) /\ UNCHANGED <<issued, epoch, command, timestamp, opened>> /\ same_logical_command(k)
      BY <1>3 DEF OnRepeat, Sends, IsRepeat
    <2>2. \A d \in Connections : last_id_by_connection'[d] # last_id_by_connection[d]
                                   => d = c /\ last_id_by_connection'[d] = k
      <3>1. \/ last_id_by_connection' = last_id_by_connection
            \/ last_id_by_connection' = [last_id_by_connection EXCEPT ![c] = k]
        BY <1>3 DEF OnRepeat
      <3>2. CASE last_id_by_connection' = [last_id_by_connection EXCEPT ![c] = k]
        <4>1. last_id_by_connection \in [Connections -> Nat]
          BY <1>t
        <4>2. last_id_by_connection'[c] = k /\ \A d \in Connections \ {c} : last_id_by_connection'[d] = last_id_by_connection[d]
          BY <3>2, <4>1
        <4> QED BY <4>2
      <3>3. CASE last_id_by_connection' = last_id_by_connection
        BY <3>3
      <3> QED BY <3>1, <3>2, <3>3
    <2>3. \A d \in Connections : last_id_by_connection'[d] <= last_sent'[d]
      <3>1. \A d \in Connections : last_sent'[d] = IF d = c THEN k ELSE last_sent[d]
        BY <2>1, <1>t DEF Sends
      <3>2. k >= last_sent[c] /\ k \in Nat
        BY <2>1 DEF Sends
      <3>3. \A d \in Connections : last_id_by_connection[d] <= last_sent[d]
        BY DEF Increasing
      <3>4. last_id_by_connection[c] <= k
        BY <3>2, <3>3, <1>t
      <3> QED BY <2>2, <3>1, <3>2, <3>3, <3>4, <1>t
    <2>4. Distinct' <=> Distinct
      BY <2>1 DEF Distinct
    <2>5. Distinct => k = command
      <3>1. epoch # 0 /\ issued[command] = issued[k] /\ command \in 1 .. Len(issued)
        BY <2>1 DEF same_logical_command, Types, TypeOK, Increasing
      <3> QED BY <3>1 DEF Distinct
    <2>6. Distinct => \A d \in Connections : last_id_by_connection'[d] \in {0, command}
      BY <2>2, <2>5 DEF Increasing
    <2> QED BY <2>1, <2>3, <2>4, <2>6 DEF Increasing
  <1>4. ASSUME NEW c \in Connections, NEW k \in 1 .. Len(issued), OnNewCommand(c, k)
        PROVE  Increasing'
    <2>1. Sends(c, k) /\ issued' = issued /\ epoch' = epoch + 1 /\ command' = k /\ timestamp' = TimeStamp(k, c)
          /\ k \in Nat /\ k # 0
      BY <1>4 DEF OnNewCommand, Sends
    <2>2. Len(opened') = epoch + 1 /\ opened'[epoch + 1] = k /\ \A i \in 1 .. epoch : opened'[i] = opened[i]
      BY <1>4, <1>t, <2>1, Appended DEF OnNewCommand
    <2>3. timestamp' \in {2 * k, 2 * k + 1}
      BY <2>1, StampBounds
    <2>4. \A d \in Connections : /\ last_id_by_connection'[d] \in {0, k}
                                  /\ last_id_by_connection'[d] <= last_sent'[d]
      <3>1. \A d \in Connections : last_id_by_connection'[d] = IF d = c THEN ServerCommandId(k, c) ELSE 0
        BY <1>4 DEF OnNewCommand
      <3>2. \A d \in Connections : last_sent'[d] = IF d = c THEN k ELSE last_sent[d]
        BY <2>1, <1>t DEF Sends
      <3>3. ServerCommandId(k, c) \in {0, k}
        BY DEF ServerCommandId
      <3> QED BY <3>1, <3>2, <3>3, <2>1, <1>t
    <2>5. Distinct' <=> Distinct
      BY <2>1 DEF Distinct
    <2>6. ASSUME Distinct PROVE \A i, j \in 1 .. Len(opened') : i < j => opened'[i] < opened'[j]
      <3>1. \A i \in 1 .. epoch : opened[i] \in Nat /\ opened[i] <= opened[epoch]
        BY <1>t, <2>6 DEF Increasing
      <3>2. \A i \in 1 .. epoch : opened[i] < k
        <4>1. epoch # 0 => command < k /\ opened[epoch] = command
          BY <1>4, <2>6, NewCommandIsLater DEF Increasing
        <4> QED BY <3>1, <4>1, <2>1, <1>t
      <3>3. \A i, j \in 1 .. epoch : i < j => opened[i] < opened[j]
        BY <2>6, <1>t DEF Increasing
      <3> SUFFICES ASSUME NEW i \in 1 .. Len(opened'), NEW j \in 1 .. Len(opened'), i < j
                   PROVE  opened'[i] < opened'[j]
        OBVIOUS
      <3>4. i \in 1 .. epoch /\ opened'[i] = opened[i]
        BY <2>2, <1>t
      <3>5. CASE j = epoch + 1
        BY <2>2, <3>2, <3>4, <3>5
      <3>6. CASE j # epoch + 1
        <4>1. j \in 1 .. epoch /\ opened'[j] = opened[j]
          BY <2>2, <3>6, <1>t
        <4> QED BY <3>3, <3>4, <4>1
      <3> QED BY <3>5, <3>6
    <2> QED BY <2>1, <2>2, <2>3, <2>4, <2>5, <2>6 DEF Increasing
  <1>5. ASSUME NEW c \in Connections, report_command(c)
        PROVE  Increasing'
    BY <1>5, <1>same DEF report_command, groupVars, sourceVars
  <1>6. CASE Dispatch
    BY <1>6, <1>same DEF Dispatch, groupVars, sourceVars
  <1>7. CASE resolve
    BY <1>7, <1>same DEF resolve, sourceVars
  <1>8. CASE UNCHANGED vars
    BY <1>8, <1>same DEF vars, groupVars, sourceVars
  <1> QED BY <1>1, <1>2, <1>3, <1>4, <1>5, <1>6, <1>7, <1>8 DEF Next, handleCommandFrom

LEMMA LatestKept == ASSUME IInv, [Next]_vars PROVE Latest'
  <1> USE DEF IInv
  <1>same. ASSUME UNCHANGED <<epoch, command, rx_event, event_queue, in_force, raced>>
           PROVE  Latest'
    BY <1>same DEF Latest
  <1>1. CASE Issue
    BY <1>1, <1>same DEF Issue, groupVars
  <1>2. ASSUME NEW c \in Connections, NEW k \in 1 .. Len(issued),
               RejectDelivery(c, k) \/ OnStale(c, k) \/ OnRepeat(c, k)
        PROVE  Latest'
    BY <1>2, <1>same DEF RejectDelivery, OnStale, OnRepeat, groupVars
  <1>3. ASSUME NEW c \in Connections, NEW k \in 1 .. Len(issued), OnNewCommand(c, k), ~raced'
        PROVE  Latest'
    <2>1. command' = k /\ \A d \in Connections : rx_event[d] = NoEvent
      BY <1>3 DEF OnNewCommand
    <2>2. rx_event'[c] = [epoch |-> epoch + 1, command |-> k] /\ \A d \in Connections \ {c} : rx_event'[d] = rx_event[d]
      BY <1>3 DEF OnNewCommand, Types
    <2>3. rx_event'[c].epoch = epoch + 1 /\ rx_event'[c].command = k /\ epoch \in Nat /\ NoEvent.epoch = 0
      BY <2>2 DEF Types, TypeOK, NoEvent
    <2>4. rx_event'[c] # NoEvent
      BY <2>3
    <2> QED BY <2>1, <2>2, <2>3, <2>4 DEF Latest
  <1>4. ASSUME NEW c \in Connections, report_command(c), ~raced'
        PROVE  Latest'
    <2>1. UNCHANGED <<epoch, command, in_force, raced>> /\ rx_event[c] # NoEvent
      BY <1>4 DEF report_command, groupVars
    <2>2. rx_event'[c] = NoEvent /\ \A d \in Connections \ {c} : rx_event'[d] = rx_event[d]
      BY <1>4 DEF report_command, Types
    <2>3. Len(event_queue') = Len(event_queue) + 1 /\ event_queue'[Len(event_queue) + 1] = rx_event[c]
          /\ Len(event_queue) \in Nat
      BY <1>4, Appended DEF report_command, Types
    <2>4. event_queue'[Len(event_queue')].command = command /\ event_queue' # <<>>
      BY <1>4, <2>1, <2>3 DEF Latest
    <2> QED BY <2>1, <2>2, <2>4, <1>4 DEF Latest
  <1>5. CASE Dispatch /\ ~raced'
    <2>1. UNCHANGED <<epoch, command, rx_event, raced>> /\ in_force' = Head(event_queue).command
          /\ event_queue # <<>> /\ event_queue' = Tail(event_queue)
      BY <1>5 DEF Dispatch, groupVars
    <2>2. /\ Head(event_queue) = event_queue[1] /\ Len(event_queue) \in Nat /\ Len(event_queue) # 0
          /\ Tail(event_queue) \in Seq(Event) /\ Len(event_queue') = Len(event_queue) - 1
          /\ \A i \in 1 .. Len(event_queue') : event_queue'[i] = event_queue[i + 1]
      BY <2>1, FrontTaken DEF Types
    <2>3. CASE event_queue' = <<>>
      <3>1. Len(event_queue) = 1
        BY <2>2, <2>3
      <3> QED BY <1>5, <2>1, <2>2, <2>3, <3>1 DEF Latest
    <2>4. CASE event_queue' # <<>>
      <3>1. Len(event_queue') # 0
        BY <2>1, <2>2, <2>4
      <3>2. event_queue'[Len(event_queue')] = event_queue[Len(event_queue)]
        BY <2>2, <3>1
      <3> QED BY <1>5, <2>1, <2>4, <3>2 DEF Latest
    <2> QED BY <2>3, <2>4
  <1>6. CASE resolve
    BY <1>6, <1>same DEF resolve
  <1>7. CASE UNCHANGED vars
    BY <1>7, <1>same DEF vars, groupVars
  <1>8. CASE raced'
    BY <1>8 DEF Latest
  <1> QED BY <1>1, <1>2, <1>3, <1>4, <1>5, <1>6, <1>7, <1>8 DEF Next, handleCommandFrom

-----------------------------------------------------------------------------
(* The results.                                                            *)

\* The inductive invariant: the answers, events and commands of the group are
\* consistent in every reachable state (onDelivery, resolve, report_command).
THEOREM GroupConsistent == Spec => []IInv
  <1>1. Init => IInv
    BY InitTypes, InitAnswered, InitTokens, InitOrder DEF IInv
  <1>2. IInv /\ [Next]_vars => IInv'
    <2> SUFFICES ASSUME IInv, [Next]_vars PROVE IInv'
      OBVIOUS
    <2>1. Types'
      BY TypesKept DEF IInv
    <2> QED BY <2>1, AnsweredKept, TokensKept, IncreasingKept, LatestKept DEF IInv
  <1> QED BY <1>1, <1>2, PTL DEF Spec

\* The types of the group (CommandAckGroup) and of its history.
THEOREM GroupTyped == Spec => []TypeOK
  <1>1. IInv => TypeOK
    BY DEF IInv, Types
  <1> QED BY <1>1, GroupConsistent, PTL

\* Each command is actuated once, whatever the servers' repeats, ids and skewed
\* stamps, as long as the operator never repeats himself (onDelivery).
THEOREM CommandActuatedOnce == Spec => []ActuatedOnce
  <1>1. IInv => ActuatedOnce
    <2> SUFFICES ASSUME IInv, Distinct, NEW i \in 1 .. Len(opened), NEW j \in 1 .. Len(opened), i # j
                 PROVE  opened[i] # opened[j]
      BY DEF ActuatedOnce, Distinct
    <2>1. opened[i] \in Nat /\ opened[j] \in Nat /\ (i < j \/ j < i)
      BY DEF IInv, Types
    <2>2. (i < j => opened[i] < opened[j]) /\ (j < i => opened[j] < opened[i])
      BY DEF IInv, Increasing
    <2> QED BY <2>1, <2>2
  <1> QED BY <1>1, GroupConsistent, PTL

\* Once the queue is drained the command in force is the group's, unless two recv
\* threads decided before the first had queued its event (report_command, dispatch).
THEOREM CommandInForce == Spec => []GroupCommandInForce
  <1>1. IInv => GroupCommandInForce
    BY DEF IInv, Latest, GroupCommandInForce
  <1> QED BY <1>1, GroupConsistent, PTL

\* No copy is acked twice, and the copies of a group, the active or any earlier
\* one, carry the same ack (resolve, onDelivery, sendCommandAck).
OneAnswerPerGroup ==
  /\ \A n \in Copies : ack_count[n] <= 1
  /\ \A m, n \in 1 .. Len(copies) :
       copies[m].epoch = copies[n].epoch /\ copies[m].epoch # 0 => ack[m] = ack[n]

\* A group is answered once and alike in every reachable state (resolve, onDelivery).
THEOREM GroupAnswersOnce == Spec => []OneAnswerPerGroup
  <1>1. IInv => OneAnswerPerGroup
    BY DEF IInv, Answered, Alike, OneAnswerPerGroup
  <1> QED BY <1>1, GroupConsistent, PTL

-----------------------------------------------------------------------------
(* The refinement: what the servers see is CommandAckSpec.                 *)


groupOf == [n \in Copies |-> IF n <= Len(copies) THEN copies[n].epoch ELSE 0]

LEMMA GroupsMapped ==
  ASSUME Types
  PROVE  \A e : Promise!Members(e) = Members(e)
  <1>1. Len(copies) \in Nat /\ Len(copies) <= MaxDeliveries /\ MaxDeliveries \in Nat
    BY GroupAssumption DEF Types
  <1>2. \A n \in 1 .. Len(copies) : groupOf[n] = copies[n].epoch
    BY <1>1 DEF groupOf, Copies
  <1> QED BY <1>2 DEF Promise!Members, Members, groupOf

\* A delivery into group e is one of the specification's.
LEMMA DeliveryMapped ==
  ASSUME Types, NEW c \in Connections, NEW k \in Nat, NEW e \in Nat, Delivered(c, k, e)
  PROVE  /\ Len(copies) + 1 \in Copies /\ Len(copies)' = Len(copies) + 1
         /\ groupOf' = [groupOf EXCEPT ![Len(copies) + 1] = e]
  <1>1. /\ Len(copies) \in Nat /\ Len(copies') = Len(copies) + 1 /\ Len(copies) + 1 \in Copies
        /\ \A n \in 1 .. Len(copies) : copies'[n] = copies[n]
        /\ copies'[Len(copies) + 1].epoch = e
    BY DEF Delivered
  <1>2. \A n \in Copies : n \in Nat /\ n >= 1
    BY GroupAssumption DEF Copies
  <1>3. \A n \in Copies : (IF n <= Len(copies') THEN copies'[n].epoch ELSE 0)
                          = IF n = Len(copies) + 1 THEN e ELSE IF n <= Len(copies) THEN copies[n].epoch ELSE 0
    BY <1>1, <1>2
  <1>4. [n \in Copies |-> IF n <= Len(copies') THEN copies'[n].epoch ELSE 0]
          = [groupOf EXCEPT ![Len(copies) + 1] = e]
    BY <1>3 DEF groupOf
  <1>5. Copies' = Copies
    BY DEF Copies
  <1> QED BY <1>1, <1>4, <1>5 DEF groupOf

\* So are the acks to copies that have none.
LEMMA AcksMapped ==
  ASSUME Types, Counted, NEW targets, targets \subseteq Copies, \A n \in targets : ack[n] = "none",
         NEW outcome, Acknowledge(targets, outcome)
  PROVE  Promise!Acks(targets, outcome)
  <1>1. \A n \in Copies : ack_count[n] \in Nat /\ (n \in targets => ack_count[n] = 0)
    BY DEF Types, TypeOK, Counted
  <1>2. \A n \in Copies : ack_count[n] + (IF n \in targets THEN 1 ELSE 0) = IF n \in targets THEN 1 ELSE ack_count[n]
    BY <1>1
  <1>3. ack_count' = [n \in Copies |-> IF n \in targets THEN 1 ELSE ack_count[n]]
    BY <1>2 DEF Acknowledge
  <1> QED BY <1>3 DEF Acknowledge, Promise!Acks

LEMMA StepMapped == ASSUME IInv, [Next]_vars PROVE [Promise!Next]_(Promise!vars)
  <1> USE DEF IInv
  <1>t. epoch \in Nat /\ Len(copies) \in Nat /\ Members(epoch) \subseteq Copies /\ pending \subseteq Members(epoch)
    BY GroupAssumption DEF Types, TypeOK, Answered, Members, Copies
  <1>c. Counted /\ \A n \in pending : ack[n] = "none"
    BY DEF Answered, Counted
  <1>m. Promise!Members(epoch) = Members(epoch)
    BY GroupsMapped
  <1>same. ASSUME UNCHANGED <<copies, epoch, ack, ack_count>> PROVE UNCHANGED Promise!vars
    BY <1>same DEF Promise!vars, Copies
  <1>1. CASE Issue
    BY <1>1, <1>same DEF Issue, groupVars
  <1>2. ASSUME NEW c \in Connections, NEW k \in 1 .. Len(issued),
               RejectDelivery(c, k) \/ OnStale(c, k)
        PROVE  Promise!Next
    <2>1. PICK outcome \in {"rejected", "newer_command"} : Acknowledge({ThisCopy}, outcome)
      BY <1>2 DEF RejectDelivery, OnStale
    <2>2. Delivered(c, k, 0) /\ UNCHANGED epoch /\ k \in Nat
      BY <1>2, Delivery DEF RejectDelivery, OnStale, groupVars
    <2>3. ThisCopy \in Copies /\ ThisCopy = Len(copies) + 1 /\ ack[ThisCopy] = "none"
      BY <2>2, <1>t DEF Delivered, Answered
    <2>4. Promise!Delivers(0)
      BY <2>2, DeliveryMapped DEF Promise!Delivers, groupOf
    <2>5. Promise!Acks({ThisCopy}, outcome)
      BY <2>1, <2>3, <1>c, AcksMapped
    <2> QED BY <2>2, <2>3, <2>4, <2>5 DEF Promise!Next, Promise!Alone
  <1>3. ASSUME NEW c \in Connections, NEW k \in 1 .. Len(issued), OnRepeat(c, k)
        PROVE  Promise!Next
    <2>1. Delivered(c, k, epoch) /\ epoch # 0 /\ UNCHANGED epoch /\ k \in Nat
      BY <1>3, <1>t, Delivery DEF OnRepeat, IsRepeat, same_logical_command
    <2>2. ThisCopy \in Copies /\ ThisCopy = Len(copies) + 1 /\ ack[ThisCopy] = "none"
      BY <2>1, <1>t DEF Delivered, Answered
    <2>3. Promise!Delivers(epoch)
      BY <2>1, <1>t, DeliveryMapped DEF Promise!Delivers, groupOf
    <2>4. CASE group_resolution = "none"
      <3>1. UNCHANGED <<ack, ack_count>>
        BY <1>3, <2>4 DEF OnRepeat
      <3>2. Promise!Unanswered(epoch) = Promise!Members(epoch)
        BY <2>1, <2>4, <1>m DEF Answered, Promise!Unanswered
      <3> QED BY <2>1, <2>3, <3>1, <3>2 DEF Promise!Next, Promise!Join
    <2>5. CASE group_resolution # "none"
      <3>1. PICK n \in Members(epoch) : ack[n] = group_resolution
        BY <2>1, <2>5 DEF Answered
      <3>2. group_resolution \in Resolutions
        BY <2>5 DEF Types, TypeOK
      <3>3. Promise!Acks({ThisCopy}, group_resolution)
        <4>1. Acknowledge({ThisCopy}, group_resolution)
          BY <1>3, <2>5 DEF OnRepeat
        <4> QED BY <4>1, <2>2, <1>c, AcksMapped
      <3> QED BY <2>1, <2>2, <2>3, <3>1, <3>2, <3>3, <1>m DEF Promise!Next, Promise!Join
    <2> QED BY <2>4, <2>5
  <1>4. ASSUME NEW c \in Connections, NEW k \in 1 .. Len(issued), OnNewCommand(c, k)
        PROVE  Promise!Next
    <2>1. Delivered(c, k, epoch + 1) /\ epoch' = epoch + 1 /\ k \in Nat /\ epoch + 1 \in Nat
          /\ Acknowledge(pending, "newer_command")
      BY <1>4, <1>t, Delivery DEF OnNewCommand
    <2>2. Promise!Delivers(epoch + 1)
      BY <2>1, DeliveryMapped DEF Promise!Delivers, groupOf
    <2>3. pending = IF epoch = 0 THEN {} ELSE Promise!Unanswered(epoch)
      BY <1>m DEF Answered, Promise!Unanswered
    <2>4. Promise!Acks(pending, "newer_command")
      BY <2>1, <1>t, <1>c, AcksMapped
    <2> QED BY <2>1, <2>2, <2>3, <2>4 DEF Promise!Next, Promise!Open
  <1>5. ASSUME NEW c \in Connections, report_command(c)
        PROVE  UNCHANGED Promise!vars
    BY <1>5, <1>same DEF report_command, groupVars
  <1>6. CASE Dispatch
    BY <1>6, <1>same DEF Dispatch, groupVars
  <1>7. CASE resolve
    <2>1. CASE Head(ack_tasks).epoch # epoch
      BY <1>7, <2>1, <1>same DEF resolve
    <2>2. CASE Head(ack_tasks).epoch = epoch
      <3>1. ack_tasks \in Seq([epoch : Nat, res : Resolutions]) /\ ack_tasks # <<>>
        BY <1>7 DEF resolve, Types
      <3>2. Head(ack_tasks) \in [epoch : Nat, res : Resolutions] /\ Head(ack_tasks) = ack_tasks[1]
            /\ Len(ack_tasks) \in Nat /\ Len(ack_tasks) # 0
        BY <3>1, FrontTaken
      <3>3. epoch # 0 /\ group_resolution = "none"
        BY <3>2, <2>2, <1>t DEF Tokens, Open
      <3>4. pending = Members(epoch) /\ Promise!Unanswered(epoch) = Promise!Members(epoch)
        BY <3>3, <1>m DEF Answered, Promise!Unanswered
      <3>5. Head(ack_tasks).res \in Resolutions /\ Acknowledge(pending, Head(ack_tasks).res)
            /\ UNCHANGED <<copies, epoch>>
        BY <1>7, <2>2, <3>2 DEF resolve
      <3>6. Promise!Acks(Members(epoch), Head(ack_tasks).res)
        BY <3>4, <3>5, <1>t, <1>c, AcksMapped
      <3> QED BY <3>3, <3>4, <3>5, <3>6, <1>m DEF Promise!Next, Promise!Resolve, Copies
    <2> QED BY <2>1, <2>2
  <1>8. CASE UNCHANGED vars
    BY <1>8, <1>same DEF vars, groupVars
  <1> QED BY <1>1, <1>2, <1>3, <1>4, <1>5, <1>6, <1>7, <1>8 DEF Next, handleCommandFrom

\* The group implements its specification for any number of servers, commands and
\* copies: it answers as a whole, once, and late copies get the group's outcome.
THEOREM GroupImplementsAckSpec == Spec => ImplementsAckSpec
  <1>1. Init => Promise!Init
    BY GroupAssumption DEF Init, Promise!Init, Copies
  <1>2. IInv /\ [Next]_vars => [Promise!Next]_(Promise!vars)
    BY StepMapped
  <1> QED BY <1>1, <1>2, GroupConsistent, PTL DEF Spec, ImplementsAckSpec, Promise!Spec
=============================================================================
