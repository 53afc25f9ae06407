--------------------------- MODULE CommandAckSpec ---------------------------
(***************************************************************************)
(* What CommandAckGroup (src/src/fss/command-ack-group.hpp) promises the   *)
(* servers: the copies of a command form a group, a group is answered as a *)
(* whole and once, with one outcome, and a copy that comes late gets the   *)
(* outcome its group already has.  A newer group answers the one it        *)
(* displaces.  Clocks, ids, threads and queues are not part of it.         *)
(***************************************************************************)
EXTENDS Naturals

CONSTANTS
  Copies,       \* copies that may be delivered: 1 .. a bound
  Resolutions   \* outcomes of an actuated command

VARIABLES
  delivered,    \* the copies delivered so far are 1 .. delivered
  group,        \* the group of each of them; 0 for a copy that is in none
  latest,       \* the newest group, 0 before there is one
  ack, sent     \* each copy's terminal ack, and how many it was sent

vars == <<delivered, group, latest, ack, sent>>

Members(g) == {n \in 1 .. delivered : group[n] = g}
Unanswered(g) == {n \in Members(g) : ack[n] = "none"}

Init ==
  /\ delivered = 0 /\ group = [n \in Copies |-> 0] /\ latest = 0
  /\ ack = [n \in Copies |-> "none"] /\ sent = [n \in Copies |-> 0]

\* The copies of a set are sent their one ack.
Acks(targets, outcome) ==
  /\ \A n \in targets : ack[n] = "none"
  /\ ack' = [n \in Copies |-> IF n \in targets THEN outcome ELSE ack[n]]
  /\ sent' = [n \in Copies |-> IF n \in targets THEN 1 ELSE sent[n]]

\* The next copy is delivered, into group g.
Delivers(g) ==
  /\ delivered + 1 \in Copies
  /\ delivered' = delivered + 1
  /\ group' = [group EXCEPT ![delivered + 1] = g]

\* A rejected or a stale copy is answered on its own.
Alone ==
  /\ Delivers(0)
  /\ \E outcome \in {"rejected", "newer_command"} : Acks({delivered + 1}, outcome)
  /\ UNCHANGED latest

\* A copy joins the newest group, and gets its outcome if there is one.
Join ==
  /\ latest # 0 /\ Delivers(latest)
  /\ \/ Unanswered(latest) = Members(latest) /\ UNCHANGED <<ack, sent>>
     \/ \E n \in Members(latest) : ack[n] \in Resolutions /\ Acks({delivered + 1}, ack[n])
  /\ UNCHANGED latest

\* A copy opens a group, and the one it displaces is answered if it was not.
Open ==
  /\ Delivers(latest + 1)
  /\ latest' = latest + 1
  /\ Acks(IF latest = 0 THEN {} ELSE Unanswered(latest), "newer_command")

\* The newest group is answered as a whole.
Resolve ==
  /\ latest # 0 /\ Unanswered(latest) = Members(latest)
  /\ \E outcome \in Resolutions : Acks(Members(latest), outcome)
  /\ UNCHANGED <<delivered, group, latest>>

Next == Alone \/ Join \/ Open \/ Resolve

Spec == Init /\ [][Next]_vars
=============================================================================
