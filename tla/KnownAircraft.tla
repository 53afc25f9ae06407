---------------------------- MODULE KnownAircraft ----------------------------
(***************************************************************************)
(* Other aircraft: known_aircraft (src/src/aircraft.hpp), the position     *)
(* callback of the FSS recv threads (src/src/main.cpp) and the forwarding  *)
(* of ADS-B reports by the event loop (src/src/event-dispatcher.cpp).      *)
(*                                                                         *)
(* A contact is what a report identifies its aircraft by: its ICAO address *)
(* when it has one (Real), its callsign otherwise.  That is the key of the *)
(* map, so contacts stand for keys.  Nothing keeps an address that a peer  *)
(* reports out of the range the synthetic ones are taken from.             *)
(*                                                                         *)
(* Times are ages: Tick makes every one older, up to the age from which    *)
(* nothing tells it apart.  A timestamp of 0 is such an age.  The clock is *)
(* a steady_clock and never runs back.                                     *)
(***************************************************************************)
EXTENDS Integers, Sequences

CONSTANTS
  Contacts,       \* keys of aircraft that may report
  Real,           \* those that report an ICAO address, which is then the contact
  asset_name,     \* the FMU's own callsign, echoed by a server
  RecvThreads,    \* one per connected FSS server
  Free,           \* a recv thread between two reports
  first_icao, last_icao,  \* the range of synthetic addresses
  Interval,       \* ts_1sec_interval and adsb_forward_interval_ms, in ticks
  EvictionAge,    \* aircraft_eviction_age, in ticks
  MaxAllocated,   \* bound on the synthetic addresses handed out
  MaxQueued       \* bound on the reports queued for the event loop

ASSUME AircraftAssumption ==
  /\ Real \subseteq Contacts /\ Real \subseteq Nat \ {0}
  /\ first_icao \in Nat /\ last_icao \in Nat /\ 0 < first_icao /\ first_icao < last_icao
  /\ Interval \in Nat /\ EvictionAge \in Nat /\ 0 < Interval /\ Interval < EvictionAge
  /\ MaxAllocated \in Nat /\ MaxQueued \in Nat
  /\ Free \notin Contacts

Synthetic == first_icao .. last_icao
RangeSize == last_icao - first_icao + 1
Addresses == Synthetic \cup Real
Old    == EvictionAge + 1             \* old enough to be evicted
Silent == EvictionAge - Interval + 1  \* silent for long enough to be evicted

VARIABLES
  lastAllocatedICAO,
  aircraft,         \* the map: [icao, age of the last accepted update, and as history
                    \* serial: which allocation made the entry, 0 for a Real one]
  stamping,         \* per recv thread: the accepted report it is about to queue
  event_queue,      \* the OtherAircraftReports queued for the event loop
  adsb_last,        \* adsb_last_forwarded_ms, as ages
  allocated,        \* bound, and history: synthetic addresses handed out
  heard,            \* history: age of each contact's last report, accepted or not
  forwarded         \* history: the age of each address's last forward, and whether one came early

mapVars  == <<lastAllocatedICAO, aircraft, allocated>>
loopVars == <<adsb_last, forwarded>>
vars == <<mapVars, stamping, event_queue, loopVars, heard>>

Known == DOMAIN aircraft

Init ==
  /\ lastAllocatedICAO = first_icao
  /\ aircraft = [c \in {} |-> 0]
  /\ stamping = [t \in RecvThreads |-> Free]
  /\ event_queue = <<>>
  /\ adsb_last = [a \in {} |-> 0]
  /\ allocated = 0
  /\ heard = [c \in Contacts |-> Silent]
  /\ forwarded = [a \in Addresses |-> [age |-> Interval, early |-> FALSE]]

-----------------------------------------------------------------------------
(* Time.                                                                   *)

Older(age, limit) == IF age < limit THEN age + 1 ELSE limit

Tick ==
  /\ aircraft' = [c \in Known |-> [aircraft[c] EXCEPT !.age = Older(@, Old)]]
  /\ adsb_last' = [a \in DOMAIN adsb_last |-> Older(adsb_last[a], Interval)]
  /\ heard' = [c \in Contacts |-> Older(heard[c], Silent)]
  /\ forwarded' = [a \in Addresses |-> [forwarded[a] EXCEPT !.age = Older(@, Interval)]]
  /\ UNCHANGED <<lastAllocatedICAO, allocated, stamping, event_queue>>

-----------------------------------------------------------------------------
(* known_aircraft: every operation is one region of its lock.              *)

\* MUTANT: the range wraps before its last address is handed out.
WrapEarly(current) == IF current + 1 >= last_icao THEN first_icao ELSE current + 1

next_synthetic_icao(current) == IF current >= last_icao THEN first_icao ELSE current + 1

\* The entry of contact c, and the allocation it takes to make one.
NeedsAddress(c) == c \notin Known /\ c \notin Real
NewAddress(c) == IF c \in Real THEN c ELSE next_synthetic_icao(lastAllocatedICAO)
findAircraft(c) ==
  IF c \in Known THEN aircraft[c]
  ELSE [icao |-> NewAddress(c), age |-> Old, serial |-> IF c \in Real THEN 0 ELSE allocated + 1]

Allocate(c) ==
  IF NeedsAddress(c)
  THEN /\ allocated < MaxAllocated
       /\ allocated' = allocated + 1
       /\ lastAllocatedICAO' = next_synthetic_icao(lastAllocatedICAO)
  ELSE UNCHANGED <<allocated, lastAllocatedICAO>>

\* The debounce: at most one accepted update per interval.
acceptableUpdate(entry) == entry.age >= Interval

\* MUTANT: a rejected update is stamped too.
StampEvery(entry) == [entry EXCEPT !.age = 0]

\* An accepted update is stamped, a rejected one leaves the entry alone.
Stamped(entry) == IF acceptableUpdate(entry) THEN [entry EXCEPT !.age = 0] ELSE entry

\* MUTANT: an aircraft is dropped once its next report is due.
EvictQuiet(map) == [c \in {d \in DOMAIN map : map[d].age < Interval} |-> map[c]]

evictStaleLocked(map) == [c \in {d \in DOMAIN map : map[d].age <= EvictionAge} |-> map[c]]

With(map, c, entry) == [d \in DOMAIN map \cup {c} |-> IF d = c THEN entry ELSE map[d]]

\* newPositionReport, on a recv thread: the report is accepted or rejected, and
\* the map swept either way.
newPositionReport(t, c) ==
  LET entry == findAircraft(c)
  IN  /\ stamping[t] = Free
      /\ Allocate(c)
      /\ aircraft' = evictStaleLocked(With(aircraft, c, Stamped(entry)))
      /\ stamping' = IF acceptableUpdate(entry) THEN [stamping EXCEPT ![t] = c] ELSE stamping
      /\ heard' = [heard EXCEPT ![c] = 0]
      /\ UNCHANGED <<event_queue, loopVars>>

\* The rest of the position callback: a report without an address is given the
\* one the map holds by now, in a second region of the lock, and queued.  Its
\* coordinates may or may not be valid; of the FMU's own nobody asks.
QueueReport(t) ==
  LET c == stamping[t]
  IN  /\ c # Free /\ Len(event_queue) < MaxQueued
      /\ IF c \in Real THEN UNCHANGED mapVars
         ELSE Allocate(c) /\ aircraft' = With(aircraft, c, findAircraft(c))
      /\ \E valid \in IF c = asset_name THEN {TRUE} ELSE BOOLEAN :
           event_queue' = Append(event_queue, [contact |-> c, icao |-> findAircraft(c).icao, valid |-> valid])
      /\ stamping' = [stamping EXCEPT ![t] = Free]
      /\ UNCHANGED <<loopVars, heard>>

-----------------------------------------------------------------------------
(* The event loop.                                                         *)

\* Forward unless this address was forwarded within the interval.
MayForward(icao) == icao \notin DOMAIN adsb_last \/ adsb_last[icao] >= Interval

\* MUTANT: the throttle forgets the entries that still suppress a forward.
PruneYoung(map) == [a \in {b \in DOMAIN map : map[b] = 0} |-> map[a]]

\* Only entries that permit the next forward anyway are dropped.
pruneAdsbThrottle(map) == [a \in {b \in DOMAIN map : map[b] < Interval} |-> map[a]]

\* The reports that reach the throttle: not the FMU's own, and with coordinates
\* an autopilot can use.
Considered(report) == report.contact # asset_name /\ report.valid

sendADSB(icao) ==
  forwarded' = [forwarded EXCEPT ![icao] = [age |-> 0, early |-> @.early \/ @.age < Interval]]

\* dispatch() of an OtherAircraftReport.
OtherAircraftReport ==
  /\ event_queue # <<>>
  /\ event_queue' = Tail(event_queue)
  /\ LET report == Head(event_queue)
     IN  IF ~Considered(report) THEN UNCHANGED loopVars
         ELSE IF MayForward(report.icao)
         THEN /\ sendADSB(report.icao)
              /\ adsb_last' = pruneAdsbThrottle(With(adsb_last, report.icao, 0))
         ELSE /\ adsb_last' = pruneAdsbThrottle(adsb_last)
              /\ UNCHANGED forwarded
  /\ UNCHANGED <<mapVars, stamping, heard>>

-----------------------------------------------------------------------------
Reports(c) == \E t \in RecvThreads : newPositionReport(t, c)
Queues == \E t \in RecvThreads : QueueReport(t)

Next ==
  \/ Tick
  \/ \E c \in Contacts : Reports(c)
  \/ Queues
  \/ OtherAircraftReport

Spec == Init /\ [][Next]_vars

\* The clock runs, the event loop dispatches, and of the recv threads with a
\* report to queue some one gets to.  Nothing is assumed of the reports.
FairSpec ==
  /\ Spec
  /\ WF_vars(Tick) /\ WF_vars(OtherAircraftReport)
  /\ SF_vars(Queues)

-----------------------------------------------------------------------------
(* Properties.                                                             *)

\* The variables keep their types, and the FMU hands out no address outside
\* the 24 bits of the wire field.
TypeOK ==
  /\ lastAllocatedICAO \in Synthetic /\ allocated \in 0 .. MaxAllocated
  /\ Known \subseteq Contacts
  /\ \A c \in Known : aircraft[c] \in [icao : Addresses, age : 0 .. Old, serial : 0 .. MaxAllocated]
  /\ stamping \in [RecvThreads -> Contacts \cup {Free}]
  /\ event_queue \in Seq([contact : Contacts, icao : Addresses, valid : BOOLEAN])
  /\ DOMAIN adsb_last \subseteq Addresses
  /\ \A a \in DOMAIN adsb_last : adsb_last[a] \in 0 .. Interval
  /\ heard \in [Contacts -> 0 .. Silent]
  /\ forwarded \in [Addresses -> [age : 0 .. Interval, early : BOOLEAN]]

\* An address is handed out again only after every other one of the range has
\* been: two tracked aircraft with the same synthetic address got it that many
\* allocations apart, whatever was evicted and came back in between.  Sharing
\* one, they share the throttle and are one aircraft to the autopilot.
AddressesReusedLast ==
  \A c, d \in Known \ Real :
    c # d /\ aircraft[c].icao = aircraft[d].icao /\ aircraft[c].serial <= aircraft[d].serial
      => aircraft[d].serial - aircraft[c].serial >= RangeSize

\* An aircraft is dropped, and with it its synthetic address, only when it has
\* not reported for the eviction window less one debounce interval: one that
\* reports, however its reports are debounced, keeps its address.
ReportingAircraftKept ==
  [][\A c \in Known \ DOMAIN aircraft' : heard'[c] = Silent]_vars

\* The autopilot is sent one report of an address per interval at most: what
\* the throttle forgets changes no decision.
ForwardsApart == \A a \in Addresses : ~forwarded[a].early

\* No other tracked aircraft has the address of c, synthetic or its own.
Alone(c) == \A d \in Known \ {c} : c \in Known => aircraft[d].icao # aircraft[c].icao

InvalidOf(c) == \E i \in DOMAIN event_queue : event_queue[i].contact = c /\ ~event_queue[i].valid
Forwards(c) ==
  /\ event_queue # <<>> /\ event_queue' = Tail(event_queue)
  /\ Head(event_queue).contact = c
  /\ Considered(Head(event_queue)) /\ MayForward(Head(event_queue).icao)

\* An aircraft whose reports keep coming, with usable coordinates and not the
\* FMU's own, is forwarded again and again as long as it shares its address with
\* nobody: neither the debounce nor the throttle can silence it, however often it
\* reports and from however many servers.
ReportersAreForwarded ==
  \A c \in Contacts \ {asset_name} :
    []<>(heard[c] = 0) /\ <>[]~InvalidOf(c) /\ <>[]Alone(c) => []<><<Forwards(c)>>_vars
=============================================================================
