------------------------- MODULE KnownAircraftProofs -------------------------
(***************************************************************************)
(* What KnownAircraft keeps, for every set of contacts and threads, every  *)
(* address range and all intervals.                                        *)
(*                                                                         *)
(* The inductive invariant adds to the type three facts.  Issued: the      *)
(* entries with a synthetic address come from different allocations, and   *)
(* of the last RangeSize ones the k-th before the newest got the address k *)
(* places before it, counted backwards round the range.  Debounced: an entry is older than its *)
(* contact's last report by less than the debounce interval, and a contact *)
(* without an entry has been silent.  Throttled: an address forwarded      *)
(* within the interval has an entry of that age in the throttle.           *)
(***************************************************************************)
EXTENDS KnownAircraft, TLAPS

Entry == [icao : Addresses, age : 0 .. Old, serial : 0 .. MaxAllocated]

\* The address so many allocations before current.
Back(current, steps) ==
  IF current - steps >= first_icao THEN current - steps ELSE current - steps + RangeSize

Issued ==
  /\ \A c \in Known \ Real :
       /\ aircraft[c].serial \in 1 .. allocated
       /\ allocated - aircraft[c].serial < RangeSize
            => aircraft[c].icao = Back(lastAllocatedICAO, allocated - aircraft[c].serial)
  /\ \A c, d \in Known \ Real : c # d =>
       /\ aircraft[c].serial # aircraft[d].serial
       /\ aircraft[c].serial < aircraft[d].serial /\ aircraft[d].serial - aircraft[c].serial < RangeSize
            => aircraft[c].icao # aircraft[d].icao

Debounced ==
  \A c \in Contacts :
    /\ c \notin Known => heard[c] = Silent
    /\ c \in Known /\ heard[c] < Silent => aircraft[c].age < heard[c] + Interval

Throttled ==
  \A a \in Addresses :
    /\ ~forwarded[a].early
    /\ forwarded[a].age < Interval => a \in DOMAIN adsb_last /\ adsb_last[a] = forwarded[a].age

Inv == TypeOK /\ Issued /\ Debounced /\ Throttled

-----------------------------------------------------------------------------
(* Operators.                                                              *)

\* Ageing stays within its limit and takes at most one tick.
LEMMA OlderBound ==
  ASSUME NEW limit \in Nat, NEW age \in 0 .. limit
  PROVE  /\ Older(age, limit) \in 0 .. limit
         /\ age < limit => Older(age, limit) = age + 1
         /\ age = limit => Older(age, limit) = limit
  BY DEF Older

\* Taking the front off a queue.
LEMMA FrontOfQueue ==
  ASSUME NEW S, NEW queue \in Seq(S), queue # <<>>
  PROVE  Head(queue) \in S /\ Tail(queue) \in Seq(S)
  OBVIOUS

\* The constants' derived values are natural numbers.
LEMMA Constants == Old \in Nat /\ Silent \in Nat /\ Interval <= EvictionAge /\ Interval \in Nat
  BY AircraftAssumption DEF Old, Silent

\* Putting an entry into a map leaves the others.
LEMMA WithEntry ==
  ASSUME NEW map, NEW c, NEW entry
  PROVE  /\ DOMAIN With(map, c, entry) = DOMAIN map \cup {c}
         /\ With(map, c, entry)[c] = entry
         /\ \A d \in DOMAIN map \ {c} : With(map, c, entry)[d] = map[d]
  BY DEF With

\* The next synthetic address is one of the range, none of the RangeSize - 1
\* before it, and moves each of those one place further back.
LEMMA NextInRange ==
  ASSUME NEW current \in Synthetic
  PROVE  /\ next_synthetic_icao(current) \in Synthetic
         /\ Back(next_synthetic_icao(current), 0) = next_synthetic_icao(current)
         /\ \A steps \in Nat : steps + 1 < RangeSize =>
              /\ Back(next_synthetic_icao(current), steps + 1) = Back(current, steps)
              /\ Back(current, steps) # next_synthetic_icao(current)
  BY AircraftAssumption DEF Synthetic, next_synthetic_icao, Back, RangeSize

\* findAircraft returns an entry of the right type: the one of the map, or a
\* fresh one with a timestamp of 0.
LEMMA Found ==
  ASSUME TypeOK, NEW c \in Contacts, c \in Real \/ Allocate(c)
  PROVE  /\ findAircraft(c) \in Entry
         /\ c \in Known => findAircraft(c) = aircraft[c]
         /\ c \notin Known /\ c \notin Real =>
              /\ findAircraft(c).icao = next_synthetic_icao(lastAllocatedICAO)
              /\ findAircraft(c).serial = allocated + 1
  <1>1. NewAddress(c) \in Addresses
    BY NextInRange DEF TypeOK, NewAddress, Addresses
  <1>2. Old \in 0 .. Old
    BY Constants
  <1>3. c \notin Known => (IF c \in Real THEN 0 ELSE allocated + 1) \in 0 .. MaxAllocated
    BY AircraftAssumption DEF TypeOK, Allocate, NeedsAddress
  <1>4. c \in Known => aircraft[c] \in Entry
    BY DEF TypeOK, Entry
  <1> QED BY <1>1, <1>2, <1>3, <1>4 DEF findAircraft, Entry, NewAddress

\* An allocation keeps the counter in range and counts.
LEMMA Allocation ==
  ASSUME TypeOK, NEW c \in Contacts, Allocate(c)
  PROVE  /\ lastAllocatedICAO' \in Synthetic /\ allocated' \in 0 .. MaxAllocated
         /\ c \in Known \/ c \in Real => UNCHANGED <<allocated, lastAllocatedICAO>>
         /\ c \notin Known /\ c \notin Real =>
              /\ allocated' = allocated + 1
              /\ lastAllocatedICAO' = next_synthetic_icao(lastAllocatedICAO)
  <1>1. CASE NeedsAddress(c)
    <2>1. /\ allocated < MaxAllocated /\ allocated' = allocated + 1
          /\ lastAllocatedICAO' = next_synthetic_icao(lastAllocatedICAO)
      BY <1>1 DEF Allocate
    <2>2. lastAllocatedICAO' \in Synthetic
      BY <2>1, NextInRange DEF TypeOK
    <2>3. allocated' \in 0 .. MaxAllocated
      BY <2>1, AircraftAssumption DEF TypeOK
    <2> QED BY <1>1, <2>1, <2>2, <2>3 DEF NeedsAddress
  <1>2. CASE ~NeedsAddress(c)
    BY <1>2 DEF Allocate, NeedsAddress, TypeOK
  <1> QED BY <1>1, <1>2

\* Whatever entry a contact is given, with the address and the allocation that
\* findAircraft found for it, the invariant of the addresses handed out is kept;
\* dropping entries keeps it as well.
LEMMA IssuedKept ==
  ASSUME TypeOK, Issued, NEW c \in Contacts, Allocate(c),
         Known' \subseteq Known \cup {c},
         \A d \in Known' \ {c} :
           aircraft'[d].icao = aircraft[d].icao /\ aircraft'[d].serial = aircraft[d].serial,
         c \in Known' =>
           aircraft'[c].icao = findAircraft(c).icao /\ aircraft'[c].serial = findAircraft(c).serial
  PROVE  Issued'
  <1>n. allocated \in Nat /\ lastAllocatedICAO \in Synthetic /\ RangeSize \in Nat
    BY AircraftAssumption DEF TypeOK, RangeSize
  <1>1. CASE c \in Known \/ c \in Real
    <2>1. UNCHANGED <<allocated, lastAllocatedICAO>>
      BY <1>1, Allocation
    <2>2. \A d \in Known' \ Real :
            /\ d \in Known \ Real
            /\ aircraft'[d].icao = aircraft[d].icao /\ aircraft'[d].serial = aircraft[d].serial
      BY <1>1, Found
    <2> QED BY <2>1, <2>2 DEF Issued, Back
  <1>2. CASE c \notin Known /\ c \notin Real
    <2> DEFINE next == next_synthetic_icao(lastAllocatedICAO)
    <2>1. allocated' = allocated + 1 /\ lastAllocatedICAO' = next
      BY <1>2, Allocation
    <2>2. c \in Known' => aircraft'[c].icao = next /\ aircraft'[c].serial = allocated + 1
      BY <1>2, Found
    <2>3. \A d \in (Known' \ Real) \ {c} :
            /\ d \in Known \ Real
            /\ aircraft'[d].icao = aircraft[d].icao /\ aircraft'[d].serial = aircraft[d].serial
      OBVIOUS
    <2>4. /\ Back(next, 0) = next
          /\ \A steps \in Nat : steps + 1 < RangeSize =>
               Back(next, steps + 1) = Back(lastAllocatedICAO, steps) /\ Back(lastAllocatedICAO, steps) # next
      BY <1>n, NextInRange
    <2>5. ASSUME NEW d \in (Known' \ Real) \ {c}
          PROVE  /\ aircraft'[d].serial \in 1 .. allocated
                 /\ allocated' - aircraft'[d].serial < RangeSize =>
                      /\ aircraft'[d].icao = Back(lastAllocatedICAO', allocated' - aircraft'[d].serial)
                      /\ aircraft'[d].icao # next
      <3> DEFINE steps == allocated - aircraft[d].serial
      <3>1. aircraft[d].serial \in 1 .. allocated /\ aircraft'[d].serial = aircraft[d].serial
        BY <2>3 DEF Issued
      <3>2. steps \in Nat /\ allocated' - aircraft'[d].serial = steps + 1
        BY <1>n, <2>1, <3>1
      <3>3. steps < RangeSize => aircraft'[d].icao = Back(lastAllocatedICAO, steps)
        BY <2>3 DEF Issued
      <3> HIDE DEF steps
      <3>4. steps + 1 < RangeSize => steps < RangeSize
        BY <1>n, <3>2
      <3> QED BY <2>1, <2>4, <3>1, <3>2, <3>3, <3>4
    <2>6. ASSUME NEW d \in Known' \ Real
          PROVE  /\ aircraft'[d].serial \in 1 .. allocated'
                 /\ allocated' - aircraft'[d].serial < RangeSize
                      => aircraft'[d].icao = Back(lastAllocatedICAO', allocated' - aircraft'[d].serial)
      <3>1. CASE d = c
        <4>1. allocated' - aircraft'[d].serial = 0
          BY <1>n, <2>1, <2>2, <3>1
        <4> QED BY <1>n, <2>1, <2>2, <2>4, <3>1, <4>1
      <3>2. CASE d # c
        BY <1>n, <2>1, <2>5, <3>2
      <3> QED BY <3>1, <3>2
    <2>7. ASSUME NEW d \in Known' \ Real, NEW e \in Known' \ Real, d # e
          PROVE  /\ aircraft'[d].serial # aircraft'[e].serial
                 /\ aircraft'[d].serial < aircraft'[e].serial
                      /\ aircraft'[e].serial - aircraft'[d].serial < RangeSize
                      => aircraft'[d].icao # aircraft'[e].icao
      <3>1. CASE d # c /\ e # c
        BY <2>3, <2>7, <3>1 DEF Issued
      <3>2. CASE e = c
        <4>1. aircraft'[d].serial \in 1 .. allocated /\ aircraft'[e].serial = allocated'
          BY <2>1, <2>2, <2>5, <2>7, <3>2
        <4> QED BY <1>n, <2>1, <2>2, <2>5, <2>7, <3>2, <4>1
      <3>3. CASE d = c
        <4>1. aircraft'[e].serial \in 1 .. allocated /\ aircraft'[d].serial = allocated + 1
          BY <2>2, <2>5, <2>7, <3>3
        <4> QED BY <1>n, <4>1
      <3> QED BY <3>1, <3>2, <3>3
    <2> HIDE DEF next
    <2> QED BY <2>6, <2>7 DEF Issued
  <1> QED BY <1>1, <1>2

-----------------------------------------------------------------------------
(* The initial states.                                                     *)

\* The invariant holds initially: nothing is tracked, heard or forwarded.
LEMMA InitInv == Init => Inv
  <1> SUFFICES ASSUME Init PROVE Inv
    OBVIOUS
  <1>1. Known = {} /\ DOMAIN adsb_last = {}
    BY DEF Init, Known
  <1>2. TypeOK
    <2>1. lastAllocatedICAO \in Synthetic /\ allocated \in 0 .. MaxAllocated
      BY AircraftAssumption DEF Init, Synthetic
    <2>2. heard \in [Contacts -> 0 .. Silent] /\ stamping \in [RecvThreads -> Contacts \cup {Free}]
      BY Constants DEF Init
    <2>3. forwarded \in [Addresses -> [age : 0 .. Interval, early : BOOLEAN]]
      BY Constants DEF Init
    <2> QED BY <1>1, <2>1, <2>2, <2>3 DEF Init, TypeOK
  <1>3. Issued /\ Debounced
    BY <1>1, AircraftAssumption DEF Init, Issued, Debounced
  <1>4. Throttled
    BY Constants DEF Init, Throttled
  <1> QED BY <1>2, <1>3, <1>4 DEF Inv

-----------------------------------------------------------------------------
(* One step.                                                               *)

\* Time passes: an entry and its contact's last report age together, and so do
\* a forward and its throttle entry.
LEMMA TickKeeps ==
  ASSUME Inv, Tick
  PROVE  Inv'
  <1> USE Constants DEF Inv, Entry
  <1>1. Known' = Known /\ DOMAIN adsb_last' = DOMAIN adsb_last
    BY DEF Tick, Known
  <1>2. \A c \in Known : /\ aircraft'[c] \in Entry
                         /\ aircraft'[c].icao = aircraft[c].icao
                         /\ aircraft'[c].serial = aircraft[c].serial
                         /\ aircraft'[c].age <= aircraft[c].age + 1
    <2> SUFFICES ASSUME NEW c \in Known
                 PROVE  /\ aircraft'[c] \in Entry
                        /\ aircraft'[c].icao = aircraft[c].icao
                        /\ aircraft'[c].serial = aircraft[c].serial
                        /\ aircraft'[c].age <= aircraft[c].age + 1
      OBVIOUS
    <2>1. aircraft[c] \in Entry
      BY DEF TypeOK
    <2>2. aircraft'[c] = [aircraft[c] EXCEPT !.age = Older(aircraft[c].age, Old)]
      BY DEF Tick
    <2>3. Older(aircraft[c].age, Old) \in 0 .. Old /\ Older(aircraft[c].age, Old) <= aircraft[c].age + 1
      BY <2>1, OlderBound
    <2> QED BY <2>1, <2>2, <2>3
  <1>3. \A c \in Contacts : /\ heard'[c] \in 0 .. Silent
                            /\ heard[c] < Silent => heard'[c] = heard[c] + 1
                            /\ heard[c] = Silent => heard'[c] = Silent
    BY OlderBound DEF Tick, TypeOK
  <1>4. \A a \in DOMAIN adsb_last : /\ adsb_last'[a] \in 0 .. Interval
                                    /\ adsb_last[a] < Interval => adsb_last'[a] = adsb_last[a] + 1
    BY OlderBound DEF Tick, TypeOK
  <1>5. \A a \in Addresses : /\ forwarded'[a] \in [age : 0 .. Interval, early : BOOLEAN]
                             /\ forwarded'[a].early = forwarded[a].early
                             /\ forwarded[a].age < Interval => forwarded'[a].age = forwarded[a].age + 1
                             /\ forwarded[a].age = Interval => forwarded'[a].age = Interval
    <2> SUFFICES ASSUME NEW a \in Addresses
                 PROVE  /\ forwarded'[a] \in [age : 0 .. Interval, early : BOOLEAN]
                        /\ forwarded'[a].early = forwarded[a].early
                        /\ forwarded[a].age < Interval => forwarded'[a].age = forwarded[a].age + 1
                        /\ forwarded[a].age = Interval => forwarded'[a].age = Interval
      OBVIOUS
    <2>1. forwarded[a] \in [age : 0 .. Interval, early : BOOLEAN]
      BY DEF TypeOK
    <2>2. forwarded'[a] = [forwarded[a] EXCEPT !.age = Older(forwarded[a].age, Interval)]
      BY DEF Tick
    <2> QED BY <2>1, <2>2, OlderBound
  <1>6. TypeOK'
    <2>1. /\ heard' \in [Contacts -> 0 .. Silent]
          /\ forwarded' \in [Addresses -> [age : 0 .. Interval, early : BOOLEAN]]
      BY <1>3, <1>5 DEF Tick
    <2> QED BY <1>1, <1>2, <1>4, <2>1 DEF Tick, TypeOK
  <1>7. Issued'
    <2>1. UNCHANGED <<allocated, lastAllocatedICAO>> /\ Issued
      BY DEF Tick
    <2>2. \A c \in Known :
            aircraft'[c].icao = aircraft[c].icao /\ aircraft'[c].serial = aircraft[c].serial
      BY <1>2
    <2> QED BY <1>1, <2>1, <2>2 DEF Issued, Back
  <1>8. Debounced'
    <2> SUFFICES ASSUME NEW c \in Contacts
                 PROVE  /\ c \notin Known => heard'[c] = Silent
                        /\ c \in Known /\ heard'[c] < Silent => aircraft'[c].age < heard'[c] + Interval
      BY <1>1 DEF Debounced
    <2>1. heard[c] \in 0 .. Silent /\ (c \in Known => aircraft[c].age \in 0 .. Old)
      BY DEF TypeOK
    <2>2. c \in Known => aircraft'[c].age \in 0 .. Old /\ aircraft'[c].age <= aircraft[c].age + 1
      BY <1>2
    <2> QED BY <1>3, <2>1, <2>2 DEF Debounced
  <1>9. Throttled'
    <2> SUFFICES ASSUME NEW a \in Addresses
                 PROVE  /\ ~forwarded'[a].early
                        /\ forwarded'[a].age < Interval =>
                             a \in DOMAIN adsb_last /\ adsb_last'[a] = forwarded'[a].age
      BY <1>1 DEF Throttled
    <2>1. forwarded[a].age \in 0 .. Interval
      BY DEF TypeOK
    <2> QED BY <1>4, <1>5, <2>1 DEF Throttled
  <1> QED BY <1>6, <1>7, <1>8, <1>9

\* A report: its contact has just been heard, and the sweep takes entries of
\* contacts that have been silent.
LEMMA ReportKeeps ==
  ASSUME Inv, NEW t \in RecvThreads, NEW c \in Contacts, newPositionReport(t, c)
  PROVE  /\ Inv'
         /\ \A d \in Known \ Known' : heard'[d] = Silent
  <1> USE Constants DEF Inv, Entry
  <1> DEFINE entry == findAircraft(c)
             swept == With(aircraft, c, Stamped(entry))
  <1>1. /\ Allocate(c) /\ aircraft' = evictStaleLocked(swept)
        /\ stamping' = IF acceptableUpdate(entry) THEN [stamping EXCEPT ![t] = c] ELSE stamping
        /\ heard' = [heard EXCEPT ![c] = 0]
        /\ UNCHANGED <<event_queue, adsb_last, forwarded>>
    BY DEF newPositionReport, loopVars
  <1>2. entry \in Entry
    BY <1>1, Found
  <1>3. /\ Stamped(entry) \in Entry
        /\ Stamped(entry).icao = entry.icao /\ Stamped(entry).serial = entry.serial
        /\ Stamped(entry).age < Interval
    <2>1. CASE acceptableUpdate(entry)
      <3>1. Stamped(entry) = [entry EXCEPT !.age = 0]
        BY <2>1 DEF Stamped
      <3> QED BY <1>2, <3>1, AircraftAssumption
    <2>2. CASE ~acceptableUpdate(entry)
      <3>1. Stamped(entry) = entry
        BY <2>2 DEF Stamped
      <3> QED BY <1>2, <2>2, <3>1 DEF acceptableUpdate
    <2> QED BY <2>1, <2>2
  <1>4. /\ DOMAIN swept = Known \cup {c} /\ swept[c] = Stamped(entry)
        /\ \A d \in Known \ {c} : swept[d] = aircraft[d]
    BY DEF With, Known
  <1>5. /\ Known' = {d \in Known \cup {c} : swept[d].age <= EvictionAge}
        /\ \A d \in Known' : aircraft'[d] = swept[d]
    BY <1>1, <1>4 DEF evictStaleLocked, Known
  <1>6. c \in Known'
    BY <1>2, <1>3, <1>4, <1>5, AircraftAssumption
  <1>7. \A d \in Known' : aircraft'[d] \in Entry
    BY <1>3, <1>4, <1>5 DEF TypeOK
  <1>8. TypeOK'
    <2>1. heard' \in [Contacts -> 0 .. Silent] /\ stamping' \in [RecvThreads -> Contacts \cup {Free}]
      BY <1>1 DEF TypeOK
    <2>2. lastAllocatedICAO' \in Synthetic /\ allocated' \in 0 .. MaxAllocated
      BY <1>1, Allocation
    <2>3. Known' \subseteq Contacts
      BY <1>5 DEF TypeOK
    <2> QED BY <1>1, <1>7, <2>1, <2>2, <2>3 DEF TypeOK
  <1>9. Issued'
    BY <1>1, <1>3, <1>4, <1>5, IssuedKept
  <1>10. \A d \in Known \ Known' : heard'[d] = Silent
    <2> SUFFICES ASSUME NEW d \in Known \ Known' PROVE heard'[d] = Silent
      OBVIOUS
    <2>1. d # c /\ d \in Contacts
      BY <1>6 DEF TypeOK
    <2>2. aircraft[d].age \in Nat /\ heard[d] \in 0 .. Silent
      BY <2>1 DEF TypeOK
    <2>3. aircraft[d].age > EvictionAge
      BY <1>4, <1>5, <2>1, <2>2, AircraftAssumption
    <2>4. heard[d] < Silent => aircraft[d].age < heard[d] + Interval
      BY <2>1 DEF Debounced
    <2>5. heard[d] = Silent
      BY <2>2, <2>3, <2>4, AircraftAssumption DEF Silent
    <2> QED BY <1>1, <2>1, <2>5 DEF TypeOK
  <1>11. Debounced'
    <2> SUFFICES ASSUME NEW d \in Contacts
                 PROVE  /\ d \notin Known' => heard'[d] = Silent
                        /\ d \in Known' /\ heard'[d] < Silent => aircraft'[d].age < heard'[d] + Interval
      BY DEF Debounced
    <2>1. CASE d = c
      BY <1>1, <1>3, <1>4, <1>5, <1>6, <2>1 DEF TypeOK
    <2>2. CASE d # c
      <3>1. heard'[d] = heard[d]
        BY <1>1, <2>2 DEF TypeOK
      <3>2. d \in Known' => d \in Known /\ aircraft'[d] = aircraft[d]
        BY <1>4, <1>5, <2>2
      <3> QED BY <1>10, <3>1, <3>2 DEF Debounced
    <2> QED BY <2>1, <2>2
  <1>12. Throttled'
    BY <1>1 DEF Throttled
  <1> QED BY <1>8, <1>9, <1>10, <1>11, <1>12

\* The second region: an entry made anew belongs to a contact that has been
\* silent.
LEMMA QueueKeeps ==
  ASSUME Inv, NEW t \in RecvThreads, QueueReport(t)
  PROVE  Inv' /\ Known \subseteq Known'
  <1> USE Constants DEF Inv, Entry
  <1> DEFINE c == stamping[t]
             entry == findAircraft(c)
  <1>1. /\ c \in Contacts
        /\ \E valid \in BOOLEAN :
             event_queue' = Append(event_queue, [contact |-> c, icao |-> entry.icao, valid |-> valid])
        /\ stamping' = [stamping EXCEPT ![t] = Free]
        /\ UNCHANGED <<adsb_last, forwarded, heard>>
    BY AircraftAssumption DEF QueueReport, loopVars, TypeOK
  <1>2. /\ c \in Real \/ Allocate(c)
        /\ entry \in Entry
        /\ c \in Known => entry = aircraft[c]
    <2>1. c \in Real \/ Allocate(c)
      BY DEF QueueReport
    <2> QED BY <1>1, <2>1, Found
  <1>3. stamping' \in [RecvThreads -> Contacts \cup {Free}]
    BY <1>1 DEF TypeOK
  <1>4. event_queue' \in Seq([contact : Contacts, icao : Addresses, valid : BOOLEAN])
    <2>1. PICK valid \in BOOLEAN :
            event_queue' = Append(event_queue, [contact |-> c, icao |-> entry.icao, valid |-> valid])
      BY <1>1
    <2>2. [contact |-> c, icao |-> entry.icao, valid |-> valid]
            \in [contact : Contacts, icao : Addresses, valid : BOOLEAN]
      BY <1>1, <1>2
    <2>3. event_queue \in Seq([contact : Contacts, icao : Addresses, valid : BOOLEAN])
      BY DEF TypeOK
    <2> QED BY <2>1, <2>2, <2>3
  <1>5. CASE c \in Real
    <2>1. UNCHANGED <<lastAllocatedICAO, aircraft, allocated>>
      BY <1>5 DEF QueueReport, mapVars
    <2>2. UNCHANGED Known
      BY <2>1 DEF Known
    <2>3. TypeOK'
      BY <1>1, <1>3, <1>4, <2>1, <2>2 DEF TypeOK
    <2>4. Issued' /\ Debounced' /\ Throttled'
      BY <1>1, <2>1, <2>2 DEF Issued, Debounced, Throttled
    <2> QED BY <2>2, <2>3, <2>4
  <1>6. CASE c \notin Real
    <2>1. Allocate(c) /\ aircraft' = With(aircraft, c, entry)
      BY <1>6 DEF QueueReport
    <2>2. /\ Known' = Known \cup {c} /\ aircraft'[c] = entry
          /\ \A d \in Known \ {c} : aircraft'[d] = aircraft[d]
      BY <2>1 DEF With, Known
    <2>3. TypeOK'
      <3>1. lastAllocatedICAO' \in Synthetic /\ allocated' \in 0 .. MaxAllocated
        BY <1>1, <2>1, Allocation
      <3>2. Known' \subseteq Contacts
        BY <1>1, <2>2 DEF TypeOK
      <3>3. \A d \in Known' : aircraft'[d] \in Entry
        BY <1>2, <2>2 DEF TypeOK
      <3> QED BY <1>1, <1>3, <1>4, <3>1, <3>2, <3>3 DEF TypeOK
    <2>4. Issued'
      BY <1>1, <2>1, <2>2, IssuedKept
    <2>5. c \in Known => entry = aircraft[c]
      BY <1>2
    <2>6. Debounced'
      BY <1>1, <2>2, <2>5 DEF Debounced
    <2>7. Throttled'
      BY <1>1 DEF Throttled
    <2> QED BY <2>2, <2>3, <2>4, <2>6, <2>7
  <1> QED BY <1>5, <1>6

\* The event loop: an address is forwarded only when its throttle entry is
\* gone or old, and the sweep keeps every younger one.
LEMMA DispatchKeeps ==
  ASSUME Inv, OtherAircraftReport
  PROVE  Inv' /\ Known' = Known
  <1> USE Constants DEF Inv
  <1> DEFINE report == Head(event_queue)
             icao == report.icao
             Reportable == [contact : Contacts, icao : Addresses, valid : BOOLEAN]
  <1>1. /\ event_queue # <<>> /\ event_queue' = Tail(event_queue)
        /\ UNCHANGED <<lastAllocatedICAO, aircraft, allocated, stamping, heard>>
    BY DEF OtherAircraftReport, mapVars
  <1>2. event_queue' \in Seq(Reportable) /\ report \in Reportable
    <2>1. event_queue \in Seq(Reportable)
      BY DEF TypeOK
    <2> QED BY <1>1, <2>1, FrontOfQueue
  <1>3. icao \in Addresses
    BY <1>2
  <1>4. UNCHANGED Known
    BY <1>1 DEF Known
  <1>5. Issued' /\ Debounced'
    BY <1>1, <1>4 DEF Issued, Debounced
  <1>6. ASSUME NEW map, DOMAIN map \subseteq Addresses, \A a \in DOMAIN map : map[a] \in 0 .. Interval
        PROVE  /\ DOMAIN pruneAdsbThrottle(map) \subseteq Addresses
               /\ \A a \in DOMAIN pruneAdsbThrottle(map) : pruneAdsbThrottle(map)[a] \in 0 .. Interval
               /\ \A a \in DOMAIN map : map[a] < Interval =>
                    a \in DOMAIN pruneAdsbThrottle(map) /\ pruneAdsbThrottle(map)[a] = map[a]
    BY <1>6 DEF pruneAdsbThrottle
  <1>7. ASSUME forwarded' \in [Addresses -> [age : 0 .. Interval, early : BOOLEAN]],
               DOMAIN adsb_last' \subseteq Addresses,
               \A a \in DOMAIN adsb_last' : adsb_last'[a] \in 0 .. Interval
        PROVE  TypeOK'
    BY <1>1, <1>2, <1>4, <1>7 DEF TypeOK
  <1>8. /\ DOMAIN adsb_last \subseteq Addresses
        /\ \A a \in DOMAIN adsb_last : adsb_last[a] \in 0 .. Interval
        /\ forwarded \in [Addresses -> [age : 0 .. Interval, early : BOOLEAN]]
    BY DEF TypeOK
  <1>9. CASE UNCHANGED <<adsb_last, forwarded>>
    <2>1. Throttled'
      BY <1>9 DEF Throttled
    <2>2. TypeOK'
      BY <1>7, <1>8, <1>9
    <2> QED BY <1>4, <1>5, <2>1, <2>2
  <1>10. CASE adsb_last' = pruneAdsbThrottle(adsb_last) /\ UNCHANGED forwarded
    <2>1. /\ DOMAIN adsb_last' \subseteq Addresses
          /\ \A a \in DOMAIN adsb_last' : adsb_last'[a] \in 0 .. Interval
          /\ \A a \in DOMAIN adsb_last : adsb_last[a] < Interval =>
               a \in DOMAIN adsb_last' /\ adsb_last'[a] = adsb_last[a]
      BY <1>6, <1>8, <1>10
    <2>2. Throttled'
      BY <1>10, <2>1 DEF Throttled
    <2>3. TypeOK'
      BY <1>7, <1>8, <1>10, <2>1
    <2> QED BY <1>4, <1>5, <2>2, <2>3
  <1>11. CASE /\ MayForward(icao) /\ sendADSB(icao)
              /\ adsb_last' = pruneAdsbThrottle(With(adsb_last, icao, 0))
    <2> DEFINE map == With(adsb_last, icao, 0)
    <2>1. /\ DOMAIN map = DOMAIN adsb_last \cup {icao} /\ map[icao] = 0
          /\ \A a \in DOMAIN adsb_last \ {icao} : map[a] = adsb_last[a]
      BY DEF With
    <2>2. DOMAIN map \subseteq Addresses /\ \A a \in DOMAIN map : map[a] \in 0 .. Interval
      BY <1>3, <1>8, <2>1
    <2>3. /\ DOMAIN adsb_last' \subseteq Addresses
          /\ \A a \in DOMAIN adsb_last' : adsb_last'[a] \in 0 .. Interval
          /\ \A a \in DOMAIN map : map[a] < Interval => a \in DOMAIN adsb_last' /\ adsb_last'[a] = map[a]
      BY <1>6, <1>11, <2>2
    <2>4. forwarded[icao].age = Interval /\ forwarded[icao].early = FALSE
      <3>1. forwarded[icao].age \in 0 .. Interval /\ forwarded[icao].early \in BOOLEAN
        BY <1>3, <1>8
      <3>2. ~(forwarded[icao].age < Interval) /\ ~forwarded[icao].early
        BY <1>3, <1>8, <1>11, <3>1 DEF Throttled, MayForward
      <3> QED BY <3>1, <3>2
    <2>5. /\ forwarded'[icao] = [age |-> 0, early |-> FALSE]
          /\ \A a \in Addresses \ {icao} : forwarded'[a] = forwarded[a]
          /\ forwarded' \in [Addresses -> [age : 0 .. Interval, early : BOOLEAN]]
      <3>1. forwarded' = [forwarded EXCEPT ![icao] =
                            [age |-> 0, early |-> forwarded[icao].early \/ forwarded[icao].age < Interval]]
        BY <1>11 DEF sendADSB
      <3>2. (forwarded[icao].early \/ forwarded[icao].age < Interval) = FALSE
        BY <2>4
      <3>3. [age |-> 0, early |-> FALSE] \in [age : 0 .. Interval, early : BOOLEAN]
        OBVIOUS
      <3>4. forwarded' = [forwarded EXCEPT ![icao] = [age |-> 0, early |-> FALSE]]
        BY <3>1, <3>2
      <3> QED BY <1>3, <1>8, <3>3, <3>4
    <2>6. Throttled'
      <3> SUFFICES ASSUME NEW a \in Addresses
                   PROVE  /\ ~forwarded'[a].early
                          /\ forwarded'[a].age < Interval =>
                               a \in DOMAIN adsb_last' /\ adsb_last'[a] = forwarded'[a].age
        BY DEF Throttled
      <3>1. CASE a = icao
        BY <2>1, <2>3, <2>5, <3>1, AircraftAssumption
      <3>2. CASE a # icao
        BY <2>1, <2>3, <2>5, <3>2 DEF Throttled
      <3> QED BY <3>1, <3>2
    <2>7. TypeOK'
      BY <1>7, <2>3, <2>5
    <2> QED BY <1>4, <1>5, <2>6, <2>7
  <1> QED BY <1>9, <1>10, <1>11 DEF OtherAircraftReport, loopVars

-----------------------------------------------------------------------------
(* The theorems.                                                           *)

\* Every step keeps the invariant, and drops silent contacts only.
LEMMA StepKeeps ==
  ASSUME Inv, [Next]_vars
  PROVE  Inv' /\ \A c \in Known \ Known' : heard'[c] = Silent
  <1>1. CASE Tick
    <2>1. Known' = Known
      BY <1>1 DEF Tick, Known
    <2> QED BY <1>1, <2>1, TickKeeps
  <1>2. CASE \E c \in Contacts : Reports(c)
    BY <1>2, ReportKeeps DEF Reports
  <1>3. CASE Queues
    BY <1>3, QueueKeeps DEF Queues
  <1>4. CASE OtherAircraftReport
    BY <1>4, DispatchKeeps
  <1>5. CASE UNCHANGED vars
    <2>1. UNCHANGED <<lastAllocatedICAO, aircraft, allocated, stamping, event_queue, adsb_last, forwarded, heard>>
      BY <1>5 DEF vars, mapVars, loopVars
    <2>2. UNCHANGED Known
      BY <2>1 DEF Known
    <2>3. TypeOK'
      BY <2>1, <2>2 DEF Inv, TypeOK
    <2>4. Issued' /\ Debounced' /\ Throttled'
      BY <2>1, <2>2 DEF Inv, Issued, Debounced, Throttled
    <2> QED BY <2>2, <2>3, <2>4 DEF Inv
  <1> QED BY <1>1, <1>2, <1>3, <1>4, <1>5 DEF Next

\* The invariant holds in every reachable state.
THEOREM AircraftInvariant == Spec => []Inv
  <1>1. Inv /\ [Next]_vars => Inv'
    BY StepKeeps
  <1> QED BY InitInv, <1>1, PTL DEF Spec

\* The variables keep their types: no synthetic address leaves the range.
THEOREM AircraftTyped == Spec => []TypeOK
  <1>1. Inv => TypeOK
    BY DEF Inv
  <1> QED BY <1>1, AircraftInvariant, PTL

\* An address is handed out again only after all the others of the range,
\* whatever the number of servers, evictions and returns.
THEOREM AircraftAddressesReused == Spec => []AddressesReusedLast
  <1>1. ASSUME Inv, NEW c \in Known \ Real, NEW d \in Known \ Real, c # d,
               aircraft[c].icao = aircraft[d].icao, aircraft[c].serial <= aircraft[d].serial
        PROVE  aircraft[d].serial - aircraft[c].serial >= RangeSize
    <2>1. aircraft[c].serial \in Nat /\ aircraft[d].serial \in Nat /\ RangeSize \in Nat
      BY <1>1, AircraftAssumption DEF Inv, TypeOK, Issued, RangeSize
    <2> QED BY <1>1, <2>1 DEF Inv, Issued
  <1>2. Inv => AddressesReusedLast
    BY <1>1 DEF AddressesReusedLast
  <1> QED BY <1>2, AircraftInvariant, PTL

\* No address is forwarded twice within the interval.
THEOREM AircraftForwardsApart == Spec => []ForwardsApart
  <1>1. Inv => ForwardsApart
    BY DEF Inv, Throttled, ForwardsApart
  <1> QED BY <1>1, AircraftInvariant, PTL

\* No aircraft that reports is dropped.
THEOREM AircraftReportingKept == Spec => ReportingAircraftKept
  <1>1. Inv /\ [Next]_vars => [\A c \in Known \ DOMAIN aircraft' : heard'[c] = Silent]_vars
    BY StepKeeps DEF Known
  <1> QED BY <1>1, AircraftInvariant, PTL DEF Spec, ReportingAircraftKept
=============================================================================
