--------------------------- MODULE FmuSearchProofs ---------------------------
(***************************************************************************)
(* Proofs for FmuSearch, for any searches, any number of retries and any   *)
(* bounds: a search flies only while the machine is searching, and a       *)
(* searching aircraft flies the search the worker holds once everything    *)
(* queued was handled.                                                     *)
(***************************************************************************)
EXTENDS FmuSearch, FiniteSetTheorems, TLAPS

-----------------------------------------------------------------------------
(* The inductive invariant.                                                *)

MachineTypes ==
  {terminated, low_battery, fss_comms_lost, mav_comms_lost, altitude_breach, search_active} \subseteq BOOLEAN

Types ==
  /\ task_queue \in Seq(Tasks) /\ smm_events \in Seq(Events)
  /\ loaded \in Searches \cup {None} /\ current_search \in Searches \cup {None}
  /\ backoff \in BOOLEAN
  /\ pc \in {"idle", "acquire", "fetch", "check", "accept", "refused"}
  /\ pc \in {"check", "accept", "refused"} => candidate \in Searches
  /\ MachineTypes

\* The role is granted while searching: a worker that finds it revoked is right
\* to drop its outcome, since the machine will ask again when it returns.
RoleGranted == FMU!isSearching => search_active

HasSearch(q) == \E i \in DOMAIN q : q[i].kind = "search"

\* A search was asked for and the worker has not answered yet.  An acquisition
\* that finds the backoff running answers nothing.
Asked ==
  \/ HasSearch(task_queue)
  \/ pc = "acquire" /\ ~backoff
  \/ pc \in {"fetch", "check", "accept", "refused"}

\* An event that settles what a searching aircraft does next; an abandoned
\* search does not, it leaves the aircraft searching.
Settles(event) == event.kind # "abandon_search"

\* The last event that settles anything takes the aircraft out of searching or
\* loads the search held now; with none queued, the one held is loaded.
LastOf(q, i) == i \in DOMAIN q /\ Settles(q[i]) /\ \A j \in DOMAIN q : Settles(q[j]) => j <= i
Answered ==
  \/ \E i \in DOMAIN smm_events :
       LastOf(smm_events, i) /\ (smm_events[i].kind = "load" => smm_events[i].search = current_search)
  \/ /\ \A i \in DOMAIN smm_events : ~Settles(smm_events[i])
     /\ current_search # None /\ loaded = current_search

Served == FMU!isSearching => Asked \/ Answered

IInv == Types /\ RoleGranted /\ SearchFlownOnlyWhileSearching /\ Served

-----------------------------------------------------------------------------
(* The task queue.                                                         *)

\* Erasing the queued position reports keeps every other task: the places left
\* are taken, one to one, from the places no report had.
LEMMA Erased ==
  ASSUME NEW S, NEW q \in Seq(S), NEW kind
  PROVE  /\ Without(q, kind) \in Seq(S)
         /\ \A i \in DOMAIN q : q[i] # kind => \E n \in DOMAIN Without(q, kind) : Without(q, kind)[n] = q[i]
  <1> DEFINE kept == {i \in DOMAIN q : q[i] # kind}
             upto(i) == {j \in kept : j <= i}
             size == Cardinality(kept)
             pick(n) == CHOOSE i \in kept : Cardinality(upto(i)) = n
  <1>1. IsFiniteSet(kept) /\ size \in Nat /\ kept \subseteq Nat
    <2>1. Len(q) \in Nat /\ DOMAIN q = 1 .. Len(q)
      OBVIOUS
    <2>2. IsFiniteSet(1 .. Len(q))
      BY <2>1, FS_Interval
    <2>3. kept \in SUBSET (1 .. Len(q))
      BY <2>1
    <2>4. IsFiniteSet(kept)
      BY <2>2, <2>3, FS_Subset
    <2> QED BY <2>1, <2>3, <2>4, FS_CardinalityType
  <1>2. \A i \in kept : IsFiniteSet(upto(i)) /\ Cardinality(upto(i)) \in 1 .. size
    <2> SUFFICES ASSUME NEW i \in kept PROVE IsFiniteSet(upto(i)) /\ Cardinality(upto(i)) \in 1 .. size
      OBVIOUS
    <2>1. upto(i) \in SUBSET kept /\ i \in upto(i)
      BY <1>1
    <2>2. IsFiniteSet(upto(i)) /\ Cardinality(upto(i)) <= size
      BY <2>1, <1>1, FS_Subset
    <2>3. Cardinality(upto(i)) \in Nat /\ Cardinality(upto(i)) # 0
      BY <2>1, <2>2, FS_CardinalityType, FS_EmptySet
    <2> HIDE DEF upto, size
    <2> QED BY <2>2, <2>3, <1>1
  <1>3. \A i, j \in kept : Cardinality(upto(i)) = Cardinality(upto(j)) => i = j
    <2>1. ASSUME NEW i \in kept, NEW j \in kept, i < j, Cardinality(upto(i)) = Cardinality(upto(j))
          PROVE  FALSE
      <3>1. upto(i) \in SUBSET upto(j) /\ j \in upto(j) /\ j \notin upto(i)
        BY <2>1, <1>1
      <3>2. upto(j) = upto(i)
        BY <3>1, <2>1, <1>2, FS_Subset
      <3> QED BY <3>1, <3>2
    <2>2. \A i, j \in kept : i = j \/ i < j \/ j < i
      BY <1>1
    <2> QED BY <2>1, <2>2
  <1>4. \A n \in 1 .. size : \E i \in kept : Cardinality(upto(i)) = n
    <2> DEFINE f == [i \in kept |-> Cardinality(upto(i))]
    <2>1. IsFiniteSet(1 .. size) /\ Cardinality(1 .. size) = size
      BY <1>1, FS_Interval
    <2> HIDE DEF upto, size, kept
    <2>2. f \in Injection(kept, 1 .. size)
      BY <1>2, <1>3 DEF Injection, IsInjective
    <2>3. f \in Surjection(kept, 1 .. size)
      BY <2>1, <2>2, FS_Injection DEF size
    <2> QED BY <2>3 DEF Surjection
  <1> HIDE DEF upto, size
  <1>5. \A n \in 1 .. size : pick(n) \in kept /\ Cardinality(upto(pick(n))) = n
    BY <1>4
  <1>6. \A i \in kept : pick(Cardinality(upto(i))) = i
    BY <1>2, <1>3, <1>5
  <1>7. Without(q, kind) = [n \in 1 .. size |-> q[pick(n)]]
    BY DEF Without, upto, size
  <1> HIDE DEF pick
  <1>8. Without(q, kind) \in Seq(S)
    <2>1. \A n \in 1 .. size : q[pick(n)] \in S
      BY <1>5
    <2> QED BY <1>1, <1>7, <2>1
  <1>9. \A i \in DOMAIN q : q[i] # kind => \E n \in DOMAIN Without(q, kind) : Without(q, kind)[n] = q[i]
    BY <1>2, <1>6, <1>7
  <1> QED BY <1>8, <1>9

LEMMA Appended ==
  ASSUME NEW S, NEW q \in Seq(S), NEW x \in S
  PROVE  /\ Append(q, x) \in Seq(S) /\ DOMAIN q \subseteq DOMAIN Append(q, x)
         /\ \A i \in DOMAIN q : Append(q, x)[i] = q[i]
         /\ Len(q) + 1 \in DOMAIN Append(q, x) /\ Append(q, x)[Len(q) + 1] = x
         /\ \A i \in DOMAIN Append(q, x) : i \in Nat /\ i <= Len(q) + 1
  OBVIOUS

LEMMA Removed ==
  ASSUME NEW S, NEW q \in Seq(S), q # <<>>
  PROVE  /\ Head(q) \in S /\ Tail(q) \in Seq(S) /\ Head(q) = q[1] /\ 1 \in DOMAIN q
         /\ \A i \in DOMAIN q : i \in Nat /\ (i # 1 => i - 1 \in DOMAIN Tail(q) /\ Tail(q)[i - 1] = q[i])
         /\ \A i \in DOMAIN Tail(q) : i \in Nat /\ i + 1 \in DOMAIN q /\ Tail(q)[i] = q[i + 1]
  OBVIOUS

\* A queued search task stays queued, whatever is enqueued after it.
LEMMA Enqueued ==
  ASSUME task_queue \in Seq(Tasks), NEW task \in Tasks
  PROVE  /\ enqueue(task) \in Seq(Tasks)
         /\ HasSearch(task_queue) \/ task.kind = "search" => HasSearch(enqueue(task))
  <1>1. CASE task.kind = "report"
    <2> DEFINE r == Without(task_queue, task)
    <2>1. /\ r \in Seq(Tasks)
          /\ \A i \in DOMAIN task_queue : task_queue[i] # task => \E n \in DOMAIN r : r[n] = task_queue[i]
      BY Erased
    <2>2. enqueue(task) = Append(r, task)
      BY <1>1 DEF enqueue
    <2> HIDE DEF r
    <2>3. HasSearch(task_queue) => HasSearch(r)
      BY <1>1, <2>1 DEF HasSearch
    <2>4. HasSearch(r) => HasSearch(Append(r, task))
      BY <2>1, Appended DEF HasSearch
    <2> QED BY <1>1, <2>1, <2>2, <2>3, <2>4, Appended
  <1>2. CASE task.kind = "retry" /\ \E i \in 1 .. Len(task_queue) : task_queue[i] = task
    BY <1>2 DEF enqueue
  <1>3. CASE task.kind # "report" /\ ~(task.kind = "retry" /\ \E i \in 1 .. Len(task_queue) : task_queue[i] = task)
    <2>1. enqueue(task) = Append(task_queue, task)
      BY <1>3 DEF enqueue
    <2> QED BY <2>1, Appended DEF HasSearch
  <1> QED BY <1>1, <1>2, <1>3

\* Every task but the one taken stays.
LEMMA Taken ==
  ASSUME task_queue \in Seq(Tasks), NEW kind, Takes(kind)
  PROVE  /\ task_queue' \in Seq(Tasks)
         /\ kind # "search" /\ HasSearch(task_queue) => HasSearch(task_queue')
  <1>1. task_queue # <<>> /\ Head(task_queue).kind = kind /\ task_queue' = Tail(task_queue)
    BY DEF Takes
  <1>2. task_queue' \in Seq(Tasks)
    BY <1>1, Removed
  <1>3. ASSUME kind # "search", NEW i \in DOMAIN task_queue, task_queue[i].kind = "search" PROVE HasSearch(task_queue')
    <2>1. i # 1
      BY <1>1, <1>3, Removed
    <2>2. i - 1 \in DOMAIN task_queue' /\ task_queue'[i - 1] = task_queue[i]
      BY <1>1, <2>1, Removed
    <2> QED BY <1>3, <2>2 DEF HasSearch
  <1> QED BY <1>2, <1>3 DEF HasSearch

-----------------------------------------------------------------------------
(* The event queue.                                                        *)

\* What the worker reports last decides.
LEMMA Reports ==
  ASSUME Types, NEW e \in Events, Emits(e), Settles(e), e.kind = "load" => e.search = current_search'
  PROVE  smm_events' \in Seq(Events) /\ Answered'
  <1>1. smm_events \in Seq(Events) /\ smm_events' = Append(smm_events, e)
    BY DEF Types, Emits
  <1>2. LastOf(smm_events', Len(smm_events) + 1) /\ smm_events'[Len(smm_events) + 1] = e
    BY <1>1, Appended DEF LastOf
  <1> QED BY <1>1, <1>2, Appended DEF Answered, LastOf

\* A dispatched event that loads, or settles nothing, leaves the answer behind.
LEMMA Applies ==
  ASSUME Types, Answered, smm_events # <<>>, smm_events' = Tail(smm_events), current_search' = current_search,
         \/ ~Settles(Head(smm_events)) /\ loaded' = loaded
         \/ Head(smm_events).kind = "load" /\ loaded' = Head(smm_events).search
  PROVE  Answered'
  <1>1. smm_events \in Seq(Events)
    BY DEF Types
  <1>2. CASE \E i \in DOMAIN smm_events : LastOf(smm_events, i)
    <2>1. PICK i \in DOMAIN smm_events :
            LastOf(smm_events, i) /\ (smm_events[i].kind = "load" => smm_events[i].search = current_search)
      BY <1>2 DEF Answered, LastOf
    <2>2. CASE i = 1
      <3>1. \A j \in DOMAIN smm_events' : ~Settles(smm_events'[j])
        BY <1>1, <2>1, <2>2, Removed DEF LastOf
      <3>2. smm_events[1].kind = "load" /\ loaded' = smm_events[1].search /\ smm_events[1] \in Events
        BY <1>1, <2>1, <2>2, Removed DEF LastOf
      <3>3. loaded' = current_search /\ current_search # None
        BY <2>1, <2>2, <3>2, SearchAssumption DEF Events
      <3> QED BY <3>1, <3>3 DEF Answered
    <2>3. CASE i # 1
      <3>1. i - 1 \in DOMAIN smm_events' /\ smm_events'[i - 1] = smm_events[i] /\ i \in Nat
        BY <1>1, <2>3, Removed
      <3>2. LastOf(smm_events', i - 1)
        <4>1. ASSUME NEW j \in DOMAIN smm_events', Settles(smm_events'[j]) PROVE j <= i - 1
          <5>1. j \in Nat /\ j + 1 \in DOMAIN smm_events /\ Settles(smm_events[j + 1])
            BY <1>1, <4>1, Removed
          <5>2. j + 1 <= i
            BY <2>1, <5>1 DEF LastOf
          <5> QED BY <3>1, <5>1, <5>2
        <4> QED BY <2>1, <3>1, <4>1 DEF LastOf
      <3> QED BY <2>1, <3>1, <3>2 DEF Answered
    <2> QED BY <2>2, <2>3
  <1>3. CASE ~\E i \in DOMAIN smm_events : LastOf(smm_events, i)
    <2>1. \A i \in DOMAIN smm_events : ~Settles(smm_events[i])
      BY <1>3 DEF Answered
    <2>2. ~Settles(Head(smm_events)) /\ \A j \in DOMAIN smm_events' : ~Settles(smm_events'[j])
      BY <1>1, <2>1, Removed
    <2> QED BY <1>3, <2>2 DEF Answered, Settles
  <1> QED BY <1>2, <1>3

-----------------------------------------------------------------------------
(* The state machine.                                                      *)

\* Any input leaves the role granted if it leaves the machine searching.
LEMMA Operated ==
  ASSUME MachineTypes, RoleGranted,
         \/ \E cmd : FMU!SMMNewCommand(cmd)
         \/ \E cmd, target : FMU!FSSNewCommand(cmd, target)
         \/ \E failed \in BOOLEAN : FMU!setCommsFailure(failed)
  PROVE  MachineTypes' /\ RoleGranted'
  <1>1. FMU!updateState /\ FMU!ActionChange
    BY DEF FMU!SMMNewCommand, FMU!FSSNewCommand, FMU!setCommsFailure
  <1>2. {low_battery', fss_comms_lost', mav_comms_lost', altitude_breach'} \subseteq BOOLEAN
    BY DEF MachineTypes, FMU!SMMNewCommand, FMU!FSSNewCommand, FMU!setCommsFailure, FMU!batteryVars, FMU!altitudeVars,
           FMU!commsVars
  <1>3. terminated' \in BOOLEAN
    BY <1>1 DEF FMU!updateState, MachineTypes
  <1>4. search_active' \in BOOLEAN /\ RoleGranted'
    <2>1. CASE FMU!actionState(current_state')
      <3>1. current_state' = "searching" => search_active' = TRUE
        BY <2>1 DEF FMU!actionState
      <3>2. search_active' \in {TRUE, FALSE, search_active}
        BY <2>1 DEF FMU!actionState
      <3> QED BY <3>1, <3>2 DEF RoleGranted, FMU!isSearching, MachineTypes
    <2>2. CASE current_state' = current_state /\ search_active' = search_active
      BY <2>2 DEF RoleGranted, FMU!isSearching, MachineTypes
    <2> QED BY <1>1, <2>1, <2>2 DEF FMU!ActionChange, FMU!portVars
  <1> QED BY <1>2, <1>3, <1>4 DEF MachineTypes

\* A mission the SMM worker reports complete ends searching, whatever else holds.
LEMMA CompletionLeaves ==
  ASSUME MachineTypes, FMU!SMMNewCommand("mission_complete")
  PROVE  ~FMU!isSearching'
  <1>1. MachineTypes'
    <2>1. UNCHANGED <<low_battery, altitude_breach, fss_comms_lost, mav_comms_lost>>
      BY DEF FMU!SMMNewCommand, FMU!batteryVars, FMU!altitudeVars, FMU!commsVars
    <2>2. terminated' \in BOOLEAN /\ search_active' \in BOOLEAN
      BY DEF FMU!SMMNewCommand, FMU!updateState, FMU!ActionChange, FMU!actionState, FMU!portVars, MachineTypes
    <2> QED BY <2>1, <2>2 DEF MachineTypes
  <1>2. FMU!commandedState(fss_command', smm_command') # "searching"
    BY DEF FMU!SMMNewCommand, FMU!commandedState, FMU!map_smm_state
  <1>3. current_state' = FMU!Arbitrated(terminated', low_battery', fss_comms_lost' \/ mav_comms_lost',
                                        altitude_breach', FMU!commandedState(fss_command', smm_command'))
    BY DEF FMU!SMMNewCommand, FMU!updateState
  <1> QED BY <1>1, <1>2, <1>3 DEF FMU!Arbitrated, MachineTypes, FMU!isSearching

-----------------------------------------------------------------------------
(* Steps.                                                                  *)

\* The state machine takes an input and acts on it: a machine that enters the
\* searching state asks for a search, and one that leaves it drops the mission.
LEMMA Acts ==
  ASSUME IInv, Actioned, MachineTypes', RoleGranted', smm_events' \in Seq(Events),
         UNCHANGED <<current_search, backoff, acquireVars>>,
         FMU!isSearching /\ FMU!isSearching' /\ loaded' = loaded /\ Answered => Answered'
  PROVE  IInv'
  <1> USE DEF IInv, acquireVars, FMU!isSearching
  <1>1. Task("search") \in Tasks /\ Task("search").kind = "search"
    BY DEF Task, Tasks
  <1>2. /\ task_queue' \in Seq(Tasks) /\ (HasSearch(task_queue) => HasSearch(task_queue'))
        /\ current_state' = "searching" /\ current_state # "searching" => HasSearch(task_queue')
    <2>1. enqueue(Task("search")) \in Seq(Tasks) /\ HasSearch(enqueue(Task("search")))
      BY <1>1, Enqueued DEF Types
    <2> QED BY <2>1 DEF Actioned, Types
  <1>3. /\ loaded' \in Searches \cup {None} /\ SearchFlownOnlyWhileSearching'
        /\ current_state' = "searching" => loaded' = loaded
    BY DEF Actioned, Types, SearchFlownOnlyWhileSearching
  <1>4. Types'
    BY <1>2, <1>3 DEF Types
  <1>5. Served'
    BY <1>2, <1>3 DEF Served, Asked
  <1> QED BY <1>3, <1>4, <1>5

\* A thread leaves the state machine and the mission alone.
LEMMA Apart ==
  ASSUME IInv, UNCHANGED machineVars, loaded' = loaded
  PROVE  /\ MachineTypes' /\ RoleGranted' /\ SearchFlownOnlyWhileSearching' /\ loaded' \in Searches \cup {None}
         /\ FMU!isSearching' = FMU!isSearching /\ (FMU!isSearching => search_active)
  BY DEF IInv, Types, MachineTypes, RoleGranted, SearchFlownOnlyWhileSearching, machineVars, FMU!isSearching

LEMMA DispatchKeeps == ASSUME IInv, Dispatch PROVE IInv'
  <1> DEFINE e == Head(smm_events)
  <1>1. /\ smm_events # <<>> /\ smm_events' = Tail(smm_events)
        /\ UNCHANGED <<current_search, backoff, acquireVars>>
    BY DEF Dispatch, DispatchLoadSearch, DispatchSmmCommand, Dispatches
  <1>2. e \in Events /\ smm_events' \in Seq(Events)
    BY <1>1, Removed DEF IInv, Types
  <1>3. CASE FMU!isSearching /\ e.kind = "load" /\ loadSearch(e.search) /\ UNCHANGED <<machineVars, task_queue>>
    <2>1. Types' /\ RoleGranted'
      BY <1>1, <1>2, <1>3 DEF IInv, Types, MachineTypes, RoleGranted, machineVars, acquireVars, FMU!isSearching,
                               loadSearch, Events
    <2>2. SearchFlownOnlyWhileSearching'
      BY <1>3 DEF SearchFlownOnlyWhileSearching, machineVars, FMU!isSearching
    <2>3. Answered => Answered'
      BY <1>1, <1>3, Applies DEF loadSearch, IInv
    <2>4. Asked => Asked'
      BY <1>1, <1>3 DEF Asked, acquireVars
    <2> QED BY <1>3, <2>1, <2>2, <2>3, <2>4 DEF IInv, Served
  <1>4. CASE FMU!isWaitingForTasking /\ FMU!SMMNewCommand("none") /\ Actioned
    <2>1. MachineTypes' /\ RoleGranted'
      BY <1>4, Operated DEF IInv, Types
    <2>2. ~FMU!isSearching
      BY <1>4 DEF FMU!isWaitingForTasking, FMU!isSearching
    <2> QED BY <1>1, <1>2, <1>4, <2>1, <2>2, Acts
  <1>5. CASE ~FMU!isSearching /\ UNCHANGED <<machineVars, task_queue, loaded>>
    <2>1. Types' /\ RoleGranted' /\ SearchFlownOnlyWhileSearching' /\ ~FMU!isSearching'
      BY <1>1, <1>2, <1>5, Apart DEF IInv, Types, acquireVars
    <2> QED BY <2>1 DEF IInv, Served
  <1>6. CASE DispatchSmmCommand
    <2>1. /\ e.kind \in {"rtl", "abandon_search", "mission_complete"} /\ Actioned
          /\ FMU!SMMNewCommand(IF e.kind = "rtl" THEN "mission_complete" ELSE e.kind)
      BY <1>6 DEF DispatchSmmCommand, Dispatches
    <2>2. MachineTypes' /\ RoleGranted'
      BY <2>1, Operated DEF IInv, Types
    <2>3. e.kind # "abandon_search" => ~FMU!isSearching'
      BY <2>1, CompletionLeaves DEF IInv, Types
    <2>4. e.kind = "abandon_search" /\ loaded' = loaded /\ Answered => Answered'
      BY <1>1, Applies DEF Settles, IInv
    <2> QED BY <1>1, <1>2, <2>1, <2>2, <2>3, <2>4, Acts
  <1> QED BY <1>3, <1>4, <1>5, <1>6 DEF Dispatch, DispatchLoadSearch, Dispatches

LEMMA InputKeeps == ASSUME IInv, OtherInput PROVE IInv'
  <1>1. /\ MachineTypes' /\ RoleGranted' /\ Actioned
    BY Operated DEF OtherInput, IInv, Types
  <1>2. UNCHANGED <<current_search, backoff, acquireVars, smm_events>>
    BY DEF OtherInput
  <1>3. smm_events' \in Seq(Events) /\ (loaded' = loaded /\ Answered => Answered')
    BY <1>2 DEF IInv, Types, Answered
  <1> QED BY <1>1, <1>2, <1>3, Acts

LEMMA SubmitKeeps == ASSUME IInv, NEW task \in Tasks, Submit(task) PROVE IInv'
  <1>1. /\ UNCHANGED <<machineVars, loaded, current_search, backoff, acquireVars, smm_events>>
        /\ task_queue' = enqueue(task)
    BY DEF Submit
  <1>2. task_queue' \in Seq(Tasks) /\ (HasSearch(task_queue) => HasSearch(task_queue'))
    BY <1>1, Enqueued DEF IInv, Types
  <1>3. Types' /\ RoleGranted' /\ SearchFlownOnlyWhileSearching'
    BY <1>1, <1>2, Apart DEF IInv, Types, acquireVars
  <1>4. Asked \/ Answered => Asked' \/ Answered'
    BY <1>1, <1>2 DEF Asked, Answered, acquireVars
  <1> QED BY <1>1, <1>3, <1>4, Apart DEF IInv, Served

\* A task other than a search leaves what was asked and answered, unless it
\* gives the held search up: then it asks for another, or reports the end.
LEMMA TaskKeeps ==
  ASSUME IInv, doConnect \/ doRetryPending \/ doReportPosition \/ doReachedPoint \/ doSearch
  PROVE  IInv'
  <1> USE DEF IInv
  <1>1. /\ pc = "idle" /\ UNCHANGED <<machineVars, loaded, candidate>>
        /\ task_queue' \in Seq(Tasks)
    BY Taken DEF doConnect, doRetryPending, doReportPosition, doReachedPoint, doSearch, Takes, Types
  <1>2. MachineTypes' /\ RoleGranted' /\ SearchFlownOnlyWhileSearching' /\ loaded' \in Searches \cup {None}
        /\ FMU!isSearching' = FMU!isSearching /\ (FMU!isSearching => search_active)
    BY <1>1, Apart
  <1>3. ASSUME UNCHANGED <<current_search, smm_events>>, backoff' = backoff, pc' \in {"idle", "acquire"},
               HasSearch(task_queue) => HasSearch(task_queue')
        PROVE  IInv'
    <2>1. Types'
      BY <1>1, <1>2, <1>3 DEF Types
    <2>2. Asked \/ Answered => Asked' \/ Answered'
      BY <1>1, <1>3 DEF Asked, Answered
    <2> QED BY <1>2, <2>1, <2>2 DEF Served
  <1>4. CASE doConnect
    <2>1. HasSearch(task_queue) => HasSearch(task_queue')
      BY <1>4, Taken DEF doConnect, Types
    <2> QED BY <1>1, <1>3, <1>4, <2>1 DEF doConnect
  <1>5. CASE doRetryPending
    <2>1. HasSearch(task_queue) => HasSearch(task_queue')
      BY <1>5, Taken DEF doRetryPending, Types
    <2> QED BY <1>3, <1>5, <2>1 DEF doRetryPending, maybeAcquire
  <1>6. CASE doReportPosition
    <2>1. HasSearch(task_queue) => HasSearch(task_queue')
      BY <1>6, Taken DEF doReportPosition, Types
    <2>2. pc' = IF search_active /\ current_search' = None THEN "acquire" ELSE "idle"
      BY <1>6 DEF doReportPosition, maybeAcquire
    <2>3. CASE UNCHANGED <<current_search, backoff, smm_events>>
      BY <1>3, <2>1, <2>2, <2>3
    <2>4. CASE current_search' = None /\ backoff' = FALSE /\ Emits(Outcome("abandon_search"))
      <3>1. smm_events' \in Seq(Events)
        BY <2>4, Appended DEF Types, Emits, Outcome, Events
      <3>2. Types'
        BY <1>1, <1>2, <2>2, <2>4, <3>1 DEF Types
      <3>3. FMU!isSearching => Asked'
        BY <1>2, <2>2, <2>4 DEF Asked
      <3> QED BY <1>2, <3>2, <3>3 DEF Served
    <2>5. CASE Emits(Outcome("mission_complete")) /\ UNCHANGED <<current_search, backoff>>
      <3>1. Outcome("mission_complete") \in Events /\ Outcome("mission_complete").kind = "mission_complete"
        BY DEF Outcome, Events
      <3>2. smm_events' \in Seq(Events) /\ Answered'
        BY <2>5, <3>1, Reports DEF Settles
      <3>3. Types'
        BY <1>1, <1>2, <2>2, <2>5, <3>2 DEF Types
      <3> QED BY <1>2, <3>2, <3>3 DEF Served
    <2> QED BY <1>6, <2>3, <2>4, <2>5 DEF doReportPosition, checkOperatorCommand
  <1>7. CASE doReachedPoint
    <2>1. HasSearch(task_queue) => HasSearch(task_queue')
      BY <1>7, Taken DEF doReachedPoint, Types
    <2>2. UNCHANGED <<backoff, pc>>
      BY <1>7 DEF doReachedPoint
    <2>3. CASE UNCHANGED <<current_search, smm_events>>
      BY <1>1, <1>3, <2>1, <2>2, <2>3
    <2>4. CASE current_search' = None /\ Emits(Outcome("rtl"))
      <3>1. Outcome("rtl") \in Events /\ Outcome("rtl").kind = "rtl"
        BY DEF Outcome, Events
      <3>2. smm_events' \in Seq(Events) /\ Answered'
        BY <2>4, <3>1, Reports DEF Settles
      <3>3. Types'
        BY <1>1, <1>2, <2>2, <2>4, <3>2 DEF Types
      <3> QED BY <1>2, <3>2, <3>3 DEF Served
    <2> QED BY <1>7, <2>3, <2>4 DEF doReachedPoint
  <1>8. CASE doSearch
    <2>1. backoff' = FALSE /\ UNCHANGED current_search
      BY <1>8 DEF doSearch
    <2>2. CASE current_search # None /\ Emits(Load(current_search)) /\ UNCHANGED pc
      <3>1. Load(current_search) \in Events /\ Load(current_search).kind = "load"
            /\ Load(current_search).search = current_search
        BY <2>2 DEF Load, Events, Types
      <3>2. smm_events' \in Seq(Events) /\ Answered'
        BY <2>1, <2>2, <3>1, Reports DEF Settles
      <3>3. Types'
        BY <1>1, <1>2, <2>1, <2>2, <3>2 DEF Types
      <3> QED BY <1>2, <3>2, <3>3 DEF Served
    <2>3. CASE pc' = "acquire" /\ UNCHANGED smm_events
      <3>1. Types'
        BY <1>1, <1>2, <2>1, <2>3 DEF Types
      <3>2. Asked'
        BY <2>1, <2>3 DEF Asked
      <3> QED BY <1>2, <3>1, <3>2 DEF Served
    <2> QED BY <1>8, <2>2, <2>3 DEF doSearch
  <1> QED BY <1>4, <1>5, <1>6, <1>7, <1>8

\* An acquisition goes on, reports an outcome, or finds the role revoked or the
\* backoff running.
LEMMA AcquireKeeps ==
  ASSUME IInv, BeginAcquire \/ Fetched \/ CheckCandidate \/ Accepted \/ Refused
  PROVE  IInv'
  <1> USE DEF IInv
  <1>1. /\ UNCHANGED <<machineVars, loaded, task_queue>>
    BY DEF BeginAcquire, Fetched, CheckCandidate, Accepted, Refused, Acquiring
  <1>2. MachineTypes' /\ RoleGranted' /\ SearchFlownOnlyWhileSearching' /\ loaded' \in Searches \cup {None}
        /\ FMU!isSearching' = FMU!isSearching /\ (FMU!isSearching => search_active)
    BY <1>1, Apart
  <1>3. ASSUME Abort, ~search_active \/ (pc = "acquire" /\ backoff) PROVE IInv'
    <2>1. Types'
      BY <1>1, <1>2, <1>3 DEF Types, Abort, Return
    <2>2. FMU!isSearching => Asked' \/ Answered'
      BY <1>1, <1>2, <1>3 DEF Served, Asked, Answered, Abort, Return
    <2> QED BY <1>2, <2>1, <2>2 DEF Served
  <1>4. ASSUME GiveUp PROVE IInv'
    <2>1. Outcome("rtl") \in Events /\ Outcome("rtl").kind = "rtl"
      BY DEF Outcome, Events
    <2>2. smm_events' \in Seq(Events) /\ Answered'
      BY <1>4, <2>1, Reports DEF Settles, GiveUp
    <2>3. Types'
      BY <1>1, <1>2, <1>4, <2>2 DEF Types, GiveUp, Return
    <2> QED BY <1>2, <2>2, <2>3 DEF Served
  <1>5. ASSUME UNCHANGED <<current_search, backoff, smm_events>>, pc' \in {"fetch", "check", "accept", "refused"},
               pc' # "fetch" => candidate' \in Searches
        PROVE  IInv'
    <2>1. Types'
      BY <1>1, <1>2, <1>5 DEF Types
    <2>2. Asked'
      BY <1>5 DEF Asked
    <2> QED BY <1>2, <2>1, <2>2 DEF Served
  <1>6. CASE BeginAcquire
    BY <1>3, <1>4, <1>5, <1>6 DEF BeginAcquire, Acquiring, GoesOn, search_acquire_action
  <1>7. CASE Fetched
    BY <1>3, <1>4, <1>5, <1>7 DEF Fetched, GoesOn
  <1>8. CASE CheckCandidate
    BY <1>5, <1>8 DEF CheckCandidate, Acquiring, GoesOn, Types
  <1>9. CASE Accepted
    <2>1. candidate \in Searches
      BY <1>9 DEF Accepted, Acquiring, Types
    <2>2. CASE current_search' = candidate /\ Emits(Load(candidate)) /\ backoff' = FALSE /\ Return
      <3>1. Load(candidate) \in Events /\ Load(candidate).kind = "load" /\ Load(candidate).search = candidate
        BY <2>1 DEF Load, Events
      <3>2. smm_events' \in Seq(Events) /\ Answered'
        BY <2>2, <3>1, Reports DEF Settles
      <3>3. Types'
        BY <1>1, <1>2, <2>1, <2>2, <3>2 DEF Types, Return
      <3> QED BY <1>2, <3>2, <3>3 DEF Served
    <2>3. CASE GoesOn("refused") /\ UNCHANGED candidate
      BY <1>5, <2>1, <2>3 DEF GoesOn
    <2> QED BY <1>9, <2>2, <2>3 DEF Accepted
  <1>10. CASE Refused
    BY <1>3, <1>4, <1>5, <1>10 DEF Refused
  <1> QED BY <1>6, <1>7, <1>8, <1>9, <1>10

\* The timer and the server's operator change nothing the argument depends on,
\* but for a backoff that ends.
LEMMA OutsideKeeps == ASSUME IInv, BackoffOver \/ OperatorActs PROVE IInv'
  <1>1. /\ UNCHANGED <<machineVars, loaded, task_queue, current_search, acquireVars, smm_events>>
        /\ backoff' \in {backoff, FALSE}
    BY DEF BackoffOver, OperatorActs
  <1>2. Types' /\ RoleGranted' /\ SearchFlownOnlyWhileSearching'
    BY <1>1, Apart DEF IInv, Types, acquireVars
  <1>3. Asked \/ Answered => Asked' \/ Answered'
    BY <1>1 DEF Asked, Answered, acquireVars
  <1> QED BY <1>1, <1>2, <1>3, Apart DEF IInv, Served

LEMMA InitInv == Init => IInv
  <1> SUFFICES ASSUME Init PROVE IInv
    OBVIOUS
  <1>1. ~FMU!isSearching
    BY DEF Init, FMU!Init, FMU!isSearching
  <1>2. <<>> \in Seq(Tasks) /\ <<>> \in Seq(Events) /\ MachineTypes
    <2>1. <<>> \in Seq(Tasks) /\ <<>> \in Seq(Events)
      OBVIOUS
    <2>2. /\ terminated = FALSE /\ low_battery = FALSE /\ fss_comms_lost = TRUE /\ mav_comms_lost = FALSE
          /\ altitude_breach = FALSE /\ search_active = FALSE
      BY Zenon DEF Init, FMU!Init
    <2> QED BY <2>1, <2>2 DEF MachineTypes
  <1>3. Types
    BY <1>2 DEF Init, Types
  <1> QED BY <1>1, <1>3 DEF IInv, RoleGranted, Served, Init, SearchFlownOnlyWhileSearching

-----------------------------------------------------------------------------
(* The theorems.                                                           *)

\* A searching aircraft has always asked the SMM worker for a search, or the
\* newest outcome the worker reported answers for it: whatever interleaving of
\* commands, outcomes, retries and blocking calls led there.
THEOREM SearchConsistent == Spec => []IInv
  <1>1. ASSUME IInv, [Next]_vars PROVE IInv'
    <2>1. CASE reportPosition \/ reachedPoint \/ connect \/ retryPendingSearch
      <3>1. {Task("report"), Task("connect"), Task("retry"), Reached(TRUE), Reached(FALSE)} \subseteq Tasks
        BY DEF Task, Reached, Tasks
      <3>2. PICK task \in Tasks : Submit(task)
        BY <2>1, <3>1 DEF reportPosition, reachedPoint, connect, retryPendingSearch
      <3> QED BY <1>1, <3>2, SubmitKeeps
    <2>2. CASE UNCHANGED vars
      <3>1. UNCHANGED <<machineVars, loaded, task_queue, current_search, backoff, acquireVars, smm_events>>
        BY <2>2 DEF vars
      <3>2. Types' /\ RoleGranted' /\ SearchFlownOnlyWhileSearching'
        BY <1>1, <3>1, Apart DEF IInv, Types, acquireVars
      <3> QED BY <1>1, <3>1, <3>2, Apart DEF IInv, Served, Asked, Answered, acquireVars
    <2> QED BY <1>1, <2>1, <2>2, DispatchKeeps, InputKeeps, TaskKeeps, AcquireKeeps, OutsideKeeps DEF Next, Worker
  <1> QED BY <1>1, InitInv, PTL DEF Spec

\* The autopilot never flies a search in another state: EventDispatcher drops a
\* search that SMM reports after a command took over.
THEOREM SearchesWhileSearching == Spec => []SearchFlownOnlyWhileSearching
  BY SearchConsistent, PTL DEF IInv

\* When the worker is idle and both queues are empty, a searching aircraft flies
\* the search SMM holds: no path of tryAcquireSearch, doSearch or the dispatcher
\* loses an outcome while the machine still waits for it.
THEOREM QuietSearchFlies == Spec => []QuietSearchIsFlown
  <1>1. IInv => QuietSearchIsFlown
    <2> SUFFICES ASSUME IInv, Quiet, FMU!isSearching PROVE current_search # None /\ loaded = current_search
      BY DEF QuietSearchIsFlown
    <2>1. DOMAIN smm_events = {} /\ DOMAIN task_queue = {}
      BY DEF Quiet
    <2>2. ~Asked
      BY <2>1 DEF Asked, HasSearch, Quiet
    <2> QED BY <2>1, <2>2 DEF IInv, Served, Answered
  <1> QED BY <1>1, SearchConsistent, PTL
=============================================================================
