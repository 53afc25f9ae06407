------------------------ MODULE SearchProgressProofs ------------------------
(***************************************************************************)
(* That no point of a search is skipped, for searches of any number and    *)
(* size.  The point a search resumes at, the item the autopilot flies to   *)
(* and every reached item under way claim that the points before them were *)
(* flown; the inductive invariant says each of these claims is covered, as *)
(* long as the held search took no item of another mission.                *)
(***************************************************************************)
EXTENDS SearchProgress, TLAPS

\* The first n points of the search are flown, if it is the one held.
Covered(from, n) ==
  held # None /\ ~tainted /\ from = held => \A k \in Nat : k < n /\ k < size[held] => k \in flown

CoveredReached == {r \in ReachedRecords : r.from <= issued /\ Covered(r.from, r.point)}
CoveredEvents == [kind : {"load"}, search : 1 .. issued] \cup [kind : {"rtl", "abandon"}] \cup CoveredReached
CoveredTasks == [kind : {"search"}] \cup CoveredReached
CoveredItems ==
  {m \in [seq : 0 .. SeqLimit - 1, from : Searches \cup {None}] : m.from <= issued /\ Covered(m.from, m.seq - 1)}

IInv ==
  /\ TypeOK
  /\ events \in Seq(CoveredEvents) /\ tasks \in Seq(CoveredTasks) /\ link \in Seq(CoveredItems)
  /\ mission.of <= issued /\ Covered(mission.of, current - 2)
  /\ Covered(held, point[held])
  /\ \A s \in Searches : issued < s => point[s] = 0
-----------------------------------------------------------------------------
(* Lemmas.                                                                 *)

\* A search has a waypoint and its mission fits the sequence numbers (isValid,
\* uploadSearch).
LEMMA SizesFit == \A n \in Sizes : n \in Nat /\ 0 < n /\ n + 3 < SeqLimit
  BY ProgressAssumption

\* A number below the limit survives the conversion to a sequence number.
LEMMA ModSmall ==
  ASSUME NEW a \in Nat, NEW m \in Nat, a < m
  PROVE a % m = a
  BY SMT

\* MISSION_COUNT is not truncated (mission_count_for).
LEMMA Counts ==
  /\ \A n \in Sizes : MissionCount(n, "search") = n + 3
  /\ MissionCount(0, "goto") = 3
  <1>1. ASSUME NEW n \in Sizes PROVE MissionCount(n, "search") = n + 3
    <2>1. n + 3 \in Nat /\ n + 3 < SeqLimit /\ SeqLimit \in Nat
      BY SizesFit, ProgressAssumption
    <2>2. (n + 3) % SeqLimit = n + 3
      BY <2>1, ModSmall
    <2> QED BY <2>2 DEF MissionCount, mission_count_for
  <1>2. MissionCount(0, "goto") = 3
    <2>1. 3 % SeqLimit = 3
      BY ProgressAssumption, ModSmall
    <2> QED BY <2>1 DEF MissionCount, mission_count_for
  <1> QED BY <1>1, <1>2

\* Sequences of more elements (the queues).
LEMMA SeqMono ==
  ASSUME NEW S, NEW T, S \subseteq T
  PROVE Seq(S) \subseteq Seq(T)
  OBVIOUS

\* What the autopilot's mission can be, and how long (mission_count_for).
LEMMA MissionLength ==
  ASSUME TypeOK
  PROVE \/ /\ mission.mode = "search" /\ mission.of \in Searches /\ size[mission.of] \in Sizes
           /\ SizeOf(mission) = size[mission.of]
           /\ MissionCount(SizeOf(mission), mission.mode) = size[mission.of] + 3
        \/ /\ mission.mode = "goto" /\ mission.of = None
           /\ MissionCount(SizeOf(mission), mission.mode) = 3
  <1>1. size \in [Searches -> Sizes]
    BY DEF TypeOK
  <1>2. CASE mission \in [mode : {"search"}, of : Searches]
    <2>1. mission.mode = "search" /\ mission.of \in Searches
      BY <1>2
    <2>2. SizeOf(mission) = size[mission.of] /\ size[mission.of] \in Sizes
      BY <2>1, <1>1 DEF SizeOf
    <2> QED BY <2>1, <2>2, Counts
  <1>3. CASE mission \in [mode : {"goto"}, of : {None}]
    BY <1>3, Counts DEF SizeOf
  <1> QED BY <1>2, <1>3 DEF TypeOK

\* What an element of TypeOK is used for below.
LEMMA Typed ==
  ASSUME TypeOK
  PROVE /\ issued \in Nat /\ held \in Nat /\ search \in Nat /\ current \in Nat
        /\ held <= issued /\ search <= issued /\ issued <= MaxSearches /\ MaxSearches \in Nat
        /\ \A s \in Searches : size[s] \in Sizes /\ size[s] \in Nat /\ point[s] \in Nat
                              /\ 0 < size[s] /\ size[s] + 3 < SeqLimit /\ point[s] < size[s]
        /\ SeqLimit \in Nat
  <1>1. MissionCount(SizeOf(mission), mission.mode) \in Nat
    BY SizesFit, MissionLength
  <1>2. current \in Nat
    <2>1. current \in 0 .. MissionCount(SizeOf(mission), mission.mode)
      BY DEF TypeOK
    <2> QED BY <1>1, <2>1
  <1>3. issued \in 0 .. MaxSearches /\ held \in 0 .. issued /\ search \in 0 .. issued
    BY DEF TypeOK
  <1>4. ASSUME NEW s \in Searches
        PROVE  /\ size[s] \in Sizes /\ size[s] \in Nat /\ point[s] \in Nat
               /\ 0 < size[s] /\ size[s] + 3 < SeqLimit /\ point[s] < size[s]
    <2>1. size[s] \in Sizes /\ point[s] \in Nat /\ point[s] < size[s]
      BY DEF TypeOK
    <2> QED BY <2>1, SizesFit
  <1>5. /\ issued \in Nat /\ held \in Nat /\ search \in Nat
        /\ held <= issued /\ search <= issued /\ issued <= MaxSearches
    BY <1>3, ProgressAssumption
  <1> QED BY <1>2, <1>4, <1>5, ProgressAssumption

\* No step uncovers a point: the points flown of the held search only grow, and
\* a search that comes to be held has nothing under way yet (publishSearch).
LEMMA CoverageKept ==
  ASSUME IInv, [Next]_vars
  PROVE /\ issued' \in Nat /\ issued <= issued'
        /\ \A from \in 0 .. issued : \A n \in Int : Covered(from, n) => Covered(from, n)'
  <1> USE DEF IInv
  <1>t. issued \in Nat /\ held \in 0 .. issued
    BY DEF TypeOK
  <1>same. ASSUME UNCHANGED <<held, size, issued, flown, tainted>>
           PROVE  /\ issued' \in Nat /\ issued <= issued'
                  /\ \A from \in 0 .. issued : \A n \in Int : Covered(from, n) => Covered(from, n)'
    BY <1>same, <1>t DEF Covered
  <1>new. ASSUME NEW s \in {None, issued + 1}, publishSearch(s), issued' \in {issued, issued + 1}
          PROVE  /\ issued' \in Nat /\ issued <= issued'
                 /\ \A from \in 0 .. issued : \A n \in Int : Covered(from, n) => Covered(from, n)'
    BY <1>new, <1>t DEF Covered, publishSearch, None
  <1>acquire. ASSUME tryAcquireSearch
              PROVE  /\ issued' \in Nat /\ issued <= issued'
                     /\ \A from \in 0 .. issued : \A n \in Int : Covered(from, n) => Covered(from, n)'
    <2>1. CASE UNCHANGED searchVars
      BY <2>1, <1>same DEF searchVars
    <2>2. CASE issued' = issued + 1 /\ publishSearch(issued + 1)
      BY <2>2, <1>new
    <2> QED BY <2>1, <2>2, <1>acquire DEF tryAcquireSearch
  <1>1. ASSUME NEW f \in {"continue", "hold", "goto"}, FSSNewCommand(f)
        PROVE  UNCHANGED <<held, size, issued, flown, tainted>>
    BY <1>1 DEF FSSNewCommand, searchVars
  <1>2. CASE Dispatch
    BY <1>2, <1>same DEF Dispatch, DispatchLoadSearch, DispatchSmmCommand, DispatchReachedPoint, Dispatches, searchVars
  <1>3. CASE doSearch
    <2>1. CASE UNCHANGED searchVars
      BY <2>1, <1>same DEF searchVars
    <2> QED BY <2>1, <1>3, <1>acquire DEF doSearch
  <1>4. CASE doReachedPoint
    <2>1. CASE publishSearch(None) /\ UNCHANGED issued
      BY <2>1, <1>new
    <2>2. CASE MovesTo(Head(tasks).point) /\ UNCHANGED <<size, issued>>
      <3>1. (~tainted' => ~tainted) /\ UNCHANGED <<held, size, issued, flown>>
        BY <2>2, Zenon DEF MovesTo
      <3> QED BY <3>1, <1>t DEF Covered
    <2>3. CASE UNCHANGED searchVars
      BY <2>3, <1>same DEF searchVars
    <2> QED BY <2>1, <2>2, <2>3, <1>4 DEF doReachedPoint
  <1>5. CASE report_reached \/ mission_ack
    BY <1>5, <1>same DEF report_reached, mission_ack, searchVars
  <1>6. CASE ReachItem
    <2>1. flown \subseteq flown' /\ UNCHANGED <<held, size, issued, tainted>>
      BY <1>6 DEF ReachItem
    <2> QED BY <2>1, <1>t DEF Covered
  <1>7. CASE maybeAcquire
    BY <1>7, <1>acquire DEF maybeAcquire
  <1>8. CASE checkOperatorCommand
    <2>1. CASE publishSearch(None) /\ UNCHANGED issued
      BY <2>1, <1>new
    <2>2. CASE UNCHANGED <<held, size, issued, flown, tainted>>
      BY <2>2, <1>same
    <2> QED BY <2>1, <2>2, <1>8 DEF checkOperatorCommand
  <1>9. CASE UNCHANGED vars
    BY <1>9, <1>same DEF vars, searchVars
  <1> QED BY <1>1, <1>same, <1>2, <1>3, <1>4, <1>5, <1>6, <1>7, <1>8, <1>9 DEF Next, Worker

\* So what may be queued or under way only grows.
LEMMA SetsGrow ==
  ASSUME IInv, [Next]_vars
  PROVE /\ CoveredReached \subseteq CoveredReached' /\ CoveredEvents \subseteq CoveredEvents'
        /\ CoveredTasks \subseteq CoveredTasks' /\ CoveredItems \subseteq CoveredItems'
  <1>1. issued \in Nat
    BY DEF IInv, TypeOK
  <1>2. /\ issued' \in Nat /\ issued <= issued'
        /\ \A from \in 0 .. issued : \A n \in Int : Covered(from, n) => Covered(from, n)'
    BY CoverageKept
  <1>3. ASSUME NEW r \in CoveredReached PROVE r \in CoveredReached'
    <2>1. r \in ReachedRecords /\ r.from <= issued /\ Covered(r.from, r.point)
      BY DEF CoveredReached
    <2>2. r.from \in 0 .. issued /\ r.point \in Int
      BY <2>1, <1>1, ProgressAssumption DEF ReachedRecords, Searches, None
    <2>3. Covered(r.from, r.point)' /\ r.from <= issued'
      BY <2>1, <2>2, <1>1, <1>2
    <2> QED BY <2>1, <2>3 DEF CoveredReached, ReachedRecords
  <1>4. ASSUME NEW m \in CoveredItems PROVE m \in CoveredItems'
    <2>1. /\ m \in [seq : 0 .. SeqLimit - 1, from : Searches \cup {None}]
          /\ m.from <= issued /\ Covered(m.from, m.seq - 1)
      BY DEF CoveredItems
    <2>2. m.from \in 0 .. issued /\ m.seq - 1 \in Int
      BY <2>1, <1>1, ProgressAssumption DEF Searches, None
    <2>3. Covered(m.from, m.seq - 1)' /\ m.from <= issued'
      BY <2>1, <2>2, <1>1, <1>2
    <2> QED BY <2>1, <2>3 DEF CoveredItems
  <1>5. 1 .. issued \subseteq 1 .. issued'
    BY <1>1, <1>2
  <1>6. CoveredEvents \subseteq CoveredEvents'
    BY <1>3, <1>5 DEF CoveredEvents
  <1> QED BY <1>3, <1>4, <1>6 DEF CoveredTasks

\* The item the autopilot has reached counts among the flown points
\* (mission_item_for: item k + 2 of a search mission is its point k).
LEMMA ReachCovers ==
  ASSUME IInv, ReachItem, NEW o, o = mission.of, NEW c, c = current
  PROVE Covered(o, c - 1)'
  <1>1. /\ current \in Nat /\ current' = current + 1 /\ held \in Nat
        /\ UNCHANGED <<mission, held, size, tainted>> /\ flown \subseteq flown'
    BY Typed DEF IInv, ReachItem
  <1>2. ASSUME held # None, ~tainted, mission.of = held, NEW k \in Nat, k < current - 1, k < size[held]
        PROVE  k \in flown'
    <2>1. Covered(mission.of, current - 2)
      BY DEF IInv
    <2>2. CASE k < current - 2
      BY <2>1, <2>2, <1>1, <1>2 DEF Covered
    <2>3. CASE k = current - 2
      <3>1. mission.mode = "search" /\ held \in Searches
        BY <1>2 DEF IInv, TypeOK, None
      <3>2. size[held] \in Nat
        BY <3>1, Typed DEF IInv
      <3>3. SizeOf(mission) = size[held]
        BY <3>1, <1>2 DEF SizeOf
      <3>4. ItemAt(mission, current) = mission_item_for(current, size[held], "search")
        BY <3>1, <3>3 DEF ItemAt
      <3>5. mission_item_for(current, size[held], "search") = [kind |-> "search_point", point_index |-> current - 2]
        BY <2>3, <1>1, <1>2, <3>2 DEF mission_item_for
      <3>6. ItemAt(mission, current).kind = "search_point" /\ ItemAt(mission, current).point_index = k
        BY <3>4, <3>5, <2>3
      <3> QED BY <3>6, <1>2 DEF ReachItem
    <2> QED BY <2>2, <2>3, <1>1, <1>2
  <1> QED BY <1>1, <1>2 DEF Covered

\* The queues between the threads keep covered elements only.
LEMMA QueuesKept ==
  ASSUME IInv, [Next]_vars
  PROVE /\ events' \in Seq(CoveredEvents') /\ tasks' \in Seq(CoveredTasks') /\ link' \in Seq(CoveredItems')
  <1> DEFINE E == CoveredEvents'
             T == CoveredTasks'
             L == CoveredItems'
             R == CoveredReached'
  <1>g. events \in Seq(E) /\ tasks \in Seq(T) /\ link \in Seq(L)
    <2>1. events \in Seq(CoveredEvents) /\ tasks \in Seq(CoveredTasks) /\ link \in Seq(CoveredItems)
      BY DEF IInv
    <2>2. CoveredEvents \subseteq E /\ CoveredTasks \subseteq T /\ CoveredItems \subseteq L
      BY SetsGrow
    <2>3. Seq(CoveredEvents) \subseteq Seq(E) /\ Seq(CoveredTasks) \subseteq Seq(T) /\ Seq(CoveredItems) \subseteq Seq(L)
      BY <2>2, SeqMono
    <2> QED BY <2>1, <2>3
  <1>k. /\ [kind |-> "rtl"] \in E /\ [kind |-> "abandon"] \in E
        /\ [kind |-> "search"] \in T /\ R \subseteq T /\ R \subseteq E
        /\ \A s \in 1 .. issued' : Load(s) \in E
    BY DEF CoveredEvents, CoveredTasks, Load
  <1>t. /\ issued \in Nat /\ issued' \in Nat /\ issued <= issued' /\ held \in 0 .. issued
        /\ \A from \in 0 .. issued : \A n \in Int : Covered(from, n) => Covered(from, n)'
    BY CoverageKept DEF IInv, TypeOK
  <1>acquire. ASSUME tryAcquireSearch PROVE events' \in Seq(E)
    <2>1. CASE issued' = issued + 1 /\ Emits(Load(issued + 1))
      <3>1. Load(issued + 1) \in E
        BY <2>1, <1>k, <1>t
      <3> QED BY <3>1, <2>1, <1>g DEF Emits
    <2>2. CASE Emits([kind |-> "rtl"])
      BY <2>2, <1>k, <1>g DEF Emits
    <2>3. CASE UNCHANGED events
      BY <2>3, <1>g
    <2> QED BY <2>1, <2>2, <2>3, <1>acquire DEF tryAcquireSearch
  <1> SUFFICES events' \in Seq(E) /\ tasks' \in Seq(T) /\ link' \in Seq(L)
    OBVIOUS
  <1> HIDE DEF E, T, L, R
  <1>u. ASSUME UNCHANGED events PROVE events' \in Seq(E)
    BY <1>u, <1>g
  <1>v. ASSUME UNCHANGED tasks PROVE tasks' \in Seq(T)
    BY <1>v, <1>g
  <1>w. ASSUME UNCHANGED link PROVE link' \in Seq(L)
    BY <1>w, <1>g
  <1>tail. ASSUME NEW S, NEW q \in Seq(S), q # <<>>
           PROVE  Tail(q) \in Seq(S) /\ Head(q) \in S
    BY <1>tail
  <1>new. ASSUME NEW f, NEW c, NewCommand(f, c) PROVE tasks' \in Seq(T)
    <2>1. CASE UNCHANGED tasks
      BY <2>1, <1>v
    <2>2. CASE tasks' = Append(tasks, [kind |-> "search"])
      BY <2>2, <1>g, <1>k
    <2> QED BY <2>1, <2>2, <1>new DEF NewCommand, actionState
  <1>1. ASSUME NEW f \in {"continue", "hold", "goto"}, FSSNewCommand(f)
        PROVE  events' \in Seq(E) /\ tasks' \in Seq(T) /\ link' \in Seq(L)
    <2>1. NewCommand(f, smm) /\ UNCHANGED <<events, link>>
      BY <1>1 DEF FSSNewCommand
    <2> QED BY <2>1, <1>new, <1>u, <1>w
  <1>2. CASE Dispatch
    <2>1. events # <<>> /\ events' = Tail(events) /\ UNCHANGED link
      BY <1>2 DEF Dispatch, DispatchLoadSearch, DispatchSmmCommand, DispatchReachedPoint, Dispatches
    <2>2. events' \in Seq(E) /\ link' \in Seq(L)
      BY <2>1, <1>tail, <1>g, <1>w
    <2>3. CASE DispatchLoadSearch \/ DispatchSmmCommand
      BY <2>3, <2>2, <1>new, <1>v DEF DispatchLoadSearch, DispatchSmmCommand, SMMNewCommand
    <2>4. CASE DispatchReachedPoint
      <3>1. Head(events) \in E /\ Head(events).kind = "reached"
        BY <2>1, <2>4, <1>tail, <1>g DEF DispatchReachedPoint, Dispatches
      <3>2. Head(events) \in R
        BY <3>1 DEF E, R, CoveredEvents
      <3>3. CASE UNCHANGED tasks
        BY <3>3, <2>2, <1>v
      <3>4. CASE tasks' = Append(tasks, Head(events))
        BY <3>4, <3>2, <2>2, <1>g, <1>k
      <3> QED BY <3>3, <3>4, <2>4 DEF DispatchReachedPoint
    <2> QED BY <2>3, <2>4, <1>2 DEF Dispatch
  <1>3. CASE Worker
    <2>1. tasks # <<>> /\ tasks' = Tail(tasks) /\ UNCHANGED link
      BY <1>3 DEF Worker, doSearch, doReachedPoint, Takes, Working
    <2>2. tasks' \in Seq(T) /\ link' \in Seq(L)
      BY <2>1, <1>tail, <1>g, <1>w
    <2>3. CASE doSearch
      <3>1. CASE held # None /\ Emits(Load(held))
        <4>1. Load(held) \in E
          BY <3>1, <1>k, <1>t DEF None
        <4> QED BY <4>1, <3>1, <2>2, <1>g DEF Emits
      <3> QED BY <3>1, <2>2, <2>3, <1>acquire DEF doSearch
    <2>4. CASE doReachedPoint
      <3>1. CASE Emits([kind |-> "rtl"])
        BY <3>1, <2>2, <1>g, <1>k DEF Emits
      <3>2. CASE UNCHANGED events
        BY <3>2, <2>2, <1>u
      <3> QED BY <3>1, <3>2, <2>4 DEF doReachedPoint, MovesTo
    <2> QED BY <2>3, <2>4, <1>3 DEF Worker
  <1>4. CASE report_reached
    <2>1. link # <<>> /\ link' = Tail(link) /\ UNCHANGED tasks
      BY <1>4 DEF report_reached
    <2>2. tasks' \in Seq(T) /\ link' \in Seq(L)
      BY <2>1, <1>tail, <1>g, <1>v
    <2>3. Head(link) \in CoveredItems
      BY <2>1 DEF IInv
    <2>4. CASE UNCHANGED events
      BY <2>4, <2>2, <1>u
    <2>5. CASE /\ Head(link).seq >= search_first_point_seq
               /\ events' = Append(events, Reached(Head(link).seq - 1, Head(link).from))
      <3>1. PICK q, o : q = Head(link).seq /\ o = Head(link).from
        OBVIOUS
      <3>2. /\ q \in 0 .. SeqLimit - 1 /\ o \in Searches \cup {None}
            /\ o <= issued /\ Covered(o, q - 1)
        BY <2>3, <3>1 DEF CoveredItems
      <3>3. o \in 0 .. issued /\ q - 1 \in 1 .. SeqLimit
        BY <3>1, <3>2, <2>5, <1>t, ProgressAssumption DEF Searches, None, search_first_point_seq
      <3>4. Covered(o, q - 1)' /\ o <= issued'
        <4>1. q - 1 \in Int
          BY <3>3
        <4> QED BY <4>1, <3>2, <3>3, <1>t
      <3>5. Reached(q - 1, o) \in R
        BY <3>2, <3>3, <3>4 DEF Reached, R, CoveredReached, ReachedRecords
      <3>6. Reached(q - 1, o) \in E
        BY <3>5, <1>k
      <3>7. events' = Append(events, Reached(q - 1, o))
        BY <3>1, <2>5
      <3> QED BY <3>6, <3>7, <2>2, <1>g
    <2>6. Head(link).seq \in Int
      BY <2>3, ProgressAssumption DEF CoveredItems
    <2>7. next_search_point_after_reached_seq(Head(link).seq) = Head(link).seq - 1
      BY <2>6 DEF next_search_point_after_reached_seq, search_first_point_seq
    <2> QED BY <2>4, <2>5, <2>7, <1>4 DEF report_reached
  <1>5. CASE mission_ack
    BY <1>5, <1>u, <1>v, <1>w DEF mission_ack
  <1>6. CASE ReachItem
    <2>1. UNCHANGED <<events, tasks>>
      BY <1>6 DEF ReachItem
    <2>2. CASE UNCHANGED link
      BY <2>1, <2>2, <1>u, <1>v, <1>w
    <2>3. CASE link' = Append(link, [seq |-> current, from |-> mission.of])
      <3>1. PICK o, c : o = mission.of /\ c = current
        OBVIOUS
      <3>2. Covered(o, c - 1)' /\ UNCHANGED issued
        BY <3>1, <1>6, ReachCovers DEF ReachItem
      <3>3. o \in Searches \cup {None} /\ o <= issued /\ c \in 0 .. SeqLimit - 1
        <4>1. mission.of \in Searches \cup {None} /\ mission.of <= issued
          BY DEF IInv, TypeOK, None
        <4>2. current \in Nat /\ current < MissionCount(SizeOf(mission), mission.mode)
          BY <1>6, Typed DEF ReachItem, IInv
        <4>3. MissionCount(SizeOf(mission), mission.mode) \in 0 .. SeqLimit - 1
          <5>1. TypeOK
            BY DEF IInv
          <5>2. CASE size[mission.of] \in Sizes /\ MissionCount(SizeOf(mission), mission.mode) = size[mission.of] + 3
            <6>1. PICK n \in Sizes : n = size[mission.of]
              BY <5>2
            <6>2. n \in Nat /\ n + 3 < SeqLimit
              BY SizesFit
            <6> QED BY <6>1, <6>2, <5>2, ProgressAssumption
          <5>3. CASE MissionCount(SizeOf(mission), mission.mode) = 3
            BY <5>3, ProgressAssumption
          <5> QED BY <5>1, <5>2, <5>3, MissionLength
        <4> QED BY <3>1, <4>1, <4>2, <4>3, ProgressAssumption
      <3>4. [seq |-> c, from |-> o] \in L
        BY <3>2, <3>3 DEF L, CoveredItems
      <3>5. link' = Append(link, [seq |-> c, from |-> o])
        BY <3>1, <2>3
      <3>6. link' \in Seq(L)
        BY <3>4, <3>5, <1>g
      <3> QED BY <3>6, <2>1, <1>u, <1>v
    <2> QED BY <2>2, <2>3, <1>6 DEF ReachItem
  <1>7. CASE maybeAcquire
    BY <1>7, <1>acquire, <1>v, <1>w DEF maybeAcquire, Working
  <1>8. CASE checkOperatorCommand
    <2>1. UNCHANGED <<tasks, link>>
      BY <1>8 DEF checkOperatorCommand, Working
    <2>2. PICK e \in {[kind |-> "abandon"], [kind |-> "rtl"]} : events' = Append(events, e)
      BY <1>8 DEF checkOperatorCommand, Emits
    <2>3. events' \in Seq(E)
      BY <2>2, <1>g, <1>k
    <2> QED BY <2>1, <2>3, <1>v, <1>w
  <1>9. CASE UNCHANGED vars
    BY <1>9, <1>u, <1>v, <1>w DEF vars
  <1> QED BY <1>1, <1>2, <1>3, <1>4, <1>5, <1>6, <1>7, <1>8, <1>9 DEF Next

\* The point of the held search stays covered, and no point below that of a
\* search comes up before it is acquired (SMMSearch::reachedPoint).
LEMMA PointsKept ==
  ASSUME IInv, [Next]_vars
  PROVE /\ Covered(held, point[held])'
        /\ size' \in [Searches -> Sizes] /\ point' \in [Searches -> Nat]
        /\ \A s \in Searches : point'[s] < size'[s] /\ (issued' < s => point'[s] = 0)
        /\ issued' \in 0 .. MaxSearches /\ held' \in 0 .. issued'
  <1> DEFINE Goal == /\ Covered(held, point[held])'
                     /\ size' \in [Searches -> Sizes] /\ point' \in [Searches -> Nat]
                     /\ \A s \in Searches : point'[s] < size'[s] /\ (issued' < s => point'[s] = 0)
                     /\ issued' \in 0 .. MaxSearches /\ held' \in 0 .. issued'
  <1> SUFFICES Goal
    OBVIOUS
  <1>t. /\ issued \in 0 .. MaxSearches /\ held \in 0 .. issued
        /\ size \in [Searches -> Sizes] /\ point \in [Searches -> Nat]
        /\ \A s \in Searches : point[s] < size[s] /\ (issued < s => point[s] = 0)
        /\ Covered(held, point[held])
    BY DEF IInv, TypeOK
  <1>same. ASSUME UNCHANGED <<held, point, size, issued>> PROVE Goal
    <2>1. Covered(held, point[held])'
      <3>1. CASE held = None
        BY <3>1, <1>same DEF Covered
      <3>2. CASE held # None
        <4>1. held \in Searches /\ point[held] \in Int /\ held \in 0 .. issued
          BY <3>2, <1>t, ProgressAssumption DEF Searches, None
        <4>2. PICK h, p : h = held /\ p = point[held]
          OBVIOUS
        <4>3. Covered(h, p)'
          BY <4>1, <4>2, <1>t, CoverageKept
        <4>4. held' = h /\ (point[held])' = p
          BY <4>2, <1>same
        <4> QED BY <4>3, <4>4 DEF Covered
      <3> QED BY <3>1, <3>2
    <2> QED BY <2>1, <1>same, <1>t
  <1>drop. ASSUME publishSearch(None), UNCHANGED <<point, size, issued>> PROVE Goal
    <2>1. Covered(held, point[held])'
      BY <1>drop DEF Covered, publishSearch
    <2> QED BY <2>1, <1>drop, <1>t, ProgressAssumption DEF publishSearch, None
  <1>acquire. ASSUME tryAcquireSearch PROVE Goal
    <2>1. CASE UNCHANGED searchVars
      BY <2>1, <1>same DEF searchVars
    <2>2. CASE /\ issued < MaxSearches /\ issued' = issued + 1 /\ publishSearch(issued + 1) /\ UNCHANGED point
               /\ \E n \in Sizes : size' = [size EXCEPT ![issued + 1] = n]
      <3>1. PICK n \in Sizes : size' = [size EXCEPT ![issued + 1] = n]
        BY <2>2
      <3>2. issued + 1 \in Searches /\ issued + 1 \in Nat /\ point[issued + 1] = 0 /\ n \in Nat /\ 0 < n
        BY <2>2, <1>t, SizesFit, ProgressAssumption DEF Searches
      <3>3. Covered(held, point[held])'
        <4>1. held' = issued + 1 /\ point'[held'] = 0
          BY <2>2, <3>2 DEF publishSearch
        <4> QED BY <4>1 DEF Covered
      <3>4. size' \in [Searches -> Sizes] /\ point' \in [Searches -> Nat]
        BY <3>1, <2>2, <1>t
      <3>5. ASSUME NEW s \in Searches PROVE point'[s] < size'[s] /\ (issued' < s => point'[s] = 0)
        BY <3>1, <3>2, <2>2, <1>t, ProgressAssumption DEF Searches
      <3>6. issued' \in 0 .. MaxSearches /\ held' \in 0 .. issued'
        BY <2>2, <1>t, ProgressAssumption DEF publishSearch
      <3> QED BY <3>3, <3>4, <3>5, <3>6
    <2> QED BY <2>1, <2>2, <1>acquire DEF tryAcquireSearch
  <1>1. ASSUME NEW f \in {"continue", "hold", "goto"}, FSSNewCommand(f)
        PROVE  UNCHANGED <<held, point, size, issued>>
    BY <1>1 DEF FSSNewCommand, searchVars
  <1>2. CASE Dispatch
    BY <1>2, <1>same DEF Dispatch, DispatchLoadSearch, DispatchSmmCommand, DispatchReachedPoint, Dispatches, searchVars
  <1>3. CASE doSearch
    <2>1. CASE UNCHANGED searchVars
      BY <2>1, <1>same DEF searchVars
    <2> QED BY <2>1, <1>3, <1>acquire DEF doSearch
  <1>4. CASE doReachedPoint
    <2>1. CASE publishSearch(None) /\ UNCHANGED <<point, size, issued>>
      BY <2>1, <1>drop
    <2>2. CASE UNCHANGED searchVars
      BY <2>2, <1>same DEF searchVars
    <2>3. CASE /\ held # None /\ Head(tasks).point < size[held] /\ MovesTo(Head(tasks).point)
               /\ UNCHANGED <<size, issued>>
      <3>1. Head(tasks) \in CoveredReached
        <4>1. tasks \in Seq(CoveredTasks) /\ tasks # <<>> /\ Head(tasks).kind = "reached"
          BY <1>4 DEF doReachedPoint, Takes, IInv
        <4>2. Head(tasks) \in CoveredTasks
          BY <4>1
        <4> QED BY <4>1, <4>2 DEF CoveredTasks
      <3>2. PICK p, o : p = Head(tasks).point /\ o = Head(tasks).from
        OBVIOUS
      <3>3. p \in 1 .. SeqLimit /\ Covered(o, p)
        BY <3>1, <3>2 DEF CoveredReached, ReachedRecords
      <3>4. p \in Nat /\ held \in Searches
        BY <3>3, <2>3, <1>t, ProgressAssumption DEF Searches, None
      <3>5. point' = [point EXCEPT ![held] = p] /\ UNCHANGED <<held, flown>>
        BY <2>3, <3>2 DEF MovesTo
      <3>6. point'[held] = p
        BY <3>4, <3>5, <1>t
      <3>7. ~tainted' => ~tainted /\ o = held
        BY <2>3, <3>2, Zenon DEF MovesTo
      <3>8. Covered(held, point[held])'
        BY <3>3, <3>5, <3>6, <3>7, <2>3 DEF Covered
      <3>9. ASSUME NEW s \in Searches PROVE point'[s] < size'[s] /\ (issued' < s => point'[s] = 0)
        BY <3>2, <3>4, <3>5, <2>3, <1>t, ProgressAssumption DEF Searches
      <3>10. point' \in [Searches -> Nat]
        BY <3>4, <3>5, <1>t
      <3> QED BY <3>5, <3>8, <3>9, <3>10, <2>3, <1>t
    <2> QED BY <2>1, <2>2, <2>3, <1>4 DEF doReachedPoint
  <1>5. CASE report_reached \/ mission_ack
    BY <1>5, <1>same DEF report_reached, mission_ack, searchVars
  <1>6. CASE ReachItem
    BY <1>6, <1>same DEF ReachItem
  <1>7. CASE maybeAcquire
    BY <1>7, <1>acquire DEF maybeAcquire
  <1>8. CASE checkOperatorCommand
    BY <1>8, <1>same, <1>drop DEF checkOperatorCommand
  <1>9. CASE UNCHANGED vars
    BY <1>9, <1>same DEF vars, searchVars
  <1> HIDE DEF Goal
  <1> QED BY <1>1, <1>same, <1>2, <1>3, <1>4, <1>5, <1>6, <1>7, <1>8, <1>9 DEF Next, Worker

\* A search keeps its waypoints from its acquisition on (tryAcquireSearch).
LEMMA SizesKept ==
  ASSUME IInv, [Next]_vars, NEW s \in 1 .. issued
  PROVE size'[s] = size[s]
  <1>1. issued \in Nat /\ s # issued + 1 /\ s \in Searches /\ size \in [Searches -> Sizes]
    BY ProgressAssumption DEF IInv, TypeOK, Searches
  <1>2. CASE UNCHANGED size
    BY <1>2
  <1>3. CASE tryAcquireSearch
    <2>1. CASE \E n \in Sizes : size' = [size EXCEPT ![issued + 1] = n]
      BY <2>1, <1>1
    <2> QED BY <2>1, <1>2, <1>3 DEF tryAcquireSearch, searchVars
  <1>4. tryAcquireSearch \/ UNCHANGED size
    BY DEF Next, vars, searchVars, FSSNewCommand, Dispatch, DispatchLoadSearch, DispatchSmmCommand,
           DispatchReachedPoint, Dispatches, Worker, doSearch, doReachedPoint, report_reached, mission_ack,
           ReachItem, maybeAcquire, checkOperatorCommand
  <1> QED BY <1>2, <1>3, <1>4

\* The autopilot's mission and item stay typed and covered: a search is entered
\* at its current point (mission_ack), the item advances as points are flown.
LEMMA MissionKept ==
  ASSUME IInv, [Next]_vars
  PROVE /\ mission' \in [mode : {"search"}, of : Searches] \cup [mode : {"goto"}, of : {None}]
        /\ current' \in 0 .. MissionCount(SizeOf(mission), mission.mode)'
        /\ mission'.of <= issued' /\ Covered(mission.of, current - 2)'
  <1> DEFINE Goal == /\ mission' \in [mode : {"search"}, of : Searches] \cup [mode : {"goto"}, of : {None}]
                     /\ current' \in 0 .. MissionCount(SizeOf(mission), mission.mode)'
                     /\ mission'.of <= issued' /\ Covered(mission.of, current - 2)'
  <1> SUFFICES Goal
    OBVIOUS
  <1>t. /\ TypeOK /\ issued \in Nat /\ issued' \in Nat /\ issued <= issued' /\ current \in Nat
        /\ mission \in [mode : {"search"}, of : Searches] \cup [mode : {"goto"}, of : {None}]
        /\ current \in 0 .. MissionCount(SizeOf(mission), mission.mode)
        /\ mission.of <= issued /\ mission.of \in 0 .. issued /\ Covered(mission.of, current - 2)
    <2>1. /\ TypeOK /\ mission.of <= issued /\ Covered(mission.of, current - 2)
      BY DEF IInv
    <2>2. issued \in Nat /\ current \in Nat /\ issued' \in Nat /\ issued <= issued'
      BY <2>1, Typed, CoverageKept
    <2>3. mission.of \in Nat
      BY <2>1, MissionLength, ProgressAssumption DEF Searches, None
    <2> QED BY <2>1, <2>2, <2>3 DEF TypeOK
  <1>size. ASSUME UNCHANGED mission
           PROVE  MissionCount(SizeOf(mission), mission.mode)' = MissionCount(SizeOf(mission), mission.mode)
    <2>1. CASE mission.mode = "search" /\ mission.of \in Searches
      <3>1. mission.of \in 1 .. issued
        BY <2>1, <1>t DEF Searches
      <3>2. size'[mission.of] = size[mission.of]
        BY <3>1, SizesKept
      <3> QED BY <3>2, <1>size DEF SizeOf
    <2>2. CASE mission.mode = "goto"
      BY <2>2, <1>size DEF SizeOf
    <2> QED BY <2>1, <2>2, <1>t, MissionLength
  <1>same. ASSUME UNCHANGED <<mission, current>> PROVE Goal
    <2>1. PICK o, c : o = mission.of /\ c = current - 2
      OBVIOUS
    <2>2. Covered(o, c)'
      BY <2>1, <1>t, CoverageKept
    <2>3. (mission.of)' = o /\ (current - 2)' = c
      BY <2>1, <1>same
    <2>4. Covered(mission.of, current - 2)'
      BY <2>2, <2>3 DEF Covered
    <2> QED BY <2>4, <1>same, <1>size, <1>t
  <1>new. ASSUME NEW f, NEW c, NewCommand(f, c) PROVE UNCHANGED <<mission, current>>
    BY <1>new DEF NewCommand, actionState, LeavesMission, commandGoto, autopilotVars
  <1>1. ASSUME NEW f \in {"continue", "hold", "goto"}, FSSNewCommand(f)
        PROVE  UNCHANGED <<mission, current>>
    BY <1>1, <1>new DEF FSSNewCommand
  <1>2. CASE Dispatch
    <2>1. UNCHANGED <<mission, current>>
      BY <1>2, <1>new DEF Dispatch, DispatchLoadSearch, DispatchSmmCommand, DispatchReachedPoint, SMMNewCommand,
                          loadSearch, uploadSearch, autopilotVars
    <2> QED BY <2>1, <1>same
  <1>3. CASE Worker \/ report_reached \/ maybeAcquire \/ checkOperatorCommand
    BY <1>3, <1>same DEF Worker, doSearch, doReachedPoint, Takes, Working, report_reached, maybeAcquire,
                         checkOperatorCommand, autopilotVars
  <1>4. CASE mission_ack
    <2>u. UNCHANGED <<held, point, size, issued, flown, tainted>>
      BY <1>4 DEF mission_ack, searchVars
    <2>1. CASE mission' = [mode |-> "goto", of |-> None] /\ current' = 0
      <3>1. MissionCount(SizeOf(mission), mission.mode)' = 3
        BY <2>1, Counts DEF SizeOf
      <3>2. Covered(mission.of, current - 2)'
        BY <2>1 DEF Covered
      <3> QED BY <3>1, <3>2, <2>1, <1>t DEF None
    <2>2. CASE /\ upload = "search" /\ mission' = [mode |-> "search", of |-> search]
               /\ current' = search_point_mission_seq(point[search])
      <3>1. search \in Searches /\ search <= issued
        <4>1. search # None /\ search \in 0 .. issued /\ issued \in 0 .. MaxSearches
          BY <2>2, <1>t DEF TypeOK
        <4> QED BY <4>1, ProgressAssumption DEF Searches, None
      <3>2. /\ size[search] \in Sizes /\ size[search] \in Nat /\ point[search] \in Nat
            /\ size[search] + 3 < SeqLimit /\ point[search] < size[search] /\ SeqLimit \in Nat
        BY <3>1, <1>t, Typed
      <3>3. current' = point[search] + 2
        <4>1. point[search] + 2 \in Nat /\ point[search] + 2 < SeqLimit
          BY <3>2
        <4>2. (point[search] + 2) % SeqLimit = point[search] + 2
          BY <4>1, <3>2, ModSmall
        <4> QED BY <4>2, <2>2 DEF search_point_mission_seq, search_first_point_seq
      <3>4. MissionCount(SizeOf(mission), mission.mode)' = size[search] + 3
        <4>1. SizeOf(mission)' = size[search] /\ mission'.mode = "search"
          BY <2>2, <2>u DEF SizeOf
        <4> QED BY <4>1, <3>2, Counts
      <3>5. Covered(mission.of, current - 2)'
        <4>1. Covered(held, point[held])
          BY DEF IInv
        <4>2. (current - 2)' = point[search] /\ (mission.of)' = search
          BY <3>2, <3>3, <2>2
        <4> QED BY <4>1, <4>2, <2>u DEF Covered
      <3> QED BY <3>1, <3>2, <3>3, <3>4, <3>5, <2>2, <2>u, <1>t
    <2>3. CASE UNCHANGED autopilotVars
      BY <2>3, <1>same DEF autopilotVars
    <2> QED BY <2>1, <2>2, <2>3, <1>4 DEF mission_ack
  <1>5. CASE ReachItem
    <2>1. /\ UNCHANGED mission /\ current' = current + 1
          /\ current < MissionCount(SizeOf(mission), mission.mode)
      BY <1>5 DEF ReachItem
    <2>2. PICK o, c : o = mission.of /\ c = current
      OBVIOUS
    <2>3. Covered(o, c - 1)'
      BY <2>2, <1>5, ReachCovers
    <2>4. (mission.of)' = o /\ (current - 2)' = c - 1
      BY <2>1, <2>2, <1>t
    <2>5. Covered(mission.of, current - 2)'
      BY <2>3, <2>4 DEF Covered
    <2>6. MissionCount(SizeOf(mission), mission.mode) \in Nat
      BY <1>t, MissionLength, SizesFit
    <2>7. current' \in 0 .. MissionCount(SizeOf(mission), mission.mode)
      BY <2>1, <2>6, <1>t
    <2> QED BY <2>1, <2>5, <2>7, <1>size, <1>t
  <1>6. CASE UNCHANGED vars
    BY <1>6, <1>same DEF vars, autopilotVars
  <1> HIDE DEF Goal
  <1> QED BY <1>1, <1>same, <1>2, <1>3, <1>4, <1>5, <1>6 DEF Next

\* The commands, the flags and the upload stay typed; an open search upload has
\* its search (uploadSearch re-establishes it, mission_ack closes both).
LEMMA FlagsKept ==
  ASSUME IInv, [Next]_vars
  PROVE /\ fss' \in {"continue", "hold", "goto"} /\ smm' \in {"none", "mission_complete", "abandon_search"}
        /\ search_active' \in BOOLEAN /\ search_loaded' \in BOOLEAN
        /\ engaged' \in BOOLEAN /\ refused' \in BOOLEAN
        /\ search' \in 0 .. issued'
        /\ upload' \in {"none", "search", "goto"} /\ (upload' = "search" => search' # None)
        /\ flown' \subseteq 0 .. SeqLimit /\ tainted' \in BOOLEAN
  <1> DEFINE Flags == /\ fss' \in {"continue", "hold", "goto"}
                      /\ smm' \in {"none", "mission_complete", "abandon_search"}
                      /\ search_active' \in BOOLEAN /\ search_loaded' \in BOOLEAN
                      /\ engaged' \in BOOLEAN /\ refused' \in BOOLEAN
             Upload == /\ search' \in 0 .. issued
                       /\ upload' \in {"none", "search", "goto"} /\ (upload' = "search" => search' # None)
             History == flown' \subseteq 0 .. SeqLimit /\ tainted' \in BOOLEAN
  <1>g. SUFFICES Flags /\ Upload /\ History
    <2>1. issued \in Nat /\ issued' \in Nat /\ issued <= issued'
      BY CoverageKept DEF IInv, TypeOK
    <2> QED BY <2>1
  <1>t. /\ fss \in {"continue", "hold", "goto"} /\ smm \in {"none", "mission_complete", "abandon_search"}
        /\ search_active \in BOOLEAN /\ search_loaded \in BOOLEAN /\ engaged \in BOOLEAN /\ refused \in BOOLEAN
        /\ search \in 0 .. issued /\ issued \in Nat /\ held \in 0 .. issued
        /\ upload \in {"none", "search", "goto"} /\ (upload = "search" => search # None)
        /\ flown \subseteq 0 .. SeqLimit /\ tainted \in BOOLEAN
    BY DEF IInv, TypeOK
  <1>new. ASSUME NEW f \in {"continue", "hold", "goto"}, NEW c \in {"none", "mission_complete", "abandon_search"},
                 NewCommand(f, c)
          PROVE  Flags /\ Upload
    <2>1. CASE actionState(commandedState(f, c))
      <3>1. fss' = f /\ smm' = c
        BY <1>new DEF NewCommand
      <3>2. search_active' \in BOOLEAN
        BY <2>1, <1>t, Zenon DEF actionState
      <3>3. search_loaded' \in BOOLEAN /\ engaged' \in BOOLEAN /\ refused' \in BOOLEAN
        BY <2>1, <1>t, Zenon DEF actionState, LeavesMission, commandGoto, mavVars, autopilotVars
      <3>4. Upload
        BY <2>1, <1>t DEF actionState, LeavesMission, commandGoto, Invalidated, None, mavVars
      <3> QED BY <3>1, <3>2, <3>3, <3>4, <1>new
    <2>2. CASE UNCHANGED <<search_active, tasks, mavVars, autopilotVars>>
      BY <2>2, <1>new, <1>t DEF NewCommand, mavVars, autopilotVars
    <2> QED BY <2>1, <2>2, <1>new DEF NewCommand
  <1>same. ASSUME UNCHANGED <<machineVars, mavVars, engaged>> PROVE Flags /\ Upload
    BY <1>same, <1>t DEF machineVars, mavVars
  <1>hist. ASSUME UNCHANGED <<flown, tainted>> \/ (flown' = {} /\ tainted' = FALSE) PROVE History
    BY <1>hist, <1>t
  <1>acquire. ASSUME tryAcquireSearch PROVE History
    BY <1>acquire, <1>hist DEF tryAcquireSearch, publishSearch, searchVars
  <1> HIDE DEF Flags, Upload, History
  <1>1. ASSUME NEW f \in {"continue", "hold", "goto"}, FSSNewCommand(f)
        PROVE  Flags /\ Upload /\ History
    BY <1>1, <1>new, <1>hist, <1>t DEF FSSNewCommand, searchVars
  <1>2. CASE Dispatch
    <2>1. History
      BY <1>2, <1>hist DEF Dispatch, DispatchLoadSearch, DispatchSmmCommand, DispatchReachedPoint, Dispatches, searchVars
    <2>2. CASE DispatchLoadSearch
      <3>1. CASE SMMNewCommand("none")
        BY <3>1, <2>1, <1>new, <1>t DEF SMMNewCommand
      <3>2. CASE loadSearch(Head(events).search) /\ UNCHANGED <<machineVars, tasks>>
        <4>1. CASE uploadSearch(Head(events).search)
          <5>1. Head(events) \in CoveredEvents /\ Head(events).kind = "load"
            <6>1. events \in Seq(CoveredEvents) /\ events # <<>> /\ Head(events).kind = "load"
              BY <2>2 DEF IInv, DispatchLoadSearch, Dispatches
            <6> QED BY <6>1
          <5>2. Head(events).search \in 1 .. issued
            BY <5>1 DEF CoveredEvents, CoveredReached, ReachedRecords
          <5>3. Upload
            BY <5>2, <4>1, <1>t DEF uploadSearch, Upload, None
          <5>4. search_loaded' \in BOOLEAN /\ engaged' \in BOOLEAN /\ refused' \in BOOLEAN
            BY <4>1, Zenon DEF uploadSearch
          <5> QED BY <5>3, <5>4, <3>2, <2>1, <1>t DEF Flags, machineVars
        <4>2. CASE UNCHANGED <<mavVars, autopilotVars>>
          BY <4>2, <3>2, <2>1, <1>same DEF autopilotVars
        <4> QED BY <4>1, <4>2, <3>2 DEF loadSearch
      <3>3. CASE UNCHANGED <<machineVars, tasks, mavVars, autopilotVars>>
        BY <3>3, <2>1, <1>same DEF autopilotVars
      <3> QED BY <3>1, <3>2, <3>3, <2>2 DEF DispatchLoadSearch
    <2>3. CASE DispatchSmmCommand
      BY <2>3, <2>1, <1>new, <1>t DEF DispatchSmmCommand, SMMNewCommand
    <2>4. CASE DispatchReachedPoint
      BY <2>4, <2>1, <1>same DEF DispatchReachedPoint, autopilotVars
    <2> QED BY <2>2, <2>3, <2>4, <1>2 DEF Dispatch
  <1>3. CASE Worker \/ maybeAcquire \/ checkOperatorCommand
    <2>1. Flags /\ Upload
      BY <1>3, <1>same DEF Worker, doSearch, doReachedPoint, Takes, Working, maybeAcquire, checkOperatorCommand,
                           autopilotVars
    <2>2. CASE doSearch \/ maybeAcquire
      BY <2>1, <2>2, <1>acquire, <1>hist DEF doSearch, maybeAcquire, searchVars
    <2>3. CASE checkOperatorCommand
      BY <2>1, <2>3, <1>hist DEF checkOperatorCommand, publishSearch
    <2>4. CASE doReachedPoint
      <3>1. CASE MovesTo(Head(tasks).point)
        <4>1. flown' = flown /\ tainted' \in BOOLEAN
          BY <3>1, Zenon DEF MovesTo
        <4> QED BY <4>1, <2>1, <1>t DEF History
      <3> QED BY <3>1, <2>1, <2>4, <1>hist DEF doReachedPoint, publishSearch, searchVars
    <2> QED BY <2>2, <2>3, <2>4, <1>3 DEF Worker
  <1>4. CASE report_reached
    BY <1>4, <1>same, <1>hist DEF report_reached, searchVars, autopilotVars
  <1>5. CASE mission_ack
    <2>1. History
      BY <1>5, <1>hist DEF mission_ack, searchVars
    <2>2. Upload
      BY <1>5, <1>t DEF mission_ack, Upload, Invalidated, None
    <2>3. Flags
      BY <1>5, <1>t DEF mission_ack, Flags, machineVars, autopilotVars
    <2> QED BY <2>1, <2>2, <2>3
  <1>6. CASE ReachItem
    <2>1. Flags /\ Upload /\ UNCHANGED tainted
      BY <1>6, <1>same DEF ReachItem
    <2>2. CASE UNCHANGED flown
      BY <2>1, <2>2, <1>hist
    <2>3. CASE /\ ItemAt(mission, current).kind = "search_point"
               /\ flown' = flown \cup {ItemAt(mission, current).point_index}
      <3>1. /\ TypeOK /\ current \in Nat /\ SeqLimit \in Nat
            /\ current < MissionCount(SizeOf(mission), mission.mode)
        BY <1>6, Typed DEF ReachItem, IInv
      <3>2. mission.mode = "search"
        <4>1. CASE mission.mode = "goto"
          BY <4>1, <2>3, <3>1 DEF ItemAt, mission_item_for, Rtl
        <4> QED BY <4>1, <3>1, MissionLength
      <3>3. size[mission.of] \in Nat /\ size[mission.of] + 3 < SeqLimit /\ SizeOf(mission) = size[mission.of]
        BY <3>1, <3>2, MissionLength, SizesFit
      <3>4. ItemAt(mission, current).point_index \in 0 .. SeqLimit
        BY <3>1, <3>2, <3>3, <2>3, MissionLength DEF ItemAt, mission_item_for, Rtl
      <3> QED BY <3>4, <2>1, <2>3, <1>t DEF History
    <2> QED BY <2>2, <2>3, <1>6 DEF ReachItem
  <1>7. CASE UNCHANGED vars
    BY <1>7, <1>same, <1>hist DEF vars, searchVars, autopilotVars
  <1> QED BY <1>1, <1>2, <1>3, <1>4, <1>5, <1>6, <1>7 DEF Next

\* The FMU starts with nothing under way (Init).
LEMMA InitCovered == Init => IInv
  <1> SUFFICES ASSUME Init PROVE IInv
    OBVIOUS
  <1>1. (CHOOSE n \in Sizes : TRUE) \in Sizes
    BY ProgressAssumption
  <1>2. /\ size \in [Searches -> Sizes] /\ point \in [Searches -> Nat]
        /\ \A s \in Searches : point[s] < size[s] /\ point[s] = 0
    BY <1>1, SizesFit DEF Init
  <1>3. MissionCount(SizeOf(mission), mission.mode) = 3
    BY Counts DEF Init, SizeOf
  <1>4. current \in 0 .. MissionCount(SizeOf(mission), mission.mode)
    BY <1>3 DEF Init
  <1>5. /\ tasks \in Seq([kind : {"search"}] \cup ReachedRecords) /\ events \in Seq(Events)
        /\ link \in Seq([seq : 0 .. SeqLimit - 1, from : Searches \cup {None}])
    BY DEF Init
  <1>6. TypeOK
    <2>1. /\ search_active \in BOOLEAN /\ search_loaded \in BOOLEAN /\ engaged \in BOOLEAN /\ refused \in BOOLEAN
          /\ tainted \in BOOLEAN
      BY Zenon DEF Init
    <2>2. issued \in 0 .. MaxSearches /\ held \in 0 .. issued /\ search \in 0 .. issued /\ flown \subseteq 0 .. SeqLimit
      BY ProgressAssumption DEF Init, None
    <2>3. /\ fss \in {"continue", "hold", "goto"} /\ smm \in {"none", "mission_complete", "abandon_search"}
          /\ upload \in {"none", "search", "goto"} /\ (upload = "search" => search # None)
          /\ mission \in [mode : {"search"}, of : Searches] \cup [mode : {"goto"}, of : {None}]
      BY DEF Init
    <2>4. \A s \in Searches : point[s] < size[s]
      BY <1>2
    <2> QED BY <2>1, <2>2, <2>3, <2>4, <1>2, <1>4, <1>5, Zenon DEF TypeOK
  <1>7. events \in Seq(CoveredEvents) /\ tasks \in Seq(CoveredTasks) /\ link \in Seq(CoveredItems)
    BY DEF Init, CoveredTasks
  <1>8. /\ mission.of <= issued /\ Covered(mission.of, current - 2) /\ Covered(held, point[held])
    BY DEF Init, Covered, None
  <1> QED BY <1>2, <1>6, <1>7, <1>8 DEF IInv

\* Every step of every thread keeps the invariant (Next).
LEMMA StepCovered == IInv /\ [Next]_vars => IInv'
  <1> SUFFICES ASSUME IInv, [Next]_vars PROVE IInv'
    OBVIOUS
  <1>1. events' \in Seq(CoveredEvents') /\ tasks' \in Seq(CoveredTasks') /\ link' \in Seq(CoveredItems')
    BY QueuesKept
  <1>2. /\ Covered(held, point[held])'
        /\ size' \in [Searches -> Sizes] /\ point' \in [Searches -> Nat]
        /\ \A s \in Searches : point'[s] < size'[s] /\ (issued' < s => point'[s] = 0)
        /\ issued' \in 0 .. MaxSearches /\ held' \in 0 .. issued'
    BY PointsKept
  <1>3. /\ events' \in Seq(Events) /\ tasks' \in Seq([kind : {"search"}] \cup ReachedRecords)
        /\ link' \in Seq([seq : 0 .. SeqLimit - 1, from : Searches \cup {None}])
    <2>1. CoveredReached' \subseteq ReachedRecords
      BY DEF CoveredReached, ReachedRecords
    <2>2. 1 .. issued' \subseteq Searches
      BY <1>2, ProgressAssumption DEF Searches
    <2>3. CoveredEvents' \subseteq Events
      BY <2>1, <2>2 DEF CoveredEvents, Events
    <2>4. CoveredTasks' \subseteq [kind : {"search"}] \cup ReachedRecords
      BY <2>1 DEF CoveredTasks
    <2>5. CoveredItems' \subseteq [seq : 0 .. SeqLimit - 1, from : Searches \cup {None}]
      BY DEF CoveredItems
    <2> QED BY <1>1, <2>3, <2>4, <2>5, SeqMono
  <1>4. TypeOK'
    <2>1. /\ mission' \in [mode : {"search"}, of : Searches] \cup [mode : {"goto"}, of : {None}]
          /\ current' \in 0 .. MissionCount(SizeOf(mission), mission.mode)'
      BY MissionKept
    <2>2. /\ fss' \in {"continue", "hold", "goto"} /\ smm' \in {"none", "mission_complete", "abandon_search"}
          /\ search_active' \in BOOLEAN /\ search_loaded' \in BOOLEAN
          /\ engaged' \in BOOLEAN /\ refused' \in BOOLEAN
          /\ search' \in 0 .. issued'
          /\ upload' \in {"none", "search", "goto"} /\ (upload' = "search" => search' # None)
          /\ flown' \subseteq 0 .. SeqLimit /\ tainted' \in BOOLEAN
      BY FlagsKept
    <2>3. \A s \in Searches : point'[s] < size'[s]
      BY <1>2
    <2> QED BY <1>2, <1>3, <2>1, <2>2, <2>3, Zenon DEF TypeOK
  <1>5. mission'.of <= issued' /\ Covered(mission.of, current - 2)'
    BY MissionKept
  <1>6. \A s \in Searches : issued' < s => point'[s] = 0
    BY <1>2
  <1> QED BY <1>1, <1>2, <1>4, <1>5, <1>6, Zenon DEF IInv

-----------------------------------------------------------------------------
(* Theorems.                                                               *)

\* The layout of a search mission (mission-plan.hpp): point i of n is item
\* i + 2, the last item is the only terminator, and the reached message of an
\* item resumes the search at the point after it.
THEOREM MissionLayout ==
  \A n \in Sizes :
    /\ \A i \in 0 .. n - 1 :
         /\ mission_item_for(search_point_mission_seq(i), n, "search") = [kind |-> "search_point", point_index |-> i]
         /\ next_search_point_after_reached_seq(search_point_mission_seq(i)) = i + 1
    /\ \A seq \in 0 .. MissionCount(n, "search") - 1 :
         mission_item_for(seq, n, "search").kind = "rtl" <=> seq = MissionCount(n, "search") - 1
  <1> SUFFICES ASSUME NEW n \in Sizes
               PROVE  /\ \A i \in 0 .. n - 1 :
                           /\ mission_item_for(search_point_mission_seq(i), n, "search")
                                = [kind |-> "search_point", point_index |-> i]
                           /\ next_search_point_after_reached_seq(search_point_mission_seq(i)) = i + 1
                      /\ \A seq \in 0 .. MissionCount(n, "search") - 1 :
                           mission_item_for(seq, n, "search").kind = "rtl" <=> seq = MissionCount(n, "search") - 1
    OBVIOUS
  <1>1. n \in Nat /\ 0 < n /\ n + 3 < SeqLimit /\ SeqLimit \in Nat
    BY SizesFit, ProgressAssumption
  <1>2. ASSUME NEW i \in 0 .. n - 1
        PROVE  /\ mission_item_for(search_point_mission_seq(i), n, "search")
                    = [kind |-> "search_point", point_index |-> i]
               /\ next_search_point_after_reached_seq(search_point_mission_seq(i)) = i + 1
    <2>1. i + 2 \in Nat /\ i + 2 < SeqLimit /\ i \in Nat /\ i < n
      BY <1>1
    <2>2. search_point_mission_seq(i) = i + 2
      <3>1. (i + 2) % SeqLimit = i + 2
        BY <2>1, <1>1, ModSmall
      <3> QED BY <3>1 DEF search_point_mission_seq, search_first_point_seq
    <2>3. mission_item_for(i + 2, n, "search") = [kind |-> "search_point", point_index |-> i]
      <3>1. (i + 2) - 2 = i /\ ~(i + 2 <= 1) /\ ~(i + 2 > n + 1)
        BY <2>1, <1>1
      <3> QED BY <3>1 DEF mission_item_for
    <2>4. next_search_point_after_reached_seq(i + 2) = i + 1
      BY <2>1 DEF next_search_point_after_reached_seq, search_first_point_seq
    <2> QED BY <2>2, <2>3, <2>4
  <1>3. ASSUME NEW seq \in 0 .. MissionCount(n, "search") - 1
        PROVE  mission_item_for(seq, n, "search").kind = "rtl" <=> seq = MissionCount(n, "search") - 1
    <2>1. MissionCount(n, "search") = n + 3
      BY Counts
    <2>2. seq \in Nat /\ seq <= n + 2
      BY <2>1, <1>1
    <2>3. CASE seq <= 1
      BY <2>1, <2>2, <2>3, <1>1 DEF mission_item_for
    <2>4. CASE seq > 1 /\ seq <= n + 1
      BY <2>1, <2>2, <2>4, <1>1 DEF mission_item_for
    <2>5. CASE seq = n + 2
      BY <2>1, <2>2, <2>5, <1>1 DEF mission_item_for, Rtl
    <2> QED BY <2>2, <2>3, <2>4, <2>5, <1>1
  <1> QED BY <1>2, <1>3

\* The inductive invariant holds throughout (Spec).
THEOREM ProgressInvariant == Spec => []IInv
  BY InitCovered, StepCovered, PTL DEF Spec

\* Types, and every search resumes within its own mission (SMMSearch).
THEOREM ProgressTyped == Spec => []TypeOK
  <1>1. IInv => TypeOK
    BY DEF IInv
  <1> QED BY <1>1, ProgressInvariant, PTL

\* No point of the held search is skipped, for any number of searches of any
\* size and any interruptions (doReachedPoint, mission_ack).
THEOREM ProgressNoPointSkipped == Spec => []NoPointSkipped
  <1>1. IInv => NoPointSkipped
    <2> SUFFICES ASSUME IInv, held # None, ~tainted PROVE 0 .. point[held] - 1 \subseteq flown
      BY DEF NoPointSkipped
    <2>1. held \in Searches
      BY ProgressAssumption DEF IInv, TypeOK, Searches, None
    <2>2. point[held] \in Nat /\ size[held] \in Nat /\ point[held] < size[held]
      BY <2>1, Typed DEF IInv
    <2>3. Covered(held, point[held])
      BY DEF IInv
    <2>4. \A k \in Nat : k < point[held] /\ k < size[held] => k \in flown
      BY <2>3 DEF Covered
    <2> QED BY <2>2, <2>4
  <1> QED BY <1>1, ProgressInvariant, PTL

\* A search is reported complete only when each of its points was reached
\* (doReachedPoint).
THEOREM ProgressCompletedFullyFlown == Spec => CompletedFullyFlown
  <1>1. ASSUME IInv, doReachedPoint, held' # held, ~tainted, Head(tasks).from = held
        PROVE  0 .. size[held] - 1 \subseteq flown
    <2>1. held # None /\ Head(tasks).point >= size[held]
      BY <1>1 DEF doReachedPoint, MovesTo, searchVars
    <2>2. held \in Searches
      BY <1>1, <2>1, ProgressAssumption DEF IInv, TypeOK, Searches, None
    <2>3. size[held] \in Nat
      BY <1>1, <2>2, Typed DEF IInv
    <2>4. Head(tasks) \in CoveredReached
      <3>1. tasks \in Seq(CoveredTasks) /\ tasks # <<>> /\ Head(tasks).kind = "reached"
        BY <1>1 DEF doReachedPoint, Takes, IInv
      <3>2. Head(tasks) \in CoveredTasks
        BY <3>1
      <3> QED BY <3>1, <3>2 DEF CoveredTasks
    <2>5. Head(tasks).point \in Nat /\ Covered(held, Head(tasks).point)
      BY <1>1, <2>4, ProgressAssumption DEF CoveredReached, ReachedRecords
    <2>6. \A k \in Nat : k < Head(tasks).point /\ k < size[held] => k \in flown
      BY <1>1, <2>1, <2>5 DEF Covered
    <2> QED BY <2>1, <2>3, <2>5, <2>6
  <1>2. IInv => [(doReachedPoint /\ held' # held /\ ~tainted /\ Head(tasks).from = held) =>
                   0 .. size[held] - 1 \subseteq flown]_vars
    BY <1>1
  <1> QED BY <1>2, ProgressInvariant, PTL DEF CompletedFullyFlown

\* A search mission is entered at the current point of its search and ends
\* with its only terminator (mission_ack, mission-plan.hpp).
THEOREM ProgressEnteredAtCurrentPoint == Spec => EnteredAtCurrentPoint
  <1> DEFINE Entered == engaged' /\ ~engaged /\ mission'.mode = "search" =>
       LET s == mission'.of
           last == MissionCount(size[s], "search") - 1
       IN /\ mission_item_for(current', size[s], "search") = [kind |-> "search_point", point_index |-> point[s]]
          /\ \A seq \in current' .. last : mission_item_for(seq, size[s], "search").kind = "rtl" <=> seq = last
  <1>1. ASSUME IInv, Next, engaged', ~engaged, mission'.mode = "search"
        PROVE  Entered
    <2>1. /\ upload = "search" /\ mission' = [mode |-> "search", of |-> search]
          /\ current' = search_point_mission_seq(point[search])
      <3>1. CASE mission_ack
        <4>1. CASE UNCHANGED autopilotVars
          <5>1. engaged' = engaged
            BY <4>1 DEF autopilotVars
          <5> QED BY <5>1, <1>1
        <4>2. CASE mission' = [mode |-> "goto", of |-> None]
          BY <4>2, <1>1
        <4> QED BY <4>1, <4>2, <3>1 DEF mission_ack
      <3>2. ~engaged' \/ UNCHANGED engaged \/ mission_ack
        <4>1. ASSUME NEW f, NEW c, NewCommand(f, c) PROVE ~engaged' \/ UNCHANGED engaged
          BY <4>1, Zenon DEF NewCommand, actionState, LeavesMission, commandGoto, autopilotVars
        <4>2. ASSUME NEW f, FSSNewCommand(f) PROVE ~engaged' \/ UNCHANGED engaged
          BY <4>1, <4>2 DEF FSSNewCommand
        <4>3. CASE Dispatch
          <5>1. ASSUME NEW s, loadSearch(s) PROVE ~engaged' \/ UNCHANGED engaged
            BY <5>1, Zenon DEF loadSearch, uploadSearch, autopilotVars
          <5> QED BY <4>1, <4>3, <5>1, Zenon DEF Dispatch, DispatchLoadSearch, DispatchSmmCommand, SMMNewCommand,
                                                 DispatchReachedPoint, autopilotVars
        <4>4. CASE Worker \/ report_reached \/ ReachItem \/ maybeAcquire \/ checkOperatorCommand
          BY <4>4, Zenon DEF Worker, doSearch, doReachedPoint, Takes, Working, report_reached, ReachItem,
                             maybeAcquire, checkOperatorCommand, autopilotVars
        <4> QED BY <4>2, <4>3, <4>4, <1>1 DEF Next
      <3> QED BY <3>1, <3>2, <1>1
    <2>2. search \in Searches
      <3>1. search # None /\ search \in 0 .. issued /\ issued \in 0 .. MaxSearches
        BY <2>1, <1>1 DEF IInv, TypeOK
      <3> QED BY <3>1, ProgressAssumption DEF Searches, None
    <2>3. PICK n, p : n = size[search] /\ p = point[search]
      OBVIOUS
    <2>4. n \in Sizes /\ n \in Nat /\ p \in 0 .. n - 1 /\ n + 3 < SeqLimit /\ SeqLimit \in Nat
      BY <2>2, <2>3, <1>1, Typed DEF IInv
    <2>5. /\ mission_item_for(search_point_mission_seq(p), n, "search") = [kind |-> "search_point", point_index |-> p]
          /\ \A seq \in 0 .. MissionCount(n, "search") - 1 :
               mission_item_for(seq, n, "search").kind = "rtl" <=> seq = MissionCount(n, "search") - 1
      BY <2>4, MissionLayout
    <2>6. search_point_mission_seq(p) \in Nat
      BY <2>4 DEF search_point_mission_seq, search_first_point_seq
    <2>7. MissionCount(n, "search") = n + 3
      BY <2>4, Counts
    <2>8. search_point_mission_seq(p) .. MissionCount(n, "search") - 1 \subseteq 0 .. MissionCount(n, "search") - 1
      BY <2>4, <2>6, <2>7
    <2>9. mission'.of = search /\ current' = search_point_mission_seq(p)
      BY <2>1, <2>3
    <2> QED BY <2>3, <2>5, <2>8, <2>9
  <1>2. IInv /\ [Next]_vars => [Entered]_vars
    BY <1>1
  <1> QED BY <1>2, ProgressInvariant, PTL DEF EnteredAtCurrentPoint, Spec
=============================================================================
