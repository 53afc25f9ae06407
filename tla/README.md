# A verification project for cap-fmu

cap-fmu is the Flight Management Unit of the Canterbury Air Patrol: one process
between an autopilot (MAVLink), the Flight Safety System (FSS, operator commands)
and the Search Management Map (SMM, searches to fly). This directory holds TLA+
models of its control logic, the TLC runs that check them on small instances, and
proofs that TLAPS checks for every value of the constants. Paths below are
relative to the repository's root; `PROJECT.json` maps every definition to its lines.

## 1. Inventory

### Threads

| thread | code | works on |
|---|---|---|
| event loop | `App::run`, `EventDispatcher::dispatch` | the only caller of the state machine |
| MAV recv | `mav_connection::processMessages` | heartbeats, mission items, acks, uptime |
| MAV heartbeat | `heartbeat_loop` | comms edges, retiring silent sockets |
| reconnector | `App::fss_reconnector` | FSS and MAV reconnects, search retry timer |
| SMM worker | `SMM::workerLoop` | blocking SMM requests, held search |
| FSS recv, one per server | library, `handleCommandFrom` | operator commands |
| FSS send worker | `FSS::workerLoop` | reports and terminal acks |
| signal waiter, log writer | `signal_waiter`, `Logger` | shutdown, log files |

Producers never call the state machine: they enqueue events, and the event loop
applies them one at a time. What is hard lies between the queues: state read
under one lock and used after it, outcomes that arrive after a command took over,
sockets replaced faster than anyone looks, the same command delivered many times.

### Components

| component | state | operations | what makes it correct |
|---|---|---|---|
| state machine (`fmu.cpp`) | current state, FSS and SMM command, latches and their counters, comms flags | `FSSNewCommand`, `SMMNewCommand`, `setLowBattery`, `setCurrentAltitude`, `setCommsFailure`, `setMavCommsFailure`, `reassertState` | the state is always the arbitration of its inputs; latches are final, debounced and timely; the role follows the state; answers are truthful |
| MAVLink session (`mavlink.cpp`, `mav-comms.hpp`) | socket, heartbeat age, reported status, deferred mode | heartbeat pass, reconnect, restart detection | the machine's view converges to the link; after a loss the autopilot is re-commanded; a dead socket is retired |
| modes and uploads (`mavlink.cpp`) | goto and search upload flags, pending mode | mode commands, goto, search upload, item requests, ack, replay | uploads are never confused; a mode command holds; AUTO flies what was commanded |
| command acknowledgement (`command-ack-group.hpp`, `fss-client-ssl.cpp`, `fss.cpp`) | active group, pending copies, cached resolution, per-server ids | `onDelivery`, `resolve`, ack worker | each command actuated once, each copy answered exactly once, copies alike |
| SMM worker (`smm.cpp`) | task queue, held search, backoff, role | connect, report, reached, search, acquire | a search flies only while searching; a searching aircraft gets one |
| search progress (`mission-plan.hpp`, `smm.cpp`, `mavlink.cpp`) | each search's current point, the mission on the autopilot | upload and resume, reached items, completion | no point is skipped, a search is resumed where it was left, completed only when flown, and searching ends |
| application (`main.cpp`) | event queue, running flag, threads, components | event loop, signal handling, join and destruction order | no lost wakeup, accepted commands still answered, no thread outlives what it uses |
| known aircraft and ADS-B throttle (`aircraft.hpp`, `event-dispatcher.cpp`) | map of aircraft, last forward times | report, evict, throttle | bounded maps, addresses reused as late as possible, nobody silenced who shares his with nobody |
| logger (`logger.cpp`, `log-rotation.hpp`) | line queue, drop count, files | log, write, rotate, flush, stop | every hole is marked, nothing is lost at exit, history is not rotated away for nothing |
| configuration, failsafe parameters, conversions | | | see "Not modelled" |

## 2. Modules

| module | models | composes |
|---|---|---|
| `FMUStateMachine` | the state machine class; each method is one action | |
| `FMULatches` | the same with the history of readings; the instance TLC checks | extends `FMUStateMachine` |
| `MavLink` | heartbeat, recv and reconnector threads with the event loop | instantiates `FMUStateMachine` |
| `MavUpload` | event loop and recv thread inside `mav_connection` | |
| `CommandAckSpec` | what the servers may rely on: groups of copies, answered as a whole | |
| `CommandAckGroup` | FSS recv threads, event loop, send worker | instantiates `CommandAckSpec` |
| `MCCommandAckGroup` | TLC instance of `CommandAckGroup` | |
| `FmuSearch` | SMM worker with the event loop | instantiates `FMUStateMachine` |
| `SearchProgress` | mission layout, autopilot, event loop, worker: how far a search is | |
| `KnownAircraft` | FSS recv threads, the aircraft map, the ADS-B throttle of the event loop | |
| `Shutdown` | all threads, their condition variables, joins and destructors | |
| `Logger` | producers, writer thread, files | |
| `TaskQueue` | the erase loop the FSS and SMM task queues share | extended by `FmuSearch`, `Shutdown` |
| `FMUProofs` | theorems of the state machine and its latches | extends `FMULatches` |
| `MavProofs` | theorems of both models of `mav_connection` | extends `MavUpload` and `MavLink` |
| `FmuSearchProofs`, `LoggerProofs`, `KnownAircraftProofs`, `SearchProgressProofs`, `CommandAckGroupProofs`, `ShutdownProofs` | theorems of the module of that name | |

**FMUStateMachine.** Variables carry the fields' names. `search_active` is the
searching role granted through `ISMM`; `autopilot` is the last command that
reached the autopilot through `IMAV`; `link` says whether a send reaches it. A
method runs to completion on the event loop, so it is one action: store the
input, `updateState`, and `actionState` if the state changed. Battery readings
are low or not, position reports are without fix, over or under the cap.

**MavLink.** Time is whether the last heartbeat and the last connect are younger
than `heartbeat_timeout_ms`. The heartbeat loop samples `fd` and decides in a
second step, since the reconnector may replace the socket in between. A lost
path (`path_up`) is distinct from a socket that reports an error. Modes commanded
before the airframe type is known are deferred and replayed. The queue holds only
this component's events; inputs of independent producers are applied directly,
which is the behaviour where their event was queued earlier. The FMU's `link` is
"socket open, path up, type known".

**MavUpload.** One step per `state_lock` region or per message sent, so every
interleaving of event loop and recv thread inside `setResolvedMode`,
`commandGoto`, `uploadSearch`, `mission_ack` and `replayPendingMode` exists. A
mission is one item named by what it flies. The autopilot answers over a FIFO
(`from_ap`) that a lost link empties; it may ask twice, reject, and reboot.
History variables number the uploads and record whether the last command was
overtaken by the recv thread, lost to a closed link, cut off by one (the link
dropped, or a down edge of the heartbeat loop gave a goto up, which it does on an
open socket too), or met a stray answer, and which upload the autopilot accepted
last.

**CommandAckGroup.** Command k is stamped `2k + Skew` by each server and carries
the id k if the server negotiated ids. `onDelivery` runs under the group's mutex
and is atomic; enqueueing the event, resolving it and the ack worker are separate
steps. Servers send in order, skip, and repeat their latest command.
`CommandAckSpec` forgets clocks, ids, threads and queues: a copy is answered
alone, joins the newest group or opens one; a group is answered once, as a whole,
and late copies get its outcome. The mapping takes a copy's epoch for its group.

**FmuSearch.** The worker's blocking calls separate its steps, so a command may
take over between the fetch, the check and the accept. The server may offer any
search or none, accept or refuse. Outcomes are events that the event loop
applies as `EventDispatcher` does.

**SearchProgress.** The items of a mission are those of `mission_item_for`, the
sequence numbers wrap at `SeqLimit` (2^16 in MAVLink), and the autopilot flies
the items in order while engaged. Commands interrupt it, uploads are accepted or
refused, reached items travel as message, event and task before they move
`current_point`. Acquisition, upload races and link losses are the business of
the modules above and are single steps, or absent, here. History: the points
reached of the held search (`flown`), and whether an item of another mission
moved it (`tainted`).

**KnownAircraft.** A contact is the key of the map. All times are ages, which a
tick makes older up to the age beyond which nothing tells them apart. The
position callback is two steps, one per region of the map's lock: in between,
another thread may sweep the map and the address may be allocated anew. An address
that a peer reports as its own may be one of the synthetic range. History: which
allocation made an entry (`serial`).

**Shutdown.** A thread that waits on a condition variable is at `check` while it
holds its mutex with a false predicate, then at `blocked`, and only a notify or a
timeout moves it. A notify that comes at `check` is lost: that is the lost wakeup
the locks in `signal_waiter` prevent. `run()` ends, `App`'s members are destroyed
in reverse order, and each destructor joins its threads. Only the reconnector's
and the heartbeat's waits time out; `SignalExits` holds without fairness of the
time-outs.

**Logger.** Lines carry numbers, so holes show. `log` drops the oldest line at
the bound; the writer claims a line together with the drop count, writes a marker,
then the line. The device may refuse any write and a rotation may fail to open
the new file. `covered` is how many lines the text on disk accounts for.

Definitions marked `MUTANT` are deliberately wrong variants of the definition
that follows them. They are used by no specification; substituting one for its
original makes the property named in `PROJECT.json` fail.

## 3. Runs

| run | config | expected | shows |
|---|---|---|---|
| `state_machine` | `FMULatches.cfg` | pass | arbitration, role; latches final, timely and debounced; truthful answers, and the one that is not (below) |
| `mav_link` | `MavLink.cfg` | pass | alternating edges; re-command after every reported loss; silent sockets retired; view of the link converges |
| `mav_upload` | `MavUpload.cfg` | pass | no null search and no confused uploads, modes hold, AUTO flies the commanded mission, an accepted mission is engaged |
| `command_ack` | `CommandAckGroup.cfg` | pass | implements `CommandAckSpec` (one answer per copy, one outcome per group); every copy answered in the end; actuated once; the group's command is the one in force |
| `search` | `FmuSearch.cfg` | pass | searches only while searching; served or left; drained queues leave the held search flying |
| `search_progress` | `SearchProgress.cfg` | pass | no point skipped, completed only when flown, resumed at the current point, searching ends |
| `aircraft` | `KnownAircraft.cfg` | pass | an address is reused last of all, one forward per address and interval, a reporting aircraft not dropped, and not silenced while it shares its address with nobody |
| `shutdown` | `Shutdown.cfg` | pass | a signal at any moment leads to exit; threads die before what they use; acks are flushed; dials are joined |
| `logger` | `Logger.cfg` | pass | holes are marked, nothing is left behind, only full files are archived, stopping ends |
| `retarget` | `Retarget.cfg` | violation | a new target in the same state is not sent |
| `mav_upload_race` | `MavUploadRace.cfg` | violation | AUTO follows a safety mode commanded during `mission_ack` |
| `search_waiting` | `FmuSearchWaiting.cfg` | violation | waiting for tasking without the role |

Each violation is a disagreement between the code and a comment or test of the
repository; `findings` in `PROJECT.json` quotes both. One more is shown by a passing
run, because the property states what the code does: an operator's RTL during an
altitude breach is always answered as actioned (`ResolutionIsTruthful`, last
conjunct). `resolveFSSCommand` compares states, and the breach flies the very state
the RTL asks for (`fmu.cpp:147`), while the comment at `fmu.cpp:156-170` counts the
altitude breach among the latches and decides for "superseded" even when the
effects match, and `src/tests/fmu_test.cpp:1339-1342` says the same.

### Known gaps

The passing properties state what holds, and some of them name an exception: a
history variable that is true where the code does not keep the promise. Without
the exception TLC shows the behaviour described here.

* `stray` (`MavUpload`): a MISSION_ACK carries no upload, so the late ack of a
  superseded upload is consumed by its successor (`mavlink.cpp:607`), although
  `logUploadSuperseded` (215-216) says it will be ignored.
* `overtaken` (`MavUpload`): a command that ran while the recv thread was between
  two lock regions. A mode it sent can be followed by the AUTO of an ack that was
  under way (`mavlink.cpp:607`; the `mav_upload_race` run), or by an older deferred
  mode: `replayPendingMode` has read that one and sends it without looking again
  (`mavlink.cpp:292`). An ack that is handled before `commandGoto` has set
  `goto_ack_pending` is ignored; it takes a whole upload within that gap.
* `cut` (`MavUpload`): a down edge gives up the goto upload in flight, also while the
  socket is open (`mavlink.cpp:89-114`). The ack that then arrives is ignored and
  the goto is not engaged before the up edge commands it anew.
* `lapse` (`MavLink`): a socket that breaks and is replaced between two passes of
  the heartbeat thread yields no down edge, so a command lost on it is not sent
  again (`mavlink.cpp:1424`; `fmu.hpp` says that every recovery re-applies the
  state).
* `raced` (`CommandAckGroup`): the group decides under its mutex, the event is
  enqueued after it (`fss-client-ssl.cpp:255`). Two recv threads may enqueue in the
  opposite order, and the command in force is then the one whose copies were told
  that a newer one "is already in effect" (`command-ack-group.hpp:208-209`).
* A repeat of the active command from more than the tolerance before it opens a
  new group and moves the group's timestamp back (`command-ack-group.hpp:234`). A
  different command between the two timestamps is then actuated, although lines
  213-216 say an old command must never be. `ActuatedOnce` says nothing of it: its
  hypothesis is an operator who does not repeat a command.
* `tainted` (`SearchProgress`): a reached event names a point, not its mission.
  An item of a goto mission, or of a search given up since, can move or complete
  the search held now (`smm.cpp:576`); the guard at `event-dispatcher.cpp:121-127`
  catches most of these cases and not all. `NoPointSkipped` and
  `CompletedFullyFlown` exempt it, so they say nothing of this.
* `refused` (`SearchProgress`): nothing sends an upload again that the autopilot
  refused; the aircraft stays "searching" until a command or a recovery.
* The SMM worker checks its role before the blocking accept, so a search may be
  committed just after the role was revoked. It is not flown then, and is flown
  when the role returns (`search`).
* `Logger`: a marker the device refuses takes its drop count with it, although
  `logger.hpp` resets the count "once the worker has written the marker"; a failed
  reopen after a rotation turns logging off for good.
* `Shutdown`: `run()` leaves its loop when it finds the queue empty; events queued
  after that are discarded with their commands. `AcksFlushed` is about those
  queued before the signal, and about those dispatched.
* `KnownAircraft`: aircraft that share an address share an entry of the throttle, so
  one can silence the other for as long as both report; `ReportersAreForwarded`
  supposes an address shared with nobody (`Alone`). Two synthetic ones share one
  only a whole range of allocations apart (`AddressesReusedLast`). A synthetic and a
  real one share it whenever a peer reports an address that was handed out: the
  range, called "Unallocated" at `aircraft.hpp:12-14`, is 0x1000 to 0xFFFFFF and
  nothing in the code keeps reported addresses out of it. A report with unusable
  coordinates still takes the debounce interval of its aircraft, the other
  hypothesis of `ReportersAreForwarded`.

### Bounds

* Latch counts 2: the shortest run that has a proper prefix, a reset inside it
  and a saturated counter. `MaxRun` 3 passes the latch count by one.
* One target (two for `retarget`): only equality of targets matters.
* `MaxEvents` 2 in `MavLink`: two edges, or an edge and a restart, in flight at
  once. The guard delays a producer; the real queue is unbounded. One operator
  command: hold, next to the failsafe and the battery latch, makes commands
  differ.
* Uploads and queued replies in `MavUpload`: enough for one upload superseded by
  another with an answer of each under way.
* Three commands out of three contents, one of which is rejected as unactionable,
  four deliveries, tolerance 3 against a spacing of 2 and skew of 1: commands
  inside and outside the dedup window of each other (a middle command may be
  skipped or rejected), reordered servers, one numbered and one legacy.
* `FmuSearch` and `SearchProgress` bound only the inputs (`Room`): the event loop
  and the worker are never delayed by a bound, so no behaviour between them is cut
  off. Two searches: one can be given up for the other. In `FmuSearch` the role is
  revoked by the comms failsafe (an operator's hold, which the `search_waiting` run
  has, acts on the role in the same way); `MaxRetries` is 2 (3 in the code): one
  refusal retried, one given up. Searches of one and two points: a first point, a
  last point, and both in one.
* `KnownAircraft`: two threads and three contacts, one with an ICAO address, one
  without, and the FMU's own echo; an interval of two ticks so that there is a tick
  inside it; an eviction age that an aircraft reaches by missing one report. The
  range has two addresses, one of them the real contact's, and three allocations
  wrap it: synthetic contacts come to share an address, and a synthetic and the real
  one do.
* `Shutdown`: one command and one other input next to what the threads raise
  themselves. Coalescing leaves a queue shorter than its inputs, so this is enough
  for a non-empty queue at every stage of the shutdown.
* `Logger`: a queue of two, files of three lines, three rotations and nine lines:
  drops before, during and after a write, and a file shifted out of the last slot.

Deadlock is checked except in the `CommandAckGroup` run, where the operator's
commands and the deliveries are used up.

### Fairness

* `MavLink`: the heartbeat loop passes every second, the reconnector visits a
  broken socket, the event loop drains its queue, and time passes on a dead link.
  Nothing is assumed of the peer, of a dial, or of a dead socket reporting.
* `CommandAckGroup`: a recv thread that opened a group reports its command; event
  loop and send worker drain their queues (sends are bounded by a timeout).
* `FmuSearch`: event loop and worker keep running; SMM requests are bounded by
  `connect_timeout_s` and `transfer_timeout_s`. Nothing is assumed of the timers.
* `SearchProgress`: event loop, worker and recv thread keep running and the
  autopilot answers an upload. An engaged autopilot flies its mission, and position
  reports keep coming: strongly fair, because the bound `Room`, which the system
  does not have, may disable both again and again. No operator command is fair.
* `KnownAircraft`: the clock ticks, the event loop drains its queue, and of the recv
  threads with a report to queue some one gets to (strongly fair for the same reason:
  the bound on the queue). Nothing is assumed of the reports; the property supposes
  them.
* `Shutdown`: every thread that can move does, and a blocked one only when it was
  notified; time-outs are not fair. A destructor is strongly fair because it needs
  a mutex that its waiter keeps taking.
* `Logger`: the writer thread keeps running. Writes may fail for ever.

## 4. Proofs

`FMUProofs` proves, for every latch count and target set:
`TypeCorrect`, `StateArbitrated`, `RoleCorrect`, `LatchesFinal` and
`ResolutionTruthful`. Type correctness is inductive by itself. The arbitration
invariant is inductive together with it: each setter re-evaluates, and the two
that may skip `updateState` (battery and altitude readings) leave the arbitration's
inputs alone unless a latch flips. The machine as constructed is not arbitrated
(manual, although comms are lost), hence the disjunct `Unevaluated`. The role
invariant needs only types; finality of latches needs the arbitration invariant,
because `current_state = "terminate"` must imply that the latch is set.
Truthfulness is a property of one step and uses the same lemma about
`Arbitrated`.

It also proves `LatchesTimely` and `LatchesDebounced` for every latch
count and `MaxRun`, from the inductive invariant `CountersAreRuns`, which ties the
saturating counters to the true run lengths.

`LoggerProofs` proves `TypeOK` (the queue's bound, the file's size) and the three
invariants of `Logger` for every bound, file size
and number of rotations. `GapsAreMarked` is not inductive: it needs the books,
that lines issued are those covered, lost, in flight, counted as dropped and
queued (`Books`), and that the queue holds the newest ones without a hole
(`Newest`). That only full files are archived needs `bytes_written = text`: the
counter is the text on disk, refused writes included.

`KnownAircraftProofs` proves `TypeOK`, `AddressesReusedLast`, `ForwardsApart` and
`ReportingAircraftKept` for every set of contacts, real or not, every number of
threads, every range and interval, wraps of the range included. `Issued` says that
an entry fewer allocations old than the range is long has the address that many
steps behind the last one, counted around the range (`Back`), and that no two
entries so close together share one. `Debounced` says that an entry is older than its
contact's last report by less than the interval; `Throttled`, that a recent forward
has an entry of the same age, which is why pruning only old entries changes
nothing.

`SearchProgressProofs` proves `MissionLayout` (every index of every mission: setup
items, each point once and in order, one terminator, last), and `TypeOK`,
`NoPointSkipped`, `CompletedFullyFlown` and `EnteredAtCurrentPoint` for all sizes
and any number of searches. A reached item makes a claim, "the points before me
are flown", that must survive until the worker acts on it. So the inductive
invariant says that of every claim wherever it is: on the link, in the event
queue, in the task queue, in the autopilot's current item and in `current_point`
(`Covered`); and that a search not handed out yet is at point 0. `CoverageKept`
shows that no step of anyone uncovers a claim.

`CommandAckGroupProofs` proves `ActuatedOnce`, `GroupCommandInForce`, one answer per
group (`OneAnswerPerGroup`) and the refinement of `CommandAckSpec`
(`ImplementsAckSpec`), for any servers, commands, contents and deliveries. None of
them is inductive. `Answered` and `Tokens` say where the one answer a copy is owed
is: with the group, in the event queue or in the send queue, and nowhere twice;
`Alike`, that the copies of a group get the group's outcome; `Increasing`, that the
groups opened have growing timestamps as long as no command was repeated, so a
command outside the window of the group's is new; `Latest`, that the last command
queued, or else the one in force, is the group's unless `raced`. The refinement is
proved action by action (`GroupImplementsAckSpec`): delivery, resolution and a sent
ack map to steps of the specification and everything else to stuttering.

`MavProofs` has two parts. It proves the five invariants of `MavUpload` for any searches, targets
and modes. The inductive invariant ties what the three parties believe to each
other at every place the two threads can be: `EvShape` and `RxShape` say what each
thread holds between two lock regions; `Exclusive` is the exclusion of the two kinds
of upload extended into those regions; `Wire` says what an ack under way can still
be an ack of; `Quiet`, `Commanding`, `Resting` and `Flying` relate the command to the
autopilot's mode and mission while the event loop is inside a command, after it, and
after the recv thread has handled the ack. The history variables of the known gaps
appear as hypotheses, where the code does not keep the promise.

For `MavLink` it proves `EdgesAlternate` and `RecoveryRedrives`, for any commands and
any length of the queue. Alternation is inductive, by lemmas about adding an edge to
the end of a queue and taking one from its front; its consequence is that an up edge
is always dispatched to a machine that believes the link lost, so it re-applies the
state. `Redriven` says that the autopilot obeys or that something is still to come
which re-commands it: an up edge or a restart in the queue, a restart not yet heard,
an edge not yet reported, or the first heartbeat. The last case needs `ModeDeferred`
(while the airframe is unknown the deferred mode is the current state's) and a
command sent on a dead link needs `LossesLapse` (a dead link is reported down or has
lapsed, the known gap above). Each operation of the machine is summarised by
`MachineStep`: it commands the state it is in, or changes nothing.

`ShutdownProofs` proves `TypeOK` with the bounds of the queues, `ThreadsOutlived`,
`AcksFlushed` and `DialsJoined` for any commands and inputs. `Labels` and `Joined`
list, for each stage of `run()` and the destructors, which threads have ended and
which components are alive; `Dialled` says that outside `attemptReconnect` a closed,
sound socket has no thread left to join; `Flushed` follows a command queued before
the signal from the event queue to the send queue to the wire, and needs that the
send worker ends only with an empty queue that nobody can fill any more (`main` has
left its loop). The bound of the event queue counts the commands in it, because a
command is queued once. `Erased` proves what the erase loop of `enqueue` leaves:
everything but the erased kind, once and in its type.

`FmuSearchProofs` proves `SearchFlownOnlyWhileSearching` and `QuietSearchIsFlown`,
for any searches, commands and retries. The first is inductive; the second is not, because it speaks of a
moment at which every queue is empty. `Served` says the same of every moment: while
the machine is searching the worker is still to answer (`Asked`: a search task is
queued, or the acquisition is under way and not held back by the backoff), or it has
(`Answered`: the last queued event that settles anything ends the searching or loads
the search held now, and with no such event queued the held search is loaded). A
task that finds the role revoked may be dropped because the role is granted while
searching (`RoleGranted`).

Assumptions: `LatchCountAssumption` (FmuConfig admits counts of at least one),
`TargetAssumption` (the empty target is not a target), `MaxRunAssumption`,
`LoggerAssumption`, `AircraftAssumption` (the eviction age exceeds the interval, as
five minutes and one second do; real addresses are positive numbers), `ProgressAssumption` (a
search has a waypoint, and its mission fits the sequence numbers, which
`uploadSearch` only warns about), `GroupAssumption` (the dedup tolerance exceeds the
clock skew between servers, which the comment on the tolerance states as its
purpose, and the skew is below the time between two commands of the operator), `MissionAssumption` (modes, missions and the absent value are different
things), `ShutdownAssumption` (commands are finitely many and are not other kinds of
event), `SearchAssumption` and `CommandsAssumption` (the commands issued are FSS
commands without a target; the absent search is no search; `MaxRetries` is not
zero). TLC evaluates them on the runs of their modules.

`TypeOK` of a module gives the types of its variables. It is checked by TLC where
it says more than types (`Shutdown`, `SearchProgress`), and proved there; elsewhere
the inductive invariants include the types their argument needs.

Every safety invariant that a passing run checks is a theorem. Only model-checked
are the liveness properties (`DeadSocketRetired`, `CommsViewConverges`,
`SearchIsServed` and their like), which need fairness and ENABLED and are out of the
prover's reach.

## 5. Not modelled

* Configuration parsing, the failsafe-parameter table, wire conversions, altitude
  arithmetic, address resolution: data without control. Floating point is out of
  TLC's reach.
* Position, battery and reached-point reports to FSS: sent and forgotten. Their
  queue, with its coalescing, is in `Shutdown`.
* Stream requests and the per-system setup flags of the MAVLink session, which
  drive nothing the FMU decides on.
* `commandAltitude`: one message that touches no other state; its interplay with
  an upload in flight belongs to the composition of `MavUpload` with the state
  machine.
* The worker's unlocked write of `current_point` next to the recv thread's read
  when it fills in a mission: an int on a machine that reads it whole; the model
  has both orders.
* A failed rename during a log rotation, after which the current file is truncated.
* The FSS and SMM libraries and the autopilot are environment, as nondeterministic
  as the code that uses them has to expect.

## 6. Plan

1. `FMUStateMachine`, `FMULatches` and their proofs (done).
2. `MavLink`, `MavUpload`, `CommandAckGroup`, `FmuSearch` (done).
3. `Shutdown`, `KnownAircraft`, `Logger`, `SearchProgress`, the proofs of the last
   three, and `CommandAckSpec` with its refinement as a checked property (done).
4. Theorems of `CommandAckGroup` with the refinement, of `MavUpload` and of
   `Shutdown` (done).
5. Theorems of `FmuSearch` and `MavLink` (done).
6. The composition of `MavUpload` with the state machine, for altitude commands
   during an upload.
