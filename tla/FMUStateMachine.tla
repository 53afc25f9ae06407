--------------------------- MODULE FMUStateMachine ---------------------------
(***************************************************************************)
(* The FMU state machine (src/src/fmu.cpp, fmu.hpp): priority arbitration  *)
(* between the FSS command, the SMM command and the safety latches.        *)
(*                                                                         *)
(* Every operation runs to completion on the event-loop thread, so each    *)
(* method of the class is one atomic action.  The two interfaces it drives *)
(* are kept as far as the properties need them: ISMM as the searching role *)
(* (search_active), IMAV as what the autopilot was last told (autopilot).  *)
(***************************************************************************)
EXTENDS Naturals

CONSTANTS
  Targets,                  \* targets a goto or an altitude command may carry
  NoTarget,                 \* FSSCommandTarget{}: the other commands carry none
  LowBatteryLatchCount,     \* low_battery_latch_count
  AltitudeBreachLatchCount  \* altitude_breach_latch_count

\* FmuConfig admits latch counts of at least one.
ASSUME LatchCountAssumption ==
  /\ LowBatteryLatchCount \in Nat \ {0}
  /\ AltitudeBreachLatchCount \in Nat \ {0}
ASSUME TargetAssumption == NoTarget \notin Targets

FMUState == {"manual", "searching", "goto", "altitude_adjust", "rtl",
             "waiting_for_tasking", "hold", "low_battery", "failsafe",
             "disarmed", "terminate"}
FSSCommand == {"unknown", "rtl", "goto", "hold", "altitude", "disarm",
               "manual", "terminate", "continue"}
SMMCommand == {"none", "abandon_search", "mission_complete"}
\* One own-ship position report, as setCurrentAltitude tells them apart: no
\* valid fix or a non-finite altitude, above the cap, or not above it.
AltitudeReading == {"no_fix", "over", "under"}

\* What the IMAV calls of actionState tell the autopilot.
MavOp == {"none", "manual", "rtl", "goto", "hold", "altitude", "disarm", "terminate"}
MavCommand == [op : MavOp, target : Targets \cup {NoTarget}]
NoMavCommand == [op |-> "none", target |-> NoTarget]

VARIABLES
  current_state, fss_command, fss_command_target, smm_command,
  low_battery_count, low_battery,
  altitude_breach_count, altitude_clear_count, altitude_breach,
  terminated, fss_comms_lost, mav_comms_lost,
  resolution,     \* FSSCommandResolution returned by the last FSSNewCommand
  search_active,  \* SMM::search_active, the searching role granted through ISMM
  autopilot,      \* the last command that reached the autopilot through IMAV
  link            \* whether a MAVLink send reaches the autopilot

commandVars  == <<fss_command, fss_command_target, smm_command>>
batteryVars  == <<low_battery_count, low_battery>>
altitudeVars == <<altitude_breach_count, altitude_clear_count, altitude_breach>>
commsVars    == <<fss_comms_lost, mav_comms_lost>>
portVars     == <<search_active, autopilot>>
machineVars  == <<current_state, commandVars, batteryVars, altitudeVars,
                  terminated, commsVars, resolution, portVars>>
vars         == <<machineVars, link>>

-----------------------------------------------------------------------------
map_smm_state(cmd) ==
  IF cmd = "mission_complete" THEN "waiting_for_tasking" ELSE "searching"

map_fss_state(cmd) ==
  CASE cmd = "altitude"                -> "altitude_adjust"
    [] cmd = "disarm"                  -> "disarmed"
    [] cmd \in {"continue", "unknown"} -> "searching"
    [] OTHER                           -> cmd  \* rtl, goto, hold, manual, terminate

commandedState(fss, smm) ==
  IF map_fss_state(fss) = "searching" THEN map_smm_state(smm) ELSE map_fss_state(fss)

\* The priority order of updateState, on its inputs.
Arbitrated(term, lowBattery, commsLost, breach, desired) ==
  CASE term       -> "terminate"
    [] ~term /\ lowBattery -> "low_battery"
    [] ~term /\ ~lowBattery /\ commsLost -> "failsafe"
    [] OTHER -> IF breach THEN "rtl" ELSE desired

\* MUTANT: terminate follows the current FSS command instead of latching.
UpdateStateUnlatched ==
  /\ terminated' = (fss_command' = "terminate")
  /\ current_state' = Arbitrated(terminated', low_battery', fss_comms_lost' \/ mav_comms_lost',
                                 altitude_breach', commandedState(fss_command', smm_command'))

\* Runs under the lock after the caller has stored its input, hence the primes.
updateState ==
  /\ terminated' = (terminated \/ fss_command' = "terminate")
  /\ current_state' = Arbitrated(terminated', low_battery', fss_comms_lost' \/ mav_comms_lost',
                                 altitude_breach', commandedState(fss_command', smm_command'))

resolveFSSCommand(desired) ==
  [outcome           |-> IF current_state' = desired THEN "actioned" ELSE "superseded",
   superseding_state |-> IF current_state' = desired THEN "none" ELSE current_state',
   transitioned      |-> current_state' # current_state]

MavOpOf(state) ==
  CASE state \in {"rtl", "failsafe", "low_battery", "waiting_for_tasking"} -> "rtl"
    [] state = "altitude_adjust" -> "altitude"
    [] state = "disarmed"        -> "disarm"
    [] state = "searching"       -> "none"
    [] OTHER                     -> state  \* manual, goto, hold, terminate

MavCommandOf(state, target) ==
  [op     |-> MavOpOf(state),
   target |-> IF state \in {"goto", "altitude_adjust"} THEN target ELSE NoTarget]

\* MUTANT: the searching role survives a transition out of searching.
ActionStateKeepsRole(state) ==
  /\ search_active' = (search_active \/ state = "searching")
  /\ autopilot' = IF state = "searching" \/ ~link
                  THEN autopilot ELSE MavCommandOf(state, fss_command_target')

\* The side effects of entering (or re-applying) state.  searching commands the
\* autopilot only later, through SMM's load-search outcome.  A send with no link
\* is skipped and its failure is recorded nowhere.
actionState(state) ==
  /\ search_active' = CASE state = "searching" -> TRUE
                        [] state = "waiting_for_tasking" -> search_active
                        [] OTHER -> FALSE
  /\ autopilot' = IF state = "searching" \/ ~link
                  THEN autopilot ELSE MavCommandOf(state, fss_command_target')

\* if (changed_to) actionState (*changed_to)
ActionChange ==
  \/ current_state' # current_state /\ actionState(current_state')
  \/ current_state' = current_state /\ UNCHANGED portVars

-----------------------------------------------------------------------------
(* The methods of the class.                                               *)

\* MUTANT: the resolution is judged against the state before the update.
FSSNewCommandStale(cmd, target) ==
  /\ fss_command' = cmd
  /\ fss_command_target' = target
  /\ UNCHANGED <<smm_command, batteryVars, altitudeVars, commsVars>>
  /\ updateState
  /\ resolution' = [outcome |-> IF current_state = commandedState(cmd, smm_command)
                                THEN "actioned" ELSE "superseded",
                    superseding_state |-> IF current_state = commandedState(cmd, smm_command)
                                          THEN "none" ELSE current_state,
                    transitioned |-> current_state' # current_state]
  /\ ActionChange

FSSNewCommand(cmd, target) ==
  /\ fss_command' = cmd
  /\ fss_command_target' = target
  /\ UNCHANGED <<smm_command, batteryVars, altitudeVars, commsVars>>
  /\ updateState
  /\ resolution' = resolveFSSCommand(commandedState(cmd, smm_command))
  /\ ActionChange

SMMNewCommand(cmd) ==
  /\ smm_command' = cmd
  /\ UNCHANGED <<fss_command, fss_command_target, batteryVars, altitudeVars, commsVars, resolution>>
  /\ updateState
  /\ ActionChange

\* Battery and altitude readings leave the arbitration inputs alone unless they
\* flip a latch, and only then is the state re-evaluated.
NoTransition == UNCHANGED <<current_state, terminated, portVars>>

\* MUTANT: the latch engages one reading late, and the counter saturates first.
SetLowBatteryOffByOne(low) ==
  /\ low_battery_count' = CASE ~low -> 0
                            [] low /\ low_battery_count < LowBatteryLatchCount -> low_battery_count + 1
                            [] OTHER -> low_battery_count
  /\ low_battery' = (low_battery \/ (low /\ low_battery_count' > LowBatteryLatchCount))
  /\ UNCHANGED <<commandVars, altitudeVars, commsVars, resolution>>
  /\ IF low_battery' # low_battery THEN updateState /\ ActionChange ELSE NoTransition

setLowBattery(low) ==
  /\ low_battery_count' = CASE ~low -> 0
                            [] low /\ low_battery_count < LowBatteryLatchCount -> low_battery_count + 1
                            [] OTHER -> low_battery_count
  /\ low_battery' = (low_battery \/ (low /\ low_battery_count' >= LowBatteryLatchCount))
  /\ UNCHANGED <<commandVars, altitudeVars, commsVars, resolution>>
  /\ IF low_battery' # low_battery THEN updateState /\ ActionChange ELSE NoTransition

\* One step of a saturating run counter.
Bumped(count) == IF count < AltitudeBreachLatchCount THEN count + 1 ELSE count

\* MUTANT: an over-cap reading does not abandon a clearing run.
SetCurrentAltitudeNoReset(reading) ==
  /\ altitude_breach_count' = CASE reading = "over" -> Bumped(altitude_breach_count)
                                [] reading = "under" -> 0
                                [] OTHER -> altitude_breach_count
  /\ altitude_clear_count' = CASE reading = "under" -> Bumped(altitude_clear_count)
                               [] OTHER -> altitude_clear_count
  /\ altitude_breach' = CASE reading = "over" /\ altitude_breach_count' >= AltitudeBreachLatchCount -> TRUE
                          [] reading = "under" /\ altitude_clear_count' >= AltitudeBreachLatchCount -> FALSE
                          [] OTHER -> altitude_breach
  /\ UNCHANGED <<commandVars, batteryVars, commsVars, resolution>>
  /\ IF altitude_breach' # altitude_breach THEN updateState /\ ActionChange ELSE NoTransition

setCurrentAltitude(reading) ==
  /\ altitude_breach_count' = CASE reading = "over" -> Bumped(altitude_breach_count)
                                [] reading = "under" -> 0
                                [] OTHER -> altitude_breach_count
  /\ altitude_clear_count' = CASE reading = "under" -> Bumped(altitude_clear_count)
                               [] reading = "over" -> 0
                               [] OTHER -> altitude_clear_count
  /\ altitude_breach' = CASE reading = "over" /\ altitude_breach_count' >= AltitudeBreachLatchCount -> TRUE
                          [] reading = "under" /\ altitude_clear_count' >= AltitudeBreachLatchCount -> FALSE
                          [] OTHER -> altitude_breach
  /\ UNCHANGED <<commandVars, batteryVars, commsVars, resolution>>
  /\ IF altitude_breach' # altitude_breach THEN updateState /\ ActionChange ELSE NoTransition

\* MUTANT: the report is stored but the state is not re-evaluated.
SetCommsFailureUnevaluated(failed) ==
  /\ fss_comms_lost' = failed
  /\ UNCHANGED <<commandVars, batteryVars, altitudeVars, mav_comms_lost, resolution>>
  /\ NoTransition

setCommsFailure(failed) ==
  /\ fss_comms_lost' = failed
  /\ UNCHANGED <<commandVars, batteryVars, altitudeVars, mav_comms_lost, resolution>>
  /\ updateState
  /\ ActionChange

\* MUTANT: a recovery that changes no state re-commands nothing.
SetMavCommsFailureNoRedrive(failed) ==
  /\ mav_comms_lost' = failed
  /\ UNCHANGED <<commandVars, batteryVars, altitudeVars, fss_comms_lost, resolution>>
  /\ updateState
  /\ ActionChange

setMavCommsFailure(failed) ==
  /\ mav_comms_lost' = failed
  /\ UNCHANGED <<commandVars, batteryVars, altitudeVars, fss_comms_lost, resolution>>
  /\ updateState
  /\ IF current_state' = current_state /\ mav_comms_lost /\ ~failed
     THEN actionState(current_state)  \* recovered with no transition: re-command
     ELSE ActionChange

reassertState ==
  /\ UNCHANGED <<current_state, commandVars, batteryVars, altitudeVars, terminated,
                 commsVars, resolution>>
  /\ actionState(current_state)

isSearching == current_state = "searching"
isWaitingForTasking == current_state = "waiting_for_tasking"

-----------------------------------------------------------------------------
(* The environment: inputs as the event loop delivers them.  An unknown    *)
(* command is rejected before it becomes an event (handleCommandFrom).     *)

TargetsOf(cmd) == IF cmd \in {"goto", "altitude"} THEN Targets ELSE {NoTarget}

Init ==
  /\ current_state = "manual"
  /\ fss_command = "unknown" /\ fss_command_target = NoTarget
  /\ smm_command = "none"
  /\ low_battery_count = 0 /\ low_battery = FALSE
  /\ altitude_breach_count = 0 /\ altitude_clear_count = 0 /\ altitude_breach = FALSE
  /\ terminated = FALSE
  /\ fss_comms_lost = TRUE /\ mav_comms_lost = FALSE
  /\ resolution = [outcome |-> "actioned", superseding_state |-> "none", transitioned |-> FALSE]
  /\ search_active = FALSE
  /\ autopilot = NoMavCommand
  /\ link \in BOOLEAN

Operation ==
  \/ \E cmd \in FSSCommand \ {"unknown"} : \E target \in TargetsOf(cmd) : FSSNewCommand(cmd, target)
  \/ \E cmd \in SMMCommand : SMMNewCommand(cmd)
  \/ \E low \in BOOLEAN : setLowBattery(low)
  \/ \E reading \in AltitudeReading : setCurrentAltitude(reading)
  \/ \E failed \in BOOLEAN : setCommsFailure(failed)
  \/ \E failed \in BOOLEAN : setMavCommsFailure(failed)
  \/ reassertState

LinkChange == link' = ~link /\ UNCHANGED machineVars

Next == (Operation /\ UNCHANGED link) \/ LinkChange

Spec == Init /\ [][Next]_vars

-----------------------------------------------------------------------------
(* Properties.                                                             *)

\* Every field keeps its type; the debounce counters never pass their latch
\* counts (the saturation in setLowBattery and setCurrentAltitude).
TypeOK ==
  /\ current_state \in FMUState
  /\ fss_command \in FSSCommand
  /\ fss_command_target \in Targets \cup {NoTarget}
  /\ smm_command \in SMMCommand
  /\ low_battery_count \in 0 .. LowBatteryLatchCount
  /\ altitude_breach_count \in 0 .. AltitudeBreachLatchCount
  /\ altitude_clear_count \in 0 .. AltitudeBreachLatchCount
  /\ low_battery \in BOOLEAN /\ altitude_breach \in BOOLEAN /\ terminated \in BOOLEAN
  /\ fss_comms_lost \in BOOLEAN /\ mav_comms_lost \in BOOLEAN
  /\ search_active \in BOOLEAN /\ link \in BOOLEAN
  /\ resolution \in [outcome : {"actioned", "superseded"},
                     superseding_state : FMUState \cup {"none"},
                     transitioned : BOOLEAN]
  /\ autopilot \in MavCommand

\* No input has been evaluated yet: the machine is as constructed.
Unevaluated ==
  /\ current_state = "manual"
  /\ fss_command = "unknown" /\ smm_command = "none"
  /\ ~low_battery /\ ~altitude_breach /\ ~terminated
  /\ fss_comms_lost /\ ~mav_comms_lost

\* The state is never stale: it is the priority arbitration of the inputs the
\* machine holds now (terminate > low battery > comms loss > altitude breach >
\* command), whatever order they arrived in.  Every setter that stores an input
\* must re-evaluate for this to hold (updateState's callers in fmu.cpp).
StateIsArbitrated ==
  \/ Unevaluated
  \/ current_state = Arbitrated(terminated, low_battery, fss_comms_lost \/ mav_comms_lost,
                                altitude_breach, commandedState(fss_command, smm_command))

\* The searching role is held only where a search may fly, and is always held
\* while the machine says it is searching (actionState's cancelSearch/search).
RoleMatchesState ==
  /\ search_active => isSearching \/ isWaitingForTasking
  /\ isSearching => search_active

\* Terminate is final and low battery yields only to terminate, whatever
\* commands, readings and comms reports follow (the latches of fmu.hpp).
LatchesAreFinal ==
  [][/\ current_state = "terminate" => current_state' = "terminate"
     /\ current_state = "low_battery" => current_state' \in {"low_battery", "terminate"}]_vars

\* What a latch that outranks every FSS command but terminate would fly.
LatchState ==
  CASE terminated -> "terminate"
    [] ~terminated /\ low_battery -> "low_battery"
    [] ~terminated /\ ~low_battery /\ (fss_comms_lost \/ mav_comms_lost) -> "failsafe"
    [] OTHER -> IF altitude_breach THEN "rtl" ELSE "none"

\* The answer FSSNewCommand returns tells the operator who flies the aircraft
\* (resolveFSSCommand): when it is actioned no latch does, when it is superseded
\* the latch it names does.  Terminate is engaged by the command itself.  One
\* answer is not the truth, and is given every time: to an RTL during an altitude
\* breach the code says actioned although the breach is in control, where its
\* comment and tests want superseded.
ResolutionIsTruthful ==
  [][\A cmd \in FSSCommand \ {"unknown"}, target \in Targets \cup {NoTarget} :
       FSSNewCommand(cmd, target) =>
         /\ resolution'.outcome = "actioned" =>
              \/ LatchState' = "none"
              \/ LatchState' = "terminate" /\ cmd = "terminate"
              \/ LatchState' = "rtl" /\ cmd = "rtl"
         /\ resolution'.outcome = "superseded" =>
              /\ LatchState' # "none"
              /\ resolution'.superseding_state = LatchState'
         /\ LatchState' = "rtl" /\ cmd = "rtl" => resolution'.outcome = "actioned"]_vars

\* An actioned goto or altitude command is in force at the autopilot if the link
\* carries it, a re-target of the same command included (command-ack-group.hpp).
ActionedTargetIsFlown ==
  [][\A target \in Targets : \A cmd \in {"goto", "altitude"} :
       FSSNewCommand(cmd, target) /\ link /\ resolution'.outcome = "actioned"
         => autopilot'.target = target]_vars
=============================================================================
