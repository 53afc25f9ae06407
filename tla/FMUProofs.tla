------------------------------ MODULE FMUProofs ------------------------------
(***************************************************************************)
(* Proofs for the FMU state machine, for every set of targets and every    *)
(* pair of latch counts: the invariants and action properties of           *)
(* FMUStateMachine, then that its debounced latches are exact, over        *)
(* FMULatches' history of the readings.                                    *)
(***************************************************************************)
EXTENDS FMULatches, TLAPS

-----------------------------------------------------------------------------
(* The state machine.                                                      *)

\* The arbitration of well-typed inputs is a state of the machine.
LEMMA ArbitratedType ==
  ASSUME NEW fss \in FSSCommand, NEW smm \in SMMCommand, NEW term \in BOOLEAN,
         NEW low \in BOOLEAN, NEW lost \in BOOLEAN, NEW breach \in BOOLEAN
  PROVE  /\ commandedState(fss, smm) \in FMUState
         /\ Arbitrated(term, low, lost, breach, commandedState(fss, smm)) \in FMUState
  <1>1. commandedState(fss, smm) \in FMUState
    BY DEF commandedState, map_fss_state, map_smm_state, FMUState, FSSCommand, SMMCommand
  <1>2. QED
    BY <1>1 DEF Arbitrated, FMUState

\* What actionState hands to IMAV for a state is a well-formed command.
LEMMA MavCommandType ==
  ASSUME NEW state \in FMUState, NEW target \in Targets \cup {NoTarget}
  PROVE  MavCommandOf(state, target) \in MavCommand
  <1>1. MavOpOf(state) \in MavOp
    BY DEF MavOpOf, MavOp, FMUState
  <1>2. QED
    BY <1>1 DEF MavCommandOf, MavCommand

\* The effect of actionState on its ports is well typed.
LEMMA ActionStateType ==
  ASSUME TypeOK, NEW state \in FMUState, fss_command_target' \in Targets \cup {NoTarget},
         actionState(state)
  PROVE  search_active' \in BOOLEAN /\ autopilot' \in MavCommand
  <1>1. MavCommandOf(state, fss_command_target') \in MavCommand
    BY MavCommandType
  <1>2. autopilot' \in MavCommand
    BY <1>1 DEF actionState, TypeOK
  <1>3. search_active' \in BOOLEAN
    BY DEF actionState, TypeOK
  <1>4. QED
    BY <1>2, <1>3

\* Re-evaluating well-typed inputs and acting on a change is well typed.
LEMMA UpdateType ==
  ASSUME TypeOK, updateState, ActionChange,
         fss_command' \in FSSCommand, smm_command' \in SMMCommand,
         fss_command_target' \in Targets \cup {NoTarget},
         low_battery' \in BOOLEAN, altitude_breach' \in BOOLEAN,
         fss_comms_lost' \in BOOLEAN, mav_comms_lost' \in BOOLEAN
  PROVE  /\ current_state' \in FMUState /\ terminated' \in BOOLEAN
         /\ search_active' \in BOOLEAN /\ autopilot' \in MavCommand
  <1>1. terminated' \in BOOLEAN
    BY DEF updateState, TypeOK
  <1>2. (fss_comms_lost' \/ mav_comms_lost') \in BOOLEAN
    OBVIOUS
  <1>3. current_state' \in FMUState
    BY <1>1, <1>2, ArbitratedType DEF updateState
  <1>4. search_active' \in BOOLEAN /\ autopilot' \in MavCommand
    <2>1. CASE actionState(current_state')
      BY <1>3, <2>1, ActionStateType
    <2>2. CASE UNCHANGED portVars
      BY <2>2 DEF portVars, TypeOK
    <2>3. QED
      BY <2>1, <2>2 DEF ActionChange
  <1>5. QED
    BY <1>1, <1>3, <1>4

-----------------------------------------------------------------------------
\* Type correctness of FMUStateMachine: in particular the debounce counters stay
\* within their latch counts however many readings arrive.
THEOREM TypeCorrect == Spec => []TypeOK
  <1>1. Init => TypeOK
    <2> SUFFICES ASSUME Init PROVE TypeOK
      OBVIOUS
    <2>1. /\ low_battery_count \in 0 .. LowBatteryLatchCount
          /\ altitude_breach_count \in 0 .. AltitudeBreachLatchCount
          /\ altitude_clear_count \in 0 .. AltitudeBreachLatchCount
      BY LatchCountAssumption DEF Init
    <2>2. resolution \in [outcome : {"actioned", "superseded"},
                          superseding_state : FMUState \cup {"none"},
                          transitioned : BOOLEAN]
      BY DEF Init
    <2>3. autopilot \in MavCommand
      BY DEF Init, MavCommand, MavOp, NoMavCommand
    <2>4. QED
      BY <2>1, <2>2, <2>3 DEF Init, TypeOK, FMUState, FSSCommand, SMMCommand
  <1>2. TypeOK /\ [Next]_vars => TypeOK'
    <2> SUFFICES ASSUME TypeOK, [Next]_vars
                 PROVE  TypeOK'
      OBVIOUS
    <2>1. ASSUME NEW cmd \in FSSCommand, NEW target \in TargetsOf(cmd),
                 FSSNewCommand(cmd, target), UNCHANGED link
          PROVE  TypeOK'
      <3>1. /\ fss_command' \in FSSCommand /\ smm_command' \in SMMCommand
            /\ fss_command_target' \in Targets \cup {NoTarget}
            /\ low_battery' \in BOOLEAN /\ altitude_breach' \in BOOLEAN
            /\ fss_comms_lost' \in BOOLEAN /\ mav_comms_lost' \in BOOLEAN
        BY <2>1 DEF FSSNewCommand, TargetsOf, TypeOK, batteryVars, altitudeVars, commsVars
      <3>2. /\ current_state' \in FMUState /\ terminated' \in BOOLEAN
            /\ search_active' \in BOOLEAN /\ autopilot' \in MavCommand
        BY <2>1, <3>1, UpdateType DEF FSSNewCommand
      <3>3. resolution' \in [outcome : {"actioned", "superseded"},
                             superseding_state : FMUState \cup {"none"},
                             transitioned : BOOLEAN]
        BY <2>1, <3>2 DEF FSSNewCommand, resolveFSSCommand
      <3>4. QED
        BY <2>1, <3>1, <3>2, <3>3 DEF FSSNewCommand, TypeOK, batteryVars, altitudeVars
    <2>2. ASSUME NEW cmd \in SMMCommand, SMMNewCommand(cmd), UNCHANGED link
          PROVE  TypeOK'
      <3>1. /\ fss_command' \in FSSCommand /\ smm_command' \in SMMCommand
            /\ fss_command_target' \in Targets \cup {NoTarget}
            /\ low_battery' \in BOOLEAN /\ altitude_breach' \in BOOLEAN
            /\ fss_comms_lost' \in BOOLEAN /\ mav_comms_lost' \in BOOLEAN
        BY <2>2 DEF SMMNewCommand, TypeOK, batteryVars, altitudeVars, commsVars
      <3>2. /\ current_state' \in FMUState /\ terminated' \in BOOLEAN
            /\ search_active' \in BOOLEAN /\ autopilot' \in MavCommand
        BY <2>2, <3>1, UpdateType DEF SMMNewCommand
      <3>3. QED
        BY <2>2, <3>1, <3>2 DEF SMMNewCommand, TypeOK, batteryVars, altitudeVars
    <2>3. ASSUME NEW low \in BOOLEAN, setLowBattery(low), UNCHANGED link
          PROVE  TypeOK'
      <3>1. low_battery_count' \in 0 .. LowBatteryLatchCount
        BY <2>3, LatchCountAssumption DEF setLowBattery, TypeOK
      <3>2. /\ fss_command' \in FSSCommand /\ smm_command' \in SMMCommand
            /\ fss_command_target' \in Targets \cup {NoTarget}
            /\ low_battery' \in BOOLEAN /\ altitude_breach' \in BOOLEAN
            /\ fss_comms_lost' \in BOOLEAN /\ mav_comms_lost' \in BOOLEAN
        BY <2>3 DEF setLowBattery, TypeOK, commandVars, altitudeVars, commsVars
      <3>3. /\ current_state' \in FMUState /\ terminated' \in BOOLEAN
            /\ search_active' \in BOOLEAN /\ autopilot' \in MavCommand
        <4>1. CASE updateState /\ ActionChange
          BY <3>2, <4>1, UpdateType
        <4>2. CASE NoTransition
          BY <4>2 DEF NoTransition, portVars, TypeOK
        <4>3. QED
          BY <2>3, <4>1, <4>2 DEF setLowBattery
      <3>4. QED
        BY <2>3, <3>1, <3>2, <3>3 DEF setLowBattery, TypeOK, altitudeVars
    <2>4. ASSUME NEW reading \in AltitudeReading, setCurrentAltitude(reading), UNCHANGED link
          PROVE  TypeOK'
      <3>1. /\ altitude_breach_count' \in 0 .. AltitudeBreachLatchCount
            /\ altitude_clear_count' \in 0 .. AltitudeBreachLatchCount
        BY <2>4, LatchCountAssumption DEF setCurrentAltitude, Bumped, TypeOK, AltitudeReading
      <3>2. /\ fss_command' \in FSSCommand /\ smm_command' \in SMMCommand
            /\ fss_command_target' \in Targets \cup {NoTarget}
            /\ low_battery' \in BOOLEAN
            /\ fss_comms_lost' \in BOOLEAN /\ mav_comms_lost' \in BOOLEAN
        BY <2>4 DEF setCurrentAltitude, TypeOK, commandVars, batteryVars, commsVars
      <3>3. altitude_breach' \in BOOLEAN
        BY <2>4 DEF setCurrentAltitude, TypeOK
      <3>4. /\ current_state' \in FMUState /\ terminated' \in BOOLEAN
            /\ search_active' \in BOOLEAN /\ autopilot' \in MavCommand
        <4>1. CASE updateState /\ ActionChange
          BY <3>2, <3>3, <4>1, UpdateType
        <4>2. CASE NoTransition
          BY <4>2 DEF NoTransition, portVars, TypeOK
        <4>3. QED
          BY <2>4, <4>1, <4>2 DEF setCurrentAltitude
      <3>5. QED
        BY <2>4, <3>1, <3>2, <3>3, <3>4 DEF setCurrentAltitude, TypeOK, batteryVars
    <2>5. ASSUME NEW failed \in BOOLEAN, setCommsFailure(failed), UNCHANGED link
          PROVE  TypeOK'
      <3>1. /\ fss_command' \in FSSCommand /\ smm_command' \in SMMCommand
            /\ fss_command_target' \in Targets \cup {NoTarget}
            /\ low_battery' \in BOOLEAN /\ altitude_breach' \in BOOLEAN
            /\ fss_comms_lost' \in BOOLEAN /\ mav_comms_lost' \in BOOLEAN
        BY <2>5 DEF setCommsFailure, TypeOK, commandVars, batteryVars, altitudeVars
      <3>2. /\ current_state' \in FMUState /\ terminated' \in BOOLEAN
            /\ search_active' \in BOOLEAN /\ autopilot' \in MavCommand
        BY <2>5, <3>1, UpdateType DEF setCommsFailure
      <3>3. QED
        BY <2>5, <3>1, <3>2 DEF setCommsFailure, TypeOK, batteryVars, altitudeVars
    <2>6. ASSUME NEW failed \in BOOLEAN, setMavCommsFailure(failed), UNCHANGED link
          PROVE  TypeOK'
      <3>1. /\ fss_command' \in FSSCommand /\ smm_command' \in SMMCommand
            /\ fss_command_target' \in Targets \cup {NoTarget}
            /\ low_battery' \in BOOLEAN /\ altitude_breach' \in BOOLEAN
            /\ fss_comms_lost' \in BOOLEAN /\ mav_comms_lost' \in BOOLEAN
        BY <2>6 DEF setMavCommsFailure, TypeOK, commandVars, batteryVars, altitudeVars
      <3>2. /\ current_state' \in FMUState /\ terminated' \in BOOLEAN
            /\ search_active' \in BOOLEAN /\ autopilot' \in MavCommand
        <4>1. CASE ActionChange
          BY <2>6, <3>1, <4>1, UpdateType DEF setMavCommsFailure
        <4>2. CASE actionState(current_state) /\ current_state' = current_state
          <5>1. current_state \in FMUState /\ current_state' \in FMUState
            BY <4>2 DEF TypeOK
          <5>2. search_active' \in BOOLEAN /\ autopilot' \in MavCommand
            BY <3>1, <4>2, <5>1, ActionStateType
          <5>3. terminated' \in BOOLEAN
            BY <2>6 DEF setMavCommsFailure, updateState, TypeOK
          <5>4. QED
            BY <5>1, <5>2, <5>3
        <4>3. QED
          BY <2>6, <4>1, <4>2 DEF setMavCommsFailure
      <3>3. QED
        BY <2>6, <3>1, <3>2 DEF setMavCommsFailure, TypeOK, batteryVars, altitudeVars
    <2>7. CASE reassertState /\ UNCHANGED link
      <3>1. search_active' \in BOOLEAN /\ autopilot' \in MavCommand
        BY <2>7, ActionStateType DEF reassertState, TypeOK, commandVars
      <3>2. QED
        BY <2>7, <3>1 DEF reassertState, TypeOK, commandVars, batteryVars, altitudeVars, commsVars
    <2>8. CASE LinkChange
      BY <2>8 DEF LinkChange, TypeOK, machineVars, commandVars, batteryVars, altitudeVars,
         commsVars, portVars
    <2>9. CASE UNCHANGED vars
      BY <2>9 DEF TypeOK, vars, machineVars, commandVars, batteryVars, altitudeVars, commsVars, portVars
    <2>10. QED
      BY <2>1, <2>2, <2>3, <2>4, <2>5, <2>6, <2>7, <2>8, <2>9 DEF Next, Operation
  <1>3. QED
    BY <1>1, <1>2, PTL DEF Spec

\* The state is never stale: it is the arbitration of the inputs held now.  The
\* setters that store an input re-evaluate; the readings that flip no latch leave
\* every input of the arbitration alone, as do reassertState and the link.
THEOREM StateArbitrated == Spec => []StateIsArbitrated
  <1>1. Init => StateIsArbitrated
    BY DEF Init, StateIsArbitrated, Unevaluated
  <1>2. TypeOK /\ StateIsArbitrated /\ [Next]_vars => StateIsArbitrated'
    <2> SUFFICES ASSUME TypeOK, StateIsArbitrated, [Next]_vars
                 PROVE  StateIsArbitrated'
      OBVIOUS
    <2>1. CASE updateState
      BY <2>1 DEF updateState, StateIsArbitrated
    <2>2. CASE UNCHANGED <<current_state, fss_command, smm_command, low_battery,
                           altitude_breach, terminated, fss_comms_lost, mav_comms_lost>>
      BY <2>2 DEF StateIsArbitrated, Unevaluated
    <2>3. ASSUME NEW low \in BOOLEAN, setLowBattery(low)
          PROVE  StateIsArbitrated'
      BY <2>1, <2>2, <2>3 DEF setLowBattery, NoTransition, commandVars, altitudeVars, commsVars
    <2>4. ASSUME NEW reading \in AltitudeReading, setCurrentAltitude(reading)
          PROVE  StateIsArbitrated'
      BY <2>1, <2>2, <2>4 DEF setCurrentAltitude, NoTransition, commandVars, batteryVars, commsVars
    <2>5. CASE reassertState \/ LinkChange \/ UNCHANGED vars
      BY <2>2, <2>5 DEF reassertState, LinkChange, vars, machineVars, commandVars, batteryVars,
         altitudeVars, commsVars
    <2>6. QED
      BY <2>1, <2>3, <2>4, <2>5
         DEF Next, Operation, FSSNewCommand, SMMNewCommand, setCommsFailure, setMavCommsFailure
  <1>3. QED
    BY <1>1, <1>2, TypeCorrect, PTL DEF Spec

\* The searching role follows the state: every transition runs actionState, which
\* grants the role on entry to searching and revokes it everywhere but there and
\* in waiting_for_tasking; a step without actionState leaves both alone.
THEOREM RoleCorrect == Spec => []RoleMatchesState
  <1>1. Init => RoleMatchesState
    BY DEF Init, RoleMatchesState, isSearching, isWaitingForTasking
  <1>2. RoleMatchesState /\ [Next]_vars => RoleMatchesState'
    <2> SUFFICES ASSUME RoleMatchesState, [Next]_vars
                 PROVE  RoleMatchesState'
      OBVIOUS
    <2>1. CASE actionState(current_state')
      <3>1. CASE current_state' = "searching"
        BY <2>1, <3>1 DEF actionState, RoleMatchesState, isSearching, isWaitingForTasking
      <3>2. CASE current_state' = "waiting_for_tasking"
        BY <3>2 DEF RoleMatchesState, isSearching, isWaitingForTasking
      <3>3. CASE current_state' \notin {"searching", "waiting_for_tasking"}
        BY <2>1, <3>3 DEF actionState, RoleMatchesState, isSearching, isWaitingForTasking
      <3>4. QED
        BY <3>1, <3>2, <3>3
    <2>2. CASE UNCHANGED <<current_state, search_active>>
      BY <2>2 DEF RoleMatchesState, isSearching, isWaitingForTasking
    <2>3. CASE ActionChange
      BY <2>1, <2>2, <2>3 DEF ActionChange, portVars
    <2>4. ASSUME NEW low \in BOOLEAN, setLowBattery(low)
          PROVE  RoleMatchesState'
      BY <2>2, <2>3, <2>4 DEF setLowBattery, NoTransition, portVars
    <2>5. ASSUME NEW reading \in AltitudeReading, setCurrentAltitude(reading)
          PROVE  RoleMatchesState'
      BY <2>2, <2>3, <2>5 DEF setCurrentAltitude, NoTransition, portVars
    <2>6. ASSUME NEW failed \in BOOLEAN, setMavCommsFailure(failed)
          PROVE  RoleMatchesState'
      <3>1. CASE actionState(current_state) /\ current_state' = current_state
        BY <2>1, <3>1
      <3>2. QED
        BY <2>3, <2>6, <3>1 DEF setMavCommsFailure
    <2>7. CASE reassertState
      BY <2>1, <2>7 DEF reassertState
    <2>8. CASE LinkChange \/ UNCHANGED vars
      BY <2>2, <2>8 DEF LinkChange, vars, machineVars, portVars
    <2>9. QED
      BY <2>3, <2>4, <2>5, <2>6, <2>7, <2>8
         DEF Next, Operation, FSSNewCommand, SMMNewCommand, setCommsFailure
  <1>3. QED
    BY <1>1, <1>2, PTL DEF Spec

-----------------------------------------------------------------------------
\* The two states that only a restart leaves are backed by their latches.
LatchBacked ==
  /\ current_state = "terminate" => terminated
  /\ current_state = "low_battery" => low_battery

\* An evaluation puts the machine where its latches say.
LEMMA EvaluationBacked ==
  ASSUME updateState, fss_command' \in FSSCommand, smm_command' \in SMMCommand,
         low_battery' \in BOOLEAN, terminated \in BOOLEAN
  PROVE  /\ LatchBacked'
         /\ terminated => current_state' = "terminate"
         /\ low_battery' => current_state' \in {"low_battery", "terminate"}
  <1>1. commandedState(fss_command', smm_command') # "low_battery"
    BY DEF commandedState, map_fss_state, map_smm_state, FSSCommand, SMMCommand
  <1>2. commandedState(fss_command', smm_command') = "terminate" => fss_command' = "terminate"
    BY DEF commandedState, map_fss_state, map_smm_state, FSSCommand, SMMCommand
  <1>3. CASE terminated'
    BY <1>3 DEF updateState, Arbitrated, LatchBacked
  <1>4. CASE ~terminated' /\ low_battery'
    BY <1>4 DEF updateState, Arbitrated, LatchBacked
  <1>5. CASE ~terminated' /\ ~low_battery'
    <2>1. current_state' \in {"failsafe", "rtl", commandedState(fss_command', smm_command')}
      BY <1>5 DEF updateState, Arbitrated
    <2>2. commandedState(fss_command', smm_command') # "terminate"
      BY <1>2, <1>5 DEF updateState
    <2>3. ~terminated
      BY <1>5 DEF updateState
    <2>4. QED
      BY <1>1, <1>5, <2>1, <2>2, <2>3 DEF LatchBacked
  <1>6. QED
    BY <1>3, <1>4, <1>5 DEF updateState

\* Every step either evaluates, with the battery latch no weaker than before, or
\* leaves the state and both latches alone.
LEMMA StepEvaluatesOrKeeps ==
  ASSUME TypeOK, TypeOK', [Next]_vars
  PROVE  \/ updateState /\ (low_battery => low_battery')
         \/ UNCHANGED <<current_state, terminated, low_battery>>
  <1>1. ASSUME NEW low \in BOOLEAN, setLowBattery(low)
        PROVE  \/ updateState /\ (low_battery => low_battery')
               \/ UNCHANGED <<current_state, terminated, low_battery>>
    BY <1>1 DEF setLowBattery, NoTransition
  <1>2. ASSUME NEW reading \in AltitudeReading, setCurrentAltitude(reading)
        PROVE  \/ updateState /\ (low_battery => low_battery')
               \/ UNCHANGED <<current_state, terminated, low_battery>>
    BY <1>2 DEF setCurrentAltitude, NoTransition, batteryVars
  <1>3. CASE reassertState \/ LinkChange \/ UNCHANGED vars
    BY <1>3 DEF reassertState, LinkChange, vars, machineVars, batteryVars
  <1>4. QED
    BY <1>1, <1>2, <1>3 DEF Next, Operation, FSSNewCommand, SMMNewCommand, setCommsFailure,
       setMavCommsFailure, batteryVars

\* Terminate is final and low battery yields only to terminate.
THEOREM LatchesFinal == Spec => LatchesAreFinal
  <1>1. Init => LatchBacked
    BY DEF Init, LatchBacked
  <1>2. TypeOK /\ TypeOK' /\ LatchBacked /\ [Next]_vars => LatchBacked'
    <2> SUFFICES ASSUME TypeOK, TypeOK', LatchBacked, [Next]_vars
                 PROVE  LatchBacked'
      OBVIOUS
    <2>1. CASE updateState
      BY <2>1, EvaluationBacked DEF TypeOK
    <2>2. CASE UNCHANGED <<current_state, terminated, low_battery>>
      BY <2>2 DEF LatchBacked
    <2>3. QED
      BY <2>1, <2>2, StepEvaluatesOrKeeps
  <1>3. TypeOK /\ TypeOK' /\ LatchBacked /\ [Next]_vars
          => [/\ current_state = "terminate" => current_state' = "terminate"
              /\ current_state = "low_battery" => current_state' \in {"low_battery", "terminate"}]_vars
    <2> SUFFICES ASSUME TypeOK, TypeOK', LatchBacked, [Next]_vars
                 PROVE  /\ current_state = "terminate" => current_state' = "terminate"
                        /\ current_state = "low_battery" => current_state' \in {"low_battery", "terminate"}
      OBVIOUS
    <2>1. CASE updateState /\ (low_battery => low_battery')
      BY <2>1, EvaluationBacked DEF TypeOK, LatchBacked
    <2>2. CASE UNCHANGED <<current_state, terminated, low_battery>>
      BY <2>2
    <2>3. QED
      BY <2>1, <2>2, StepEvaluatesOrKeeps
  <1>4. QED
    BY <1>1, <1>2, <1>3, TypeCorrect, PTL DEF Spec, LatchesAreFinal

\* The acknowledgement tells who flies the aircraft: actioned, no latch does,
\* superseded, the one it names does; an RTL during an altitude breach is always
\* answered actioned.
THEOREM ResolutionTruthful == Spec => ResolutionIsTruthful
  <1> DEFINE Truthful(cmd) ==
        /\ resolution'.outcome = "actioned" =>
             \/ LatchState' = "none"
             \/ LatchState' = "terminate" /\ cmd = "terminate"
             \/ LatchState' = "rtl" /\ cmd = "rtl"
        /\ resolution'.outcome = "superseded" =>
             /\ LatchState' # "none"
             /\ resolution'.superseding_state = LatchState'
        /\ LatchState' = "rtl" /\ cmd = "rtl" => resolution'.outcome = "actioned"
  <1>1. ASSUME TypeOK', NEW cmd \in FSSCommand \ {"unknown"},
               NEW target \in Targets \cup {NoTarget}, FSSNewCommand(cmd, target)
        PROVE  Truthful(cmd)
    <2> DEFINE desired == commandedState(cmd, smm_command)
    <2>1. resolution' = resolveFSSCommand(desired)
      BY <1>1 DEF FSSNewCommand
    <2>2. current_state' = Arbitrated(terminated', low_battery', fss_comms_lost' \/ mav_comms_lost',
                                      altitude_breach', desired)
      BY <1>1 DEF FSSNewCommand, updateState
    <2>3. current_state' # "none"
      BY <1>1 DEF TypeOK, FMUState
    <2>4. current_state' = IF LatchState' = "none" THEN desired ELSE LatchState'
      BY <2>2 DEF LatchState, Arbitrated
    <2>5. ASSUME resolution'.outcome = "superseded"
          PROVE  LatchState' # "none" /\ resolution'.superseding_state = LatchState'
      <3>1. current_state' # desired /\ resolution'.superseding_state = current_state'
        BY <2>1, <2>5 DEF resolveFSSCommand
      <3> QED
        BY <2>4, <3>1
    <2>6. ASSUME resolution'.outcome = "actioned", LatchState' # "none"
          PROVE  \/ LatchState' = "terminate" /\ cmd = "terminate"
                 \/ LatchState' = "rtl" /\ cmd = "rtl"
      <3>1. LatchState' = desired
        BY <2>1, <2>4, <2>6 DEF resolveFSSCommand
      <3>2. LatchState' \in {"terminate", "low_battery", "failsafe", "rtl"}
        BY <2>6 DEF LatchState
      <3>3. desired \in {"terminate", "low_battery", "failsafe", "rtl"} =>
              cmd \in {"terminate", "low_battery", "failsafe", "rtl"} /\ desired = cmd
        BY DEF commandedState, map_fss_state, map_smm_state, FSSCommand
      <3> QED
        BY <3>1, <3>2, <3>3 DEF FSSCommand
    <2>7. ASSUME LatchState' = "rtl", cmd = "rtl"
          PROVE  resolution'.outcome = "actioned"
      <3>1. desired = "rtl"
        BY <2>7 DEF commandedState, map_fss_state
      <3> QED
        BY <2>1, <2>4, <2>7, <3>1 DEF resolveFSSCommand
    <2>8. QED
      BY <2>5, <2>6, <2>7
  <1>2. TypeOK' =>
          [\A cmd \in FSSCommand \ {"unknown"}, target \in Targets \cup {NoTarget} :
             FSSNewCommand(cmd, target) => Truthful(cmd)]_vars
    BY <1>1
  <1>3. QED
    BY <1>2, TypeCorrect, PTL DEF Spec, ResolutionIsTruthful

-----------------------------------------------------------------------------
(* The debounced latches.                                                  *)

\* What the argument needs of TypeOK: the latches are Booleans.
LatchTypes == low_battery \in BOOLEAN /\ altitude_breach \in BOOLEAN

\* The inductive invariant.
DebounceInv == LatchTypes /\ CountersAreRuns /\ LatchesAreTimely

\* Nothing has been read yet: every run and every counter is zero.
LEMMA DebounceInit == HInit => DebounceInv
  <1> SUFFICES ASSUME HInit PROVE DebounceInv
    OBVIOUS
  <1>1. LatchTypes
    BY DEF HInit, Init, LatchTypes
  <1>2. CountersAreRuns
    BY LatchCountAssumption DEF HInit, Init, CountersAreRuns, Saturated
  <1>3. ~(low_run >= LowBatteryLatchCount) /\ ~(over_run >= AltitudeBreachLatchCount)
    BY LatchCountAssumption DEF HInit
  <1>4. ~(under_run >= AltitudeBreachLatchCount)
    BY LatchCountAssumption DEF HInit
  <1>5. QED
    BY <1>1, <1>2, <1>3, <1>4 DEF DebounceInv, LatchesAreTimely

\* Commands, comms reports, re-assertions and link changes touch no counter and no latch.
LEMMA OtherInputKeeps ==
  ASSUME OtherInput \/ UNCHANGED hvars
  PROVE  UNCHANGED <<batteryVars, altitudeVars, runVars>>
  BY DEF OtherInput, FSSNewCommand, SMMNewCommand, setCommsFailure, setMavCommsFailure,
     reassertState, LinkChange, hvars, vars, machineVars

\* A battery reading extends or ends the low run, and the latch follows it.
LEMMA BatteryStep ==
  ASSUME DebounceInv, NEW low \in BOOLEAN, BatteryReading(low)
  PROVE  /\ DebounceInv'
         /\ low_battery' # low_battery => low_battery' /\ low_run' = LowBatteryLatchCount
         /\ altitude_breach' = altitude_breach
  <1>1. UNCHANGED <<altitude_breach_count, altitude_clear_count, altitude_breach, over_run, under_run>>
    BY DEF BatteryReading, setLowBattery, altitudeVars
  <1>2. low_run' = (IF low THEN low_run + 1 ELSE 0) /\ low_run' \in Nat
    BY DEF BatteryReading, DebounceInv, CountersAreRuns
  <1>3. /\ low_battery' = (low_battery \/ (low /\ low_battery_count' >= LowBatteryLatchCount))
        /\ low_battery_count' = CASE ~low -> 0
                                  [] low /\ low_battery_count < LowBatteryLatchCount -> low_battery_count + 1
                                  [] OTHER -> low_battery_count
    BY DEF BatteryReading, setLowBattery
  <1>4. Saturated(low_battery_count, low_run, LowBatteryLatchCount)'
    <2>1. CASE ~low
      BY <1>2, <1>3, <2>1, LatchCountAssumption DEF Saturated
    <2>2. CASE low /\ low_battery_count < LowBatteryLatchCount
      <3>1. low_battery_count' = low_battery_count + 1
        BY <1>3, <2>2
      <3>2. QED
        BY <1>2, <2>2, <3>1, LatchCountAssumption DEF DebounceInv, CountersAreRuns, Saturated
    <2>3. CASE low /\ ~(low_battery_count < LowBatteryLatchCount)
      <3>1. low_battery_count' = low_battery_count
        BY <1>3, <2>3
      <3>2. QED
        BY <1>2, <2>3, <3>1, LatchCountAssumption DEF DebounceInv, CountersAreRuns, Saturated
    <2>4. QED
      BY <2>1, <2>2, <2>3
  <1>5. low_run' >= LowBatteryLatchCount => low_battery'
    BY <1>2, <1>3, <1>4, LatchCountAssumption DEF Saturated
  <1>6. low_battery' # low_battery => low_battery' /\ low_run' = LowBatteryLatchCount
    <2> SUFFICES ASSUME low_battery' # low_battery
                 PROVE  low_battery' /\ low_run' = LowBatteryLatchCount
      OBVIOUS
    <2>1. low /\ ~low_battery /\ low_battery' /\ low_battery_count' >= LowBatteryLatchCount
      BY <1>3 DEF DebounceInv, LatchTypes
    <2>2. low_run < LowBatteryLatchCount
      BY <2>1, LatchCountAssumption DEF DebounceInv, CountersAreRuns, LatchesAreTimely
    <2>3. QED
      BY <1>2, <1>4, <2>1, <2>2, LatchCountAssumption DEF Saturated, DebounceInv, CountersAreRuns
  <1>7. low_battery' \in BOOLEAN
    BY <1>3
  <1>8. QED
    BY <1>1, <1>2, <1>4, <1>5, <1>6, <1>7 DEF DebounceInv, LatchTypes, CountersAreRuns, Saturated,
       LatchesAreTimely

\* A position reading extends one altitude run and ends the other, or (no fix)
\* leaves both; the breach latch follows whichever run is complete.
LEMMA PositionStep ==
  ASSUME DebounceInv, NEW reading \in AltitudeReading, PositionReading(reading)
  PROVE  /\ DebounceInv'
         /\ low_battery' = low_battery
         /\ altitude_breach' # altitude_breach =>
              (IF altitude_breach' THEN over_run' ELSE under_run') = AltitudeBreachLatchCount
  <1> USE LatchCountAssumption
  <1>1. UNCHANGED <<low_battery_count, low_battery, low_run>>
    BY DEF PositionReading, setCurrentAltitude, batteryVars
  <1>2. CASE reading = "over"
    <2>1. over_run' = over_run + 1 /\ under_run' = 0
      BY <1>2 DEF PositionReading
    <2>2. /\ altitude_breach_count' = Bumped(altitude_breach_count)
          /\ altitude_clear_count' = 0
      BY <1>2 DEF PositionReading, setCurrentAltitude
    <2>3. CountersAreRuns'
      BY <1>1, <2>1, <2>2 DEF DebounceInv, CountersAreRuns, Saturated, Bumped
    <2>4. CASE altitude_breach_count' >= AltitudeBreachLatchCount
      <3>1. altitude_breach' = TRUE
        BY <1>2, <2>4 DEF PositionReading, setCurrentAltitude
      <3>2. LatchesAreTimely'
        BY <1>1, <2>1, <3>1 DEF DebounceInv, LatchesAreTimely
      <3>3. altitude_breach' # altitude_breach => over_run < AltitudeBreachLatchCount
        <4>1. over_run < AltitudeBreachLatchCount \/ over_run >= AltitudeBreachLatchCount
          BY DEF DebounceInv, CountersAreRuns
        <4>2. over_run >= AltitudeBreachLatchCount => altitude_breach
          BY DEF DebounceInv, LatchesAreTimely
        <4>3. altitude_breach => altitude_breach' = altitude_breach
          BY <3>1 DEF DebounceInv, LatchTypes
        <4>4. QED
          BY <4>1, <4>2, <4>3
      <3>4. over_run < AltitudeBreachLatchCount => over_run' = AltitudeBreachLatchCount
        BY <2>1, <2>3, <2>4 DEF DebounceInv, CountersAreRuns, Saturated
      <3>5. QED
        BY <1>1, <2>3, <3>1, <3>2, <3>3, <3>4 DEF DebounceInv, LatchTypes
    <2>5. CASE ~(altitude_breach_count' >= AltitudeBreachLatchCount)
      <3>1. altitude_breach' = altitude_breach
        BY <1>2, <2>5 DEF PositionReading, setCurrentAltitude
      <3>2. ~(over_run' >= AltitudeBreachLatchCount) /\ ~(under_run' >= AltitudeBreachLatchCount)
        BY <2>1, <2>3, <2>5 DEF CountersAreRuns, Saturated
      <3>3. QED
        BY <1>1, <2>3, <3>1, <3>2 DEF DebounceInv, LatchTypes, LatchesAreTimely
    <2>6. QED
      BY <2>4, <2>5
  <1>3. CASE reading = "under"
    <2>1. under_run' = under_run + 1 /\ over_run' = 0
      BY <1>3 DEF PositionReading
    <2>2. /\ altitude_clear_count' = Bumped(altitude_clear_count)
          /\ altitude_breach_count' = 0
      BY <1>3 DEF PositionReading, setCurrentAltitude
    <2>3. CountersAreRuns'
      BY <1>1, <2>1, <2>2 DEF DebounceInv, CountersAreRuns, Saturated, Bumped
    <2>4. CASE altitude_clear_count' >= AltitudeBreachLatchCount
      <3>1. altitude_breach' = FALSE
        BY <1>3, <2>4 DEF PositionReading, setCurrentAltitude
      <3>2. LatchesAreTimely'
        BY <1>1, <2>1, <3>1 DEF DebounceInv, LatchesAreTimely
      <3>3. altitude_breach' # altitude_breach => under_run < AltitudeBreachLatchCount
        <4>1. under_run < AltitudeBreachLatchCount \/ under_run >= AltitudeBreachLatchCount
          BY DEF DebounceInv, CountersAreRuns
        <4>2. under_run >= AltitudeBreachLatchCount => ~altitude_breach
          BY DEF DebounceInv, LatchesAreTimely
        <4>3. ~altitude_breach => altitude_breach' = altitude_breach
          BY <3>1 DEF DebounceInv, LatchTypes
        <4>4. QED
          BY <4>1, <4>2, <4>3
      <3>4. under_run < AltitudeBreachLatchCount => under_run' = AltitudeBreachLatchCount
        BY <2>1, <2>3, <2>4 DEF DebounceInv, CountersAreRuns, Saturated
      <3>5. QED
        BY <1>1, <2>3, <3>1, <3>2, <3>3, <3>4 DEF DebounceInv, LatchTypes
    <2>5. CASE ~(altitude_clear_count' >= AltitudeBreachLatchCount)
      <3>1. altitude_breach' = altitude_breach
        BY <1>3, <2>5 DEF PositionReading, setCurrentAltitude
      <3>2. ~(under_run' >= AltitudeBreachLatchCount) /\ ~(over_run' >= AltitudeBreachLatchCount)
        BY <2>1, <2>3, <2>5 DEF CountersAreRuns, Saturated
      <3>3. QED
        BY <1>1, <2>3, <3>1, <3>2 DEF DebounceInv, LatchTypes, LatchesAreTimely
    <2>6. QED
      BY <2>4, <2>5
  <1>4. CASE reading = "no_fix"
    <2>1. UNCHANGED <<altitudeVars, over_run, under_run>>
      BY <1>4 DEF PositionReading, setCurrentAltitude, altitudeVars
    <2>2. QED
      BY <1>1, <2>1 DEF DebounceInv, LatchTypes, CountersAreRuns, Saturated, LatchesAreTimely,
         altitudeVars
  <1>5. QED
    BY <1>2, <1>3, <1>4 DEF AltitudeReading

\* One step of HSpec keeps the invariant and moves a latch only at a full run.
LEMMA DebounceStep ==
  ASSUME DebounceInv, [HNext]_hvars
  PROVE  /\ DebounceInv'
         /\ low_battery' # low_battery => low_battery' /\ low_run' = LowBatteryLatchCount
         /\ altitude_breach' # altitude_breach =>
              (IF altitude_breach' THEN over_run' ELSE under_run') = AltitudeBreachLatchCount
  <1>1. ASSUME NEW low \in BOOLEAN, BatteryReading(low)
        PROVE  /\ DebounceInv'
               /\ low_battery' # low_battery => low_battery' /\ low_run' = LowBatteryLatchCount
               /\ altitude_breach' = altitude_breach
    BY <1>1, BatteryStep
  <1>2. ASSUME NEW reading \in AltitudeReading, PositionReading(reading)
        PROVE  /\ DebounceInv'
               /\ low_battery' = low_battery
               /\ altitude_breach' # altitude_breach =>
                    (IF altitude_breach' THEN over_run' ELSE under_run') = AltitudeBreachLatchCount
    BY <1>2, PositionStep
  <1>3. ASSUME OtherInput \/ UNCHANGED hvars
        PROVE  DebounceInv' /\ low_battery' = low_battery /\ altitude_breach' = altitude_breach
    BY <1>3, OtherInputKeeps DEF batteryVars, altitudeVars, runVars, DebounceInv, LatchTypes,
       CountersAreRuns, Saturated, LatchesAreTimely
  <1>4. QED
    BY <1>1, <1>2, <1>3 DEF HNext

\* A latch engages (or the altitude latch clears) no later than its run completes.
THEOREM LatchesTimely == HSpec => []LatchesAreTimely
  <1>1. DebounceInv /\ [HNext]_hvars => DebounceInv'
    BY DebounceStep
  <1>2. DebounceInv => LatchesAreTimely
    BY DEF DebounceInv
  <1>3. QED
    BY <1>1, <1>2, DebounceInit, PTL DEF HSpec

\* ... and only on the reading that completes a run; the battery latch never clears.
THEOREM LatchesDebounced == HSpec => LatchesAreDebounced
  <1>1. DebounceInv /\ [HNext]_hvars => DebounceInv'
    BY DebounceStep
  <1>2. DebounceInv /\ [HNext]_hvars =>
          [/\ low_battery' # low_battery => low_battery' /\ low_run' = LowBatteryLatchCount
           /\ altitude_breach' # altitude_breach =>
                (IF altitude_breach' THEN over_run' ELSE under_run') = AltitudeBreachLatchCount]_hvars
    BY DebounceStep
  <1>3. QED
    BY <1>1, <1>2, DebounceInit, PTL DEF HSpec, LatchesAreDebounced
=============================================================================
