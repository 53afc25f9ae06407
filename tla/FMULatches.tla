------------------------------ MODULE FMULatches ------------------------------
(***************************************************************************)
(* FMUStateMachine with the history its debounced latches are meant to be  *)
(* a function of: how long the current runs of low-battery, over-cap and   *)
(* under-cap readings are, counted without saturation.                     *)
(***************************************************************************)
EXTENDS FMUStateMachine

CONSTANT MaxRun  \* bound on the runs explored
ASSUME MaxRunAssumption == MaxRun \in Nat

VARIABLES
  low_run,    \* consecutive low battery readings
  over_run,   \* consecutive valid readings above the altitude cap
  under_run   \* consecutive valid readings not above it

runVars == <<low_run, over_run, under_run>>
hvars == <<vars, runVars>>

HInit == Init /\ low_run = 0 /\ over_run = 0 /\ under_run = 0

BatteryReading(low) ==
  /\ low => low_run < MaxRun
  /\ setLowBattery(low)
  /\ low_run' = IF low THEN low_run + 1 ELSE 0
  /\ UNCHANGED <<link, over_run, under_run>>

PositionReading(reading) ==
  /\ reading = "over" => over_run < MaxRun
  /\ reading = "under" => under_run < MaxRun
  /\ setCurrentAltitude(reading)
  /\ over_run' = CASE reading = "over" -> over_run + 1
                   [] reading = "under" -> 0
                   [] OTHER -> over_run
  /\ under_run' = CASE reading = "under" -> under_run + 1
                    [] reading = "over" -> 0
                    [] OTHER -> under_run
  /\ UNCHANGED <<link, low_run>>

OtherInput ==
  /\ \/ \E cmd \in FSSCommand \ {"unknown"} : \E target \in TargetsOf(cmd) :
          FSSNewCommand(cmd, target) /\ UNCHANGED link
     \/ \E cmd \in SMMCommand : SMMNewCommand(cmd) /\ UNCHANGED link
     \/ \E failed \in BOOLEAN : setCommsFailure(failed) /\ UNCHANGED link
     \/ \E failed \in BOOLEAN : setMavCommsFailure(failed) /\ UNCHANGED link
     \/ reassertState /\ UNCHANGED link
     \/ LinkChange
  /\ UNCHANGED runVars

HNext ==
  \/ \E low \in BOOLEAN : BatteryReading(low)
  \/ \E reading \in AltitudeReading : PositionReading(reading)
  \/ OtherInput

HSpec == HInit /\ [][HNext]_hvars

-----------------------------------------------------------------------------
Saturated(count, run, limit) == count = IF run < limit THEN run ELSE limit

\* The saturating counters of setLowBattery and setCurrentAltitude are the true
\* run lengths, cut off at the latch count; one altitude run excludes the other.
CountersAreRuns ==
  /\ low_run \in Nat /\ over_run \in Nat /\ under_run \in Nat
  /\ Saturated(low_battery_count, low_run, LowBatteryLatchCount)
  /\ Saturated(altitude_breach_count, over_run, AltitudeBreachLatchCount)
  /\ Saturated(altitude_clear_count, under_run, AltitudeBreachLatchCount)
  /\ over_run = 0 \/ under_run = 0

\* A latch engages no later than its run completes: after the configured number
\* of consecutive readings the battery latch is on, the altitude latch is on
\* (over) or off (under), however commands and comms reports interleave with the
\* readings, and GPS gaps do not break a run (setLowBattery, setCurrentAltitude).
LatchesAreTimely ==
  /\ low_run >= LowBatteryLatchCount => low_battery
  /\ over_run >= AltitudeBreachLatchCount => altitude_breach
  /\ under_run >= AltitudeBreachLatchCount => ~altitude_breach

\* ... and no earlier: a latch moves only on the reading that completes a full
\* run in that direction, so no spurious sample and no other input moves it, and
\* the battery latch never clears.
LatchesAreDebounced ==
  [][/\ low_battery' # low_battery => low_battery' /\ low_run' = LowBatteryLatchCount
     /\ altitude_breach' # altitude_breach =>
          (IF altitude_breach' THEN over_run' ELSE under_run') = AltitudeBreachLatchCount]_hvars
=============================================================================
