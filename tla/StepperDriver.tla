--------------------------- MODULE StepperDriver ---------------------------
(***************************************************************************)
(* What AxisController relies on of the driver of its motor, whatever chip *)
(* is behind it (stepper_driver.hpp, 66-88): the outputs are only ever on  *)
(* for a driver that answers, a setting is taken or costs the driver, and  *)
(* a driver once lost comes back through initialize() alone.               *)
(*                                                                         *)
(* DriverWrite, SetEnabled and ServiceDiagnostics of AxisOperations are    *)
(* these actions, with the setting's two ends taken together.              *)
(***************************************************************************)

VARIABLES
  connected,   \* is_connected()
  powered,     \* the EN output
  busy         \* "initialize" or "setting" while a call of one lasts

stepperVars == <<connected, powered, busy>>

Calls == {"initialize", "setting"}

StepperInit ==
  /\ connected = FALSE /\ powered = FALSE
  /\ busy = "none"

StartInitialize ==
  /\ busy = "none"
  /\ busy' = "initialize"
  /\ connected' = FALSE /\ powered' = FALSE

\* A setting of a driver that is not connected is refused, others may be.
StartSetting ==
  /\ busy = "none" /\ connected
  /\ busy' = "setting"
  /\ UNCHANGED <<connected, powered>>

\* The call returns true.
Succeeds ==
  /\ busy \in Calls
  /\ busy' = "none"
  /\ connected' = TRUE
  /\ UNCHANGED powered

\* The call returns false after it has spoken to the driver.
GivesUp ==
  /\ busy \in Calls
  /\ busy' = "none"
  /\ connected' = FALSE /\ powered' = FALSE

SwitchesOn ==
  /\ busy = "none" /\ connected
  /\ powered' = TRUE
  /\ UNCHANGED <<connected, busy>>

SwitchesOff ==
  /\ busy = "none"
  /\ powered' = FALSE
  /\ UNCHANGED <<connected, busy>>

\* read_status() finds the driver in trouble, or gone.
FindsTrouble ==
  /\ busy = "none"
  /\ powered' = FALSE
  /\ connected' \in {connected, FALSE}
  /\ UNCHANGED busy

StepperNext ==
  \/ StartInitialize \/ StartSetting \/ Succeeds \/ GivesUp
  \/ SwitchesOn \/ SwitchesOff \/ FindsTrouble

\* No call lasts for ever.
CallsReturn == WF_stepperVars(Succeeds \/ GivesUp)

StepperSpec == StepperInit /\ [][StepperNext]_stepperVars

FairStepperSpec == StepperSpec /\ CallsReturn
=============================================================================
