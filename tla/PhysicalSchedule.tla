-------------------------- MODULE PhysicalSchedule --------------------------
(***************************************************************************)
(* PhysicalMotionController under the scheduling of the motion task: its   *)
(* loop calls service() at least every millisecond for ever                *)
(* (ulTaskNotifyTake with a 1 ms timeout), and the clock runs.  Neither    *)
(* the timers nor the host are trusted to do anything.                     *)
(*                                                                         *)
(* beat flips with every call of service(), so that a call that changes    *)
(* nothing still counts as one and the fairness needs no ENABLED.          *)
(***************************************************************************)
EXTENDS PhysicalMotionController

VARIABLE beat

ScheduledNext ==
  \/ ServiceController /\ beat' = ~beat
  \/ /\ Commands \/ DiagnosticsTick \/ PulseDone \/ InputChanges \/ Tick
     /\ UNCHANGED beat

MotionTaskRuns == []<><<beat' # beat>>_beat

\* A controller whose axes are at home, or one that did not come up.
ScheduledInit ==
  /\ HomedInit \/ (Init /\ ~ctl.initialized)
  /\ beat = FALSE

ScheduledSpec ==
  /\ ScheduledInit
  /\ [][ScheduledNext]_<<vars, beat>>
  /\ MotionTaskRuns
  /\ SF_vars(Tick)

\* A pressed emergency stop that stays pressed latches for good, through any
\* bounce, clear or move that comes in between (update_emergency_input, 77-99).
HeldInputLatches == <>[]pressed => <>[]ctl.latched

\* A coordinated move does not stay pending (service, 171-191).
CoordinationEnds == ctl.coordinated ~> ~ctl.coordinated
=============================================================================
