----------------------------- MODULE AxisConfig -----------------------------
(***************************************************************************)
(* AxisConfig: how many steps an axis takes for a turn of its output, in   *)
(* exact integer arithmetic, and when a configuration is one at all        *)
(* (motion_controller.cpp, 20-88).                                         *)
(*                                                                         *)
(* A count that cannot be had is 0 here, where the code returns false.     *)
(* The checks of valid() that look at one number each (speeds, times,      *)
(* currents) are one flag, plausible.                                      *)
(***************************************************************************)
EXTENDS Integers

CONSTANT MaxCount   \* the largest std::int64_t

ASSUME CountAssumption == MaxCount \in Nat \ {0}

Axes == {"AZ", "EL"}

Configs == [fullSteps : Nat, microsteps : Nat, numerator : Int,
            denominator : Int, offset : Int, minimum : Int, maximum : Int,
            plausible : BOOLEAN]

\* RationalGearRatio::valid()
RatioIsValid(c) == c.numerator > 0 /\ c.denominator > 0

\* output_steps_per_motor_full_step(): microsteps are never split.
StepsPerFullStep(c) ==
  IF RatioIsValid(c) /\ (c.microsteps * c.numerator) % c.denominator = 0
    THEN (c.microsteps * c.numerator) \div c.denominator
    ELSE 0

\* steps_per_output_revolution_exact()
StepsPerTurn(c) ==
  LET each == StepsPerFullStep(c)
  IN  IF c.fullSteps = 0 \/ each > MaxCount \div c.fullSteps
        THEN 0
        ELSE each * c.fullSteps

\* AxisConfig::valid()
AxisIsValid(c) ==
  /\ StepsPerTurn(c) > 0
  /\ c.minimum < c.maximum
  /\ c.offset \in c.minimum .. c.maximum
  /\ c.plausible
=============================================================================
