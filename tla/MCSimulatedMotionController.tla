-------------------- MODULE MCSimulatedMotionController --------------------
EXTENDS SimulatedMotionController, TLC

\* A configuration that is valid with two microsteps a full step, but not
\* with one: its gear takes three half-steps for two.
const_Geared ==
  [fullSteps |-> 2, microsteps |-> 2, numerator |-> 3, denominator |-> 2,
   offset |-> 0, minimum |-> -2, maximum |-> 2, plausible |-> TRUE]

const_Direct ==
  [fullSteps |-> 2, microsteps |-> 2, numerator |-> 1, denominator |-> 1,
   offset |-> 1, minimum |-> 0, maximum |-> 2, plausible |-> TRUE]

const_Profile == ("AZ" :> const_Geared) @@ ("EL" :> const_Direct)

const_Positions ==
  {("AZ" :> 1) @@ ("EL" :> 2), ("AZ" :> 3) @@ ("EL" :> 1)}

const_Deltas == {1}

const_StepCounts == {0, -1, 3}
=============================================================================
