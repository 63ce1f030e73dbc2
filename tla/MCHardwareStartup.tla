------------------------- MODULE MCHardwareStartup -------------------------
(* Instances of HardwareStartup for TLC. *)
EXTENDS HardwareStartup

const_LastGpio == 15

const_InputOnly == {14, 15}

const_Bootstrapping == {0, 2}

const_Axis ==
  [fullSteps |-> 2, microsteps |-> 2, numerator |-> 3, denominator |-> 2,
   offset |-> 0, minimum |-> -2, maximum |-> 2, plausible |-> TRUE]

\* A gear whose steps do not come out even, and limits the wrong way round.
const_Uneven == [const_Axis EXCEPT !.microsteps = 1]
const_Reversed == [const_Axis EXCEPT !.minimum = 3]

Board(wiring, elevation, named) ==
  [wiring |-> wiring, named |-> named,
   profile |-> [ax \in Axes |-> IF ax = "AZ" THEN const_Axis ELSE elevation]]

\* A sound map, with the home switches on pins that can only be read.
const_Wiring ==
  [role \in Roles |-> IF role = HomeRole("AZ") THEN 14
                      ELSE IF role = HomeRole("EL") THEN 15
                      ELSE role]

\* Up to two entries are changed: not assigned, beyond the chip, input-only,
\* or the pin of another entry.
const_Pins == {-1, 16, 14, 3, 7, 13}

const_Boards ==
  {Board([const_Wiring EXCEPT ![one] = p, ![two] = q], const_Axis, TRUE) :
     one \in Roles, two \in Roles, p \in const_Pins, q \in const_Pins}
  \cup {Board(const_Wiring, axis, named) :
          axis \in {const_Axis, const_Uneven, const_Reversed},
          named \in BOOLEAN}
=============================================================================
