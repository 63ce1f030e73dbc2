--------------------------- MODULE MCTmc2209Driver ---------------------------
(* Instances of Tmc2209Driver for TLC. *)
EXTENDS Tmc2209Driver

\* Two currents and one too small for any scale.  With the owned profile's
\* 110 mOhm resistors no current up to 800 mA leaves the low sense range.
MCCurrents == {10, 400, 650}

MCScale ==
  [current \in MCCurrents |->
     [fits |-> current # 10, sense |-> "low",
      run |-> IF current = 650 THEN 20 ELSE IF current = 400 THEN 12 ELSE 0]]
MCConfigured == [microsteps |-> 16, current |-> 650]
=============================================================================
