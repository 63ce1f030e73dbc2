-------------------------- MODULE ScanCoordinator --------------------------
(***************************************************************************)
(* scanning.py: the raster of a scan and the capture of its points, driven *)
(* as the package means it to be: capture_point() for each point that      *)
(* raster_points() yields.                                                 *)
(*                                                                         *)
(* Angles are multiples of a unit well above the tolerance of              *)
(* _axis_values(), so that binary rounding does not show; times are        *)
(* quarters of a second.  A scan is one thread: what happens around it is  *)
(* that a measurement takes its time or gives no valid reading, and        *)
(* that the controller gives up a host it has not heard for too long.      *)
(***************************************************************************)
EXTENDS Integers, Sequences, FiniteSets

CONSTANTS
  Scans,          \* the AxisScan of an axis: start, stop, step
  SampleCounts,   \* samples_per_position
  RetryCounts,    \* retry_count
  SettleTime,     \* settle_time_s
  MeasureTime,    \* measurement_timeout_s
  HostTimeout     \* of the firmware, see ControllerRuntime

ASSUME ScanAssumption ==
  /\ \A scan \in Scans :
       /\ scan.start \in Int /\ scan.stop \in Int /\ scan.step \in Nat \ {0}
       /\ scan.start <= scan.stop
  /\ SampleCounts \subseteq Nat \ {0} /\ RetryCounts \subseteq Nat
  /\ SettleTime \in Nat /\ MeasureTime \in Nat \ {0}
  /\ HostTimeout \in Nat \ {0}

VARIABLES
  config,    \* the RasterScanConfig
  points,    \* what raster_points() yields for it
  scan,      \* where the scan is: point, and the locals of capture_point()
  captures,  \* for each point that is done, whether it has an aggregate
  silence,   \* time since the host last wrote to the controller
  trusted    \* whether the controller trusts the position

scanVars == <<config, points, scan, captures, silence, trusted>>

-----------------------------------------------------------------------------
(* _axis_values() and raster_points() *)

\* Bug: the last step may go past the end.
AxisValuesRoundedUp(axis) ==
  [i \in 1 .. (axis.stop - axis.start + axis.step - 1) \div axis.step + 1 |->
     axis.start + (i - 1) * axis.step]

\* The multiples of step from start on, and stop itself.
AxisValues(axis) ==
  LET count  == (axis.stop - axis.start) \div axis.step
      values == [i \in 1 .. count + 1 |-> axis.start + (i - 1) * axis.step]
  IN  IF axis.stop > values[count + 1] THEN Append(values, axis.stop)
                                       ELSE values

\* The ith azimuth of a row; rows count from 0.
Row(azimuths, reversed, row, i) ==
  IF reversed /\ row % 2 = 1 THEN azimuths[Len(azimuths) + 1 - i]
                             ELSE azimuths[i]

RasterPoints(cfg) ==
  LET azimuths   == AxisValues(cfg.azimuth)
      elevations == AxisValues(cfg.elevation)
      width      == Len(azimuths)
  IN  [n \in 1 .. width * Len(elevations) |->
         LET row == (n - 1) \div width
         IN  [az |-> Row(azimuths, cfg.reversed, row, ((n - 1) % width) + 1),
              el |-> elevations[row + 1]]]

-----------------------------------------------------------------------------
(* capture_point() *)

ScanConfigs ==
  [azimuth : Scans, elevation : Scans, reversed : BOOLEAN,
   samples : SampleCounts, retries : RetryCounts]

ScanInit ==
  /\ config \in ScanConfigs
  /\ points = RasterPoints(config)
  /\ scan = [at |-> "move", n |-> 1, accepted |-> 0, rejected |-> 0,
             left |-> 0]
  /\ captures = <<>>
  /\ silence = 0 /\ trusted = TRUE

\* Silence is counted until the controller gives the host up.
Passes(time) ==
  silence' = IF silence + time > HostTimeout THEN HostTimeout + 1
                                             ELSE silence + time

\* move_to() ends in STATUS, which the controller hears.  Its report is
\* trusted, or the scan is over; so it is if the call raises.
Move ==
  /\ scan.at = "move" /\ scan.n <= Len(points)
  /\ \/ trusted /\ scan' = [scan EXCEPT !.at = "settle"]
     \/ scan' = [scan EXCEPT !.at = "aborted"]
  /\ silence' = 0
  /\ UNCHANGED <<config, points, captures, trusted>>

\* Bug: the retries are not counted in.
AttemptsWithoutRetries == config.samples

Attempts == config.samples + config.retries

\* sleep(settle_time_s), the controller hearing nothing.
Settle ==
  /\ scan.at = "settle"
  /\ scan' = [scan EXCEPT !.at = "measure", !.accepted = 0, !.rejected = 0,
                          !.left = Attempts]
  /\ Passes(SettleTime)
  /\ UNCHANGED <<config, points, captures, trusted>>

Wanting == scan.accepted < config.samples /\ scan.left > 0

\* measure(): any time up to the timeout passes; a reading is valid or not.
Measure ==
  /\ scan.at = "measure" /\ Wanting
  /\ \E time \in 1 .. MeasureTime : Passes(time)
  /\ \E field \in {"accepted", "rejected"} :
       scan' = [scan EXCEPT ![field] = @ + 1, !.left = @ - 1]
  /\ UNCHANGED <<config, points, captures, trusted>>

\* The capture is returned, with an aggregate if there are enough readings.
Return ==
  /\ scan.at = "measure" /\ ~Wanting
  /\ captures' = Append(captures, scan.accepted = config.samples)
  /\ scan' = [scan EXCEPT !.at = "move", !.n = @ + 1]
  /\ UNCHANGED <<config, points, silence, trusted>>

\* host_heartbeat_timeout() of the firmware disables the drivers.
GivenUp ==
  /\ silence > HostTimeout /\ trusted
  /\ trusted' = FALSE
  /\ UNCHANGED <<config, points, scan, captures, silence>>

ScanOver ==
  /\ scan.at = "aborted" \/ scan.n > Len(points)
  /\ UNCHANGED scanVars

ScanNext ==
  Move \/ Settle \/ Measure \/ Return \/ GivenUp \/ ScanOver

ScanSpec == ScanInit /\ [][ScanNext]_scanVars

-----------------------------------------------------------------------------
(* Properties *)

\* A point has no more accepted readings than it wants and no more readings
\* than its budget, and the captures are of the points gone by (scanning.py).
ScanTypeOK ==
  /\ config \in ScanConfigs
  /\ scan.at \in {"move", "settle", "measure", "aborted"}
  /\ scan.n \in 1 .. Len(points) + 1
  /\ scan.accepted \in 0 .. config.samples
  /\ scan.rejected \in 0 .. config.samples + config.retries
  /\ scan.left \in 0 .. config.samples + config.retries
  /\ captures \in Seq(BOOLEAN) /\ Len(captures) < scan.n
  /\ silence \in 0 .. HostTimeout + 1 /\ trusted \in BOOLEAN

\* The angles a scan of an axis is about: the end, and every step before it.
Wanted(axis) ==
  {angle \in axis.start .. axis.stop :
     angle = axis.stop \/ (angle - axis.start) % axis.step = 0}

\* The raster visits every pair of angles once and nothing beside the axis
\* limits (_axis_values, 29-43, raster_points, 134-147).
RasterIsComplete ==
  LET visits == [az : Wanted(config.azimuth), el : Wanted(config.elevation)]
  IN  /\ Len(points) = Cardinality(visits)
      /\ {points[n] : n \in DOMAIN points} = visits

\* Going back on every other row, no move between points is longer than one
\* step of one axis.
MovesAreShort ==
  config.reversed =>
    \A n \in 1 .. Len(points) - 1 :
      LET by(ax) == points[n + 1][ax] - points[n][ax]
      IN  \/ by("el") = 0 /\ by("az") \in -config.azimuth.step .. config.azimuth.step
          \/ by("az") = 0 /\ by("el") \in 1 .. config.elevation.step

\* The raster is walked: all of it, and row after row without a jump
\* (raster_points, 134-147).
RasterIsWalked == RasterIsComplete /\ MovesAreShort

\* A point goes without an aggregate only when more readings were rejected
\* than there are retries, and it is never given the readings of another
\* (capture_point, 164-221).
RetriesAreUsed ==
  [][Return => \/ captures'[scan.n]
               \/ scan.rejected > config.retries]_scanVars

\* Readings are taken on trusted ground (the message at 175).
MeasuresOnTrust == [][Measure => trusted]_scanVars
=============================================================================
