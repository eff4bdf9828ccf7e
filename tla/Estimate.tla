------------------------------ MODULE Estimate ------------------------------
(***************************************************************************)
(* Where a vehicle believes it is: PositionEstimator                       *)
(* (vehicles/estimator.py) and SimRunner._apply_position_fixes, on a line. *)
(*                                                                         *)
(* Distances are whole units, a step takes a unit of time.  The Kalman     *)
(* gain is any number between 0 and 1: the new estimate lies between the   *)
(* old one and the measurement, the new deviation is at most that of       *)
(* either, and at least the deviation of both averaged.                    *)
(***************************************************************************)
EXTENDS Integers

CONSTANTS
    Gate,           \* innovation_gate_sigma
    FixStd,         \* gps_fix_std, landmark_fix_std
    DriftRates,     \* the values of drift_rate to try
    Cap,            \* _MAX_UNCERTAINTY_CAP
    Offset,         \* what a SpoofRegion adds to a measurement
    Spike,          \* magnitude of the drift spike
    MaxError, MaxBias, MaxHeading   \* bounds: of error, bias and headingBias

\* The gate may be off, and the drift rate zero.
EstimateAssumption ==
    /\ Gate \in Nat /\ FixStd \in Nat \ {0} /\ DriftRates \subseteq Nat /\ Cap \in Nat
    /\ Offset \in Nat /\ Spike \in Nat

VARIABLES
    turn,           \* what the step does next: "events", "gps", "landmark", "move"
    driftRate,      \* drift_rate of this run
    error,          \* estimate minus truth
    sigma,          \* uncertainty
    bias,           \* bias_x: drift beyond the usual, in either direction
    headingBias,    \* heading_bias: of the gyro, a random walk that no fix corrects
    spiked,         \* _drift_spike_applied
    refused,        \* history: unspoofed GPS fixes refused in this lock-out
    reach           \* history: how far the estimate was off when it began

estimate == <<turn, driftRate, error, sigma, bias, headingBias, spiked, refused, reach>>

Lower(a, b)  == IF a < b THEN a ELSE b
Higher(a, b) == IF a > b THEN a ELSE b
Abs(a) == Higher(a, -a)
Within(a, b) == Lower(a, b) .. Higher(a, b)

EstimateInit ==
    /\ turn = "events" /\ driftRate \in DriftRates /\ error = 0 /\ sigma = 1
    /\ bias = 0 /\ headingBias = 0 /\ spiked = FALSE /\ refused = 0 /\ reach = 0

\* A lock-out is over: the next one starts from the error of now.
Anew == refused' = 0 /\ reach' = Abs(error')

\* apply_drift_spike: the variances add up; once in a run, or never.
Spread == Higher(sigma, 2 * Spike) .. sigma + 2 * Spike
Events ==
    /\ turn = "events"
    /\ \/ /\ ~spiked /\ spiked' = TRUE
          /\ \E kick \in -Spike .. Spike : bias' = bias + kick /\ Abs(bias') <= MaxBias
          /\ \E s \in Spread : sigma' = Lower(s, Cap)
          /\ UNCHANGED error /\ Anew
       \/ UNCHANGED <<error, spiked, bias, sigma, refused, reach>>
    /\ turn' = "gps"
    /\ UNCHANGED <<driftRate, headingBias>>
-----------------------------------------------------------------------------
\* apply_gps_fix, apply_landmark_fix: the gate, then the Kalman update.  The bias shrinks
\* with the gain, at most to the given part of it.
Accepted(measured) == Gate = 0 \/ Abs(measured - error) <= Gate * Higher(sigma, FixStd)

Shrunk(most) == {b \in Within(0, bias) : Abs(b) >= Abs(bias) \div most}

Update(measured, most) ==
    /\ error' \in Within(error, measured)
    /\ sigma' \in Lower(sigma, FixStd) \div 2 .. Lower(sigma, FixStd)
    /\ bias' \in Shrunk(most)

Fix(measured, most) ==
    IF Accepted(measured) THEN Update(measured, most) ELSE UNCHANGED <<error, sigma, bias>>

Noise == -FixStd .. FixStd

(***************************************************************************)
(* _apply_position_fixes: a jammed vehicle gets no GPS fix, one in a spoof *)
(* region a shifted one, and there need not be a fix in every step when    *)
(* GPS is intermittent.  Landmarks are never spoofed.                      *)
(***************************************************************************)
GpsFix ==
    /\ turn = "gps"
    /\ \E shift \in {0, Offset}, noise \in Noise :
         /\ Fix(shift + noise, 5)
         /\ IF Accepted(shift + noise) THEN Anew
            ELSE refused' = (IF shift = 0 THEN refused + 1 ELSE refused) /\ UNCHANGED reach
    /\ turn' = "landmark"
    /\ UNCHANGED <<driftRate, headingBias, spiked>>

NoGpsFix ==
    /\ turn = "gps"
    /\ turn' = "landmark"
    /\ UNCHANGED <<driftRate, error, sigma, bias, headingBias, spiked, refused, reach>>

LandmarkFix ==
    /\ turn = "landmark"
    /\ \E noise \in Noise :
         /\ Fix(noise, 2)
         /\ IF Accepted(noise) THEN Anew ELSE UNCHANGED <<refused, reach>>
    /\ UNCHANGED <<turn, driftRate, headingBias, spiked>>

NoMoreLandmarks ==
    /\ turn = "landmark"
    /\ turn' = "move"
    /\ UNCHANGED <<driftRate, error, sigma, bias, headingBias, spiked, refused, reach>>
-----------------------------------------------------------------------------
\* Wrong version: the uncertainty of a vehicle that stands still stays as it is.
GrownByDriving(moving) ==
    IF moving THEN driftRate .. driftRate + 1 + Abs(headingBias') ELSE {0}

\* propagate: by how much the uncertainty grows, with time and faster when driving, the
\* more the gyro is off.
Grown(moving) ==
    IF moving THEN driftRate .. driftRate + 1 + Abs(headingBias') ELSE {driftRate}

\* The drift of a step is less than what the growing uncertainty adds to the gate.
Covered(drift) == Abs(drift) < Gate * driftRate /\ sigma + driftRate <= Cap

(***************************************************************************)
(* propagate: the bias decays and is disturbed, the gyro walks at random;  *)
(* both move the estimate, the gyro that of a driving vehicle only, and so *)
(* does the noise of the odometry, which is that of the drift rate.        *)
(***************************************************************************)
Biases == {decayed + push : decayed \in Within(0, bias), push \in {-1, 0, 1}}

DriftsAtRest  == {odometry + bias' : odometry \in -driftRate .. driftRate}
DriftsDriving ==
    {drift + headingBias' + jitter : drift \in DriftsAtRest, jitter \in {-1, 0, 1}}

Move ==
    /\ turn = "move"
    /\ bias' \in Biases /\ Abs(bias') <= MaxBias
    /\ \E walk \in {-1, 0, 1} : headingBias' = headingBias + walk /\ Abs(headingBias') <= MaxHeading
    /\ \E moving \in BOOLEAN : \E drift \in IF moving THEN DriftsDriving ELSE DriftsAtRest :
         /\ error' = error + drift /\ Abs(error') <= MaxError
         /\ \E growth \in Grown(moving) : sigma' = Lower(sigma + growth, Cap)
         /\ IF Covered(drift) THEN UNCHANGED <<refused, reach>> ELSE Anew
    /\ turn' = "events"
    /\ UNCHANGED <<driftRate, spiked>>

EstimateNext == Events \/ GpsFix \/ NoGpsFix \/ LandmarkFix \/ NoMoreLandmarks \/ Move

EstimateSpec == EstimateInit /\ [][EstimateNext]_estimate
-----------------------------------------------------------------------------
\* The innovation gate does not keep a vehicle out for good that drifts more slowly
\* than its gate widens: as long as no step drifts by the gate times the drift rate,
\* true fixes are refused no more often in a row than the estimate was units off when
\* that began, plus the noise of a fix, even when the vehicle stands still and spoofed
\* fixes left it too sure of itself.
LockoutEnds == refused <= reach + FixStd
=============================================================================
