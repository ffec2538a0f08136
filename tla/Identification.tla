--------------------------- MODULE Identification ---------------------------
(***************************************************************************)
(* How the indoor positioning system tells vehicles apart.  The ATmega of  *)
(* a vehicle blinks with the LED in its center, in a rhythm that belongs   *)
(* to its id (led.c); the IPS keeps what the camera saw in the last frames *)
(* (IpsPipeline.cpp), follows each vehicle back in time and reads the id   *)
(* off the last three edges of its LED (DetectVehicleID.cpp).  The model   *)
(* follows one vehicle: positions are left out, as a vehicle moves less    *)
(* than the 0.09 m per frame by which it is found again, and two vehicles  *)
(* (their centroids) are farther apart.  So at most one set of points of a *)
(* frame matches, and the loop, whose `break` is commented out, adds one   *)
(* entry.                                                                  *)
(***************************************************************************)
EXTENDS LedCode, FiniteSets, Sequences, FiniteSetsExt, SequencesExt

CONSTANTS
  MaxFrames,      (* entries of vehiclePointTimeseries (50)                *)
  Frames,         (* bound: frames                                         *)
  Disturbed,      (* bound: the ids whose vehicles meet something irregular *)
  Until           (* in some of so many frames                             *)

Flash == 25       (* ticks from one flash to the next in safe mode         *)

VARIABLES
  id,                     (* what the Raspberry Pi of the vehicle sends    *)
  vehicle_id,             (* what its ATmega has received; 0: nothing yet  *)
  safe_mode_flag,
  tick,                   (* get_tick()                                    *)
  vehiclePointTimeseries, (* newest last; what a frame shows of the vehicle *)
  frames,                 (* counter for the bound                         *)
  calm,                   (* frames since something irregular, up to       *)
                          (* MaxFrames                                     *)
  quiet, mixed            (* history: frames that follow the rhythm, and   *)
                          (* that the time series may hold two rhythms     *)

vars == <<id, vehicle_id, safe_mode_flag, tick, vehiclePointTimeseries, frames, calm, quiet, mixed>>

View == {"lit", "dark", "missing"}

TypeOK ==
  /\ id \in Id /\ vehicle_id \in {0, id}
  /\ safe_mode_flag \in BOOLEAN /\ mixed \in BOOLEAN
  /\ tick \in Nat
  /\ vehiclePointTimeseries \in Seq(View) /\ Len(vehiclePointTimeseries) <= MaxFrames
  /\ frames \in 0 .. Frames /\ quiet \in 0 .. Frames
  /\ calm \in 0 .. MaxFrames

Init ==
  /\ id \in Id
  /\ vehicle_id \in IF id \in Disturbed THEN {0, id} ELSE {id}
  /\ safe_mode_flag = FALSE
  /\ tick \in 0 .. period_ticks[id] - 1
  /\ vehiclePointTimeseries = <<>>
  /\ frames = 0 /\ calm = MaxFrames /\ quiet = 0 /\ mixed = FALSE

-----------------------------------------------------------------------------
(* led_toggle, at every tick.                                              *)
Lit(t) ==
  \/ safe_mode_flag /\ t % Flash = 0
  \/ t % period_ticks[vehicle_id] < enabled_ticks[vehicle_id]

(* Mutant: they stay on.                                                   *)
OuterAlways(t) == safe_mode_flag \in BOOLEAN

(* led_set_state: the three LEDs a vehicle is found by.                    *)
Outer(t) == safe_mode_flag => t % Flash = 0

See(t) == IF ~Outer(t) THEN "missing" ELSE IF Lit(t) THEN "lit" ELSE "dark"

(* IpsPipeline::apply: the newest frame joins the time series.             *)
Push(view) ==
  LET series == Append(vehiclePointTimeseries, view)
  IN IF Len(series) > MaxFrames THEN Tail(series) ELSE series

(* A frame that comes in time.                                              *)
Take(view) ==
  /\ frames < Frames /\ frames' = frames + 1
  /\ vehiclePointTimeseries' = Push(view)
  /\ UNCHANGED <<id, vehicle_id, safe_mode_flag>>

(* Something irregular happens at most once in as many frames as the time  *)
(* series holds.                                                           *)
Something ==
  /\ id \in Disturbed /\ frames < Until
  /\ calm = MaxFrames /\ calm' = 0

Frame ==
  /\ tick' = tick + 1 /\ Take(See(tick'))
  /\ quiet' = quiet + 1 /\ mixed' = (mixed /\ See(tick') # "missing")
  /\ calm' = IF calm < MaxFrames THEN calm + 1 ELSE MaxFrames

(* Camera and ATmega count 20 ms each by its own clock: now and then a     *)
(* tick is seen twice or not at all.                                       *)
Slip ==
  /\ Something
  /\ tick' \in {tick, tick + 2} /\ Take(See(tick'))
  /\ quiet' = quiet + 1 /\ mixed' = (mixed /\ See(tick') # "missing")

(* The outer LEDs are not found, or do not form a vehicle.                 *)
Miss ==
  /\ Something
  /\ tick' = tick + 1 /\ Take("missing")
  /\ quiet' = 0 /\ mixed' = FALSE

(* The LED in the center is covered for a frame.                           *)
Hide ==
  /\ Something
  /\ tick' = tick + 1 /\ See(tick') = "lit" /\ Take("dark")
  /\ quiet' = 0 /\ mixed' = TRUE

(* Mutant: frames that are lost are not noticed.                           *)
GoOn(view) == Push(view)

(* Frames do not come: "Reset tracking".                                   *)
Restart(view) == <<view>>

Drop ==
  /\ Something
  /\ frames < Frames /\ frames' = frames + 1
  /\ \E lost \in 1 .. 3 : tick' = tick + 1 + lost
  /\ vehiclePointTimeseries' = Restart(See(tick'))
  /\ quiet' = 1 /\ mixed' = FALSE
  /\ UNCHANGED <<id, vehicle_id, safe_mode_flag>>

(* From here on the LEDs follow another rhythm.                            *)
ChangeRhythm ==
  /\ quiet' = 0
  /\ mixed' = (vehiclePointTimeseries # <<>> /\ Last(vehiclePointTimeseries) # "missing")
  /\ UNCHANGED <<id, tick, vehiclePointTimeseries, frames>>

(* led_set_state, after a transfer from the Raspberry Pi.                  *)
ReceiveId ==
  /\ frames < Until
  /\ vehicle_id = 0 /\ vehicle_id' = id
  /\ ChangeRhythm
  /\ UNCHANGED <<safe_mode_flag, calm>>

(* The watchdog of the ATmega has heard nothing for too long, or hears the *)
(* Raspberry Pi again.                                                     *)
SafeMode ==
  /\ Something
  /\ safe_mode_flag' = ~safe_mode_flag
  /\ ChangeRhythm
  /\ UNCHANGED vehicle_id

Next == Frame \/ Slip \/ Miss \/ Hide \/ Drop \/ ReceiveId \/ SafeMode

Spec == Init /\ [][Next]_vars

-----------------------------------------------------------------------------
(* DetectVehicleID::apply                                                  *)

(* What the frame i frames ago showed.                                     *)
Ago(i) == vehiclePointTimeseries[Len(vehiclePointTimeseries) - i]

(* Mutant: the track goes on behind a gap.                                 *)
TrackedAnyway == Len(vehiclePointTimeseries)

(* How many frames it can be followed: then "tracking is lost".            *)
Tracked ==
  Len(vehiclePointTimeseries)
    - SelectLastInSeq(vehiclePointTimeseries, LAMBDA view : view = "missing")

(* The positions of the signal edges.                                      *)
Edges == {i \in 0 .. Tracked - 2 : Ago(i) # Ago(i + 1)}

(* The id of the vehicle in the newest frame; 0: none.                     *)
Detected ==
  IF Cardinality(Edges) < 3 THEN 0
  ELSE LET first == Min(Edges)
           second == Min(Edges \ {first})
           third == Min(Edges \ {first, second})
           high == IF Ago(first) = "dark" THEN second - first ELSE third - second
           fits == Fits(high, third - first)
       IN IF fits = {} THEN 0 ELSE Min(fits)

-----------------------------------------------------------------------------
Larger(m, n) == IF m > n THEN m ELSE n

(* The frames that hold three edges, in any phase.                         *)
FramesNeeded(v) ==
  period_ticks[v] + Larger(enabled_ticks[v], period_ticks[v] - enabled_ticks[v]) + 2

(* After that many frames without a disturbance a vehicle has its id,      *)
(* whatever happened before, wherever the rhythm began, and although the   *)
(* clocks may differ by a tick.                                            *)
Identified ==
  (~safe_mode_flag /\ vehicle_id = id /\ quiet >= FramesNeeded(id)) => Detected = id

(* While there is one rhythm only, no other vehicle is seen in its place:  *)
(* neither lost frames nor a vehicle that is missed in some give a vehicle *)
(* the id of another.  In safe mode it has none.                           *)
NeverAnother ==
  /\ ~mixed => Detected \in {0, id}
  /\ (safe_mode_flag /\ quiet > 1) => Detected = 0

=============================================================================
