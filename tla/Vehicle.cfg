\* The parts of a vehicle and its planners side by side, each on its own.
SPECIFICATION MCSpec
CONSTANTS
  Size = 2
  Checked = 1
  Attempts = 3
  Transfers = 2
  Faults = 3
  Kinds <- KindsInUse
  STOP_STEPS = 2
  CommandTimeout = 2
  IpsTimeout = 1
  Ahead = 3
  Transit = 2
  Periods = 6
  Commands = 1
  Experiments = 3
  Failures = 1
  Candidates = 5
  LOCALIZATION_BUFFER_SIZE = 4
  period = 2
  MaxAge = 4
  ResetPeriod = 5
  FilterPeriods = 7
  Observations = 2
  FilterFailures = 1
  period_ticks <- PeriodTicks
  enabled_ticks <- EnabledTicks
  MaxFrames = 50
  LedFrames = 52
  Disturbed = {2}
  Until = 12
INVARIANTS
  LinkSafe
  VehicleObeys
  FilterExact
  IdsRight
  LightsAssigned
  PlannersAgree
PROPERTIES
  CutOffVehicleStops
  TimestepEnds
CHECK_DEADLOCK FALSE
