\* Every kind of metric; 220779 = 27 * 37 * 17 * 13.
CONSTANTS
  MetricNames <- MCNames
  Incrs = {1, 2}
  Times = {3, 5}
  Settings <- SetValues
  Adjustments <- UpAndDown
  Clients <- MCClients
  STATSD_MAX_TIME_MS = 4
  Unit = 220779
  MaxLines = 4
SPECIFICATION Spec
INVARIANTS TypeOK GaugesButLowered CountsNear
CHECK_DEADLOCK FALSE
