\* Every kind of metric; gauges are adjusted both ways.
CONSTANTS
  MetricNames <- MCNames
  Incrs = {1, 2}
  Times = {3, 5}
  Settings <- SetValues
  Adjustments <- UpAndDown
  Clients <- MCClients
  STATSD_MAX_TIME_MS = 4
  Unit = 220779
  MaxLines = 3
SPECIFICATION Spec
INVARIANT GaugesAsAsked
CHECK_DEADLOCK FALSE
