\* UDP; handlers may return into the send they interrupted.
CONSTANTS
  STATSD_MAX_UDP_PACKET_SIZE = 8
  Transports = {FALSE}
  Lens = {3}
  MaxMetrics = 3
  MaxOpens = 1
  MaxDepth = 2
SPECIFICATION Spec
INVARIANT Accounted
CHECK_DEADLOCK FALSE
