\* UDP; metrics of at most STATSD_MAX_METRIC_SIZE.
CONSTANTS
  STATSD_MAX_UDP_PACKET_SIZE = 8
  Transports = {FALSE}
  Lens = {3, 8}
  MaxMetrics = 3
  MaxOpens = 1
  MaxDepth = 2
SPECIFICATION Spec
INVARIANT PacketIsText
CHECK_DEADLOCK FALSE
