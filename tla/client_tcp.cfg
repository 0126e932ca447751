\* TCP, as a server reads it; handlers may return into the send they interrupted.
CONSTANTS
  STATSD_MAX_UDP_PACKET_SIZE = 8
  Transports = {TRUE}
  Lens = {3, 9}
  MaxMetrics = 4
  MaxOpens = 2
  MaxDepth = 5
  ShortWrites = TRUE
SPECIFICATION StreamSpec
INVARIANTS StreamTypeOK Accounted TcpSentOnReturn AtMostOnce OnlyNeighboursLost
CHECK_DEADLOCK FALSE
