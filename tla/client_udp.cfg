\* UDP; handlers may end the process, or return into the send they interrupted.
CONSTANTS
  STATSD_MAX_UDP_PACKET_SIZE = 8
  Transports = {FALSE}
  Lens = {3, 4, 9}
  MaxMetrics = 3
  MaxOpens = 2
  MaxDepth = 2
SPECIFICATION FairSpec
INVARIANTS TypeOK OversizeOnlyAlone LenCoversText DrainedOnClose
  SendReadsLiveMemory
PROPERTIES PipeSpec SendsFinish
CHECK_DEADLOCK FALSE
