\* One session, over two virtual hosts that differ in their configuration.
CONSTANTS
  s1 = s1  s2 = s2  d1 = d1  d2 = d2
  NONE = NONE
  Servers = {s1, s2}
  Dests = {d1, d2}
  Configs <- MCConfigs
  Modules = {"mod_sftp.c", "mod_sql.c", "mod_tls.c"}
  UIntWord = 8
  TimeWord = 16
  STATSD_MAX_TIME_MS = 4
  ClockStepsBack = TRUE
  MaxClock = 2
  MaxHosts = 2
  MaxSql = 1
  MaxChannels = 2
SPECIFICATION Spec
INVARIANTS TypeOK EngineHasClient ConfigFresh OnlyCurrentServer
  ConnectionGauge LoginGauge ProtocolGauges SqlGaugeIsCount
  SessionTimeSpansHosts
CHECK_DEADLOCK FALSE
