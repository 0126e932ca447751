\* Every server has the module on; no HOST command.
CONSTANTS
  s1 = s1  s2 = s2  d1 = d1  d2 = d2
  NONE = NONE
  Servers = {s1, s2}
  Dests = {d1, d2}
  Configs <- PlainConfigs
  Modules = {"mod_sftp.c", "mod_sql.c", "mod_tls.c"}
  UIntWord = 8
  TimeWord = 16
  STATSD_MAX_TIME_MS = 4
  ClockStepsBack = FALSE
  MaxClock = 2
  MaxHosts = 0
  MaxSql = 1
  MaxChannels = 1
SPECIFICATION Spec
INVARIANT SqlGaugeSettles
CHECK_DEADLOCK FALSE
