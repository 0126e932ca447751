\* Ends of the session inside handlers; one HOST command, no sampling.
CONSTANTS
  s1 = s1  s2 = s2  d1 = d1  d2 = d2
  NONE = NONE
  Servers = {s1, s2}
  Dests = {d1, d2}
  Configs <- PlainConfigs
  Modules = {"mod_sftp.c", "mod_sql.c", "mod_tls.c"}
  UIntWord = 8
  TimeWord = 16
  STATSD_MAX_TIME_MS = 4
  ClockStepsBack = FALSE
  MaxClock = 1
  MaxHosts = 1
  MaxSql = 2
  MaxChannels = 0
  MaxNested = 2
SPECIFICATION ReentrySpec
INVARIANTS ReentryTypeOK ConnectionOff SqlOff
CHECK_DEADLOCK FALSE
