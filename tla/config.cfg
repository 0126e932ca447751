\* Two servers; every kind of directive, restarts, loads and unloads.
CONSTANTS
  Servers = {s1, s2}
  NONE = NONE
  NAN = NAN
  Hosts <- MCHosts
  Ports = {"53"}
  atoi <- MCatoi
  Lines <- MCLines
  Percentages = {0, 5, 1000, 1001}
  STATSD_DEFAULT_PORT = 8125
  PortWord = 65536
  Shared = TRUE
  MaxDirectives = 3
  MaxRestarts = 1
SPECIFICATION Spec
SYMMETRY ServerSymmetry
INVARIANTS TypeOK ClientAsWritten NoneMissing
CHECK_DEADLOCK FALSE
