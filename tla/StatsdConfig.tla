---------------------------- MODULE StatsdConfig ----------------------------
(***************************************************************************)
(* mod_statsd.c in the daemon: the directives, the check of the parsed     *)
(* configuration, loading and unloading of the module, and what            *)
(* statsd_sess_init() finds in the configuration in a session process.     *)
(*                                                                         *)
(* A text is a sequence of tokens: the characters "[", "]" and ":", the    *)
(* slashes of a scheme, and words.  proftpd is modelled as the module uses it: an error in *)
(* a directive stops the daemon, a record that find_config() is asked for  *)
(* is the first one added, a restart parses the configuration again, and a *)
(* shared module may be loaded and unloaded.                               *)
(***************************************************************************)
EXTENDS Integers, Sequences

CONSTANTS
  Servers,         \* the main server and virtual hosts
  NONE,            \* no record
  Lines,           \* arguments of StatsdServer: an address, a prefix, a suffix
  Hosts, Ports,    \* what an address may be made of
  Percentages,     \* of StatsdSampling, in tenths of a percent
  NAN,             \* what strtof() makes of "nan"
  atoi,            \* atoi() of the words that start with digits
  STATSD_DEFAULT_PORT,
  PortWord,        \* 2^16
  Shared,          \* TRUE for PR_SHARED_MODULE
  MaxDirectives,   \* bound: directives in a configuration
  MaxRestarts      \* bound: restarts

ASSUME ConfigAssumption ==
  /\ Lines \subseteq Seq(Seq(STRING))
  /\ Percentages \subseteq Int
  /\ DOMAIN atoi \subseteq STRING /\ \A w \in DOMAIN atoi : atoi[w] \in Int
  /\ NONE \notin DOMAIN atoi /\ NONE \notin {"on", "off"}
  /\ PortWord \in Nat /\ STATSD_DEFAULT_PORT \in 1..(PortWord - 1)
  /\ Shared \in BOOLEAN
  /\ MaxDirectives \in Nat /\ MaxRestarts \in Nat

ASSUME AddressAssumption ==
  /\ \A h \in Hosts : /\ h \in Seq(STRING) /\ h # <<>>
                      /\ \A i \in DOMAIN h : h[i] \notin {"[", "]", "//"}
  /\ Ports \subseteq DOMAIN atoi /\ \A p \in Ports : p \notin {":", "]", "//"}
  /\ \A p \in Ports : atoi[p] \in 1..(PortWord - 1)
  /\ NONE \notin {"tcp", "udp"}

VARIABLES
  registered,   \* the events of the daemon this module has a handler for
  phase,        \* of the daemon
  conf,         \* the first record of each directive, per server
  client,       \* the client last opened by a session, and what for
  directives, restarts

vars == <<registered, phase, conf, client, directives, restarts>>
-----------------------------------------------------------------------------
(* set_statsdserver(): the text without its scheme.                        *)
HasScheme(text) ==
  Len(text) >= 3 /\ text[1] \in {"tcp", "udp"} /\ text[2] = ":" /\ text[3] = "//"

Address(text) == IF HasScheme(text) THEN SubSeq(text, 4, Len(text)) ELSE text

UseTcp(text) == HasScheme(text) /\ text[1] = "tcp"

(* strrchr(): where the last colon is, 0 if there is none.                 *)
LastColon(t) ==
  IF \E i \in DOMAIN t : t[i] = ":"
    THEN CHOOSE i \in DOMAIN t : t[i] = ":" /\ \A j \in (i + 1)..Len(t) : t[j] # ":"
    ELSE 0

Atoi(t) == IF t # <<>> /\ t[1] \in DOMAIN atoi THEN atoi[t[1]] ELSE 0

At(host, port) == [host |-> host, port |-> port]

(* Mutant: any text in brackets ends with its port. *)
ParsedAnyColon(t) ==
  LET i == LastColon(t)
  IN  IF i = 0 THEN At(t, STATSD_DEFAULT_PORT)
      ELSE IF t[1] = "["
        THEN At(SubSeq(t, 2, i - 2), Atoi(SubSeq(t, i + 1, Len(t))))
      ELSE At(SubSeq(t, 1, i - 1), Atoi(SubSeq(t, i + 1, Len(t))))

(* The host and the port of an address.                                    *)
Parsed(t) ==
  LET i == LastColon(t)
      after == Atoi(SubSeq(t, i + 1, Len(t)))
  IN  CASE i = 0 -> At(t, STATSD_DEFAULT_PORT)
        [] i > 0 /\ t[1] = "[" /\ t[i - 1] = "]" -> At(SubSeq(t, 2, i - 2), after)
        [] i > 0 /\ t[1] = "[" /\ t[i - 1] # "]" /\ t[Len(t)] = "]" ->
             At(SubSeq(t, 2, Len(t) - 1), STATSD_DEFAULT_PORT)
        [] i > 0 /\ t[1] = "[" /\ t[i - 1] # "]" /\ t[Len(t)] # "]" ->
             At(t, STATSD_DEFAULT_PORT)
        [] i > 0 /\ t[1] # "[" -> At(SubSeq(t, 1, i - 1), after)

(* The prefix ends with a dot and the suffix starts with one; an empty one *)
(* is none.                                                                *)
Prefix(line) == IF Len(line) >= 2 /\ line[2] # <<>> THEN Append(line[2], ".") ELSE <<>>

Suffix(line) == IF Len(line) = 3 /\ line[3] # <<>> THEN <<".">> \o line[3] ELSE <<>>

ServerRecord(line) ==
  LET at == Parsed(Address(line[1]))
  IN  [line |-> line, host |-> at.host, port |-> at.port, use_tcp |-> UseTcp(line[1]),
       prefix |-> Prefix(line), suffix |-> Suffix(line)]
-----------------------------------------------------------------------------
NoRecords == [engine |-> NONE, exclude |-> NONE, sampling |-> NONE, server |-> NONE]

Handled == {"core.postparse", "core.shutdown"}
             \cup (IF Shared THEN {"core.module-unload"} ELSE {})

Init ==
  /\ registered = Handled
  /\ phase = "parsing"
  /\ conf = [s \in Servers |-> NoRecords]
  /\ client = NONE
  /\ directives = 0
  /\ restarts = 0

Loaded == registered # {}

Parsing == phase = "parsing" /\ Loaded /\ directives < MaxDirectives

(* A directive is an error, or adds a record, which counts if it is the    *)
(* first.                                                                  *)
Directive(s, name, accepted, value) ==
  /\ Parsing
  /\ directives' = directives + 1
  /\ IF accepted
       THEN /\ conf' = IF conf[s][name] = NONE
                         THEN [conf EXCEPT ![s][name] = value] ELSE conf
            /\ UNCHANGED phase
       ELSE phase' = "stopped" /\ UNCHANGED conf
  /\ UNCHANGED <<registered, client, restarts>>

(* set_statsdengine(); the argument is "on", "off", or no Boolean.         *)
SetEngine(s, arg) == Directive(s, "engine", arg \in {"on", "off"}, arg)

(* set_statsdexcludefilter(): a regular expression, which may not compile, *)
(* or "none".                                                              *)
SetExcludeFilter(s, arg) ==
  Directive(s, "exclude", arg # "no regex", arg)

(* Mutant: no upper limit. *)
PercentagePositive(p) == p = NAN \/ p > 0

(* The test of set_statsdsampling(), in which a NaN is neither too small   *)
(* nor too large.                                                          *)
PercentageOK(p) == p = NAN \/ (p > 0 /\ p <= 1000)

(* set_statsdsampling(): tenths of a percent become thousandths. *)
SetSampling(s, p) == Directive(s, "sampling", PercentageOK(p), p)

(* set_statsdserver(): one to three arguments. *)
SetServer(s, line) ==
  IF Len(line) \in 1..3
    THEN Directive(s, "server", TRUE, ServerRecord(line))
    ELSE Directive(s, "server", FALSE, NONE)

(* CHECK_ARGS and CHECK_CONF: wrong number of arguments, wrong context.    *)
Misplaced(s) == Directive(s, "engine", FALSE, NONE)
-----------------------------------------------------------------------------
(* Mutant: one server that says nothing of the engine ends the check. *)
IncompleteUnlessSilent ==
  /\ \A s \in Servers : conf[s].engine # NONE
  /\ \E s \in Servers : conf[s].engine = "on" /\ conf[s].server = NONE

(* statsd_postparse_ev() finds a server without the StatsdServer it needs. *)
Incomplete == \E s \in Servers : conf[s].engine = "on" /\ conf[s].server = NONE

(* The configuration is parsed; if it is incomplete the daemon ends.       *)
PostParse ==
  /\ phase = "parsing"
  /\ phase' = IF "core.postparse" \in registered /\ Incomplete
                THEN "stopped" ELSE "serving"
  /\ UNCHANGED <<registered, conf, client, directives, restarts>>

(* The daemon is told to read its configuration again; a shared module is  *)
(* unloaded before.                                                        *)
Restart ==
  /\ phase = "serving" /\ restarts < MaxRestarts
  /\ phase' = "parsing"
  /\ conf' = [s \in Servers |-> NoRecords]
  /\ registered' \in {registered} \cup (IF Shared THEN {{}} ELSE {})
  /\ directives' = 0
  /\ restarts' = restarts + 1
  /\ UNCHANGED client

(* statsd_mod_unload_ev() unregisters everything; statsd_init() registers. *)
Unload ==
  /\ phase = "serving" /\ "core.module-unload" \in registered
  /\ registered' = {}
  /\ UNCHANGED <<phase, conf, client, directives, restarts>>

Load ==
  /\ phase \in {"parsing", "serving"} /\ Shared /\ ~Loaded
  /\ registered' = Handled
  /\ UNCHANGED <<phase, conf, client, directives, restarts>>

(* A port has 16 bits. *)
Port(n) == n % PortWord

(* statsd_sess_init() in a session that starts with server s, up to the    *)
(* opening of its client, which may fail.                                  *)
SessInit(s, ok) ==
  /\ phase = "serving" /\ Loaded
  /\ LET c == conf[s].server
     IN  client' =
           IF conf[s].engine = "on" /\ c # NONE /\ ok
             THEN [line |-> c.line, host |-> c.host, port |-> Port(c.port),
                   use_tcp |-> c.use_tcp, prefix |-> c.prefix, suffix |-> c.suffix]
             ELSE NONE
  /\ UNCHANGED <<registered, phase, conf, directives, restarts>>

Next ==
  \/ \E s \in Servers :
       \/ \E arg \in {"on", "off", "neither"} : SetEngine(s, arg)
       \/ \E arg \in {"none", "regex", "no regex"} : SetExcludeFilter(s, arg)
       \/ \E p \in Percentages \cup {NAN} : SetSampling(s, p)
       \/ \E line \in Lines : SetServer(s, line)
       \/ Misplaced(s)
       \/ \E ok \in BOOLEAN : SessInit(s, ok)
  \/ PostParse \/ Restart \/ Unload \/ Load

Spec == Init /\ [][Next]_vars
-----------------------------------------------------------------------------
(* How mod_statsd.html says that an address is written: an optional scheme *)
(* and port, and an IPv6 address "enclosed in square brackets".            *)
Addresses ==
  [scheme : {"tcp", "udp", NONE}, host : Hosts, port : Ports \cup {NONE}]

Bracketed(host) ==
  IF \E i \in DOMAIN host : host[i] = ":" THEN <<"[">> \o host \o <<"]">> ELSE host

WithPort(a) ==
  IF a.port = NONE THEN Bracketed(a.host) ELSE Bracketed(a.host) \o <<":", a.port>>

Written(a) ==
  IF a.scheme = NONE THEN WithPort(a) ELSE <<a.scheme, ":", "//">> \o WithPort(a)

(* A session's client goes to the host and port that the configuration     *)
(* names, by the transport it names; where it names none, to the default   *)
(* port (statsd.h:34) over UDP, as mod_statsd.html says.                   *)
ClientAsWritten ==
  \A a \in Addresses :
    client # NONE /\ client.line[1] = Written(a) =>
      /\ client.host = a.host
      /\ client.port = IF a.port = NONE THEN STATSD_DEFAULT_PORT ELSE atoi[a.port]
      /\ client.use_tcp = (a.scheme = "tcp")

(* A daemon that serves has a StatsdServer for every server with the       *)
(* engine on, whatever was loaded, unloaded and read again before; so the  *)
(* branch of statsd_sess_init() that misses it is dead (mod_statsd.c:810). *)
NoneMissing ==
  phase = "serving" =>
    \A s \in Servers : conf[s].engine = "on" => conf[s].server # NONE

Records ==
  [engine : {"on", "off", NONE}, exclude : {"none", "regex", NONE},
   sampling : {NONE, NAN} \cup {p \in Percentages : 0 < p /\ p <= 1000},
   server : {NONE} \cup {ServerRecord(line) : line \in {l \in Lines : Len(l) \in 1..3}}]

(* Types.  A sampling that is recorded is above 0 and at most 100 percent, *)
(* or no number, and a filter is one that compiles.                        *)
TypeOK ==
  /\ registered \in {{}, Handled}
  /\ phase \in {"parsing", "serving", "stopped"}
  /\ conf \in [Servers -> Records]
  /\ client = NONE \/ client.line \in Lines
  /\ directives \in 0..MaxDirectives
  /\ restarts \in 0..MaxRestarts
=============================================================================
