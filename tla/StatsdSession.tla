--------------------------- MODULE StatsdSession ---------------------------
(***************************************************************************)
(* mod_statsd.c in one session process of proftpd.  proftpd forks the      *)
(* process, calls statsd_sess_init(), and from then on calls the handlers  *)
(* of the module: after every command, and for the events it registered    *)
(* for.  A HOST command moves the session to another virtual host, whose   *)
(* configuration may differ in everything, and has the module start over.  *)
(*                                                                         *)
(* The client is abstract here: a metric written by a handler has reached  *)
(* the statsd server the client was opened for (StatsdClient models how).  *)
(* gauges adds up the values given to statsd_metric_gauge(); how metric.c  *)
(* prints one is left out.  Only the steps of proftpd that this module can *)
(* tell apart are modelled, each with the handlers it causes to run.       *)
(***************************************************************************)
EXTENDS Integers

CONSTANTS
  Servers,        \* virtual hosts
  Dests,          \* statsd servers
  NONE,           \* no statsd server, no command
  Configs,        \* the configurations proftpd may have been started with
  Modules,        \* the modules loaded, of "mod_sftp.c", "mod_sql.c", "mod_tls.c"
  UIntWord,       \* 2^32: the values of an unsigned int
  TimeWord,       \* 2^64: the values of an uint64_t
  STATSD_MAX_TIME_MS,
  ClockStepsBack, \* TRUE if the wall clock may be set back
  MaxClock,       \* bound: the clock
  MaxHosts,       \* bound: HOST commands obeyed
  MaxSql,         \* bound: database connections opened
  MaxChannels     \* bound: SFTP and SCP sessions opened

Commands == {"PASS", "AUTH", "HOST", "USER"}

Samplings == {"all", "some"}   \* StatsdSampling: 100 percent, or less

(* What find_config() finds of this module's directives for a server: no   *)
(* StatsdEngine is off, no StatsdExcludeFilter (or "none") excludes        *)
(* nothing, no StatsdSampling is 100.                                      *)
Config ==
  [engine : BOOLEAN, dest : Dests \cup {NONE}, sampling : Samplings,
   exclude : SUBSET Commands]

(* An executed command: which, whether it succeeded and when it began.     *)
CmdRecs == [name : Commands, ok : BOOLEAN, start : 1..MaxClock]

ASSUME SessionAssumption ==
  /\ NONE \notin Dests /\ NONE \notin CmdRecs
  /\ Configs \subseteq [Servers -> Config]
  /\ UIntWord \in Nat \ {0} /\ TimeWord \in Nat \ {0}
  /\ STATSD_MAX_TIME_MS \in Nat
  /\ ClockStepsBack \in BOOLEAN
  /\ MaxClock \in Nat \ {0}
  /\ MaxHosts \in Nat /\ MaxSql \in Nat /\ MaxChannels \in Nat

VARIABLES
  (* the module *)
  statsd_engine, statsd_exclude, statsd_sampling, statsd,
  statsd_sess_start_ms, statsd_sql_conn_count,
  registered,     \* the events this module has a handler for
  (* proftpd *)
  conf,           \* the configuration read at startup
  main_server,
  phase,          \* of the process
  proto,          \* pr_session_get_protocol()
  authenticated,
  cmd,            \* the command that was executed and is to be logged
  reinit,         \* TRUE if core.session-reinit is about to be generated
  clock,          \* pr_gettimeofday_millis()
  hosts, sql_open,
  channels,       \* SFTP and SCP sessions opened, of each kind
  (* what leaves the process, and history *)
  out,            \* the metrics written by the last step
  gauges,         \* per name, sum of its adjustments, over all statsd servers
  clients,        \* clients opened so far
  began,          \* the time at which the first of them was
  sql_missed      \* TRUE once a database event found no client

module_vars == <<statsd_engine, statsd_exclude, statsd_sampling, statsd,
                 statsd_sess_start_ms, statsd_sql_conn_count, registered>>
core_vars == <<conf, main_server, phase, proto, authenticated, cmd, reinit,
               clock, hosts, sql_open, channels>>
history_vars == <<clients, began, sql_missed>>
vars == <<module_vars, core_vars, out, gauges, history_vars>>
-----------------------------------------------------------------------------
Protocols == {"ftp", "ftps", "ssh2", "sftp", "scp"}

SshKinds == {"sftp", "scp"}   \* sessions in an SSH2 connection

TlsEnv == {"cipher", "protocol"}   \* TLS_CIPHER and TLS_PROTOCOL

(* get_conn_metric(): "connection" for NULL, else "<name>.connection",     *)
(* here the bare name.                                                     *)
ConnNames == {"connection", "sql"} \cup Protocols

Names == ConnNames \cup {"command", "event", "handshake"} \cup TlsEnv

Rates == Samplings   \* "all": written without a rate

NULL == [dest |-> NONE, sampling |-> "all"]

Clients == [dest : Dests, sampling : Samplings] \cup {NULL}

(* metric.c: a counter or timer carries the client's rate unless told not  *)
(* to, a gauge never does; a time is cut to STATSD_MAX_TIME_MS.            *)
Counter(name) == [type |-> "c", name |-> name, val |-> 1, rate |-> statsd.sampling]

CounterIgnoringSampling(name) ==
  [type |-> "c", name |-> name, val |-> 1, rate |-> "all"]

Gauge(name, adjust) == [type |-> "g", name |-> name, val |-> adjust, rate |-> "all"]

TimeUncapped(now, start) == (now - start) % TimeWord

Time(now, start) ==
  LET ms == (now - start) % TimeWord
  IN  IF ms > STATSD_MAX_TIME_MS THEN STATSD_MAX_TIME_MS ELSE ms

Timer(name, start) ==
  [type |-> "ms", name |-> name, val |-> Time(clock, start), rate |-> statsd.sampling]

Metrics ==
  [type : {"c", "g"}, name : Names, val : Int, rate : Rates]
    \cup [type : {"ms"}, name : Names, val : 0..STATSD_MAX_TIME_MS, rate : Rates]

(* How the metrics ms move the gauge of a name: a handler moves each once. *)
Moves(ms, name) ==
  LET of == {m \in ms : m.type = "g" /\ m.name = name}
  IN  IF of = {} THEN 0 ELSE (CHOOSE m \in of : TRUE).val

(* A handler writes the metrics ms to a client; to NULL it writes nothing, *)
(* for every function of metric.c returns early.                           *)
Emit(client, ms) ==
  IF client = NULL
    THEN out' = {} /\ UNCHANGED gauges
    ELSE /\ out' = {[dest |-> client.dest, metric |-> m] : m \in ms}
         /\ gauges' = [name \in ConnNames |-> gauges[name] + Moves(ms, name)]

Silent == out' = {} /\ UNCHANGED gauges
-----------------------------------------------------------------------------
TimeoutEvents ==
  {"core.timeout-idle", "core.timeout-login", "core.timeout-no-transfer",
   "core.timeout-session", "core.timeout-stalled"}

TlsEvents == {"mod_tls.ctrl-handshake-failed", "mod_tls.data-handshake-failed"}

(* The events whose handlers write one counter, whatever the sampling.     *)
CounterEvents ==
  TimeoutEvents \cup TlsEvents \cup {"mod_sql.db.error", "core.log.systemlog"}

Opened(kind) ==
  IF kind = "sftp" THEN "mod_sftp.sftp.session-opened"
                   ELSE "mod_sftp.scp.session-opened"

SqlEvents ==
  {"mod_sql.db.connection-opened", "mod_sql.db.connection-closed", "mod_sql.db.error"}

(* What statsd_sess_init() registers once it has a client. *)
SessionEvents ==
  {"core.exit", "core.log.systemlog"} \cup TimeoutEvents
    \cup (IF "mod_sftp.c" \in Modules THEN {Opened("sftp"), Opened("scp")} ELSE {})
    \cup (IF "mod_sql.c" \in Modules THEN SqlEvents ELSE {})
    \cup (IF "mod_tls.c" \in Modules THEN TlsEvents ELSE {})

Events == {"core.session-reinit"} \cup SessionEvents
-----------------------------------------------------------------------------
Init ==
  /\ statsd_engine = FALSE
  /\ statsd_exclude = {}
  /\ statsd_sampling = "all"
  /\ statsd = NULL
  /\ statsd_sess_start_ms = 0
  /\ statsd_sql_conn_count = 0
  /\ registered = {}
  /\ conf \in Configs
  /\ main_server \in Servers
  /\ phase = "forked"
  /\ proto \in {"ftp"} \cup (IF "mod_sftp.c" \in Modules THEN {"ssh2"} ELSE {})
  /\ authenticated = FALSE
  /\ cmd = NONE
  /\ reinit = FALSE
  /\ clock = 1
  /\ hosts = 0 /\ sql_open = 0
  /\ channels = [kind \in SshKinds |-> 0]
  /\ out = {}
  /\ gauges = [name \in ConnNames |-> 0]
  /\ clients = 0
  /\ began = 0
  /\ sql_missed = FALSE

Running == phase = "running"

(* After core.shutdown the process may still log, but does no more work.   *)
Alive == phase \in {"running", "shutdown"}

(* A handler of this module runs between two steps of a command, and not   *)
(* while the module is being told of a new main_server.                    *)
Idle == Running /\ cmd = NONE
-----------------------------------------------------------------------------
(* statsd_sess_init(), from a process with the given sampling and handlers. *)
(* Looking up the address and opening the client may fail.  The parts that  *)
(* depend on the client that was opened, or NULL, come first.               *)
Opens(sampling, ok) ==
  LET c == conf[main_server]
  IN  IF c.engine /\ c.dest # NONE /\ ok
        THEN [dest |-> c.dest, sampling |-> sampling]
        ELSE NULL

FilterOfOld(client) ==
  IF client # NULL /\ conf[main_server].exclude # {}
    THEN conf[main_server].exclude ELSE statsd_exclude

Filter(client) == IF client # NULL THEN conf[main_server].exclude ELSE {}

StartTimeOfLast(client) == IF client # NULL THEN clock ELSE statsd_sess_start_ms

StartTime(client) ==
  IF client # NULL /\ statsd_sess_start_ms = 0 THEN clock ELSE statsd_sess_start_ms

ClientOrOld(client) == IF client # NULL THEN client ELSE statsd

Client(client) == client

SessInit(sampling, handlers, ok) ==
  LET client == Opens(sampling, ok)
      started == client # NULL
  IN  /\ statsd' = Client(client)
      /\ statsd_engine' = started
      /\ statsd_exclude' = Filter(client)
      /\ statsd_sampling' = IF started THEN conf[main_server].sampling ELSE sampling
      /\ Emit(client, {Gauge("connection", 1)})
      /\ registered' = handlers \cup {"core.session-reinit"}
                         \cup (IF started THEN SessionEvents ELSE {})
      /\ statsd_sess_start_ms' = StartTime(client)
      /\ clients' = IF started THEN clients + 1 ELSE clients
      /\ began' = IF started /\ clients = 0 THEN clock ELSE began

Start(ok) ==
  /\ phase = "forked"
  /\ SessInit(statsd_sampling, registered, ok)
  /\ phase' = "running"
  /\ UNCHANGED <<statsd_sql_conn_count, conf, main_server, proto, authenticated,
                 cmd, reinit, clock, hosts, sql_open, channels, sql_missed>>

(* Mutant: the exit handler stays registered. *)
UnregisteredButExit == {"core.session-reinit"}

(* The handlers that statsd_sess_reinit_ev() unregisters. *)
Unregistered == {"core.exit", "core.session-reinit"}

(* statsd_sess_reinit_ev(): the old client is closed, with no metric of    *)
(* its own; all but two of the handlers stay registered.                   *)
Reinit(ok) ==
  /\ Running /\ reinit
  /\ reinit' = FALSE
  /\ "core.session-reinit" \in registered
  /\ SessInit("all", registered \ Unregistered, ok)
  /\ UNCHANGED <<statsd_sql_conn_count, conf, main_server, phase, proto,
                 authenticated, cmd, clock, hosts, sql_open, channels, sql_missed>>
-----------------------------------------------------------------------------
(* proftpd executes a command: a login, an AUTH TLS, a HOST that names     *)
(* another server (all three before login only), or one of no effect here. *)
Execute(name, ok) ==
  /\ Idle
  /\ cmd' = [name |-> name, ok |-> ok, start |-> clock]
  /\ IF ok /\ name = "PASS"
       THEN ~authenticated /\ authenticated' = TRUE
       ELSE UNCHANGED authenticated
  /\ IF ok /\ name = "AUTH"
       THEN /\ "mod_tls.c" \in Modules /\ ~authenticated
            /\ proto = "ftp" /\ proto' = "ftps"
       ELSE UNCHANGED proto
  /\ IF ok /\ name = "HOST"
       THEN /\ ~authenticated /\ proto \in {"ftp", "ftps"} /\ hosts < MaxHosts
            /\ main_server' \in Servers \ {main_server}
            /\ reinit' = TRUE
            /\ hosts' = hosts + 1
       ELSE UNCHANGED <<main_server, reinit, hosts>>
  /\ Silent
  /\ UNCHANGED <<module_vars, conf, phase, clock, sql_open, channels, history_vars>>

(* should_sample(). *)
SampledBy(sampling) == IF sampling = "all" THEN {TRUE} ELSE BOOLEAN

IsFtpLoginTried == cmd.name = "PASS" /\ proto = "ftp"

IsFtpLogin == cmd.name = "PASS" /\ cmd.ok /\ proto = "ftp"

(* The metrics of log_cmd_metrics() and log_tls_auth_metrics(), which have *)
(* a timer only if the command is known to have a start time, and count    *)
(* what the environment env names of a TLS session.                        *)
CommandMetrics(timed, env) ==
  LET tls == cmd.name = "AUTH" /\ cmd.ok
      up(name) == {Counter(name), Gauge(name, 1)}
      of(name) == {Counter(name)} \cup (IF timed THEN {Timer(name, cmd.start)} ELSE {})
  IN  of("command")
        \cup (IF tls THEN of("handshake") \cup up("ftps") \cup {Counter(name) : name \in env}
                     ELSE {})
        \cup (IF IsFtpLogin THEN up("ftp") ELSE {})

(* statsd_log_any() and statsd_log_any_err(). *)
LogCommand(sampled, timed, env) ==
  /\ Running /\ cmd # NONE /\ ~reinit
  /\ cmd' = NONE
  /\ sampled \in SampledBy(statsd_sampling)
  /\ IF statsd_engine /\ cmd.name \notin statsd_exclude /\ sampled
       THEN Emit(statsd, CommandMetrics(timed, env))
       ELSE Silent
  /\ UNCHANGED <<module_vars, conf, main_server, phase, proto, authenticated, reinit,
                 clock, hosts, sql_open, channels, history_vars>>
-----------------------------------------------------------------------------
(* statsd_log_ev(), incr_timeout_metric(), statsd_sql_db_error_ev() and    *)
(* incr_tls_handshake_error_metric().                                      *)
CounterEvent(event) ==
  /\ Alive /\ event \in registered
  /\ Emit(statsd, {CounterIgnoringSampling("event")})
  /\ UNCHANGED <<module_vars, core_vars, history_vars>>

(* A database connection is opened: statsd_sql_db_conn_opened_ev(). *)
SqlOpened ==
  /\ Running /\ "mod_sql.c" \in Modules /\ sql_open < MaxSql
  /\ sql_open' = sql_open + 1
  /\ IF "mod_sql.db.connection-opened" \in registered
       THEN /\ Emit(statsd, {CounterIgnoringSampling("sql"), Gauge("sql", 1)})
            /\ statsd_sql_conn_count' = (statsd_sql_conn_count + 1) % UIntWord
       ELSE Silent /\ UNCHANGED statsd_sql_conn_count
  /\ sql_missed' = (sql_missed \/ statsd = NULL)
  /\ UNCHANGED <<statsd_engine, statsd_exclude, statsd_sampling, statsd,
                 statsd_sess_start_ms, registered, conf, main_server, phase, proto,
                 authenticated, cmd, reinit, clock, hosts, channels, clients, began>>

CountKept == statsd_sql_conn_count

CountLess1Unguarded == statsd_sql_conn_count - 1

CountLess1 == IF statsd_sql_conn_count > 0 THEN statsd_sql_conn_count - 1 ELSE 0

(* One is closed: statsd_sql_db_conn_closed_ev(). *)
SqlClosed ==
  /\ Running /\ sql_open > 0
  /\ sql_open' = sql_open - 1
  /\ IF "mod_sql.db.connection-closed" \in registered
       THEN /\ Emit(statsd, {Gauge("sql", -1)})
            /\ statsd_sql_conn_count' = CountLess1
       ELSE Silent /\ UNCHANGED statsd_sql_conn_count
  /\ sql_missed' = (sql_missed \/ statsd = NULL)
  /\ UNCHANGED <<statsd_engine, statsd_exclude, statsd_sampling, statsd,
                 statsd_sess_start_ms, registered, conf, main_server, phase, proto,
                 authenticated, cmd, reinit, clock, hosts, channels, clients, began>>

(* Mutant: the handler for SCP was copied from that for SFTP. *)
ChannelMetricsOfSftp(kind) == {Counter("sftp"), Gauge("sftp", 1)}

ChannelMetrics(kind) == {Counter(kind), Gauge(kind, 1)}

(* An SFTP or SCP session is opened in an SSH2 connection:                 *)
(* statsd_ssh2_sftp_sess_opened_ev(), statsd_ssh2_scp_sess_opened_ev().    *)
ChannelOpened(kind, sampled) ==
  /\ Idle /\ "mod_sftp.c" \in Modules
  /\ authenticated /\ proto \in {"ssh2"} \cup SshKinds
  /\ channels["sftp"] + channels["scp"] < MaxChannels
  /\ proto' = kind
  /\ channels' = [channels EXCEPT ![kind] = @ + 1]
  /\ sampled \in SampledBy(statsd_sampling)
  /\ IF Opened(kind) \in registered /\ sampled
       THEN Emit(statsd, ChannelMetrics(kind))
       ELSE Silent
  /\ UNCHANGED <<module_vars, conf, main_server, phase, authenticated, cmd, reinit,
                 clock, hosts, sql_open, history_vars>>
-----------------------------------------------------------------------------
(* statsd_sql_conn_count * -1, an unsigned int, as an int64_t. *)
SqlAtExit == (0 - statsd_sql_conn_count) % UIntWord

ExitMetricsOfLogin ==
  (IF authenticated THEN {Gauge("connection", -1), Gauge(proto, -1),
                          Timer(proto, statsd_sess_start_ms)} ELSE {})
    \cup (IF statsd_sql_conn_count > 0 THEN {Gauge("sql", SqlAtExit)} ELSE {})

ExitMetrics ==
  {Gauge("connection", -1)}
    \cup (IF authenticated THEN {Gauge(proto, -1), Timer(proto, statsd_sess_start_ms)}
                           ELSE {})
    \cup (IF statsd_sql_conn_count > 0 THEN {Gauge("sql", SqlAtExit)} ELSE {})

(* The session ends: statsd_exit_ev(), if it is registered. *)
Exit ==
  /\ Running
  /\ phase' = "exited"
  /\ IF "core.exit" \in registered /\ statsd # NULL
       THEN /\ Emit(statsd, ExitMetrics)
            /\ statsd_sql_conn_count' = 0
            /\ statsd' = NULL
       ELSE Silent /\ UNCHANGED <<statsd_sql_conn_count, statsd>>
  /\ UNCHANGED <<statsd_engine, statsd_exclude, statsd_sampling,
                 statsd_sess_start_ms, registered, conf, main_server, proto,
                 authenticated, cmd, reinit, clock, hosts, sql_open, channels,
                 history_vars>>

(* statsd_shutdown_ev(): the client is closed with no metric of its own.   *)
Shutdown ==
  /\ Running
  /\ phase' = "shutdown"
  /\ statsd' = NULL
  /\ Silent
  /\ UNCHANGED <<statsd_engine, statsd_exclude, statsd_sampling,
                 statsd_sess_start_ms, statsd_sql_conn_count, registered, conf,
                 main_server, proto, authenticated, cmd, reinit, clock, hosts,
                 sql_open, channels, history_vars>>

(* The process is killed, and nothing runs in it any more. *)
Kill ==
  /\ Alive
  /\ phase' = "killed"
  /\ Silent
  /\ UNCHANGED <<module_vars, conf, main_server, proto, authenticated, cmd, reinit,
                 clock, hosts, sql_open, channels, history_vars>>

Tick ==
  /\ Running
  /\ clock' \in IF ClockStepsBack THEN 1..MaxClock ELSE {clock + 1} \cap 1..MaxClock
  /\ Silent
  /\ UNCHANGED <<module_vars, conf, main_server, phase, proto, authenticated, cmd,
                 reinit, hosts, sql_open, channels, history_vars>>

Next ==
  \/ \E ok \in BOOLEAN : Start(ok) \/ Reinit(ok)
  \/ \E name \in Commands, ok \in BOOLEAN : Execute(name, ok)
  \/ \E sampled, timed \in BOOLEAN, env \in SUBSET TlsEnv : LogCommand(sampled, timed, env)
  \/ \E event \in CounterEvents : CounterEvent(event)
  \/ SqlOpened \/ SqlClosed
  \/ \E kind \in SshKinds, sampled \in BOOLEAN : ChannelOpened(kind, sampled)
  \/ Exit \/ Shutdown \/ Kill \/ Tick

Spec == Init /\ [][Next]_vars
-----------------------------------------------------------------------------
TypeOK ==
  /\ statsd_engine \in BOOLEAN
  /\ statsd_exclude \subseteq Commands
  /\ statsd_sampling \in Samplings
  /\ statsd \in Clients
  /\ statsd_sess_start_ms \in 0..MaxClock
  /\ statsd_sql_conn_count \in 0..(UIntWord - 1)
  /\ registered \subseteq Events
  /\ conf \in Configs
  /\ main_server \in Servers
  /\ phase \in {"forked", "running", "shutdown", "exited", "killed"}
  /\ proto \in Protocols
  /\ authenticated \in BOOLEAN
  /\ cmd \in CmdRecs \cup {NONE}
  /\ reinit \in BOOLEAN
  /\ clock \in 1..MaxClock
  /\ hosts \in 0..MaxHosts /\ sql_open \in 0..MaxSql
  /\ channels \in [SshKinds -> 0..MaxChannels]
  /\ out \subseteq [dest : Dests, metric : Metrics]
  /\ gauges \in [ConnNames -> Int]
  /\ clients \in Nat
  /\ began \in 0..MaxClock
  /\ sql_missed \in BOOLEAN

(* The module keeps three things in step over any sequence of HOST         *)
(* commands: the engine is on exactly while there is a client, and exactly *)
(* then will an exit be reported.                                          *)
EngineHasClient ==
  Running => /\ statsd_engine <=> statsd # NULL
             /\ statsd_engine <=> "core.exit" \in registered

(* After a HOST command nothing of another server's configuration is left  *)
(* ("Reset internal state"): not its statsd server, filter or sampling.    *)
ConfigFresh ==
  Running /\ ~reinit =>
    LET c == conf[main_server]
    IN  IF statsd_engine
          THEN /\ c.engine /\ statsd.dest = c.dest
               /\ statsd_exclude = c.exclude /\ statsd_sampling = c.sampling
          ELSE statsd_exclude = {} /\ statsd_sampling = "all"

(* Whatever handler wrote them, and though most stay registered for good,  *)
(* metrics go only to the statsd server of the current virtual host, and   *)
(* nowhere if that has the module off.  Between proftpd's change of        *)
(* main_server and its core.session-reinit (reinit) they still go to the   *)
(* server of the host before, which this does not count as wrong.          *)
OnlyCurrentServer ==
  ~reinit => \A m \in out : /\ conf[main_server].engine
                            /\ m.dest = conf[main_server].dest

(* Each client that was opened raised the connection gauge, once; a proper *)
(* exit, and nothing else, lowers it, once.                                *)
ConnectionGauge ==
  gauges["connection"] =
    clients - (IF phase = "exited" /\ "core.exit" \in registered THEN 1 ELSE 0)

(* Where commands are neither sampled nor excluded, a logged-in plain FTP  *)
(* session is in ftp.connection once from the logging of its PASS on,      *)
(* however many logins failed and whatever HOST commands came before, and  *)
(* its exit takes that back.  An exit between the login and its logging    *)
(* takes back what was never added, and leaves the gauge one too low.      *)
LoginGauge ==
  LET c == conf[main_server]
      logged == ~(cmd # NONE /\ cmd.name = "PASS" /\ cmd.ok)
  IN  c.sampling = "all" /\ c.exclude = {} /\ proto = "ftp" /\ authenticated =>
        /\ Running /\ statsd # NULL => gauges["ftp"] = IF logged THEN 1 ELSE 0
        /\ phase = "exited" =>
             gauges["ftp"] = IF ~logged /\ "core.exit" \in registered THEN -1 ELSE 0

(* Where every virtual host has the module on and neither samples nor      *)
(* excludes, an AUTH TLS raises ftps.connection and each SFTP or SCP       *)
(* session that of its kind, whatever HOST commands came between.  The     *)
(* exit of a logged-in session lowers the gauge of its last protocol: so   *)
(* n SFTP sessions leave n - 1 if the last was one, an SSH2 connection     *)
(* without a session leaves ssh2.connection at -1, and a TLS session       *)
(* without a login leaves ftps.connection at 1.                            *)
ProtocolGauges ==
  LET one(b) == IF b THEN 1 ELSE 0
      lowered(name) == one(phase = "exited" /\ authenticated /\ proto = name)
      tls == proto = "ftps" /\ ~(cmd # NONE /\ cmd.name = "AUTH" /\ cmd.ok)
  IN  /\ \A s \in Servers : conf[s].sampling = "all" /\ conf[s].exclude = {}
      /\ clients = hosts + one(~reinit)
      => /\ gauges["ftps"] = one(tls) - lowered("ftps")
         /\ gauges["ssh2"] = 0 - lowered("ssh2")
         /\ \A kind \in SshKinds : gauges[kind] = channels[kind] - lowered(kind)

(* While every database event found a client, the sql.connection gauge,    *)
(* taken over all statsd servers, and the module's own count are both the  *)
(* number of open connections.                                             *)
SqlGaugeIsCount ==
  Running /\ ~sql_missed =>
    /\ statsd_sql_conn_count = sql_open
    /\ gauges["sql"] = sql_open

(* The session's duration is reckoned from the first client, across HOST   *)
(* commands ("we do not want to reset the start time in that case").       *)
SessionTimeSpansHosts ==
  \A m \in out : m.metric.type = "ms" /\ m.metric.name \in Protocols /\ phase = "exited"
               => m.metric.val = Time(clock, began)
-----------------------------------------------------------------------------
(* What documents, comments and tests say of the program, and the program  *)
(* does not do; each has a run of its own that shows how.                  *)

(* "Our connection gauge is a GAUGE; we expect it to have the same value   *)
(* after as before."                                                       *)
ConnectionGaugeSettles ==
  phase = "exited" => gauges["connection"] = 0

(* "if the session dies/closes before the database connections are closed  *)
(* cleanly, we can still properly adjust the SQL database connection gauge" *)
SqlGaugeSettles ==
  phase = "exited" /\ ~sql_missed => gauges["sql"] = 0

(* "Returns the sampling percentage for the statsd client." *)
ClientKnowsSampling ==
  Running /\ ~reinit /\ statsd # NULL => statsd.sampling = conf[main_server].sampling
=============================================================================
