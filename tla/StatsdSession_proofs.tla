----------------------- MODULE StatsdSession_proofs ------------------------
(***************************************************************************)
(* Proofs about StatsdSession, for any servers, configurations and bounds. *)
(***************************************************************************)
EXTENDS StatsdSession, TLAPS

(* A time is never negative, whatever the clock did, nor above the cap. *)
LEMMA TimeInRange ==
  ASSUME NEW now \in Int, NEW start \in Int
  PROVE  Time(now, start) \in 0..STATSD_MAX_TIME_MS
<1> DEFINE ms == (now - start) % TimeWord
<1>1. ms \in Nat
  BY SessionAssumption
<1> HIDE DEF ms
<1>2. (IF ms > STATSD_MAX_TIME_MS THEN STATSD_MAX_TIME_MS ELSE ms) \in 0..STATSD_MAX_TIME_MS
  BY <1>1, SessionAssumption
<1>3. QED
  BY <1>2 DEF Time, ms

(* What the handlers write are metrics. *)
LEMMA MetricTypes ==
  ASSUME statsd \in Clients, clock \in Int
  PROVE  /\ \A name \in Names : Counter(name) \in Metrics
         /\ \A name \in Names : CounterIgnoringSampling(name) \in Metrics
         /\ \A name \in Names, adjust \in Int : Gauge(name, adjust) \in Metrics
         /\ \A name \in Names, start \in Int : Timer(name, start) \in Metrics
<1>1. statsd.sampling \in Rates
  BY DEF Clients, NULL, Rates, Samplings
<1>2. "all" \in Rates
  BY DEF Rates, Samplings
<1>3. QED
  BY <1>1, <1>2, TimeInRange
  DEF Counter, CounterIgnoringSampling, Gauge, Timer, Metrics

LEMMA MovesType ==
  ASSUME NEW ms \in SUBSET Metrics, NEW name
  PROVE  Moves(ms, name) \in Int
<1>1. \A m \in Metrics : m.val \in Int
  BY DEF Metrics
<1>2. QED
  BY <1>1 DEF Moves

(* Writing metrics keeps the types of what leaves the process. *)
LEMMA EmitType ==
  ASSUME gauges \in [ConnNames -> Int],
         NEW client \in Clients, NEW ms \in SUBSET Metrics, Emit(client, ms)
  PROVE  /\ out' \subseteq [dest : Dests, metric : Metrics]
         /\ gauges' \in [ConnNames -> Int]
<1>1. CASE client = NULL
  BY <1>1 DEF Emit
<1>2. CASE client # NULL
  <2>1. client.dest \in Dests
    BY <1>2 DEF Clients
  <2>2. out' = {[dest |-> client.dest, metric |-> m] : m \in ms}
    BY <1>2 DEF Emit
  <2>3. gauges' = [name \in ConnNames |-> gauges[name] + Moves(ms, name)]
    BY <1>2 DEF Emit
  <2>4. gauges' \in [ConnNames -> Int]
    BY <2>3, MovesType
  <2>5. QED
    BY <2>1, <2>2, <2>4
<1>3. QED
  BY <1>1, <1>2

LEMMA SilentType ==
  ASSUME gauges \in [ConnNames -> Int], Silent
  PROVE  /\ out' \subseteq [dest : Dests, metric : Metrics]
         /\ gauges' \in [ConnNames -> Int]
  BY DEF Silent

LEMMA ConfigTypes ==
  ASSUME TypeOK
  PROVE  /\ conf[main_server].engine \in BOOLEAN
         /\ conf[main_server].dest \in Dests \cup {NONE}
         /\ conf[main_server].sampling \in Samplings
         /\ conf[main_server].exclude \subseteq Commands
<1>1. conf[main_server] \in Config
  BY SessionAssumption DEF TypeOK
<1>2. QED
  BY <1>1 DEF Config

LEMMA InitType == Init => TypeOK
<1> SUFFICES ASSUME Init PROVE TypeOK
  OBVIOUS
<1>1. gauges \in [ConnNames -> Int]
  BY DEF Init
<1>2. /\ 0 \in 0..(UIntWord - 1) /\ 0 \in 0..MaxClock /\ 1 \in 1..MaxClock
      /\ 0 \in 0..MaxHosts /\ 0 \in 0..MaxSql /\ 0 \in 0..MaxChannels /\ 0 \in Nat
  BY SessionAssumption
<1>3. proto \in Protocols
  BY DEF Init, Protocols
<1>4. statsd \in Clients /\ statsd_sampling \in Samplings
  BY DEF Init, Clients, Samplings
<1>5. statsd_exclude \subseteq Commands /\ registered \subseteq Events
      /\ out \subseteq [dest : Dests, metric : Metrics]
  BY DEF Init
<1>6. channels \in [SshKinds -> 0..MaxChannels]
  BY <1>2 DEF Init
<1>7. QED
  BY <1>1, <1>2, <1>3, <1>4, <1>5, <1>6 DEF Init, TypeOK

(* The module starts, or starts over. *)
LEMMA SessInitType ==
  ASSUME TypeOK, NEW sampling \in Samplings, NEW handlers \in SUBSET Events,
         NEW ok \in BOOLEAN, SessInit(sampling, handlers, ok)
  PROVE  /\ statsd' \in Clients
         /\ statsd_engine' \in BOOLEAN
         /\ statsd_exclude' \subseteq Commands
         /\ statsd_sampling' \in Samplings
         /\ registered' \subseteq Events
         /\ statsd_sess_start_ms' \in 0..MaxClock
         /\ clients' \in Nat
         /\ began' \in 0..MaxClock
         /\ out' \subseteq [dest : Dests, metric : Metrics]
         /\ gauges' \in [ConnNames -> Int]
<1> DEFINE client == Opens(sampling, ok)
<1>1. client \in Clients
  BY ConfigTypes DEF Opens, Clients
<1>2. {Gauge("connection", 1)} \in SUBSET Metrics
  BY DEF Gauge, Metrics, Names, ConnNames, Rates, Samplings
<1>3. Emit(client, {Gauge("connection", 1)})
  BY DEF SessInit
<1>4. gauges \in [ConnNames -> Int]
  BY DEF TypeOK
<1>5. /\ out' \subseteq [dest : Dests, metric : Metrics]
      /\ gauges' \in [ConnNames -> Int]
  BY <1>1, <1>2, <1>3, <1>4, EmitType
<1>6. registered' \subseteq Events
  BY DEF SessInit, Events
<1>7. /\ statsd_exclude' \subseteq Commands
      /\ statsd_sampling' \in Samplings
  BY ConfigTypes DEF SessInit, Filter
<1>8. /\ statsd_sess_start_ms' \in 0..MaxClock
      /\ clients' \in Nat
      /\ began' \in 0..MaxClock
  BY SessionAssumption DEF SessInit, StartTime, TypeOK
<1>9. statsd' \in Clients /\ statsd_engine' \in BOOLEAN
  BY <1>1 DEF SessInit, Client
<1>10. QED
  BY <1>5, <1>6, <1>7, <1>8, <1>9

(* The metrics written after a command, and at the exit. *)
LEMMA CommandMetricsType ==
  ASSUME TypeOK, cmd # NONE, NEW timed \in BOOLEAN, NEW env \in SUBSET TlsEnv
  PROVE  CommandMetrics(timed, env) \in SUBSET Metrics
<1>1. cmd.start \in Int
  BY DEF TypeOK, CmdRecs
<1>2. {"command", "handshake", "ftp", "ftps"} \cup TlsEnv \subseteq Names
  BY DEF Names, ConnNames, Protocols
<1>3. statsd \in Clients /\ clock \in Int
  BY DEF TypeOK
<1>4. /\ \A name \in {"command", "handshake", "ftp", "ftps"} :
           Counter(name) \in Metrics /\ Gauge(name, 1) \in Metrics
      /\ \A name \in env : Counter(name) \in Metrics
      /\ \A name \in {"command", "handshake"} : Timer(name, cmd.start) \in Metrics
  BY <1>1, <1>2, <1>3, MetricTypes
<1>5. QED
  BY <1>4 DEF CommandMetrics

LEMMA ExitMetricsType ==
  ASSUME TypeOK
  PROVE  ExitMetrics \in SUBSET Metrics
<1>1. {"connection", "sql", proto} \subseteq Names
  BY DEF TypeOK, Names, ConnNames
<1>2. statsd \in Clients /\ clock \in Int /\ statsd_sess_start_ms \in Int
  BY DEF TypeOK
<1>3. -1 \in Int /\ SqlAtExit \in Int
  BY SessionAssumption DEF SqlAtExit, TypeOK
<1>4. /\ Gauge("connection", -1) \in Metrics
      /\ Gauge(proto, -1) \in Metrics
      /\ Gauge("sql", SqlAtExit) \in Metrics
      /\ Timer(proto, statsd_sess_start_ms) \in Metrics
  BY <1>1, <1>2, <1>3, MetricTypes
<1>5. QED
  BY <1>4 DEF ExitMetrics

(* Type correctness is inductive by itself; one step per action. *)
LEMMA StepType == TypeOK /\ [Next]_vars => TypeOK'
<1> SUFFICES ASSUME TypeOK, [Next]_vars PROVE TypeOK'
  OBVIOUS
<1> USE DEF module_vars, core_vars, history_vars
<1>0. /\ gauges \in [ConnNames -> Int]
      /\ statsd \in Clients /\ clock \in Int
  BY DEF TypeOK
<1>1. ASSUME NEW ok \in BOOLEAN, Start(ok) PROVE TypeOK'
  <2>1. SessInit(statsd_sampling, registered, ok)
    BY <1>1 DEF Start
  <2>2. statsd_sampling \in Samplings /\ registered \in SUBSET Events
    BY DEF TypeOK
  <2>3. QED
    BY <1>1, <2>1, <2>2, SessInitType DEF Start, TypeOK
<1>2. ASSUME NEW ok \in BOOLEAN, Reinit(ok) PROVE TypeOK'
  <2>1. SessInit("all", registered \ Unregistered, ok)
    BY <1>2 DEF Reinit
  <2>2. "all" \in Samplings /\ registered \ Unregistered \in SUBSET Events
    BY DEF TypeOK, Samplings
  <2>3. QED
    BY <1>2, <2>1, <2>2, SessInitType DEF Reinit, TypeOK
<1>3. ASSUME NEW name \in Commands, NEW ok \in BOOLEAN, Execute(name, ok) PROVE TypeOK'
  <2>1. cmd' \in CmdRecs
    BY <1>3 DEF Execute, CmdRecs, TypeOK
  <2>2. authenticated' \in BOOLEAN /\ proto' \in Protocols
    BY <1>3 DEF Execute, TypeOK, Protocols
  <2>3. main_server' \in Servers /\ reinit' \in BOOLEAN /\ hosts' \in 0..MaxHosts
    <3>1. CASE ok /\ name = "HOST"
      <4>1. main_server' \in Servers /\ reinit' = TRUE /\ hosts' = hosts + 1 /\ hosts < MaxHosts
        BY <1>3, <3>1 DEF Execute
      <4>2. hosts \in 0..MaxHosts /\ MaxHosts \in Nat
        BY SessionAssumption DEF TypeOK
      <4>3. QED
        BY <4>1, <4>2
    <3>2. CASE ~(ok /\ name = "HOST")
      BY <1>3, <3>2 DEF Execute, TypeOK
    <3>3. QED
      BY <3>1, <3>2
  <2>4. QED
    BY <1>0, <1>3, <2>1, <2>2, <2>3, SilentType DEF Execute, TypeOK
<1>4. ASSUME NEW sampled \in BOOLEAN, NEW timed \in BOOLEAN,
             NEW env \in SUBSET TlsEnv, LogCommand(sampled, timed, env)
      PROVE  TypeOK'
  <2>1. CommandMetrics(timed, env) \in SUBSET Metrics
    BY <1>4, CommandMetricsType DEF LogCommand
  <2>2. /\ out' \subseteq [dest : Dests, metric : Metrics]
        /\ gauges' \in [ConnNames -> Int]
    BY <1>0, <1>4, <2>1, EmitType, SilentType DEF LogCommand
  <2>3. QED
    BY <1>4, <2>2 DEF LogCommand, TypeOK
<1>5. ASSUME NEW event \in CounterEvents, CounterEvent(event) PROVE TypeOK'
  <2>1. {CounterIgnoringSampling("event")} \in SUBSET Metrics
    BY <1>0, MetricTypes DEF Names
  <2>2. /\ out' \subseteq [dest : Dests, metric : Metrics]
        /\ gauges' \in [ConnNames -> Int]
    BY <1>0, <1>5, <2>1, EmitType DEF CounterEvent
  <2>3. QED
    BY <1>5, <2>2 DEF CounterEvent, TypeOK
<1>6. CASE SqlOpened
  <2>1. {CounterIgnoringSampling("sql"), Gauge("sql", 1)} \in SUBSET Metrics
    BY <1>0, MetricTypes DEF Names, ConnNames
  <2>2. /\ out' \subseteq [dest : Dests, metric : Metrics]
        /\ gauges' \in [ConnNames -> Int]
    BY <1>0, <1>6, <2>1, EmitType, SilentType DEF SqlOpened
  <2>3. (statsd_sql_conn_count + 1) % UIntWord \in 0..(UIntWord - 1)
    BY SessionAssumption DEF TypeOK
  <2>4. statsd_sql_conn_count' \in 0..(UIntWord - 1)
    BY <1>6, <2>3 DEF SqlOpened, TypeOK
  <2>5. sql_open' \in 0..MaxSql /\ sql_missed' \in BOOLEAN
    BY <1>6, SessionAssumption DEF SqlOpened, TypeOK
  <2>6. QED
    BY <1>6, <2>2, <2>4, <2>5 DEF SqlOpened, TypeOK
<1>7. CASE SqlClosed
  <2>1. {Gauge("sql", -1)} \in SUBSET Metrics
    BY <1>0, MetricTypes DEF Names, ConnNames
  <2>2. /\ out' \subseteq [dest : Dests, metric : Metrics]
        /\ gauges' \in [ConnNames -> Int]
    BY <1>0, <1>7, <2>1, EmitType, SilentType DEF SqlClosed
  <2>3. CountLess1 \in 0..(UIntWord - 1)
    BY SessionAssumption DEF CountLess1, TypeOK
  <2>4. statsd_sql_conn_count' \in 0..(UIntWord - 1)
    BY <1>7, <2>3 DEF SqlClosed, TypeOK
  <2>5. sql_open' \in 0..MaxSql /\ sql_missed' \in BOOLEAN
    BY <1>7, SessionAssumption DEF SqlClosed, TypeOK
  <2>6. QED
    BY <1>7, <2>2, <2>4, <2>5 DEF SqlClosed, TypeOK
<1>8. ASSUME NEW kind \in SshKinds, NEW sampled \in BOOLEAN,
             ChannelOpened(kind, sampled)
      PROVE  TypeOK'
  <2>1. ChannelMetrics(kind) \in SUBSET Metrics
    BY <1>0, MetricTypes DEF ChannelMetrics, Names, ConnNames, Protocols, SshKinds
  <2>2. /\ out' \subseteq [dest : Dests, metric : Metrics]
        /\ gauges' \in [ConnNames -> Int]
    BY <1>0, <1>8, <2>1, EmitType, SilentType DEF ChannelOpened
  <2>3. proto' \in Protocols
    BY <1>8 DEF ChannelOpened, Protocols, SshKinds
  <2>4. channels' \in [SshKinds -> 0..MaxChannels]
    <3>1. /\ channels \in [SshKinds -> 0..MaxChannels]
          /\ channels["sftp"] + channels["scp"] < MaxChannels
          /\ channels' = [channels EXCEPT ![kind] = channels[kind] + 1]
      BY <1>8 DEF ChannelOpened, TypeOK
    <3>2. channels["sftp"] \in 0..MaxChannels /\ channels["scp"] \in 0..MaxChannels
      BY <3>1 DEF SshKinds
    <3>3. channels[kind] + 1 \in 0..MaxChannels
      BY <3>1, <3>2, SessionAssumption DEF SshKinds
    <3>4. QED
      BY <3>1, <3>3
  <2>5. QED
    BY <1>8, <2>2, <2>3, <2>4 DEF ChannelOpened, TypeOK
<1>9. CASE Exit
  <2>1. /\ out' \subseteq [dest : Dests, metric : Metrics]
        /\ gauges' \in [ConnNames -> Int]
    BY <1>0, <1>9, ExitMetricsType, EmitType, SilentType DEF Exit
  <2>2. statsd_sql_conn_count' \in 0..(UIntWord - 1) /\ statsd' \in Clients
    BY <1>9, SessionAssumption DEF Exit, TypeOK, Clients
  <2>3. QED
    BY <1>9, <2>1, <2>2 DEF Exit, TypeOK
<1>10. CASE Shutdown
  BY <1>0, <1>10, SilentType DEF Shutdown, TypeOK, Clients
<1>11. CASE Kill
  BY <1>0, <1>11, SilentType DEF Kill, TypeOK
<1>12. CASE Tick
  <2>1. clock' \in 1..MaxClock
    BY <1>12 DEF Tick
  <2>2. QED
    BY <1>0, <1>12, <2>1, SilentType DEF Tick, TypeOK
<1>13. CASE UNCHANGED vars
  BY <1>13 DEF vars, TypeOK
<1>14. QED
  BY <1>1, <1>2, <1>3, <1>4, <1>5, <1>6, <1>7, <1>8, <1>9, <1>10, <1>11, <1>12, <1>13
  DEF Next

(* The session's state has its type in every behaviour. *)
THEOREM TypeCorrect == Spec => []TypeOK
<1>1. QED
  BY InitType, StepType, PTL DEF Spec
-----------------------------------------------------------------------------
(* What the module holds is what the configuration of the current virtual  *)
(* host says.  A metric is written with the client there is, so where the  *)
(* metrics go follows from where the client points; and this only if the   *)
(* process has forgotten nothing before its first start (Fresh), and has   *)
(* no client left once it was told to shut down (Down).                    *)
Fresh ==
  phase = "forked" => /\ ~statsd_engine /\ statsd = NULL
                      /\ statsd_exclude = {} /\ statsd_sampling = "all"
                      /\ registered = {} /\ ~reinit
                      /\ clients = 0 /\ statsd_sess_start_ms = 0

Down == phase = "shutdown" => statsd = NULL

(* The start of the session is the opening of the first client. *)
StartIsBegan ==
  /\ clients = 0 => statsd = NULL /\ statsd_sess_start_ms = 0
  /\ clients > 0 => statsd_sess_start_ms = began /\ began > 0

SessionInv ==
  /\ TypeOK
  /\ Fresh
  /\ Down
  /\ StartIsBegan
  /\ EngineHasClient
  /\ ConfigFresh
  /\ OnlyCurrentServer
  /\ SessionTimeSpansHosts

(* A metric that is written goes where its client points. *)
LEMMA EmitDest ==
  ASSUME NEW client, NEW ms, Emit(client, ms)
  PROVE  \A m \in out' : client # NULL /\ m.dest = client.dest /\ m.metric \in ms
  BY DEF Emit

(* The client of a running session points at the statsd server of its      *)
(* virtual host.                                                           *)
LEMMA ClientIsCurrent ==
  ASSUME SessionInv, Running \/ phase = "shutdown", ~reinit, statsd # NULL
  PROVE  conf[main_server].engine /\ statsd.dest = conf[main_server].dest
  BY DEF SessionInv, Down, EngineHasClient, ConfigFresh, Running

(* statsd_sess_init() establishes what the invariant says of the module,   *)
(* from handlers of which core.exit is none, for the server there is.      *)
LEMMA SessInitFresh ==
  ASSUME TypeOK, StartIsBegan, NEW ok \in BOOLEAN, NEW handlers \in SUBSET Events,
         "core.exit" \notin handlers, SessInit("all", handlers, ok),
         UNCHANGED <<conf, main_server>>, phase' = "running"
  PROVE  (StartIsBegan /\ EngineHasClient /\ ConfigFresh
            /\ OnlyCurrentServer /\ SessionTimeSpansHosts)'
<1> DEFINE client == Opens("all", ok)
<1>1. /\ statsd' = client
      /\ statsd_engine' = (client # NULL)
      /\ registered' = handlers \cup {"core.session-reinit"}
                         \cup (IF client # NULL THEN SessionEvents ELSE {})
      /\ Emit(client, {Gauge("connection", 1)})
  BY DEF SessInit, Client
<1>2. "core.exit" \in SessionEvents
  BY DEF SessionEvents
<1>3. EngineHasClient'
  BY <1>1, <1>2 DEF EngineHasClient, Running
<1>4. client # NULL => /\ conf[main_server].engine
                       /\ client.dest = conf[main_server].dest
  BY DEF Opens
<1>5. /\ statsd_exclude' = IF client # NULL THEN conf[main_server].exclude ELSE {}
      /\ statsd_sampling' = IF client # NULL THEN conf[main_server].sampling ELSE "all"
  BY DEF SessInit, Filter
<1>6. ConfigFresh'
  BY <1>1, <1>4, <1>5 DEF ConfigFresh
<1>7. OnlyCurrentServer'
  BY <1>1, <1>4, EmitDest DEF OnlyCurrentServer
<1>8. StartIsBegan'
  <2>1. CASE client = NULL
    BY <1>1, <2>1 DEF SessInit, StartTime, StartIsBegan
  <2>2. CASE client # NULL
    <3>1. clock > 0 /\ clients \in Nat
      BY SessionAssumption DEF TypeOK
    <3>2. clients' = clients + 1 /\ clients' > 0
      BY <2>2, <3>1 DEF SessInit
    <3>3. CASE clients = 0
      BY <2>2, <3>1, <3>2, <3>3 DEF SessInit, StartTime, StartIsBegan
    <3>4. CASE clients > 0
      BY <2>2, <3>1, <3>2, <3>4 DEF SessInit, StartTime, StartIsBegan
    <3>5. QED
      BY <3>1, <3>3, <3>4
  <2>3. QED
    BY <2>1, <2>2
<1>9. SessionTimeSpansHosts'
  BY DEF SessionTimeSpansHosts
<1>10. QED
  BY <1>3, <1>6, <1>7, <1>8, <1>9

(* A handler that leaves the module's own state alone. *)
LEMMA HandlerKeepsInv ==
  ASSUME SessionInv, TypeOK', NEW ms,
         Emit(statsd, ms) \/ Silent,
         Running \/ phase = "shutdown", phase' = phase,
         UNCHANGED <<statsd_engine, statsd_exclude, statsd_sampling, statsd,
                     statsd_sess_start_ms, registered, conf, main_server, reinit,
                     clients, began>>
  PROVE  SessionInv'
<1> USE DEF SessionInv
<1>1. phase # "forked" /\ phase # "exited"
  BY DEF Running
<1>2. OnlyCurrentServer'
  <2>1. CASE Silent
    BY <2>1 DEF Silent, OnlyCurrentServer
  <2>2. CASE Emit(statsd, ms)
    BY <2>2, EmitDest, ClientIsCurrent DEF OnlyCurrentServer
  <2>3. QED
    BY <2>1, <2>2
<1>3. SessionTimeSpansHosts'
  BY <1>1 DEF SessionTimeSpansHosts
<1>4. (Fresh /\ Down /\ StartIsBegan /\ EngineHasClient /\ ConfigFresh)'
  BY <1>1 DEF Fresh, Down, StartIsBegan, EngineHasClient, ConfigFresh, Running
<1>5. QED
  BY <1>2, <1>3, <1>4

LEMMA SessionStep == SessionInv /\ [Next]_vars => SessionInv'
<1> SUFFICES ASSUME SessionInv, [Next]_vars PROVE SessionInv'
  OBVIOUS
<1> USE DEF SessionInv, module_vars, core_vars, history_vars
<1>0. TypeOK'
  BY StepType
<1>1. ASSUME NEW ok \in BOOLEAN, Start(ok) PROVE SessionInv'
  <2>1. statsd_sampling = "all" /\ registered = {}
    BY <1>1 DEF Start, Fresh
  <2>2. SessInit("all", {}, ok)
    BY <1>1, <2>1 DEF Start
  <2>3. (StartIsBegan /\ EngineHasClient /\ ConfigFresh /\ OnlyCurrentServer
           /\ SessionTimeSpansHosts)'
    BY <1>1, <2>2, SessInitFresh DEF Start
  <2>4. QED
    BY <1>0, <1>1, <2>3 DEF Start, Fresh, Down
<1>2. ASSUME NEW ok \in BOOLEAN, Reinit(ok) PROVE SessionInv'
  <2>1. /\ registered \ Unregistered \in SUBSET Events
        /\ "core.exit" \notin registered \ Unregistered
    BY DEF TypeOK, Unregistered
  <2>2. SessInit("all", registered \ Unregistered, ok)
    BY <1>2 DEF Reinit
  <2>3. phase' = "running" /\ UNCHANGED <<conf, main_server>>
    BY <1>2 DEF Reinit, Running
  <2>4. (StartIsBegan /\ EngineHasClient /\ ConfigFresh /\ OnlyCurrentServer
           /\ SessionTimeSpansHosts)'
    BY <2>1, <2>2, <2>3, SessInitFresh
  <2>5. QED
    BY <1>0, <2>3, <2>4 DEF Fresh, Down
<1>3. ASSUME NEW name \in Commands, NEW ok \in BOOLEAN, Execute(name, ok)
      PROVE  SessionInv'
  <2>1. /\ phase = "running" /\ phase' = "running" /\ out' = {}
        /\ UNCHANGED module_vars /\ UNCHANGED <<conf, clients, began>>
    BY <1>3 DEF Execute, Idle, Running, Silent
  <2>2. reinit' \/ (reinit' = reinit /\ main_server' = main_server)
    BY <1>3 DEF Execute
  <2>3. ConfigFresh'
    BY <2>1, <2>2 DEF ConfigFresh, Running
  <2>4. (Fresh /\ Down /\ StartIsBegan /\ EngineHasClient)'
    BY <2>1 DEF Fresh, Down, StartIsBegan, EngineHasClient, Running
  <2>5. (OnlyCurrentServer /\ SessionTimeSpansHosts)'
    BY <2>1 DEF OnlyCurrentServer, SessionTimeSpansHosts
  <2>6. QED
    BY <1>0, <2>3, <2>4, <2>5
<1>4. ASSUME NEW sampled \in BOOLEAN, NEW timed \in BOOLEAN,
             NEW env \in SUBSET TlsEnv, LogCommand(sampled, timed, env)
      PROVE  SessionInv'
  <2>1. Emit(statsd, CommandMetrics(timed, env)) \/ Silent
    BY <1>4 DEF LogCommand
  <2>2. QED
    BY <1>0, <1>4, <2>1, HandlerKeepsInv DEF LogCommand
<1>5. ASSUME NEW event \in CounterEvents, CounterEvent(event) PROVE SessionInv'
  BY <1>0, <1>5, HandlerKeepsInv DEF CounterEvent, Alive, Running
<1>6. CASE SqlOpened
  <2>1. Emit(statsd, {CounterIgnoringSampling("sql"), Gauge("sql", 1)}) \/ Silent
    BY <1>6 DEF SqlOpened
  <2>2. QED
    BY <1>0, <1>6, <2>1, HandlerKeepsInv DEF SqlOpened
<1>7. CASE SqlClosed
  <2>1. Emit(statsd, {Gauge("sql", -1)}) \/ Silent
    BY <1>7 DEF SqlClosed
  <2>2. QED
    BY <1>0, <1>7, <2>1, HandlerKeepsInv DEF SqlClosed
<1>8. ASSUME NEW kind \in SshKinds, NEW sampled \in BOOLEAN,
             ChannelOpened(kind, sampled)
      PROVE  SessionInv'
  <2>1. Emit(statsd, ChannelMetrics(kind)) \/ Silent
    BY <1>8 DEF ChannelOpened
  <2>2. QED
    BY <1>0, <1>8, <2>1, HandlerKeepsInv DEF ChannelOpened, Idle
<1>9. CASE Exit
  <2>1. /\ phase = "running" /\ phase' = "exited"
        /\ UNCHANGED <<statsd_sess_start_ms, conf, main_server, reinit, clients,
                       began, clock>>
    BY <1>9 DEF Exit, Running
  <2>2. statsd' = statsd \/ statsd' = NULL
    BY <1>9 DEF Exit
  <2>3. Emit(statsd, ExitMetrics) \/ out' = {}
    BY <1>9 DEF Exit, Silent
  <2>4. OnlyCurrentServer'
    <3>1. CASE out' = {}
      BY <3>1 DEF OnlyCurrentServer
    <3>2. CASE Emit(statsd, ExitMetrics)
      BY <2>1, <3>2, EmitDest, ClientIsCurrent DEF OnlyCurrentServer, Running
    <3>3. QED
      BY <2>3, <3>1, <3>2
  <2>5. SessionTimeSpansHosts'
    <3>1. CASE out' = {}
      BY <3>1 DEF SessionTimeSpansHosts
    <3>2. CASE Emit(statsd, ExitMetrics)
      <4>1. ASSUME NEW m \in out', m.metric.type = "ms"
            PROVE  m.metric.val = Time(clock, began)
        <5>1. statsd # NULL /\ m.metric \in ExitMetrics
          BY <3>2, EmitDest
        <5>2. m.metric = Timer(proto, statsd_sess_start_ms)
          BY <4>1, <5>1 DEF ExitMetrics, Gauge
        <5>3. statsd_sess_start_ms = began
          BY <5>1 DEF StartIsBegan, TypeOK
        <5>4. QED
          BY <5>2, <5>3 DEF Timer
      <4>2. Time(clock, began)' = Time(clock, began)
        BY <2>1 DEF Time
      <4>3. QED
        BY <4>1, <4>2 DEF SessionTimeSpansHosts
    <3>3. QED
      BY <2>3, <3>1, <3>2
  <2>6. (Fresh /\ Down /\ StartIsBegan /\ EngineHasClient /\ ConfigFresh)'
    BY <2>1, <2>2 DEF Fresh, Down, StartIsBegan, EngineHasClient, ConfigFresh, Running
  <2>7. QED
    BY <1>0, <2>4, <2>5, <2>6
<1>10. CASE Shutdown
  <2>1. phase' = "shutdown" /\ statsd' = NULL /\ out' = {}
        /\ UNCHANGED <<statsd_sess_start_ms, clients, began>>
    BY <1>10 DEF Shutdown, Silent
  <2>2. (Fresh /\ Down /\ StartIsBegan /\ EngineHasClient /\ ConfigFresh)'
    BY <2>1 DEF Fresh, Down, StartIsBegan, EngineHasClient, ConfigFresh, Running
  <2>3. QED
    BY <1>0, <2>1, <2>2 DEF OnlyCurrentServer, SessionTimeSpansHosts
<1>11. CASE Kill
  <2>1. phase' = "killed" /\ out' = {}
        /\ UNCHANGED <<statsd, statsd_sess_start_ms, clients, began>>
    BY <1>11 DEF Kill, Silent
  <2>2. (Fresh /\ Down /\ StartIsBegan /\ EngineHasClient /\ ConfigFresh)'
    BY <2>1 DEF Fresh, Down, StartIsBegan, EngineHasClient, ConfigFresh, Running
  <2>3. QED
    BY <1>0, <2>1, <2>2 DEF OnlyCurrentServer, SessionTimeSpansHosts
<1>12. CASE Tick
  BY <1>0, <1>12, HandlerKeepsInv DEF Tick
<1>13. CASE UNCHANGED vars
  <2>1. (Fresh /\ Down /\ StartIsBegan /\ EngineHasClient /\ ConfigFresh)'
    BY <1>13 DEF vars, Fresh, Down, StartIsBegan, EngineHasClient, ConfigFresh, Running
  <2>2. (OnlyCurrentServer /\ SessionTimeSpansHosts)'
    BY <1>13 DEF vars, OnlyCurrentServer, SessionTimeSpansHosts, Time
  <2>3. QED
    BY <1>0, <2>1, <2>2
<1>14. QED
  BY <1>1, <1>2, <1>3, <1>4, <1>5, <1>6, <1>7, <1>8, <1>9, <1>10, <1>11, <1>12, <1>13
  DEF Next

LEMMA SessionInvariant == Spec => []SessionInv
<1>1. Init => SessionInv
  BY InitType DEF Init, SessionInv, Fresh, Down, StartIsBegan, EngineHasClient,
                  ConfigFresh, OnlyCurrentServer, SessionTimeSpansHosts, Running
<1>2. QED
  BY <1>1, SessionStep, PTL DEF Spec

(* The engine is on exactly while there is a client and an exit handler. *)
THEOREM EngineAndClientAgree == Spec => []EngineHasClient
<1>1. SessionInv => EngineHasClient
  BY DEF SessionInv
<1>2. QED
  BY <1>1, SessionInvariant, PTL

(* No configuration of another virtual host survives a HOST command. *)
THEOREM HostLeavesNothingBehind == Spec => []ConfigFresh
<1>1. SessionInv => ConfigFresh
  BY DEF SessionInv
<1>2. QED
  BY <1>1, SessionInvariant, PTL

(* Metrics go only to the statsd server of the current virtual host. *)
THEOREM MetricsGoToCurrentServer == Spec => []OnlyCurrentServer
<1>1. SessionInv => OnlyCurrentServer
  BY DEF SessionInv
<1>2. QED
  BY <1>1, SessionInvariant, PTL

(* The duration reported at the exit counts from the first client. *)
THEOREM DurationSpansHosts == Spec => []SessionTimeSpansHosts
<1>1. SessionInv => SessionTimeSpansHosts
  BY DEF SessionInv
<1>2. QED
  BY <1>1, SessionInvariant, PTL
=============================================================================
