------------------------ MODULE StatsdGauges_proofs -------------------------
(***************************************************************************)
(* Proofs about the gauges of StatsdSession: what their adjustments add up *)
(* to, for any servers, configurations and bounds.                         *)
(***************************************************************************)
EXTENDS StatsdSession_proofs

(* The command that was executed, if it succeeded and is still to be       *)
(* logged.                                                                 *)
Pending(name) == cmd # NONE /\ cmd.name = name /\ cmd.ok

Plain(server) == conf[server].sampling = "all" /\ conf[server].exclude = {}

(* Before statsd_sess_init() nothing has happened. *)
Unused ==
  phase = "forked" =>
    /\ ~authenticated /\ proto # "ftps" /\ cmd = NONE /\ ~sql_missed
    /\ hosts = 0 /\ sql_open = 0 /\ statsd_sql_conn_count = 0
    /\ \A kind \in SshKinds : channels[kind] = 0
    /\ \A name \in ConnNames : gauges[name] = 0

(* proftpd changes the protocol and the virtual host before login only.    *)
LoginOrder ==
  /\ Pending("PASS") => authenticated
  /\ Pending("AUTH") => ~authenticated /\ proto = "ftps"
  /\ reinit => Pending("HOST") /\ ~authenticated

(* A client comes with all the handlers of a session. *)
HandlersOfClient == Running /\ statsd # NULL => SessionEvents \subseteq registered

(* A client is opened for the first virtual host and after each HOST, or   *)
(* is not; if it always was, there is one.                                 *)
Starts == hosts + (IF reinit THEN 0 ELSE 1)

ClientPerStart ==
  phase # "forked" => /\ clients <= Starts
                      /\ Running /\ clients = Starts => statsd # NULL

(* The gauge of ftp sessions is raised after the login and lowered at the  *)
(* exit.                                                                   *)
FtpGauge ==
  /\ ~authenticated => gauges["ftp"] = 0
  /\ Plain(main_server) /\ proto = "ftp" /\ authenticated =>
       /\ Running => gauges["ftp"] = IF statsd = NULL \/ Pending("PASS") THEN 0 ELSE 1
       /\ phase = "exited" =>
            gauges["ftp"] = IF Pending("PASS") /\ "core.exit" \in registered THEN -1 ELSE 0

FlowInv == SessionInv /\ Unused /\ LoginOrder /\ HandlersOfClient /\ ClientPerStart
-----------------------------------------------------------------------------
(* What the metrics of a handler move a gauge by. *)
LEMMA MovesNone ==
  ASSUME NEW ms, NEW name, \A m \in ms : ~(m.type = "g" /\ m.name = name)
  PROVE  Moves(ms, name) = 0
  BY DEF Moves

LEMMA MovesOne ==
  ASSUME NEW ms, NEW name, NEW val,
         \A m \in ms : m.type = "g" /\ m.name = name => m.val = val,
         \E m \in ms : m.type = "g" /\ m.name = name
  PROVE  Moves(ms, name) = val
<1> DEFINE of == {m \in ms : m.type = "g" /\ m.name = name}
<1>1. of # {} /\ \A m \in of : m.val = val
  OBVIOUS
<1>2. (CHOOSE m \in of : TRUE) \in of
  BY <1>1
<1>3. QED
  BY <1>1, <1>2 DEF Moves

(* The metrics are gauges of their name and value, or none. *)
LEMMA Kinds ==
  /\ \A name, adjust : /\ Gauge(name, adjust).type = "g"
                       /\ Gauge(name, adjust).name = name
                       /\ Gauge(name, adjust).val = adjust
  /\ \A name : Counter(name).type = "c" /\ CounterIgnoringSampling(name).type = "c"
  /\ \A name, start : Timer(name, start).type = "ms"
  BY DEF Gauge, Counter, CounterIgnoringSampling, Timer

LEMMA MovesOfGauge ==
  ASSUME NEW gauge, NEW adjust, NEW name, NEW ms, Gauge(gauge, adjust) \in ms,
         \A m \in ms : m.type = "g" => m = Gauge(gauge, adjust)
  PROVE  Moves(ms, name) = IF name = gauge THEN adjust ELSE 0
<1>1. CASE name = gauge
  <2>1. \A m \in ms : m.type = "g" /\ m.name = name => m.val = adjust
    BY Kinds
  <2>2. \E m \in ms : m.type = "g" /\ m.name = name
    BY <1>1, Kinds
  <2>3. Moves(ms, name) = adjust
    BY <2>1, <2>2, MovesOne
  <2>4. QED
    BY <1>1, <2>3
<1>2. CASE name # gauge
  <2>1. \A m \in ms : ~(m.type = "g" /\ m.name = name)
    BY <1>2, Kinds
  <2>2. QED
    BY <1>2, <2>1, MovesNone
<1>3. QED
  BY <1>1, <1>2

LEMMA MovesOfTwo ==
  ASSUME NEW gauge, NEW adjust, NEW name, NEW other, other.type # "g"
  PROVE  Moves({other, Gauge(gauge, adjust)}, name) = IF name = gauge THEN adjust ELSE 0
<1> DEFINE ms == {other, Gauge(gauge, adjust)}
<1>1. Gauge(gauge, adjust) \in ms /\ \A m \in ms : m.type = "g" => m = Gauge(gauge, adjust)
  OBVIOUS
<1> HIDE DEF ms
<1>2. Moves(ms, name) = IF name = gauge THEN adjust ELSE 0
  BY <1>1, MovesOfGauge
<1>3. QED
  BY <1>2 DEF ms

LEMMA MovesOfAlone ==
  ASSUME NEW gauge, NEW adjust, NEW name
  PROVE  Moves({Gauge(gauge, adjust)}, name) = IF name = gauge THEN adjust ELSE 0
<1> DEFINE ms == {Gauge(gauge, adjust)}
<1>1. Gauge(gauge, adjust) \in ms /\ \A m \in ms : m.type = "g" => m = Gauge(gauge, adjust)
  OBVIOUS
<1> HIDE DEF ms
<1>2. Moves(ms, name) = IF name = gauge THEN adjust ELSE 0
  BY <1>1, MovesOfGauge
<1>3. QED
  BY <1>2 DEF ms

LEMMA EventMoves ==
  ASSUME NEW name
  PROVE  /\ Moves({Gauge("connection", 1)}, name) = IF name = "connection" THEN 1 ELSE 0
         /\ Moves({CounterIgnoringSampling("event")}, name) = 0
         /\ Moves({CounterIgnoringSampling("sql"), Gauge("sql", 1)}, name)
              = IF name = "sql" THEN 1 ELSE 0
         /\ Moves({Gauge("sql", -1)}, name) = IF name = "sql" THEN -1 ELSE 0
         /\ \A kind : Moves(ChannelMetrics(kind), name) = IF name = kind THEN 1 ELSE 0
<1>1. /\ Moves({Gauge("connection", 1)}, name) = IF name = "connection" THEN 1 ELSE 0
      /\ Moves({Gauge("sql", -1)}, name) = IF name = "sql" THEN -1 ELSE 0
  BY MovesOfAlone
<1>2. Moves({CounterIgnoringSampling("sql"), Gauge("sql", 1)}, name)
        = IF name = "sql" THEN 1 ELSE 0
  <2>1. CounterIgnoringSampling("sql").type # "g"
    BY Kinds
  <2>2. QED
    BY <2>1, MovesOfTwo
<1>3. ASSUME NEW kind
      PROVE  Moves(ChannelMetrics(kind), name) = IF name = kind THEN 1 ELSE 0
  <2>1. Counter(kind).type # "g"
    BY Kinds
  <2>2. QED
    BY <2>1, MovesOfTwo DEF ChannelMetrics
<1>4. Moves({CounterIgnoringSampling("event")}, name) = 0
  BY Kinds, MovesNone
<1>5. QED
  BY <1>1, <1>2, <1>3, <1>4

LEMMA CommandMoves ==
  ASSUME NEW timed, NEW env, NEW name
  PROVE  Moves(CommandMetrics(timed, env), name)
           = IF \/ name = "ftps" /\ cmd.name = "AUTH" /\ cmd.ok
                \/ name = "ftp" /\ IsFtpLogin
               THEN 1 ELSE 0
<1>1. \A m \in CommandMetrics(timed, env) :
        m.type = "g" => /\ m.val = 1
                        /\ \/ m.name = "ftps" /\ cmd.name = "AUTH" /\ cmd.ok
                           \/ m.name = "ftp" /\ IsFtpLogin
  BY Kinds DEF CommandMetrics
<1>2. cmd.name = "AUTH" /\ cmd.ok => Gauge("ftps", 1) \in CommandMetrics(timed, env)
  BY DEF CommandMetrics
<1>3. IsFtpLogin => Gauge("ftp", 1) \in CommandMetrics(timed, env)
  BY DEF CommandMetrics
<1> DEFINE ms == CommandMetrics(timed, env)
<1> HIDE DEF ms
<1>4. CASE \/ name = "ftps" /\ cmd.name = "AUTH" /\ cmd.ok
           \/ name = "ftp" /\ IsFtpLogin
  <2>1. Gauge(name, 1) \in ms
    BY <1>2, <1>3, <1>4 DEF ms
  <2>2. \E m \in ms : m.type = "g" /\ m.name = name
    BY <2>1, Kinds
  <2>3. \A m \in ms : m.type = "g" /\ m.name = name => m.val = 1
    BY <1>1 DEF ms
  <2>4. Moves(ms, name) = 1
    BY <2>2, <2>3, MovesOne
  <2>5. QED
    BY <1>4, <2>4 DEF ms
<1>5. CASE ~(\/ name = "ftps" /\ cmd.name = "AUTH" /\ cmd.ok
             \/ name = "ftp" /\ IsFtpLogin)
  <2>1. \A m \in ms : ~(m.type = "g" /\ m.name = name)
    BY <1>1, <1>5 DEF ms
  <2>2. Moves(ms, name) = 0
    BY <2>1, MovesNone
  <2>3. QED
    BY <1>5, <2>2 DEF ms
<1>6. QED
  BY <1>4, <1>5

LEMMA ExitMoves ==
  ASSUME proto \in Protocols, NEW name
  PROVE  Moves(ExitMetrics, name)
           = IF name = "connection" \/ (name = proto /\ authenticated) THEN -1
             ELSE IF name = "sql" /\ statsd_sql_conn_count > 0 THEN SqlAtExit ELSE 0
<1>0. proto # "connection" /\ proto # "sql"
  BY DEF Protocols
<1>1. \A m \in ExitMetrics :
        m.type = "g" =>
          \/ m = Gauge("connection", -1)
          \/ m = Gauge(proto, -1) /\ authenticated
          \/ m = Gauge("sql", SqlAtExit) /\ statsd_sql_conn_count > 0
  BY Kinds DEF ExitMetrics
<1>2. /\ Gauge("connection", -1) \in ExitMetrics
      /\ authenticated => Gauge(proto, -1) \in ExitMetrics
      /\ statsd_sql_conn_count > 0 => Gauge("sql", SqlAtExit) \in ExitMetrics
  BY DEF ExitMetrics
<1> DEFINE ms == ExitMetrics
<1> HIDE DEF ms
<1>3. CASE name = "connection" \/ (name = proto /\ authenticated)
  <2>1. Gauge(name, -1) \in ms
    BY <1>2, <1>3 DEF ms
  <2>2. \E m \in ms : m.type = "g" /\ m.name = name
    BY <2>1, Kinds
  <2>3. \A m \in ms : m.type = "g" /\ m.name = name => m.val = -1
    BY <1>0, <1>1, <1>3, Kinds DEF ms
  <2>4. Moves(ms, name) = -1
    BY <2>2, <2>3, MovesOne
  <2>5. QED
    BY <1>3, <2>4 DEF ms
<1>4. CASE name = "sql" /\ statsd_sql_conn_count > 0
  <2>1. \E m \in ms : m.type = "g" /\ m.name = name
    BY <1>2, <1>4, Kinds DEF ms
  <2>2. \A m \in ms : m.type = "g" /\ m.name = name => m.val = SqlAtExit
    BY <1>0, <1>1, <1>4, Kinds DEF ms
  <2>3. Moves(ms, name) = SqlAtExit
    BY <2>1, <2>2, MovesOne
  <2>4. QED
    BY <1>0, <1>4, <2>3 DEF ms
<1>5. CASE /\ ~(name = "connection" \/ (name = proto /\ authenticated))
           /\ ~(name = "sql" /\ statsd_sql_conn_count > 0)
  <2>1. \A m \in ms : ~(m.type = "g" /\ m.name = name)
    BY <1>1, <1>5, Kinds DEF ms
  <2>2. Moves(ms, name) = 0
    BY <2>1, MovesNone
  <2>3. QED
    BY <1>5, <2>2 DEF ms
<1>6. QED
  BY <1>3, <1>4, <1>5

LEMMA Emitted ==
  ASSUME gauges \in [ConnNames -> Int], NEW client, NEW ms, Emit(client, ms),
         NEW name \in ConnNames
  PROVE  gauges'[name] = IF client = NULL THEN gauges[name] ELSE gauges[name] + Moves(ms, name)
  BY DEF Emit

LEMMA SilentKeeps ==
  ASSUME Silent, NEW name PROVE gauges'[name] = gauges[name]
  BY DEF Silent

(* statsd_sess_init() moves one gauge, by the client it opened. *)
LEMMA SessInitMoves ==
  ASSUME TypeOK, NEW sampling, NEW handlers, NEW ok, SessInit(sampling, handlers, ok)
  PROVE  /\ \A name \in ConnNames \ {"connection"} : gauges'[name] = gauges[name]
         /\ statsd' = NULL => /\ clients' = clients
                              /\ gauges'["connection"] = gauges["connection"]
         /\ statsd' # NULL => /\ clients' = clients + 1
                              /\ gauges'["connection"] = gauges["connection"] + 1
                              /\ SessionEvents \subseteq registered'
<1> DEFINE client == Opens(sampling, ok)
<1>1. /\ statsd' = client
      /\ Emit(client, {Gauge("connection", 1)})
      /\ clients' = IF client # NULL THEN clients + 1 ELSE clients
      /\ client # NULL => SessionEvents \subseteq registered'
  BY DEF SessInit, Client
<1>2. gauges \in [ConnNames -> Int] /\ "connection" \in ConnNames
  BY DEF TypeOK, ConnNames
<1> HIDE DEF client
<1>3. ASSUME NEW name \in ConnNames
      PROVE  gauges'[name] = IF client = NULL THEN gauges[name]
                             ELSE gauges[name] + (IF name = "connection" THEN 1 ELSE 0)
  <2>1. gauges'[name] = IF client = NULL THEN gauges[name]
                        ELSE gauges[name] + Moves({Gauge("connection", 1)}, name)
    BY <1>1, <1>2, Emitted
  <2>2. Moves({Gauge("connection", 1)}, name) = IF name = "connection" THEN 1 ELSE 0
    BY EventMoves
  <2>3. QED
    BY <2>1, <2>2
<1>4. QED
  BY <1>1, <1>2, <1>3

(* What comes before a login, and what comes with a client. *)
LEMMA FlowStep == FlowInv /\ [Next]_vars => FlowInv'
<1> SUFFICES ASSUME FlowInv, [Next]_vars PROVE FlowInv'
  OBVIOUS
<1> DEFINE Order == (LoginOrder /\ HandlersOfClient /\ ClientPerStart)'
<1> USE DEF module_vars, core_vars, history_vars
<1>0. TypeOK /\ SessionInv' /\ clients \in Nat /\ hosts \in Nat
  BY SessionStep DEF FlowInv, SessionInv, TypeOK
<1>1. ASSUME NEW ok \in BOOLEAN, Start(ok) PROVE phase' # "forked" /\ Order
  <2>1. SessInit(statsd_sampling, registered, ok) /\ clients = 0 /\ hosts = 0
    BY <1>1 DEF Start, FlowInv, Unused, SessionInv, Fresh
  <2>2. /\ cmd' = NONE /\ hosts' = 0 /\ phase' = "running" /\ ~reinit'
    BY <1>1 DEF Start, FlowInv, Unused, LoginOrder, Pending
  <2>3. /\ statsd' = NULL => clients' = 0
        /\ statsd' # NULL => clients' = 1 /\ SessionEvents \subseteq registered'
    BY <1>0, <2>1, SessInitMoves
  <2>4. QED
    BY <2>2, <2>3 DEF LoginOrder, Pending, HandlersOfClient, ClientPerStart, Starts
<1>2. ASSUME NEW ok \in BOOLEAN, Reinit(ok) PROVE phase' # "forked" /\ Order
  <2>1. SessInit("all", registered \ Unregistered, ok) /\ clients <= hosts
    BY <1>0, <1>2 DEF Reinit, FlowInv, ClientPerStart, Starts, Running
  <2>2. /\ UNCHANGED <<cmd, hosts, authenticated, proto>>
        /\ phase' = "running" /\ ~reinit'
    BY <1>2 DEF Reinit, Running
  <2>3. /\ statsd' = NULL => clients' = clients
        /\ statsd' # NULL => clients' = clients + 1 /\ SessionEvents \subseteq registered'
    BY <1>0, <2>1, SessInitMoves
  <2>4. HandlersOfClient' /\ ClientPerStart'
    BY <1>0, <2>1, <2>2, <2>3 DEF HandlersOfClient, ClientPerStart, Starts
  <2>5. LoginOrder'
    BY <2>2 DEF FlowInv, LoginOrder, Pending
  <2>6. QED
    BY <2>2, <2>4, <2>5
<1>3. ASSUME NEW name \in Commands, NEW ok \in BOOLEAN, Execute(name, ok)
      PROVE  phase' # "forked" /\ Order
  <2>1. /\ phase = "running" /\ phase' = "running" /\ cmd = NONE /\ ~reinit
        /\ UNCHANGED <<statsd, registered, clients>>
    BY <1>3 DEF Execute, Idle, Running, FlowInv, LoginOrder, Pending
  <2>2. cmd'.name = name /\ cmd'.ok = ok
    BY <1>3 DEF Execute
  <2>3. HandlersOfClient'
    BY <2>1 DEF FlowInv, HandlersOfClient, Running
  <2>4. CASE ok /\ name = "HOST"
    <3>1. cmd' # NONE
      <4>1. cmd' \in CmdRecs
        BY <1>0, <1>3 DEF TypeOK, CmdRecs, Execute
      <4>2. QED
        BY <4>1, SessionAssumption
    <3>2. /\ reinit' /\ hosts' = hosts + 1 /\ ~authenticated'
      BY <1>3, <2>4 DEF Execute
    <3>3. LoginOrder'
      BY <2>2, <2>4, <3>1, <3>2 DEF LoginOrder, Pending
    <3>4. ClientPerStart'
      BY <1>0, <2>1, <3>2 DEF FlowInv, ClientPerStart, Starts, Running
    <3>5. QED
      BY <2>1, <2>3, <3>3, <3>4
  <2>5. CASE ~(ok /\ name = "HOST")
    <3>1. UNCHANGED <<reinit, hosts>>
      BY <1>3, <2>5 DEF Execute
    <3>2. ClientPerStart'
      BY <1>0, <2>1, <3>1 DEF FlowInv, ClientPerStart, Starts, Running
    <3>3. ok /\ name = "PASS" => authenticated'
      BY <1>3 DEF Execute
    <3>4. ok /\ name = "AUTH" => ~authenticated' /\ proto' = "ftps"
      BY <1>3 DEF Execute
    <3>5. LoginOrder'
      BY <2>1, <2>2, <3>1, <3>3, <3>4 DEF LoginOrder, Pending
    <3>6. QED
      BY <2>1, <2>3, <3>2, <3>5
  <2>6. QED
    BY <2>4, <2>5
<1>4. ASSUME NEW sampled \in BOOLEAN, NEW timed \in BOOLEAN,
             NEW env \in SUBSET TlsEnv, LogCommand(sampled, timed, env)
      PROVE  phase' # "forked" /\ Order
  BY <1>4 DEF LogCommand, Running, FlowInv, LoginOrder, Pending, HandlersOfClient,
              ClientPerStart, Starts
<1>5. ASSUME NEW event \in CounterEvents, CounterEvent(event)
      PROVE  phase' # "forked" /\ Order
  BY <1>5 DEF CounterEvent, Alive, Running, FlowInv, LoginOrder, Pending,
              HandlersOfClient, ClientPerStart, Starts
<1>6. CASE SqlOpened
  <2>1. phase' # "forked" /\ Order
    BY <1>6 DEF SqlOpened, Running, FlowInv, LoginOrder, Pending, HandlersOfClient,
                ClientPerStart, Starts
  <2>2. QED
    BY <1>0, <2>1 DEF FlowInv, Unused
<1>7. CASE SqlClosed
  <2>1. phase' # "forked" /\ Order
    BY <1>7 DEF SqlClosed, Running, FlowInv, LoginOrder, Pending, HandlersOfClient,
                ClientPerStart, Starts
  <2>2. QED
    BY <1>0, <2>1 DEF FlowInv, Unused
<1>8. ASSUME NEW kind \in SshKinds, NEW sampled \in BOOLEAN,
             ChannelOpened(kind, sampled)
      PROVE  phase' # "forked" /\ Order
  BY <1>8 DEF ChannelOpened, Idle, Running, FlowInv, LoginOrder, Pending,
              HandlersOfClient, ClientPerStart, Starts
<1>9. ASSUME Exit PROVE phase' # "forked" /\ Order
  BY <1>9 DEF Exit, Running, FlowInv, LoginOrder, Pending, HandlersOfClient,
              ClientPerStart, Starts
<1>10. ASSUME Shutdown PROVE phase' # "forked" /\ Order
  BY <1>10 DEF Shutdown, Running, FlowInv, LoginOrder, Pending, HandlersOfClient,
               ClientPerStart, Starts
<1>11. ASSUME Kill PROVE phase' # "forked" /\ Order
  BY <1>11 DEF Kill, Alive, Running, FlowInv, LoginOrder, Pending, HandlersOfClient,
               ClientPerStart, Starts
<1>12. ASSUME Tick PROVE phase' # "forked" /\ Order
  BY <1>12 DEF Tick, Running, FlowInv, LoginOrder, Pending, HandlersOfClient,
               ClientPerStart, Starts
<1>13. CASE UNCHANGED vars
  BY <1>0, <1>13 DEF vars, FlowInv, Unused, Running, LoginOrder, Pending,
                     HandlersOfClient, ClientPerStart, Starts
<1>14. CASE phase' # "forked" /\ Order
  BY <1>0, <1>14 DEF FlowInv, Unused
<1> HIDE DEF Order
<1>15. QED
  BY <1>1, <1>2, <1>3, <1>4, <1>5, <1>6, <1>7, <1>8, <1>9, <1>10, <1>11, <1>12,
     <1>13, <1>14
  DEF Next
-----------------------------------------------------------------------------
(* How each step moves the gauge of a name. *)
LEMMA LogCommandMoves ==
  ASSUME TypeOK, NEW sampled, NEW timed, NEW env, LogCommand(sampled, timed, env),
         NEW name \in ConnNames
  PROVE  gauges'[name] =
           IF /\ statsd_engine /\ cmd.name \notin statsd_exclude /\ sampled
              /\ statsd # NULL
              /\ \/ name = "ftps" /\ cmd.name = "AUTH" /\ cmd.ok
                 \/ name = "ftp" /\ IsFtpLogin
             THEN gauges[name] + 1 ELSE gauges[name]
<1>0. gauges \in [ConnNames -> Int] /\ gauges[name] \in Int
  BY DEF TypeOK
<1>1. CASE statsd_engine /\ cmd.name \notin statsd_exclude /\ sampled
  <2>1. Emit(statsd, CommandMetrics(timed, env))
    BY <1>1 DEF LogCommand
  <2>2. gauges'[name] = IF statsd = NULL THEN gauges[name]
                        ELSE gauges[name] + Moves(CommandMetrics(timed, env), name)
    BY <1>0, <2>1, Emitted
  <2>3. Moves(CommandMetrics(timed, env), name)
          = IF \/ name = "ftps" /\ cmd.name = "AUTH" /\ cmd.ok
               \/ name = "ftp" /\ IsFtpLogin
              THEN 1 ELSE 0
    BY CommandMoves
  <2>4. QED
    BY <1>0, <1>1, <2>2, <2>3
<1>2. CASE ~(statsd_engine /\ cmd.name \notin statsd_exclude /\ sampled)
  <2>1. Silent
    BY <1>2 DEF LogCommand
  <2>2. QED
    BY <1>2, <2>1, SilentKeeps
<1>3. QED
  BY <1>1, <1>2

LEMMA CounterEventMoves ==
  ASSUME TypeOK, NEW event, CounterEvent(event), NEW name \in ConnNames
  PROVE  gauges'[name] = gauges[name]
<1>0. gauges \in [ConnNames -> Int] /\ gauges[name] \in Int
  BY DEF TypeOK
<1>1. gauges'[name] = IF statsd = NULL THEN gauges[name]
                      ELSE gauges[name] + Moves({CounterIgnoringSampling("event")}, name)
  BY <1>0, Emitted DEF CounterEvent
<1>2. Moves({CounterIgnoringSampling("event")}, name) = 0
  BY EventMoves
<1>3. QED
  BY <1>0, <1>1, <1>2

LEMMA SqlOpenedMoves ==
  ASSUME TypeOK, SqlOpened, NEW name \in ConnNames
  PROVE  gauges'[name] =
           IF /\ "mod_sql.db.connection-opened" \in registered /\ statsd # NULL
              /\ name = "sql"
             THEN gauges[name] + 1 ELSE gauges[name]
<1>0. gauges \in [ConnNames -> Int] /\ gauges[name] \in Int
  BY DEF TypeOK
<1> DEFINE ms == {CounterIgnoringSampling("sql"), Gauge("sql", 1)}
<1>1. CASE "mod_sql.db.connection-opened" \in registered
  <2>1. Emit(statsd, ms)
    BY <1>1 DEF SqlOpened
  <2>2. Moves(ms, name) = IF name = "sql" THEN 1 ELSE 0
    BY EventMoves
  <2> HIDE DEF ms
  <2>3. gauges'[name] = IF statsd = NULL THEN gauges[name]
                        ELSE gauges[name] + Moves(ms, name)
    BY <1>0, <2>1, Emitted
  <2>4. QED
    BY <1>0, <1>1, <2>2, <2>3
<1>2. CASE "mod_sql.db.connection-opened" \notin registered
  BY <1>2, SilentKeeps DEF SqlOpened
<1>3. QED
  BY <1>1, <1>2

LEMMA SqlClosedMoves ==
  ASSUME TypeOK, SqlClosed, NEW name \in ConnNames
  PROVE  gauges'[name] =
           IF /\ "mod_sql.db.connection-closed" \in registered /\ statsd # NULL
              /\ name = "sql"
             THEN gauges[name] - 1 ELSE gauges[name]
<1>0. gauges \in [ConnNames -> Int] /\ gauges[name] \in Int
  BY DEF TypeOK
<1> DEFINE ms == {Gauge("sql", -1)}
<1>1. CASE "mod_sql.db.connection-closed" \in registered
  <2>1. Emit(statsd, ms)
    BY <1>1 DEF SqlClosed
  <2>2. Moves(ms, name) = IF name = "sql" THEN -1 ELSE 0
    BY EventMoves
  <2> HIDE DEF ms
  <2>3. gauges'[name] = IF statsd = NULL THEN gauges[name]
                        ELSE gauges[name] + Moves(ms, name)
    BY <1>0, <2>1, Emitted
  <2>4. QED
    BY <1>0, <1>1, <2>2, <2>3
<1>2. CASE "mod_sql.db.connection-closed" \notin registered
  BY <1>2, SilentKeeps DEF SqlClosed
<1>3. QED
  BY <1>1, <1>2

LEMMA ChannelOpenedMoves ==
  ASSUME TypeOK, NEW kind, NEW sampled, ChannelOpened(kind, sampled),
         NEW name \in ConnNames
  PROVE  gauges'[name] =
           IF Opened(kind) \in registered /\ sampled /\ statsd # NULL /\ name = kind
             THEN gauges[name] + 1 ELSE gauges[name]
<1>0. gauges \in [ConnNames -> Int] /\ gauges[name] \in Int
  BY DEF TypeOK
<1> DEFINE ms == ChannelMetrics(kind)
<1>1. CASE Opened(kind) \in registered /\ sampled
  <2>1. Emit(statsd, ms)
    BY <1>1 DEF ChannelOpened
  <2>2. Moves(ms, name) = IF name = kind THEN 1 ELSE 0
    BY EventMoves
  <2> HIDE DEF ms
  <2>3. gauges'[name] = IF statsd = NULL THEN gauges[name]
                        ELSE gauges[name] + Moves(ms, name)
    BY <1>0, <2>1, Emitted
  <2>4. QED
    BY <1>0, <1>1, <2>2, <2>3
<1>2. CASE ~(Opened(kind) \in registered /\ sampled)
  BY <1>2, SilentKeeps DEF ChannelOpened
<1>3. QED
  BY <1>1, <1>2

(* The exit leaves the sql gauge out: no invariant is about what it does   *)
(* to that one.                                                            *)
LEMMA ExitStepMoves ==
  ASSUME TypeOK, Exit, NEW name \in ConnNames \ {"sql"}
  PROVE  gauges'[name] =
           IF /\ "core.exit" \in registered /\ statsd # NULL
              /\ name = "connection" \/ (name = proto /\ authenticated)
             THEN gauges[name] - 1 ELSE gauges[name]
<1>0. gauges \in [ConnNames -> Int] /\ gauges[name] \in Int /\ proto \in Protocols
  BY DEF TypeOK
<1>1. CASE "core.exit" \in registered /\ statsd # NULL
  <2>1. Emit(statsd, ExitMetrics)
    BY <1>1 DEF Exit
  <2>2. gauges'[name] = gauges[name] + Moves(ExitMetrics, name)
    BY <1>0, <1>1, <2>1, Emitted
  <2>3. Moves(ExitMetrics, name)
          = IF name = "connection" \/ (name = proto /\ authenticated) THEN -1 ELSE 0
    BY <1>0, ExitMoves
  <2>4. QED
    BY <1>0, <1>1, <2>2, <2>3
<1>2. CASE ~("core.exit" \in registered /\ statsd # NULL)
  BY <1>2, SilentKeeps DEF Exit
<1>3. QED
  BY <1>1, <1>2
-----------------------------------------------------------------------------
(* The connection gauge counts the clients: statsd_sess_init() raises it   *)
(* with each, the exit handler lowers it while there is one.               *)
LEMMA ConnectionStep ==
  FlowInv /\ ConnectionGauge /\ [Next]_vars => ConnectionGauge'
<1> SUFFICES ASSUME FlowInv, ConnectionGauge, [Next]_vars PROVE ConnectionGauge'
  OBVIOUS
<1> USE DEF module_vars, core_vars, history_vars
<1>0. /\ TypeOK /\ clients \in Nat /\ gauges["connection"] \in Int
      /\ "connection" \in ConnNames
      /\ EngineHasClient
  BY DEF FlowInv, SessionInv, TypeOK, ConnNames
<1> DEFINE gauge == gauges["connection"]
<1>1. phase # "exited" => gauge = clients
  BY <1>0 DEF ConnectionGauge
<1>2. ASSUME phase # "exited", phase' # "exited", gauge' = gauge, clients' = clients
      PROVE  ConnectionGauge'
  BY <1>0, <1>2 DEF ConnectionGauge
<1>3. ASSUME NEW sampling, NEW handlers, NEW ok, SessInit(sampling, handlers, ok),
             phase # "exited", phase' # "exited"
      PROVE  ConnectionGauge'
  <2>1. \/ gauge' = gauge /\ clients' = clients
        \/ gauge' = gauge + 1 /\ clients' = clients + 1
    BY <1>0, <1>3, SessInitMoves
  <2>2. gauge' = clients' /\ clients' \in Nat
    BY <1>0, <1>1, <1>3, <2>1
  <2>3. \A n \in Nat : n - 0 = n
    OBVIOUS
  <2>4. clients' - 0 = clients'
    BY <2>2, <2>3, Zenon
  <2>5. QED
    BY <1>3, <2>2, <2>4, Zenon DEF ConnectionGauge
<1>4. ASSUME NEW ok \in BOOLEAN, Start(ok) PROVE ConnectionGauge'
  BY <1>3, <1>4 DEF Start
<1>5. ASSUME NEW ok \in BOOLEAN, Reinit(ok) PROVE ConnectionGauge'
  BY <1>3, <1>5 DEF Reinit, Running
<1>6. ASSUME NEW name \in Commands, NEW ok \in BOOLEAN, Execute(name, ok)
      PROVE  ConnectionGauge'
  BY <1>2, <1>6 DEF Execute, Idle, Running, Silent
<1>7. ASSUME NEW sampled \in BOOLEAN, NEW timed \in BOOLEAN,
             NEW env \in SUBSET TlsEnv, LogCommand(sampled, timed, env)
      PROVE  ConnectionGauge'
  <2>1. gauge' = gauge
    BY <1>0, <1>7, LogCommandMoves
  <2>2. QED
    BY <1>2, <1>7, <2>1 DEF LogCommand, Running
<1>8. ASSUME NEW event \in CounterEvents, CounterEvent(event) PROVE ConnectionGauge'
  <2>1. gauge' = gauge
    BY <1>0, <1>8, CounterEventMoves
  <2>2. QED
    BY <1>2, <1>8, <2>1 DEF CounterEvent, Alive
<1>9. CASE SqlOpened
  <2>1. gauge' = gauge
    BY <1>0, <1>9, SqlOpenedMoves
  <2>2. QED
    BY <1>2, <1>9, <2>1 DEF SqlOpened, Running
<1>10. CASE SqlClosed
  <2>1. gauge' = gauge
    BY <1>0, <1>10, SqlClosedMoves
  <2>2. QED
    BY <1>2, <1>10, <2>1 DEF SqlClosed, Running
<1>11. ASSUME NEW kind \in SshKinds, NEW sampled \in BOOLEAN,
              ChannelOpened(kind, sampled)
       PROVE  ConnectionGauge'
  <2>1. gauge' = gauge
    BY <1>0, <1>11, ChannelOpenedMoves DEF SshKinds
  <2>2. QED
    BY <1>2, <1>11, <2>1 DEF ChannelOpened, Idle, Running
<1>12. CASE Exit
  <2>1. /\ phase = "running" /\ phase' = "exited"
        /\ UNCHANGED <<registered, clients>>
    BY <1>12 DEF Exit, Running
  <2>2. "core.exit" \in registered => statsd # NULL
    BY <1>0, <2>1 DEF EngineHasClient, Running
  <2>3. gauge' = IF "core.exit" \in registered THEN gauge - 1 ELSE gauge
    BY <1>0, <1>12, <2>2, ExitStepMoves
  <2>4. QED
    BY <1>0, <2>1, <2>3 DEF ConnectionGauge
<1>13. CASE Shutdown
  BY <1>2, <1>13 DEF Shutdown, Running, Silent
<1>14. CASE Kill
  BY <1>2, <1>14 DEF Kill, Alive, Silent
<1>15. CASE Tick
  BY <1>2, <1>15 DEF Tick, Running, Silent
<1>16. CASE UNCHANGED vars
  BY <1>16 DEF vars, ConnectionGauge
<1>17. QED
  BY <1>4, <1>5, <1>6, <1>7, <1>8, <1>9, <1>10, <1>11, <1>12, <1>13, <1>14, <1>15,
     <1>16
  DEF Next

(* What a server of no sampling and no filter logs: every command.         *)
LEMMA PlainLogsAll ==
  ASSUME FlowInv, NEW sampled, NEW timed, NEW env, LogCommand(sampled, timed, env),
         Plain(main_server), statsd # NULL
  PROVE  statsd_engine /\ statsd_exclude = {} /\ sampled = TRUE
<1>1. Running /\ ~reinit /\ sampled \in SampledBy(statsd_sampling)
  BY DEF LogCommand
<1>2. statsd_engine
  BY <1>1 DEF FlowInv, SessionInv, EngineHasClient
<1>3. statsd_exclude = {} /\ statsd_sampling = "all"
  BY <1>1, <1>2 DEF FlowInv, SessionInv, ConfigFresh, Plain
<1>4. QED
  BY <1>1, <1>2, <1>3 DEF SampledBy

(* ftp.connection is raised with the log of the one login there is, and    *)
(* lowered at the exit.                                                    *)
LEMMA FtpStep == FlowInv /\ FtpGauge /\ [Next]_vars => FtpGauge'
<1> SUFFICES ASSUME FlowInv, FtpGauge, [Next]_vars PROVE FtpGauge'
  OBVIOUS
<1> USE DEF module_vars, core_vars, history_vars
<1>0. /\ TypeOK /\ gauges["ftp"] \in Int /\ "ftp" \in ConnNames \ {"connection", "sql"}
      /\ EngineHasClient
  BY DEF FlowInv, SessionInv, TypeOK, ConnNames, Protocols
<1> DEFINE gauge == gauges["ftp"]
<1>1. ASSUME gauge' = gauge,
             UNCHANGED <<authenticated, main_server, conf, proto, statsd, phase, cmd,
                         registered>>
      PROVE  FtpGauge'
  BY <1>1 DEF FtpGauge, Plain, Running, Pending
<1>2. ASSUME gauge' = gauge, authenticated' = authenticated,
             phase' \notin {"running", "exited"}
      PROVE  FtpGauge'
  BY <1>2 DEF FtpGauge, Running
<1>3. ASSUME gauge' = gauge, ~authenticated' /\ ~authenticated PROVE FtpGauge'
  BY <1>3 DEF FtpGauge
<1>4. ASSUME NEW sampling, NEW handlers, NEW ok, SessInit(sampling, handlers, ok)
      PROVE  gauge' = gauge
  BY <1>0, <1>4, SessInitMoves
<1>5. ASSUME NEW ok \in BOOLEAN, Start(ok) PROVE FtpGauge'
  <2>1. ~authenticated /\ ~authenticated'
    BY <1>5 DEF Start, FlowInv, Unused
  <2>2. QED
    BY <1>3, <1>4, <1>5, <2>1 DEF Start
<1>6. ASSUME NEW ok \in BOOLEAN, Reinit(ok) PROVE FtpGauge'
  <2>1. ~authenticated /\ ~authenticated'
    BY <1>6 DEF Reinit, FlowInv, LoginOrder
  <2>2. QED
    BY <1>3, <1>4, <1>6, <2>1 DEF Reinit
<1>7. ASSUME NEW name \in Commands, NEW ok \in BOOLEAN, Execute(name, ok)
      PROVE  FtpGauge'
  <2>1. /\ gauge' = gauge /\ cmd = NONE /\ phase = "running" /\ phase' = "running"
        /\ cmd'.name = name /\ cmd'.ok = ok /\ UNCHANGED <<statsd, conf>>
    BY <1>7 DEF Execute, Idle, Running, Silent
  <2>2. CASE ok /\ name = "PASS"
    <3>1. ~authenticated /\ gauge = 0
      BY <1>7, <2>2 DEF Execute, FtpGauge
    <3>2. authenticated'
      BY <1>7, <2>2 DEF Execute
    <3>3. Pending("PASS")'
      <4>1. cmd' \in CmdRecs
        BY <1>0, <1>7 DEF TypeOK, CmdRecs, Execute
      <4>2. QED
        BY <2>1, <2>2, <4>1, SessionAssumption DEF Pending
    <3>4. QED
      BY <2>1, <3>1, <3>2, <3>3 DEF FtpGauge, Running
  <2>3. CASE ~(ok /\ name = "PASS") /\ ~authenticated
    <3>1. ~authenticated'
      BY <1>7, <2>3 DEF Execute
    <3>2. QED
      BY <1>3, <2>1, <2>3, <3>1
  <2>4. CASE ~(ok /\ name = "PASS") /\ authenticated
    <3>1. UNCHANGED <<authenticated, proto, main_server>>
      BY <1>7, <2>4 DEF Execute
    <3>2. ~Pending("PASS") /\ ~Pending("PASS")'
      BY <2>1, <2>4 DEF Pending
    <3>3. QED
      BY <2>1, <3>1, <3>2 DEF FtpGauge, Plain, Running
  <2>5. QED
    BY <2>2, <2>3, <2>4
<1>8. ASSUME NEW sampled \in BOOLEAN, NEW timed \in BOOLEAN,
             NEW env \in SUBSET TlsEnv, LogCommand(sampled, timed, env)
      PROVE  FtpGauge'
  <2>1. /\ cmd # NONE /\ cmd' = NONE /\ phase = "running" /\ phase' = "running"
        /\ UNCHANGED <<conf, main_server, proto, authenticated, statsd>>
    BY <1>8 DEF LogCommand, Running
  <2>2. gauge' = IF /\ statsd_engine /\ cmd.name \notin statsd_exclude /\ sampled
                    /\ statsd # NULL /\ IsFtpLogin
                   THEN gauge + 1 ELSE gauge
    BY <1>0, <1>8, LogCommandMoves
  <2>3. IsFtpLogin <=> Pending("PASS") /\ proto = "ftp"
    BY <2>1 DEF IsFtpLogin, Pending
  <2>4. CASE ~authenticated
    <3>1. ~IsFtpLogin
      BY <2>3, <2>4 DEF FlowInv, LoginOrder
    <3>2. QED
      BY <1>3, <2>1, <2>2, <2>4, <3>1
  <2>5. CASE /\ authenticated
             /\ Plain(main_server) /\ proto = "ftp" /\ statsd # NULL
    <3>1. statsd_engine /\ statsd_exclude = {} /\ sampled = TRUE
      BY <1>8, <2>5, PlainLogsAll
    <3>2. gauge' = IF Pending("PASS") THEN gauge + 1 ELSE gauge
      BY <2>2, <2>3, <2>5, <3>1
    <3>3. gauge = IF Pending("PASS") THEN 0 ELSE 1
      BY <2>1, <2>5 DEF FtpGauge, Running
    <3>4. gauge' = 1 /\ ~Pending("PASS")'
      BY <2>1, <3>2, <3>3 DEF Pending
    <3>5. QED
      BY <2>1, <2>5, <3>4 DEF FtpGauge
  <2>6. CASE authenticated /\ statsd = NULL
    BY <2>1, <2>2, <2>6 DEF FtpGauge, Plain, Running
  <2>7. CASE authenticated /\ ~(Plain(main_server) /\ proto = "ftp")
    BY <2>1, <2>7 DEF FtpGauge, Plain
  <2>8. QED
    BY <2>4, <2>5, <2>6, <2>7
<1>9. ASSUME NEW event \in CounterEvents, CounterEvent(event) PROVE FtpGauge'
  <2>1. gauge' = gauge
    BY <1>0, <1>9, CounterEventMoves
  <2>2. QED
    BY <1>1, <1>9, <2>1 DEF CounterEvent
<1>10. CASE SqlOpened
  <2>1. gauge' = gauge
    BY <1>0, <1>10, SqlOpenedMoves
  <2>2. QED
    BY <1>1, <1>10, <2>1 DEF SqlOpened
<1>11. CASE SqlClosed
  <2>1. gauge' = gauge
    BY <1>0, <1>11, SqlClosedMoves
  <2>2. QED
    BY <1>1, <1>11, <2>1 DEF SqlClosed
<1>12. ASSUME NEW kind \in SshKinds, NEW sampled \in BOOLEAN,
              ChannelOpened(kind, sampled)
       PROVE  FtpGauge'
  <2>1. authenticated' /\ proto' # "ftp"
    BY <1>12 DEF ChannelOpened, SshKinds
  <2>2. QED
    BY <2>1 DEF FtpGauge
<1>13. CASE Exit
  <2>1. /\ phase = "running" /\ phase' = "exited"
        /\ UNCHANGED <<conf, main_server, proto, authenticated, cmd, registered>>
    BY <1>13 DEF Exit, Running
  <2>2. "core.exit" \in registered <=> statsd # NULL
    BY <1>0, <2>1 DEF EngineHasClient, Running
  <2>3. gauge' = IF statsd # NULL /\ "ftp" = proto /\ authenticated
                   THEN gauge - 1 ELSE gauge
    BY <1>0, <1>13, <2>2, ExitStepMoves
  <2>4. CASE ~authenticated
    BY <1>3, <2>1, <2>3, <2>4
  <2>5. CASE authenticated
    <3>1. ASSUME Plain(main_server), proto = "ftp"
          PROVE  gauge' = IF Pending("PASS") /\ "core.exit" \in registered THEN -1 ELSE 0
      <4>1. gauge = IF statsd = NULL \/ Pending("PASS") THEN 0 ELSE 1
        BY <2>1, <2>5, <3>1 DEF FtpGauge, Running
      <4>2. QED
        BY <2>2, <2>3, <2>5, <3>1, <4>1
    <3>2. Pending("PASS")' <=> Pending("PASS")
      BY <2>1 DEF Pending
    <3>3. QED
      BY <2>1, <2>5, <3>1, <3>2 DEF FtpGauge, Plain, Running
  <2>6. QED
    BY <2>4, <2>5
<1>14. CASE Shutdown
  BY <1>2, <1>14 DEF Shutdown, Silent
<1>15. CASE Kill
  BY <1>2, <1>15 DEF Kill, Silent
<1>16. CASE Tick
  BY <1>1, <1>16 DEF Tick, Silent
<1>17. CASE UNCHANGED vars
  BY <1>1, <1>17 DEF vars
<1>18. QED
  BY <1>5, <1>6, <1>7, <1>8, <1>9, <1>10, <1>11, <1>12, <1>13, <1>14, <1>15, <1>16,
     <1>17
  DEF Next
-----------------------------------------------------------------------------
(* The parts of ProtocolGauges: a TLS session that is counted, the exit    *)
(* that lowers a gauge, and what the gauges amount to.                     *)
Tls == proto = "ftps" /\ ~Pending("AUTH")

One(b) == IF b THEN 1 ELSE 0

Lowered(name) == One(phase = "exited" /\ authenticated /\ proto = name)

Raised(name) ==
  IF name = "ftps" THEN One(Tls) ELSE IF name = "ssh2" THEN 0 ELSE channels[name]

Counted == {"ftps", "ssh2"} \cup SshKinds

Balanced == \A name \in Counted : gauges[name] = Raised(name) - Lowered(name)

AllPlain == \A s \in Servers : Plain(s)

AllOpened == clients = Starts

LEMMA ProtocolParts ==
  ASSUME TypeOK PROVE ProtocolGauges <=> (AllPlain /\ AllOpened => Balanced)
<1> DEFINE one(b) == IF b THEN 1 ELSE 0
           lowered(name) == one(phase = "exited" /\ authenticated /\ proto = name)
           tls == proto = "ftps" /\ ~(cmd # NONE /\ cmd.name = "AUTH" /\ cmd.ok)
           balanced == /\ gauges["ftps"] = one(tls) - lowered("ftps")
                       /\ gauges["ssh2"] = 0 - lowered("ssh2")
                       /\ \A kind \in SshKinds : gauges[kind] = channels[kind] - lowered(kind)
<1>1. balanced <=> Balanced
  <2>1. tls <=> Tls
    BY DEF Tls, Pending
  <2>2. \A name : lowered(name) = Lowered(name)
    BY DEF Lowered, One
  <2>3. one(tls) = One(Tls)
    BY <2>1 DEF One
  <2> HIDE DEF one, lowered, tls
  <2>4. Balanced <=> /\ gauges["ftps"] = Raised("ftps") - Lowered("ftps")
                     /\ gauges["ssh2"] = Raised("ssh2") - Lowered("ssh2")
                     /\ \A kind \in SshKinds : gauges[kind] = Raised(kind) - Lowered(kind)
    BY DEF Balanced, Counted
  <2>5. /\ Raised("ftps") = One(Tls) /\ Raised("ssh2") = 0
        /\ \A kind \in SshKinds : Raised(kind) = channels[kind]
    BY DEF Raised, SshKinds
  <2>6. QED
    BY <2>2, <2>3, <2>4, <2>5
<1>2. hosts + one(~reinit) = Starts
  BY DEF Starts
<1>3. (\A s \in Servers : conf[s].sampling = "all" /\ conf[s].exclude = {}) <=> AllPlain
  BY DEF AllPlain, Plain
<1>4. ProtocolGauges <=>
        (/\ \A s \in Servers : conf[s].sampling = "all" /\ conf[s].exclude = {}
         /\ clients = hosts + one(~reinit)
         => balanced)
  BY Zenon DEF ProtocolGauges
<1> HIDE DEF one, lowered, tls, balanced
<1>5. QED
  BY <1>1, <1>2, <1>3, <1>4, Zenon DEF AllOpened

(* If there is a client for each start in the end, there always was.       *)
LEMMA AllOpenedBefore ==
  ASSUME FlowInv, [Next]_vars, phase # "forked", AllPlain', AllOpened'
  PROVE  AllPlain /\ AllOpened
<1> USE DEF module_vars, core_vars, history_vars
<1>0. /\ TypeOK /\ clients \in Nat /\ hosts \in Nat
      /\ clients <= Starts
      /\ reinit => Pending("HOST")
  BY DEF FlowInv, SessionInv, TypeOK, ClientPerStart, LoginOrder
<1>1. ASSUME conf' = conf, clients' = clients, Starts' = Starts PROVE AllPlain /\ AllOpened
  BY <1>1 DEF AllPlain, Plain, AllOpened
<1>2. ASSUME NEW ok \in BOOLEAN, Start(ok) PROVE FALSE
  BY <1>2 DEF Start
<1>3. ASSUME NEW ok \in BOOLEAN, Reinit(ok) PROVE AllPlain /\ AllOpened
  <2>1. /\ SessInit("all", registered \ Unregistered, ok) /\ reinit /\ reinit' = FALSE
        /\ conf' = conf /\ hosts' = hosts
    BY <1>3 DEF Reinit
  <2>2. clients' = clients \/ clients' = clients + 1
    BY <1>0, <2>1, SessInitMoves
  <2>3. Starts = hosts /\ Starts' = hosts + 1 /\ clients' = hosts + 1
    BY <1>0, <2>1 DEF Starts, AllOpened
  <2>4. AllOpened
    BY <1>0, <2>2, <2>3 DEF AllOpened
  <2>5. QED
    BY <2>1, <2>4 DEF AllPlain, Plain
<1>4. ASSUME NEW name \in Commands, NEW ok \in BOOLEAN, Execute(name, ok)
      PROVE  AllPlain /\ AllOpened
  <2>1. ~reinit /\ conf' = conf /\ clients' = clients
    BY <1>0, <1>4 DEF Execute, Idle, Pending
  <2>2. Starts' = Starts
    <3>1. CASE ok /\ name = "HOST"
      <4>1. reinit' /\ hosts' = hosts + 1
        BY <1>4, <3>1 DEF Execute
      <4>2. QED
        BY <1>0, <2>1, <4>1 DEF Starts
    <3>2. CASE ~(ok /\ name = "HOST")
      BY <1>4, <3>2 DEF Execute, Starts
    <3>3. QED
      BY <3>1, <3>2
  <2>3. QED
    BY <1>1, <2>1, <2>2
<1>5. ASSUME UNCHANGED <<conf, clients, hosts, reinit>> PROVE AllPlain /\ AllOpened
  BY <1>1, <1>5 DEF Starts
<1>6. ASSUME NEW sampled \in BOOLEAN, NEW timed \in BOOLEAN,
             NEW env \in SUBSET TlsEnv, LogCommand(sampled, timed, env)
      PROVE  AllPlain /\ AllOpened
  BY <1>5, <1>6 DEF LogCommand
<1>7. ASSUME NEW event \in CounterEvents, CounterEvent(event) PROVE AllPlain /\ AllOpened
  BY <1>5, <1>7 DEF CounterEvent
<1>8. ASSUME NEW kind \in SshKinds, NEW sampled \in BOOLEAN,
             ChannelOpened(kind, sampled)
      PROVE  AllPlain /\ AllOpened
  BY <1>5, <1>8 DEF ChannelOpened
<1>9. CASE SqlOpened \/ SqlClosed
  BY <1>5, <1>9 DEF SqlOpened, SqlClosed
<1>10. CASE Exit \/ Shutdown \/ Kill \/ Tick
  BY <1>5, <1>10 DEF Exit, Shutdown, Kill, Tick
<1>11. CASE UNCHANGED vars
  BY <1>5, <1>11 DEF vars
<1>12. QED
  BY <1>2, <1>3, <1>4, <1>6, <1>7, <1>8, <1>9, <1>10, <1>11 DEF Next

(* With nothing sampled, excluded or missed each step keeps the balance.   *)
LEMMA BalancedStep ==
  ASSUME FlowInv, [Next]_vars, Balanced, phase = "forked" \/ (AllPlain /\ AllOpened)
  PROVE  Balanced'
<1> USE DEF module_vars, core_vars, history_vars
<1> DEFINE Same(name) == gauges'[name] = gauges[name]
           AllSame == \A name \in Counted : Same(name)
           RaisedSame == \A name \in Counted : Raised(name)' = Raised(name)
           NoneLowered == \A name : Lowered(name) = 0 /\ Lowered(name)' = 0
<1>0. /\ TypeOK /\ channels \in [SshKinds -> Nat] /\ EngineHasClient
      /\ Counted \subseteq ConnNames \ {"connection", "sql"}
      /\ \A name \in Counted : gauges[name] \in Int
  BY SessionAssumption
  DEF FlowInv, SessionInv, TypeOK, ConnNames, Protocols, SshKinds, Counted
<1>1. phase # "forked" => Plain(main_server) /\ (Running => statsd # NULL)
  BY <1>0 DEF AllPlain, AllOpened, FlowInv, ClientPerStart, TypeOK
<1>2. ASSUME AllSame, RaisedSame, NoneLowered PROVE Balanced'
  BY <1>2 DEF Balanced
<1>3. phase # "exited" /\ phase' # "exited" => NoneLowered
  BY DEF Lowered, One
<1>4. UNCHANGED <<proto, cmd, channels>> => RaisedSame
  BY DEF Raised, Tls, Pending, One
<1>5. ASSUME NEW sampling, NEW handlers, NEW ok, SessInit(sampling, handlers, ok)
      PROVE  AllSame
  BY <1>0, <1>5, SessInitMoves
<1>6. Silent => AllSame
  BY SilentKeeps
<1>7. \A name \in Counted : Raised(name) \in Int /\ gauges[name] = Raised(name) - Lowered(name)
  BY <1>0 DEF Balanced, Raised, One, Counted
<1> HIDE DEF AllSame, RaisedSame, NoneLowered
<1>8. ASSUME NEW ok \in BOOLEAN, Start(ok) PROVE Balanced'
  BY <1>2, <1>3, <1>4, <1>5, <1>8 DEF Start
<1>9. ASSUME NEW ok \in BOOLEAN, Reinit(ok) PROVE Balanced'
  BY <1>2, <1>3, <1>4, <1>5, <1>9 DEF Reinit, Running
<1>10. ASSUME NEW name \in Commands, NEW ok \in BOOLEAN, Execute(name, ok)
       PROVE  Balanced'
  <2>1. AllSame /\ NoneLowered /\ channels' = channels /\ cmd = NONE
    BY <1>3, <1>6, <1>10 DEF Execute, Idle, Running
  <2>2. Tls' <=> Tls
    <3>1. CASE ok /\ name = "AUTH"
      <4>1. proto = "ftp" /\ proto' = "ftps" /\ cmd'.name = "AUTH" /\ cmd'.ok = TRUE
        BY <1>10, <3>1 DEF Execute
      <4>2. cmd' \in CmdRecs
        BY <1>0, <1>10 DEF TypeOK, CmdRecs, Execute
      <4>3. QED
        BY <4>1, <4>2, SessionAssumption DEF Tls, Pending
    <3>2. CASE ~(ok /\ name = "AUTH")
      <4>1. proto' = proto /\ cmd'.name = name /\ cmd'.ok = ok
        BY <1>10, <3>2 DEF Execute
      <4>2. ~Pending("AUTH") /\ ~Pending("AUTH")'
        BY <2>1, <3>2, <4>1 DEF Pending
      <4>3. QED
        BY <4>1, <4>2 DEF Tls
    <3>3. QED
      BY <3>1, <3>2
  <2>3. RaisedSame
    BY <2>1, <2>2 DEF RaisedSame, Raised, One
  <2>4. QED
    BY <1>2, <2>1, <2>3
<1>11. ASSUME NEW sampled \in BOOLEAN, NEW timed \in BOOLEAN,
              NEW env \in SUBSET TlsEnv, LogCommand(sampled, timed, env)
       PROVE  Balanced'
  <2>1. /\ phase = "running" /\ phase' = "running" /\ cmd # NONE /\ cmd' = NONE
        /\ UNCHANGED <<proto, channels>>
    BY <1>11 DEF LogCommand, Running
  <2>2. statsd # NULL /\ statsd_engine /\ statsd_exclude = {} /\ sampled = TRUE
    BY <1>1, <1>11, <2>1, PlainLogsAll DEF Running
  <2>3. ASSUME NEW name \in Counted
        PROVE  gauges'[name] = IF name = "ftps" /\ Pending("AUTH")
                                 THEN gauges[name] + 1 ELSE gauges[name]
    <3>1. (cmd.name = "AUTH" /\ cmd.ok) <=> Pending("AUTH")
      BY <2>1 DEF Pending
    <3>2. name # "ftp"
      BY DEF Counted, SshKinds
    <3>3. name \in ConnNames
      BY <1>0
    <3>4. QED
      BY <1>0, <1>11, <2>2, <3>1, <3>2, <3>3, LogCommandMoves
  <2>4. NoneLowered /\ ~Pending("AUTH")'
    BY <1>3, <2>1 DEF Pending
  <2>5. CASE Pending("AUTH")
    <3>1. proto = "ftps" /\ ~Tls /\ Tls'
      BY <2>1, <2>4, <2>5 DEF FlowInv, LoginOrder, Tls
    <3>2. ASSUME NEW name \in Counted
          PROVE  gauges'[name] = Raised(name)' - Lowered(name)'
      <4>1. /\ gauges[name] = Raised(name) - 0 /\ Lowered(name)' = 0
            /\ gauges'[name] = IF name = "ftps" THEN gauges[name] + 1 ELSE gauges[name]
        BY <1>7, <2>3, <2>4, <2>5 DEF NoneLowered
      <4>2. CASE name = "ftps"
        BY <3>1, <4>1, <4>2 DEF Raised, One
      <4>3. CASE name # "ftps"
        <5>1. Raised(name)' = Raised(name)
          BY <2>1, <4>3 DEF Raised
        <5>2. QED
          BY <4>1, <4>3, <5>1
      <4>4. QED
        BY <4>2, <4>3
    <3>3. QED
      BY <3>2 DEF Balanced
  <2>6. CASE ~Pending("AUTH")
    <3>1. AllSame
      BY <2>3, <2>6 DEF AllSame
    <3>2. RaisedSame
      BY <2>1, <2>4, <2>6 DEF RaisedSame, Raised, Tls, One
    <3>3. QED
      BY <1>2, <2>4, <3>1, <3>2
  <2>7. QED
    BY <2>5, <2>6
<1>12. ASSUME NEW event \in CounterEvents, CounterEvent(event) PROVE Balanced'
  <2>1. AllSame
    BY <1>0, <1>12, CounterEventMoves DEF AllSame
  <2>2. QED
    BY <1>2, <1>3, <1>4, <1>12, <2>1 DEF CounterEvent, Alive
<1>13. CASE SqlOpened
  <2>1. AllSame
    BY <1>0, <1>13, SqlOpenedMoves DEF AllSame
  <2>2. QED
    BY <1>2, <1>3, <1>4, <1>13, <2>1 DEF SqlOpened, Running
<1>14. CASE SqlClosed
  <2>1. AllSame
    BY <1>0, <1>14, SqlClosedMoves DEF AllSame
  <2>2. QED
    BY <1>2, <1>3, <1>4, <1>14, <2>1 DEF SqlClosed, Running
<1>15. ASSUME NEW kind \in SshKinds, NEW sampled \in BOOLEAN,
              ChannelOpened(kind, sampled)
       PROVE  Balanced'
  <2>1. /\ phase = "running" /\ phase' = "running" /\ authenticated
        /\ proto \in {"ssh2"} \cup SshKinds /\ proto' = kind
        /\ channels' = [channels EXCEPT ![kind] = channels[kind] + 1]
        /\ "mod_sftp.c" \in Modules
        /\ sampled \in SampledBy(statsd_sampling)
    BY <1>15 DEF ChannelOpened, Idle, Running
  <2>2. statsd # NULL /\ ~reinit /\ Plain(main_server)
    BY <1>1, <2>1 DEF FlowInv, LoginOrder, Running
  <2>3. statsd_engine
    BY <1>0, <2>1, <2>2 DEF EngineHasClient, Running
  <2>4. statsd_sampling = "all"
    BY <2>1, <2>2, <2>3 DEF FlowInv, SessionInv, ConfigFresh, Plain, Running
  <2>5. sampled = TRUE
    BY <2>1, <2>4 DEF SampledBy
  <2>6. Opened(kind) \in registered
    BY <2>1, <2>2 DEF FlowInv, HandlersOfClient, Running, SessionEvents, SshKinds
  <2>7. \A name \in Counted :
          gauges'[name] = IF name = kind THEN gauges[name] + 1 ELSE gauges[name]
    BY <1>0, <1>15, <2>2, <2>5, <2>6, ChannelOpenedMoves
  <2>8. NoneLowered /\ ~Tls /\ ~Tls'
    BY <1>3, <2>1 DEF Tls, SshKinds
  <2>9. \A name \in Counted :
          Raised(name)' = IF name = kind THEN Raised(name) + 1 ELSE Raised(name)
    BY <1>0, <2>1, <2>8 DEF Raised, One, Counted, SshKinds
  <2>10. \A name \in Counted : gauges[name] = Raised(name) - 0 /\ Lowered(name)' = 0
    BY <1>7, <2>8 DEF NoneLowered
  <2>11. QED
    BY <1>7, <2>7, <2>9, <2>10 DEF Balanced
<1>16. CASE Exit
  <2>1. /\ phase = "running" /\ phase' = "exited"
        /\ UNCHANGED <<proto, authenticated, cmd, channels>>
    BY <1>16 DEF Exit, Running
  <2>2. statsd # NULL /\ "core.exit" \in registered
    BY <1>0, <1>1, <2>1 DEF EngineHasClient, Running
  <2>3. \A name \in Counted :
          gauges'[name] = IF name = proto /\ authenticated THEN gauges[name] - 1
                                                           ELSE gauges[name]
    BY <1>0, <1>16, <2>2, ExitStepMoves
  <2>4. \A name : /\ Lowered(name) = 0
                  /\ Lowered(name)' = IF name = proto /\ authenticated THEN 1 ELSE 0
    BY <2>1 DEF Lowered, One
  <2>5. RaisedSame
    BY <1>4, <2>1
  <2>6. QED
    BY <1>7, <2>3, <2>4, <2>5 DEF Balanced, RaisedSame
<1>17. CASE Shutdown
  BY <1>2, <1>3, <1>4, <1>6, <1>17 DEF Shutdown, Running
<1>18. CASE Kill
  BY <1>2, <1>3, <1>4, <1>6, <1>18 DEF Kill, Alive
<1>19. CASE Tick
  BY <1>2, <1>3, <1>4, <1>6, <1>19 DEF Tick, Running
<1>20. CASE UNCHANGED vars
  BY <1>20 DEF vars, Balanced, Raised, Tls, One, Lowered, Pending
<1>21. QED
  BY <1>8, <1>9, <1>10, <1>11, <1>12, <1>13, <1>14, <1>15, <1>16, <1>17, <1>18, <1>19,
     <1>20
  DEF Next

LEMMA ProtocolStep == FlowInv /\ ProtocolGauges /\ [Next]_vars => ProtocolGauges'
<1> SUFFICES ASSUME FlowInv, ProtocolGauges, [Next]_vars PROVE ProtocolGauges'
  OBVIOUS
<1>1. TypeOK /\ TypeOK'
  BY FlowStep DEF FlowInv, SessionInv
<1>2. SUFFICES ASSUME AllPlain', AllOpened' PROVE Balanced'
  <2>1. ProtocolGauges' <=> (AllPlain' /\ AllOpened' => Balanced')
    BY <1>1, ProtocolParts, PTL
  <2>2. QED
    BY <2>1
<1>3. CASE phase = "forked"
  <2>1. Balanced
    <3>1. /\ proto # "ftps" /\ ~authenticated /\ \A kind \in SshKinds : channels[kind] = 0
          /\ \A name \in ConnNames : gauges[name] = 0
      BY <1>3 DEF FlowInv, Unused
    <3>2. Counted \subseteq ConnNames
      BY DEF Counted, ConnNames, Protocols, SshKinds
    <3>3. \A name \in Counted : Raised(name) = 0 /\ Lowered(name) = 0
      BY <3>1 DEF Raised, Tls, One, Lowered, Counted, SshKinds
    <3>4. QED
      BY <3>1, <3>2, <3>3 DEF Balanced
  <2>2. QED
    BY <1>3, <2>1, BalancedStep
<1>4. CASE phase # "forked"
  <2>1. AllPlain /\ AllOpened
    BY <1>2, <1>4, AllOpenedBefore
  <2>2. Balanced
    BY <1>1, <2>1, ProtocolParts
  <2>3. QED
    BY <2>1, <2>2, BalancedStep
<1>5. QED
  BY <1>3, <1>4
-----------------------------------------------------------------------------
(* The number of open database connections is to fit an unsigned int.      *)
SqlFits == MaxSql < UIntWord

(* Connections are opened by mod_sql. *)
SqlLoaded == sql_open = 0 \/ "mod_sql.c" \in Modules

LEMMA SqlLoadedStep == SqlLoaded /\ [Next]_vars => SqlLoaded'
<1>1. ASSUME [Next]_vars
      PROVE  sql_open' = sql_open \/ sql_open > 0 \/ "mod_sql.c" \in Modules
  BY <1>1 DEF Next, vars, core_vars, Start, Reinit, Execute, LogCommand, CounterEvent,
              SqlOpened, SqlClosed, ChannelOpened, Exit, Shutdown, Kill, Tick
<1>2. ASSUME SqlLoaded,
             sql_open' = sql_open \/ sql_open > 0 \/ "mod_sql.c" \in Modules
      PROVE  SqlLoaded'
  BY <1>2 DEF SqlLoaded
<1>3. QED
  BY <1>1, <1>2

LEMMA SqlLoadedInvariant == Spec => []SqlLoaded
<1>1. Init => SqlLoaded
  BY DEF Init, SqlLoaded
<1>2. QED
  BY <1>1, SqlLoadedStep, PTL DEF Spec

(* A counted connection raises the gauge and the count by one, a closed    *)
(* one lowers both, and nothing else touches either.                       *)
LEMMA SqlStep ==
  ASSUME SqlFits
  PROVE  FlowInv /\ SqlLoaded /\ SqlGaugeIsCount /\ [Next]_vars => SqlGaugeIsCount'
<1> SUFFICES ASSUME FlowInv, SqlLoaded, SqlGaugeIsCount, [Next]_vars
             PROVE  SqlGaugeIsCount'
  OBVIOUS
<1> USE DEF module_vars, core_vars, history_vars
<1> DEFINE gauge == gauges["sql"]
<1>0. /\ TypeOK /\ gauge \in Int /\ "sql" \in ConnNames \ {"connection"}
      /\ statsd_sql_conn_count \in 0..(UIntWord - 1) /\ sql_open \in 0..MaxSql
      /\ MaxSql \in Nat /\ UIntWord \in Nat \ {0} /\ MaxSql < UIntWord
  BY SessionAssumption DEF FlowInv, SessionInv, TypeOK, ConnNames, SqlFits
<1>1. ASSUME gauge' = gauge,
             UNCHANGED <<statsd_sql_conn_count, sql_open, phase, sql_missed>>
      PROVE  SqlGaugeIsCount'
  BY <1>1 DEF SqlGaugeIsCount, Running
<1>2. ASSUME phase' # "running" PROVE SqlGaugeIsCount'
  BY <1>2 DEF SqlGaugeIsCount, Running
<1>3. ASSUME NEW ok \in BOOLEAN, Start(ok) PROVE SqlGaugeIsCount'
  <2>1. statsd_sql_conn_count = 0 /\ sql_open = 0 /\ gauge = 0
    BY <1>0, <1>3 DEF Start, FlowInv, Unused
  <2>2. gauge' = gauge
    BY <1>0, <1>3, SessInitMoves DEF Start
  <2>3. UNCHANGED <<statsd_sql_conn_count, sql_open>>
    BY <1>3 DEF Start
  <2>4. QED
    BY <2>1, <2>2, <2>3 DEF SqlGaugeIsCount
<1>4. ASSUME NEW ok \in BOOLEAN, Reinit(ok) PROVE SqlGaugeIsCount'
  <2>1. gauge' = gauge
    BY <1>0, <1>4, SessInitMoves DEF Reinit
  <2>2. UNCHANGED <<statsd_sql_conn_count, sql_open, phase, sql_missed>>
    BY <1>4 DEF Reinit
  <2>3. QED
    BY <1>1, <2>1, <2>2
<1>5. ASSUME NEW name \in Commands, NEW ok \in BOOLEAN, Execute(name, ok)
      PROVE  SqlGaugeIsCount'
  BY <1>1, <1>5 DEF Execute, Silent
<1>6. ASSUME NEW sampled \in BOOLEAN, NEW timed \in BOOLEAN,
             NEW env \in SUBSET TlsEnv, LogCommand(sampled, timed, env)
      PROVE  SqlGaugeIsCount'
  <2>1. gauge' = gauge
    BY <1>0, <1>6, LogCommandMoves
  <2>2. QED
    BY <1>1, <1>6, <2>1 DEF LogCommand
<1>7. ASSUME NEW event \in CounterEvents, CounterEvent(event) PROVE SqlGaugeIsCount'
  <2>1. gauge' = gauge
    BY <1>0, <1>7, CounterEventMoves
  <2>2. QED
    BY <1>1, <1>7, <2>1 DEF CounterEvent
<1>8. CASE SqlOpened
  <2> SUFFICES ASSUME ~sql_missed'
               PROVE  statsd_sql_conn_count' = sql_open' /\ gauge' = sql_open'
    BY DEF SqlGaugeIsCount
  <2>1. /\ Running /\ ~sql_missed /\ statsd # NULL /\ "mod_sql.c" \in Modules
        /\ sql_open < MaxSql /\ sql_open' = sql_open + 1
    BY <1>8 DEF SqlOpened
  <2>2. statsd_sql_conn_count = sql_open /\ gauge = sql_open
    BY <2>1 DEF SqlGaugeIsCount
  <2>3. "mod_sql.db.connection-opened" \in registered
    BY <2>1 DEF FlowInv, HandlersOfClient, SessionEvents, SqlEvents
  <2>4. gauge' = gauge + 1
    BY <1>0, <1>8, <2>1, <2>3, SqlOpenedMoves
  <2>5. statsd_sql_conn_count' = (statsd_sql_conn_count + 1) % UIntWord
    BY <1>8, <2>3 DEF SqlOpened
  <2>6. (sql_open + 1) % UIntWord = sql_open + 1
    BY <1>0, <2>1
  <2>7. QED
    BY <2>1, <2>2, <2>4, <2>5, <2>6
<1>9. CASE SqlClosed
  <2> SUFFICES ASSUME ~sql_missed'
               PROVE  statsd_sql_conn_count' = sql_open' /\ gauge' = sql_open'
    BY DEF SqlGaugeIsCount
  <2>1. /\ Running /\ ~sql_missed /\ statsd # NULL
        /\ sql_open > 0 /\ sql_open' = sql_open - 1
    BY <1>9 DEF SqlClosed
  <2>2. statsd_sql_conn_count = sql_open /\ gauge = sql_open
    BY <2>1 DEF SqlGaugeIsCount
  <2>3. "mod_sql.db.connection-closed" \in registered
    BY <2>1 DEF SqlLoaded, FlowInv, HandlersOfClient, SessionEvents, SqlEvents
  <2>4. gauge' = gauge - 1
    BY <1>0, <1>9, <2>1, <2>3, SqlClosedMoves
  <2>5. statsd_sql_conn_count' = CountLess1
    BY <1>9, <2>3 DEF SqlClosed
  <2>6. CountLess1 = sql_open - 1
    BY <2>1, <2>2 DEF CountLess1
  <2>7. QED
    BY <2>1, <2>2, <2>4, <2>5, <2>6
<1>10. ASSUME NEW kind \in SshKinds, NEW sampled \in BOOLEAN,
              ChannelOpened(kind, sampled)
       PROVE  SqlGaugeIsCount'
  <2>1. gauge' = gauge
    BY <1>0, <1>10, ChannelOpenedMoves DEF SshKinds
  <2>2. QED
    BY <1>1, <1>10, <2>1 DEF ChannelOpened
<1>11. CASE Exit \/ Shutdown \/ Kill
  BY <1>2, <1>11 DEF Exit, Shutdown, Kill
<1>12. CASE Tick
  BY <1>1, <1>12 DEF Tick, Silent
<1>13. CASE UNCHANGED vars
  BY <1>1, <1>13 DEF vars
<1>14. QED
  BY <1>3, <1>4, <1>5, <1>6, <1>7, <1>8, <1>9, <1>10, <1>11, <1>12, <1>13 DEF Next
-----------------------------------------------------------------------------
LEMMA FlowInit == Init => FlowInv
<1> SUFFICES ASSUME Init PROVE FlowInv
  OBVIOUS
<1>1. SessionInv
  BY InitType DEF Init, SessionInv, Fresh, Down, StartIsBegan, EngineHasClient,
                  ConfigFresh, OnlyCurrentServer, SessionTimeSpansHosts, Running
<1>2. Unused
  BY DEF Init, Unused
<1>3. LoginOrder /\ HandlersOfClient /\ ClientPerStart
  BY DEF Init, LoginOrder, Pending, HandlersOfClient, ClientPerStart, Running
<1>4. QED
  BY <1>1, <1>2, <1>3 DEF FlowInv

LEMMA FlowInvariant == Spec => []FlowInv
<1>1. QED
  BY FlowInit, FlowStep, PTL DEF Spec

(* However many HOST commands there were, the connection gauge is the      *)
(* number of clients opened, less one after a reported exit.               *)
THEOREM ConnectionsCounted == Spec => []ConnectionGauge
<1>1. Init => ConnectionGauge
  BY DEF Init, ConnectionGauge, ConnNames
<1>2. QED
  BY <1>1, FlowInvariant, ConnectionStep, PTL DEF Spec

(* A plain FTP session is counted from the log of its login to its exit,   *)
(* and one that ends between the two leaves ftp.connection at -1.          *)
THEOREM FtpSessionsCounted == Spec => []LoginGauge
<1>1. Init => FtpGauge
  BY DEF Init, FtpGauge, ConnNames, Protocols
<1>2. FtpGauge => LoginGauge
  BY DEF FtpGauge, LoginGauge, Plain, Pending
<1>3. QED
  BY <1>1, <1>2, FlowInvariant, FtpStep, PTL DEF Spec

(* The gauges of the other protocols, one by one: each AUTH TLS raises     *)
(* that of ftps, each SFTP or SCP session that of its kind, nothing that   *)
(* of ssh2, and the exit lowers that of the last protocol.                 *)
THEOREM ProtocolsCounted == Spec => []ProtocolGauges
<1>1. Init => ProtocolGauges
  <2>1. ASSUME Init PROVE ProtocolGauges
    <3>1. clients = 0 /\ hosts = 0 /\ reinit = FALSE
      BY <2>1 DEF Init
    <3>2. TypeOK /\ ~AllOpened
      BY <2>1, <3>1, InitType DEF AllOpened, Starts
    <3>3. QED
      BY <3>2, ProtocolParts
  <2>2. QED
    BY <2>1
<1>2. QED
  BY <1>1, FlowInvariant, ProtocolStep, PTL DEF Spec

(* The module's count and the sql gauge are the open connections, unless a *)
(* database event found no client.                                         *)
THEOREM SqlConnectionsCounted ==
  ASSUME SqlFits PROVE Spec => []SqlGaugeIsCount
<1>1. Init => SqlGaugeIsCount
  BY DEF Init, SqlGaugeIsCount, Running
<1>2. FlowInv /\ SqlLoaded /\ SqlGaugeIsCount /\ [Next]_vars => SqlGaugeIsCount'
  BY SqlStep
<1>3. QED
  BY <1>1, <1>2, FlowInvariant, SqlLoadedInvariant, PTL DEF Spec
=============================================================================
