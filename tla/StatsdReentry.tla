--------------------------- MODULE StatsdReentry ---------------------------
(***************************************************************************)
(* StatsdSession with sessions that end inside a handler.  A handler that  *)
(* sends may be interrupted in send_metrics(), where pr_signals_handle()   *)
(* runs the timers and signals of the session; these may end it, so that   *)
(* statsd_exit_ev() runs, with the module in the state that the handler    *)
(* has left it in so far, and the handler never comes to what follows.     *)
(*                                                                         *)
(* The sendto() that was interrupted has transferred nothing and is never  *)
(* issued again.  Over TCP a metric is lost with its own send.  Over UDP   *)
(* the metrics stay in the client's buffer (unsent), until another handler *)
(* flushes it before the process ends: that of the timeout which ends the  *)
(* session, or statsd_exit_ev(), which closes the client.  If neither does *)
(* they never leave the process.                                           *)
(*                                                                         *)
(* Only what a handler does after its first send tells such an end from    *)
(* one right after the handler.  statsd_sess_init(), the close in          *)
(* statsd_sess_reinit_ev(), the two handlers of database connections and   *)
(* statsd_exit_ev() itself do something there that its books depend on;    *)
(* the others only write metrics that no gauge below is about, and the     *)
(* actions of StatsdSession cover their being interrupted.  The database   *)
(* connections that mod_sql closes at the end of the process are left out. *)
(***************************************************************************)
EXTENDS StatsdSession, Sequences, Functions

CONSTANT MaxNested   \* bound: exit handlers that are interrupted

ASSUME ReentryAssumption == MaxNested \in Nat

VARIABLES
  use_tcp,   \* of the session's clients
  within,    \* the handler that was interrupted for good, "none" before
  exits,     \* how many exit handlers were
  unsent     \* per name, the sum of the adjustments in the client's buffer

reentry_vars == <<use_tcp, within, exits, unsent>>

Handlers == {"init", "reinit", "sql-opened", "sql-closed", "exit"}

NoneUnsent == [name \in ConnNames |-> 0]

ReentryInit ==
  /\ Init
  /\ use_tcp \in BOOLEAN /\ within = "none" /\ exits = 0 /\ unsent = NoneUnsent

(* The metrics ms that a handler wrote before it was interrupted.          *)
Buffered(ms) ==
  unsent' = IF use_tcp THEN unsent
            ELSE [name \in ConnNames |-> unsent[name] + Moves(ms, name)]

EndsWithin(handler, ms) ==
  /\ within = "none" /\ within' = handler
  /\ Buffered(ms)
  /\ UNCHANGED <<use_tcp, exits>>
-----------------------------------------------------------------------------
(* In a send of statsd_sess_init(): over TCP that of the gauge, or, once    *)
(* that was written, the flush; over UDP only the flush.  The handlers of  *)
(* the session, core.exit among them, are not registered, and the time of  *)
(* its start is not taken.                                                 *)
InitInterrupted(sampling, handlers, written) ==
  LET client == Opens(sampling, TRUE)
      ms == IF written THEN {Gauge("connection", 1)} ELSE {}
  IN  /\ client # NULL
      /\ written \/ use_tcp
      /\ statsd' = client
      /\ statsd_engine' = TRUE
      /\ statsd_exclude' = Filter(client)
      /\ statsd_sampling' = conf[main_server].sampling
      /\ Emit(client, ms)
      /\ registered' = handlers \cup {"core.session-reinit"}
      /\ clients' = clients + 1
      /\ began' = IF clients = 0 THEN clock ELSE began
      /\ phase' = "running" /\ reinit' = FALSE
      /\ EndsWithin("init", ms)
      /\ UNCHANGED <<statsd_sess_start_ms, statsd_sql_conn_count, conf, main_server,
                     proto, authenticated, cmd, clock, hosts, sql_open, channels,
                     sql_missed>>

StartInterrupted(written) ==
  phase = "forked" /\ InitInterrupted(statsd_sampling, registered, written)

ReinitInterrupted(written) ==
  /\ Running /\ reinit
  /\ InitInterrupted("all", registered \ Unregistered, written)

(* In the close of the old client by statsd_sess_reinit_ev(): core.exit is *)
(* no longer registered.                                                   *)
CloseInterrupted ==
  /\ Running /\ reinit /\ statsd # NULL
  /\ registered' = registered \ Unregistered
  /\ statsd_engine' = FALSE /\ statsd_exclude' = {} /\ statsd_sampling' = "all"
  /\ Silent
  /\ EndsWithin("reinit", {})
  /\ UNCHANGED <<statsd, statsd_sess_start_ms, statsd_sql_conn_count, core_vars,
                 history_vars>>
-----------------------------------------------------------------------------
(* In a send of a handler of database connections, before or after it has  *)
(* written the gauge, and before it counts the connection.                 *)
SqlInterrupted(opens_one, written) ==
  LET ms == IF written THEN {Gauge("sql", IF opens_one THEN 1 ELSE -1)} ELSE {}
  IN  /\ Running /\ statsd # NULL /\ "mod_sql.c" \in Modules
      /\ IF opens_one
           THEN /\ sql_open < MaxSql /\ sql_open' = sql_open + 1
                /\ "mod_sql.db.connection-opened" \in registered
                /\ EndsWithin("sql-opened", ms)
           ELSE /\ sql_open > 0 /\ sql_open' = sql_open - 1
                /\ "mod_sql.db.connection-closed" \in registered
                /\ EndsWithin("sql-closed", ms)
      /\ Emit(statsd, ms)
      /\ UNCHANGED <<module_vars, conf, main_server, phase, proto, authenticated, cmd,
                     reinit, clock, hosts, channels, history_vars>>

(* The metrics of statsd_exit_ev(), in the order it writes them. *)
ExitSequence ==
  <<Gauge("connection", -1)>>
    \o (IF authenticated THEN <<Gauge(proto, -1), Timer(proto, statsd_sess_start_ms)>>
                         ELSE <<>>)
    \o (IF statsd_sql_conn_count > 0 THEN <<Gauge("sql", SqlAtExit)>> ELSE <<>>)

(* Mutant: the count is reset after the client is closed. *)
CountAtCloseKept == statsd_sql_conn_count

(* The count of database connections while statsd_exit_ev() closes.        *)
CountAtClose == 0

(* In a send of statsd_exit_ev(), which has written n metrics: in that of  *)
(* the next one over TCP, when it makes room for the next over UDP, or, if *)
(* there is no next, when it closes the client.  statsd is not NULL yet,   *)
(* so that the session's end runs the handler again.                       *)
ExitInterrupted(n) ==
  LET ms == Range(SubSeq(ExitSequence, 1, n))
  IN  /\ Running /\ exits < MaxNested
      /\ "core.exit" \in registered /\ statsd # NULL
      /\ n \in 0..Len(ExitSequence)
      /\ Emit(statsd, ms) /\ Buffered(ms)
      /\ statsd_sql_conn_count' =
           IF n = Len(ExitSequence) THEN CountAtClose ELSE statsd_sql_conn_count
      /\ exits' = exits + 1
      /\ within' = IF within = "none" THEN "exit" ELSE within
      /\ UNCHANGED <<use_tcp, statsd_engine, statsd_exclude, statsd_sampling, statsd,
                     statsd_sess_start_ms, registered, core_vars, history_vars>>
-----------------------------------------------------------------------------
(* The session was ended by a timeout, whose handler writes a counter and  *)
(* flushes the client.                                                     *)
TimeoutReported(event) ==
  /\ within # "none"
  /\ CounterEvent(event)
  /\ unsent' = NoneUnsent
  /\ UNCHANGED <<use_tcp, within, exits>>

(* The process ends: statsd_exit_ev(), if it is registered, flushes, too.  *)
SessionEnds ==
  /\ within # "none"
  /\ Exit
  /\ unsent' = IF "core.exit" \in registered /\ statsd # NULL THEN NoneUnsent ELSE unsent
  /\ UNCHANGED <<use_tcp, within, exits>>

ReentryNext ==
  \/ within = "none" /\ Next /\ UNCHANGED reentry_vars
  \/ \E written \in BOOLEAN : StartInterrupted(written) \/ ReinitInterrupted(written)
  \/ CloseInterrupted
  \/ \E opens_one, written \in BOOLEAN : SqlInterrupted(opens_one, written)
  \/ \E n \in 0..4 : ExitInterrupted(n)
  \/ \E event \in TimeoutEvents : TimeoutReported(event)
  \/ SessionEnds

ReentrySpec == ReentryInit /\ [][ReentryNext]_<<vars, reentry_vars>>
-----------------------------------------------------------------------------
ReentryTypeOK ==
  /\ TypeOK
  /\ use_tcp \in BOOLEAN
  /\ within \in Handlers \cup {"none"}
  /\ exits \in 0..MaxNested
  /\ unsent \in [ConnNames -> Int]

Reported == phase = "exited" /\ (within # "none" \/ "core.exit" \in registered)

(* What the server was given of the adjustments that were written.         *)
Given(name) == gauges[name] - unsent[name]

(* However a session ends that had clients, its connection gauge is that   *)
(* of an ordinary end, one less than the clients opened, with these        *)
(* exceptions.  An end within statsd_sess_reinit_ev() leaves it one        *)
(* higher.  One within statsd_sess_init() may, for the +1 of the new       *)
(* client may be with the server and is never taken back; but over UDP it  *)
(* is not if this was the first client, for no other handler flushes it.   *)
(* And each exit handler that was interrupted may leave it one lower.      *)
ConnectionOff ==
  Reported /\ clients > 0 =>
    Given("connection") - (clients - 1) \in
      CASE within = "reinit" -> {1}
        [] within = "init" -> IF ~use_tcp /\ clients = 1 THEN {0} ELSE {0, 1}
        [] OTHER -> (0 - exits)..0

(* What an end within each handler may leave of the database connections   *)
(* that the session had, in their gauge (reckoned as an unsigned int).     *)
SqlLeft ==
  CASE within \in {"init", "reinit"} -> {sql_open}
    [] within = "sql-opened" -> {0, 1}
    [] within = "sql-closed" -> {0, -1}
    [] OTHER -> {0}

(* "if the session dies/closes before the database connections are closed  *)
(* cleanly, we can still properly adjust the SQL database connection       *)
(* gauge": the gauge is off by the one connection that was being opened or *)
(* closed, and where nothing is reported at the end, by all; but not by an *)
(* interrupted exit handler, for it has reset the count before it closes   *)
(* the client, and has written nothing of it in any send before.           *)
SqlOff ==
  Reported /\ ~sql_missed =>
    \E left \in SqlLeft : (Given("sql") - left) % UIntWord = 0
=============================================================================
