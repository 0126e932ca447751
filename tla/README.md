# A TLA+ development of mod_statsd

`mod_statsd` is a proftpd module that reports what a session does - commands,
connections, database connections, timeouts, log messages, TLS handshakes - to a
statsd server. The code is small (`mod_statsd.c`, `metric.c`, `statsd.c`, 1500
lines) but it lives inside proftpd: its state is a set of statics, its entry
points are handlers that proftpd calls in an order the module does not control,
a virtual host can be swapped under it by a HOST command, and its only blocking
call lets signal handlers of the same process call back into it.

This directory holds TLA+ models of it, runs of TLC on small instances, and
proofs checked by TLAPS.

## 1. Inventory

One process per FTP/SSH connection; every process has one instance of the
module's state. There are no threads. What runs "concurrently" with the module is
(a) handlers run by `pr_signals_handle()` inside its own `sendto()` loop, (b) the
rest of the proftpd session between any two handlers, (c) the wall clock, and
(d) the statsd server at the other end of a network that loses datagrams and may
take a part of a TCP write. A session may also end inside any send of a handler.

| component | state | operations | interacts with |
|---|---|---|---|
| statsd client (`statsd.c`) | `struct statsd`: fd, transport, sampling, prefix/suffix, `metrics_pool`, `metrics_buf`, `metrics_buflen` | `open`, `close`, `write`, `flush`, `set_fd`, getters; internally `send_metrics`, `clear_metrics` | called by metric formatting and by the session; calls `sendto()` and `pr_signals_handle()` |
| metric formatting (`metric.c`) | none | `counter`, `timer`, `gauge`; internally `write_metric`, `sanitize_name` | called by the handlers; calls `statsd_statsd_write` |
| session lifecycle (`mod_statsd.c` 509-542, 597-631, 790-910) | `statsd_engine`, `statsd_exclude_*`, `statsd_sampling`, `statsd`, `statsd_sess_start_ms`, `statsd_sql_conn_count`, the registered handlers | `statsd_sess_init`, `statsd_sess_reinit_ev` (HOST), `statsd_exit_ev`, `statsd_shutdown_ev` | reads the configuration of `main_server`; opens and closes the client |
| command metrics (375-504) | none of its own | `statsd_log_any`, `statsd_log_any_err` | reads engine, filter, sampling; writes and flushes |
| event metrics (544-560, 633-785) | `statsd_sql_conn_count` | log, timeout, SQL, SFTP/SCP, TLS-error handlers | as above, without looking at the engine: with no client the functions of `metric.c` return early |
| directives (189-370, 570-595) | the configuration, in the daemon | `StatsdEngine`, `StatsdExcludeFilter`, `StatsdSampling`, `StatsdServer`, `statsd_postparse_ev` | produce what `statsd_sess_init` reads |
| module init (562-568, 912-923) | the registered handlers of the daemon | register three handlers; unregister all at an unload | decides whether `statsd_postparse_ev` runs |
| tests, build files | - | - | not modelled |

Hard behaviours, and what makes each component correct:

* **Client.** A write may send the old buffer, store, and send again; each send
  may be interrupted and run handlers that write, flush or close the same client,
  and is then issued again with the `buf` and `len` it had before. Correct
  means: nothing stored is forgotten, nothing is sent twice or out of order, a close
  leaves nothing behind, batches fit a packet, length and text agree, no send reads
  freed memory, every call ends.
* **Session.** HOST replaces the whole configuration while all but two handlers
  stay registered and the count of database connections and the start time live
  on. Opening the client may fail. The session can end between any two steps, also
  between a command and its log handler, or be killed. Correct means: engine,
  client and exit handler agree; no setting of another virtual host survives;
  metrics go to the current server only; what a gauge was raised by is what it is
  lowered by, also if the session ends in the middle of a handler; counts and times
  agree with what happened.
* **Configuration.** Four directives, a check at the end, and a module that may be
  loaded and unloaded around it. Correct means: an address is understood as
  documented, nothing that was refused is recorded, and a daemon does not serve
  with a server that lacks what it needs.
* **Formatting.** Truncation, sign prefixes, rates, capped times and sanitized
  names, between a prefix and a suffix, must produce lines a statsd server reads as
  meant.

All hazards, each at its line and with the properties aimed at it, are listed in
`PROJECT.json`.

## 2. Modules

### StatsdClient (statsd.c, lengths from metric.c)

`statsd`, `metrics` are the fields of `struct statsd`. The C call stack is explicit: `calls`
is a sequence of frames, one per `send_metrics()` in progress - with the `buf` it
was called with and what its caller does next (`"done"`, `"store"`, `"close"`,
`"exit"`) - and one per handler that interrupted the frame below it. `Write`,
`SendAll` (flush or close), `Open`, `SetFd` are the API; `Return`, `ReturnToStore`, `ReturnToClose`
are the end of a `sendto()` (accepted or failed) together with everything the callers do up to
their next `sendto()`; `Interrupt` is EINTR; `HandlerReturns` goes back
to the loop. A buffer is the sequence of the metrics' numbers together with
`metrics_buflen`, the length of the string, and the identity of its pool.

`tried`, `packet`, `delivered`, `destroyed`, `opens`, `returned`, `stranded` are observations, read by no guard but
the bound `opens < MaxOpens`; `next` numbers the metrics.

A handler may do any of three things. Timeouts of the session and terminating signals write
a metric and end the process inside the handler. A handler that logs makes `statsd_log_ev` add a metric
and returns; a timer of mod_sql that closes a database connection writes, flushes and returns. A handler that writes nothing
returns, and the `sendto()` below it is issued again.

Over UDP the second kind does harm, and the properties say how much. `returned` is TRUE once a handler that wrote has
returned into a send; `stranded` are the metrics that it left in the buffer, but which are not in that send, whose end clears them.
`DrainedOnClose` says that a close loses nothing but these; `SendReadsLiveMemory`, that only a send which such a handler
returned to reads from a destroyed pool, and that it would send nothing new.

### MetricPipe

The abstract client: a lossy pipe that accepts metrics one by one and delivers
some of them, in order and at most once while it is `orderly`. It may stop being so; then a packet may repeat
or overtake another, but is still in order itself and holds only accepted metrics. `StatsdClient!PipeSpec` maps `accepted`
to `next - 1`, `delivered` to itself and `orderly` to `~returned`.

### StatsdStream (send_metrics over TCP)

Extends `StatsdClient` with the byte stream and the statsd server that reads lines from it. `send_metrics()` takes
any result of `sendto()` that is not negative for a success (its comment asks "Should we watch for short
writes?"), so `Taken` lets the network take any part of a buffer. What the server has of an incomplete line is
`begun`; `read` are the metrics it got as a line of their own, `spoiled` those that were cut, or had bytes behind
their newline. `OnlyNeighboursLost` says what the newline is for: a spoiled metric costs at most itself and the next one.

### StatsdSession (mod_statsd.c), MCSession

The module's statics under their own names; `registered` is the set of events it has
a handler for. `conf`, `main_server`, `phase`, `proto`, `authenticated`, `cmd`, `reinit`, `clock`,
`sql_open` stand for proftpd. `Start` and `Reinit` run `SessInit` with the three
failure returns of `statsd_sess_init` folded into `Opens`. A command is two steps, its
execution by proftpd (`Execute`: login, AUTH TLS, HOST, anything else) and its log handler
(`LogCommand`), and other events and the end of the session may come between them. A HOST has a third, `Reinit`, between the
two. `CounterEvent`, `SqlOpened`, `SqlClosed`, `ChannelOpened`, `Exit`, `Shutdown` are the other
handlers. `Kill` is an end without `core.exit`; `Tick` moves the wall clock, also backwards.

`out` holds the metrics the last step wrote and their destination. `gauges` adds up the values
that the session gave to `statsd_metric_gauge`, over all statsd servers. It is what the code asks for: how `metric.c` prints a
negative value is the subject of `StatsdMetric`. `clients`, `began`, `sql_missed` are history.

Behaviour of proftpd is taken from how the module uses it: HOST and AUTH TLS only come before a login, the
protocol is "ftp" or "ssh2" at first and "ftps", "sftp", "scp" later, registering a
handler twice keeps one. `core.shutdown` is allowed in a session, as its handler allows for a client; nothing but logging follows it.

`LoginGauge` says what `ftp.connection` is, also when the session ends between a login and its logging: the exit then takes back
what was never added (-1). `ProtocolGauges` says what each of the gauges of `ftps`, `sftp`, `scp` and `ssh2` is, from the number of
sessions of each kind (`channels`), and what an exit leaves of it. `OnlyCurrentServer` leaves out the window between proftpd's change of `main_server`
and its `core.session-reinit`, in which metrics still go to the server of the host before. What an AUTH TLS counts of the cipher and
the protocol version depends on the environment (`TlsEnv`).

`MCSession` gives TLC two virtual hosts and their configurations: all on; off; another
statsd server; sampled with logins excluded.

### StatsdReentry (mod_statsd.c), MCReentry

`StatsdSession` takes a handler as one step. `StatsdReentry` adds sessions that end *inside* one: each send of a handler may be
interrupted, `pr_signals_handle()` runs the timers and signals of the session, and one of these ends it, so
that `statsd_exit_ev` runs with the module in the state the handler has left it in so far. That a timer or terminating
signal may end the session there is external, by what `pr_signals_handle()` is for. Its actions are the first halves of the
handlers that do something after a send which the books depend on:
`InitInterrupted` (in the flush, before `core.exit` is registered), `CloseInterrupted` (in the close at a HOST, after
`core.exit` is unregistered), `SqlInterrupted` (before the count changes) and `ExitInterrupted` (`statsd` is NULL only
after the close, so the handler runs again). `within` is the handler the session ended in. `MCReentry` is its instance.

The `sendto()` that was interrupted is never issued again. Over TCP its metric is lost; over UDP what was written stays in the
client's buffer, and leaves the process only if a handler that still runs flushes it: that of the timeout which ends the session
(`TimeoutReported`), or `statsd_exit_ev` if it is registered (`SessionEnds`). `unsent` sums up, per gauge, what is in the buffer, and
`Given` is what the server was given. So the +1 of the first client's `statsd_sess_init` never leaves the process over UDP: nothing is registered yet.

### StatsdConfig (mod_statsd.c), MCConfig

The daemon: `SetEngine`, `SetExcludeFilter`, `SetSampling`, `SetServer` are the directives, with `Misplaced` for wrong context or number of
arguments; an error stops the daemon, else a record is added, of which the first counts. `PostParse` is
`statsd_postparse_ev`, `Load` and `Unload` are `statsd_init` and `statsd_mod_unload_ev`, `Restart` reads the
configuration again. `SessInit` is what a session's `statsd_sess_init` makes of the records up to the opening of its
client (`StatsdSession` starts from there). A text is a sequence of tokens: `[`, `]`, `:`, the slashes of a scheme, words;
`Parsed` is the case distinction of `set_statsdserver`, and `Written`, from `mod_statsd.html`, is the reference it is
compared with. `atoi` is a constant function, and 0 for what does not start with digits; `Port` cuts to 16 bits.

### StatsdMetric (metric.c), MCMetric

Counters, timers and gauges as lines: prefix, name with `:`, `|`, `@` replaced, suffix, sign, value, rate. A client has a
sampling in thousandths; `Rates` are the two digits of `%.2f`, either neighbour from the middle, as a float is rarely exact there.
`Counter`, `Timer`, `SetGauge`, `AdjustGauge` are the API. A statsd server (external, by the protocol the
comments of metric.c refer to) reads each line: a gauge's value replaces the
gauge unless it has a sign; a value with two signs is no number and the line is dropped; a counter's value is divided by the
line's rate. `asked` and `seen` are
the totals as the callers and the server have them: an event that is reported by a client with a sampling below 1 stands for
those that were not, so callers ask for its inverse. To stay with integers, counts are reckoned in parts of an event, `Unit` to the event, which every
rate that occurs divides (`Each`). `lowered` is what a gauge was to be lowered by since it was last set. A name is a sequence of characters, as sanitizing it
works on these; `MCMetric` gives a plain one and two with characters of the format. No line is lost or cut here: that is `StatsdClient`'s part.

`GaugesButLowered` says that the server's gauges are those asked for, but for what each was to be lowered by. `CountsNear` says that counters are
those asked for at a whole percentage, and otherwise off by what the two digits leave out. Both are about clients whose prefix and suffix have no colon (`Undivided`):
the code prints these unchecked, and after a colon the name is another. The API takes any sampling, so the model does; in
the module itself no client ever has one (`session_client_sampling`), and `CountsNear` is about `metric.c` as its header describes it.

## 3. Runs

| run | shows |
|---|---|
| `client_udp` | UDP, handlers that write and flush inside any send and end the process or return, up to three frames: type, packet size, length, what a close may lose, what a send may read, refinement of `MetricPipe`, every call leaves its `sendto()` loop |
| `client_tcp` | TCP, handlers that return, short writes, a bad descriptor: nothing lost in the client, nothing twice, nothing waiting, a cut line costs the next one at most |
| `session` | all session properties over 16 configurations, two HOSTs, two SFTP or SCP sessions, a clock that is set back |
| `reentry` | sessions that end inside a handler, over TCP and UDP, exit handlers interrupted up to twice: how far what the server was given of the connection and database gauges may be off |
| `config` | all four directives on two servers, a restart, loads and unloads: clients go where the address says, no server lacks its `StatsdServer` |
| `metric` | a server's gauges are those asked for but for what they were to be lowered by; its counters are those asked for, or near at a sampling that two digits do not show; times are capped |
| `client_stray_bytes` | *violated*: a metric of 511 or 512 characters is cut to 510 but sent with its full length |
| `client_reentrant_loss` | *violated*: over UDP, what a returning handler stored is cleared unsent |
| `session_host_gauge` | *violated*: each HOST leaves the connection gauge one too high |
| `session_sql_exit` | *violated*: open database connections at exit add 2^32 - n to their gauge instead of -n |
| `session_client_sampling` | *violated*: the client never learns `StatsdSampling`, so no metric ever carries a rate |
| `metric_negative_adjust` | *violated*: an adjustment by -2 is written as `--2`, which is no number |

**Bounds.** The packet size is scaled from 512 to 8: lengths 3 and 4 make two metrics fit exactly (3+1+4), or
miss by the separator (4+1+4), and 9 is longer than a packet. Three metrics (four over TCP) fill, overflow and refill a buffer. Three frames
(`MaxDepth` 2, UDP) are a send, a handler in it and that handler's own send; five (TCP) allow one more level. Two clients cover a
close and a reopening. `UIntWord` 2^32 is scaled to 8, `TimeWord` 2^64 to 16 with a cap of 4, so
that a clock set back by one wraps above the cap. One database connection, two
SSH channels and two HOSTs reach every combination of registered handlers and clients: a HOST's outcome
depends only on the server moved to and on whether there was a client.

In `reentry` two database connections, one HOST and two interrupted exit handlers let an exit be cut after any of its
metrics, twice, with the count at 0, 1 and 2.

For `StatsdConfig`, three directives per parse configure one server fully and leave the other with the
engine only; one restart loses a configuration and may lose the module. The addresses are all forms of
two names, one of which is that of a scheme, and two IPv6 addresses, with nine malformed ones; ports are those of the code. The two servers are symmetric.

For `StatsdMetric`, four lines are enough for a gauge to be set, adjusted, set below zero and adjusted again;
`STATSD_MAX_TIME_MS` is scaled to 4, with times of 3 below and 5 above it. Samplings of 0.4, 1, 1.5, 25.5, 99.9 and 100
percent are below the smallest rate, at it, where the digits leave out most, between two others, and at the point where a rate disappears.
`Unit` is 27 * 37 * 17 * 13, so that all these and the rates printed for them divide 1000 * `Unit`.

**Deadlock** is not checked: the process exits, and the bounds end every run.

**Fairness** (for `SendsFinish` in `client_udp`). Strong fairness of the end of a call, for each stack depth; sends are at the odd depths
and handlers at the even ones.
A `sendto()` is interrupted again and again only if signals keep coming, and
is not so for ever; a handler is straight-line code. Stated per
depth, since the end of a nested call says nothing of the one below it. No
fairness is assumed of the API's callers, of the network's success, or of interrupts.

## 4. Proofs

| module | extends | theorems |
|---|---|---|
| `StatsdClient_proofs` | `StatsdClient` | `TypeCorrect`, `BatchingRespectsPacketSize`, `LengthCoversText` |
| `StatsdPipe_proofs` | `StatsdClient_proofs` | `UdpDrainedOnClose`, `UdpSendReadsLiveMemory`, `UdpIsPipe` |
| `StatsdStream_proofs` | `StatsdStream`, `StatsdClient_proofs` | `TcpAccounted`, `TcpSentWhenIdle`, `TcpAtMostOnce`, `StreamTypeCorrect`, `TcpOnlyNeighboursLost` |
| `StatsdSession_proofs` | `StatsdSession` | `TypeCorrect`, `EngineAndClientAgree`, `HostLeavesNothingBehind`, `MetricsGoToCurrentServer`, `DurationSpansHosts` |
| `StatsdGauges_proofs` | `StatsdSession_proofs` | `ConnectionsCounted`, `FtpSessionsCounted`, `ProtocolsCounted`, `SqlConnectionsCounted` |
| `StatsdReentry_proofs` | `StatsdReentry`, `StatsdGauges_proofs` | `ReentryTypeCorrect`, `ConnectionOffBounded`, `SqlOffBounded` |
| `StatsdMetric_proofs` | `StatsdMetric` | `TypeCorrect`, `GaugesOffByLowered`, `CountsAsMeant` |
| `StatsdConfig_proofs` | `StatsdConfig` | `TypeCorrect`, `AddressesUnderstood`, `ServersComplete` |

`StatsdClient_proofs`, for all values of the constants (assumption `ClientAssumption`):

* `TypeCorrect`: the type invariant is inductive; lemmas give the types of the stack operations.
* `BatchingRespectsPacketSize`, `LengthCoversText`: neither property is inductive, as a packet
  is a buffer that a frame took along some steps earlier, and a frame may hold a metric that waits for
  room. `BuffersInv` says of every frame what the properties say of the buffer and the packet.
  Storing a metric preserves it because of the packet-size test (`GoodStored`).
* `StackInv`, for the two modules that follow: sends and handlers alternate on the stack (`Nested`), and a client
  that is closed has no buffer and, while the process lives, no call in progress (`Closed`). `OnTop` and the lemmas on it say what is on the
  stack after a push, a pop and an interrupt.

`StatsdPipe_proofs`, if `Udp` (`Transports = {FALSE}`), with handlers that end the process or return.

* `PipeInv` is the invariant behind all three theorems. Until a handler returns, its heart is `SendsWhole`: a send that may still be resumed, because no handler
  above it has written anything, has as its `buf` the whole of the client's buffer. So what it
  sends is what is then cleared, the pool it reads is the client's own (`PoolLives`), and what is delivered comes before what waits (`Ordered`).
* After that, what such a send lacks of the buffer is `stranded` (`Covers`), so that nothing else is forgotten (`Kept`, which gives `UdpDrainedOnClose`).
  What a frame holds is also in every send above it and in the buffer, or was given to a `sendto()` (`Repeats`); so a frame whose pool is gone holds nothing that was not (`Stale`,
  which gives `UdpSendReadsLiveMemory`).
* `UdpIsPipe`: the client implements `MetricPipe`. Initial states map to initial states; `PipeRefined` shows that each step is one of the
  pipe or a stutter, the only steps that deliver being the ends of a `sendto()` (`Sent`).

`StatsdStream_proofs`, if `Tcp`: over TCP, with handlers that return or not, and writes of any part of a buffer.

* `TcpAccounted`, `TcpSentWhenIdle`, `TcpAtMostOnce` follow from `TcpInv`. Over TCP each write makes a
  buffer of its own metric, so every frame carries one metric or none (`OneMetricEach`), no two the same
  (`CarriedOnce`), none that was delivered (`Undelivered`), and each that was not tried is carried by some frame (`TriedOrCarried`).
  `BufferIsSent` is what makes a handler that returns harmless here: the client's buffer is empty except during its own send.
* `TcpOnlyNeighboursLost`: an incomplete line is that of the last metric delivered (`BegunIsSpoiled`), so only the next one can run into it.
  The proof uses `TcpInv` (one metric per send) and `BuffersInv` (a length that is not below that of the text), through `StreamIsClient`.
* `StreamTypeCorrect` needs no hypothesis.

`StatsdSession_proofs`, for all servers, configurations and bounds (assumption `SessionAssumption`):

* `TypeCorrect`.
* `EngineAndClientAgree`, `HostLeavesNothingBehind`, `MetricsGoToCurrentServer`, `DurationSpansHosts`,
  all from `SessionInv`. It adds that the process starts from empty statics (`Fresh`), has no client after
  a shutdown (`Down`), and that the session's start is the opening of its first client (`StartIsBegan`). `SessInitFresh` shows that
  `statsd_sess_init` establishes the invariant whatever was before, provided the exit handler was
  unregistered; `HandlerKeepsInv` covers all handlers that only write metrics.

`StatsdGauges_proofs`, under the same assumption. What is true of a gauge depends on what the session went through, so
`FlowInv` adds to `SessionInv` the history that the gauges presuppose: nothing before `statsd_sess_init` (`Unused`), HOST and AUTH TLS only
before a login (`LoginOrder`), a client with all handlers registered (`HandlersOfClient`), and no more clients than starts of a session or HOSTs
(`ClientPerStart`). The `Moves...` lemmas say what each list of metrics does to a gauge; then there is one step lemma per property, with one case per action.

* `ConnectionsCounted`: the connection gauge is the number of clients opened, less one after a reported exit.
* `FtpSessionsCounted`: `FtpGauge` strengthens `LoginGauge` to sessions that are not logged in and to every end of the process.
* `ProtocolsCounted`: each gauge is what was raised (`Raised`) less what an exit lowered (`Lowered`): `Balanced`, inductive with `FlowInv` where every
  virtual host has the module on and neither samples nor excludes.
* `SqlConnectionsCounted`: with the hypothesis `SqlFits`, that a session has fewer database connections than an
  unsigned int can count (2^32 in the code), and the invariant `SqlLoaded`: without mod_sql there are none.

`StatsdReentry_proofs`. The state a handler had when the session ended in it is not one that `FlowInv` describes, so
the invariants split by `within`: `Ordinary` (no handler was cut: `FlowInv` and `ConnectionGauge`), `Silenced` (cut
in `statsd_sess_init` or at a HOST: no exit handler is registered) and `Reporting` (cut elsewhere: the exit handler is registered and may have run in part). `Unopened` adds that a process that has opened no client has only its reinit handler registered.

* `ConnectionOffBounded`, over TCP and UDP and for any number of interrupted exit handlers. `InitBegun` and `CloseBegun` say what was given and what is still
  unsent after an end in `statsd_sess_init` or at a HOST; `ExitIsOrdered` fixes the order of an exit's metrics, and
  `WrittenMovesConnection` what a prefix of them has done to the gauge.
* `SqlOffBounded`, with `SqlFits`: the gauge, but for what the handler that was cut owes (`Owed`), is the module's count, or is
  `UIntWord` above 0 once an exit has reported.

`StatsdMetric_proofs`, for all names, values and limits (assumption `MetricAssumption`):

* `TypeCorrect`, which bounds the time a timer line may show.
* `GaugesOffByLowered`: `GaugesButLowered` is inductive together with the types. `FullNameIsRead` says that no name ends early, `SentMoves` what a line moves on the
  server and `AskedMoves` what a call moves in the callers' books; `GaugeMoves` puts them together for the two kinds of gauge lines.
* `CountsAsMeant`: `CountsNear`. `RateType` bounds the rate that is printed by the sampling (equal at a whole percentage, within a third or a half
  of itself from one percent on), `EachCompared` carries this over to what one event stands for, and `NearGrows` to the sums.
  That `Unit` is divisible is an assumption on the model's constant, not on the code.

`StatsdConfig_proofs`, for all servers, lines, hosts, ports and percentages (assumptions `ConfigAssumption` and `AddressAssumption`: hosts have no bracket or
slashes in them, and are not empty; ports are words of digits, 1 to 2^16 - 1):

* `TypeCorrect`, `ServersComplete`: the latter because a serving daemon's configuration has passed `PostParse` with the handler registered,
  or was read without the module and then has no directive of it (`Unread`).
* `AddressesUnderstood`: the parser inverts every form of an address. `LastColonIs` finds the last colon, by the least and greatest elements of
  a set of naturals (`Least`, `Greatest`, from well-foundedness); `NameParsed`, `BracketedParsed` and `NoSlashes` take the forms one by one;
  `RecordAsWritten` puts them together, and the invariant carries the record to the client.

So every invariant of the runs that pass, and the refinement of `MetricPipe`, is a theorem. Only model-checked: liveness (`SendsFinish`), which
is beyond the prover, and the properties of the runs that expect a violation, which are false.

## 5. Observations without a run

* Over UDP a returning handler that flushes makes the interrupted `sendto()` read a destroyed pool, and the same
  metrics are sent twice (`SendReadsLiveMemory` says that it does no more). Over TCP it does not: each write makes a buffer and a pool of its own. That text is
  allocated in the client's pool, which grows until the client is closed.
* A first metric longer than a packet is sent as it is; only batching respects the packet size.
* `connection` has a gauge but never the counter that `mod_statsd.html` names.
* `ftps.connection` is raised at AUTH TLS and lowered only for an authenticated session; several SFTP or SCP
  sessions in one connection raise their gauges each, and the exit lowers that of the last protocol. Without any, it
  lowers `ssh2.connection`, which nothing raises. `ProtocolGauges` states these amounts.
* A login whose PASS is excluded or not sampled does not raise the gauge that its exit lowers, although gauges "are NOT subject to
  sampling frequency" (`metric.c:166`); `LoginGauge` is about configurations that do neither. A session that ends between a login and its
  logging lowers it as well.
* A session that ends in the close of `statsd_sess_reinit_ev` leaves the connection gauge one higher. One that ends in the sends of
  `statsd_sess_init` may: its -1 never comes, but its +1 may not have come either, and over UDP does not if it is the session's first.
  One whose exit handler is interrupted may lower the gauge more than once (`ConnectionOff`).
* `StatsdSampling` is documented as 1 to 100 percent and accepts anything above 0: below half a percent a rate would be printed as
  `@0.00`, if the client had one. It accepts `nan` as well, with which `should_sample` always samples.
* A port above 65535 is cut to 16 bits, and one that is no number becomes 0. An address in brackets followed by anything but a
  colon and a port keeps its brackets.
* Prefix and suffix are not sanitized as names are: a colon in one would end the metric's name there.
* Log metrics are not flushed by their handler and wait for the next one that flushes, or are lost if the process is killed.
* A flush with nothing to send sends an empty datagram.
* An adjustment by 0 is written without a sign and would set the gauge to 0. No handler adjusts by 0.
* If the first virtual host has the module off, the session's start is the HOST to one that has it on.

## 6. Not modelled, and the plan

Not modelled: several sessions at once (gauges of one server add up, and sessions share nothing else), memory use
(over TCP the client's pool grows with every metric), lookups of protocol numbers, matching of regular expressions, the names of log
levels, ciphers and response codes, SIGPIPE, tests, build.

What remains of the plan: shorter proofs, where step lemmas of `StatsdGauges_proofs` and `StatsdReentry_proofs` repeat the same case split.
