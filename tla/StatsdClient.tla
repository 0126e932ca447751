---------------------------- MODULE StatsdClient ----------------------------
(***************************************************************************)
(* The statsd client of statsd.c: it buffers metrics into UDP datagrams,   *)
(* or sends each one at once over TCP.  One process uses it, but not one   *)
(* call at a time: send_metrics() runs pr_signals_handle() whenever        *)
(* sendto() is interrupted, which runs handlers of this same process, and  *)
(* those may call the client again while the first call is still in its    *)
(* sendto() loop.  The stack of such calls is the variable calls.          *)
(*                                                                         *)
(* Error returns (a null client, a null or empty metric) change nothing    *)
(* and have no action; tracing is left out.                                *)
(***************************************************************************)
EXTENDS Integers, Sequences, Functions

CONSTANTS
  STATSD_MAX_UDP_PACKET_SIZE,
  Transports,       \* the values of use_tcp a client may be opened with
  Lens,             \* what snprintf() returns for the metrics to be written
  MaxMetrics,       \* bound: metrics stored in a buffer
  MaxOpens,         \* bound: clients opened
  MaxDepth          \* bound: nested calls

ASSUME ClientAssumption ==
  /\ STATSD_MAX_UDP_PACKET_SIZE \in Nat /\ STATSD_MAX_UDP_PACKET_SIZE > 2
  /\ Transports \subseteq BOOLEAN
  /\ Lens \subseteq Nat \ {0}
  /\ MaxMetrics \in Nat /\ MaxOpens \in Nat /\ MaxDepth \in Nat

VARIABLES
  statsd,      \* struct statsd: use_tcp and fd; fd = "none" for NULL
  metrics,     \* struct statsd: metrics_pool, metrics_buf, metrics_buflen
  calls,       \* sends in progress, and the signal handlers run inside them
  opens,       \* clients opened so far
  next,        \* number of the next metric to be stored
  tried,       \* metrics that were in a sendto() that has returned
  packet,      \* the last buffer the network took
  delivered,   \* history: the numbers of the metrics the network took
  destroyed,   \* metrics pools destroyed
  alive,       \* FALSE once the process has exited
  returned,    \* history: TRUE once a handler that wrote a metric has returned
               \* into the send it interrupted
  stranded     \* history: the metrics that were in the buffer at such a
               \* return, but are not in the send it returned to

vars == <<statsd, metrics, calls, opens, next, tried, packet, delivered,
          destroyed, alive, returned, stranded>>
-----------------------------------------------------------------------------
(* A metric as write_metric() passes it: metric_len is what snprintf()     *)
(* returned, the text is what fitted the array of STATSD_MAX_METRIC_SIZE.  *)
STATSD_MAX_METRIC_SIZE == STATSD_MAX_UDP_PACKET_SIZE

Smaller(a, b) == IF a < b THEN a ELSE b

Formatted(n) == [len |-> n, text |-> Smaller(n, STATSD_MAX_METRIC_SIZE - 2)]

(* The buffer: the numbers of the metrics in metrics_buf, metrics_buflen,  *)
(* strlen(metrics_buf), and metrics_pool (0 for NULL, else the number of   *)
(* the metric it was made for).                                            *)
NoMetrics == [ids |-> <<>>, len |-> 0, text |-> 0, pool |-> 0]

Ids == Nat \ {0}

Buffers == [ids : Seq(Ids), len : Nat, text : Nat, pool : Nat]

Sizes == [len : Nat, text : Nat]

NoSize == [len |-> 0, text |-> 0]

(* A frame of the call stack: a send_metrics() of buf, whose caller then   *)
(*   "done"   clears the buffer and returns (a flush, or SEND_NOW),        *)
(*   "store"  clears it and goes on to store the metric it was making room *)
(*            for, sending that at once if now,                            *)
(*   "close"  clears it and frees the client,                              *)
(*   "exit"   does so in statsd_exit_ev, after which the process exits;    *)
(* or it is a handler that interrupted the frame below: "signal" until it  *)
(* first writes a metric, "handler" afterwards.                            *)
Frames == [then : {"done", "store", "close", "exit", "signal", "handler"},
           buf : Buffers, size : Sizes, now : BOOLEAN]

Sending(buf, then) ==
  [then |-> then, buf |-> buf, size |-> NoSize, now |-> FALSE]

MakingRoom(buf, size, now) ==
  [then |-> "store", buf |-> buf, size |-> size, now |-> now]

Signal ==
  [then |-> "signal", buf |-> NoMetrics, size |-> NoSize, now |-> FALSE]

Top == calls[Len(calls)]

Rest == SubSeq(calls, 1, Len(calls) - 1)

NULL == [use_tcp |-> FALSE, fd |-> "none"]

IsOpen == statsd.fd # "none"

InHandler == alive /\ calls # <<>> /\ Top.then \in {"signal", "handler"}

InSendto == alive /\ calls # <<>> /\ ~InHandler

(* Code of the process itself runs, rather than a sendto(). *)
InControl == alive /\ ~InSendto
-----------------------------------------------------------------------------
Init ==
  /\ statsd = NULL
  /\ metrics = NoMetrics
  /\ calls = <<>>
  /\ opens = 0
  /\ next = 1
  /\ tried = {}
  /\ packet = NoMetrics
  /\ delivered = <<>>
  /\ destroyed = {}
  /\ alive = TRUE
  /\ returned = FALSE
  /\ stranded = {}

(* statsd_statsd_open(), when the socket could be made and connected.      *)
Open(use_tcp) ==
  /\ InControl /\ calls = <<>> /\ ~IsOpen /\ opens < MaxOpens
  /\ statsd' = [use_tcp |-> use_tcp, fd |-> "open"]
  /\ opens' = opens + 1
  /\ UNCHANGED <<metrics, calls, next, tried, packet, delivered, destroyed,
                 alive, returned, stranded>>

(* statsd_statsd_set_fd(): "for testing purposes", with -1 in the tests.   *)
SetFd ==
  /\ InControl /\ calls = <<>> /\ IsOpen /\ statsd.fd = "open"
  /\ statsd' = [statsd EXCEPT !.fd = "bad"]
  /\ UNCHANGED <<metrics, calls, opens, next, tried, packet, delivered,
                 destroyed, alive, returned, stranded>>
-----------------------------------------------------------------------------
(* Mutants: each is a plausible slip in the definition that follows it.    *)
WouldOverflowNoSeparator(buf, size) ==
  buf.ids # <<>> /\ buf.len + size.len > STATSD_MAX_UDP_PACKET_SIZE

(* The packet size test of statsd_statsd_write(). *)
WouldOverflow(buf, size) ==
  buf.ids # <<>> /\ buf.len + size.len + 1 > STATSD_MAX_UDP_PACKET_SIZE

StoredNoSeparator(buf, id, size) ==
  IF buf.ids # <<>>
    THEN [buf EXCEPT !.ids = Append(@, id), !.len = @ + size.len,
                     !.text = @ + 1 + size.text]
    ELSE [ids |-> <<id>>, len |-> size.len, text |-> size.text, pool |-> id]

StoredNewlineUncounted(buf, id, size) ==
  IF statsd.use_tcp
    THEN [ids |-> <<id>>, len |-> size.len, text |-> size.text + 1, pool |-> id]
  ELSE IF buf.ids # <<>>
    THEN [buf EXCEPT !.ids = Append(@, id), !.len = @ + size.len + 1,
                     !.text = @ + 1 + size.text]
  ELSE [ids |-> <<id>>, len |-> size.len, text |-> size.text, pool |-> id]

(* The buffer once metric number id is stored in it.  A metric sent over   *)
(* TCP replaces the buffer and gains a newline; over UDP it starts a       *)
(* buffer, in a new pool, or is appended to the one there is.              *)
Stored(buf, id, size) ==
  IF statsd.use_tcp
    THEN [ids |-> <<id>>, len |-> size.len + 1, text |-> size.text + 1,
          pool |-> id]
  ELSE IF buf.ids # <<>>
    THEN [buf EXCEPT !.ids = Append(@, id), !.len = @ + size.len + 1,
                     !.text = @ + 1 + size.text]
  ELSE [ids |-> <<id>>, len |-> size.len, text |-> size.text, pool |-> id]

StoreBuffersTcp(rest, buf, size, now) ==
  LET stored == Stored(buf, next, size)
  IN  /\ metrics' = stored
      /\ next' = next + 1
      /\ calls' = IF now THEN Append(rest, Sending(stored, "done")) ELSE rest

(* The rest of statsd_statsd_write(), once there is room in buf; rest is   *)
(* the stack it returns to.  SEND_NOW is implied by TCP.                   *)
Store(rest, buf, size, now) ==
  LET stored == Stored(buf, next, size)
  IN  /\ metrics' = stored
      /\ next' = next + 1
      /\ calls' = IF now \/ statsd.use_tcp
                    THEN Append(rest, Sending(stored, "done"))
                    ELSE rest

Caller ==
  IF InHandler THEN Append(Rest, [Top EXCEPT !.then = "handler"]) ELSE calls

Write(n, now) ==
  /\ InControl /\ IsOpen
  /\ next <= MaxMetrics \/ (InHandler /\ Top.then = "signal")
  /\ IF ~statsd.use_tcp /\ WouldOverflow(metrics, Formatted(n))
       THEN /\ calls' = Append(Caller, MakingRoom(metrics, Formatted(n), now))
            /\ UNCHANGED <<metrics, next>>
       ELSE Store(Caller, metrics, Formatted(n), now)
  /\ UNCHANGED <<statsd, opens, tried, packet, delivered, destroyed, alive,
                 returned, stranded>>

SendAllCloseDrops(then) ==
  /\ InControl /\ IsOpen
  /\ calls # <<>> => Top.then = "handler" /\ then # "close"
  /\ calls' = Append(calls, Sending(IF then = "done" THEN metrics ELSE NoMetrics, then))
  /\ UNCHANGED <<statsd, metrics, opens, next, tried, packet, delivered,
                 destroyed, alive, returned, stranded>>

(* statsd_statsd_flush() and statsd_statsd_close(), the latter for a new   *)
(* client ("close") or by statsd_exit_ev ("exit"), send what there is,     *)
(* even nothing.  A handler has written a metric before it does; of the    *)
(* two closes only the exit happens in a handler.                          *)
SendAll(then) ==
  /\ InControl /\ IsOpen
  /\ calls # <<>> => Top.then = "handler" /\ then # "close"
  /\ calls' = Append(calls, Sending(metrics, then))
  /\ UNCHANGED <<statsd, metrics, opens, next, tried, packet, delivered,
                 destroyed, alive, returned, stranded>>
-----------------------------------------------------------------------------
SendtoRetriesErrors(ok) ==
  /\ InSendto /\ ok /\ statsd.fd = "open"
  /\ tried' = tried \cup Range(Top.buf.ids)
  /\ IF Top.buf.ids # <<>>
       THEN packet' = Top.buf /\ delivered' = delivered \o Top.buf.ids
       ELSE UNCHANGED <<packet, delivered>>

(* send_metrics(), when sendto() returns other than EINTR: all of the      *)
(* buffer taken, or an error, which is traced and otherwise ignored.  The  *)
(* empty buffer of a flush with nothing to send carries no metric.         *)
SendtoReturns(ok) ==
  /\ InSendto
  /\ ok => statsd.fd = "open"
  /\ tried' = tried \cup Range(Top.buf.ids)
  /\ IF ok /\ Top.buf.ids # <<>>
       THEN packet' = Top.buf /\ delivered' = delivered \o Top.buf.ids
       ELSE UNCHANGED <<packet, delivered>>

(* The pool that metrics_buf is allocated from: for TCP that of the client *)
(* (0), for UDP the metrics pool.                                          *)
TextPool(buf) == IF statsd.use_tcp THEN 0 ELSE buf.pool

ClearPoolUnguarded == destroyed' = destroyed \cup {metrics.pool}

(* clear_metrics() destroys the pool that is the current one by then.      *)
ClearPool == destroyed' = destroyed \cup ({metrics.pool} \ {0})

ReturnKeepsBuffer(ok) ==
  /\ SendtoReturns(ok) /\ Top.then = "done"
  /\ ClearPool
  /\ calls' = Rest
  /\ UNCHANGED <<statsd, metrics, opens, next, alive, returned, stranded>>

(* The send of a flush, or of a metric to be sent now, is over.            *)
Return(ok) ==
  /\ SendtoReturns(ok) /\ Top.then = "done"
  /\ ClearPool
  /\ metrics' = NoMetrics
  /\ calls' = Rest
  /\ UNCHANGED <<statsd, opens, next, alive, returned, stranded>>

(* statsd_statsd_write() has made room, and stores its metric.             *)
ReturnToStore(ok) ==
  /\ SendtoReturns(ok) /\ Top.then = "store"
  /\ ClearPool
  /\ Store(Rest, NoMetrics, Top.size, Top.now)
  /\ UNCHANGED <<statsd, opens, alive, returned, stranded>>

(* The client is freed; at an exit the process is gone as well, and with   *)
(* it the calls that were interrupted.                                     *)
ReturnToClose(ok) ==
  /\ SendtoReturns(ok) /\ Top.then \in {"close", "exit"}
  /\ ClearPool
  /\ metrics' = NoMetrics
  /\ statsd' = NULL
  /\ calls' = Rest
  /\ alive' = (Top.then # "exit")
  /\ UNCHANGED <<opens, next, returned, stranded>>

(* sendto() fails with EINTR and pr_signals_handle() runs a handler.  When *)
(* it returns, the sendto() of the frame below is issued again.            *)
Interrupt ==
  /\ InSendto /\ Len(calls) < MaxDepth /\ next <= MaxMetrics
  /\ calls' = Append(calls, Signal)
  /\ UNCHANGED <<statsd, metrics, opens, next, tried, packet, delivered,
                 destroyed, alive, returned, stranded>>

(* A handler returns; what it wrote and did not send stays in the buffer,   *)
(* which the send it interrupted will clear.                               *)
HandlerReturns ==
  /\ InHandler
  /\ calls' = Rest
  /\ IF Top.then = "handler"
       THEN /\ returned' = TRUE
            /\ stranded' = stranded
                 \cup (Range(metrics.ids) \ Range(calls[Len(calls) - 1].buf.ids))
       ELSE UNCHANGED <<returned, stranded>>
  /\ UNCHANGED <<statsd, metrics, opens, next, tried, packet, delivered,
                 destroyed, alive>>

Api ==
  \/ \E use_tcp \in Transports : Open(use_tcp)
  \/ SetFd
  \/ \E n \in Lens, now \in BOOLEAN : Write(n, now)
  \/ \E then \in {"done", "close", "exit"} : SendAll(then)

SendEnds == \E ok \in BOOLEAN : Return(ok) \/ ReturnToStore(ok) \/ ReturnToClose(ok)

Next == Api \/ SendEnds \/ Interrupt \/ HandlerReturns

(* A handler is straight-line code, so it comes to its end; and no send is *)
(* interrupted for ever: sendto() is at last left to return.  Stated per   *)
(* depth, for a nested call that ends does not speak for those below it;   *)
(* sends are at the odd depths, and handlers at the even ones.             *)
HandlerEnds ==
  InHandler /\ (HandlerReturns \/ SendAll("exit") \/ \E n \in Lens : Write(n, FALSE))

Fairness ==
  \A d \in 1..(MaxDepth + 1) : SF_vars(Len(calls) = d /\ (SendEnds \/ HandlerEnds))

Spec == Init /\ [][Next]_vars

FairSpec == Spec /\ Fairness
-----------------------------------------------------------------------------
TypeOK ==
  /\ statsd \in [use_tcp : BOOLEAN, fd : {"none", "open", "bad"}]
  /\ metrics \in Buffers
  /\ calls \in Seq(Frames)
  /\ opens \in Nat
  /\ next \in Ids
  /\ tried \subseteq Ids
  /\ packet \in Buffers
  /\ delivered \in Seq(Ids)
  /\ destroyed \subseteq Ids
  /\ alive \in BOOLEAN
  /\ returned \in BOOLEAN
  /\ stranded \subseteq Ids

Stores == 1..(next - 1)

InFlight == UNION {Range(calls[i].buf.ids) : i \in DOMAIN calls}

(* A datagram exceeds STATSD_MAX_UDP_PACKET_SIZE ("We'll use a maximum UDP *)
(* packet size of 512 bytes") only if a single metric does so by itself:   *)
(* batching metrics, across flushes and nested calls, never leads to one.  *)
OversizeOnlyAlone ==
  \A buf \in {metrics, packet} :
    /\ ~statsd.use_tcp /\ buf.len > STATSD_MAX_UDP_PACKET_SIZE
    => Len(buf.ids) <= 1

(* metrics_buflen is kept apart from the string it measures, and at every  *)
(* point covers all of it: no send leaves the end of the buffer behind.    *)
LenCoversText == metrics.len >= metrics.text /\ packet.len >= packet.text

(* However the calls interleave, a metric that was stored is still in the  *)
(* buffer, in a send in progress, or was given to a sendto(): clearing the *)
(* buffer drops none ("Flush any buffered pending metrics").               *)
Accounted == Stores \subseteq tried \cup Range(metrics.ids) \cup InFlight

(* Over UDP a closed client has tried to send every metric it stored, also *)
(* when the close interrupts a send that will not be resumed.  Only what a *)
(* handler left in the buffer when it returned into a send may be lost.    *)
DrainedOnClose == ~IsOpen => Stores \subseteq tried \cup stranded

(* The whole client is a lossy pipe that neither repeats nor reorders, for *)
(* as long as no handler that wrote a metric has returned into a send.     *)
Pipe == INSTANCE MetricPipe WITH accepted <- next - 1, orderly <- ~returned

PipeSpec == Pipe!Spec

(* A call in its sendto() loop gets out of it. *)
SendsFinish == InSendto ~> (calls = <<>> \/ ~alive)

(* Over TCP nothing waits for a flush: once no call is in progress, every  *)
(* metric was given to a sendto() ("for TCP we will have sent them         *)
(* already").                                                              *)
TcpSentOnReturn == calls = <<>> /\ alive => Stores \subseteq tried

(* Over TCP no metric is sent twice, even if calls nest. *)
AtMostOnce == \A i, j \in DOMAIN delivered : delivered[i] = delivered[j] => i = j

(* The text that a sendto() reads is in a pool that still exists: the      *)
(* pool goes away in clear_metrics() only together with the buffer in it.  *)
(* Over UDP a send that is resumed after a handler flushed and returned    *)
(* does read from a pool that is gone, but no other send does, and what it *)
(* would send had all been given to a sendto() before.                     *)
SendReadsLiveMemory ==
  InSendto /\ TextPool(Top.buf) \in destroyed
    => returned /\ Range(Top.buf.ids) \subseteq tried

(* "The max length of a single metric is the same as the max packet size": *)
(* with metrics within it every byte of a packet is text of a metric or a  *)
(* separator.  It is not so: the run client_stray_bytes shows how.         *)
PacketIsText == packet.len = packet.text
=============================================================================
