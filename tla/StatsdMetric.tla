---------------------------- MODULE StatsdMetric ----------------------------
(***************************************************************************)
(* metric.c: what counters, timers and gauges look like on the wire, and   *)
(* what a statsd server makes of them.  A line is                          *)
(*     <prefix><name><suffix>:<value>|<type>[|@<rate>]                     *)
(* where the value of a gauge replaces the gauge, unless it has a sign,    *)
(* and that of a counter is divided by the rate, so that an event that is  *)
(* reported stands for those that were not sampled.  The server is         *)
(* external: it is modelled by the statsd protocol that the comments of    *)
(* metric.c and metric.h refer to.  No line is lost here, and none is too  *)
(* long; StatsdClient is about that.                                       *)
(***************************************************************************)
EXTENDS Integers, Sequences

CONSTANTS
  MetricNames,   \* names as handlers build them, sequences of characters
  Incrs, Times, Settings, Adjustments,   \* the values they give
  Clients,       \* what statsd_statsd_open() is given: the sampling, in
                 \* thousandths, and the prefix and suffix of names
  STATSD_MAX_TIME_MS,
  Unit,          \* counts are reckoned in parts of an event, Unit to the event
  MaxLines       \* bound: lines written

VARIABLES
  statsd,     \* the client
  line,       \* the last line written
  lines,      \* how many were
  asked,      \* what the callers made of each gauge and counter
  seen,       \* what the server made of them
  lowered     \* what each gauge was to be lowered by since it was last set

vars == <<statsd, line, lines, asked, seen, lowered>>
-----------------------------------------------------------------------------
(* sanitize_name(). *)
Cleaned(name) ==
  [i \in DOMAIN name |-> IF name[i] \in {":", "|", "@"} THEN "_" ELSE name[i]]

(* statsd_statsd_get_namespacing() gives prefix and suffix as they are. *)
Named(c, name) == c.prefix \o Cleaned(name) \o c.suffix

FullName(name) == Named(statsd, name)

Keys == {Named(c, name) : c \in Clients, name \in MetricNames}

NoLine == [type |-> "none", name |-> <<>>, sign |-> "", val |-> 0, rate |-> 100]

(* The line of write_metric(): val is printed after the sign, with a minus *)
(* of its own if it is negative; the rate is in hundredths, 100 for none.  *)
Line(type, name, sign, val, rate) ==
  [type |-> type, name |-> FullName(name), sign |-> sign, val |-> val, rate |-> rate]

(* Mutant: one digit, as "%.1f" prints. *)
RatesOneDigit(sampling) ==
  IF sampling >= 1000 THEN {100} ELSE {h \in 0..100 : h % 10 = 0 /\ 10 * h - sampling \in -50..50}

(* The rate for a sampling: none, or the two digits of "%.2f", which may   *)
(* round up or down from the middle, as the float is rarely exact.         *)
Rates(sampling) ==
  IF sampling >= 1000 THEN {100} ELSE {h \in 0..100 : 10 * h - sampling \in -5..5}

(* The events that one stands for if a rate (in thousandths) of them is    *)
(* reported, in parts of an event.                                         *)
Each(rate) == (1000 * Unit) \div rate

(* No caller counts down, or adjusts a gauge by 0; the parts of an event   *)
(* are small enough for every rate that is configured or printed.          *)
ASSUME MetricAssumption ==
  /\ MetricNames \subseteq Seq(STRING)
  /\ Incrs \subseteq Nat /\ Times \subseteq Nat
  /\ Settings \subseteq Int /\ Adjustments \subseteq Int \ {0}
  /\ \A c \in Clients : /\ c.sampling \in 1..1000
                         /\ c.prefix \in Seq(STRING) /\ c.suffix \in Seq(STRING)
  /\ STATSD_MAX_TIME_MS \in Nat /\ MaxLines \in Nat
  /\ Unit \in Nat \ {0}
  /\ \A c \in Clients :
       /\ (1000 * Unit) % c.sampling = 0
       /\ \A h \in Rates(c.sampling) : h > 0 => (1000 * Unit) % (10 * h) = 0

(* The server ends the name at the first colon. *)
ReadName(name) ==
  IF \E i \in DOMAIN name : name[i] = ":"
    THEN SubSeq(name, 1, (CHOOSE i \in DOMAIN name : /\ name[i] = ":"
                            /\ \A j \in 1..(i - 1) : name[j] # ":") - 1)
    ELSE name

(* It reads a number with at most one sign before it, and takes a gauge    *)
(* with a sign as an adjustment; anything else is no metric.  A count that *)
(* would have to be divided by 0 is dropped here, too: the protocol does   *)
(* not say what becomes of it, and no property is about that.              *)
Signed(l) == l.sign # "" \/ l.val < 0

Readable(l) == (l.sign = "" \/ l.val >= 0) /\ l.rate > 0

Number(l) == IF l.sign = "-" THEN 0 - l.val ELSE l.val

Totals == [type : {"c", "g"}, key : Keys]

(* What the line makes of a total of the server. *)
Reading(l, total) ==
  IF l.type = "c" THEN total + Number(l) * Each(10 * l.rate)
  ELSE IF Signed(l) THEN total + Number(l) ELSE Number(l)

Sent(l) ==
  /\ line' = l
  /\ lines' = lines + 1
  /\ LET at == [type |-> l.type, key |-> ReadName(l.name)]
     IN  seen' = IF at \in DOMAIN seen /\ Readable(l)
                   THEN [seen EXCEPT ![at] = Reading(l, @)] ELSE seen
  /\ UNCHANGED statsd

Asked(type, name, total) ==
  asked' = [asked EXCEPT ![[type |-> type, key |-> FullName(name)]] = total]

Total(type, name) == asked[[type |-> type, key |-> FullName(name)]]
-----------------------------------------------------------------------------
Init ==
  /\ statsd \in Clients
  /\ line = NoLine
  /\ lines = 0
  /\ asked = [at \in Totals |-> 0]
  /\ seen = asked
  /\ lowered = [key \in Keys |-> 0]

SamplingOf(ignore) == IF ignore THEN 1000 ELSE statsd.sampling

(* statsd_metric_counter(). *)
Counter(name, incr, ignore) ==
  /\ \E rate \in Rates(SamplingOf(ignore)) : Sent(Line("c", name, "", incr, rate))
  /\ Asked("c", name, Total("c", name) + incr * Each(SamplingOf(ignore)))
  /\ UNCHANGED lowered

(* A mutant: no limit of a year. *)
TimeUncapped(ms) == ms

Time(ms) == IF ms > STATSD_MAX_TIME_MS THEN STATSD_MAX_TIME_MS ELSE ms

(* statsd_metric_timer(). *)
Timer(name, ms, ignore) ==
  /\ \E rate \in Rates(SamplingOf(ignore)) : Sent(Line("ms", name, "", Time(ms), rate))
  /\ UNCHANGED <<asked, lowered>>

(* statsd_metric_gauge(), with and without STATSD_METRIC_FL_GAUGE_ADJUST.  *)
Sign(val) == IF val > 0 THEN "+" ELSE IF val < 0 THEN "-" ELSE ""

(* A mutant: a negative value is taken as it is. *)
NotNegativeUnchecked(val) == val

NotNegative(val) == IF val < 0 THEN 0 ELSE val

AdjustGauge(name, val) ==
  /\ Sent(Line("g", name, Sign(val), val, 100))
  /\ Asked("g", name, Total("g", name) + val)
  /\ lowered' = IF val < 0 THEN [lowered EXCEPT ![FullName(name)] = @ - val] ELSE lowered

SetGauge(name, val) ==
  /\ Sent(Line("g", name, "", NotNegative(val), 100))
  /\ Asked("g", name, IF val < 0 THEN 0 ELSE val)
  /\ lowered' = [lowered EXCEPT ![FullName(name)] = 0]

Next ==
  /\ lines < MaxLines
  /\ \E name \in MetricNames :
       \/ \E incr \in Incrs, ignore \in BOOLEAN : Counter(name, incr, ignore)
       \/ \E ms \in Times, ignore \in BOOLEAN : Timer(name, ms, ignore)
       \/ \E val \in Adjustments : AdjustGauge(name, val)
       \/ \E val \in Settings : SetGauge(name, val)

Spec == Init /\ [][Next]_vars
-----------------------------------------------------------------------------
(* Types; no timer exceeds the limit of statsd_metric_timer().             *)
TypeOK ==
  /\ statsd \in Clients
  /\ line.type = "ms" => line.val \in 0..STATSD_MAX_TIME_MS
  /\ line.rate \in 0..100
  /\ lines \in 0..MaxLines
  /\ asked \in [Totals -> Int]
  /\ seen \in [Totals -> Int]
  /\ lowered \in [Keys -> Nat]

(* The properties are about clients whose prefix and suffix have no colon, *)
(* which the code prints unchecked; after one the server reads a shorter   *)
(* name, and the metrics of all names with that prefix become one.         *)
Undivided ==
  /\ \A i \in DOMAIN statsd.prefix : statsd.prefix[i] # ":"
  /\ \A i \in DOMAIN statsd.suffix : statsd.suffix[i] # ":"

SeenOf(type, key) == seen[[type |-> type, key |-> key]]

AskedOf(type, key) == asked[[type |-> type, key |-> key]]

(* However a gauge is set and adjusted, what the server has is what the    *)
(* callers asked for, and a name with characters of the format in it does  *)
(* not break its line.  But what the gauge was to be lowered by since it   *)
(* was last set is lost, for such a line has two minus signs.              *)
GaugesButLowered ==
  Undivided => \A key \in Keys : SeenOf("g", key) = AskedOf("g", key) + lowered[key]

(* A counter's total on the server is the one asked for, if the sampling   *)
(* is a whole percentage; for others from one percent on the two digits    *)
(* that are printed of the rate put it off by a third or a half at most    *)
(* ("The configured percentage value must be between 1 and 100").          *)
CountsNear ==
  Undivided =>
    \A key \in Keys :
      LET given == SeenOf("c", key)
          meant == AskedOf("c", key)
      IN  /\ statsd.sampling % 10 = 0 => given = meant
          /\ statsd.sampling >= 10 => 3 * meant <= 4 * given /\ 2 * given <= 3 * meant

(* "for adjusting the existing gauge value, rather than setting it": the   *)
(* server's gauges are those that the callers asked for.  They are not,    *)
(* once one was lowered.                                                   *)
GaugesAsAsked ==
  Undivided => \A key \in Keys : SeenOf("g", key) = AskedOf("g", key)
=============================================================================
